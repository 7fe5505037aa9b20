--------------------------- MODULE CacheDirProofs ---------------------------
(***************************************************************************)
(* CacheDir for any number of calls, hashes and silos: the cache holds     *)
(* only what it says it holds, keeps it, and implements WareStore.         *)
(***************************************************************************)
EXTENDS CacheDir, TLAPS

\* What makes CacheIntegrity inductive: an arena about to be renamed has been
\* verified, and a call that lost the race has seen the winner's commit.
Verified == \A c \in Calls :
  pc[c] = "rename" => want[c] \in Hashes /\ arena[c] = want[c]
Lost == \A c \in Calls :
  pc[c] = "discard" => want[c] \in Hashes /\ cache[want[c]] # None
NotStaged == \A c \in Calls : pc[c] \in {"idle", "stat", "silo"} => arena[c] = None

IInv == /\ TypeOK
        /\ CacheIntegrity
        /\ ServedFromCache
        /\ Verified
        /\ Lost
        /\ NotStaged

LEMMA DistinctContents ==
  /\ None \notin Content /\ Partial \notin Content /\ NoHash \notin Content
  /\ None # NoHash /\ Partial # NoHash /\ Hashes \subseteq Content
BY ContentAssumption DEF Content

-----------------------------------------------------------------------------
LEMMA InitInv == Init => IInv
<1> USE DEF Init, IInv
<1>1. Init => TypeOK
  <2>1. 1 \in 1 .. NSilos + 1  BY NSilosAssumption
  <2>2. NoHash \in Ids /\ "tar" \in Kinds  BY DEF Ids, Kinds
  <2>3. QED  BY <2>1, <2>2 DEF TypeOK
<1>2. Init => CacheIntegrity  BY DEF CacheIntegrity
<1>3. Init => ServedFromCache  BY DEF ServedFromCache
<1>4. Init => Verified /\ Lost /\ NotStaged  BY DEF Verified, Lost, NotStaged
<1>5. QED  BY <1>1, <1>2, <1>3, <1>4

\* One lemma per action: each keeps the inductive invariant.
LEMMA MaterializeInv ==
  ASSUME IInv, NEW c \in Calls, NEW h \in Ids, NEW k \in Kinds, NEW a \in BOOLEAN,
         Materialize(c, h, k, a)
  PROVE  IInv'
<1> USE DEF IInv, Materialize, Goto, TypeOK, Busy, Ended
<1>1. TypeOK'  BY NSilosAssumption
<1>2. CacheIntegrity'  BY DEF CacheIntegrity
<1>3. ServedFromCache'  BY DEF ServedFromCache
<1>4. Verified' /\ Lost' /\ NotStaged'  BY DEF Verified, Lost, NotStaged
<1>5. QED  BY <1>1, <1>2, <1>3, <1>4

LEMMA StatInv == ASSUME IInv, NEW c \in Calls, Stat(c) PROVE IInv'
<1> USE DEF IInv, Stat, Goto, TypeOK, Busy, Ended
<1>1. TypeOK'  OBVIOUS
<1>2. CacheIntegrity'  BY DEF CacheIntegrity
<1>3. ServedFromCache'  BY DEF ServedFromCache, Cached, CacheIntegrity, NotStaged
<1>4. Verified' /\ Lost' /\ NotStaged'  BY DEF Verified, Lost, NotStaged
<1>5. QED  BY <1>1, <1>2, <1>3, <1>4

LEMMA FetchInv == ASSUME IInv, NEW c \in Calls, Fetch(c) PROVE IInv'
<1> USE DEF IInv, NextSilo, AbortSilo, AbortObject, NoSiloLeft, PickSilo, Trying, Goto,
            TypeOK, Busy, Ended
<1>1. TypeOK'
  <2>1. CASE NextSilo(c)  BY <2>1, NSilosAssumption
  <2>2. CASE AbortSilo(c) \/ AbortObject(c)  BY <2>2
  <2>3. CASE NoSiloLeft(c)  BY <2>3
  <2>4. CASE PickSilo(c)  BY <2>4
  <2>5. QED  BY <2>1, <2>2, <2>3, <2>4 DEF Fetch
<1>2. CacheIntegrity'  BY DEF CacheIntegrity, Fetch
<1>3. ServedFromCache'  BY DEF ServedFromCache, Fetch
<1>4. NotStaged'  BY DEF NotStaged, Fetch
<1>5. Verified' /\ Lost'  BY DEF Verified, Lost, Fetch
<1>6. QED  BY <1>1, <1>2, <1>3, <1>4, <1>5

LEMMA ExtractInv == ASSUME IInv, NEW c \in Calls, Extract(c) PROVE IInv'
<1> USE DEF IInv, Extract, Goto, TypeOK, Busy, Ended
<1>1. TypeOK'
  <2>1. ASSUME NEW y \in Content, arena' = [arena EXCEPT ![c] = y], Goto(c, "verify")
        PROVE  TypeOK'
    BY <2>1
  <2>2. CASE Goto(c, "failed") /\ UNCHANGED arena  BY <2>2
  <2>3. QED  BY <2>1, <2>2
<1>2. CacheIntegrity'  BY DEF CacheIntegrity
<1>3. ServedFromCache'  BY DEF ServedFromCache
<1>4. Verified' /\ Lost' /\ NotStaged'  BY DEF Verified, Lost, NotStaged
<1>5. QED  BY <1>1, <1>2, <1>3, <1>4

LEMMA VerifyInv == ASSUME IInv, NEW c \in Calls, Verify(c) PROVE IInv'
<1> USE DEF IInv, Verify, Goto, TypeOK, Busy, Ended
<1>1. arena[c] = want[c] => want[c] \in Hashes
  BY DistinctContents DEF Ids
<1>2. TypeOK'  BY DEF Accepted
<1>3. CacheIntegrity'  BY DEF CacheIntegrity
<1>4. ServedFromCache'
  BY <1>1, ContentAssumption DEF ServedFromCache, Accepted
<1>5. Verified' /\ Lost' /\ NotStaged'
  BY <1>1, ContentAssumption DEF Verified, Lost, NotStaged, Accepted
<1>6. QED  BY <1>2, <1>3, <1>4, <1>5

LEMMA RenameInv == ASSUME IInv, NEW c \in Calls, Rename(c) PROVE IInv'
<1> USE DEF IInv, Rename, Goto, TypeOK, Busy, Ended
<1>1. want[c] \in Hashes /\ arena[c] = want[c]  BY DEF Verified
<1>2. TypeOK'  BY <1>1, DistinctContents
<1>3. CacheIntegrity'  BY <1>1 DEF CacheIntegrity
<1>4. ServedFromCache'  BY <1>1 DEF ServedFromCache
<1>5. NotStaged'  BY DEF NotStaged
<1>6. Verified' /\ Lost'  BY <1>1, ContentAssumption DEF Verified, Lost
<1>7. QED  BY <1>2, <1>3, <1>4, <1>5, <1>6

LEMMA RenameRefusedInv == ASSUME IInv, NEW c \in Calls, RenameRefused(c) PROVE IInv'
<1> USE DEF IInv, RenameRefused, Goto, TypeOK, Busy, Ended
<1>1. TypeOK'  OBVIOUS
<1>2. CacheIntegrity'  BY DEF CacheIntegrity
<1>3. ServedFromCache'  BY DEF ServedFromCache
<1>4. Verified' /\ Lost' /\ NotStaged'  BY DEF Verified, Lost, NotStaged, Vacant
<1>5. QED  BY <1>1, <1>2, <1>3, <1>4

LEMMA RenameFailsInv == ASSUME IInv, NEW c \in Calls, RenameFails(c) PROVE IInv'
<1> USE DEF IInv, RenameFails, Goto, TypeOK, Busy, Ended
<1>1. TypeOK'  OBVIOUS
<1>2. CacheIntegrity'  BY DEF CacheIntegrity
<1>3. ServedFromCache'  BY DEF ServedFromCache
<1>4. Verified' /\ Lost' /\ NotStaged'  BY DEF Verified, Lost, NotStaged
<1>5. QED  BY <1>1, <1>2, <1>3, <1>4

LEMMA DiscardInv == ASSUME IInv, NEW c \in Calls, Discard(c) PROVE IInv'
<1> USE DEF IInv, Discard, Goto, TypeOK, Busy, Ended
<1>1. TypeOK'  OBVIOUS
<1>2. CacheIntegrity'  BY DEF CacheIntegrity
<1>3. ServedFromCache'  BY DEF ServedFromCache, Lost, CacheIntegrity
<1>4. Verified' /\ Lost' /\ NotStaged'  BY DEF Verified, Lost, NotStaged
<1>5. QED  BY <1>1, <1>2, <1>3, <1>4

LEMMA ReturnOrCrashInv ==
  ASSUME IInv, (\E c \in Calls : Return(c)) \/ Crash PROVE IInv'
<1> USE DEF IInv, Return, Crash, Goto, TypeOK, Busy, Ended
<1>1. TypeOK'
  <2>1. 1 \in 1 .. NSilos + 1 /\ "tar" \in Kinds  BY NSilosAssumption DEF Kinds
  <2>2. ASSUME NEW c \in Calls, Return(c) PROVE TypeOK'
    BY <2>1, <2>2
  <2>3. CASE Crash
    <3>1. want' \in [Calls -> Ids] /\ cache' \in [Hashes -> Content \cup {None}]
      BY <2>3
    <3>2. pc' = [c \in Calls |-> "idle"] /\ arena' = [c \in Calls |-> None]  BY <2>3
    <3>3. kind' = [c \in Calls |-> "tar"] /\ accept' = [c \in Calls |-> FALSE]
          /\ at' = [c \in Calls |-> 1]
      BY <2>3
    <3>4. QED  BY <2>1, <3>1, <3>2, <3>3
  <2>4. QED  BY <2>2, <2>3
<1>2. CacheIntegrity'  BY DEF CacheIntegrity
<1>3. ServedFromCache'  BY DEF ServedFromCache
<1>4. Verified' /\ Lost' /\ NotStaged'  BY DEF Verified, Lost, NotStaged
<1>5. QED  BY <1>1, <1>2, <1>3, <1>4

LEMMA NextInv == IInv /\ [Next]_vars => IInv'
<1> SUFFICES ASSUME IInv, [Next]_vars PROVE IInv'
  OBVIOUS
<1>1. ASSUME NEW c \in Calls, NEW h \in Ids, NEW k \in Kinds, NEW a \in BOOLEAN,
             Materialize(c, h, k, a)
      PROVE  IInv'
  BY <1>1, MaterializeInv
<1>2. ASSUME NEW c \in Calls, Step(c) PROVE IInv'
  BY <1>2, StatInv, FetchInv, ExtractInv, VerifyInv, RenameInv, RenameRefusedInv,
     RenameFailsInv, DiscardInv DEF Step, Unpack
<1>3. ASSUME (\E c \in Calls : Return(c)) \/ Crash PROVE IInv'
  BY <1>3, ReturnOrCrashInv
<1>4. CASE UNCHANGED vars
  BY <1>4 DEF vars, IInv, TypeOK, CacheIntegrity, ServedFromCache,
     Verified, Lost, NotStaged
<1>5. QED  BY <1>1, <1>2, <1>3, <1>4 DEF Next

LEMMA Invariance == Spec => []IInv
BY InitInv, NextInv, PTL DEF Spec
-----------------------------------------------------------------------------
\* Every variable stays in its type (dircacher.go:68-108).
THEOREM TypeCorrect == Spec => []TypeOK
BY Invariance, PTL DEF IInv

\* Nothing is ever committed under a hash it does not have (dircacher.go:87).
THEOREM CacheIsSound == Spec => []CacheIntegrity
BY Invariance, PTL DEF IInv

\* Every arena handed out for a hash names the committed path, and the call that got
\* it owns nothing in staging (dircacher.go:99,107).  That ware is there, unless the
\* stat failed, and even then nothing else is (dircacher.go:80-81).
THEOREM ServedIsSound == Spec => []ServedFromCache
BY Invariance, PTL DEF IInv

\* A step changes a committed ware only by putting the same ware in its place.
LEMMA StepKeepsCommitted ==
  ASSUME IInv, [Next]_vars, NEW h \in Hashes, cache[h] # None
  PROVE  cache'[h] = cache[h]
<1>1. ASSUME NEW c \in Calls, Rename(c) PROVE cache'[h] = cache[h]
  <2>1. arena[c] = want[c]  BY <1>1 DEF IInv, Verified, Rename
  <2>2. cache[h] = h  BY DEF IInv, CacheIntegrity
  <2>3. QED  BY <1>1, <2>1, <2>2 DEF Rename, IInv, TypeOK
<1>2. CASE UNCHANGED cache  BY <1>2
<1>3. (\E c \in Calls : Rename(c)) \/ UNCHANGED cache
  BY DEF Next, vars, Step, Fetch, Unpack, Materialize, Stat, NextSilo, AbortSilo,
     AbortObject, NoSiloLeft, PickSilo, Extract, Verify, RenameRefused, RenameFails, Discard,
     Return, Crash
<1>4. QED  BY <1>1, <1>2, <1>3

\* A committed ware stays what it is for the jobs that use it.
THEOREM CommittedIsKept == Spec => CacheOnlyGrows
<1>1. IInv /\ [Next]_vars => [\A h \in Hashes : cache[h] # None => cache'[h] = cache[h]]_vars
  BY StepKeepsCommitted
<1>2. QED  BY <1>1, Invariance, PTL DEF Spec, CacheOnlyGrows
-----------------------------------------------------------------------------
\* The refinement.  The hashes whose committed content is right are the kept
\* wares; the state of a call forgets how far the fetch has come.
Kept == {h \in Hashes : cache[h] = h}
Seen == [c \in Calls |-> CASE pc[c] = "idle" -> "idle"
                            [] pc[c] = "done" -> "served"
                            [] pc[c] = "assumed" -> "trusted"
                            [] pc[c] = "failed" -> "failed"
                            [] OTHER -> "waiting"]

LEMMA InitRefines == Init => Store!Init
<1>1. Init => Kept = {}  BY ContentAssumption DEF Init, Kept
<1>2. Init => Seen = [c \in Calls |-> "idle"]  BY DEF Init, Seen
<1>3. QED  BY <1>1, <1>2 DEF Store!Init, Init, Kept, Seen

\* A step inside a call that commits nothing and answers nothing.
LEMMA InnerStepStutters ==
  ASSUME IInv, NEW c \in Calls, NEW l \in Busy, pc[c] \in Busy, Goto(c, l),
         UNCHANGED <<cache, want>>
  PROVE  UNCHANGED Store!vars
<1>1. Seen' = Seen  BY DEF Seen, Goto, IInv, TypeOK, Busy, Ended
<1>2. QED  BY <1>1 DEF Store!vars, Seen

\* A step that answers a call with an error.
LEMMA FailingStepFails ==
  ASSUME IInv, NEW c \in Calls, pc[c] \in Busy, Goto(c, "failed"),
         UNCHANGED <<cache, want>>
  PROVE  Store!Fail(c)
<1>1. Seen[c] = "waiting"  BY DEF Seen, Busy
<1>2. Seen' = [Seen EXCEPT ![c] = "failed"]  BY DEF Seen, Goto, IInv, TypeOK
<1>3. QED  BY <1>1, <1>2 DEF Store!Fail, Seen

\* The step of a call whose stat failed, which commits nothing.
LEMMA BlindStepTrusts ==
  ASSUME IInv, NEW c \in Calls, pc[c] \in Busy, Goto(c, "assumed"),
         UNCHANGED <<cache, want>>
  PROVE  Store!Trust(c)
<1>1. Seen[c] = "waiting"  BY DEF Seen, Busy
<1>2. Seen' = [Seen EXCEPT ![c] = "trusted"]  BY DEF Seen, Goto, IInv, TypeOK
<1>3. QED  BY <1>1, <1>2 DEF Store!Trust, Seen

\* A step that answers a call whose ware is in the cache after the step, where
\* no other ware was touched.
LEMMA ServingStepServes ==
  ASSUME IInv, NEW c \in Calls, pc[c] \in Busy, Goto(c, "done"),
         want[c] \in Hashes, want' = want, Kept' = Kept \cup {want[c]}
  PROVE  Store!Serve(c)
<1>1. Seen[c] = "waiting"  BY DEF Seen, Busy
<1>2. Seen' = [Seen EXCEPT ![c] = "served"]  BY DEF Seen, Goto, IInv, TypeOK
<1>3. QED  BY <1>1, <1>2 DEF Store!Serve, Seen, Kept

LEMMA StepRefines ==
  ASSUME IInv, NEW c \in Calls, Step(c)
  PROVE  Store!Serve(c) \/ Store!Trust(c) \/ Store!Fail(c) \/ UNCHANGED Store!vars
<1> USE DEF Busy
<1>1. CASE Stat(c)
  <2>1. CASE Cached(c) /\ Goto(c, "done")
    <3>1. Kept' = Kept \cup {want[c]}
      BY <1>1, <2>1 DEF Stat, Cached, Kept, IInv, CacheIntegrity
    <3>2. QED  BY <1>1, <2>1, <3>1, ServingStepServes DEF Stat, Cached
  <2>2. CASE ~Cached(c) /\ Goto(c, "silo")  BY <1>1, <2>2, InnerStepStutters DEF Stat
  <2>3. CASE Goto(c, "assumed")  BY <1>1, <2>3, BlindStepTrusts DEF Stat
  <2>4. QED  BY <1>1, <2>1, <2>2, <2>3 DEF Stat
<1>2. CASE NextSilo(c)  BY <1>2 DEF NextSilo, Store!vars
<1>3. CASE AbortSilo(c) \/ AbortObject(c) \/ NoSiloLeft(c)
  BY <1>3, FailingStepFails DEF AbortSilo, AbortObject, NoSiloLeft, Trying
<1>4. CASE PickSilo(c)  BY <1>4, InnerStepStutters DEF PickSilo, Trying
<1>5. CASE Extract(c)  BY <1>5, InnerStepStutters, FailingStepFails DEF Extract
<1>6. CASE Verify(c)
  <2>1. CASE arena[c] = want[c]
    <3>1. want[c] \in Hashes  BY <1>6, <2>1, DistinctContents DEF Verify, IInv, TypeOK, Ids
    <3>2. Goto(c, "rename")  BY <1>6, <2>1, <3>1, ContentAssumption DEF Verify, Accepted
    <3>3. QED  BY <1>6, <3>2, InnerStepStutters DEF Verify
  <2>2. CASE arena[c] # want[c]  BY <1>6, <2>2, FailingStepFails DEF Verify
  <2>3. QED  BY <2>1, <2>2
<1>7. CASE Rename(c)
  <2>1. want[c] \in Hashes /\ arena[c] = want[c]  BY <1>7 DEF Rename, IInv, Verified
  <2>2. Kept' = Kept \cup {want[c]}  BY <1>7, <2>1 DEF Rename, Kept, IInv, TypeOK
  <2>3. QED  BY <1>7, <2>1, <2>2, ServingStepServes DEF Rename
<1>8. CASE RenameRefused(c) \/ RenameFails(c)
  BY <1>8, InnerStepStutters, FailingStepFails DEF RenameRefused, RenameFails
<1>9. CASE Discard(c)
  <2>1. want[c] \in Hashes /\ cache[want[c]] = want[c]
    BY <1>9 DEF Discard, IInv, Lost, CacheIntegrity
  <2>2. Kept' = Kept \cup {want[c]}  BY <1>9, <2>1 DEF Discard, Kept
  <2>3. QED  BY <1>9, <2>1, <2>2, ServingStepServes, FailingStepFails DEF Discard
<1>10. QED  BY <1>1, <1>2, <1>3, <1>4, <1>5, <1>6, <1>7, <1>8, <1>9
      DEF Step, Fetch, Unpack

LEMMA NextRefines == IInv /\ [Next]_vars => [Store!Next]_(Store!vars)
<1> SUFFICES ASSUME IInv, [Next]_vars PROVE [Store!Next]_(Store!vars)
  OBVIOUS
<1>1. ASSUME NEW c \in Calls, NEW h \in Ids, NEW k \in Kinds, NEW a \in BOOLEAN,
             Materialize(c, h, k, a)
      PROVE  Store!Next
  <2>1. Seen[c] = "idle"  BY <1>1 DEF Materialize, Seen
  <2>2. Seen' = [Seen EXCEPT ![c] = "waiting"]
    BY <1>1 DEF Materialize, Seen, Goto, IInv, TypeOK
  <2>3. Store!Ask(c, h)  BY <1>1, <2>1, <2>2 DEF Store!Ask, Materialize, Seen
  <2>4. QED  BY <2>3 DEF Store!Next, Ids
<1>2. ASSUME NEW c \in Calls, Step(c) PROVE [Store!Next]_(Store!vars)
  BY <1>2, StepRefines DEF Store!Next
<1>3. ASSUME NEW c \in Calls, Return(c) PROVE Store!Next
  <2>1. Seen[c] \in {"served", "trusted", "failed"}  BY <1>3 DEF Return, Ended, Seen
  <2>2. Seen' = [Seen EXCEPT ![c] = "idle"]  BY <1>3 DEF Return, Goto, Seen, IInv, TypeOK
  <2>3. Store!Forget(c)  BY <1>3, <2>1, <2>2 DEF Store!Forget, Return, Seen
  <2>4. QED  BY <2>3 DEF Store!Next
<1>4. ASSUME Crash PROVE Store!Next
  <2>1. Seen' = [c \in Calls |-> "idle"]  BY <1>4 DEF Crash, Seen
  <2>2. QED  BY <1>4, <2>1 DEF Crash, Store!Crash, Store!Next, Seen
<1>5. CASE UNCHANGED vars  BY <1>5 DEF vars, Store!vars
<1>6. QED  BY <1>1, <1>2, <1>3, <1>4, <1>5 DEF Next

\* The cache directory, with its races and crashes, is a store of wares that
\* only grows and only answers with what was asked for, or, when the stat fails, on
\* trust and without touching what is kept (dircacher.go:80-107).
THEOREM CacheImplementsStore == Spec => ImplementsStore
BY InitRefines, NextRefines, Invariance, PTL DEF Spec, ImplementsStore, Store!Spec
=============================================================================
