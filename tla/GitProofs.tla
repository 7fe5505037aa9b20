----------------------------- MODULE GitProofs -----------------------------
(***************************************************************************)
(* Git for any calls, commits, remotes and submodules: what is kept is     *)
(* whole, what a call made for itself is gone when it ends, and the git    *)
(* transmat implements WareStore.                                          *)
(***************************************************************************)
EXTENDS Git, SequenceTheorems, TLAPS

\* Before it has a silo, and after its end, a call has nothing of its own.
Fresh(c) == pc[c] \in {"idle", "stat", "ping"} \cup Ended =>
              temp[c] = None /\ subtemp[c] = <<>> /\ todo[c] = 0

\* Past the stat there is a commit to get, and a silo to ask for it.
Asked(c) == /\ pc[c] \in Busy \ {"stat"} => want[c] \in Commits
            /\ pc[c] = "ping" => silos[c] # <<>>

\* todo tells the main tree from the submodules.
Numbered(c) == /\ pc[c] \in {"look", "move", "copy"} => todo[c] > 0
               /\ pc[c] = "list" => todo[c] = 0
               /\ todo[c] > 0 => want[c] \in Commits /\ todo[c] <= Len(Subs[want[c]])

\* The first n submodules are checked out.
Ready(c, n) == \A j \in 1 .. n : nosub[Subs[want[c]][j]] # None

\* The main tree: checked out, then with the submodules before todo, then whole.
MainTree(c) ==
  /\ pc[c] = "list" => temp[c] = <<want[c]>>
  /\ pc[c] \in {"seek", "fetch", "land", "look", "checkout", "write", "move"} /\ todo[c] > 0 =>
       temp[c] = <<want[c]>>
  /\ pc[c] = "copy" => temp[c] = <<want[c]>> \o SubSeq(Subs[want[c]], 1, todo[c] - 1)
  /\ pc[c] = "commit" => temp[c] = Whole(want[c])

\* The submodules: what is moved into place is the one that is missing, and
\* copying starts when none is.
SubTrees(c) ==
  /\ pc[c] = "write" /\ todo[c] > 0 => subtemp[c] # <<>>
  /\ pc[c] = "move" => subtemp[c] # <<>> /\ subtemp[c][Len(subtemp[c])] = <<Cur(c)>>
  /\ pc[c] \in {"look", "checkout", "write", "move"} /\ todo[c] > 0 => Ready(c, todo[c] - 1)
  /\ pc[c] = "copy" => Ready(c, Len(Subs[want[c]]))

CallOK(c) == Fresh(c) /\ Asked(c) /\ Numbered(c) /\ MainTree(c) /\ SubTrees(c)

\* Only a git that writes a work tree has a repository locked.
LockedByWriters == \A r \in Repos, c \in Calls : lock[r] = c => pc[c] = "write"

KeptTrees == \A h \in Commits : full[h] \in {None, Whole(h)} /\ nosub[h] \in {None, <<h>>}

IInv == TypeOK /\ KeptTrees /\ LockedByWriters /\ \A c \in Calls : CallOK(c)

-----------------------------------------------------------------------------
LEMMA TreeFacts ==
  ASSUME NEW h \in Commits
  PROVE  /\ Subs[h] \in Seq(Commits)
         /\ <<h>> \in Seq(Commits) /\ <<h>> # None
         /\ Whole(h) \in Seq(Commits) /\ Whole(h) # None
<1>1. Subs[h] \in Seq(Commits) /\ <<h>> \in Seq(Commits)
  BY GitConstants
<1>2. Whole(h) \in Seq(Commits)
  BY <1>1, ConcatProperties DEF Whole
<1>3. QED  BY <1>1, <1>2, GitConstants

\* The commit a call works on is one, once there is anything to do.
LEMMA CurIsCommit ==
  ASSUME IInv, NEW c \in Calls, pc[c] \in Busy \ {"stat"}
  PROVE  /\ want[c] \in Commits /\ Cur(c) \in Commits
         /\ Len(Subs[want[c]]) \in Nat /\ todo[c] \in 0 .. Len(Subs[want[c]])
<1>1. want[c] \in Commits
  BY DEF IInv, CallOK, Asked
<1>2. Len(Subs[want[c]]) \in Nat /\ todo[c] \in Nat
  BY <1>1, TreeFacts DEF IInv, TypeOK
<1>3. todo[c] \in 0 .. Len(Subs[want[c]])
  BY <1>2 DEF IInv, CallOK, Numbered
<1>4. CASE todo[c] = 0
  BY <1>1, <1>4 DEF Cur
<1>5. CASE todo[c] # 0
  <2>1. todo[c] \in 1 .. Len(Subs[want[c]])
    BY <1>2, <1>3, <1>5
  <2>2. QED  BY <1>1, <1>5, <2>1, TreeFacts, ElementOfSeq DEF Cur
<1>6. QED  BY <1>1, <1>2, <1>3, <1>4, <1>5

\* A step of one call leaves the others what they have, and nothing that was
\* checked out goes away.
Alone(c) == \A d \in Calls \ {c} :
  /\ pc'[d] = pc[d] /\ want'[d] = want[d] /\ silos'[d] = silos[d] /\ todo'[d] = todo[d]
  /\ temp'[d] = temp[d] /\ subtemp'[d] = subtemp[d]
Grows == \A h \in Commits : nosub[h] # None => nosub'[h] # None

LEMMA ReadyGrows ==
  ASSUME Grows, NEW d \in Calls, want[d] \in Commits, want'[d] = want[d],
         NEW n \in Nat, n <= Len(Subs[want[d]]), Ready(d, n)
  PROVE  Ready(d, n)'
<1>1. \A j \in 1 .. n : Subs[want[d]][j] \in Commits
  BY TreeFacts, ElementOfSeq
<1>2. QED  BY <1>1 DEF Ready, Grows

LEMMA OthersOK ==
  ASSUME IInv, NEW c \in Calls, Alone(c), Grows, NEW d \in Calls, d # c
  PROVE  CallOK(d)'
<1> USE DEF IInv, CallOK, Alone
<1>1. Fresh(d)' /\ Asked(d)' /\ Numbered(d)'
  BY DEF Fresh, Asked, Numbered
<1>2. MainTree(d)'
  BY DEF MainTree
<1>3. SubTrees(d)'
  <2>1. Cur(d)' = Cur(d)
    BY DEF Cur
  <2>2. CASE pc[d] \in {"look", "checkout", "write", "move"} /\ todo[d] > 0
    <3>1. todo[d] - 1 \in Nat /\ want[d] \in Commits /\ todo[d] - 1 <= Len(Subs[want[d]])
      BY <2>2, TreeFacts DEF TypeOK, Numbered
    <3>2. Ready(d, todo[d] - 1)'
      BY <2>2, <3>1, ReadyGrows DEF SubTrees
    <3>3. QED  BY <2>1, <2>2, <3>2 DEF SubTrees, Ready
  <2>3. CASE pc[d] = "copy"
    <3>1. want[d] \in Commits
      BY <2>3 DEF Asked, Busy
    <3>2. Len(Subs[want[d]]) \in Nat
      BY <3>1, TreeFacts
    <3>3. Ready(d, Len(Subs[want[d]]))'
      BY <2>3, <3>1, <3>2, ReadyGrows DEF SubTrees
    <3>4. QED  BY <2>3, <3>3 DEF SubTrees, Ready
  <2>4. QED  BY <2>1, <2>2, <2>3 DEF SubTrees, Numbered
<1>4. QED  BY <1>1, <1>2, <1>3

\* What is left to show of a step that touches neither locks nor kept trees.
LEMMA PrivateStepInv ==
  ASSUME IInv, NEW c \in Calls, Alone(c), UNCHANGED <<nosub, full>>,
         TypeOK', CallOK(c)', LockedByWriters'
  PROVE  IInv'
<1>1. Grows
  BY DEF Grows
<1>2. \A d \in Calls : CallOK(d)'
  BY <1>1, OthersOK
<1>3. QED  BY <1>2 DEF IInv, KeptTrees
-----------------------------------------------------------------------------
LEMMA InitInv == Init => IInv
<1> SUFFICES ASSUME Init PROVE IInv
  OBVIOUS
<1> USE DEF Init
<1>1. TypeOK
  BY DEF TypeOK, Trees
<1>2. KeptTrees
  BY DEF KeptTrees
<1>3. LockedByWriters
  BY GitConstants DEF LockedByWriters
<1>4. ASSUME NEW c \in Calls PROVE CallOK(c)
  BY DEF CallOK, Fresh, Asked, Numbered, MainTree, SubTrees, Busy
<1>5. QED  BY <1>1, <1>2, <1>3, <1>4 DEF IInv

\* One lemma per action, or for a few that are alike.
LEMMA MaterializeInv ==
  ASSUME IInv, NEW c \in Calls, NEW h \in Commits \cup {NoHash}, NEW l \in SiloLists,
         Materialize(c, h, l)
  PROVE  IInv'
<1> USE DEF Materialize, Goto
<1>1. TypeOK'
  BY GitConstants DEF IInv, TypeOK, area, Busy
<1>2. Alone(c) /\ UNCHANGED <<nosub, full, lock>>
  BY DEF Alone, IInv, TypeOK, area
<1>3. CallOK(c)'
  <2>1. pc'[c] = "stat" /\ temp'[c] = None /\ subtemp'[c] = <<>> /\ todo'[c] = 0
    BY DEF IInv, TypeOK, CallOK, Fresh
  <2>2. QED  BY <2>1 DEF CallOK, Fresh, Asked, Numbered, MainTree, SubTrees
<1>4. LockedByWriters'
  BY DEF IInv, TypeOK, LockedByWriters, area
<1>5. QED  BY <1>1, <1>2, <1>3, <1>4, PrivateStepInv

LEMMA StatInv == ASSUME IInv, NEW c \in Calls, Stat(c) PROVE IInv'
<1> USE DEF Stat, Goto
<1>1. TypeOK'
  BY DEF IInv, TypeOK, area, call, Busy, Ended
<1>2. Alone(c) /\ UNCHANGED <<nosub, full, lock>>
  BY DEF Alone, IInv, TypeOK, area, call
<1>3. CallOK(c)'
  <2>1. pc'[c] \in {"done", "failed", "ping"} /\ (pc'[c] = "ping" => silos'[c] # <<>>)
        /\ temp'[c] = None /\ subtemp'[c] = <<>> /\ todo'[c] = 0
        /\ (pc'[c] = "ping" => want'[c] \in Commits)
    BY DEF IInv, TypeOK, CallOK, Fresh, call, Cached
  <2>2. QED  BY <2>1 DEF CallOK, Fresh, Asked, Numbered, MainTree, SubTrees, Busy
<1>4. LockedByWriters'
  BY DEF IInv, TypeOK, LockedByWriters, area
<1>5. QED  BY <1>1, <1>2, <1>3, <1>4, PrivateStepInv

LEMMA PingInv == ASSUME IInv, NEW c \in Calls, Ping(c) PROVE IInv'
<1> USE DEF Ping, Goto
<1>1. silos[c] \in Seq(Repos) /\ silos[c] # <<>>
  BY DEF IInv, TypeOK, CallOK, Asked
<1>2. Tail(silos[c]) \in Seq(Repos) /\ (Len(silos[c]) # 1 => Tail(silos[c]) # <<>>)
  <2>1. Tail(silos[c]) \in Seq(Repos) /\ Len(Tail(silos[c])) = Len(silos[c]) - 1
    BY <1>1, HeadTailProperties
  <2>2. Len(silos[c]) # 0
    BY <1>1, EmptySeq
  <2>3. Len(silos[c]) # 1 => Len(Tail(silos[c])) # 0
    BY <1>1, <2>1, <2>2
  <2>4. Len(<<>>) = 0
    OBVIOUS
  <2>5. QED  BY <2>1, <2>3, <2>4
<1>3. TypeOK'
  <2>1. pc' \in [Calls -> {"idle"} \cup Busy \cup Ended]
    BY DEF IInv, TypeOK, Busy, Ended
  <2>2. silos' \in [Calls -> Seq(Repos)]
    BY <1>2 DEF IInv, TypeOK
  <2>3. QED  BY <2>1, <2>2 DEF IInv, TypeOK, area
<1>4. Alone(c) /\ UNCHANGED <<nosub, full, lock>>
  BY DEF Alone, IInv, TypeOK, area
<1>5. CallOK(c)'
  <2>1. pc'[c] \in {"seek", "failed", "ping"} /\ (pc'[c] = "ping" => silos'[c] # <<>>)
        /\ temp'[c] = None /\ subtemp'[c] = <<>> /\ todo'[c] = 0 /\ want'[c] \in Commits
    BY <1>2 DEF IInv, TypeOK, CallOK, Fresh, Asked, Busy
  <2>2. QED  BY <2>1 DEF CallOK, Fresh, Asked, Numbered, MainTree, SubTrees
<1>6. LockedByWriters'
  BY DEF IInv, TypeOK, LockedByWriters, area
<1>7. QED  BY <1>3, <1>4, <1>5, <1>6, PrivateStepInv

\* Where the loop over fetches goes on.
LEMMA FetchedOK ==
  ASSUME IInv, NEW c \in Calls, pc[c] \in {"seek", "land"}, Fetched(c),
         UNCHANGED <<call, temp, subtemp, nosub>>
  PROVE  /\ pc' \in [Calls -> {"idle"} \cup Busy \cup Ended] /\ todo' \in [Calls -> Nat]
         /\ CallOK(c)' /\ Alone(c) /\ pc'[c] \in Busy
<1> USE DEF Fetched, Goto, call
<1>1. /\ want[c] \in Commits /\ Len(Subs[want[c]]) \in Nat
      /\ todo[c] \in 0 .. Len(Subs[want[c]])
      /\ todo[c] > 0 => temp[c] = <<want[c]>>
  <2>1. pc[c] \in Busy \ {"stat"}
    BY DEF Busy
  <2>2. QED  BY <2>1, CurIsCommit DEF IInv, CallOK, MainTree
<1>2. pc' \in [Calls -> {"idle"} \cup Busy \cup Ended] /\ todo' \in [Calls -> Nat]
  <2>1. \E l \in {"checkout", "seek", "look"} : pc' = [pc EXCEPT ![c] = l]
    OBVIOUS
  <2>2. \E n \in Nat : todo' = todo \/ todo' = [todo EXCEPT ![c] = n]
    BY <1>1
  <2>3. QED  BY <2>1, <2>2 DEF IInv, TypeOK, Busy
<1>3. Alone(c)
  BY DEF Alone, IInv, TypeOK
<1>4. CASE todo[c] = 0
  <2>1. pc'[c] = "checkout" /\ todo'[c] = 0
    BY <1>4 DEF IInv, TypeOK
  <2>2. CallOK(c)'
    BY <1>1, <2>1 DEF CallOK, Fresh, Asked, Numbered, MainTree, SubTrees, Ended
  <2>3. QED  BY <1>2, <1>3, <2>1, <2>2 DEF Busy
<1>5. CASE todo[c] > 0
  <2>1. Len(Subs[want[c]]) \in Nat
    BY <1>1, TreeFacts
  <2>2. \/ pc'[c] = "seek" /\ todo'[c] = todo[c] + 1 /\ todo'[c] <= Len(Subs[want[c]])
        \/ pc'[c] = "look" /\ todo'[c] = 1
    BY <1>1, <1>5, <2>1 DEF IInv, TypeOK
  <2>3. Ready(c, 0)'
    BY DEF Ready
  <2>4. CallOK(c)'
    BY <1>1, <1>5, <2>1, <2>2, <2>3 DEF CallOK, Fresh, Asked, Numbered, MainTree, SubTrees, Ended
  <2>5. QED  BY <1>2, <1>3, <2>2, <2>4 DEF Busy
<1>6. QED  BY <1>1, <1>4, <1>5

LEMMA SeekInv == ASSUME IInv, NEW c \in Calls, Seek(c) PROVE IInv'
<1> USE DEF Seek
<1>1. UNCHANGED <<want, silos, urls, temp, subtemp, objects, lock, nosub, full>>
  BY DEF call, area
<1>2. CASE Fetched(c)
  <2>1. CallOK(c)' /\ Alone(c) /\ TypeOK'
    BY <1>1, <1>2, FetchedOK DEF call, IInv, TypeOK
  <2>2. LockedByWriters'
    BY <1>1, <2>1 DEF IInv, LockedByWriters, Alone
  <2>3. QED  BY <1>1, <2>1, <2>2, PrivateStepInv
<1>3. CASE Goto(c, "fetch") /\ UNCHANGED todo
  <2>1. TypeOK' /\ Alone(c) /\ pc'[c] = "fetch"
    BY <1>1, <1>3 DEF Goto, IInv, TypeOK, Busy, Alone
  <2>2. CallOK(c)'
    BY <1>1, <1>3, <2>1
       DEF IInv, TypeOK, CallOK, Fresh, Asked, Numbered, MainTree, SubTrees, Busy, Ended
  <2>3. LockedByWriters'
    BY <1>1, <2>1 DEF IInv, LockedByWriters, Alone
  <2>4. QED  BY <1>1, <2>1, <2>2, <2>3, PrivateStepInv
<1>4. QED  BY <1>2, <1>3

LEMMA YankInv == ASSUME IInv, NEW c \in Calls, Yank(c) PROVE IInv'
<1> USE DEF Yank, Goto, call
<1>1. TypeOK'
  BY DEF IInv, TypeOK, Busy
<1>2. Alone(c) /\ pc'[c] = "land"
  BY DEF Alone, IInv, TypeOK
<1>3. CallOK(c)'
  BY <1>2 DEF IInv, TypeOK, CallOK, Fresh, Asked, Numbered, MainTree, SubTrees, Busy, Ended
<1>4. LockedByWriters'
  BY <1>2 DEF IInv, LockedByWriters, Alone
<1>5. QED  BY <1>1, <1>2, <1>3, <1>4, PrivateStepInv

LEMMA LandedInv == ASSUME IInv, NEW c \in Calls, Landed(c) PROVE IInv'
<1> USE DEF Landed
<1>1. CallOK(c)' /\ Alone(c) /\ pc' \in [Calls -> {"idle"} \cup Busy \cup Ended]
      /\ todo' \in [Calls -> Nat]
  BY FetchedOK
<1>2. objects' \in [Repos -> [Commits -> {"none", "torn", "whole"}]]
  BY DEF IInv, TypeOK
<1>3. TypeOK'
  BY <1>1, <1>2 DEF IInv, TypeOK, call
<1>4. LockedByWriters'
  BY <1>1 DEF IInv, LockedByWriters, Alone
<1>5. QED  BY <1>1, <1>3, <1>4, PrivateStepInv

\* A call that ends lets go of what it made.
LEMMA LeaveOK ==
  ASSUME IInv, NEW c \in Calls, NEW l \in {"done", "failed"}, Leave(c, l), UNCHANGED call
  PROVE  /\ pc' \in [Calls -> {"idle"} \cup Busy \cup Ended] /\ todo' \in [Calls -> Nat]
         /\ temp' \in [Calls -> Trees] /\ subtemp' \in [Calls -> Seq(Trees)]
         /\ CallOK(c)' /\ Alone(c) /\ pc'[c] = l
<1> USE DEF Leave, Goto
<1>1. pc' \in [Calls -> {"idle"} \cup Busy \cup Ended] /\ todo' \in [Calls -> Nat]
  BY DEF IInv, TypeOK, Ended
<1>2. temp' \in [Calls -> Trees] /\ subtemp' \in [Calls -> Seq(Trees)]
  BY DEF IInv, TypeOK, Trees
<1>3. Alone(c)
  BY DEF Alone, IInv, TypeOK, call
<1>4. pc'[c] = l /\ todo'[c] = 0 /\ temp'[c] = None /\ subtemp'[c] = <<>>
  BY DEF IInv, TypeOK
<1>5. CallOK(c)'
  BY <1>4 DEF CallOK, Fresh, Asked, Numbered, MainTree, SubTrees, Busy
<1>6. QED  BY <1>1, <1>2, <1>3, <1>4, <1>5

\* A call that holds no lock any more may go anywhere.
LEMMA UnlockedOK ==
  ASSUME IInv, NEW c \in Calls, Alone(c), lock' = Unlocked(c)
  PROVE  LockedByWriters' /\ lock' \in [Repos -> Calls \cup {None, Stale}]
BY GitConstants DEF IInv, TypeOK, LockedByWriters, Unlocked, Alone

\* Nor does it matter where a call that did not write goes.
LEMMA NoLockOK ==
  ASSUME IInv, NEW c \in Calls, Alone(c), UNCHANGED lock, pc[c] # "write"
  PROVE  LockedByWriters'
BY DEF IInv, LockedByWriters, Alone

LEMMA PanicInv == ASSUME IInv, NEW c \in Calls, Panic(c) PROVE IInv'
<1> USE DEF Panic
<1>1. CallOK(c)' /\ Alone(c)
  BY LeaveOK
<1>2. LockedByWriters' /\ lock' \in [Repos -> Calls \cup {None, Stale}]
  BY <1>1, UnlockedOK
<1>3. TypeOK'
  BY <1>2, LeaveOK DEF IInv, TypeOK, call
<1>4. QED  BY <1>1, <1>2, <1>3, PrivateStepInv

LEMMA CheckoutInv == ASSUME IInv, NEW c \in Calls, Checkout(c) PROVE IInv'
<1> USE DEF Checkout
<1>1. CASE Leave(c, "failed") /\ UNCHANGED lock
  <2>1. CallOK(c)' /\ Alone(c)
    BY <1>1, LeaveOK
  <2>2. LockedByWriters'
    BY <1>1, <2>1, NoLockOK
  <2>3. TypeOK'
    BY <1>1, LeaveOK DEF IInv, TypeOK, call
  <2>4. QED  BY <2>1, <2>2, <2>3, PrivateStepInv
<1>2. CASE ~(Leave(c, "failed") /\ UNCHANGED lock)
  <2>1. /\ lock[Repo(c)] = None /\ lock' = [lock EXCEPT ![Repo(c)] = c]
        /\ Goto(c, "write") /\ UNCHANGED todo
    BY <1>2
  <2>2. temp' \in [Calls -> Trees] /\ subtemp' \in [Calls -> Seq(Trees)]
    <3>1. Append(subtemp[c], Partial) \in Seq(Trees)
      BY DEF IInv, TypeOK, Trees
    <3>2. QED  BY <1>2, <3>1 DEF IInv, TypeOK, Trees
  <2>3. TypeOK'
    BY <2>1, <2>2 DEF IInv, TypeOK, call, Goto, Busy
  <2>4. Alone(c) /\ pc'[c] = "write"
    BY <1>2, <2>1 DEF IInv, TypeOK, Alone, call, Goto
  <2>5. LockedByWriters'
    BY <2>1, <2>4 DEF IInv, TypeOK, LockedByWriters, Alone
  <2>6. todo[c] > 0 => temp'[c] = temp[c] /\ subtemp'[c] # <<>>
    BY <1>2 DEF IInv, TypeOK
  <2>7. CallOK(c)'
    BY <2>1, <2>4, <2>6
       DEF IInv, TypeOK, CallOK, Fresh, Asked, Numbered, MainTree, SubTrees, Ready, Busy, Ended,
           call
  <2>8. QED  BY <2>3, <2>4, <2>5, <2>7, PrivateStepInv
<1>3. QED  BY <1>1, <1>2

LEMMA WriteInv == ASSUME IInv, NEW c \in Calls, Write(c) PROVE IInv'
<1> USE DEF Write
<1>1. CASE ~Written(c)
  <2>1. CallOK(c)' /\ Alone(c)
    BY <1>1, LeaveOK
  <2>2. LockedByWriters' /\ lock' \in [Repos -> Calls \cup {None, Stale}]
    BY <2>1, UnlockedOK
  <2>3. TypeOK'
    BY <1>1, <2>2, LeaveOK DEF IInv, TypeOK, call
  <2>4. QED  BY <2>1, <2>2, <2>3, PrivateStepInv
<1>2. CASE Written(c) /\ todo[c] = 0
  <2>1. Goto(c, "list") /\ temp' = [temp EXCEPT ![c] = <<want[c]>>] /\ UNCHANGED <<todo, subtemp>>
    BY <1>2 DEF Written, Cur
  <2>2. want[c] \in Commits
    BY CurIsCommit DEF Busy
  <2>3. Alone(c) /\ pc'[c] = "list" /\ temp'[c] = <<want[c]>>
    BY <2>1 DEF IInv, TypeOK, Alone, Goto, call
  <2>4. LockedByWriters' /\ lock' \in [Repos -> Calls \cup {None, Stale}]
    BY <2>3, UnlockedOK
  <2>5. TypeOK'
    BY <2>1, <2>2, <2>4 DEF IInv, TypeOK, Trees, call, Goto, Busy
  <2>6. CallOK(c)'
    BY <1>2, <2>1, <2>2, <2>3
       DEF CallOK, Fresh, Asked, Numbered, MainTree, SubTrees, Ended, call
  <2>7. QED  BY <2>3, <2>4, <2>5, <2>6, PrivateStepInv
<1>3. CASE Written(c) /\ todo[c] # 0
  <2>1. /\ Goto(c, "move") /\ UNCHANGED <<todo, temp>>
        /\ subtemp' = [subtemp EXCEPT ![c][Len(subtemp[c])] = <<Cur(c)>>]
    BY <1>3 DEF Written
  <2>2. want[c] \in Commits /\ Cur(c) \in Commits /\ todo[c] > 0
    BY <1>3, CurIsCommit DEF Busy
  <2>3. subtemp[c] \in Seq(Trees) /\ Len(subtemp[c]) \in 1 .. Len(subtemp[c])
    <3>1. subtemp[c] \in Seq(Trees) /\ subtemp[c] # <<>>
      BY <2>2 DEF IInv, TypeOK, CallOK, SubTrees
    <3>2. QED  BY <3>1, EmptySeq
  <2>4. <<Cur(c)>> \in Trees
    BY <2>2 DEF Trees
  <2>5. DEFINE s == [subtemp[c] EXCEPT ![Len(subtemp[c])] = <<Cur(c)>>]
  <2>6. s \in Seq(Trees) /\ Len(s) = Len(subtemp[c]) /\ s[Len(subtemp[c])] = <<Cur(c)>>
    BY <2>3, <2>4, ExceptSeq
  <2>7. subtemp' \in [Calls -> Seq(Trees)] /\ subtemp'[c] = s
    BY <2>1, <2>6 DEF IInv, TypeOK
  <2>8. Alone(c) /\ pc'[c] = "move"
    BY <2>1 DEF IInv, TypeOK, Alone, Goto, call
  <2>9. LockedByWriters' /\ lock' \in [Repos -> Calls \cup {None, Stale}]
    BY <2>8, UnlockedOK
  <2>10. TypeOK'
    BY <2>1, <2>7, <2>9 DEF IInv, TypeOK, call, Goto, Busy
  <2>11. Cur(c)' = Cur(c)
    BY <2>1 DEF Cur, call
  <2>12. subtemp'[c] # <<>> /\ subtemp'[c][Len(subtemp'[c])] = <<Cur(c)>>
    BY <2>3, <2>6, <2>7
  <2>13. CallOK(c)'
    BY <2>1, <2>2, <2>8, <2>11, <2>12
       DEF IInv, CallOK, Fresh, Asked, Numbered, MainTree, SubTrees, Ready, Ended, call
  <2>14. QED  BY <2>8, <2>9, <2>10, <2>13, PrivateStepInv
<1>4. QED  BY <1>1, <1>2, <1>3

LEMMA ListSubmodulesInv == ASSUME IInv, NEW c \in Calls, listSubmodules(c) PROVE IInv'
<1>1. /\ want[c] \in Commits /\ Subs[want[c]] \in Seq(Commits) /\ todo[c] = 0
      /\ temp[c] = <<want[c]>>
  BY CurIsCommit, TreeFacts DEF listSubmodules, IInv, CallOK, Numbered, MainTree, Busy
<1>2. urls' \in [Calls -> BOOLEAN]
      /\ UNCHANGED <<want, silos, temp, subtemp, objects, lock, nosub, full>>
  BY DEF listSubmodules, IInv, TypeOK, area
<1>3. \/ Subs[want[c]] = <<>> /\ pc' = [pc EXCEPT ![c] = "commit"] /\ UNCHANGED todo
      \/ Subs[want[c]] # <<>> /\ pc' = [pc EXCEPT ![c] = "seek"]
         /\ todo' = [todo EXCEPT ![c] = 1]
  BY DEF listSubmodules, Goto
<1>4. TypeOK'
  <2>1. pc' \in [Calls -> {"idle"} \cup Busy \cup Ended]
    <3>1. \E l \in {"commit", "seek"} : pc' = [pc EXCEPT ![c] = l]
      BY <1>3
    <3>2. QED  BY <3>1 DEF IInv, TypeOK, Busy
  <2>2. todo' \in [Calls -> Nat]
    BY <1>3 DEF IInv, TypeOK
  <2>3. QED  BY <1>2, <2>1, <2>2 DEF IInv, TypeOK
<1>5. Alone(c)
  BY <1>2, <1>3 DEF IInv, TypeOK, Alone
<1>6. LockedByWriters'
  BY <1>2, <1>5, NoLockOK DEF listSubmodules
<1>7. CASE Subs[want[c]] = <<>>
  <2>1. pc'[c] = "commit" /\ todo'[c] = 0
    BY <1>1, <1>3, <1>7 DEF IInv, TypeOK
  <2>2. temp'[c] = Whole(want[c])
    BY <1>1, <1>2, <1>7, ConcatEmptySeq DEF Whole
  <2>3. CallOK(c)'
    BY <1>1, <1>2, <2>1, <2>2 DEF CallOK, Fresh, Asked, Numbered, MainTree, SubTrees, Ended
  <2>4. QED  BY <1>2, <1>4, <1>5, <1>6, <2>3, PrivateStepInv
<1>8. CASE Subs[want[c]] # <<>>
  <2>1. pc'[c] = "seek" /\ todo'[c] = 1
    BY <1>3, <1>8 DEF IInv, TypeOK
  <2>2. 1 <= Len(Subs[want[c]])
    BY <1>1, <1>8, EmptySeq
  <2>3. CallOK(c)'
    BY <1>1, <1>2, <2>1, <2>2 DEF CallOK, Fresh, Asked, Numbered, MainTree, SubTrees, Ended
  <2>4. QED  BY <1>2, <1>4, <1>5, <1>6, <2>3, PrivateStepInv
<1>9. QED  BY <1>7, <1>8

\* Where the loop over checkouts goes on, when this submodule has one.
LEMMA NextSubOK ==
  ASSUME IInv, NEW c \in Calls, pc[c] \in {"look", "move"}, UNCHANGED <<call, temp>>, Grows,
         NEW trees \in Seq(Trees), NextSub(c, trees), nosub'[Cur(c)] # None
  PROVE  /\ pc' \in [Calls -> {"idle"} \cup Busy \cup Ended] /\ todo' \in [Calls -> Nat]
         /\ subtemp' \in [Calls -> Seq(Trees)]
         /\ CallOK(c)' /\ Alone(c)
<1> DEFINE subs == Subs[want[c]]
<1> USE DEF NextSub, Goto
<1>1. want[c] \in Commits /\ Len(subs) \in Nat /\ todo[c] \in 1 .. Len(subs)
  <2>1. pc[c] \in Busy \ {"stat"} /\ todo[c] > 0
    BY DEF Busy, IInv, CallOK, Numbered
  <2>2. QED  BY <2>1, CurIsCommit
<1>2. temp[c] = <<want[c]>> /\ Cur(c) = subs[todo[c]]
  <2>1. todo[c] > 0 /\ todo[c] # 0
    BY <1>1
  <2>2. QED  BY <2>1 DEF IInv, CallOK, MainTree, Cur
<1>3. \A j \in 1 .. todo[c] : nosub'[subs[j]] # None
  <2>1. Ready(c, todo[c] - 1)
    BY <1>1 DEF IInv, CallOK, SubTrees
  <2>2. ASSUME NEW j \in 1 .. todo[c] - 1 PROVE nosub'[subs[j]] # None
    <3>1. subs[j] \in Commits /\ nosub[subs[j]] # None
      BY <1>1, <2>1, TreeFacts, ElementOfSeq DEF Ready
    <3>2. QED  BY <3>1 DEF Grows
  <2>3. ASSUME NEW j \in 1 .. todo[c] PROVE nosub'[subs[j]] # None
    <3>1. j \in 1 .. todo[c] - 1 \/ j = todo[c]
      BY <1>1
    <3>2. QED  BY <1>2, <2>2, <3>1
  <2>4. QED  BY <2>3
<1>4. Alone(c) /\ subtemp' \in [Calls -> Seq(Trees)]
  <2>1. <<>> \in Seq(Trees)
    OBVIOUS
  <2>2. subtemp \in [Calls -> Seq(Trees)]
    BY DEF IInv, TypeOK
  <2>3. subtemp' \in [Calls -> Seq(Trees)]
    BY <2>1, <2>2
  <2>4. Alone(c)
    BY DEF Alone, IInv, TypeOK, call
  <2>5. QED  BY <2>3, <2>4
<1>5. CASE todo[c] < Len(subs)
  <2>1. todo' = [todo EXCEPT ![c] = @ + 1] /\ Goto(c, "look")
    BY <1>5
  <2>2. pc' \in [Calls -> {"idle"} \cup Busy \cup Ended] /\ todo' \in [Calls -> Nat]
    BY <2>1 DEF IInv, TypeOK, Busy
  <2>3. pc'[c] = "look" /\ todo'[c] = todo[c] + 1 /\ todo'[c] - 1 = todo[c]
    BY <1>1, <2>1 DEF IInv, TypeOK
  <2>4. CallOK(c)'
    BY <1>1, <1>2, <1>3, <1>5, <2>3
       DEF CallOK, Fresh, Asked, Numbered, MainTree, SubTrees, Ready, Ended, call
  <2>5. QED  BY <1>4, <2>2, <2>4
<1>6. CASE ~(todo[c] < Len(subs))
  <2>1. todo' = [todo EXCEPT ![c] = 1] /\ Goto(c, "copy")
    BY <1>6
  <2>2. pc' \in [Calls -> {"idle"} \cup Busy \cup Ended] /\ todo' \in [Calls -> Nat]
    BY <2>1 DEF IInv, TypeOK, Busy
  <2>3. pc'[c] = "copy" /\ todo'[c] = 1 /\ todo[c] = Len(subs)
    BY <1>1, <1>6, <2>1 DEF IInv, TypeOK
  <2>4. temp'[c] = <<want[c]>> \o SubSeq(subs, 1, 0)
    BY <1>1, <1>2, SubSeqEmpty, ConcatEmptySeq, TreeFacts
  <2>5. CallOK(c)'
    BY <1>1, <1>3, <2>3, <2>4
       DEF CallOK, Fresh, Asked, Numbered, MainTree, SubTrees, Ready, Ended, call
  <2>6. QED  BY <1>4, <2>2, <2>5
<1>7. QED  BY <1>5, <1>6

LEMMA LookInv == ASSUME IInv, NEW c \in Calls, Look(c) PROVE IInv'
<1> USE DEF Look
<1>1. CASE NextSub(c, subtemp[c]) /\ nosub[Cur(c)] # None
  <2>1. subtemp[c] \in Seq(Trees) /\ Grows /\ nosub' = nosub /\ UNCHANGED <<lock, full, objects>>
    BY DEF IInv, TypeOK, Grows, area
  <2>2. CallOK(c)' /\ Alone(c)
    BY <1>1, <2>1, NextSubOK
  <2>3. TypeOK'
    BY <1>1, <2>1, NextSubOK DEF IInv, TypeOK, call
  <2>4. LockedByWriters'
    BY <2>1, <2>2, NoLockOK
  <2>5. QED  BY <2>1, <2>2, <2>3, <2>4, PrivateStepInv
<1>2. CASE Goto(c, "checkout") /\ UNCHANGED <<todo, subtemp>>
  <2>1. TypeOK' /\ Alone(c) /\ pc'[c] = "checkout"
    BY <1>2 DEF IInv, TypeOK, Goto, Alone, Busy, call, area
  <2>2. LockedByWriters'
    BY <2>1, NoLockOK DEF area
  <2>3. CallOK(c)'
    BY <1>2, <2>1
       DEF IInv, CallOK, Fresh, Asked, Numbered, MainTree, SubTrees, Ready, Busy, Ended, call, area
  <2>4. QED  BY <2>1, <2>2, <2>3, PrivateStepInv DEF area
<1>3. QED  BY <1>1, <1>2

LEMMA MoveSubInv == ASSUME IInv, NEW c \in Calls, MoveSub(c) PROVE IInv'
<1> USE DEF MoveSub
<1>1. Cur(c) \in Commits /\ subtemp[c] \in Seq(Trees) /\ subtemp[c] # <<>>
      /\ subtemp[c][Len(subtemp[c])] = <<Cur(c)>>
  BY CurIsCommit DEF IInv, TypeOK, CallOK, SubTrees, Busy
<1>2. CASE nosub[Cur(c)] = None
  <2> DEFINE rest == SubSeq(subtemp[c], 1, Len(subtemp[c]) - 1)
  <2>1. /\ nosub' = [nosub EXCEPT ![Cur(c)] = <<Cur(c)>>] /\ NextSub(c, rest)
        /\ UNCHANGED <<temp, call, objects, lock, full>>
    BY <1>1, <1>2
  <2>2. rest \in Seq(Trees)
    <3>1. Len(subtemp[c]) \in Nat /\ \A i \in 1 .. Len(subtemp[c]) - 1 : subtemp[c][i] \in Trees
      BY <1>1, ElementOfSeq
    <3>2. QED  BY <3>1, SubSeqProperties
  <2>3. <<Cur(c)>> \in Trees /\ <<Cur(c)>> # None
    BY <1>1, TreeFacts DEF Trees
  <2>4. Grows /\ nosub'[Cur(c)] # None /\ nosub' \in [Commits -> Trees]
    BY <1>1, <2>1, <2>3 DEF Grows, IInv, TypeOK
  <2>5. CallOK(c)' /\ Alone(c)
    BY <2>1, <2>2, <2>4, NextSubOK
  <2>6. TypeOK'
    BY <2>1, <2>2, <2>4, NextSubOK DEF IInv, TypeOK, call
  <2>7. LockedByWriters'
    BY <2>1, <2>5, NoLockOK
  <2>8. KeptTrees'
    BY <1>1, <2>1 DEF IInv, TypeOK, KeptTrees
  <2>9. \A d \in Calls : CallOK(d)'
    BY <2>4, <2>5, OthersOK
  <2>10. QED  BY <2>6, <2>7, <2>8, <2>9 DEF IInv
<1>3. CASE nosub[Cur(c)] # None
  <2>1. Grows /\ nosub' = nosub /\ UNCHANGED <<call, objects, lock, full>>
    BY <1>3 DEF Grows
  <2>2. CASE NextSub(c, subtemp[c]) /\ UNCHANGED temp
    <3>1. CallOK(c)' /\ Alone(c)
      BY <1>1, <1>3, <2>1, <2>2, NextSubOK
    <3>2. TypeOK'
      BY <1>1, <1>3, <2>1, <2>2, NextSubOK DEF IInv, TypeOK, call
    <3>3. LockedByWriters'
      BY <2>1, <3>1, NoLockOK
    <3>4. QED  BY <2>1, <3>1, <3>2, <3>3, PrivateStepInv
  <2>3. CASE Leave(c, "failed")
    <3>1. CallOK(c)' /\ Alone(c)
      BY <2>1, <2>3, LeaveOK
    <3>2. TypeOK'
      BY <2>1, <2>3, LeaveOK DEF IInv, TypeOK, call
    <3>3. LockedByWriters'
      BY <2>1, <3>1, NoLockOK
    <3>4. QED  BY <2>1, <3>1, <3>2, <3>3, PrivateStepInv
  <2>4. QED  BY <1>3, <2>2, <2>3
<1>4. QED  BY <1>2, <1>3

\* What a copy of the next submodule adds to the tree.
LEMMA NextCopied ==
  ASSUME NEW h \in Commits, NEW i \in 1 .. Len(Subs[h])
  PROVE  /\ (<<h>> \o SubSeq(Subs[h], 1, i - 1)) \o <<Subs[h][i]>>
              = <<h>> \o SubSeq(Subs[h], 1, i)
         /\ SubSeq(Subs[h], 1, Len(Subs[h])) = Subs[h]
         /\ <<h>> \o SubSeq(Subs[h], 1, i) \in Seq(Commits)
<1> DEFINE s == Subs[h]
<1>1. s \in Seq(Commits) /\ <<h>> \in Seq(Commits) /\ Len(s) \in Nat /\ s[i] \in Commits
  BY TreeFacts, ElementOfSeq
<1>2. SubSeq(s, 1, i - 1) \in Seq(Commits) /\ SubSeq(s, 1, i) \in Seq(Commits)
  <2>1. \A j \in 1 .. i : s[j] \in Commits
    BY <1>1, ElementOfSeq
  <2>2. QED  BY <1>1, <2>1, SubSeqProperties
<1>3. SubSeq(s, 1, i) = SubSeq(s, 1, i - 1) \o <<s[i]>>
  BY <1>1, SubSeqRecursiveSecond
<1>4. <<s[i]>> \in Seq(Commits)
  BY <1>1
<1>5. (<<h>> \o SubSeq(s, 1, i - 1)) \o <<s[i]>> = <<h>> \o SubSeq(s, 1, i)
  BY <1>1, <1>2, <1>3, <1>4, ConcatAssociative
<1>6. SubSeq(s, 1, Len(s)) = s
  BY <1>1, SubSeqFull
<1>7. <<h>> \o SubSeq(s, 1, i) \in Seq(Commits)
  BY <1>1, <1>2, ConcatProperties
<1>8. QED  BY <1>5, <1>6, <1>7

LEMMA CopySubInv == ASSUME IInv, NEW c \in Calls, CopySub(c) PROVE IInv'
<1> DEFINE subs == Subs[want[c]]
<1>0. /\ pc[c] = "copy" /\ UNCHANGED <<want, silos, urls, subtemp, objects, lock, nosub, full>>
      /\ temp' = [temp EXCEPT ![c] = temp[c] \o nosub[Cur(c)]]
      /\ \/ /\ todo[c] < Len(subs)
            /\ todo' = [todo EXCEPT ![c] = todo[c] + 1] /\ UNCHANGED pc
         \/ /\ ~(todo[c] < Len(subs))
            /\ pc' = [pc EXCEPT ![c] = "commit"] /\ UNCHANGED todo
  BY DEF CopySub, Goto, call, area
<1>1. want[c] \in Commits /\ Len(subs) \in Nat /\ todo[c] \in 1 .. Len(subs)
  <2>1. pc[c] \in Busy \ {"stat"} /\ todo[c] > 0
    BY <1>0 DEF Busy, IInv, CallOK, Numbered
  <2>2. QED  BY <2>1, CurIsCommit
<1>2. Cur(c) = subs[todo[c]] /\ Cur(c) \in Commits
  <2>1. todo[c] # 0 /\ pc[c] \in Busy \ {"stat"}
    BY <1>0, <1>1 DEF Busy
  <2>2. QED  BY <2>1, CurIsCommit DEF Cur
<1>3. nosub[Cur(c)] = <<Cur(c)>>
  <2>1. nosub[Cur(c)] # None
    BY <1>0, <1>1, <1>2 DEF IInv, CallOK, SubTrees, Ready
  <2>2. QED  BY <1>2, <2>1 DEF IInv, KeptTrees
<1>4. temp' = [temp EXCEPT ![c] = <<want[c]>> \o SubSeq(subs, 1, todo[c])]
  <2>1. temp[c] = <<want[c]>> \o SubSeq(subs, 1, todo[c] - 1)
    BY <1>0 DEF IInv, CallOK, MainTree
  <2>2. temp[c] \o nosub[Cur(c)] = <<want[c]>> \o SubSeq(subs, 1, todo[c])
    <3>1. temp[c] \o nosub[Cur(c)]
            = (<<want[c]>> \o SubSeq(subs, 1, todo[c] - 1)) \o <<subs[todo[c]]>>
      BY <1>2, <1>3, <2>1
    <3> HIDE DEF subs
    <3>2. (<<want[c]>> \o SubSeq(subs, 1, todo[c] - 1)) \o <<subs[todo[c]]>>
            = <<want[c]>> \o SubSeq(subs, 1, todo[c])
      BY <1>1, NextCopied DEF subs
    <3>3. QED  BY <3>1, <3>2
  <2>3. QED  BY <1>0, <2>2
<1>5. temp' \in [Calls -> Trees]
  <2>1. <<want[c]>> \o SubSeq(subs, 1, todo[c]) \in Trees
    BY <1>1, NextCopied DEF Trees
  <2>2. QED  BY <1>4, <2>1 DEF IInv, TypeOK
<1>6. Alone(c) /\ UNCHANGED <<nosub, full, lock>>
  BY <1>0 DEF Alone, IInv, TypeOK
<1>7. LockedByWriters'
  BY <1>0, <1>6, NoLockOK
<1>8. CASE todo[c] < Len(subs)
  <2>1. todo' = [todo EXCEPT ![c] = @ + 1] /\ UNCHANGED pc
    BY <1>0, <1>8
  <2>2. TypeOK'
    BY <1>0, <1>5, <2>1 DEF IInv, TypeOK
  <2>3. pc'[c] = "copy" /\ todo'[c] = todo[c] + 1 /\ todo'[c] - 1 = todo[c]
    BY <1>0, <1>1, <2>1 DEF IInv, TypeOK
  <2>4. temp'[c] = <<want[c]>> \o SubSeq(subs, 1, todo'[c] - 1)
    BY <1>4, <2>3 DEF IInv, TypeOK
  <2>5. Ready(c, Len(subs))'
    BY <1>0 DEF IInv, CallOK, SubTrees, Ready
  <2>6. CallOK(c)'
    <3>1. todo'[c] > 0 /\ todo'[c] <= Len(Subs[want[c]])
      BY <1>1, <1>8, <2>3
    <3>2. QED  BY <1>0, <1>1, <2>3, <2>4, <2>5, <3>1
         DEF CallOK, Fresh, Asked, Numbered, MainTree, SubTrees, Ended
  <2>7. QED  BY <1>6, <1>7, <2>2, <2>6, PrivateStepInv
<1>9. CASE ~(todo[c] < Len(subs))
  <2>1. Goto(c, "commit") /\ UNCHANGED todo
    BY <1>0, <1>9 DEF Goto
  <2>2. TypeOK'
    BY <1>0, <1>5, <2>1 DEF IInv, TypeOK, Goto, Busy
  <2>3. pc'[c] = "commit" /\ todo'[c] = todo[c] /\ todo[c] = Len(subs)
    BY <1>0, <1>1, <1>9, <2>1 DEF IInv, TypeOK, Goto
  <2>4. temp'[c] = Whole(want[c])
    <3>1. temp'[c] = <<want[c]>> \o SubSeq(subs, 1, todo[c])
      BY <1>4 DEF IInv, TypeOK
    <3>2. SubSeq(subs, 1, todo[c]) = subs
      BY <1>1, <2>3, NextCopied
    <3>3. QED  BY <3>1, <3>2 DEF Whole
  <2>5. CallOK(c)'
    BY <1>0, <1>1, <2>3, <2>4
       DEF CallOK, Fresh, Asked, Numbered, MainTree, SubTrees, Ended
  <2>6. QED  BY <1>6, <1>7, <2>2, <2>5, PrivateStepInv
<1>10. QED  BY <1>8, <1>9

\* The rename under full/<hash>: only the whole tree gets there.
LEMMA MoveFullInv == ASSUME IInv, NEW c \in Calls, MoveFull(c) PROVE IInv'
<1> USE DEF MoveFull
<1>1. want[c] \in Commits /\ temp[c] = Whole(want[c])
  BY CurIsCommit DEF IInv, CallOK, MainTree, Busy
<1>2. full' \in [Commits -> Trees] /\ KeptTrees'
  <2>1. full' = [full EXCEPT ![want[c]] = Whole(want[c])] \/ full' = full
    BY <1>1
  <2>2. Whole(want[c]) \in Trees
    BY <1>1, TreeFacts DEF Trees
  <2>3. full' \in [Commits -> Trees] /\ nosub' = nosub
    BY <1>1, <2>1, <2>2 DEF IInv, TypeOK
  <2>4. \A h \in Commits : full'[h] \in {None, Whole(h)}
    BY <1>1, <2>1 DEF IInv, TypeOK, KeptTrees
  <2>5. QED  BY <2>3, <2>4 DEF IInv, KeptTrees
<1>3. \E l \in {"done", "failed"} : Leave(c, l)
  OBVIOUS
<1>4. PICK l \in {"done", "failed"} : Leave(c, l)
  BY <1>3
<1>5. CallOK(c)' /\ Alone(c)
  BY <1>4, LeaveOK
<1>6. TypeOK'
  BY <1>2, <1>4, LeaveOK DEF IInv, TypeOK, call
<1>7. LockedByWriters'
  BY <1>5, NoLockOK
<1>8. Grows
  BY DEF Grows
<1>9. \A d \in Calls : CallOK(d)'
  BY <1>5, <1>8, OthersOK
<1>10. QED  BY <1>2, <1>6, <1>7, <1>9 DEF IInv

LEMMA ReturnInv == ASSUME IInv, NEW c \in Calls, Return(c) PROVE IInv'
<1> USE DEF Return, Goto
<1>1. TypeOK'
  BY DEF IInv, TypeOK, area
<1>2. Alone(c) /\ UNCHANGED <<nosub, full, lock>> /\ pc'[c] = "idle"
  BY DEF Alone, IInv, TypeOK, area
<1>3. CallOK(c)'
  <2>1. temp'[c] = None /\ subtemp'[c] = <<>> /\ todo'[c] = 0
    BY DEF IInv, CallOK, Fresh
  <2>2. QED  BY <1>2, <2>1 DEF CallOK, Fresh, Asked, Numbered, MainTree, SubTrees, Busy
<1>4. LockedByWriters'
  BY <1>2, NoLockOK DEF Ended
<1>5. QED  BY <1>1, <1>2, <1>3, <1>4, PrivateStepInv

LEMMA CrashInv == ASSUME IInv, Crash PROVE IInv'
<1> USE DEF Crash
<1>1. TypeOK'
  BY DEF IInv, TypeOK, Trees
<1>2. KeptTrees'
  BY DEF IInv, KeptTrees
<1>3. LockedByWriters'
  BY GitConstants DEF LockedByWriters
<1>4. ASSUME NEW c \in Calls PROVE CallOK(c)'
  BY DEF CallOK, Fresh, Asked, Numbered, MainTree, SubTrees, Busy
<1>5. QED  BY <1>1, <1>2, <1>3, <1>4 DEF IInv

LEMMA StepInv == ASSUME IInv, NEW c \in Calls, Step(c) PROVE IInv'
BY StatInv, PingInv, SeekInv, YankInv, LandedInv, CheckoutInv, WriteInv,
   ListSubmodulesInv, LookInv, MoveSubInv, CopySubInv, MoveFullInv DEF Step

LEMMA NextInv == IInv /\ [Next]_vars => IInv'
<1> SUFFICES ASSUME IInv, [Next]_vars PROVE IInv'
  OBVIOUS
<1>1. CASE UNCHANGED vars
  BY <1>1 DEF vars, IInv, TypeOK, KeptTrees, LockedByWriters, CallOK, Fresh, Asked, Numbered,
     MainTree, SubTrees, Ready, Cur
<1>2. CASE Next
  BY <1>2, MaterializeInv, StepInv, PanicInv, ReturnInv, CrashInv DEF Next
<1>3. QED  BY <1>1, <1>2

LEMMA Invariance == Spec => []IInv
BY InitInv, NextInv, PTL DEF Spec
-----------------------------------------------------------------------------
\* Whatever is kept is the whole of the commit it is kept under.
THEOREM KeptCheckoutsAreWhole == Spec => []CheckoutsAreWhole
<1>1. IInv => CheckoutsAreWhole
  BY DEF IInv, KeptTrees, CheckoutsAreWhole
<1>2. QED  BY <1>1, Invariance, PTL

\* However a call ends, its temporary directories are gone and no repository
\* is locked in its name.
THEOREM CallsCleanUp == Spec => []NothingIsLeftBehind
<1>1. IInv => NothingIsLeftBehind
  BY DEF IInv, CallOK, Fresh, LockedByWriters, NothingIsLeftBehind, Ended
<1>2. QED  BY <1>1, Invariance, PTL

\* A checkout that a job may be using is never replaced nor taken away, by a
\* later call or by a crash.
THEOREM KeptCheckoutsStay ==
  Spec => [][\A h \in Commits : /\ full[h] # None => full'[h] = full[h]
                                /\ nosub[h] # None => nosub'[h] = nosub[h]]_vars
<1>1. ASSUME IInv, [Next]_vars, NEW h \in Commits
      PROVE  /\ full[h] # None => full'[h] = full[h]
             /\ nosub[h] # None => nosub'[h] = nosub[h]
  <2>1. CASE \E c \in Calls : MoveFull(c)
    BY <1>1, <2>1 DEF MoveFull, IInv, TypeOK
  <2>2. CASE \E c \in Calls : MoveSub(c)
    BY <1>1, <2>2 DEF MoveSub, IInv, TypeOK
  <2>3. CASE UNCHANGED <<full, nosub>>
    BY <2>3
  <2>4. CASE UNCHANGED vars
    BY <2>3, <2>4 DEF vars
  <2>5. CASE Crash
    BY <2>3, <2>5 DEF Crash
  <2>6. ASSUME NEW c \in Calls,
               \/ \E k \in Commits \cup {NoHash}, l \in SiloLists : Materialize(c, k, l)
               \/ Step(c) \/ Panic(c) \/ Return(c)
        PROVE  MoveFull(c) \/ MoveSub(c) \/ UNCHANGED <<full, nosub>>
    <3>1. Stat(c) \/ Ping(c) \/ Seek(c) \/ Yank(c) \/ Landed(c) => UNCHANGED <<full, nosub>>
      BY DEF area, Stat, Ping, Seek, Yank, Landed
    <3>2. Checkout(c) \/ Write(c) \/ listSubmodules(c) => UNCHANGED <<full, nosub>>
      BY DEF area, Checkout, Write, listSubmodules
    <3>3. Look(c) \/ CopySub(c) \/ Panic(c) \/ Return(c) => UNCHANGED <<full, nosub>>
      BY DEF area, Look, CopySub, Panic, Return
    <3>4. (\E k \in Commits \cup {NoHash}, l \in SiloLists : Materialize(c, k, l))
          => UNCHANGED <<full, nosub>>
      BY DEF area, Materialize
    <3>5. QED  BY <2>6, <3>1, <3>2, <3>3, <3>4 DEF Step
  <2>7. QED  BY <1>1, <2>1, <2>2, <2>3, <2>4, <2>5, <2>6 DEF Next
<1>2. IInv /\ [Next]_vars =>
        [\A h \in Commits : /\ full[h] # None => full'[h] = full[h]
                            /\ nosub[h] # None => nosub'[h] = nosub[h]]_vars
  BY <1>1
<1>3. QED  BY <1>2, Invariance, PTL DEF Spec
-----------------------------------------------------------------------------
\* The refinement.  The commits whose checkout is whole are the kept wares;
\* the state of a call forgets how far it has come.
Kept == {h \in Commits : full[h] = Whole(h)}
Seen == [c \in Calls |-> CASE pc[c] = "idle" -> "idle"
                            [] pc[c] = "done" /\ want[c] # NoHash -> "served"
                            [] pc[c] = "done" /\ want[c] = NoHash -> "trusted"
                            [] pc[c] = "failed" -> "failed"
                            [] OTHER -> "waiting"]

LEMMA InitRefines == Init => Store!Init
<1>1. Init => Kept = {}
  BY TreeFacts DEF Init, Kept
<1>2. Init => Seen = [c \in Calls |-> "idle"]
  BY DEF Init, Seen
<1>3. QED  BY <1>1, <1>2 DEF Store!Init, Init, Kept, Seen

\* A step inside a call that commits nothing and answers nothing.
LEMMA InnerStepStutters ==
  ASSUME IInv, NEW c \in Calls, NEW l \in Busy, pc[c] \in Busy, Goto(c, l),
         UNCHANGED <<full, want>>
  PROVE  UNCHANGED Store!vars
<1>1. Seen' = Seen
  BY DEF Seen, Goto, IInv, TypeOK, Busy, Ended
<1>2. QED  BY <1>1 DEF Store!vars, Seen

\* A step that answers a call without a commit.
LEMMA BlindStepTrusts ==
  ASSUME IInv, NEW c \in Calls, pc[c] \in Busy, Goto(c, "done"), want[c] = NoHash,
         UNCHANGED <<full, want>>
  PROVE  Store!Trust(c)
<1>1. Seen[c] = "waiting"
  BY DEF Seen, Busy, Ended
<1>2. Seen' = [Seen EXCEPT ![c] = "trusted"]
  BY DEF Seen, Goto, IInv, TypeOK
<1>3. QED  BY <1>1, <1>2 DEF Store!Trust, Seen

\* A step that answers a call with an error.
LEMMA FailingStepFails ==
  ASSUME IInv, NEW c \in Calls, pc[c] \in Busy, Goto(c, "failed"),
         UNCHANGED <<full, want>>
  PROVE  Store!Fail(c)
<1>1. Seen[c] = "waiting"
  BY DEF Seen, Busy, Ended
<1>2. Seen' = [Seen EXCEPT ![c] = "failed"]
  BY DEF Seen, Goto, IInv, TypeOK, Ended
<1>3. QED  BY <1>1, <1>2 DEF Store!Fail, Seen

\* A step that answers a call with a checkout that is there after the step,
\* where no other was touched.
LEMMA ServingStepServes ==
  ASSUME IInv, NEW c \in Calls, pc[c] \in Busy, Goto(c, "done"),
         want[c] \in Commits, want' = want, Kept' = Kept \cup {want[c]}
  PROVE  Store!Serve(c)
<1>1. Seen[c] = "waiting"
  BY DEF Seen, Busy, Ended
<1>2. Seen' = [Seen EXCEPT ![c] = "served"]
  BY GitConstants DEF Seen, Goto, IInv, TypeOK
<1>3. QED  BY <1>1, <1>2 DEF Store!Serve, Seen, Kept

\* Where the loops over the submodules lead.
LEMMA LoopsStayInside ==
  ASSUME NEW c \in Calls, NEW trees, Fetched(c) \/ NextSub(c, trees)
  PROVE  \E l \in Busy : Goto(c, l)
BY DEF Fetched, NextSub, Busy

LEMMA StepRefines ==
  ASSUME IInv, NEW c \in Calls, Step(c) \/ Panic(c)
  PROVE  Store!Serve(c) \/ Store!Trust(c) \/ Store!Fail(c) \/ UNCHANGED Store!vars
<1>0. {"ping", "seek", "fetch", "land", "checkout", "write", "list", "look", "move", "copy",
       "commit", "stat"} \subseteq Busy /\ "failed" \in Ended /\ "done" \in Ended
  BY DEF Busy, Ended
<1>1. CASE Stat(c)
  <2>0. UNCHANGED <<full, want>> /\ pc[c] = "stat" /\ want[c] \in Commits \cup {NoHash}
    BY <1>1 DEF Stat, call, area, IInv, TypeOK
  <2>1. CASE want[c] = NoHash
    BY <1>0, <1>1, <2>0, <2>1, BlindStepTrusts DEF Stat, Cached
  <2>2. CASE want[c] # NoHash /\ full[want[c]] # None
    <3>1. want[c] \in Kept /\ Kept' = Kept
      BY <2>0, <2>2 DEF Kept, IInv, KeptTrees
    <3>2. Goto(c, "done")
      BY <1>1, <2>2 DEF Stat, Cached
    <3>3. QED  BY <1>0, <2>0, <2>2, <3>1, <3>2, ServingStepServes
  <2>3. CASE want[c] # NoHash /\ full[want[c]] = None
    <3>1. Goto(c, "failed") \/ Goto(c, "ping")
      BY <1>1, <2>3 DEF Stat, Cached
    <3>2. QED  BY <1>0, <2>0, <3>1, FailingStepFails, InnerStepStutters
  <2>4. QED  BY <2>1, <2>2, <2>3
<1>2. CASE Ping(c)
  <2>1. Goto(c, "seek") \/ Goto(c, "ping") \/ Goto(c, "failed")
    BY <1>2 DEF Ping
  <2>2. UNCHANGED <<full, want>> /\ pc[c] = "ping"
    BY <1>2 DEF Ping, area
  <2>3. QED  BY <1>0, <2>1, <2>2, FailingStepFails, InnerStepStutters
<1>3. CASE Seek(c) \/ Yank(c) \/ Landed(c) \/ listSubmodules(c) \/ Look(c)
  <2>1. UNCHANGED <<full, want>> /\ pc[c] \in Busy
    BY <1>0, <1>3 DEF Seek, Yank, Landed, listSubmodules, Look, call, area
  <2>2. \E l \in Busy : Goto(c, l)
    BY <1>0, <1>3, LoopsStayInside DEF Seek, Yank, Landed, listSubmodules, Look
  <2>3. QED  BY <2>1, <2>2, InnerStepStutters
<1>4. CASE CopySub(c)
  <2>1. UNCHANGED <<full, want>> /\ pc[c] = "copy"
    BY <1>4 DEF CopySub, call, area
  <2>2. Goto(c, "commit") \/ UNCHANGED pc
    BY <1>4 DEF CopySub
  <2>3. CASE UNCHANGED pc
    BY <2>1, <2>3 DEF Store!vars
  <2>4. QED  BY <1>0, <2>1, <2>2, <2>3, InnerStepStutters
<1>5. CASE Checkout(c) \/ Write(c) \/ MoveSub(c) \/ Panic(c)
  <2>1. UNCHANGED <<full, want>> /\ pc[c] \in Busy
    BY <1>0, <1>5 DEF Checkout, Write, MoveSub, Panic, call
  <2>2. \E l \in Busy \cup {"failed"} : Goto(c, l)
    BY <1>0, <1>5, LoopsStayInside DEF Checkout, Write, MoveSub, Panic, Leave
  <2>3. QED  BY <1>0, <2>1, <2>2, FailingStepFails, InnerStepStutters
<1>6. CASE MoveFull(c)
  <2>1. want[c] \in Commits /\ temp[c] = Whole(want[c]) /\ pc[c] = "commit" /\ want' = want
    BY <1>6, CurIsCommit DEF MoveFull, IInv, CallOK, MainTree, Busy, call
  <2>2. CASE full' = [full EXCEPT ![want[c]] = temp[c]] /\ Leave(c, "done")
    <3>1. Kept' = Kept \cup {want[c]}
      BY <2>1, <2>2 DEF Kept, IInv, TypeOK
    <3>2. QED  BY <1>0, <2>1, <2>2, <3>1, ServingStepServes DEF Leave
  <2>3. CASE full[want[c]] # None /\ full' = full /\ Leave(c, "done")
    <3>1. Kept' = Kept \cup {want[c]}
      BY <2>1, <2>3 DEF Kept, IInv, KeptTrees
    <3>2. QED  BY <1>0, <2>1, <2>3, <3>1, ServingStepServes DEF Leave
  <2>4. CASE full' = full /\ Leave(c, "failed")
    BY <1>0, <2>1, <2>4, FailingStepFails DEF Leave
  <2>5. QED  BY <1>6, <2>2, <2>3, <2>4 DEF MoveFull
<1>7. QED  BY <1>1, <1>2, <1>3, <1>4, <1>5, <1>6 DEF Step

LEMMA NextRefines == IInv /\ [Next]_vars => [Store!Next]_(Store!vars)
<1> SUFFICES ASSUME IInv, [Next]_vars PROVE [Store!Next]_(Store!vars)
  OBVIOUS
<1>1. ASSUME NEW c \in Calls, NEW h \in Commits \cup {NoHash}, NEW l \in SiloLists,
             Materialize(c, h, l)
      PROVE  Store!Next
  <2>1. Seen[c] = "idle"
    BY <1>1 DEF Materialize, Seen
  <2>2. Seen' = [Seen EXCEPT ![c] = "waiting"]
    BY <1>1 DEF Materialize, Seen, Goto, IInv, TypeOK, Ended
  <2>3. Store!Ask(c, h)
    BY <1>1, <2>1, <2>2 DEF Store!Ask, Materialize, Seen, area
  <2>4. QED  BY <2>3 DEF Store!Next
<1>2. ASSUME NEW c \in Calls, Step(c) \/ Panic(c) PROVE [Store!Next]_(Store!vars)
  BY <1>2, StepRefines DEF Store!Next
<1>3. ASSUME NEW c \in Calls, Return(c) PROVE Store!Next
  <2>1. Seen[c] \in {"served", "trusted", "failed"}
    BY <1>3 DEF Return, Ended, Seen
  <2>2. Seen' = [Seen EXCEPT ![c] = "idle"]
    BY <1>3 DEF Return, Goto, Seen, IInv, TypeOK
  <2>3. Store!Forget(c)
    BY <1>3, <2>1, <2>2 DEF Store!Forget, Return, Seen, area
  <2>4. QED  BY <2>3 DEF Store!Next
<1>4. ASSUME Crash PROVE Store!Next
  <2>1. Seen' = [c \in Calls |-> "idle"]
    BY <1>4 DEF Crash, Seen
  <2>2. QED  BY <1>4, <2>1 DEF Crash, Store!Crash, Store!Next, Seen
<1>5. CASE UNCHANGED vars
  BY <1>5 DEF vars, Store!vars
<1>6. QED  BY <1>1, <1>2, <1>3, <1>4, <1>5 DEF Next

\* With submodules, several silos, torn transfers and stale locks, the git
\* transmat is the same store of wares the caching transmat is.
THEOREM GitImplementsStore == Spec => ImplementsStore
BY InitRefines, NextRefines, Invariance, PTL DEF Spec, ImplementsStore, Store!Spec
=============================================================================
