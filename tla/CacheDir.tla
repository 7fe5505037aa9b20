------------------------------ MODULE CacheDir ------------------------------
(***************************************************************************)
(* The shared ware cache: CachingTransmat.Materialize over the tar, dir,   *)
(* file, s3 and gs transmats.  Every input of every job is a concurrent    *)
(* call; the calls share nothing but a directory tree:                     *)
(*   committed/<hash>   the cache, filled by rename                        *)
(*   stg/<kind>/<temp>  one staging arena per call                         *)
(* Each file system call is one step, so calls interleave between them;    *)
(* Crash is the death of the process between any two.                      *)
(***************************************************************************)
EXTENDS Naturals

CONSTANTS Calls,        \* concurrent calls of Materialize
          Hashes,       \* commit ids; the content with id h is written h
          Corrupt,      \* a content whose id nobody asks for
          None,         \* no file there
          Partial,      \* an arena that is still being written
          NoHash,       \* the empty CommitID
          NSilos,       \* length of the siloURIs of a call
          Replaceable   \* ids of plain files and, before Go 1.8, of empty
                        \*   trees: a rename onto them succeeds

ASSUME NSilosAssumption == NSilos \in Nat
ASSUME ContentAssumption ==
  /\ {Corrupt, None, Partial, NoHash} \cap Hashes = {}
  /\ Corrupt \notin {None, Partial, NoHash}
  /\ None \notin {Partial, NoHash}
  /\ Partial # NoHash
ASSUME ReplaceableAssumption == Replaceable \subseteq Hashes

VARIABLES pc,      \* where each call is
          kind,    \* the transmat the call was dispatched to
          want,    \* dataHash
          accept,  \* the option AcceptHashMismatch
          at,      \* index of the silo being tried
          arena,   \* content of the call's staging arena
          cache    \* content of committed/<hash>

vars == <<pc, kind, want, accept, at, arena, cache>>

Content == Hashes \cup {Corrupt}
Ids     == Hashes \cup {NoHash}
Cloud   == {"s3", "gs"}
\* DefaultTransmat keeps files in a cache of their own: cache stands for both, as
\* the id of a file is the id of no tree.
Kinds   == {"tar", "dir", "file"} \cup Cloud
Busy    == {"stat", "silo", "extract", "verify", "rename", "discard"}
\* "assumed" is a success as well: the path is returned without a look behind it.
Ended   == {"done", "assumed", "failed"}

TypeOK == /\ pc \in [Calls -> {"idle"} \cup Busy \cup Ended]
          /\ kind \in [Calls -> Kinds]
          /\ want \in [Calls -> Ids]
          /\ accept \in [Calls -> BOOLEAN]
          /\ at \in [Calls -> 1 .. NSilos + 1]
          /\ arena \in [Calls -> Content \cup {None, Partial}]
          /\ cache \in [Hashes -> Content \cup {None}]

Init == /\ pc = [c \in Calls |-> "idle"]
        /\ kind = [c \in Calls |-> "tar"]
        /\ want = [c \in Calls |-> NoHash]
        /\ accept = [c \in Calls |-> FALSE]
        /\ at = [c \in Calls |-> 1]
        /\ arena = [c \in Calls |-> None]
        /\ cache = [h \in Hashes |-> None]

Goto(c, l) == pc' = [pc EXCEPT ![c] = l]
-----------------------------------------------------------------------------
\* A call of Materialize; its temporary arena will have a fresh name.
Materialize(c, h, k, a) ==
  /\ pc[c] = "idle"
  /\ Goto(c, "stat")
  /\ kind' = [kind EXCEPT ![c] = k]
  /\ want' = [want EXCEPT ![c] = h]
  /\ accept' = [accept EXCEPT ![c] = a]
  /\ UNCHANGED <<at, arena, cache>>

\* A call without a hash bypasses the cache; any other looks in it first.
Cached(c) == want[c] \in Hashes /\ cache[want[c]] # None

\* Only "does not exist" makes it fetch.  A stat that fails in any other way, with
\* the ware there or not, counts as a hit.
Stat(c) ==
  /\ pc[c] = "stat"
  /\ \/ Goto(c, IF Cached(c) THEN "done" ELSE "silo")
     \/ want[c] \in Hashes /\ Goto(c, "assumed")
  /\ UNCHANGED <<kind, want, accept, at, arena, cache>>

(* Which silo, and what it has, is up to the warehouses: they are out of the *)
(* program's hands, and may answer differently to every call.               *)
Trying(c) == pc[c] = "silo" /\ at[c] <= NSilos

\* tar: the ware does not exist there.  dir, file: no answer to a ping.  The
\* ping of s3 and gs is a stub that always succeeds: they use the first silo.
NextSilo(c) ==
  /\ Trying(c) /\ kind[c] \notin Cloud
  /\ at' = [at EXCEPT ![c] = @ + 1]
  /\ UNCHANGED <<pc, kind, want, accept, arena, cache>>

\* tar gives up on any other failure to open the ware, although the next silo
\* might have it.
AbortSilo(c) ==
  /\ Trying(c) /\ kind[c] = "tar"
  /\ Goto(c, "failed")
  /\ UNCHANGED <<kind, want, accept, at, arena, cache>>

\* s3 and gs give up on every failure to open the ware, also when the silo says
\* that it does not have it.
AbortObject(c) ==
  /\ Trying(c) /\ kind[c] \in Cloud
  /\ Goto(c, "failed")
  /\ UNCHANGED <<kind, want, accept, at, arena, cache>>

NoSiloLeft(c) ==
  /\ pc[c] = "silo" /\ at[c] > NSilos
  /\ Goto(c, "failed")
  /\ UNCHANGED <<kind, want, accept, at, arena, cache>>

\* Mutant: the arena is handed out and never committed.
AcceptedUncached(c) == "done"

\* Where a verified arena goes: into the cache, or straight to the caller.
Accepted(c) == IF want[c] = NoHash THEN "done" ELSE "rename"

\* Mutant: the arena goes on to be committed while it is being unpacked.
PickSiloEager(c) ==
  /\ Trying(c)
  /\ arena' = [arena EXCEPT ![c] = Partial]
  /\ Goto(c, Accepted(c))
  /\ UNCHANGED <<kind, want, accept, at, cache>>

PickSilo(c) ==
  /\ Trying(c)
  /\ arena' = [arena EXCEPT ![c] = Partial]
  /\ Goto(c, "extract")
  /\ UNCHANGED <<kind, want, accept, at, cache>>

\* Unpacking and hashing go together.  What comes may be another ware.  A
\* stream that is no ware, or a shelf that is not there (for dir and file), is
\* a panic, and the arena stays.
Extract(c) ==
  /\ pc[c] = "extract"
  /\ \/ /\ \E y \in Content : arena' = [arena EXCEPT ![c] = y]
        /\ Goto(c, "verify")
     \/ Goto(c, "failed") /\ UNCHANGED arena
  /\ UNCHANGED <<kind, want, accept, at, cache>>

\* Mutant: the tolerance option returns the mismatching arena.
VerifyTolerant(c) ==
  /\ pc[c] = "verify"
  /\ Goto(c, IF arena[c] = want[c] \/ accept[c] THEN Accepted(c) ELSE "failed")
  /\ UNCHANGED <<kind, want, accept, at, arena, cache>>

\* A mismatch panics whatever the option AcceptHashMismatch says: the branch
\* that reads it records the actual hash and falls through to the panic.
Verify(c) ==
  /\ pc[c] = "verify"
  /\ Goto(c, IF arena[c] = want[c] THEN Accepted(c) ELSE "failed")
  /\ UNCHANGED <<kind, want, accept, at, arena, cache>>

\* A rename lands where nothing is, or on something it can replace.
Vacant(h) == cache[h] = None \/ h \in Replaceable

Rename(c) ==
  /\ pc[c] = "rename"
  /\ Vacant(want[c])
  /\ cache' = [cache EXCEPT ![want[c]] = arena[c]]
  /\ arena' = [arena EXCEPT ![c] = None]
  /\ Goto(c, "done")
  /\ UNCHANGED <<kind, want, accept, at>>

\* Mutant: the loser of the race forgets its arena.
RenameRefusedLeaks(c) ==
  /\ pc[c] = "rename"
  /\ ~Vacant(want[c])
  /\ Goto(c, "done")
  /\ UNCHANGED <<kind, want, accept, at, arena, cache>>

\* Somebody raced us to it: ENOTEMPTY (or EBUSY) says so.
RenameRefused(c) ==
  /\ pc[c] = "rename"
  /\ ~Vacant(want[c])
  /\ Goto(c, "discard")
  /\ UNCHANGED <<kind, want, accept, at, arena, cache>>

\* Any other error is a panic, wherever the rename was to go.  Go 1.8 refuses a
\* directory that is there by EEXIST, which is not understood as a lost race.
RenameFails(c) ==
  /\ pc[c] = "rename"
  /\ Goto(c, "failed")
  /\ UNCHANGED <<kind, want, accept, at, arena, cache>>

\* Mutant: the loser removes the committed path in place of its arena.
DiscardCommitted(c) ==
  /\ pc[c] = "discard"
  /\ cache' = [cache EXCEPT ![want[c]] = None]
  /\ arena' = [arena EXCEPT ![c] = None] /\ Goto(c, "done")
  /\ UNCHANGED <<kind, want, accept, at>>

\* RemoveAll of the arena that lost; if that fails the call panics.
Discard(c) ==
  /\ pc[c] = "discard"
  /\ \/ arena' = [arena EXCEPT ![c] = None] /\ Goto(c, "done")
     \/ UNCHANGED arena /\ Goto(c, "failed")
  /\ UNCHANGED <<kind, want, accept, at, cache>>

\* The caller is finished with the answer, and may call again.  What a failed
\* call left in its arena is never looked at again.
Return(c) ==
  /\ pc[c] \in Ended
  /\ Goto(c, "idle")
  /\ kind' = [kind EXCEPT ![c] = "tar"] /\ accept' = [accept EXCEPT ![c] = FALSE]
  /\ at' = [at EXCEPT ![c] = 1] /\ arena' = [arena EXCEPT ![c] = None]
  /\ UNCHANGED <<want, cache>>

\* The process dies; arenas are abandoned in stg, the cache is what it was.
Crash ==
  /\ pc' = [c \in Calls |-> "idle"]
  /\ kind' = [c \in Calls |-> "tar"] /\ accept' = [c \in Calls |-> FALSE]
  /\ at' = [c \in Calls |-> 1] /\ arena' = [c \in Calls |-> None]
  /\ UNCHANGED <<want, cache>>

Fetch(c) == \/ NextSilo(c) \/ AbortSilo(c) \/ AbortObject(c)
            \/ NoSiloLeft(c) \/ PickSilo(c)
Unpack(c) == Extract(c) \/ Verify(c)
Step(c) == \/ Stat(c) \/ Fetch(c) \/ Unpack(c)
           \/ Rename(c) \/ RenameRefused(c) \/ RenameFails(c) \/ Discard(c)

Next == \/ \E c \in Calls :
             \/ \E h \in Ids, k \in Kinds, a \in BOOLEAN : Materialize(c, h, k, a)
             \/ Step(c)
             \/ Return(c)
        \/ Crash

Spec == Init /\ [][Next]_vars
-----------------------------------------------------------------------------
\* Whatever is committed under a hash has that hash: no interleaving of calls,
\* mismatching silo, tolerated mismatch or crash poisons the cache that every
\* later job trusts without looking again (dircacher.go:80-107).
CacheIntegrity == \A h \in Hashes : cache[h] \in {None, h}

\* A call that looked in the cache or fetched, and returned an arena for a hash,
\* points into the cache at content with that hash, also when another call
\* committed it; its own staging arena was moved there, or removed by the loser of a
\* race (dircacher.go:92-107).  A call whose stat failed returns that same path: the
\* right ware is there, or nothing, and never somebody's unverified arena.
ServedFromCache ==
  \A c \in Calls :
    /\ pc[c] = "done" =>
         want[c] \in Hashes /\ cache[want[c]] = want[c] /\ arena[c] = None
    /\ pc[c] = "assumed" =>
         want[c] \in Hashes /\ cache[want[c]] \in {None, want[c]} /\ arena[c] = None

\* Once committed, a ware stays as it is for the jobs that are using it: no
\* later call, lost race or crash removes or changes it.
CacheOnlyGrows ==
  [][\A h \in Hashes : cache[h] # None => cache'[h] = cache[h]]_vars

\* The caching transmat implements the abstract store: the kept wares are the
\* hashes whose committed content is right.  Only a call whose stat failed is
\* answered on trust.
Store == INSTANCE WareStore
  WITH have  <- {h \in Hashes : cache[h] = h},
       state <- [c \in Calls |-> CASE pc[c] = "idle" -> "idle"
                                   [] pc[c] = "done" -> "served"
                                   [] pc[c] = "assumed" -> "trusted"
                                   [] pc[c] = "failed" -> "failed"
                                   [] OTHER -> "waiting"],
       asked <- want
ImplementsStore == Store!Spec
=============================================================================
