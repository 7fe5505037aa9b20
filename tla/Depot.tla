-------------------------------- MODULE Depot --------------------------------
(***************************************************************************)
(* Saving wares: Scan of the tar, dir and s3 transmats (gs is written like *)
(* s3), and the write controllers of their warehouses.  A scan hashes a    *)
(* tree while it stages it in every warehouse that answers, and commits    *)
(* the stages one by one:                                                  *)
(*   tar  one stream to all the stage files; rename over what is there     *)
(*   dir  one warehouse after the other; rename, where something already   *)
(*        is in the way: ours is dropped (content-addressed warehouse), or *)
(*        it is pushed aside first and removed last (plain warehouse)      *)
(*   s3   one stream to all the uploads; content-addressed ones are copied *)
(*        to their place, then deleted; plain ones appear when closed      *)
(* Scans share the warehouses and nothing else.                            *)
(***************************************************************************)
EXTENDS Naturals, Sequences, Functions

CONSTANTS Scans,           \* concurrent calls of Scan
          Wares,           \* trees; each stands for its hash as well
          CA, Plain,       \* content-addressed and single-ware warehouses
          None,            \* nothing there
          Broken, Short,   \* what a failed writer got; what one that did not
                           \*   get everything got
          NoId,            \* the shelf of a plain warehouse needs no id
          Replaceable,     \* empty trees, which a rename can land on, unless
          EEXISTPossible   \*   the program is built with Go 1.8 or later

Warehouses == CA \cup Plain
Content    == Wares \cup {Broken, Short}
Place(w, h) == <<w, IF w \in CA THEN h ELSE NoId>>
Places     == {Place(w, h) : w \in Warehouses, h \in Wares}
Routes     == {r \in UNION {[1 .. n -> Warehouses] : n \in 1 .. 2} : IsInjective(r)}
Busy       == {"open", "save", "commit", "swap", "clean", "copy", "delete"}

ASSUME WarehousesAssumption == CA \cap Plain = {}
ASSUME ContentAssumption ==
  {None, Broken, Short, NoId} \cap Wares = {} /\ None \notin {Broken, Short}
ASSUME RenameAssumption == Replaceable \subseteq Wares /\ EEXISTPossible \in BOOLEAN

VARIABLES kind,       \* the transmat; it never changes
          pc,         \* where each scan is
          route,      \* the warehouses that answered, in the order of siloURIs
          at,         \* index in route
          ids,        \* the hash of each walk over the tree; the last is commitID
          stage,      \* what the scan has staged in each warehouse
          aside,      \* what the scan pushed aside
          shelf,      \* content of the committed places
          expired,    \* warehouses where a scan left what it pushed aside, and is gone
          overlooked  \* places filled in spite of an error nobody looked at (history)

vars == <<kind, pc, route, at, ids, stage, aside, shelf, expired, overlooked>>

NoStage == [w \in Warehouses |-> None]

TypeOK == /\ kind \in {"tar", "dir", "s3", "gs"}
          /\ pc \in [Scans -> Busy \cup {"idle", "done", "failed"}]
          /\ \A c \in Scans : /\ route[c] \in Routes \cup {<<>>}
                              /\ at[c] \in 1 .. Len(route[c]) + 1
                              /\ ids[c] \in Seq(Wares)
          /\ stage \in [Scans -> [Warehouses -> Content \cup {None}]]
          /\ aside \in [Scans -> Wares \cup {None}]
          /\ shelf \in [Places -> Content \cup {None}]
          /\ expired \subseteq Warehouses
          /\ overlooked \subseteq Places

Init == /\ kind \in {"tar", "dir", "s3", "gs"}
        /\ pc = [c \in Scans |-> "idle"]
        /\ route = [c \in Scans |-> <<>>]
        /\ at = [c \in Scans |-> 1]
        /\ ids = [c \in Scans |-> <<>>]
        /\ stage = [c \in Scans |-> NoStage]
        /\ aside = [c \in Scans |-> None]
        /\ shelf = [p \in Places |-> None]
        /\ expired = {}
        /\ overlooked = {}

Object == kind \in {"s3", "gs"}
Here(c)   == route[c][at[c]]
Id(c)     == ids[c][Len(ids[c])]
\* Mutant of Target: the hash of the first walk.
TargetFirst(c) == Place(Here(c), ids[c][1])

Target(c) == Place(Here(c), Id(c))
Stages(c, y) == stage' = [stage EXCEPT ![c][Here(c)] = y]
\* The error of a removal is dropped: what was staged, or some of it, may stay.
RemoveStage(c) == Stages(c, None) \/ UNCHANGED stage
\* Once it is on a shelf, it does not matter why a ware is not whole.
Shelve(c, y) == shelf' = [shelf EXCEPT ![Target(c)] = IF y = Short THEN Broken ELSE y]

Goto(c, l) == pc' = [pc EXCEPT ![c] = l]
\* The next warehouse, at the label l, if there is one.
Advance(c, l) == /\ at' = [at EXCEPT ![c] = @ + 1]
                 /\ Goto(c, IF at[c] = Len(route[c]) THEN "done" ELSE l)

\* Scans that end: what they pushed aside stays beside the shelf; their stages
\* stay too, but nobody looks at them again.
Leave(S, l) ==
  /\ pc' = [c \in Scans |-> IF c \in S THEN l ELSE pc[c]]
  /\ route' = [c \in Scans |-> IF c \in S THEN <<>> ELSE route[c]]
  /\ at' = [c \in Scans |-> IF c \in S THEN 1 ELSE at[c]]
  /\ ids' = [c \in Scans |-> IF c \in S THEN <<>> ELSE ids[c]]
  /\ stage' = [c \in Scans |-> IF c \in S THEN NoStage ELSE stage[c]]
  /\ aside' = [c \in Scans |-> IF c \in S THEN None ELSE aside[c]]
  /\ expired' = expired \cup {Here(c) : c \in {d \in S : aside[d] # None}}
  /\ UNCHANGED <<kind, shelf, overlooked>>
-----------------------------------------------------------------------------
\* There is no tree to scan, or nowhere to save it; its hash is not followed.
\* A bad URI, missing keys, or a tree that cannot be read is a panic.
ScanOnly(c) ==
  /\ pc[c] = "idle"
  /\ \E l \in {"done", "failed"} : Goto(c, l)
  /\ UNCHANGED <<kind, route, at, ids, stage, aside, shelf, expired, overlooked>>

\* Warehouses that do not answer are left out; no answer at all is a panic.
Dial(c) ==
  /\ pc[c] = "idle"
  /\ \/ \E r \in Routes : route' = [route EXCEPT ![c] = r] /\ Goto(c, "open")
     \/ ~Object /\ Goto(c, "failed") /\ UNCHANGED route
  /\ UNCHANGED <<kind, at, ids, stage, aside, shelf, expired, overlooked>>

\* Any step may meet an error that is a panic, but for the removals, whose errors
\* are dropped, and the copy in s3.  (gs, when it does not answer at all, has no
\* response for its loop to look at: a nil dereference.)
Panic(c) ==
  /\ pc[c] \in {"open", "save", "commit", "swap"} \cup IF kind = "gs" THEN {"copy"} ELSE {}
  /\ Leave({c}, "failed")

\* A stage in the warehouse; in all of them first, if they share a stream.
OpenWriter(c) ==
  /\ pc[c] = "open"
  /\ Stages(c, Short)
  /\ IF kind # "dir" /\ at[c] < Len(route[c])
       THEN at' = [at EXCEPT ![c] = @ + 1] /\ UNCHANGED pc
       ELSE at' = [at EXCEPT ![c] = IF kind = "dir" THEN @ ELSE 1] /\ Goto(c, "save")
  /\ UNCHANGED <<kind, route, ids, aside, shelf, expired, overlooked>>

\* The tree is walked again for each warehouse, and may have changed.
SaveTree(c) ==
  /\ pc[c] = "save" /\ kind = "dir"
  /\ \E h \in Wares : Stages(c, h) /\ ids' = [ids EXCEPT ![c] = Append(@, h)]
  /\ Goto(c, "commit")
  /\ UNCHANGED <<kind, route, at, aside, shelf, expired, overlooked>>

\* What each writer of the multiwriter got of h.  It stops at the first that
\* fails, number f, and the ones after it miss what was being written.
Got(k, h, f) == CASE k < f -> h [] k = f -> Broken [] k > f -> Short

\* A write that fails is a panic, unless it is one of the last, when the tar and
\* gzip writers are closed: that error is dropped, and the hash is returned.
SaveStream(c) ==
  /\ pc[c] = "save" /\ kind # "dir"
  /\ \E h \in Wares, f \in 1 .. Len(route[c]) + 1 :
       /\ ids' = [ids EXCEPT ![c] = <<h>>]
       /\ stage' = [stage EXCEPT ![c] = [w \in Warehouses |->
            IF w \in Range(route[c]) THEN Got(AntiFunction(route[c])[w], h, f) ELSE None]]
       /\ overlooked' = IF Object THEN overlooked
            ELSE overlooked \cup {Place(route[c][k], h) : k \in f .. Len(route[c])}
  /\ Goto(c, "commit")
  /\ UNCHANGED <<kind, route, at, aside, shelf, expired>>

\* tar: close, without a look at the error, and rename over what is there.
CommitFile(c) ==
  /\ pc[c] = "commit" /\ kind = "tar"
  /\ \/ Shelve(c, stage[c][Here(c)]) /\ UNCHANGED overlooked
     \/ Shelve(c, Broken) /\ overlooked' = overlooked \cup {Target(c)}
  /\ Stages(c, None)
  /\ Advance(c, "commit")
  /\ UNCHANGED <<kind, route, ids, aside, expired>>

\* Mutant: any error of the rename is taken for a lost race.
CommitTreeAnyError(c) ==
  /\ pc[c] = "commit" /\ kind = "dir" /\ Here(c) \in CA
  /\ \/ shelf[Target(c)] = None /\ Shelve(c, stage[c][Here(c)]) /\ Stages(c, None)
     \/ UNCHANGED shelf /\ RemoveStage(c)
  /\ Advance(c, "open")
  /\ UNCHANGED <<kind, route, ids, aside, expired, overlooked>>

\* dir, content-addressed: whoever is first is kept, the other removes itself
\* (or fails to, unnoticed).  The EEXIST of Go 1.8 is not understood.
CommitTree(c) ==
  /\ pc[c] = "commit" /\ kind = "dir" /\ Here(c) \in CA
  /\ \/ shelf[Target(c)] = None /\ Shelve(c, stage[c][Here(c)]) /\ Stages(c, None)
     \/ shelf[Target(c)] # None /\ UNCHANGED shelf /\ RemoveStage(c)
  /\ Advance(c, "open")
  /\ UNCHANGED <<kind, route, ids, aside, expired, overlooked>>

\* Mutant: what is on the shelf is removed right away.
PushAsideForGood(c) ==
  /\ pc[c] = "commit" /\ kind = "dir" /\ Here(c) \in Plain
  /\ Shelve(c, None)
  /\ Goto(c, "swap")
  /\ UNCHANGED <<kind, route, at, ids, stage, aside, expired, overlooked>>

\* dir, plain: what is on the shelf goes to a sibling path.
PushAside(c) ==
  /\ pc[c] = "commit" /\ kind = "dir" /\ Here(c) \in Plain
  /\ aside' = [aside EXCEPT ![c] = shelf[Target(c)]]
  /\ Shelve(c, None)
  /\ Goto(c, "swap")
  /\ UNCHANGED <<kind, route, at, ids, stage, expired, overlooked>>

\* Nothing should be in the way by now, but for a scan that is racing us.
Vacant(p) == shelf[p] = None \/ (shelf[p] \in Replaceable /\ ~EEXISTPossible)

Swap(c) ==
  /\ pc[c] = "swap" /\ Vacant(Target(c))
  /\ Shelve(c, stage[c][Here(c)])
  /\ Stages(c, None)
  /\ Goto(c, "clean")
  /\ UNCHANGED <<kind, route, at, ids, aside, expired, overlooked>>

\* RemoveAll of what was pushed aside, whose error is dropped: all of it is gone then,
\* or some, which makes it no ware any more, or nothing.
Clean(c) ==
  /\ pc[c] = "clean"
  /\ aside' = [aside EXCEPT ![c] = None]
  /\ \/ UNCHANGED expired
     \/ aside[c] # None /\ expired' = expired \cup {Here(c)}
  /\ Advance(c, "open")
  /\ UNCHANGED <<kind, route, ids, stage, shelf, overlooked>>

\* Mutant: nobody looks at the error of the close here, either.
CloseUploadBlindly(c) ==
  /\ pc[c] = "commit" /\ Object
  /\ IF Here(c) \in CA
       THEN Goto(c, "copy") /\ UNCHANGED <<at, stage, shelf>>
       ELSE Shelve(c, stage[c][Here(c)]) /\ Stages(c, None) /\ Advance(c, "commit")
  /\ UNCHANGED <<kind, route, ids, aside, expired, overlooked>>

\* s3, gs: closing the upload makes the object, and reports what went wrong with
\* it.  A plain warehouse has it in place then.
CloseUpload(c) ==
  /\ pc[c] = "commit" /\ Object
  /\ stage[c][Here(c)] # Broken
  /\ IF Here(c) \in CA
       THEN Goto(c, "copy") /\ UNCHANGED <<at, stage, shelf>>
       ELSE Shelve(c, stage[c][Here(c)]) /\ Stages(c, None) /\ Advance(c, "commit")
  /\ UNCHANGED <<kind, route, ids, aside, expired, overlooked>>

\* The result of reloc is dropped, whether it is the copy that failed, or got no
\* answer, or the removal after it.  Without a copy nothing is removed, either.
Copy(c) ==
  /\ pc[c] = "copy"
  /\ \/ Shelve(c, stage[c][Here(c)]) /\ Goto(c, "delete")
        /\ UNCHANGED <<at, stage, overlooked>>
     \/ overlooked' = overlooked \cup {Target(c)}
        /\ (UNCHANGED shelf \/ Shelve(c, stage[c][Here(c)]))
        /\ UNCHANGED stage /\ Advance(c, "commit")
  /\ UNCHANGED <<kind, route, ids, aside, expired>>

Delete(c) ==
  /\ pc[c] = "delete"
  /\ RemoveStage(c)
  /\ Advance(c, "commit")
  /\ UNCHANGED <<kind, route, ids, aside, shelf, expired, overlooked>>

Return(c) == pc[c] \in {"done", "failed"} /\ Leave({c}, "idle")
Crash     == Leave(Scans, "idle")

Step(c) == \/ Panic(c) \/ OpenWriter(c) \/ SaveTree(c) \/ SaveStream(c)
           \/ CommitFile(c)
           \/ CommitTree(c) \/ PushAside(c) \/ Swap(c) \/ Clean(c)
           \/ CloseUpload(c) \/ Copy(c) \/ Delete(c)

Next == \/ \E c \in Scans : ScanOnly(c) \/ Dial(c) \/ Step(c) \/ Return(c)
        \/ Crash

Spec == Init /\ [][Next]_vars
-----------------------------------------------------------------------------
\* What a content-addressed warehouse has under a hash is the ware of that hash,
\* whatever failed: a writer of s3 that fails is the first one to be closed
\* (s3_transmat.go:244).  Where tar drops an error, this may not hold.
FiledUnderOwnHash ==
  /\ TypeOK
  /\ \A w \in CA, h \in Wares :
       \/ shelf[Place(w, h)] \in {None, h}
       \/ kind = "tar" /\ Place(w, h) \in overlooked

\* A warehouse has a ware on its shelf, or pushed aside beside it.
Stocked(w) == \/ \E p \in Places : p[1] = w /\ shelf[p] \in Wares
              \/ w \in expired
              \/ \E c \in Scans : aside[c] # None /\ Here(c) = w

\* The hash a scan computed for its k-th warehouse.
Hash(c, k) == IF kind = "dir" THEN ids[c][k] ELSE Id(c)

\* A scan that returned a hash has saved what it hashed in every warehouse that
\* answered, or dropped an error of that very one; what it put in a plain
\* warehouse may have been replaced by another since (tar_warehouse.go:291).  What
\* it staged or pushed aside may still be lying about (dir_warehouse.go:161, 189).
StoredWhenDone ==
  \A c \in Scans : pc[c] = "done" => \A k \in DOMAIN route[c] :
    LET w == route[c][k]
    IN \/ Place(w, Hash(c, k)) \in overlooked
       \/ w \in CA /\ shelf[Place(w, Hash(c, k))] = Hash(c, k)
       \/ w \in Plain /\ Stocked(w)

\* A ware that is there is never taken away by another save or a crash, and one
\* in a plain warehouse only when the next is complete (dir_warehouse.go:16-21);
\* but a plain warehouse of dir is empty for a while.
KeptWhole ==
  [][\A p \in Places : shelf[p] \in Wares /\ (kind = "dir" => p[1] \in CA) =>
       \/ shelf'[p] \in IF p[1] \in CA THEN {shelf[p]} ELSE Wares
       \/ kind = "tar" /\ p \in overlooked']_vars

\* A plain warehouse of dir, with a ware on its shelf or beside it, does not lose
\* the last: not by racing scans, a failed rename, or a crash between the two.
NothingIsLost ==
  [][kind = "dir" => \A w \in Plain : Stocked(w) => Stocked(w)']_vars
=============================================================================
