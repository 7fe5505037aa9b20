-------------------------------- MODULE Book --------------------------------
(***************************************************************************)
(* Editions of one catalog.  Release clones a book with the slice header   *)
(* of each track, and appends: the new edition shares the track's array    *)
(* with the old one while there is room in it, and copies it otherwise.    *)
(* Publishers take the latest book of the knowledge base, release one ware *)
(* with it and publish the result.                                         *)
(***************************************************************************)
EXTENDS Naturals, Sequences

CONSTANTS Publishers, Wares,
          Unused,      \* content of an array cell nothing was stored in
          MaxEditions  \* bound on the editions published

VARIABLES arrays,    \* backing arrays, as sequences of their capacity
          latest,    \* kb.catalogs[id]: the slice header of the default track
          mine,      \* the book each publisher got or made
          pc,        \* "idle", "got", "released"
          published  \* the slices published so far, with the wares they had (history)

vars == <<arrays, latest, mine, pc, published>>

\* A slice header: array 0 is nil.
New   == [arr |-> 0, len |-> 0]
Cap(b) == IF b.arr = 0 THEN 0 ELSE Len(arrays[b.arr])
All(b) == IF b.arr = 0 THEN <<>> ELSE SubSeq(arrays[b.arr], 1, b.len)

Init == /\ arrays = <<>> /\ latest = New
        /\ mine = [p \in Publishers |-> New]
        /\ pc = [p \in Publishers |-> "idle"]
        /\ published = <<>>

Catalog(p) == /\ pc[p] = "idle" /\ Len(published) < MaxEditions
              /\ mine' = [mine EXCEPT ![p] = latest]
              /\ pc' = [pc EXCEPT ![p] = "got"]
              /\ UNCHANGED <<arrays, latest, published>>

\* append doubles an array that is full; these sizes fill their size class.
Grown(b, w) == All(b) \o <<w>> \o [i \in 1 .. b.len - 1 |-> Unused]

Cell(b) == b.len + 1

Release(p, w) ==
  LET b == mine[p] IN
  /\ pc[p] = "got"
  /\ IF b.len < Cap(b)
       THEN /\ arrays' = [arrays EXCEPT ![b.arr][Cell(b)] = w]
            /\ mine' = [mine EXCEPT ![p].len = @ + 1]
       ELSE /\ arrays' = Append(arrays, Grown(b, w))
            /\ mine' = [mine EXCEPT ![p] = [arr |-> Len(arrays) + 1, len |-> b.len + 1]]
  /\ pc' = [pc EXCEPT ![p] = "released"]
  /\ UNCHANGED <<latest, published>>

PublishCatalog(p) ==
  /\ pc[p] = "released"
  /\ latest' = mine[p]
  /\ published' = Append(published, [book |-> mine[p], wares |-> All(mine[p])])
  /\ pc' = [pc EXCEPT ![p] = "idle"]
  /\ UNCHANGED <<arrays, mine>>

Next == \E p \in Publishers :
          \/ Catalog(p)
          \/ \E w \in Wares : Release(p, w)
          \/ PublishCatalog(p)

Spec == Init /\ [][Next]_vars
-----------------------------------------------------------------------------
\* "a catalog edition should be an immutable thing" (catalog.go:91): what was
\* published never changes, whatever is released after it and from it.
EditionsAreImmutable ==
  \A k \in DOMAIN published : All(published[k].book) = published[k].wares
=============================================================================
