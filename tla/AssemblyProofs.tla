--------------------------- MODULE AssemblyProofs ---------------------------
(***************************************************************************)
(* Assembly for any parts of a job and any faults: the inputs that jobs    *)
(* share are never written, host directories mounted read-only are not,    *)
(* a job that is done has left nothing mounted and no layer, and what was  *)
(* placed is what the job finds.                                           *)
(***************************************************************************)
EXTENDS Assembly, SequenceTheorems, FiniteSetTheorems, WellFoundedInduction, TLAPS

Over  == {"remove", "done", "crashed"}
Mount == [part : Parts, at : Paths, rw : BOOLEAN, cow : BOOLEAN]

MountsOK ==
  /\ mounts \in Seq(Mount)
  /\ \A k \in DOMAIN mounts :
       /\ mounts[k].at = Target[mounts[k].part]
       /\ Style(mounts[k].part) = IF mounts[k].cow THEN "overlay" ELSE "bind"

\* The variables but for the trees, and where the goroutine may be.
Basic ==
  /\ pc \in {"assemble", "place", "mount", "remount", "run", "teardown"} \cup Over
  /\ todo \in Seq(Parts) /\ emplaced \in Seq(Parts) /\ MountsOK
  /\ raised \in {"nothing", "panic", "fault"} /\ mountable \in BOOLEAN
  /\ pc \in {"place", "mount", "remount"} => todo # <<>>
  /\ pc = "remount" => mounts # <<>> /\ mounts[Len(mounts)].part = Head(todo)
  /\ raised # "nothing" => pc \in Over
  /\ pc = "done" => mounts = <<>>

\* A read-only bind is writable only until the second mount call, or when it failed.
Guarded == \A k \in DOMAIN mounts :
  mounts[k].rw /\ ~mounts[k].cow /\ ~Writable[mounts[k].part] =>
    raised # "nothing" \/ (pc = "remount" /\ k = Len(mounts))

\* The layers are those of emplaced parts.
LayersKnown ==
  /\ \A p \in layers : p \in Parts /\ Style(p) = "overlay"
  /\ pc \notin Over => \A p \in layers : \E i \in DOMAIN emplaced : emplaced[i] = p
  /\ pc \in Over /\ raised = "nothing" => layers = {}

\* No part is placed twice.
Distinct == /\ \A i, j \in DOMAIN todo : todo[i] = todo[j] => i = j
            /\ \A i, j \in DOMAIN emplaced : emplaced[i] = emplaced[j] => i = j
            /\ \A i \in DOMAIN todo, j \in DOMAIN emplaced : todo[i] # emplaced[j]

\* The mounts are those of the emplaced parts, in their order, and of the part
\* that is about to be made read-only.
MountsPlaced == \A k \in DOMAIN mounts :
  \/ \E i \in DOMAIN emplaced : emplaced[i] = mounts[k].part
  \/ pc = "remount" /\ k = Len(mounts)
PlacedMounted == \A i \in DOMAIN emplaced :
  Style(emplaced[i]) # "copy" => \E k \in DOMAIN mounts : mounts[k].part = emplaced[i]
InTurn == \A k, l \in DOMAIN mounts, i, j \in DOMAIN emplaced :
  emplaced[i] = mounts[k].part /\ emplaced[j] = mounts[l].part /\ k < l => i < j

\* Where a part was copied to, it could be written; when everything younger is
\* taken down again, its removal meets the same mount.
Under(i) == {k \in Covering(Target[emplaced[i]]) :
               \E j \in 1 .. i - 1 : emplaced[j] = mounts[k].part}
Landed == \A i \in DOMAIN emplaced : Style(emplaced[i]) = "copy" =>
  \A k \in Under(i) : (\A l \in Under(i) : l <= k) => mounts[k].rw

Stacked == pc \notin Over => Distinct /\ MountsPlaced /\ PlacedMounted /\ InTurn /\ Landed

Trees ==
  /\ IsTree(root)
  /\ upper = [p \in Parts |-> upper[p]] /\ host = [p \in Parts |-> host[p]]
  /\ \A p \in Parts : IsTree(upper[p]) /\ IsTree(host[p])
Shared == \A p \in Parts : ~BareMount[p] => host[p] = Source[p]

Stack   == Basic /\ Guarded /\ LayersKnown /\ Stacked
Content == Trees /\ Shared /\ ReadOnlyHonoured
IInv    == Stack /\ Content
-----------------------------------------------------------------------------
LEMMA MountFacts ==
  ASSUME Basic, NEW k \in DOMAIN mounts
  PROVE  /\ DOMAIN mounts = 1 .. Len(mounts) /\ Len(mounts) \in Nat
         /\ mounts[k].part \in Parts /\ mounts[k].at \in Paths
         /\ mounts[k].rw \in BOOLEAN /\ mounts[k].cow \in BOOLEAN
         /\ mounts[k].at = Target[mounts[k].part]
<1>1. mounts \in Seq(Mount) /\ mounts[k].at = Target[mounts[k].part]
  BY DEF Basic, MountsOK
<1>2. DOMAIN mounts = 1 .. Len(mounts) /\ Len(mounts) \in Nat
  BY <1>1, LenProperties
<1>3. mounts[k] \in Mount
  BY <1>1, <1>2, ElementOfSeq
<1>4. QED  BY <1>1, <1>2, <1>3 DEF Mount

\* The youngest mount that covers a path.
LEMMA TopFacts ==
  ASSUME Basic, NEW p
  PROVE  /\ Covering(p) = {} => Top(p) = 0
         /\ Covering(p) # {} => /\ Top(p) \in Covering(p) /\ Top(p) # 0
                                /\ \A k \in Covering(p) : k <= Top(p)
<1>1. DOMAIN mounts = 1 .. Len(mounts) /\ Len(mounts) \in Nat
  BY LenProperties DEF Basic, MountsOK
<1>2. CASE Covering(p) # {}
  <2> DEFINE R == {ss \in Nat \X Nat : ss[1] < ss[2]}
             T == {Len(mounts) - k : k \in Covering(p)}
  <2>1. Covering(p) \subseteq 1 .. Len(mounts)
    BY <1>1 DEF Covering
  <2>2. T \subseteq Nat /\ T # {}
    BY <1>1, <1>2, <2>1
  <2>3. IsWellFoundedOn(R, Nat)
    BY NatLessThanWellFounded DEF OpToRel
  <2>4. PICK m \in T : \A n \in T : ~(<<n, m>> \in R)
    <3> HIDE DEF R, T
    <3>1. QED  BY <2>2, <2>3, WFMin
  <2>5. PICK k \in Covering(p) : m = Len(mounts) - k
    BY <2>4
  <2>6. ASSUME NEW l \in Covering(p) PROVE k >= l
    <3>1. Len(mounts) - l \in T /\ Len(mounts) - l \in Nat /\ m \in Nat
      BY <2>2, <2>4, <2>6
    <3>2. ~(Len(mounts) - l < m)
      BY <2>4, <3>1
    <3>3. k \in Nat /\ l \in Nat
      BY <1>1, <2>1
    <3>4. QED  BY <1>1, <2>5, <3>1, <3>2, <3>3
  <2> HIDE DEF R, T
  <2>7. \E x \in Covering(p) : \A y \in Covering(p) : x >= y
    BY <2>6
  <2>8. Top(p) \in Covering(p) /\ \A y \in Covering(p) : Top(p) >= y
    BY <1>2, <2>7 DEF Top, Max
  <2>9. Top(p) \in Nat /\ Top(p) # 0 /\ Covering(p) \subseteq Nat
    BY <1>1, <2>1, <2>8
  <2>10. QED  BY <1>2, <2>8, <2>9
<1>3. QED  BY <1>2 DEF Top

LEMMA RelIsPath ==
  ASSUME Basic, NEW p \in Paths
  PROVE  Rel(p) \in Paths
<1>1. CASE Top(p) = 0
  BY <1>1 DEF Rel
<1>2. CASE Top(p) # 0
  <2> DEFINE k == Top(p)
  <2>1. k \in DOMAIN mounts /\ IsPrefix(mounts[k].at, p)
    BY <1>2, TopFacts DEF Covering
  <2> HIDE DEF k
  <2>2. mounts[k].at \in Seq(Nat) /\ p \in Seq(Nat)
    BY <2>1, MountFacts, PathAssumption
  <2>3. Len(mounts[k].at) \in 0 .. Len(p)
    BY <2>1, <2>2, LenProperties DEF IsPrefix
  <2>4. Below(mounts[k].at, p) \in Paths
    BY <2>3, PathAssumption DEF Below
  <2>5. QED  BY <1>2, <2>4 DEF Rel, k
<1>3. QED  BY <1>1, <1>2

LEMMA TreeAt ==
  ASSUME Basic, Trees, NEW p
  PROVE  IsTree(Tree(Top(p)))
<1>1. CASE Top(p) = 0
  BY <1>1 DEF Tree, Trees
<1>2. CASE Top(p) # 0
  <2>1. mounts[Top(p)].part \in Parts
    BY <1>2, TopFacts, MountFacts DEF Covering
  <2>2. QED  BY <1>2, <2>1 DEF Tree, Trees
<1>3. QED  BY <1>1, <1>2

LEMMA OntoIsTree ==
  ASSUME NEW f, IsTree(f), NEW tree, IsTree(tree)
  PROVE  IsTree(Onto(f, tree))
BY DEF Onto, IsTree

LEMMA PutIsTree ==
  ASSUME NEW tree, IsTree(tree), NEW p \in Paths, NEW node, node.type \in {"dir", "file", "other"}
  PROVE  IsTree(Put(tree, p, node))
<1>1. IsTree([q \in {p} |-> node])
  BY DEF IsTree
<1>2. QED  BY <1>1, OntoIsTree DEF Put

LEMMA DropIsTree ==
  ASSUME NEW tree, IsTree(tree), NEW p
  PROVE  IsTree(Drop(tree, p))
BY DEF Drop, IsTree

\* Only a host mount is bound where it is.
LEMMA BoundIsBare ==
  ASSUME Basic, NEW k \in DOMAIN mounts, ~mounts[k].cow
  PROVE  BareMount[mounts[k].part]
<1>1. mounts[k].part \in Parts /\ Style(mounts[k].part) = "bind"
  BY MountFacts DEF Basic, MountsOK
<1>2. QED  BY <1>1, PartAssumption DEF Style

\* A change through the mounts reaches neither an input nor what is read-only.
LEMMA ChangeFacts ==
  ASSUME Stack, Content, pc \notin Over \cup {"remount"}, NEW p, NEW t, IsTree(t), Change(p, t),
         Top(p) # 0 => mounts[Top(p)].rw
  PROVE  Content'
<1>1. raised = "nothing" /\ Basic
  BY DEF Stack, Basic
<1>2. ASSUME Top(p) # 0, NEW q \in Parts, ~mounts[Top(p)].cow, q = mounts[Top(p)].part
      PROVE  BareMount[q] /\ Writable[q]
  <2>1. Top(p) \in DOMAIN mounts /\ mounts[Top(p)].rw
    BY <1>1, <1>2, TopFacts DEF Covering
  <2>2. QED  BY <1>1, <1>2, <2>1, BoundIsBare DEF Stack, Guarded
<1>3. Top(p) # 0 => mounts[Top(p)].part \in Parts
  BY <1>1, TopFacts, MountFacts DEF Covering
<1>4. /\ IsTree(root') /\ upper' = [q \in Parts |-> upper'[q]] /\ host' = [q \in Parts |-> host'[q]]
      /\ \A q \in Parts : upper'[q] \in {upper[q], t} /\ host'[q] \in {host[q], t}
      /\ \A q \in Parts : ~(BareMount[q] /\ Writable[q]) => host'[q] = host[q]
  <2>1. /\ root' = IF Top(p) = 0 THEN t ELSE root
        /\ upper' = IF Top(p) # 0 /\ mounts[Top(p)].cow
                    THEN [upper EXCEPT ![mounts[Top(p)].part] = t] ELSE upper
        /\ host' = IF Top(p) # 0 /\ ~mounts[Top(p)].cow
                   THEN [host EXCEPT ![mounts[Top(p)].part] = t] ELSE host
    BY DEF Change
  <2>2. CASE Top(p) = 0
    BY <2>1, <2>2 DEF Content, Trees
  <2>3. CASE Top(p) # 0 /\ mounts[Top(p)].cow
    BY <1>3, <2>1, <2>3 DEF Content, Trees
  <2>4. CASE Top(p) # 0 /\ ~mounts[Top(p)].cow
    BY <1>2, <1>3, <2>1, <2>4 DEF Content, Trees
  <2>5. QED  BY <2>2, <2>3, <2>4
<1>5. Trees'
  BY <1>4 DEF Content, Trees
<1>6. Shared'
  BY <1>4 DEF Content, Shared
<1>7. ReadOnlyHonoured'
  BY <1>1, <1>4 DEF Content, ReadOnlyHonoured
<1>8. QED  BY <1>5, <1>6, <1>7 DEF Content

LEMMA NoChangeFacts ==
  ASSUME Content, NoChange, raised' = raised \/ raised' # "nothing"
  PROVE  Content'
BY DEF NoChange, Content, Trees, Shared, ReadOnlyHonoured
-----------------------------------------------------------------------------
\* The goroutine goes on, and nothing is placed or taken down.
LEMMA GoesOn ==
  ASSUME Stack, UNCHANGED <<todo, emplaced, mounts, layers, raised, mountable>>,
         pc \notin Over \cup {"remount"},
         pc' \in {"assemble", "place", "mount", "run", "teardown"},
         pc' \in {"place", "mount"} => todo # <<>>
  PROVE  Stack'
<1>1. \A p : Style(p)' = Style(p)
  BY DEF Style
<1>2. Basic'
  BY <1>1 DEF Stack, Basic, MountsOK, Over
<1>3. Guarded'
  BY DEF Stack, Guarded
<1>4. LayersKnown'
  BY <1>1 DEF Stack, LayersKnown, Over
<1>5. Stacked'
  <2>1. \A i : Under(i)' = Under(i)
    BY DEF Under, Covering
  <2>2. Landed'
    BY <1>1, <2>1 DEF Stack, Stacked, Landed
  <2>3. Distinct' /\ InTurn' /\ MountsPlaced' /\ PlacedMounted'
    BY <1>1 DEF Stack, Stacked, Distinct, InTurn, MountsPlaced, PlacedMounted
  <2>4. QED  BY <2>2, <2>3 DEF Stacked
<1>6. QED  BY <1>2, <1>3, <1>4, <1>5 DEF Stack

\* It stops with an error.
LEMMA GivesUp ==
  ASSUME Stack, MountsOK', pc' = "remove", raised' \in {"panic", "fault"},
         todo' \in Seq(Parts), emplaced' \in Seq(Parts), UNCHANGED mountable,
         \A p \in layers' : p \in Parts /\ Style(p) = "overlay"
  PROVE  Stack'
<1>1. \A p : Style(p)' = Style(p)
  BY DEF Style
<1>2. QED  BY <1>1 DEF Stack, Basic, Guarded, LayersKnown, Stacked, Over

LEMMA PanicFacts ==
  ASSUME Stack, Panic, UNCHANGED <<todo, emplaced, mounts, layers, mountable>>
  PROVE  Stack' /\ raised' # "nothing"
<1>1. \A p : Style(p)' = Style(p)
  BY DEF Style
<1>2. MountsOK' /\ todo' \in Seq(Parts) /\ emplaced' \in Seq(Parts)
  BY <1>1 DEF Stack, Basic, MountsOK
<1>3. \A p \in layers' : p \in Parts /\ Style(p) = "overlay"
  BY DEF Stack, LayersKnown
<1>4. QED  BY <1>2, <1>3, GivesUp DEF Panic

LEMMA HeadFacts ==
  ASSUME Stack, todo # <<>>
  PROVE  /\ Head(todo) \in Parts /\ Target[Head(todo)] \in Paths
         /\ Head(todo) = todo[1] /\ 1 \in DOMAIN todo
<1>1. todo \in Seq(Parts)
  BY DEF Stack, Basic
<1>2. Head(todo) \in Parts /\ Head(todo) = todo[1]
  BY <1>1, HeadTailProperties
<1>3. Len(todo) \in Nat /\ Len(todo) # 0 /\ DOMAIN todo = 1 .. Len(todo)
  BY <1>1, EmptySeq, LenProperties
<1>4. QED  BY <1>2, <1>3, PartAssumption

\* What recording a part does to the two lists.
LEMMA RecordFacts ==
  ASSUME Stack, pc \notin Over, todo # <<>>, Record, NEW n, n = Len(emplaced)
  PROVE  /\ n \in Nat /\ DOMAIN emplaced = 1 .. n /\ DOMAIN emplaced' = 1 .. n + 1
         /\ \A i \in 1 .. n : emplaced'[i] = emplaced[i]
         /\ emplaced'[n + 1] = Head(todo)
         /\ \A i \in 1 .. n : emplaced[i] # Head(todo)
         /\ todo' \in Seq(Parts) /\ emplaced' \in Seq(Parts) /\ Distinct'
<1>1. todo \in Seq(Parts) /\ emplaced \in Seq(Parts) /\ Distinct
  BY DEF Stack, Basic, Stacked
<1>2. todo' = Tail(todo) /\ emplaced' = Append(emplaced, Head(todo))
  BY DEF Record
<1>3. Head(todo) \in Parts /\ Head(todo) = todo[1] /\ 1 \in DOMAIN todo
  BY HeadFacts
<1>4. n \in Nat /\ DOMAIN emplaced = 1 .. n
  BY <1>1, LenProperties
<1>5. /\ emplaced' \in Seq(Parts) /\ DOMAIN emplaced' = 1 .. n + 1
      /\ \A i \in 1 .. n : emplaced'[i] = emplaced[i]
      /\ emplaced'[n + 1] = Head(todo)
  BY <1>1, <1>2, <1>3, <1>4, AppendProperties
<1>6. /\ todo' \in Seq(Parts) /\ DOMAIN todo' \subseteq Nat
      /\ \A i \in DOMAIN todo' : i + 1 \in DOMAIN todo /\ i + 1 # 1 /\ todo'[i] = todo[i + 1]
  <2>1. /\ Tail(todo) \in Seq(Parts) /\ Len(Tail(todo)) = Len(todo) - 1
        /\ \A i \in 1 .. Len(Tail(todo)) : Tail(todo)[i] = todo[i + 1]
    BY <1>1, HeadTailProperties
  <2>2. /\ Len(todo) \in Nat /\ DOMAIN todo = 1 .. Len(todo)
        /\ DOMAIN Tail(todo) = 1 .. Len(Tail(todo))
    BY <1>1, <2>1, LenProperties
  <2>3. QED  BY <1>2, <2>1, <2>2
<1>7. \A i \in 1 .. n : emplaced[i] # Head(todo)
  BY <1>1, <1>3, <1>4 DEF Distinct
<1>8. Distinct'
  <2>1. ASSUME NEW i \in DOMAIN todo', NEW j \in DOMAIN todo', todo'[i] = todo'[j]
        PROVE  i = j
    <3>1. i + 1 = j + 1
      BY <1>1, <1>6, <2>1 DEF Distinct
    <3>2. QED  BY <1>6, <3>1
  <2>2. ASSUME NEW i \in 1 .. n + 1, NEW j \in 1 .. n + 1, emplaced'[i] = emplaced'[j]
        PROVE  i = j
    <3>1. CASE i \in 1 .. n /\ j \in 1 .. n
      BY <1>1, <1>4, <1>5, <2>2, <3>1 DEF Distinct
    <3>2. CASE i \notin 1 .. n \/ j \notin 1 .. n
      BY <1>4, <1>5, <1>7, <2>2, <3>2
    <3>3. QED  BY <3>1, <3>2
  <2>3. ASSUME NEW i \in DOMAIN todo', NEW j \in 1 .. n + 1 PROVE todo'[i] # emplaced'[j]
    <3>1. CASE j \in 1 .. n
      BY <1>1, <1>4, <1>5, <1>6, <3>1 DEF Distinct
    <3>2. CASE j = n + 1
      BY <1>1, <1>3, <1>5, <1>6, <3>2 DEF Distinct
    <3>3. QED  BY <1>4, <3>1, <3>2
  <2>4. QED  BY <1>5, <2>1, <2>2, <2>3 DEF Distinct
<1>9. QED  BY <1>4, <1>5, <1>6, <1>7, <1>8

\* A part is copied to where it can be written.
LEMMA CopyRecorded ==
  ASSUME Stack, pc = "place", Record, UNCHANGED <<mounts, layers, mountable>>,
         Style(Head(todo)) = "copy", CanWrite(Target[Head(todo)])
  PROVE  Stack'
<1> DEFINE h == Head(todo)
<1> PICK n : n = Len(emplaced)
  OBVIOUS
<1>0. /\ Basic /\ Distinct /\ MountsPlaced /\ PlacedMounted /\ InTurn /\ Landed /\ todo # <<>>
      /\ pc' = "assemble" /\ raised' = raised /\ raised = "nothing"
  BY DEF Stack, Stacked, Basic, Over, Record
<1>1. /\ n \in Nat /\ DOMAIN emplaced = 1 .. n /\ DOMAIN emplaced' = 1 .. n + 1
      /\ \A i \in 1 .. n : emplaced'[i] = emplaced[i]
      /\ emplaced'[n + 1] = h
      /\ \A i \in 1 .. n : emplaced[i] # h
      /\ todo' \in Seq(Parts) /\ emplaced' \in Seq(Parts) /\ Distinct'
  BY <1>0, RecordFacts DEF Over
<1>2. \A p : Style(p)' = Style(p)
  BY DEF Style
<1>3. Basic'
  BY <1>0, <1>1, <1>2 DEF Basic, MountsOK
<1>4. Guarded'
  BY <1>0 DEF Stack, Guarded
<1>5. LayersKnown'
  BY <1>0, <1>1, <1>2 DEF Stack, LayersKnown, Over
<1>6. MountsPlaced'
  BY <1>0, <1>1 DEF MountsPlaced
<1>7. PlacedMounted'
  <2>1. ASSUME NEW i \in 1 .. n + 1, Style(emplaced'[i]) # "copy"
        PROVE  \E k \in DOMAIN mounts : mounts[k].part = emplaced'[i]
    <3>1. i \in 1 .. n
      BY <1>1, <2>1
    <3>2. QED  BY <1>0, <1>1, <2>1, <3>1 DEF PlacedMounted
  <2>2. QED  BY <1>1, <1>2, <2>1 DEF PlacedMounted
<1>8. \A k \in DOMAIN mounts : \E i \in 1 .. n : emplaced[i] = mounts[k].part
  BY <1>0, <1>1 DEF MountsPlaced
<1>9. InTurn'
  <2>1. ASSUME NEW k \in DOMAIN mounts, NEW i \in 1 .. n + 1, emplaced'[i] = mounts[k].part
        PROVE  i \in 1 .. n
    <3>1. PICK j \in 1 .. n : emplaced[j] = mounts[k].part
      BY <1>8
    <3>2. emplaced[j] # h
      BY <1>1
    <3>3. i # n + 1
      BY <1>1, <2>1, <3>1, <3>2
    <3>4. QED  BY <1>1, <3>3
  <2>2. QED  BY <1>0, <1>1, <2>1 DEF InTurn
<1>10. Landed'
  <2>1. ASSUME NEW i \in 1 .. n, Style(emplaced[i]) = "copy"
        PROVE  Under(i)' = Under(i)
    <3>1. \A j \in 1 .. i - 1 : j \in 1 .. n
      BY <1>1
    <3>2. mounts' = mounts /\ emplaced'[i] = emplaced[i]
          /\ \A j \in 1 .. i - 1 : emplaced'[j] = emplaced[j]
      BY <1>1, <3>1
    <3>3. QED  BY <3>2 DEF Under, Covering
  <2>2. Under(n + 1)' = Covering(Target[h])
    <3>1. Under(n + 1)' = {k \in Covering(Target[h]) :
                             \E j \in 1 .. n : emplaced'[j] = mounts[k].part}
      <4>1. PICK m : m = n + 1
        OBVIOUS
      <4>2. Under(m)' = {k \in Covering(Target[emplaced'[m]]) :
                           \E j \in 1 .. m - 1 : emplaced'[j] = mounts[k].part}
        BY DEF Under, Covering
      <4>3. m - 1 = n /\ emplaced'[m] = h
        BY <1>1, <4>1
      <4>4. Under(m)' = {k \in Covering(Target[h]) :
                           \E j \in 1 .. n : emplaced'[j] = mounts[k].part}
        BY <4>2, <4>3
      <4>5. QED  BY <4>1, <4>4
    <3>2. \A k \in Covering(Target[h]) : \E j \in 1 .. n : emplaced'[j] = mounts[k].part
      BY <1>1, <1>8 DEF Covering
    <3>3. QED  BY <3>1, <3>2
  <2>3. ASSUME NEW k \in Covering(Target[h]), \A l \in Covering(Target[h]) : l <= k
        PROVE  mounts[k].rw
    <3>1. Top(Target[h]) \in Covering(Target[h]) /\ Top(Target[h]) # 0 /\ k <= Top(Target[h])
      BY <1>0, <2>3, TopFacts
    <3>2. DOMAIN mounts = 1 .. Len(mounts)
      BY <1>0, LenProperties DEF Basic, MountsOK
    <3>3. k \in Nat /\ Top(Target[h]) \in Nat
      BY <3>1, <3>2 DEF Covering
    <3>4. k = Top(Target[h])
      BY <2>3, <3>1, <3>3
    <3>5. QED  BY <3>1, <3>4 DEF CanWrite
  <2>4. ASSUME NEW i \in 1 .. n + 1, Style(emplaced'[i]) = "copy", NEW k \in Under(i)',
               \A l \in Under(i)' : l <= k
        PROVE  mounts[k].rw
    <3>1. CASE i \in 1 .. n
      <4>1. Style(emplaced[i]) = "copy" /\ i \in DOMAIN emplaced
        BY <1>1, <2>4, <3>1
      <4>2. Under(i)' = Under(i)
        BY <2>1, <3>1, <4>1
      <4>3. QED  BY <1>0, <2>4, <4>1, <4>2 DEF Landed
    <3>2. CASE i = n + 1
      BY <2>2, <2>3, <2>4, <3>2
    <3>3. QED  BY <1>1, <3>1, <3>2
  <2>5. QED  BY <1>1, <1>2, <2>4 DEF Landed
<1>11. QED  BY <1>1, <1>3, <1>4, <1>5, <1>6, <1>7, <1>9, <1>10 DEF Stack, Stacked

LEMMA MountAppended ==
  ASSUME Stack, NEW h \in Parts, NEW cow \in BOOLEAN, UNCHANGED mountable,
         Style(h) = IF cow THEN "overlay" ELSE "bind",
         mounts' = Append(mounts, Mounted(h, cow)), NEW L, L = Len(mounts)
  PROVE  /\ MountsOK' /\ L \in Nat /\ DOMAIN mounts = 1 .. L /\ DOMAIN mounts' = 1 .. L + 1
         /\ Len(mounts') = L + 1 /\ mounts' # <<>>
         /\ \A k \in 1 .. L : mounts'[k] = mounts[k]
         /\ mounts'[L + 1] = Mounted(h, cow) /\ Mounted(h, cow).part = h
<1>1. mounts \in Seq(Mount) /\ MountsOK
  BY DEF Stack, Basic, MountsOK
<1>2. Mounted(h, cow) \in Mount /\ Mounted(h, cow).part = h /\ Mounted(h, cow).at = Target[h]
      /\ Mounted(h, cow).cow = cow
  BY PartAssumption DEF Mounted, Mount
<1>3. L \in Nat /\ DOMAIN mounts = 1 .. L
  BY <1>1, LenProperties
<1>4. /\ mounts' \in Seq(Mount) /\ DOMAIN mounts' = 1 .. L + 1 /\ Len(mounts') = L + 1
      /\ \A k \in 1 .. L : mounts'[k] = mounts[k]
      /\ mounts'[L + 1] = Mounted(h, cow)
  BY <1>1, <1>2, <1>3, AppendProperties
<1>5. \A p : Style(p)' = Style(p)
  BY DEF Style
<1>6. ASSUME NEW k \in 1 .. L + 1
      PROVE  /\ mounts'[k].at = Target[mounts'[k].part]
             /\ Style(mounts'[k].part) = IF mounts'[k].cow THEN "overlay" ELSE "bind"
  <2>1. CASE k \in 1 .. L
    BY <1>1, <1>3, <1>4, <2>1 DEF MountsOK
  <2>2. CASE k = L + 1
    BY <1>2, <1>4, <2>2
  <2>3. QED  BY <1>3, <2>1, <2>2
<1>7. MountsOK'
  BY <1>4, <1>5, <1>6 DEF MountsOK
<1>8. mounts' # <<>>
  BY <1>3, <1>4, EmptySeq
<1>9. QED  BY <1>2, <1>3, <1>4, <1>7, <1>8

\* A part is recorded whose mount is the youngest one.
LEMMA MountRecorded ==
  ASSUME Stack, pc \in {"mount", "remount"}, Record, UNCHANGED mountable, MountsOK',
         NEW h, h = Head(todo), Style(h) # "copy", NEW L \in Nat,
         DOMAIN mounts' = 1 .. L + 1, mounts'[L + 1].part = h,
         mounts'[L + 1].rw /\ ~mounts'[L + 1].cow => Writable[h],
         \A k \in 1 .. L : mounts'[k] = mounts[k],
         DOMAIN mounts = 1 .. L \/ (DOMAIN mounts = 1 .. L + 1 /\ mounts[L + 1].part = h),
         \A k \in 1 .. L : \E i \in DOMAIN emplaced : emplaced[i] = mounts[k].part,
         \A k \in 1 .. L : ~(pc = "remount" /\ k = Len(mounts)),
         layers' = layers \/ (layers' = layers \cup {h} /\ Style(h) = "overlay")
  PROVE  Stack'
<1> PICK n : n = Len(emplaced)
  OBVIOUS
<1>0. /\ Basic /\ Distinct /\ PlacedMounted /\ InTurn /\ Landed /\ todo # <<>>
      /\ pc' = "assemble" /\ raised' = raised /\ raised = "nothing"
  BY DEF Stack, Stacked, Basic, Over, Record
<1>1. /\ n \in Nat /\ DOMAIN emplaced = 1 .. n /\ DOMAIN emplaced' = 1 .. n + 1
      /\ \A i \in 1 .. n : emplaced'[i] = emplaced[i]
      /\ emplaced'[n + 1] = h
      /\ \A i \in 1 .. n : emplaced[i] # h
      /\ todo' \in Seq(Parts) /\ emplaced' \in Seq(Parts) /\ Distinct'
  BY <1>0, RecordFacts DEF Over
<1>2. \A p : Style(p)' = Style(p)
  BY DEF Style
<1>3. h \in Parts
  BY <1>0, HeadFacts
<1>4. Basic'
  BY <1>0, <1>1 DEF Basic
<1>5. Guarded'
  <2>1. ASSUME NEW k \in 1 .. L, mounts'[k].rw, ~mounts'[k].cow PROVE Writable[mounts'[k].part]
    <3>1. k \in DOMAIN mounts /\ mounts'[k] = mounts[k]
      OBVIOUS
    <3>2. QED  BY <1>0, <2>1, <3>1 DEF Stack, Guarded
  <2>2. \A k \in 1 .. L + 1 : k \in 1 .. L \/ k = L + 1
    OBVIOUS
  <2>3. QED  BY <2>1, <2>2 DEF Guarded
<1>6. LayersKnown'
  <2>1. \A p \in layers : p \in Parts /\ Style(p) = "overlay" /\ \E i \in 1 .. n : emplaced[i] = p
    BY <1>1 DEF Stack, LayersKnown, Over
  <2>2. ASSUME NEW p \in layers'
        PROVE  p \in Parts /\ Style(p) = "overlay" /\ \E i \in 1 .. n + 1 : emplaced'[i] = p
    <3>1. CASE p \in layers
      <4>1. PICK i \in 1 .. n : emplaced[i] = p
        BY <2>1, <3>1
      <4>2. i \in 1 .. n + 1 /\ emplaced'[i] = p
        BY <1>1, <4>1
      <4>3. QED  BY <2>1, <3>1, <4>2
    <3>2. CASE p \notin layers
      <4>1. p = h /\ Style(h) = "overlay"
        BY <2>2, <3>2
      <4>2. n + 1 \in 1 .. n + 1
        BY <1>1
      <4>3. QED  BY <1>1, <1>3, <4>1, <4>2
    <3>3. QED  BY <3>1, <3>2
  <2>3. QED  BY <1>0, <1>1, <1>2, <2>2 DEF LayersKnown, Over
<1>7. MountsPlaced'
  <2>1. ASSUME NEW k \in 1 .. L + 1
        PROVE  \E i \in 1 .. n + 1 : emplaced'[i] = mounts'[k].part
    <3>1. CASE k \in 1 .. L
      <4>1. PICK i \in 1 .. n : emplaced[i] = mounts[k].part
        BY <1>1, <3>1
      <4>2. i \in 1 .. n + 1 /\ emplaced'[i] = mounts'[k].part
        BY <1>1, <3>1, <4>1
      <4>3. QED  BY <4>2
    <3>2. CASE k = L + 1
      <4>1. n + 1 \in 1 .. n + 1
        BY <1>1
      <4>2. QED  BY <1>1, <3>2, <4>1
    <3>3. QED  BY <3>1, <3>2
  <2>2. QED  BY <1>1, <2>1 DEF MountsPlaced
<1>8. PlacedMounted'
  <2>1. ASSUME NEW i \in 1 .. n + 1, Style(emplaced'[i]) # "copy"
        PROVE  \E k \in 1 .. L + 1 : mounts'[k].part = emplaced'[i]
    <3>1. CASE i \in 1 .. n
      <4>1. PICK k \in DOMAIN mounts : mounts[k].part = emplaced[i]
        BY <1>0, <1>1, <2>1, <3>1 DEF PlacedMounted
      <4>2. k \in 1 .. L
        <5>1. mounts[k].part # h
          BY <1>1, <3>1, <4>1
        <5>2. QED  BY <4>1, <5>1
      <4>3. k \in 1 .. L + 1 /\ mounts'[k].part = emplaced'[i]
        BY <1>1, <3>1, <4>1, <4>2
      <4>4. QED  BY <4>3
    <3>2. CASE i = n + 1
      <4>1. L + 1 \in 1 .. L + 1
        OBVIOUS
      <4>2. QED  BY <1>1, <3>2, <4>1
    <3>3. QED  BY <1>1, <3>1, <3>2
  <2>2. QED  BY <1>1, <1>2, <2>1 DEF PlacedMounted
<1>9. ASSUME NEW k \in 1 .. L, NEW i \in 1 .. n + 1, emplaced'[i] = mounts'[k].part
      PROVE  i \in 1 .. n /\ emplaced[i] = mounts[k].part /\ k \in DOMAIN mounts
  <2>1. PICK j \in 1 .. n : emplaced[j] = mounts[k].part
    BY <1>1
  <2>2. mounts'[k].part # h
    BY <1>1, <2>1
  <2>3. i # n + 1
    BY <1>1, <1>9, <2>2
  <2>4. i \in 1 .. n
    <3>1. \A m \in Nat : \A l \in 1 .. m + 1 : l # m + 1 => l \in 1 .. m
      OBVIOUS
    <3>2. n \in Nat /\ i \in 1 .. n + 1
      BY <1>1
    <3>3. QED  BY <2>3, <3>1, <3>2
  <2>5. k \in DOMAIN mounts /\ mounts'[k] = mounts[k]
    OBVIOUS
  <2>6. QED  BY <1>1, <1>9, <2>4, <2>5
<1>10. InTurn'
  <2>1. ASSUME NEW k \in 1 .. L + 1, NEW l \in 1 .. L + 1,
               NEW i \in 1 .. n + 1, NEW j \in 1 .. n + 1,
               emplaced'[i] = mounts'[k].part, emplaced'[j] = mounts'[l].part, k < l
        PROVE  i < j
    <3>1. k \in 1 .. L
      BY <2>1
    <3>2. i \in 1 .. n /\ emplaced[i] = mounts[k].part /\ k \in DOMAIN mounts
      BY <1>9, <2>1, <3>1
    <3>3. CASE l \in 1 .. L
      <4>1. j \in 1 .. n /\ emplaced[j] = mounts[l].part /\ l \in DOMAIN mounts
        BY <1>9, <2>1, <3>3
      <4>2. i \in DOMAIN emplaced /\ j \in DOMAIN emplaced /\ k < l
        BY <1>1, <2>1, <3>2, <4>1
      <4>3. QED  BY <1>0, <3>2, <4>1, <4>2 DEF InTurn
    <3>4. CASE l = L + 1
      <4>1. j \notin 1 .. n
        BY <1>1, <2>1, <3>4
      <4>2. QED  BY <1>1, <2>1, <3>2, <4>1
    <3>5. QED  BY <2>1, <3>3, <3>4
  <2>2. QED  BY <1>1, <2>1 DEF InTurn
<1>11. Landed'
  <2>1. ASSUME NEW i \in 1 .. n
        PROVE  Under(i)' = Under(i) /\ Under(i) \subseteq 1 .. L
    <3>1. \A j \in 1 .. i - 1 : j \in 1 .. n /\ emplaced'[j] = emplaced[j] /\ emplaced[j] # h
      BY <1>1
    <3>2. Under(i) = {k \in DOMAIN mounts : IsPrefix(mounts[k].at, Target[emplaced[i]])
                        /\ \E j \in 1 .. i - 1 : emplaced[j] = mounts[k].part}
      BY DEF Under, Covering
    <3>3. Under(i)' = {k \in 1 .. L + 1 : IsPrefix(mounts'[k].at, Target[emplaced'[i]])
                        /\ \E j \in 1 .. i - 1 : emplaced'[j] = mounts'[k].part}
      BY DEF Under, Covering
    <3>4. \A k \in Under(i) : k # L + 1
      BY <3>1, <3>2
    <3>5. \A k \in Under(i)' : k # L + 1
      BY <3>1, <3>3
    <3>6. Under(i) \subseteq 1 .. L
      BY <3>2, <3>4
    <3>7. Under(i)' \subseteq 1 .. L
      BY <3>3, <3>5
    <3>8. \A k \in 1 .. L : k \in Under(i) <=> k \in Under(i)'
      <4>1. emplaced'[i] = emplaced[i]
        BY <1>1
      <4>2. QED  BY <3>1, <3>2, <3>3, <4>1
    <3>9. QED  BY <3>6, <3>7, <3>8
  <2>2. ASSUME NEW i \in 1 .. n + 1, Style(emplaced'[i]) = "copy", NEW k \in Under(i)',
               \A l \in Under(i)' : l <= k
        PROVE  mounts'[k].rw
    <3>1. i \in 1 .. n
      BY <1>1, <2>2
    <3>2. Style(emplaced[i]) = "copy" /\ k \in Under(i) /\ k \in 1 .. L
          /\ \A l \in Under(i) : l <= k
      BY <1>1, <2>1, <2>2, <3>1
    <3>3. mounts[k].rw
      BY <1>0, <1>1, <3>1, <3>2 DEF Landed
    <3>4. QED  BY <3>2, <3>3
  <2>3. QED  BY <1>1, <1>2, <2>2 DEF Landed
<1>12. QED  BY <1>1, <1>4, <1>5, <1>6, <1>7, <1>8, <1>10, <1>11 DEF Stack, Stacked

\* A mount that is yet to be made read-only.
LEMMA MountPending ==
  ASSUME Stack, pc = "mount", pc' = "remount",
         UNCHANGED <<todo, emplaced, layers, raised, mountable>>,
         Style(Head(todo)) = "bind", mounts' = Append(mounts, Mounted(Head(todo), FALSE))
  PROVE  Stack'
<1> PICK L, h : L = Len(mounts) /\ h = Head(todo)
  OBVIOUS
<1>0. /\ Basic /\ Distinct /\ MountsPlaced /\ PlacedMounted /\ InTurn /\ Landed /\ todo # <<>>
      /\ raised = "nothing"
  BY DEF Stack, Stacked, Basic, Over
<1>1. /\ h \in Parts /\ h = todo[1] /\ 1 \in DOMAIN todo
      /\ \A i \in DOMAIN emplaced : emplaced[i] # h
  BY <1>0, HeadFacts DEF Distinct
<1>2. /\ MountsOK' /\ L \in Nat /\ DOMAIN mounts = 1 .. L /\ DOMAIN mounts' = 1 .. L + 1
      /\ Len(mounts') = L + 1 /\ mounts' # <<>>
      /\ \A k \in 1 .. L : mounts'[k] = mounts[k]
      /\ mounts'[L + 1].part = h
  <2>1. /\ Style(h) = IF FALSE THEN "overlay" ELSE "bind"
        /\ mounts' = Append(mounts, Mounted(h, FALSE))
    OBVIOUS
  <2>2. FALSE \in BOOLEAN /\ UNCHANGED mountable /\ L = Len(mounts)
    OBVIOUS
  <2>3. /\ MountsOK' /\ L \in Nat /\ DOMAIN mounts = 1 .. L /\ DOMAIN mounts' = 1 .. L + 1
        /\ Len(mounts') = L + 1 /\ mounts' # <<>>
        /\ \A k \in 1 .. L : mounts'[k] = mounts[k]
        /\ mounts'[L + 1] = Mounted(h, FALSE) /\ Mounted(h, FALSE).part = h
    BY <1>1, <2>1, <2>2, MountAppended
  <2>4. QED  BY <2>3
<1>3. \A p : Style(p)' = Style(p)
  BY DEF Style
<1>4. Basic'
  BY <1>0, <1>2 DEF Basic
<1>5. Guarded'
  <2>1. \A k \in 1 .. L : mounts[k].rw /\ ~mounts[k].cow => Writable[mounts[k].part]
    BY <1>0, <1>2 DEF Stack, Guarded
  <2>2. \A k \in 1 .. L + 1 : k \in 1 .. L \/ k = L + 1
    BY <1>2
  <2>3. QED  BY <1>2, <2>1, <2>2 DEF Guarded
<1>6. LayersKnown'
  BY <1>3 DEF Stack, LayersKnown, Over
<1>7. MountsPlaced' /\ PlacedMounted' /\ Distinct'
  <2>1. \A k \in 1 .. L + 1 : k \in 1 .. L \/ k = L + 1
    BY <1>2
  <2>2. \A k \in 1 .. L : k \in 1 .. L + 1
    BY <1>2
  <2>3. MountsPlaced'
    BY <1>0, <1>2, <2>1 DEF MountsPlaced
  <2>4. PlacedMounted'
    BY <1>0, <1>2, <1>3, <2>2 DEF PlacedMounted
  <2>5. QED  BY <1>0, <2>3, <2>4 DEF Distinct
<1>8. InTurn'
  <2>1. ASSUME NEW k \in 1 .. L + 1, NEW i \in DOMAIN emplaced, emplaced[i] = mounts'[k].part
        PROVE  k \in 1 .. L /\ emplaced[i] = mounts[k].part
    <3>1. k # L + 1
      BY <1>1, <1>2, <2>1
    <3>2. QED  BY <1>2, <2>1, <3>1
  <2>2. ASSUME NEW k \in 1 .. L + 1, NEW l \in 1 .. L + 1,
               NEW i \in DOMAIN emplaced, NEW j \in DOMAIN emplaced,
               emplaced[i] = mounts'[k].part, emplaced[j] = mounts'[l].part, k < l
        PROVE  i < j
    <3>1. /\ k \in 1 .. L /\ emplaced[i] = mounts[k].part
          /\ l \in 1 .. L /\ emplaced[j] = mounts[l].part
      BY <2>1, <2>2
    <3>2. QED  BY <1>0, <1>2, <2>2, <3>1 DEF InTurn
  <2>3. QED  BY <1>2, <2>2 DEF InTurn
<1>9. Landed'
  <2>1. ASSUME NEW i \in DOMAIN emplaced
        PROVE  Under(i)' = Under(i) /\ Under(i) \subseteq 1 .. L
    <3>1. \A j \in 1 .. i - 1 : j \in DOMAIN emplaced
      <4>1. DOMAIN emplaced = 1 .. Len(emplaced) /\ Len(emplaced) \in Nat
        BY <1>0, LenProperties DEF Basic
      <4>2. QED  BY <4>1
    <3>2. Under(i) = {k \in 1 .. L : IsPrefix(mounts[k].at, Target[emplaced[i]])
                        /\ \E j \in 1 .. i - 1 : emplaced[j] = mounts[k].part}
      BY <1>2 DEF Under, Covering
    <3>3. Under(i)' = {k \in 1 .. L + 1 : IsPrefix(mounts'[k].at, Target[emplaced[i]])
                        /\ \E j \in 1 .. i - 1 : emplaced[j] = mounts'[k].part}
      BY <1>2 DEF Under, Covering
    <3>4. Under(i)' \subseteq 1 .. L
      <4>1. ASSUME NEW k \in Under(i)' PROVE k \in 1 .. L
        <5>1. k \in 1 .. L + 1 /\ k # L + 1
          BY <1>1, <1>2, <3>1, <3>3
        <5>2. QED  BY <1>2, <5>1
      <4>2. QED  BY <4>1
    <3>5. \A k \in 1 .. L : k \in Under(i) <=> k \in Under(i)'
      <4>1. \A k \in 1 .. L : k \in 1 .. L + 1
        BY <1>2
      <4>2. QED  BY <1>2, <3>2, <3>3, <4>1
    <3>6. QED  BY <3>2, <3>4, <3>5
  <2>2. QED  BY <1>0, <1>2, <1>3, <2>1 DEF Landed
<1>10. QED  BY <1>4, <1>5, <1>6, <1>7, <1>8, <1>9 DEF Stack, Stacked
-----------------------------------------------------------------------------
LEMMA SourceFacts ==
  ASSUME Stack, todo # <<>>
  PROVE  /\ IsTree(Source[Head(todo)]) /\ <<>> \in DOMAIN Source[Head(todo)]
         /\ Source[Head(todo)][<<>>].type \in {"dir", "file", "other"}
  BY HeadFacts, SourceAssumption DEF IsTree

LEMMA MakeParentsInv ==
  ASSUME IInv, MakeParents, UNCHANGED mountable
  PROVE  IInv'
<1> DEFINE t == Target[Head(todo)]
           missing == {q \in Parents(t) : ~Has(q)}
           deep == CHOOSE q \in missing : \A r \in missing : Len(r) <= Len(q)
           grown == Onto([q \in {Rel(r) : r \in missing} |-> Dir], Tree(Top(deep)))
<1>0. /\ Stack /\ Content /\ Basic /\ Trees /\ pc = "assemble" /\ todo # <<>>
      /\ pc \notin Over \cup {"remount"} /\ UNCHANGED <<todo, emplaced, mounts, layers, mountable>>
  BY DEF IInv, Stack, Content, MakeParents, Over
<1>1. \/ pc' = "place" /\ NoChange /\ UNCHANGED raised
      \/ CanWrite(deep) /\ Change(deep, grown) /\ pc' = "place" /\ UNCHANGED raised
      \/ Panic /\ NoChange
  BY DEF MakeParents
<1>2. IsTree(grown)
  <2>1. t \in Paths
    BY <1>0, HeadFacts
  <2>2. Parents(t) \subseteq Paths
    <3>1. t \in Seq(Nat) /\ Len(t) \in Nat
      BY <2>1, PathAssumption, LenProperties
    <3>2. \A n \in 0 .. Len(t) - 1 : n \in 0 .. Len(t)
      BY <3>1
    <3>3. QED  BY <2>1, <3>2, PathAssumption DEF Parents
  <2>3. \A r \in missing : Rel(r) \in Paths
    BY <1>0, <2>2, RelIsPath
  <2>4. IsTree([q \in {Rel(r) : r \in missing} |-> Dir])
    BY <2>3 DEF IsTree, Dir
  <2>5. QED  BY <1>0, <2>4, TreeAt, OntoIsTree
<1> HIDE DEF grown, deep
<1>3. CASE pc' = "place" /\ NoChange /\ UNCHANGED raised
  BY <1>0, <1>3, GoesOn, NoChangeFacts DEF IInv
<1>4. CASE CanWrite(deep) /\ Change(deep, grown) /\ pc' = "place" /\ UNCHANGED raised
  <2>1. Top(deep) # 0 => mounts[Top(deep)].rw
    BY <1>4 DEF CanWrite
  <2>2. Content'
    BY <1>0, <1>2, <1>4, <2>1, ChangeFacts
  <2>3. Stack'
    BY <1>0, <1>4, GoesOn
  <2>4. QED  BY <2>2, <2>3 DEF IInv
<1>5. CASE Panic /\ NoChange
  BY <1>0, <1>5, PanicFacts, NoChangeFacts DEF IInv
<1>6. QED  BY <1>1, <1>3, <1>4, <1>5

LEMMA PlaceCopyFileInv ==
  ASSUME IInv, PlaceCopyFile, UNCHANGED mountable
  PROVE  IInv'
<1> DEFINE t == Target[Head(todo)]
           new == Source[Head(todo)][<<>>]
           node == IF Has(t) THEN Overwrite(Node(t), new) ELSE new
<1>0. /\ Stack /\ Content /\ Basic /\ Trees /\ pc = "place" /\ todo # <<>>
      /\ pc \notin Over \cup {"remount"} /\ UNCHANGED <<mounts, layers, mountable>>
      /\ Style(Head(todo)) = "copy" /\ new.type = "file"
  BY DEF IInv, Stack, Content, Basic, PlaceCopyFile, Over
<1>1. \/ CanWrite(t) /\ Change(t, Put(Tree(Top(t)), Rel(t), node)) /\ Record
      \/ Panic /\ NoChange /\ UNCHANGED <<todo, emplaced>>
  BY DEF PlaceCopyFile
<1>2. IsTree(Put(Tree(Top(t)), Rel(t), node))
  <2>1. Rel(t) \in Paths
    BY <1>0, HeadFacts, RelIsPath
  <2>2. node.type \in {"dir", "file", "other"}
    BY <1>0 DEF Overwrite, File
  <2>3. QED  BY <1>0, <2>1, <2>2, TreeAt, PutIsTree
<1> HIDE DEF node
<1>3. CASE CanWrite(t) /\ Change(t, Put(Tree(Top(t)), Rel(t), node)) /\ Record
  <2>1. Top(t) # 0 => mounts[Top(t)].rw
    BY <1>3 DEF CanWrite
  <2>2. Content'
    BY <1>0, <1>2, <1>3, <2>1, ChangeFacts
  <2>3. Stack'
    BY <1>0, <1>3, CopyRecorded
  <2>4. QED  BY <2>2, <2>3 DEF IInv
<1>4. CASE Panic /\ NoChange /\ UNCHANGED <<todo, emplaced>>
  BY <1>0, <1>4, PanicFacts, NoChangeFacts DEF IInv
<1>5. QED  BY <1>1, <1>3, <1>4

\* What is below p in the path of q below p.
LEMMA BelowItself ==
  ASSUME NEW p \in Seq(Nat), NEW q \in Seq(Nat)
  PROVE  Below(p, p \o q) = q
<1>1. /\ p \o q \in Seq(Nat) /\ Len(p \o q) = Len(p) + Len(q) /\ Len(p) \in Nat /\ Len(q) \in Nat
      /\ \A i \in 1 .. Len(q) : (p \o q)[Len(p) + i] = q[i]
  BY ConcatProperties, LenProperties
<1>2. Below(p, p \o q) = SubSeq(p \o q, Len(p) + 1, Len(p) + Len(q))
  BY <1>1 DEF Below
<1>3. /\ Below(p, p \o q) \in Seq(Nat) /\ Len(Below(p, p \o q)) = Len(q)
      /\ \A i \in 1 .. Len(q) : Below(p, p \o q)[i] = q[i]
  <2> PICK r : r = p \o q
    OBVIOUS
  <2> PICK m, n : m = Len(p) + 1 /\ n = Len(p) + Len(q)
    OBVIOUS
  <2>1. /\ m \in Int /\ n \in Int /\ (\A i \in m .. n : i \in 1 .. Len(r))
        /\ n - m + 1 = Len(q) /\ (m <= n \/ Len(q) = 0)
    BY <1>1
  <2>2. \A i \in m .. n : r[i] \in Nat
    BY <1>1, <2>1, ElementOfSeq
  <2>3. /\ SubSeq(r, m, n) \in Seq(Nat) /\ Len(SubSeq(r, m, n)) = Len(q)
        /\ \A i \in 1 .. Len(q) : SubSeq(r, m, n)[i] = r[m + i - 1]
    <3>1. /\ SubSeq(r, m, n) \in Seq(Nat)
          /\ Len(SubSeq(r, m, n)) = IF m <= n THEN n - m + 1 ELSE 0
          /\ \A i \in 1 .. n - m + 1 : SubSeq(r, m, n)[i] = r[m + i - 1]
      BY <2>1, <2>2, SubSeqProperties
    <3>2. QED  BY <2>1, <3>1
  <2>4. \A i \in 1 .. Len(q) : m + i - 1 = Len(p) + i
    BY <1>1
  <2>5. QED  BY <1>1, <1>2, <2>3, <2>4
<1>4. QED  BY <1>3, SeqEqual

LEMMA PlaceCopyDirInv ==
  ASSUME IInv, PlaceCopyDir, UNCHANGED mountable
  PROVE  IInv'
<1> DEFINE p == Head(todo)
           t == Target[Head(todo)]
           at == {t \o r : r \in DOMAIN Source[p]}
           copy == Onto([q \in at |-> Source[p][Below(t, q)]], Drop(root, t))
<1>0. /\ Stack /\ Content /\ Basic /\ Trees /\ pc = "place" /\ todo # <<>>
      /\ pc \notin Over \cup {"remount"} /\ UNCHANGED <<mounts, layers, mountable>>
      /\ Style(p) = "copy" /\ ~BareMount[p] /\ Source[p][<<>>] = Dir
  BY DEF IInv, Stack, Content, Basic, PlaceCopyDir, Over
<1>1. \/ Change(t, copy) /\ Record
      \/ Panic /\ NoChange /\ UNCHANGED <<todo, emplaced>>
  BY DEF PlaceCopyDir
<1>2. IsTree(copy)
  <2>1. p \in Parts /\ t \in Paths
    BY <1>0, HeadFacts
  <2>2. IsTree(Source[p]) /\ \A r \in DOMAIN Source[p] : t \o r \in Paths /\ Below(t, t \o r) = r
    <3>1. IsTree(Source[p]) /\ \A r \in DOMAIN Source[p] : t \o r \in Paths
      BY <2>1, SourceAssumption
    <3>2. ASSUME NEW r \in DOMAIN Source[p] PROVE Below(t, t \o r) = r
      <4>1. r \in Seq(Nat) /\ t \in Seq(Nat)
        BY <2>1, <3>1, PathAssumption DEF IsTree
      <4>2. QED  BY <4>1, BelowItself
    <3>3. QED  BY <3>1, <3>2
  <2>3. IsTree([q \in at |-> Source[p][Below(t, q)]])
    BY <2>2 DEF IsTree
  <2>4. IsTree(Drop(root, t))
    BY <1>0, DropIsTree DEF Trees
  <2>5. QED  BY <2>3, <2>4, OntoIsTree
<1> HIDE DEF copy
<1>3. Top(t) = 0
  <2>1. ~mountable
    <3>1. Source[p][<<>>].type = "dir"
      BY <1>0 DEF Dir
    <3>2. QED  BY <1>0, <3>1 DEF Style
  <2>2. DOMAIN mounts = {}
    BY <1>0, <2>1 DEF Basic, MountsOK, Style
  <2>3. Covering(t) = {}
    BY <2>2 DEF Covering
  <2>4. QED  BY <2>3 DEF Top
<1>4. CASE Change(t, copy) /\ Record
  <2>1. Content'
    BY <1>0, <1>2, <1>3, <1>4, ChangeFacts
  <2>2. Stack'
    BY <1>0, <1>3, <1>4, CopyRecorded DEF CanWrite
  <2>3. QED  BY <2>1, <2>2 DEF IInv
<1>5. CASE Panic /\ NoChange /\ UNCHANGED <<todo, emplaced>>
  BY <1>0, <1>5, PanicFacts, NoChangeFacts DEF IInv
<1>6. QED  BY <1>1, <1>4, <1>5

LEMMA RefuseInv ==
  ASSUME IInv, RefuseBareMount \/ RefuseSource, UNCHANGED mountable
  PROVE  IInv'
<1>1. /\ Stack /\ Content /\ Panic /\ NoChange
      /\ UNCHANGED <<todo, emplaced, mounts, layers, mountable>>
  BY DEF IInv, RefuseBareMount, RefuseSource
<1>2. QED  BY <1>1, PanicFacts, NoChangeFacts DEF IInv

LEMMA MakeDestInv ==
  ASSUME IInv, MakeDest, UNCHANGED mountable
  PROVE  IInv'
<1> DEFINE t == Target[Head(todo)]
           node == IF Source[Head(todo)][<<>>] = Dir THEN Dir ELSE File(<<>>)
<1>0. /\ Stack /\ Content /\ Basic /\ Trees /\ pc = "place" /\ todo # <<>>
      /\ pc \notin Over \cup {"remount"} /\ UNCHANGED <<todo, emplaced, mounts, layers, mountable>>
  BY DEF IInv, Stack, Content, Basic, MakeDest, Over
<1>1. \/ pc' = "mount" /\ NoChange /\ UNCHANGED raised
      \/ /\ CanWrite(t) /\ Change(t, Put(Tree(Top(t)), Rel(t), node))
         /\ pc' = "mount" /\ UNCHANGED raised
      \/ Panic /\ NoChange
  BY DEF MakeDest
<1>2. IsTree(Put(Tree(Top(t)), Rel(t), node))
  <2>1. Rel(t) \in Paths
    BY <1>0, HeadFacts, RelIsPath
  <2>2. node.type \in {"dir", "file", "other"}
    BY DEF Dir, File
  <2>3. QED  BY <1>0, <2>1, <2>2, TreeAt, PutIsTree
<1> HIDE DEF node
<1>3. CASE pc' = "mount" /\ NoChange /\ UNCHANGED raised
  BY <1>0, <1>3, GoesOn, NoChangeFacts DEF IInv
<1>4. CASE /\ CanWrite(t) /\ Change(t, Put(Tree(Top(t)), Rel(t), node))
           /\ pc' = "mount" /\ UNCHANGED raised
  <2>1. Top(t) # 0 => mounts[Top(t)].rw
    BY <1>4 DEF CanWrite
  <2>2. Content'
    BY <1>0, <1>2, <1>4, <2>1, ChangeFacts
  <2>3. Stack'
    BY <1>0, <1>4, GoesOn
  <2>4. QED  BY <2>2, <2>3 DEF IInv
<1>5. CASE Panic /\ NoChange
  BY <1>0, <1>5, PanicFacts, NoChangeFacts DEF IInv
<1>6. QED  BY <1>1, <1>3, <1>4, <1>5

LEMMA FaultFacts ==
  ASSUME Stack, pc \notin Over, NEW call, Fault(call), UNCHANGED mountable, MountsOK',
         UNCHANGED <<todo, emplaced>>, \A p \in layers' : p \in Parts /\ Style(p) = "overlay"
  PROVE  Stack' /\ raised' # "nothing"
<1>1. todo' \in Seq(Parts) /\ emplaced' \in Seq(Parts)
  BY DEF Stack, Basic
<1>2. QED  BY <1>1, GivesUp DEF Fault

LEMMA MountsStay ==
  ASSUME Stack, UNCHANGED <<mounts, mountable>>
  PROVE  MountsOK'
BY DEF Stack, Basic, MountsOK, Style

LEMMA MountBindInv ==
  ASSUME IInv, MountBind, UNCHANGED mountable
  PROVE  IInv'
<1> PICK L, h : L = Len(mounts) /\ h = Head(todo)
  OBVIOUS
<1>0. /\ Stack /\ Content /\ Basic /\ MountsPlaced /\ pc = "mount" /\ todo # <<>>
      /\ pc \notin Over /\ Style(h) = "bind" /\ NoChange /\ UNCHANGED <<layers, mountable>>
  BY DEF IInv, Stack, Stacked, Basic, MountBind, Over
<1>1. \/ /\ mounts' = Append(mounts, Mounted(h, FALSE))
         /\ IF Writable[h] THEN Record
            ELSE pc' = "remount" /\ UNCHANGED <<todo, emplaced, raised>>
      \/ Fault("mount") /\ UNCHANGED <<mounts, todo, emplaced>>
  BY DEF MountBind
<1>2. CASE mounts' = Append(mounts, Mounted(h, FALSE))
           /\ IF Writable[h] THEN Record
              ELSE pc' = "remount" /\ UNCHANGED <<todo, emplaced, raised>>
  <2>1. raised' = raised
    BY <1>2 DEF Record
  <2>2. Content'
    BY <1>0, <2>1, NoChangeFacts
  <2>3. CASE Writable[h]
    <3>1. /\ Style(h) = IF FALSE THEN "overlay" ELSE "bind"
          /\ mounts' = Append(mounts, Mounted(h, FALSE))
      BY <1>0, <1>2
    <3>2. h \in Parts
      BY <1>0, HeadFacts
    <3>3. /\ MountsOK' /\ L \in Nat /\ DOMAIN mounts = 1 .. L /\ DOMAIN mounts' = 1 .. L + 1
          /\ \A k \in 1 .. L : mounts'[k] = mounts[k]
          /\ mounts'[L + 1].part = h
      BY <1>0, <3>1, <3>2, MountAppended
    <3>4. \A k \in 1 .. L : \E i \in DOMAIN emplaced : emplaced[i] = mounts[k].part
      BY <1>0, <3>3 DEF MountsPlaced
    <3>5. Record
      BY <1>2, <2>3
    <3>6. Style(h) # "copy" /\ pc # "remount"
      BY <1>0
    <3>7. Stack'
      BY <1>0, <2>3, <3>3, <3>4, <3>5, <3>6, MountRecorded
    <3>8. QED  BY <2>2, <3>7 DEF IInv
  <2>4. CASE ~Writable[h]
    <3>1. Stack'
      BY <1>0, <1>2, <2>4, MountPending
    <3>2. QED  BY <2>2, <3>1 DEF IInv
  <2>5. QED  BY <2>3, <2>4
<1>3. CASE Fault("mount") /\ UNCHANGED <<mounts, todo, emplaced>>
  <2>1. \A p \in layers' : p \in Parts /\ Style(p) = "overlay"
    BY <1>0 DEF Stack, LayersKnown
  <2>2. Stack' /\ raised' # "nothing"
    BY <1>0, <1>3, <2>1, FaultFacts, MountsStay
  <2>3. QED  BY <1>0, <2>2, NoChangeFacts DEF IInv
<1>4. QED  BY <1>1, <1>2, <1>3

LEMMA RemountInv ==
  ASSUME IInv, Remount, UNCHANGED mountable
  PROVE  IInv'
<1> PICK n, h : n = Len(mounts) /\ h = Head(todo)
  OBVIOUS
<1>0. /\ Stack /\ Content /\ Basic /\ MountsOK /\ MountsPlaced /\ pc = "remount" /\ todo # <<>>
      /\ pc \notin Over /\ NoChange /\ UNCHANGED <<layers, mountable>>
      /\ mounts # <<>> /\ mounts[n].part = h
  BY DEF IInv, Stack, Stacked, Basic, Remount, Over
<1>1. \/ mounts' = [mounts EXCEPT ![n].rw = FALSE] /\ Record
      \/ Fault("remount") /\ UNCHANGED <<mounts, todo, emplaced>>
  BY DEF Remount
<1>2. n \in Nat /\ n # 0 /\ DOMAIN mounts = 1 .. n /\ mounts \in Seq(Mount)
  BY <1>0, LenProperties, EmptySeq DEF MountsOK
<1>3. CASE mounts' = [mounts EXCEPT ![n].rw = FALSE] /\ Record
  <2> PICK L : L = n - 1
    OBVIOUS
  <2>1. L \in Nat /\ n = L + 1 /\ DOMAIN mounts = 1 .. L + 1
    BY <1>2
  <2>2. mounts[n] \in Mount
    BY <1>2, ElementOfSeq
  <2>3. /\ mounts'[n].part = h /\ ~mounts'[n].rw /\ mounts'[n] \in Mount
        /\ mounts'[n].at = mounts[n].at /\ mounts'[n].cow = mounts[n].cow
        /\ DOMAIN mounts' = 1 .. n
    <3>1. DOMAIN mounts' = 1 .. n /\ mounts'[n] = [mounts[n] EXCEPT !.rw = FALSE]
      <4>1. DOMAIN mounts = 1 .. n /\ n \in 1 .. n
        BY <1>2
      <4>2. mounts' = [mounts EXCEPT ![n].rw = FALSE]
        BY <1>3
      <4>3. mounts' = [mounts EXCEPT ![n] = [mounts[n] EXCEPT !.rw = FALSE]]
        BY <4>2
      <4>4. QED  BY <4>1, <4>3
    <3>2. QED  BY <1>0, <2>2, <3>1 DEF Mount
  <2>4. \A k \in 1 .. L : mounts'[k] = mounts[k] /\ k # n /\ k \in 1 .. n
    BY <1>2, <1>3, <2>1
  <2>5. \A k \in 1 .. n : k \in 1 .. L \/ k = n
    BY <2>1
  <2>6. mounts' \in Seq(Mount)
    <3>1. ASSUME NEW k \in 1 .. n PROVE mounts'[k] \in Mount
      <4>1. mounts[k] \in Mount
        BY <1>2, ElementOfSeq
      <4>2. QED  BY <2>3, <2>4, <2>5, <4>1
    <3>2. mounts' = [k \in 1 .. n |-> mounts'[k]]
      BY <1>2, <1>3
    <3>3. QED  BY <1>2, <3>1, <3>2
  <2>7. \A p : Style(p)' = Style(p)
    BY <1>0 DEF Style
  <2>8. MountsOK'
    <3>1. ASSUME NEW k \in 1 .. n
          PROVE  /\ mounts'[k].at = Target[mounts'[k].part]
                 /\ Style(mounts'[k].part) = IF mounts'[k].cow THEN "overlay" ELSE "bind"
      <4>1. CASE k \in 1 .. L
        BY <1>0, <1>2, <2>4, <4>1 DEF MountsOK
      <4>2. CASE k = n
        BY <1>0, <1>2, <2>3, <4>2 DEF MountsOK
      <4>3. QED  BY <2>5, <4>1, <4>2
    <3>2. QED  BY <2>3, <2>6, <2>7, <3>1 DEF MountsOK
  <2>9. \A k \in 1 .. L : \E i \in DOMAIN emplaced : emplaced[i] = mounts[k].part
    BY <1>0, <1>2, <2>4 DEF MountsPlaced
  <2>10. Style(h) # "copy"
    BY <1>0, <1>2 DEF MountsOK
  <2>11. \A k \in 1 .. L : ~(pc = "remount" /\ k = Len(mounts))
    BY <2>4
  <2>12. /\ DOMAIN mounts' = 1 .. L + 1 /\ mounts'[L + 1].part = h /\ ~mounts'[L + 1].rw
         /\ mounts[L + 1].part = h
    BY <1>0, <2>1, <2>3
  <2>13. Stack'
    <3>1. /\ pc \in {"mount", "remount"} /\ Record /\ UNCHANGED mountable /\ h = Head(todo)
          /\ layers' = layers
      BY <1>0, <1>3
    <3>2. mounts'[L + 1].rw /\ ~mounts'[L + 1].cow => Writable[h]
      BY <2>12
    <3>3. \A k \in 1 .. L : mounts'[k] = mounts[k]
      BY <2>4
    <3>4. DOMAIN mounts = 1 .. L + 1 /\ mounts[L + 1].part = h
      BY <2>1, <2>12
    <3>5. QED
      BY <1>0, <2>1, <2>8, <2>9, <2>10, <2>11, <2>12, <3>1, <3>2, <3>3, <3>4, MountRecorded
  <2>14. QED  BY <1>0, <1>3, <2>13, NoChangeFacts DEF IInv, Record
<1>4. CASE Fault("remount") /\ UNCHANGED <<mounts, todo, emplaced>>
  <2>1. \A p \in layers' : p \in Parts /\ Style(p) = "overlay"
    BY <1>0 DEF Stack, LayersKnown
  <2>2. Stack' /\ raised' # "nothing"
    BY <1>0, <1>4, <2>1, FaultFacts, MountsStay
  <2>3. QED  BY <1>0, <2>2, NoChangeFacts DEF IInv
<1>5. QED  BY <1>1, <1>3, <1>4

LEMMA MountOverlayInv ==
  ASSUME IInv, MountOverlay, UNCHANGED mountable
  PROVE  IInv'
<1> PICK L, h : L = Len(mounts) /\ h = Head(todo)
  OBVIOUS
<1>0. /\ Stack /\ Content /\ Basic /\ MountsPlaced /\ pc = "mount" /\ todo # <<>>
      /\ pc \notin Over /\ Style(h) = "overlay" /\ UNCHANGED <<root, host, mountable>>
      /\ layers' = layers \cup {h} /\ raised = "nothing"
  BY DEF IInv, Stack, Stacked, Basic, MountOverlay, Over
<1>1. \/ /\ mounts' = Append(mounts, Mounted(h, TRUE))
         /\ upper' = [upper EXCEPT ![h] = host[h]]
         /\ Record \/ (Fault("props") /\ UNCHANGED <<todo, emplaced>>)
      \/ Fault("mount") /\ UNCHANGED <<mounts, upper, todo, emplaced>>
  BY DEF MountOverlay
<1>2. h \in Parts
  BY <1>0, HeadFacts
<1>3. \A p \in layers' : p \in Parts /\ Style(p) = "overlay"
  BY <1>0, <1>2 DEF Stack, LayersKnown
<1>4. Content'
  <2>1. upper' = upper \/ upper' = [upper EXCEPT ![h] = host[h]]
    BY <1>1
  <2>2. raised' = raised \/ raised' # "nothing"
    BY <1>1 DEF Record, Fault
  <2>3. Trees'
    BY <1>0, <1>2, <2>1 DEF Content, Trees
  <2>4. QED  BY <1>0, <2>2, <2>3 DEF Content, Shared, ReadOnlyHonoured
<1>5. CASE /\ mounts' = Append(mounts, Mounted(h, TRUE))
           /\ Record \/ (Fault("props") /\ UNCHANGED <<todo, emplaced>>)
  <2>1. /\ Style(h) = IF TRUE THEN "overlay" ELSE "bind"
        /\ mounts' = Append(mounts, Mounted(h, TRUE))
    BY <1>0, <1>5
  <2>2. /\ MountsOK' /\ L \in Nat /\ DOMAIN mounts = 1 .. L /\ DOMAIN mounts' = 1 .. L + 1
        /\ \A k \in 1 .. L : mounts'[k] = mounts[k]
        /\ mounts'[L + 1] = Mounted(h, TRUE) /\ mounts'[L + 1].part = h
    <3>1. Stack /\ h \in Parts /\ TRUE \in BOOLEAN /\ UNCHANGED mountable /\ L = Len(mounts)
      BY <1>0, <1>2
    <3>2. /\ MountsOK' /\ L \in Nat /\ DOMAIN mounts = 1 .. L /\ DOMAIN mounts' = 1 .. L + 1
          /\ Len(mounts') = L + 1 /\ mounts' # <<>>
          /\ \A k \in 1 .. L : mounts'[k] = mounts[k]
          /\ mounts'[L + 1] = Mounted(h, TRUE) /\ Mounted(h, TRUE).part = h
      BY <2>1, <3>1, MountAppended
    <3>3. QED  BY <3>2
  <2>3. CASE Record
    <3>1. \A k \in 1 .. L : \E i \in DOMAIN emplaced : emplaced[i] = mounts[k].part
      BY <1>0, <2>2 DEF MountsPlaced
    <3>2. Style(h) # "copy" /\ pc # "remount" /\ mounts'[L + 1].cow
      BY <1>0, <2>2 DEF Mounted
    <3>3. Stack'
      BY <1>0, <2>2, <2>3, <3>1, <3>2, MountRecorded
    <3>4. QED  BY <1>4, <3>3 DEF IInv
  <2>4. CASE Fault("props") /\ UNCHANGED <<todo, emplaced>>
    BY <1>0, <1>3, <1>4, <2>2, <2>4, FaultFacts DEF IInv
  <2>5. QED  BY <1>5, <2>3, <2>4
<1>6. CASE Fault("mount") /\ UNCHANGED <<mounts, upper, todo, emplaced>>
  BY <1>0, <1>3, <1>4, <1>6, FaultFacts, MountsStay DEF IInv
<1>7. QED  BY <1>1, <1>5, <1>6
-----------------------------------------------------------------------------
LEMMA AssembledInv ==
  ASSUME IInv, Assembled \/ JobEnds, UNCHANGED mountable
  PROVE  IInv'
<1>1. /\ Stack /\ Content /\ NoChange /\ pc \notin Over \cup {"remount"}
      /\ pc' \in {"run", "teardown"}
      /\ UNCHANGED <<todo, emplaced, mounts, layers, raised, mountable>>
  BY DEF IInv, Assembled, JobEnds, NoChange, Over
<1>2. QED  BY <1>1, GoesOn, NoChangeFacts DEF IInv

LEMMA JobWritesInv ==
  ASSUME IInv, NEW p \in Paths, JobWrites(p), UNCHANGED mountable
  PROVE  IInv'
<1> DEFINE tree == Put(Tree(Top(p)), Rel(p), File(<<JobBlock>>))
<1>1. /\ Stack /\ Content /\ Basic /\ Trees /\ pc = "run" /\ pc' = "run"
      /\ pc \notin Over \cup {"remount"} /\ CanWrite(p) /\ Change(p, tree)
      /\ UNCHANGED <<todo, emplaced, mounts, layers, raised, mountable>>
  BY DEF IInv, Stack, Content, JobWrites, Over
<1>2. IsTree(tree)
  <2>1. Rel(p) \in Paths /\ IsTree(Tree(Top(p)))
    BY <1>1, RelIsPath, TreeAt
  <2>2. QED  BY <2>1, PutIsTree DEF File
<1> HIDE DEF tree
<1>3. Top(p) # 0 => mounts[Top(p)].rw
  BY <1>1 DEF CanWrite
<1>4. Content'
  BY <1>1, <1>2, <1>3, ChangeFacts
<1>5. Stack'
  BY <1>1, GoesOn
<1>6. QED  BY <1>4, <1>5 DEF IInv

LEMMA JobDeletesInv ==
  ASSUME IInv, NEW p \in Paths, JobDeletes(p), UNCHANGED mountable
  PROVE  IInv'
<1> DEFINE tree == Drop(Tree(Top(p)), Rel(p))
<1>1. /\ Stack /\ Content /\ Basic /\ Trees /\ pc = "run" /\ pc' = "run"
      /\ pc \notin Over \cup {"remount"} /\ CanWrite(p) /\ Change(p, tree)
      /\ UNCHANGED <<todo, emplaced, mounts, layers, raised, mountable>>
  BY DEF IInv, Stack, Content, JobDeletes, Over
<1>2. IsTree(tree)
  BY <1>1, TreeAt, DropIsTree
<1> HIDE DEF tree
<1>3. Top(p) # 0 => mounts[Top(p)].rw
  BY <1>1 DEF CanWrite
<1>4. Content'
  BY <1>1, <1>2, <1>3, ChangeFacts
<1>5. Stack'
  BY <1>1, GoesOn
<1>6. QED  BY <1>4, <1>5 DEF IInv
-----------------------------------------------------------------------------
LEMMA TornDownInv ==
  ASSUME IInv, TornDown, UNCHANGED mountable
  PROVE  IInv'
<1>1. /\ Stack /\ Content /\ NoChange /\ pc = "teardown" /\ emplaced = <<>> /\ pc' = "remove"
      /\ UNCHANGED <<todo, emplaced, mounts, layers, raised, mountable>>
  BY DEF IInv, TornDown, NoChange
<1>2. \A p : Style(p)' = Style(p)
  BY <1>1 DEF Style
<1>3. layers = {}
  <2>1. DOMAIN emplaced = {}
    BY <1>1
  <2>2. QED  BY <1>1, <2>1 DEF Stack, LayersKnown, Over
<1>4. Stack'
  BY <1>1, <1>2, <1>3 DEF Stack, Basic, MountsOK, Guarded, LayersKnown, Stacked, Over
<1>5. QED  BY <1>1, <1>4, NoChangeFacts DEF IInv

LEMMA RemoveJobDirInv ==
  ASSUME IInv, RemoveJobDir, UNCHANGED mountable
  PROVE  IInv'
<1> DEFINE open == {k \in DOMAIN mounts : Top(mounts[k].at) = k /\ mounts[k].rw}
<1>1. /\ Stack /\ Content /\ Basic /\ pc = "remove" /\ root' = Empty
      /\ pc' = IF mounts = <<>> THEN "done" ELSE "crashed"
      /\ upper' = [p \in Parts |-> IF \E k \in open : mounts[k].cow /\ mounts[k].part = p
                                    THEN Emptied(upper[p]) ELSE upper[p]]
      /\ host' = [p \in Parts |-> IF \E k \in open : ~mounts[k].cow /\ mounts[k].part = p
                                   THEN Emptied(host[p]) ELSE host[p]]
      /\ UNCHANGED <<todo, emplaced, mounts, layers, raised, mountable>>
  BY DEF IInv, Stack, RemoveJobDir
<1>2. \A p : Style(p)' = Style(p)
  BY <1>1 DEF Style
<1>3. Stack'
  BY <1>1, <1>2 DEF Stack, Basic, MountsOK, Guarded, LayersKnown, Stacked, Over
<1>4. Trees'
  <2>1. \A t : IsTree(t) => IsTree(Emptied(t))
    BY DEF IsTree, Emptied
  <2>2. IsTree(Empty)
    BY DEF IsTree, Empty
  <2>3. QED  BY <1>1, <2>1, <2>2 DEF Content, Trees
<1>5. ASSUME NEW p \in Parts, host'[p] # host[p]
      PROVE  BareMount[p] /\ (Writable[p] \/ raised # "nothing")
  <2>1. PICK k \in open : ~mounts[k].cow /\ mounts[k].part = p
    BY <1>1, <1>5
  <2>2. k \in DOMAIN mounts /\ mounts[k].rw
    BY <2>1
  <2>3. BareMount[p]
    BY <1>1, <2>1, <2>2, BoundIsBare
  <2>4. Writable[p] \/ raised # "nothing"
    BY <1>1, <2>1, <2>2 DEF Stack, Guarded
  <2>5. QED  BY <2>3, <2>4
<1>6. Shared'
  BY <1>1, <1>5 DEF Content, Shared
<1>7. ReadOnlyHonoured'
  BY <1>1, <1>5 DEF Content, ReadOnlyHonoured
<1>8. QED  BY <1>3, <1>4, <1>6, <1>7 DEF IInv, Content
-----------------------------------------------------------------------------
LEMMA FrontFacts ==
  ASSUME NEW S, NEW s \in Seq(S), s # <<>>, NEW n, n = Len(s) - 1
  PROVE  /\ n \in Nat /\ DOMAIN s = 1 .. n + 1
         /\ Front(s) \in Seq(S) /\ DOMAIN Front(s) = 1 .. n
         /\ \A i \in 1 .. n : Front(s)[i] = s[i]
         /\ Last(s) = s[n + 1] /\ Last(s) \in S
         /\ RemoveAt(s, n + 1) = Front(s)
<1>1. Len(s) \in Nat /\ Len(s) # 0 /\ DOMAIN s = 1 .. Len(s)
  BY LenProperties, EmptySeq
<1>2. n \in Nat /\ Len(s) = n + 1 /\ n \in Int /\ n + 1 \in 1 .. n + 1
  BY <1>1
<1>3. Last(s) = s[n + 1] /\ Last(s) \in S
  BY <1>1, <1>2, ElementOfSeq DEF Last
<1>4. Front(s) = SubSeq(s, 1, n)
  BY DEF Front
<1>5. \A i \in 1 .. n : s[i] \in S
  BY <1>1, <1>2, ElementOfSeq
<1>6. /\ SubSeq(s, 1, n) \in Seq(S) /\ Len(SubSeq(s, 1, n)) = n
      /\ \A i \in 1 .. n : SubSeq(s, 1, n)[i] = s[i]
  <2>1. 1 \in Int /\ n - 1 + 1 = n /\ (IF 1 <= n THEN n - 1 + 1 ELSE 0) = n
        /\ \A i \in Int : 1 + i - 1 = i
    BY <1>2
  <2>2. /\ SubSeq(s, 1, n) \in Seq(S)
        /\ Len(SubSeq(s, 1, n)) = IF 1 <= n THEN n - 1 + 1 ELSE 0
        /\ \A i \in 1 .. n - 1 + 1 : SubSeq(s, 1, n)[i] = s[1 + i - 1]
    BY <1>2, <1>5, <2>1, SubSeqProperties
  <2>3. QED  BY <1>2, <2>1, <2>2
<1>7. RemoveAt(s, n + 1) = SubSeq(s, 1, n)
  <2>1. SubSeq(s, n + 2, n + 1) = <<>>
    BY <1>2, SubSeqEmpty
  <2>2. RemoveAt(s, n + 1) = SubSeq(s, 1, n) \o SubSeq(s, n + 2, n + 1)
    <3>1. n + 1 - 1 = n /\ n + 1 + 1 = n + 2
      BY <1>2
    <3>2. QED  BY <1>2, <3>1 DEF RemoveAt
  <2>3. QED  BY <1>6, <2>1, <2>2, ConcatEmptySeq
<1>8. QED  BY <1>1, <1>2, <1>3, <1>4, <1>6, <1>7, LenProperties

\* The part placed last is taken down, with its mount if it has one.
LEMMA TakenDown ==
  ASSUME Stack, pc = "teardown", emplaced # <<>>, emplaced' = Front(emplaced),
         UNCHANGED <<pc, todo, raised, mountable>>, NEW d, d = NextDown,
         MountsOK', NEW M, DOMAIN mounts' = 1 .. M, 1 .. M \subseteq DOMAIN mounts,
         \A k \in 1 .. M : mounts'[k] = mounts[k] /\ mounts[k].part # d,
         \A k \in DOMAIN mounts : mounts[k].part # d => k \in 1 .. M,
         layers' = layers \ {d}
  PROVE  Stack'
<1> PICK n : n = Len(emplaced) - 1
  OBVIOUS
<1>0. /\ Basic /\ Distinct /\ MountsPlaced /\ PlacedMounted /\ InTurn /\ Landed
      /\ emplaced \in Seq(Parts) /\ raised = "nothing"
  BY DEF Stack, Stacked, Basic, Over
<1>1. /\ n \in Nat /\ DOMAIN emplaced = 1 .. n + 1 /\ DOMAIN emplaced' = 1 .. n
      /\ emplaced' \in Seq(Parts) /\ emplaced[n + 1] = d
      /\ \A i \in 1 .. n : emplaced'[i] = emplaced[i]
  <2>1. /\ n \in Nat /\ DOMAIN emplaced = 1 .. n + 1
        /\ Front(emplaced) \in Seq(Parts) /\ DOMAIN Front(emplaced) = 1 .. n
        /\ \A i \in 1 .. n : Front(emplaced)[i] = emplaced[i]
        /\ Last(emplaced) = emplaced[n + 1]
    <3>1. emplaced \in Seq(Parts) /\ emplaced # <<>> /\ n = Len(emplaced) - 1
      BY <1>0
    <3>2. /\ n \in Nat /\ DOMAIN emplaced = 1 .. n + 1
          /\ Front(emplaced) \in Seq(Parts) /\ DOMAIN Front(emplaced) = 1 .. n
          /\ (\A i \in 1 .. n : Front(emplaced)[i] = emplaced[i])
          /\ Last(emplaced) = emplaced[n + 1] /\ Last(emplaced) \in Parts
          /\ RemoveAt(emplaced, n + 1) = Front(emplaced)
      BY <3>1, FrontFacts
    <3>3. QED  BY <3>2
  <2>2. QED  BY <2>1 DEF NextDown
<1>2. \A p : Style(p)' = Style(p)
  BY DEF Style
<1>3. /\ \A i \in 1 .. n : i \in 1 .. n + 1 /\ i # n + 1
      /\ \A i \in 1 .. n + 1 : i # n + 1 => i \in 1 .. n
      /\ n + 1 \in 1 .. n + 1
  BY <1>1
<1>4. \A i \in 1 .. n + 1 : emplaced[i] # d => i \in 1 .. n /\ emplaced'[i] = emplaced[i]
  BY <1>1, <1>3
<1>5. Basic'
  BY <1>0, <1>1 DEF Basic, Over
<1>6. Guarded'
  BY <1>0 DEF Stack, Guarded
<1>7. LayersKnown'
  <2>1. \A p \in layers : /\ p \in Parts /\ Style(p) = "overlay"
                          /\ \E i \in 1 .. n + 1 : emplaced[i] = p
    <3>1. pc \notin Over /\ LayersKnown
      BY DEF Stack, Over
    <3>2. QED  BY <1>1, <3>1 DEF LayersKnown
  <2>2. ASSUME NEW p \in layers'
        PROVE  p \in Parts /\ Style(p) = "overlay" /\ \E i \in 1 .. n : emplaced'[i] = p
    BY <1>4, <2>1
  <2>3. QED  BY <1>1, <1>2, <2>2 DEF LayersKnown, Over
<1>8. Distinct'
  <2>1. \A i \in 1 .. n : i \in DOMAIN emplaced /\ emplaced'[i] = emplaced[i]
    BY <1>1, <1>3
  <2>2. \A i, j \in 1 .. n : emplaced'[i] = emplaced'[j] => i = j
    BY <1>0, <2>1 DEF Distinct
  <2>3. todo' = todo /\ \A i \in DOMAIN todo, j \in 1 .. n : todo[i] # emplaced'[j]
    <3>1. \A i \in DOMAIN todo, j \in DOMAIN emplaced : todo[i] # emplaced[j]
      BY <1>0 DEF Distinct
    <3>2. QED  BY <2>1, <3>1
  <2>4. \A i, j \in DOMAIN todo : todo[i] = todo[j] => i = j
    BY <1>0 DEF Distinct
  <2>5. QED  BY <1>1, <2>2, <2>3, <2>4 DEF Distinct
<1>9. MountsPlaced'
  <2>1. ASSUME NEW k \in 1 .. M PROVE \E i \in 1 .. n : emplaced'[i] = mounts'[k].part
    <3>1. k \in DOMAIN mounts /\ mounts'[k] = mounts[k] /\ mounts[k].part # d
      OBVIOUS
    <3>2. PICK i \in 1 .. n + 1 : emplaced[i] = mounts[k].part
      BY <1>0, <1>1, <3>1 DEF MountsPlaced
    <3>3. QED  BY <1>4, <3>1, <3>2
  <2>2. QED  BY <1>1, <2>1 DEF MountsPlaced
<1>10. PlacedMounted'
  <2>1. ASSUME NEW i \in 1 .. n, Style(emplaced'[i]) # "copy"
        PROVE  \E k \in 1 .. M : mounts'[k].part = emplaced'[i]
    <3>1. emplaced'[i] = emplaced[i] /\ i \in DOMAIN emplaced
      BY <1>1, <1>3
    <3>2. emplaced[i] # d
      BY <1>0, <1>1, <1>3, <3>1 DEF Distinct
    <3>3. PICK k \in DOMAIN mounts : mounts[k].part = emplaced[i]
      BY <1>0, <2>1, <3>1 DEF PlacedMounted
    <3>4. QED  BY <3>1, <3>2, <3>3
  <2>2. QED  BY <1>1, <1>2, <2>1 DEF PlacedMounted
<1>11. InTurn'
  <2>1. \A k \in 1 .. M : k \in DOMAIN mounts /\ mounts'[k] = mounts[k]
    OBVIOUS
  <2>2. \A i \in 1 .. n : i \in DOMAIN emplaced /\ emplaced'[i] = emplaced[i]
    BY <1>1, <1>3
  <2>3. ASSUME NEW k \in 1 .. M, NEW l \in 1 .. M, NEW i \in 1 .. n, NEW j \in 1 .. n,
               emplaced'[i] = mounts'[k].part, emplaced'[j] = mounts'[l].part, k < l
        PROVE  i < j
    <3>1. /\ k \in DOMAIN mounts /\ l \in DOMAIN mounts
          /\ i \in DOMAIN emplaced /\ j \in DOMAIN emplaced
          /\ emplaced[i] = mounts[k].part /\ emplaced[j] = mounts[l].part
      BY <2>1, <2>2, <2>3
    <3>2. QED  BY <1>0, <2>3, <3>1 DEF InTurn
  <2>4. QED  BY <1>1, <2>3 DEF InTurn
<1>12. Landed'
  <2>1. ASSUME NEW i \in 1 .. n
        PROVE  Under(i)' = Under(i) /\ Under(i) \subseteq 1 .. M
    <3>1. \A j \in 1 .. i - 1 : j \in 1 .. n
      BY <1>1
    <3>2. \A j \in 1 .. i - 1 : emplaced'[j] = emplaced[j] /\ emplaced[j] # d
      <4>1. \A j \in 1 .. n : emplaced[j] # d
        BY <1>0, <1>1, <1>3 DEF Distinct
      <4>2. QED  BY <1>1, <3>1, <4>1
    <3>3. Under(i) = {k \in DOMAIN mounts : IsPrefix(mounts[k].at, Target[emplaced[i]])
                        /\ \E j \in 1 .. i - 1 : emplaced[j] = mounts[k].part}
      BY DEF Under, Covering
    <3>4. Under(i)' = {k \in 1 .. M : IsPrefix(mounts'[k].at, Target[emplaced'[i]])
                        /\ \E j \in 1 .. i - 1 : emplaced'[j] = mounts'[k].part}
      BY DEF Under, Covering
    <3>5. Under(i) \subseteq 1 .. M
      BY <3>2, <3>3
    <3>6. \A k \in 1 .. M : k \in Under(i) <=> k \in Under(i)'
      <4>1. emplaced'[i] = emplaced[i]
        BY <1>1
      <4>2. QED  BY <3>2, <3>3, <3>4, <4>1
    <3>7. Under(i)' \subseteq 1 .. M
      BY <3>4
    <3>8. QED  BY <3>5, <3>6, <3>7
  <2>2. ASSUME NEW i \in 1 .. n, Style(emplaced'[i]) = "copy", NEW k \in Under(i)',
               \A l \in Under(i)' : l <= k
        PROVE  mounts'[k].rw
    <3>1. Style(emplaced[i]) = "copy" /\ i \in DOMAIN emplaced
      BY <1>1, <1>3, <2>2
    <3>2. k \in Under(i) /\ k \in 1 .. M /\ \A l \in Under(i) : l <= k
      BY <2>1, <2>2
    <3>3. mounts[k].rw
      BY <1>0, <3>1, <3>2 DEF Landed
    <3>4. QED  BY <3>2, <3>3
  <2>3. QED  BY <1>1, <1>2, <2>2 DEF Landed
<1>13. QED
  BY <1>5, <1>6, <1>7, <1>8, <1>9, <1>10, <1>11, <1>12 DEF Stack, Stacked

LEMMA TeardownCopyInv ==
  ASSUME IInv, TeardownCopy, UNCHANGED mountable
  PROVE  IInv'
<1> DEFINE tree == Drop(Tree(Top(Target[NextDown])), Rel(Target[NextDown]))
<1> PICK n, d, t : n = Len(emplaced) - 1 /\ d = NextDown /\ t = Target[NextDown]
  OBVIOUS
<1>0. /\ Stack /\ Content /\ Basic /\ Trees /\ Distinct /\ MountsPlaced /\ Landed
      /\ pc = "teardown" /\ emplaced # <<>> /\ emplaced' = Front(emplaced)
      /\ UNCHANGED <<pc, todo, mounts, layers, raised, mountable>>
      /\ Style(d) = "copy" /\ emplaced \in Seq(Parts) /\ pc \notin Over \cup {"remount"}
  BY DEF IInv, Stack, Stacked, Content, Basic, TeardownCopy, Over
<1>1. /\ n \in Nat /\ DOMAIN emplaced = 1 .. n + 1 /\ emplaced[n + 1] = d /\ d \in Parts
      /\ n + 1 \in 1 .. n + 1
  <2>1. n \in Nat /\ DOMAIN emplaced = 1 .. n + 1 /\ Last(emplaced) = emplaced[n + 1]
        /\ Last(emplaced) \in Parts
    BY <1>0, FrontFacts
  <2>2. QED  BY <2>1 DEF NextDown
<1>2. \A k \in DOMAIN mounts : Style(mounts[k].part) # "copy"
  BY <1>0 DEF Basic, MountsOK
<1>3. Top(t) # 0 => mounts[Top(t)].rw
  <2>1. ASSUME NEW k \in DOMAIN mounts
        PROVE  \E j \in 1 .. n : emplaced[j] = mounts[k].part
    <3>1. PICK j \in 1 .. n + 1 : emplaced[j] = mounts[k].part
      BY <1>0, <1>1 DEF MountsPlaced
    <3>2. j # n + 1
      BY <1>0, <1>1, <1>2, <3>1
    <3>3. QED  BY <1>1, <3>1, <3>2
  <2>2. Under(n + 1) = Covering(t)
    <3>1. PICK m : m = n + 1
      OBVIOUS
    <3>2. m - 1 = n /\ Target[emplaced[m]] = t
      BY <1>1, <3>1
    <3>3. Under(m) = {k \in Covering(t) : \E j \in 1 .. n : emplaced[j] = mounts[k].part}
      BY <3>2 DEF Under
    <3>4. Under(m) = Covering(t)
      BY <2>1, <3>3 DEF Covering
    <3>5. QED  BY <3>1, <3>4
  <2>3. Style(emplaced[n + 1]) = "copy" /\ n + 1 \in DOMAIN emplaced
    BY <1>0, <1>1
  <2>4. \A k \in Covering(t) : (\A l \in Covering(t) : l <= k) => mounts[k].rw
    BY <1>0, <2>2, <2>3 DEF Landed
  <2>5. Top(t) # 0 => Top(t) \in Covering(t) /\ \A l \in Covering(t) : l <= Top(t)
    BY <1>0, TopFacts
  <2>6. QED  BY <2>4, <2>5
<1>4. Content'
  <2>1. CASE Has(t)
    <3>1. Change(t, tree)
      BY <2>1 DEF TeardownCopy
    <3>2. IsTree(tree)
      BY <1>0, TreeAt, DropIsTree
    <3> HIDE DEF tree
    <3>3. QED  BY <1>0, <1>3, <3>1, <3>2, ChangeFacts
  <2>2. CASE ~Has(t)
    BY <1>0, <2>2, NoChangeFacts DEF TeardownCopy
  <2>3. QED  BY <2>1, <2>2
<1>5. Stack'
  <2> PICK M : M = Len(mounts)
    OBVIOUS
  <2>1. DOMAIN mounts = 1 .. M
    BY <1>0, LenProperties DEF Basic, MountsOK
  <2>2. /\ DOMAIN mounts' = 1 .. M /\ 1 .. M \subseteq DOMAIN mounts
        /\ \A k \in 1 .. M : mounts'[k] = mounts[k] /\ mounts[k].part # d
        /\ \A k \in DOMAIN mounts : mounts[k].part # d => k \in 1 .. M
    BY <1>0, <1>2, <2>1
  <2>3. layers' = layers \ {d}
    BY <1>0 DEF Stack, LayersKnown
  <2>4. MountsOK'
    BY <1>0, MountsStay
  <2>5. QED  BY <1>0, <2>2, <2>3, <2>4, TakenDown
<1>6. QED  BY <1>4, <1>5 DEF IInv

\* What was mounted for the part placed last is the youngest mount, and it is
\* the one that its path finds.
LEMMA LastIsOnTop ==
  ASSUME Stack, pc = "teardown", emplaced # <<>>, NEW d, d = NextDown, Style(d) # "copy"
  PROVE  /\ d \in Parts /\ Len(mounts) \in Nat /\ Len(mounts) # 0
         /\ Len(mounts) \in DOMAIN mounts /\ mounts[Len(mounts)].part = d
         /\ Top(Target[d]) = Len(mounts)
         /\ \A k \in DOMAIN mounts : k # Len(mounts) => mounts[k].part # d
<1> PICK n, L : n = Len(emplaced) - 1 /\ L = Len(mounts)
  OBVIOUS
<1>0. /\ Basic /\ MountsPlaced /\ PlacedMounted /\ InTurn
      /\ emplaced \in Seq(Parts) /\ mounts \in Seq(Mount)
  BY DEF Stack, Stacked, Basic, MountsOK, Over
<1>1. /\ n \in Nat /\ DOMAIN emplaced = 1 .. n + 1 /\ emplaced[n + 1] = d /\ d \in Parts
      /\ n + 1 \in 1 .. n + 1
  <2>1. n \in Nat /\ DOMAIN emplaced = 1 .. n + 1 /\ Last(emplaced) = emplaced[n + 1]
        /\ Last(emplaced) \in Parts
    BY <1>0, FrontFacts
  <2>2. QED  BY <2>1 DEF NextDown
<1>2. L \in Nat /\ DOMAIN mounts = 1 .. L
  BY <1>0, LenProperties
<1>3. ASSUME NEW k \in 1 .. L, mounts[k].part = d PROVE k = L
  <2>1. SUFFICES ASSUME k < L PROVE FALSE
    BY <1>2
  <2>2. L \in DOMAIN mounts
    BY <1>2, <2>1
  <2>3. PICK j \in 1 .. n + 1 : emplaced[j] = mounts[L].part
    BY <1>0, <1>1, <2>2 DEF MountsPlaced
  <2>4. n + 1 < j
    BY <1>0, <1>1, <1>2, <1>3, <2>1, <2>2, <2>3 DEF InTurn
  <2>5. QED  BY <1>1, <2>3, <2>4
<1>4. PICK k \in 1 .. L : mounts[k].part = d
  BY <1>0, <1>1, <1>2 DEF PlacedMounted
<1>5. L \in 1 .. L /\ L # 0 /\ mounts[L].part = d
  BY <1>2, <1>3, <1>4
<1>6. Top(Target[d]) = L
  <2>1. mounts[L].at = Target[d] /\ Target[d] \in Seq(Nat)
    BY <1>0, <1>1, <1>2, <1>5, PathAssumption, PartAssumption DEF Basic, MountsOK
  <2>2. IsPrefix(mounts[L].at, Target[d])
    <3>1. Len(Target[d]) \in Nat
      BY <2>1, LenProperties
    <3>2. QED  BY <2>1, <3>1 DEF IsPrefix
  <2>3. L \in Covering(Target[d])
    BY <1>2, <1>5, <2>2 DEF Covering
  <2>4. Top(Target[d]) \in Covering(Target[d]) /\ L <= Top(Target[d])
    BY <1>0, <2>3, TopFacts
  <2>5. Top(Target[d]) \in 1 .. L
    BY <1>2, <2>4 DEF Covering
  <2>6. QED  BY <1>2, <2>4, <2>5
<1>7. QED  BY <1>1, <1>2, <1>3, <1>5, <1>6

LEMMA TeardownMountInv ==
  ASSUME IInv, TeardownMount, UNCHANGED mountable
  PROVE  IInv'
<1> PICK d, L, M : d = NextDown /\ L = Len(mounts) /\ M = Len(mounts) - 1
  OBVIOUS
<1>0. /\ Stack /\ Content /\ Basic /\ pc = "teardown" /\ emplaced # <<>> /\ pc \notin Over
      /\ Style(d) # "copy" /\ NoChange /\ UNCHANGED <<todo, mountable>>
      /\ mounts \in Seq(Mount) /\ emplaced \in Seq(Parts) /\ todo \in Seq(Parts)
  BY DEF IInv, Stack, Basic, MountsOK, TeardownMount, Over
<1>1. /\ L \in Nat /\ L # 0 /\ L \in DOMAIN mounts /\ mounts[L].part = d
      /\ Top(Target[d]) = L /\ \A k \in DOMAIN mounts : k # L => mounts[k].part # d
  BY <1>0, LastIsOnTop
<1>2. \/ /\ mounts' = RemoveAt(mounts, L) /\ emplaced' = Front(emplaced)
         /\ \/ layers' = layers \ {d} /\ UNCHANGED <<pc, raised>>
            \/ Fault("rmlayer") /\ UNCHANGED layers
      \/ /\ Panic \/ Fault("umount")
         /\ UNCHANGED <<mounts, emplaced, layers>>
  BY <1>1 DEF TeardownMount
<1>3. \A p \in layers : p \in Parts /\ Style(p) = "overlay"
  BY <1>0 DEF Stack, LayersKnown
<1>4. CASE /\ mounts' = RemoveAt(mounts, L) /\ emplaced' = Front(emplaced)
           /\ \/ layers' = layers \ {d} /\ UNCHANGED <<pc, raised>>
              \/ Fault("rmlayer") /\ UNCHANGED layers
  <2>1. mounts # <<>>
    BY <1>0, <1>1, EmptySeq
  <2>2. /\ M \in Nat /\ L = M + 1 /\ DOMAIN mounts = 1 .. M + 1
        /\ mounts' \in Seq(Mount) /\ DOMAIN mounts' = 1 .. M
        /\ \A k \in 1 .. M : mounts'[k] = mounts[k]
    <3>1. /\ M \in Nat /\ DOMAIN mounts = 1 .. M + 1
          /\ Front(mounts) \in Seq(Mount) /\ DOMAIN Front(mounts) = 1 .. M
          /\ \A k \in 1 .. M : Front(mounts)[k] = mounts[k]
          /\ RemoveAt(mounts, M + 1) = Front(mounts)
      BY <1>0, <2>1, FrontFacts
    <3>2. L = M + 1
      BY <1>1
    <3>3. QED  BY <1>4, <3>1, <3>2
  <2>3. /\ \A k \in 1 .. M : k \in 1 .. M + 1 /\ k # M + 1
        /\ \A k \in 1 .. M + 1 : k # M + 1 => k \in 1 .. M
    BY <2>2
  <2>4. \A p : Style(p)' = Style(p)
    BY <1>0 DEF Style
  <2>5. MountsOK'
    BY <1>0, <2>2, <2>3, <2>4 DEF Basic, MountsOK
  <2>6. Front(emplaced) \in Seq(Parts)
    <3>1. PICK n : n = Len(emplaced) - 1
      OBVIOUS
    <3>2. QED  BY <1>0, <3>1, FrontFacts
  <2>7. CASE layers' = layers \ {d} /\ UNCHANGED <<pc, raised>>
    <3>1. /\ 1 .. M \subseteq DOMAIN mounts
          /\ \A k \in 1 .. M : mounts'[k] = mounts[k] /\ mounts[k].part # d
          /\ \A k \in DOMAIN mounts : mounts[k].part # d => k \in 1 .. M
      BY <1>1, <2>2, <2>3
    <3>2. Stack'
      BY <1>0, <1>4, <2>2, <2>5, <2>7, <3>1, TakenDown
    <3>3. QED  BY <1>0, <2>7, <3>2, NoChangeFacts DEF IInv
  <2>8. CASE Fault("rmlayer") /\ UNCHANGED layers
    <3>1. pc' = "remove" /\ raised' = "fault"
      BY <2>8 DEF Fault
    <3>2. Stack'
      BY <1>0, <1>3, <1>4, <2>5, <2>6, <2>8, <3>1, GivesUp
    <3>3. QED  BY <1>0, <3>1, <3>2, NoChangeFacts DEF IInv
  <2>9. QED  BY <1>4, <2>7, <2>8
<1>5. CASE /\ Panic \/ Fault("umount")
           /\ UNCHANGED <<mounts, emplaced, layers>>
  <2>1. pc' = "remove" /\ raised' \in {"panic", "fault"}
    BY <1>5 DEF Panic, Fault
  <2>2. Stack'
    BY <1>0, <1>3, <1>5, <2>1, MountsStay, GivesUp
  <2>3. QED  BY <1>0, <2>1, <2>2, NoChangeFacts DEF IInv
<1>6. QED  BY <1>2, <1>4, <1>5
-----------------------------------------------------------------------------
\* A list of all of a set, as long as the set is large, holds nothing twice.
LEMMA OrderFacts ==
  ASSUME NEW S \in SUBSET Parts, NEW s \in Orders(S)
  PROVE  s \in Seq(Parts) /\ \A i, j \in DOMAIN s : s[i] = s[j] => i = j
<1> PICK n : n = Cardinality(S)
  OBVIOUS
<1>1. IsFiniteSet(S) /\ n \in Nat
  BY PartAssumption, FS_Subset, FS_CardinalityType
<1>2. s \in [1 .. n -> S] /\ Range(s) = S
  BY DEF Orders
<1>3. s \in Surjection(1 .. n, S)
  BY <1>2 DEF Surjection, Range
<1>4. IsFiniteSet(1 .. n) /\ Cardinality(1 .. n) = n
  <2>1. 1 \in Int /\ n \in Int /\ (IF 1 > n THEN 0 ELSE n - 1 + 1) = n
    BY <1>1
  <2>2. IsFiniteSet(1 .. n) /\ Cardinality(1 .. n) = IF 1 > n THEN 0 ELSE n - 1 + 1
    BY <2>1, FS_Interval
  <2>3. QED  BY <2>1, <2>2
<1>5. s \in Injection(1 .. n, S)
  BY <1>3, <1>4, FS_SurjSameCardinalityImpliesInj
<1>6. \A i, j \in DOMAIN s : s[i] = s[j] => i = j
  BY <1>5 DEF Injection, IsInjective
<1>7. s \in Seq(Parts)
  BY <1>1, <1>2
<1>8. QED  BY <1>6, <1>7

LEMMA InitInv == Init => IInv
<1> SUFFICES ASSUME Init PROVE IInv
  OBVIOUS
<1>1. /\ pc = "assemble" /\ emplaced = <<>> /\ mounts = <<>> /\ layers = {} /\ root = Empty
      /\ upper = [p \in Parts |-> Empty] /\ host = [p \in Parts |-> Source[p]]
      /\ raised = "nothing" /\ mountable \in BOOLEAN
  BY DEF Init
<1>2. todo \in Seq(Parts) /\ \A i, j \in DOMAIN todo : todo[i] = todo[j] => i = j
  BY OrderFacts DEF Init
<1>3. DOMAIN emplaced = {} /\ DOMAIN mounts = {} /\ emplaced \in Seq(Parts) /\ mounts \in Seq(Mount)
  BY <1>1
<1>4. Basic
  BY <1>1, <1>2, <1>3 DEF Basic, MountsOK, Over
<1>5. Guarded /\ LayersKnown
  BY <1>1, <1>3 DEF Guarded, LayersKnown, Over
<1>6. Stacked
  BY <1>2, <1>3 DEF Stacked, Distinct, MountsPlaced, PlacedMounted, InTurn, Landed
<1>7. Content
  <2>1. IsTree(Empty)
    BY DEF IsTree, Empty
  <2>2. \A p \in Parts : IsTree(Source[p])
    BY SourceAssumption
  <2>3. QED  BY <1>1, <2>1, <2>2 DEF Content, Trees, Shared, ReadOnlyHonoured
<1>8. QED  BY <1>4, <1>5, <1>6, <1>7 DEF IInv, Stack

LEMMA StutterInv ==
  ASSUME IInv, UNCHANGED vars
  PROVE  IInv'
<1>1. \A p : Style(p)' = Style(p)
  BY DEF Style, vars
<1>2. \A i : Under(i)' = Under(i)
  BY DEF Under, Covering, vars
<1>3. Stack'
  BY <1>1, <1>2 DEF IInv, Stack, Basic, MountsOK, Guarded, LayersKnown, Stacked, Distinct,
                    MountsPlaced, PlacedMounted, InTurn, Landed, Over, vars
<1>4. Content'
  BY DEF IInv, Content, Trees, Shared, ReadOnlyHonoured, vars
<1>5. QED  BY <1>3, <1>4 DEF IInv

LEMMA NextInv == IInv /\ [Next]_vars => IInv'
<1> SUFFICES ASSUME IInv, [Next]_vars PROVE IInv'
  OBVIOUS
<1>1. ASSUME MakeParents, UNCHANGED mountable PROVE IInv'
  BY <1>1, MakeParentsInv
<1>2. ASSUME PlaceCopyFile, UNCHANGED mountable PROVE IInv'
  BY <1>2, PlaceCopyFileInv
<1>3. ASSUME PlaceCopyDir, UNCHANGED mountable PROVE IInv'
  BY <1>3, PlaceCopyDirInv
<1>4. ASSUME RefuseBareMount \/ RefuseSource, UNCHANGED mountable PROVE IInv'
  BY <1>4, RefuseInv
<1>5. ASSUME MakeDest, UNCHANGED mountable PROVE IInv'
  BY <1>5, MakeDestInv
<1>6. ASSUME MountBind, UNCHANGED mountable PROVE IInv'
  BY <1>6, MountBindInv
<1>7. ASSUME Remount, UNCHANGED mountable PROVE IInv'
  BY <1>7, RemountInv
<1>8. ASSUME MountOverlay, UNCHANGED mountable PROVE IInv'
  BY <1>8, MountOverlayInv
<1>9. ASSUME Assembled \/ JobEnds, UNCHANGED mountable PROVE IInv'
  BY <1>9, AssembledInv
<1>10. ASSUME TeardownCopy, UNCHANGED mountable PROVE IInv'
  BY <1>10, TeardownCopyInv
<1>11. ASSUME TeardownMount, UNCHANGED mountable PROVE IInv'
  BY <1>11, TeardownMountInv
<1>12. ASSUME TornDown, UNCHANGED mountable PROVE IInv'
  BY <1>12, TornDownInv
<1>13. ASSUME RemoveJobDir, UNCHANGED mountable PROVE IInv'
  BY <1>13, RemoveJobDirInv
<1>14. ASSUME Job PROVE IInv'
  BY <1>14, JobWritesInv, JobDeletesInv DEF Job
<1>15. ASSUME Ended \/ UNCHANGED vars PROVE IInv'
  BY <1>15, StutterInv DEF Ended
<1>16. QED
  BY <1>1, <1>2, <1>3, <1>4, <1>5, <1>6, <1>7, <1>8, <1>9, <1>10, <1>11, <1>12, <1>13, <1>14,
     <1>15 DEF Next, Executor, Place

LEMMA Invariance == Spec => []IInv
BY InitInv, NextInv, PTL DEF Spec
-----------------------------------------------------------------------------
\* No step of the placers, of the job, of the teardown or of the removal of the
\* job directory writes to what a job's inputs are mounted from: the arenas of
\* the ware cache stay what they were for every other job.
THEOREM InputsStayIntact == Spec => []InputsIntact
<1>1. IInv => InputsIntact
  <2> SUFFICES ASSUME IInv PROVE InputsIntact
    OBVIOUS
  <2>1. /\ Basic /\ LayersKnown /\ Trees /\ Shared
    BY DEF IInv, Stack, Content
  <2>2. ASSUME NEW s \in Seq(Parts) PROVE Range(s) \subseteq Parts
    BY ElementOfSeq, LenProperties DEF Range
  <2>3. ASSUME NEW k \in DOMAIN mounts
        PROVE  /\ mounts[k].part \in Parts /\ mounts[k].at = Target[mounts[k].part]
               /\ mounts[k].rw \in BOOLEAN
               /\ mounts[k].cow = (Style(mounts[k].part) = "overlay")
    <3>1. /\ mounts[k].part \in Parts /\ mounts[k].at = Target[mounts[k].part]
          /\ mounts[k].rw \in BOOLEAN /\ mounts[k].cow \in BOOLEAN
      BY <2>1, MountFacts
    <3>2. Style(mounts[k].part) = IF mounts[k].cow THEN "overlay" ELSE "bind"
      BY <2>1 DEF Basic, MountsOK
    <3>3. QED  BY <3>1, <3>2
  <2>4. layers \subseteq Parts
    BY <2>1 DEF LayersKnown
  <2>5. TypeOK
    BY <2>1, <2>2, <2>3, <2>4 DEF TypeOK, Basic, Over, Trees
  <2>6. QED  BY <2>1, <2>5 DEF InputsIntact, Shared
<1>2. QED  BY <1>1, Invariance, PTL

\* A host directory that was asked for read-only is what it was, unless a placer
\* or an unmount failed first: between the two mount calls nothing writes.
THEOREM ReadOnlyMountsHold == Spec => []ReadOnlyHonoured
<1>1. IInv => ReadOnlyHonoured
  BY DEF IInv, Content
<1>2. QED  BY <1>1, Invariance, PTL

\* When WithDir has removed the job directory, every mount that was made below
\* it is gone, and so is every layer directory unless something failed.
THEOREM DoneLeavesNothing == Spec => []DoneIsClean
<1>1. IInv => DoneIsClean
  BY DEF IInv, Stack, Basic, LayersKnown, DoneIsClean, Over
<1>2. QED  BY <1>1, Invariance, PTL
-----------------------------------------------------------------------------
\* The parts that are where they belong: those recorded, and a bind that is only
\* not yet read-only.  The head's target has its place made once it is worked on.
Placing == pc \in {"assemble", "place", "mount", "remount"}
There   == IF pc = "remount" THEN Append(emplaced, Head(todo)) ELSE emplaced
Coming  == IF pc \in {"place", "mount"} THEN {Target[Head(todo)]} ELSE {}

Above(p, q) == IsPrefix(p, q) /\ p # q
InOrder == \A j \in DOMAIN todo :
  /\ \A i \in DOMAIN todo : i < j => ~Above(Target[todo[j]], Target[todo[i]])
  /\ \A i \in DOMAIN There : ~Above(Target[todo[j]], Target[There[i]])

\* A host directory that is not yet mounted is what it was.
Untouched == \A i \in DOMAIN todo : host[todo[i]] = Source[todo[i]]

\* The file system as it is seen: only directories have anything below them, also
\* across mounts, and so has what is placed.
Connected == \A q \in Paths : Has(q) =>
  /\ Node(q).data \in Seq(Blocks)
  /\ \A r \in Parents(q) : IsDir(r)
Founded == /\ \A i \in DOMAIN There : \A r \in Parents(Target[There[i]]) : IsDir(r)
           /\ \A t \in Coming : \A r \in Parents(t) : IsDir(r)

Hidden(i, q) == \E j \in DOMAIN There : j > i /\ IsPrefix(Target[There[j]], q)
Point(q)     == \/ \E j \in DOMAIN There : IsPrefix(q, Target[There[j]])
                \/ \E t \in Coming : IsPrefix(q, t)
Visible == \A i \in DOMAIN There, q \in Paths :
  IsPrefix(Target[There[i]], q) /\ ~Hidden(i, q) =>
    IF Below(Target[There[i]], q) \in DOMAIN Source[There[i]]
      THEN Has(q) /\ Shows(Node(q), Source[There[i]][Below(Target[There[i]], q)])
      ELSE Has(q) => Point(q)

Seen == Placing => InOrder /\ Untouched /\ Connected /\ Founded /\ Visible
-----------------------------------------------------------------------------
\* Prefixes of paths.
Starts(p, q) == Len(p) <= Len(q) /\ \A i \in 1 .. Len(p) : p[i] = q[i]

LEMMA PrefixStarts ==
  ASSUME NEW p \in Seq(Nat), NEW q \in Seq(Nat)
  PROVE  IsPrefix(p, q) <=> Starts(p, q)
<1>1. Len(p) \in Nat /\ Len(q) \in Nat
  BY LenProperties
<1>2. SubSeq(p, 1, Len(p)) = p
  BY SubSeqFull
<1>3. ASSUME Len(p) <= Len(q)
      PROVE  /\ SubSeq(q, 1, Len(p)) \in Seq(Nat) /\ Len(SubSeq(q, 1, Len(p))) = Len(p)
             /\ \A i \in 1 .. Len(p) : SubSeq(q, 1, Len(p))[i] = q[i]
  <2>1. \A i \in 1 .. Len(p) : q[i] \in Nat
    BY <1>1, <1>3, ElementOfSeq
  <2>2. /\ SubSeq(q, 1, Len(p)) \in Seq(Nat)
        /\ Len(SubSeq(q, 1, Len(p))) = IF 1 <= Len(p) THEN Len(p) - 1 + 1 ELSE 0
        /\ \A i \in 1 .. Len(p) - 1 + 1 : SubSeq(q, 1, Len(p))[i] = q[1 + i - 1]
    BY <1>1, <2>1, SubSeqProperties
  <2>3. QED  BY <1>1, <2>2
<1>4. ASSUME Starts(p, q) PROVE p = SubSeq(q, 1, Len(p))
  <2>1. \A i \in 1 .. Len(p) : p[i] = SubSeq(q, 1, Len(p))[i]
    BY <1>3, <1>4 DEF Starts
  <2>2. QED  BY <1>3, <1>4, <2>1, SeqEqual DEF Starts
<1>5. ASSUME Len(p) <= Len(q), p = SubSeq(q, 1, Len(p)) PROVE Starts(p, q)
  BY <1>3, <1>5 DEF Starts
<1>6. QED  BY <1>2, <1>4, <1>5 DEF IsPrefix, Starts

LEMMA PrefixOrder ==
  ASSUME NEW p \in Seq(Nat), NEW q \in Seq(Nat), NEW r \in Seq(Nat)
  PROVE  /\ IsPrefix(p, p)
         /\ IsPrefix(p, q) /\ IsPrefix(q, r) => IsPrefix(p, r)
         /\ IsPrefix(p, r) /\ IsPrefix(q, r) => IsPrefix(p, q) \/ IsPrefix(q, p)
         /\ IsPrefix(p, q) /\ IsPrefix(q, p) => p = q
<1>1. Len(p) \in Nat /\ Len(q) \in Nat /\ Len(r) \in Nat
  BY LenProperties
<1>2. IsPrefix(p, p)
  BY <1>1, PrefixStarts DEF Starts
<1>3. ASSUME IsPrefix(p, q), IsPrefix(q, r) PROVE IsPrefix(p, r)
  <2>1. Starts(p, q) /\ Starts(q, r)
    BY <1>3, PrefixStarts
  <2>2. Starts(p, r)
    BY <1>1, <2>1 DEF Starts
  <2>3. QED  BY <2>2, PrefixStarts
<1>4. ASSUME IsPrefix(p, r), IsPrefix(q, r) PROVE IsPrefix(p, q) \/ IsPrefix(q, p)
  <2>1. Starts(p, r) /\ Starts(q, r)
    BY <1>4, PrefixStarts
  <2>2. Starts(p, q) \/ Starts(q, p)
    BY <1>1, <2>1 DEF Starts
  <2>3. QED  BY <2>2, PrefixStarts
<1>5. ASSUME IsPrefix(p, q), IsPrefix(q, p) PROVE p = q
  <2>1. Starts(p, q) /\ Starts(q, p)
    BY <1>5, PrefixStarts
  <2>2. Len(p) = Len(q) /\ \A i \in 1 .. Len(p) : p[i] = q[i]
    BY <1>1, <2>1 DEF Starts
  <2>3. QED  BY <2>2, SeqEqual
<1>6. QED  BY <1>2, <1>3, <1>4, <1>5

LEMMA ParentsAbove ==
  ASSUME NEW q \in Paths
  PROVE  /\ Parents(q) \subseteq Paths
         /\ \A r \in Seq(Nat) : r \in Parents(q) <=> Above(r, q)
<1>1. q \in Seq(Nat) /\ Len(q) \in Nat
  BY PathAssumption, LenProperties
<1>2. Parents(q) \subseteq Paths
  <2>1. \A n \in 0 .. Len(q) - 1 : n \in 0 .. Len(q)
    BY <1>1
  <2>2. QED  BY <2>1, PathAssumption DEF Parents
<1>3. ASSUME NEW n \in 0 .. Len(q) - 1
      PROVE  /\ SubSeq(q, 1, n) \in Seq(Nat) /\ Len(SubSeq(q, 1, n)) = n
             /\ \A i \in 1 .. n : SubSeq(q, 1, n)[i] = q[i]
  <2>1. n \in Nat /\ \A i \in 1 .. n : q[i] \in Nat
    BY <1>1, ElementOfSeq
  <2>2. /\ SubSeq(q, 1, n) \in Seq(Nat)
        /\ Len(SubSeq(q, 1, n)) = IF 1 <= n THEN n - 1 + 1 ELSE 0
        /\ \A i \in 1 .. n - 1 + 1 : SubSeq(q, 1, n)[i] = q[1 + i - 1]
    BY <2>1, SubSeqProperties
  <2>3. QED  BY <2>1, <2>2
<1>4. ASSUME NEW r \in Seq(Nat), r \in Parents(q) PROVE Above(r, q)
  <2>1. PICK n \in 0 .. Len(q) - 1 : r = SubSeq(q, 1, n)
    BY <1>4 DEF Parents
  <2>2. Starts(r, q) /\ Len(r) # Len(q)
    BY <1>1, <1>3, <2>1 DEF Starts
  <2>3. QED  BY <1>1, <2>2, PrefixStarts DEF Above
<1>5. ASSUME NEW r \in Seq(Nat), Above(r, q) PROVE r \in Parents(q)
  <2>1. Starts(r, q) /\ r # q /\ Len(r) \in Nat
    BY <1>1, <1>5, PrefixStarts, LenProperties DEF Above
  <2>2. Len(r) # Len(q)
    <3>1. ASSUME Len(r) = Len(q) PROVE r = q
      BY <1>1, <2>1, <3>1, SeqEqual DEF Starts
    <3>2. QED  BY <2>1, <3>1
  <2>3. PICK n \in 0 .. Len(q) - 1 : n = Len(r)
    BY <1>1, <2>1, <2>2 DEF Starts
  <2>4. r = SubSeq(q, 1, n)
    <3>1. \A i \in 1 .. n : r[i] = SubSeq(q, 1, n)[i]
      BY <1>3, <2>1, <2>3 DEF Starts
    <3>2. QED  BY <1>3, <2>3, <3>1, SeqEqual
  <2>5. QED  BY <2>4 DEF Parents
<1>6. QED  BY <1>2, <1>4, <1>5

\* A path below another is that one and the rest.
LEMMA BelowFacts ==
  ASSUME NEW m \in Seq(Nat), NEW q \in Paths, IsPrefix(m, q)
  PROVE  Below(m, q) \in Paths /\ m \o Below(m, q) = q
<1>1. q \in Seq(Nat) /\ Len(q) \in Nat /\ Len(m) \in Nat
  BY PathAssumption, LenProperties
<1>2. Starts(m, q)
  BY <1>1, PrefixStarts
<1>3. PICK k \in 0 .. Len(q) : k = Len(m)
  BY <1>1, <1>2 DEF Starts
<1>4. Below(m, q) \in Paths
  BY <1>3, PathAssumption DEF Below
<1>5. SubSeq(q, 1, k) \o SubSeq(q, k + 1, Len(q)) = SubSeq(q, 1, Len(q))
  <2>1. 1 \in 1 .. Len(q) + 1 /\ k \in 1 - 1 .. Len(q) /\ Len(q) \in k .. Len(q)
    BY <1>1, <1>3
  <2>2. QED  BY <1>1, <2>1, ConcatAdjacentSubSeq
<1>6. SubSeq(q, 1, k) = m
  <2>1. SubSeq(m, 1, Len(m)) = m
    BY SubSeqFull
  <2>2. QED  BY <1>3, <2>1 DEF IsPrefix
<1>7. SubSeq(q, 1, Len(q)) = q
  BY <1>1, SubSeqFull
<1>8. QED  BY <1>3, <1>4, <1>5, <1>6, <1>7 DEF Below

LEMMA BelowDiffers ==
  ASSUME NEW m \in Seq(Nat), NEW q \in Paths, IsPrefix(m, q), NEW s \in Paths, IsPrefix(m, s)
  PROVE  Below(m, q) = Below(m, s) => q = s
<1>1. m \o Below(m, q) = q /\ m \o Below(m, s) = s
  BY BelowFacts
<1>2. QED  BY <1>1

LEMMA BelowAbove ==
  ASSUME NEW m \in Seq(Nat), NEW q \in Paths, NEW s \in Paths, IsPrefix(m, s), Above(s, q)
  PROVE  Below(m, s) \in Parents(Below(m, q))
<1>1. q \in Seq(Nat) /\ s \in Seq(Nat)
  BY PathAssumption
<1>2. IsPrefix(m, q) /\ IsPrefix(s, q)
  BY <1>1, PrefixOrder DEF Above
<1>3. PICK a \in Paths, b \in Paths : a = Below(m, s) /\ b = Below(m, q)
  BY <1>2, BelowFacts
<1>4. a \in Seq(Nat) /\ b \in Seq(Nat)
  BY PathAssumption
<1>5. /\ m \o a = s /\ m \o b = q
  BY <1>2, <1>3, BelowFacts
<1>6. /\ Len(m \o a) = Len(m) + Len(a) /\ Len(m \o b) = Len(m) + Len(b)
      /\ \A i \in 1 .. Len(m) + Len(a) : (m \o a)[i] = IF i <= Len(m) THEN m[i] ELSE a[i - Len(m)]
      /\ \A i \in 1 .. Len(m) + Len(b) : (m \o b)[i] = IF i <= Len(m) THEN m[i] ELSE b[i - Len(m)]
      /\ Len(a) \in Nat /\ Len(b) \in Nat /\ Len(m) \in Nat
  BY <1>4, ConcatProperties, LenProperties
<1>7. Starts(s, q)
  BY <1>1, <1>2, PrefixStarts
<1>8. Starts(a, b)
  <2>1. Len(a) <= Len(b)
    BY <1>5, <1>6, <1>7 DEF Starts
  <2>2. ASSUME NEW i \in 1 .. Len(a) PROVE a[i] = b[i]
    <3>1. PICK j \in 1 .. Len(m) + Len(a) : j = Len(m) + i /\ ~(j <= Len(m)) /\ j - Len(m) = i
      BY <1>6
    <3>2. j \in 1 .. Len(m) + Len(b)
      BY <1>6, <2>1, <3>1
    <3>3. s[j] = a[i] /\ q[j] = b[i]
      BY <1>5, <1>6, <3>1, <3>2
    <3>4. s[j] = q[j]
      BY <1>5, <1>6, <1>7 DEF Starts
    <3>5. QED  BY <3>3, <3>4
  <2>3. QED  BY <2>1, <2>2 DEF Starts
<1>9. a # b
  BY <1>3, <1>5 DEF Above
<1>10. QED  BY <1>3, <1>4, <1>8, <1>9, PrefixStarts, ParentsAbove DEF Above
-----------------------------------------------------------------------------
Working == {"assemble", "place", "mount"}

\* Each part is mounted once, and after it was taken off the list.
LEMMA MountsDiffer ==
  ASSUME Stack, pc \in Working
  PROVE  /\ \A k, l \in DOMAIN mounts : mounts[k].part = mounts[l].part => k = l
         /\ \A k \in DOMAIN mounts : \E i \in DOMAIN emplaced : emplaced[i] = mounts[k].part
         /\ \A k \in DOMAIN mounts, i \in DOMAIN todo : mounts[k].part # todo[i]
<1>1. Distinct /\ MountsPlaced /\ InTurn /\ Basic
  BY DEF Stack, Stacked, Working, Over
<1>2. \A k \in DOMAIN mounts : \E i \in DOMAIN emplaced : emplaced[i] = mounts[k].part
  BY <1>1 DEF MountsPlaced, Working
<1>3. ASSUME NEW k \in DOMAIN mounts, NEW l \in DOMAIN mounts, mounts[k].part = mounts[l].part
      PROVE  k = l
  <2>1. PICK i \in DOMAIN emplaced : emplaced[i] = mounts[k].part
    BY <1>2
  <2>2. ~(k < l) /\ ~(l < k)
    <3>1. i \in Nat
      BY <1>1, LenProperties DEF Basic
    <3>2. k < l => i < i
      BY <1>1, <1>3, <2>1 DEF InTurn
    <3>3. l < k => i < i
      BY <1>1, <1>3, <2>1 DEF InTurn
    <3>4. QED  BY <3>1, <3>2, <3>3
  <2>3. k \in Nat /\ l \in Nat
    BY <1>1, MountFacts
  <2>4. QED  BY <2>2, <2>3
<1>4. \A k \in DOMAIN mounts, i \in DOMAIN todo : mounts[k].part # todo[i]
  BY <1>1, <1>2 DEF Distinct
<1>5. QED  BY <1>2, <1>3, <1>4

\* What holds a path, if anything is mounted there.
LEMMA TopIsMount ==
  ASSUME Basic, NEW p, Top(p) # 0
  PROVE  Top(p) \in DOMAIN mounts /\ IsPrefix(mounts[Top(p)].at, p)
BY TopFacts DEF Covering

LEMMA SameRel ==
  ASSUME Basic, NEW p \in Paths, NEW q \in Paths, Top(p) = Top(q), Rel(p) = Rel(q)
  PROVE  p = q
<1>1. CASE Top(p) = 0
  BY <1>1 DEF Rel
<1>2. CASE Top(p) # 0
  <2>1. PICK k \in DOMAIN mounts :
          k = Top(p) /\ IsPrefix(mounts[k].at, p) /\ IsPrefix(mounts[k].at, q)
    BY <1>2, TopIsMount
  <2>2. mounts[k].at \in Seq(Nat)
    BY <2>1, MountFacts, PathAssumption
  <2>3. Below(mounts[k].at, p) = Below(mounts[k].at, q)
    BY <1>2, <2>1 DEF Rel
  <2>4. QED  BY <2>1, <2>2, <2>3, BelowDiffers
<1>3. QED  BY <1>1, <1>2

\* A change reaches one tree, and so what is seen of that tree only.
LEMMA ChangeView ==
  ASSUME Stack, Content, pc \in Working, NEW p, NEW t, Change(p, t),
         UNCHANGED <<mounts, mountable>>, NEW q, NEW u,
         u = IF Top(q) = Top(p) THEN t ELSE Tree(Top(q))
  PROVE  Has(q)' = (Rel(q) \in DOMAIN u) /\ Node(q)' = u[Rel(q)]
<1>1. Basic /\ Trees
  BY DEF Stack, Content
<1>2. Top(q)' = Top(q)
  BY DEF Top, Covering
<1>3. Rel(q)' = Rel(q)
  BY <1>2 DEF Rel
<1>4. Tree(Top(q))' = u
  <2>1. CASE Top(q) = 0
    BY <1>2, <2>1 DEF Tree, Change
  <2>2. CASE Top(q) # 0
    <3>1. PICK k \in DOMAIN mounts : k = Top(q)
      BY <1>1, <2>2, TopIsMount
    <3>2. PICK n \in Parts : n = mounts[k].part
      BY <1>1, MountFacts
    <3>3. Tree(Top(q)) = IF mounts[k].cow THEN upper[n] ELSE host[n]
      BY <2>2, <3>1, <3>2 DEF Tree
    <3>4. Tree(Top(q))' = IF mounts[k].cow THEN upper'[n] ELSE host'[n]
      BY <1>2, <2>2, <3>1, <3>2 DEF Tree
    <3>5. CASE Top(p) = 0
      BY <2>2, <3>3, <3>4, <3>5 DEF Change
    <3>6. CASE Top(p) # 0
      <4>1. PICK l \in DOMAIN mounts : l = Top(p)
        BY <1>1, <3>6, TopIsMount
      <4>2. PICK m \in Parts : m = mounts[l].part
        BY <1>1, MountFacts
      <4>3. m = n <=> k = l
        BY <3>2, <4>2, MountsDiffer
      <4>4. /\ upper' = IF mounts[l].cow THEN [upper EXCEPT ![m] = t] ELSE upper
            /\ host' = IF ~mounts[l].cow THEN [host EXCEPT ![m] = t] ELSE host
        BY <3>6, <4>1, <4>2 DEF Change
      <4>5. upper = [x \in Parts |-> upper[x]] /\ host = [x \in Parts |-> host[x]]
        BY <1>1 DEF Trees
      <4>6. /\ upper'[n] = IF mounts[l].cow /\ n = m THEN t ELSE upper[n]
            /\ host'[n] = IF ~mounts[l].cow /\ n = m THEN t ELSE host[n]
        BY <4>4, <4>5
      <4>7. QED  BY <3>1, <3>3, <3>4, <4>1, <4>3, <4>6
    <3>7. QED  BY <3>5, <3>6
  <2>3. QED  BY <2>1, <2>2
<1>5. QED  BY <1>3, <1>4 DEF Has, Node

\* What is seen of other paths stays.
SameView(q) == Has(q)' = Has(q) /\ (Has(q) => Node(q)' = Node(q))

\* A node laid at some paths of one tree.
LEMMA LaidView ==
  ASSUME Stack, Content, pc \in Working, NEW p \in Paths, UNCHANGED <<mounts, mountable>>,
         NEW R \in SUBSET Paths, \A r \in R : Top(r) = Top(p), NEW node,
         Change(p, Onto([x \in {Rel(r) : r \in R} |-> node], Tree(Top(p)))),
         NEW q \in Paths
  PROVE  /\ q \in R => Has(q)' /\ Node(q)' = node
         /\ q \notin R => SameView(q)
<1> DEFINE X == {Rel(r) : r \in R}
           t == Onto([x \in X |-> node], Tree(Top(p)))
<1>1. Basic
  BY DEF Stack
<1>2. /\ DOMAIN t = X \cup DOMAIN Tree(Top(p))
      /\ \A x \in DOMAIN t : t[x] = IF x \in X THEN node ELSE Tree(Top(p))[x]
  BY DEF Onto
<1>3. PICK w : w = t
  OBVIOUS
<1>4. PICK u : u = IF Top(q) = Top(p) THEN w ELSE Tree(Top(q))
  OBVIOUS
<1>5. Change(p, w)
  BY <1>3
<1>6. Has(q)' = (Rel(q) \in DOMAIN u) /\ Node(q)' = u[Rel(q)]
  BY <1>4, <1>5, ChangeView
<1>7. Top(q) = Top(p) => (Rel(q) \in X <=> q \in R)
  BY <1>1, SameRel
<1> HIDE DEF t
<1>8. ASSUME q \in R PROVE Has(q)' /\ Node(q)' = node
  <2>1. Top(q) = Top(p) /\ Rel(q) \in X
    BY <1>8
  <2>2. u = t /\ Rel(q) \in DOMAIN t
    BY <1>2, <1>3, <1>4, <2>1
  <2>3. QED  BY <1>2, <1>6, <2>1, <2>2
<1>9. ASSUME q \notin R PROVE SameView(q)
  <2>1. CASE Top(q) = Top(p)
    <3>1. u = t /\ Rel(q) \notin X
      BY <1>3, <1>4, <1>7, <1>9, <2>1
    <3>2. Rel(q) \in DOMAIN u <=> Rel(q) \in DOMAIN Tree(Top(q))
      BY <1>2, <2>1, <3>1
    <3>3. Rel(q) \in DOMAIN u => u[Rel(q)] = Tree(Top(q))[Rel(q)]
      BY <1>2, <2>1, <3>1
    <3>4. QED  BY <1>6, <3>2, <3>3 DEF SameView, Has, Node
  <2>2. CASE Top(q) # Top(p)
    BY <1>4, <1>6, <2>2 DEF SameView, Has, Node
  <2>3. QED  BY <2>1, <2>2
<1>10. QED  BY <1>8, <1>9

\* A mount covers what is at its target and below, and nothing else.
LEMMA MountView ==
  ASSUME Stack, Content, pc \in Working, NEW h \in Parts, NEW cow \in BOOLEAN,
         \A k \in DOMAIN mounts : mounts[k].part # h,
         mounts' = Append(mounts, Mounted(h, cow)), UNCHANGED <<root, host, mountable>>,
         \/ upper' = upper /\ ~cow
         \/ upper' = [upper EXCEPT ![h] = host[h]],
         Style(h) = IF cow THEN "overlay" ELSE "bind",
         NEW q \in Paths
  PROVE  /\ IsPrefix(Target[h], q) =>
              /\ Has(q)' = (Below(Target[h], q) \in DOMAIN host[h])
              /\ Node(q)' = host[h][Below(Target[h], q)]
         /\ ~IsPrefix(Target[h], q) => SameView(q)
<1>1. Basic /\ Trees
  BY DEF Stack, Content
<1>2. PICK L : L = Len(mounts)
  OBVIOUS
<1>3. /\ L \in Nat /\ DOMAIN mounts = 1 .. L /\ DOMAIN mounts' = 1 .. L + 1
      /\ \A k \in 1 .. L : mounts'[k] = mounts[k]
      /\ mounts'[L + 1] = Mounted(h, cow)
  BY <1>2, MountAppended
<1>4. upper = [x \in Parts |-> upper[x]]
  BY <1>1 DEF Trees
<1>5. CASE IsPrefix(Target[h], q)
  <2>1. L + 1 \in Covering(q)' /\ \A k \in Covering(q)' : k <= L + 1
    BY <1>3, <1>5 DEF Covering, Mounted
  <2>2. Covering(q)' \subseteq Nat
    BY <1>3 DEF Covering
  <2>3. Top(q)' = L + 1
    <3>1. \A k \in Covering(q)' : (\A l \in Covering(q)' : k >= l) <=> k = L + 1
      BY <1>3, <2>1, <2>2
    <3>2. Max(Covering(q)') = L + 1
      BY <2>1, <3>1 DEF Max
    <3>3. QED  BY <2>1, <3>2 DEF Top
  <2>4. L + 1 # 0
    BY <1>3
  <2>5. Rel(q)' = Below(Target[h], q)
    BY <1>3, <2>3, <2>4 DEF Rel, Mounted
  <2>6. Tree(Top(q))' = IF cow THEN upper'[h] ELSE host'[h]
    BY <1>3, <2>3, <2>4 DEF Tree, Mounted
  <2>7. Tree(Top(q))' = host[h]
    BY <1>4, <2>6
  <2>8. QED  BY <1>5, <2>5, <2>7 DEF Has, Node
<1>6. CASE ~IsPrefix(Target[h], q)
  <2>1. Covering(q)' = Covering(q)
    BY <1>3, <1>6 DEF Covering, Mounted
  <2>2. Top(q)' = Top(q)
    BY <2>1 DEF Top
  <2>3. CASE Top(q) = 0
    <3>1. Rel(q)' = Rel(q) /\ Tree(Top(q))' = Tree(Top(q))
      BY <2>2, <2>3 DEF Rel, Tree
    <3>2. QED  BY <1>6, <3>1 DEF SameView, Has, Node
  <2>4. CASE Top(q) # 0
    <3>1. PICK k \in DOMAIN mounts : k = Top(q)
      BY <1>1, <2>4, TopIsMount
    <3>2. mounts'[k] = mounts[k] /\ mounts[k].part \in Parts /\ mounts[k].part # h
      BY <1>1, <1>3, <3>1, MountFacts
    <3>3. upper'[mounts[k].part] = upper[mounts[k].part]
      BY <1>4, <3>2
    <3>4. Rel(q)' = Rel(q) /\ Tree(Top(q))' = Tree(Top(q))
      BY <2>2, <2>4, <3>1, <3>2, <3>3 DEF Rel, Tree
    <3>5. QED  BY <1>6, <3>4 DEF SameView, Has, Node
  <2>5. QED  BY <2>3, <2>4
<1>7. QED  BY <1>5, <1>6

\* Nothing that is seen depends on whether a mount is writable.
LEMMA RemountView ==
  ASSUME Stack, mounts # <<>>, mounts' = [mounts EXCEPT ![Len(mounts)].rw = FALSE],
         UNCHANGED <<root, upper, host, mountable>>, NEW q
  PROVE  SameView(q)
<1>1. Basic
  BY DEF Stack
<1>2. DOMAIN mounts' = DOMAIN mounts
  OBVIOUS
<1>3. \A k \in DOMAIN mounts : /\ mounts'[k].at = mounts[k].at /\ mounts'[k].cow = mounts[k].cow
                               /\ mounts'[k].part = mounts[k].part
  <2> SUFFICES ASSUME NEW k \in DOMAIN mounts
               PROVE  /\ mounts'[k].at = mounts[k].at /\ mounts'[k].cow = mounts[k].cow
                      /\ mounts'[k].part = mounts[k].part
    OBVIOUS
  <2>1. mounts[k] \in Mount
    <3>1. mounts \in Seq(Mount) /\ k \in 1 .. Len(mounts)
      BY <1>1, MountFacts DEF Basic, MountsOK
    <3>2. QED  BY <3>1, ElementOfSeq
  <2>2. mounts'[k] = mounts[k] \/ mounts'[k] = [mounts[k] EXCEPT !.rw = FALSE]
    OBVIOUS
  <2>3. QED  BY <2>1, <2>2 DEF Mount
<1>4. Covering(q)' = Covering(q)
  BY <1>2, <1>3 DEF Covering
<1>5. Top(q)' = Top(q)
  BY <1>4 DEF Top
<1>6. Rel(q)' = Rel(q) /\ Tree(Top(q))' = Tree(Top(q))
  <2>1. CASE Top(q) = 0
    BY <1>5, <2>1 DEF Rel, Tree
  <2>2. CASE Top(q) # 0
    <3>1. Top(q) \in DOMAIN mounts
      BY <1>1, <2>2, TopIsMount
    <3>2. QED  BY <1>3, <1>5, <3>1 DEF Rel, Tree
  <2>3. QED  BY <2>1, <2>2
<1>7. QED  BY <1>6 DEF SameView, Has, Node
-----------------------------------------------------------------------------
LEMMA ThereFacts ==
  ASSUME Stack
  PROVE  There \in Seq(Parts) /\ Len(There) \in Nat /\ DOMAIN There = 1 .. Len(There)
         /\ \A i \in DOMAIN There : There[i] \in Parts /\ Target[There[i]] \in Paths
<1>1. emplaced \in Seq(Parts) /\ (pc = "remount" => Head(todo) \in Parts)
  BY HeadFacts DEF Stack, Basic
<1>2. There \in Seq(Parts)
  BY <1>1, AppendProperties DEF There
<1>3. Len(There) \in Nat /\ DOMAIN There = 1 .. Len(There)
  BY <1>2, LenProperties
<1>4. \A i \in DOMAIN There : There[i] \in Parts
  BY <1>2, <1>3, ElementOfSeq
<1>5. QED  BY <1>2, <1>3, <1>4, PartAssumption

LEMMA HasParents ==
  ASSUME NEW q \in Paths, NEW r \in Parents(q)
  PROVE  r \in Paths /\ r \in Seq(Nat) /\ q \in Seq(Nat) /\ IsPrefix(r, q) /\ r # q
<1>1. r \in Paths
  BY ParentsAbove
<1>2. r \in Seq(Nat) /\ q \in Seq(Nat)
  BY <1>1, PathAssumption
<1>3. QED  BY <1>1, <1>2, ParentsAbove DEF Above

\* A directory that was seen is seen where nothing changed.
LEMMA DirStays == ASSUME NEW q, SameView(q), IsDir(q) PROVE IsDir(q)'
BY DEF SameView, IsDir

\* Something was made on the way to the part that comes next, where there was nothing.
LEMMA MadeRoom ==
  ASSUME Stack, Connected, Founded, Visible, There' = There,
         NEW t \in Paths, Coming \subseteq {t}, t \in Coming',
         NEW R \in SUBSET Paths, \A q \in R : IsPrefix(q, t) /\ ~Has(q),
         \A q \in R : Has(q)' /\ Node(q)'.data \in Seq(Blocks),
         \A q \in R : \A r \in Parents(q) : IsDir(r)',
         \A r \in Parents(t) : IsDir(r)', Coming' = {t},
         \A q \in Paths \ R : SameView(q)
  PROVE  Connected' /\ Founded' /\ Visible'
<1>1. ASSUME NEW q \in Paths, IsDir(q) PROVE IsDir(q)'
  <2>1. Has(q)
    BY <1>1 DEF IsDir
  <2>2. q \notin R
    BY <2>1
  <2>3. QED  BY <1>1, <2>2, DirStays
<1>2. Connected'
  <2> SUFFICES ASSUME NEW q \in Paths, Has(q)'
               PROVE  Node(q)'.data \in Seq(Blocks) /\ \A r \in Parents(q) : IsDir(r)'
    BY DEF Connected
  <2>1. CASE q \in R
    BY <2>1
  <2>2. CASE q \notin R
    <3>1. Has(q) /\ Node(q)' = Node(q)
      BY <2>2 DEF SameView
    <3>2. \A r \in Parents(q) : r \in Paths /\ IsDir(r)
      BY <3>1, HasParents DEF Connected
    <3>3. QED  BY <1>1, <3>1, <3>2 DEF Connected
  <2>3. QED  BY <2>1, <2>2
<1>3. Founded'
  <2>1. ASSUME NEW i \in DOMAIN There, NEW r \in Parents(Target[There[i]]) PROVE IsDir(r)'
    <3>1. r \in Paths
      BY ThereFacts, HasParents
    <3>2. QED  BY <1>1, <3>1 DEF Founded
  <2>2. QED  BY <2>1 DEF Founded
<1>4. Visible'
  <2> SUFFICES ASSUME NEW i \in DOMAIN There, NEW q \in Paths,
                      IsPrefix(Target[There[i]], q), ~Hidden(i, q)'
               PROVE  IF Below(Target[There[i]], q) \in DOMAIN Source[There[i]]
                        THEN /\ Has(q)'
                             /\ Shows(Node(q)', Source[There[i]][Below(Target[There[i]], q)])
                        ELSE Has(q)' => Point(q)'
    BY DEF Visible
  <2>1. ~Hidden(i, q)
    BY DEF Hidden
  <2>2. /\ Below(Target[There[i]], q) \in DOMAIN Source[There[i]] =>
             Has(q) /\ Shows(Node(q), Source[There[i]][Below(Target[There[i]], q)])
        /\ Below(Target[There[i]], q) \notin DOMAIN Source[There[i]] => (Has(q) => Point(q))
    BY <2>1 DEF Visible
  <2>3. CASE q \in R
    <3>1. ~Has(q) /\ IsPrefix(q, t)
      BY <2>3
    <3>2. Point(q)'
      BY <3>1 DEF Point
    <3>3. QED  BY <2>2, <3>1, <3>2
  <2>4. CASE q \notin R
    <3>1. SameView(q)
      BY <2>4
    <3>2. Point(q) => Point(q)'
      BY DEF Point
    <3>3. QED  BY <2>2, <3>1, <3>2 DEF SameView
  <2>5. QED  BY <2>3, <2>4
<1>5. QED  BY <1>2, <1>3, <1>4

\* A part got to where it belongs: it is seen there, and only there.
LEMMA PutThere ==
  ASSUME Stack, Connected, Founded, Visible, NEW h \in Parts, NEW t, t = Target[h],
         There' = Append(There, h), Coming \subseteq {t}, Coming' = {},
         \A i \in DOMAIN There : ~Above(t, Target[There[i]]),
         \A r \in Parents(t) : IsDir(r),
         \A q \in Paths : ~IsPrefix(t, q) => SameView(q),
         \A q \in Paths : IsPrefix(t, q) => Has(q)' = (Below(t, q) \in DOMAIN Source[h]),
         \A q \in Paths : IsPrefix(t, q) /\ Has(q)' =>
           /\ Node(q)'.data \in Seq(Blocks) /\ Shows(Node(q)', Source[h][Below(t, q)])
           /\ Source[h][Below(t, q)] = Dir => Node(q)' = Dir
  PROVE  Connected' /\ Founded' /\ Visible'
<1>1. t \in Paths /\ t \in Seq(Nat)
  BY PartAssumption, PathAssumption
<1> PICK n : n = Len(There)
  OBVIOUS
<1>2. /\ n \in Nat /\ DOMAIN There = 1 .. n /\ DOMAIN There' = 1 .. n + 1
      /\ \A i \in 1 .. n : There'[i] = There[i] /\ Target[There[i]] \in Paths
      /\ There'[n + 1] = h
  <2>1. There \in Seq(Parts) /\ n \in Nat /\ DOMAIN There = 1 .. n
        /\ \A i \in 1 .. n : Target[There[i]] \in Paths
    BY ThereFacts
  <2>2. /\ There' \in Seq(Parts) /\ Len(There') = n + 1 /\ There'[n + 1] = h
        /\ \A i \in 1 .. n : There'[i] = There[i]
    BY <2>1, AppendProperties
  <2>3. DOMAIN There' = 1 .. n + 1
    BY <2>2, LenProperties
  <2>4. QED  BY <2>1, <2>2, <2>3
<1>3. ASSUME NEW r \in Paths, IsDir(r), ~IsPrefix(t, r) PROVE IsDir(r)'
  BY <1>3, DirStays
<1>4. ASSUME NEW r \in Parents(t) PROVE IsDir(r)'
  <2>1. r \in Paths /\ ~IsPrefix(t, r)
    BY <1>1, HasParents, PrefixOrder
  <2>2. QED  BY <1>3, <2>1
<1>5. Connected'
  <2> SUFFICES ASSUME NEW q \in Paths, Has(q)', NEW r \in Parents(q)
               PROVE  Node(q)'.data \in Seq(Blocks) /\ IsDir(r)'
    <3>1. ASSUME NEW q \in Paths, Has(q)' PROVE Node(q)'.data \in Seq(Blocks)
      BY <3>1 DEF SameView, Connected
    <3>2. QED  BY <3>1 DEF Connected
  <2>0. r \in Paths /\ r \in Seq(Nat) /\ q \in Seq(Nat) /\ IsPrefix(r, q) /\ r # q
    BY HasParents
  <2>1. CASE IsPrefix(t, q)
    <3>1. Below(t, q) \in DOMAIN Source[h] /\ Node(q)'.data \in Seq(Blocks)
      BY <2>1
    <3>2. CASE IsPrefix(t, r)
      <4>1. Below(t, r) \in Parents(Below(t, q))
        BY <1>1, <2>0, <3>2, BelowAbove DEF Above
      <4>2. Below(t, r) \in DOMAIN Source[h] /\ Source[h][Below(t, r)] = Dir
        BY <3>1, <4>1, SourceAssumption
      <4>3. QED  BY <2>0, <3>1, <3>2, <4>2 DEF IsDir
    <3>3. CASE ~IsPrefix(t, r)
      <4>1. Above(r, t)
        BY <1>1, <2>0, <2>1, <3>3, PrefixOrder DEF Above
      <4>2. QED  BY <1>1, <1>4, <2>0, <3>1, <4>1, ParentsAbove
    <3>4. QED  BY <3>2, <3>3
  <2>2. CASE ~IsPrefix(t, q)
    <3>1. Has(q) /\ Node(q)' = Node(q)
      BY <2>2 DEF SameView
    <3>2. ~IsPrefix(t, r)
      BY <1>1, <2>0, <2>2, PrefixOrder
    <3>3. QED  BY <1>3, <2>0, <3>1, <3>2 DEF Connected
  <2>3. QED  BY <2>1, <2>2
<1>6. Founded'
  <2>1. ASSUME NEW i \in 1 .. n, NEW r \in Parents(Target[There[i]]) PROVE IsDir(r)'
    <3>1. r \in Paths /\ r \in Seq(Nat) /\ IsPrefix(r, Target[There[i]]) /\ r # Target[There[i]]
          /\ Target[There[i]] \in Seq(Nat)
      BY <1>2, HasParents
    <3>2. ~IsPrefix(t, r)
      BY <1>1, <1>2, <3>1, PrefixOrder DEF Above
    <3>3. QED  BY <1>2, <1>3, <3>1, <3>2 DEF Founded
  <2>2. ASSUME NEW i \in 1 .. n + 1, NEW r \in Parents(Target[There'[i]]) PROVE IsDir(r)'
    <3>1. CASE i \in 1 .. n
      BY <1>2, <2>1, <2>2, <3>1
    <3>2. CASE i = n + 1
      BY <1>2, <1>4, <2>2, <3>2
    <3>3. QED  BY <1>2, <3>1, <3>2
  <2>3. QED  BY <1>2, <2>2 DEF Founded
<1>7. Visible'
  <2> SUFFICES ASSUME NEW i \in 1 .. n + 1, NEW q \in Paths,
                      IsPrefix(Target[There'[i]], q), ~Hidden(i, q)'
               PROVE  IF Below(Target[There'[i]], q) \in DOMAIN Source[There'[i]]
                        THEN /\ Has(q)'
                             /\ Shows(Node(q)', Source[There'[i]][Below(Target[There'[i]], q)])
                        ELSE Has(q)' => Point(q)'
    BY <1>2 DEF Visible
  <2>1. CASE i = n + 1
    BY <1>2, <2>1
  <2>2. CASE i \in 1 .. n
    <3>1. There'[i] = There[i] /\ n + 1 > i
      BY <1>2, <2>2
    <3>2. ~IsPrefix(t, q)
      BY <1>2, <3>1 DEF Hidden
    <3>3. ~Hidden(i, q)
      BY <1>2, <2>2 DEF Hidden
    <3>4. SameView(q)
      BY <3>2
    <3>5. Point(q) => Point(q)'
      BY <1>2 DEF Point
    <3>6. /\ Below(Target[There[i]], q) \in DOMAIN Source[There[i]] =>
               Has(q) /\ Shows(Node(q), Source[There[i]][Below(Target[There[i]], q)])
          /\ Below(Target[There[i]], q) \notin DOMAIN Source[There[i]] => (Has(q) => Point(q))
      BY <1>2, <2>2, <3>1, <3>3 DEF Visible
    <3>7. QED  BY <3>1, <3>4, <3>5, <3>6 DEF SameView
  <2>3. QED  BY <1>2, <2>1, <2>2
<1>8. QED  BY <1>5, <1>6, <1>7
-----------------------------------------------------------------------------
LEMMA TailFacts ==
  ASSUME NEW s \in Seq(Parts), s # <<>>
  PROVE  \A i \in DOMAIN Tail(s) : /\ i + 1 \in DOMAIN s /\ Tail(s)[i] = s[i + 1]
                                   /\ i \in Nat /\ 0 < i
<1>1. Len(s) \in Nat /\ DOMAIN s = 1 .. Len(s)
  BY LenProperties
<1>2. Tail(s) \in Seq(Parts) /\ Len(Tail(s)) = Len(s) - 1
  BY HeadTailProperties
<1>3. DOMAIN Tail(s) = 1 .. Len(s) - 1
  BY <1>2, LenProperties
<1>4. \A i \in 1 .. Len(Tail(s)) : Tail(s)[i] = s[i + 1]
  BY HeadTailProperties
<1>5. QED  BY <1>1, <1>2, <1>3, <1>4

\* The list stays as it is, or its head goes; then it is where it belongs.
LEMMA OrderKept ==
  ASSUME Stack, todo # <<>>, InOrder, todo' = todo \/ todo' = Tail(todo),
         There' = There \/ There' = Append(There, Head(todo))
  PROVE  InOrder'
<1> PICK n, h : n = Len(There) /\ h = Head(todo)
  OBVIOUS
<1>1. todo \in Seq(Parts) /\ h = todo[1] /\ 1 \in DOMAIN todo /\ Target[h] \in Seq(Nat)
      /\ DOMAIN todo = 1 .. Len(todo) /\ Len(todo) \in Nat /\ h \in Parts
  BY HeadFacts, PathAssumption, LenProperties DEF Stack, Basic
<1>2. There \in Seq(Parts) /\ n \in Nat /\ DOMAIN There = 1 .. n
  BY ThereFacts
<1>3. There' = Append(There, h) =>
        /\ DOMAIN There' = 1 .. n + 1 /\ There'[n + 1] = h
        /\ \A i \in 1 .. n : There'[i] = There[i]
  <2>1. /\ Append(There, h) \in Seq(Parts) /\ Len(Append(There, h)) = n + 1
        /\ Append(There, h)[n + 1] = h /\ \A i \in 1 .. n : Append(There, h)[i] = There[i]
    BY <1>1, <1>2, AppendProperties
  <2>2. DOMAIN Append(There, h) = 1 .. n + 1
    BY <2>1, LenProperties
  <2>3. QED  BY <2>1, <2>2
<1>4. \A i \in DOMAIN There' : There'[i] = h \/ \E k \in DOMAIN There : There'[i] = There[k]
  <2>1. CASE There' = There
    BY <2>1
  <2>2. CASE There' = Append(There, h)
    <3>1. \A i \in 1 .. n + 1 : i \in 1 .. n \/ i = n + 1
      BY <1>2
    <3>2. QED  BY <1>2, <1>3, <2>2, <3>1
  <2>3. QED  BY <2>1, <2>2
<1>5. ASSUME NEW j \in DOMAIN todo, NEW i \in DOMAIN There'
      PROVE  ~Above(Target[todo[j]], Target[There'[i]])
  <2>1. CASE There'[i] = h
    <3>1. ~Above(Target[h], Target[h])
      BY DEF Above
    <3>2. j = 1 \/ 1 < j
      BY <1>1
    <3>3. QED  BY <1>1, <2>1, <3>1, <3>2 DEF InOrder
  <2>2. CASE \E k \in DOMAIN There : There'[i] = There[k]
    BY <2>2 DEF InOrder
  <2>3. QED  BY <1>4, <2>1, <2>2
<1>6. CASE todo' = todo
  BY <1>5, <1>6 DEF InOrder
<1>7. CASE todo' = Tail(todo)
  <2>1. \A i \in DOMAIN todo' : /\ i + 1 \in DOMAIN todo /\ todo'[i] = todo[i + 1]
                                /\ i \in Nat /\ 0 < i
    BY <1>1, <1>7, TailFacts
  <2>2. ASSUME NEW j \in DOMAIN todo', NEW i \in DOMAIN todo', i < j
        PROVE  ~Above(Target[todo'[j]], Target[todo'[i]])
    <3>1. i + 1 < j + 1 /\ i + 1 \in DOMAIN todo /\ j + 1 \in DOMAIN todo
      BY <2>1, <2>2
    <3>2. ~Above(Target[todo[j + 1]], Target[todo[i + 1]])
      BY <3>1 DEF InOrder
    <3>3. QED  BY <2>1, <3>2
  <2>3. ASSUME NEW j \in DOMAIN todo', NEW i \in DOMAIN There'
        PROVE  ~Above(Target[todo'[j]], Target[There'[i]])
    BY <1>5, <2>1
  <2>4. QED  BY <2>2, <2>3 DEF InOrder
<1>8. QED  BY <1>6, <1>7

LEMMA UntouchedKept ==
  ASSUME Stack, todo # <<>>, Untouched, todo' = todo \/ todo' = Tail(todo),
         \A i \in DOMAIN todo : host'[todo[i]] = host[todo[i]]
  PROVE  Untouched'
<1>1. todo \in Seq(Parts)
  BY DEF Stack, Basic
<1>2. todo' = Tail(todo) => \A i \in DOMAIN todo' : i + 1 \in DOMAIN todo /\ todo'[i] = todo[i + 1]
  BY <1>1, TailFacts
<1>3. \A i \in DOMAIN todo' : \E k \in DOMAIN todo : todo'[i] = todo[k]
  BY <1>2
<1>4. QED  BY <1>3 DEF Untouched

\* What is written to is mounted.
LEMMA OthersUntouched ==
  ASSUME Stack, Content, pc \in Working, NEW p, NEW u, Change(p, u)
  PROVE  \A i \in DOMAIN todo : host'[todo[i]] = host[todo[i]]
<1>1. Basic /\ host = [x \in Parts |-> host[x]]
  BY DEF Stack, Content, Trees
<1>2. CASE Top(p) = 0
  BY <1>2 DEF Change
<1>3. CASE Top(p) # 0
  <2>1. PICK k \in DOMAIN mounts : k = Top(p)
    BY <1>1, <1>3, TopIsMount
  <2>2. host' = IF ~mounts[k].cow THEN [host EXCEPT ![mounts[k].part] = u] ELSE host
    BY <1>3, <2>1 DEF Change
  <2>3. \A i \in DOMAIN todo : mounts[k].part # todo[i]
    BY MountsDiffer
  <2>4. QED  BY <1>1, <2>2, <2>3
<1>4. QED  BY <1>2, <1>3

\* The part placed next is above none that is there.
LEMMA HeadNotAbove ==
  ASSUME Stack, InOrder, todo # <<>>
  PROVE  \A i \in DOMAIN There : ~Above(Target[Head(todo)], Target[There[i]])
BY HeadFacts DEF InOrder

LEMMA Recorded ==
  ASSUME pc \in {"place", "mount"}, Record
  PROVE  /\ There' = Append(There, Head(todo)) /\ Coming' = {} /\ todo' = Tail(todo)
         /\ Coming = {Target[Head(todo)]}
BY DEF Record, There, Coming
-----------------------------------------------------------------------------
\* A part is placed by a change of one tree, or by a mount.
LEMMA PlacedSeen ==
  ASSUME IInv, Seen, pc \in {"place", "mount"}, todo # <<>>, NEW h, h = Head(todo),
         \/ Record
         \/ pc' = "remount" /\ UNCHANGED <<todo, emplaced>>,
         \A i \in DOMAIN todo : host'[todo[i]] = host[todo[i]],
         \A q \in Paths : ~IsPrefix(Target[h], q) => SameView(q),
         \A q \in Paths : IsPrefix(Target[h], q) =>
                            Has(q)' = (Below(Target[h], q) \in DOMAIN Source[h]),
         \A q \in Paths : IsPrefix(Target[h], q) /\ Has(q)' =>
           /\ Node(q)'.data \in Seq(Blocks) /\ Shows(Node(q)', Source[h][Below(Target[h], q)])
           /\ Source[h][Below(Target[h], q)] = Dir => Node(q)' = Dir
  PROVE  Seen'
<1>1. Stack /\ InOrder /\ Untouched /\ Connected /\ Founded /\ Visible
  BY DEF IInv, Seen, Placing
<1>2. /\ There' = Append(There, h) /\ Coming = {Target[h]} /\ Coming' = {}
      /\ todo' = todo \/ todo' = Tail(todo)
  <2>1. CASE Record
    BY <2>1, Recorded
  <2>2. CASE pc' = "remount" /\ UNCHANGED <<todo, emplaced>>
    BY <2>2 DEF There, Coming
  <2>3. QED  BY <2>1, <2>2
<1>3. InOrder'
  BY <1>1, <1>2, OrderKept
<1>4. Untouched'
  BY <1>1, <1>2, UntouchedKept
<1>5. h \in Parts /\ \A i \in DOMAIN There : ~Above(Target[h], Target[There[i]])
  BY <1>1, HeadFacts, HeadNotAbove
<1>6. \A r \in Parents(Target[h]) : IsDir(r)
  BY <1>1, <1>2 DEF Founded
<1>7. Connected' /\ Founded' /\ Visible'
  <2> PICK t : t = Target[h]
    OBVIOUS
  <2>1. Coming \subseteq {t}
    BY <1>2
  <2>2. QED  BY <1>1, <1>2, <1>5, <1>6, <2>1, PutThere
<1>8. QED  BY <1>3, <1>4, <1>7 DEF Seen

\* Something is made where there was nothing on the way to the next part.
LEMMA RoomSeen ==
  ASSUME IInv, Seen, pc \in {"assemble", "place"}, pc' \in {"place", "mount"}, todo # <<>>,
         UNCHANGED <<todo, emplaced>>, NEW t, t = Target[Head(todo)],
         \A i \in DOMAIN todo : host'[todo[i]] = host[todo[i]],
         NEW R \in SUBSET Paths, \A q \in R : IsPrefix(q, t) /\ ~Has(q),
         \A q \in R : Has(q)' /\ Node(q)'.data \in Seq(Blocks),
         \A q \in R : \A r \in Parents(q) : IsDir(r)',
         \A r \in Parents(t) : IsDir(r)',
         \A q \in Paths \ R : SameView(q)
  PROVE  Seen'
<1>1. Stack /\ InOrder /\ Untouched /\ Connected /\ Founded /\ Visible
  BY DEF IInv, Seen, Placing
<1>2. There' = There /\ Coming \subseteq {t} /\ Coming' = {t}
  BY DEF There, Coming
<1>3. InOrder' /\ Untouched'
  BY <1>1, <1>2, OrderKept, UntouchedKept
<1>4. t \in Paths
  BY <1>1, HeadFacts
<1>5. Connected' /\ Founded' /\ Visible'
  BY <1>1, <1>2, <1>4, MadeRoom
<1>6. QED  BY <1>3, <1>5 DEF Seen
-----------------------------------------------------------------------------
\* A sequence begins a longer one.
LEMMA DataBegins ==
  ASSUME NEW S, NEW d \in Seq(S), NEW e \in Seq(S)
  PROVE  d \o e \in Seq(S) /\ IsPrefix(d, d \o e) /\ IsPrefix(d, d)
<1>1. Len(d) \in Nat /\ Len(e) \in Nat /\ SubSeq(d, 1, Len(d)) = d
  BY LenProperties, SubSeqFull
<1> PICK s : s = d \o e
  OBVIOUS
<1>2. /\ s \in Seq(S) /\ Len(s) = Len(d) + Len(e)
      /\ \A i \in 1 .. Len(d) : s[i] = d[i]
  BY ConcatProperties
<1>3. Len(d) <= Len(s)
  BY <1>1, <1>2
<1>4. SubSeq(s, 1, Len(d)) = d
  <2>1. \A i \in 1 .. Len(d) : s[i] \in S
    BY <1>1, <1>2, ElementOfSeq
  <2>2. /\ SubSeq(s, 1, Len(d)) \in Seq(S)
        /\ Len(SubSeq(s, 1, Len(d))) = IF 1 <= Len(d) THEN Len(d) - 1 + 1 ELSE 0
        /\ \A i \in 1 .. Len(d) - 1 + 1 : SubSeq(s, 1, Len(d))[i] = s[1 + i - 1]
    BY <1>1, <1>2, <2>1, SubSeqProperties
  <2>3. /\ Len(SubSeq(s, 1, Len(d))) = Len(d)
        /\ \A i \in 1 .. Len(d) : SubSeq(s, 1, Len(d))[i] = d[i]
    BY <1>1, <1>2, <2>2
  <2>4. QED  BY <2>2, <2>3, SeqEqual
<1>5. QED  BY <1>1, <1>2, <1>3, <1>4 DEF IsPrefix

\* What a source holds shows itself.
LEMMA SourceShows ==
  ASSUME NEW h \in Parts, NEW r \in DOMAIN Source[h]
  PROVE  Source[h][r].data \in Seq(Blocks) /\ Shows(Source[h][r], Source[h][r])
<1>1. Source[h][r].data \in Seq(Blocks)
  BY SourceAssumption
<1>2. IsPrefix(Source[h][r].data, Source[h][r].data)
  BY <1>1, DataBegins
<1>3. QED  BY <1>1, <1>2 DEF Shows

\* A mount shows what is at its source.
LEMMA MountSeen ==
  ASSUME IInv, Seen, pc = "mount", NEW h, h = Head(todo), NEW cow \in BOOLEAN,
         mounts' = Append(mounts, Mounted(h, cow)), UNCHANGED <<root, host, mountable>>,
         \/ upper' = upper /\ ~cow
         \/ upper' = [upper EXCEPT ![h] = host[h]],
         Style(h) = IF cow THEN "overlay" ELSE "bind",
         \/ Record
         \/ pc' = "remount" /\ UNCHANGED <<todo, emplaced>>
  PROVE  Seen'
<1>1. Stack /\ Content /\ Untouched /\ todo # <<>> /\ pc \in Working
  BY DEF IInv, Seen, Placing, Stack, Basic, Working
<1>2. h \in Parts /\ h = todo[1] /\ 1 \in DOMAIN todo
  BY <1>1, HeadFacts
<1>3. \A k \in DOMAIN mounts : mounts[k].part # h
  BY <1>1, <1>2, MountsDiffer
<1>4. host[h] = Source[h]
  BY <1>1, <1>2 DEF Untouched
<1>5. ASSUME NEW q \in Paths
      PROVE  /\ IsPrefix(Target[h], q) =>
                  /\ Has(q)' = (Below(Target[h], q) \in DOMAIN Source[h])
                  /\ Node(q)' = Source[h][Below(Target[h], q)]
             /\ ~IsPrefix(Target[h], q) => SameView(q)
  BY <1>1, <1>2, <1>3, <1>4, MountView
<1>6. ASSUME NEW q \in Paths, IsPrefix(Target[h], q), Has(q)'
      PROVE  /\ Node(q)'.data \in Seq(Blocks) /\ Shows(Node(q)', Source[h][Below(Target[h], q)])
             /\ Source[h][Below(Target[h], q)] = Dir => Node(q)' = Dir
  <2>1. /\ Below(Target[h], q) \in DOMAIN Source[h]
        /\ Node(q)' = Source[h][Below(Target[h], q)]
    BY <1>5, <1>6
  <2>2. QED  BY <1>2, <2>1, SourceShows
<1>7. \A i \in DOMAIN todo : host'[todo[i]] = host[todo[i]]
  OBVIOUS
<1>8. pc \in {"place", "mount"}
  OBVIOUS
<1>9. QED  BY <1>1, <1>5, <1>6, <1>7, <1>8, PlacedSeen

LEMMA MountBindSeen ==
  ASSUME IInv, Seen, MountBind, UNCHANGED mountable
  PROVE  Seen'
<1> PICK h : h = Head(todo)
  OBVIOUS
<1>1. /\ pc = "mount" /\ Style(h) = "bind" /\ UNCHANGED <<root, upper, host, mountable>>
      /\ \/ /\ mounts' = Append(mounts, Mounted(h, FALSE))
            /\ Record \/ (pc' = "remount" /\ UNCHANGED <<todo, emplaced>>)
         \/ Fault("mount")
  BY DEF MountBind, NoChange
<1>2. CASE /\ mounts' = Append(mounts, Mounted(h, FALSE))
           /\ Record \/ (pc' = "remount" /\ UNCHANGED <<todo, emplaced>>)
  <2>1. FALSE \in BOOLEAN /\ Style(h) = (IF FALSE THEN "overlay" ELSE "bind")
    BY <1>1
  <2>2. \/ upper' = upper /\ ~FALSE
        \/ upper' = [upper EXCEPT ![h] = host[h]]
    BY <1>1
  <2>3. QED  BY <1>1, <1>2, <2>1, <2>2, MountSeen
<1>3. CASE Fault("mount")
  BY <1>3 DEF Fault, Seen, Placing
<1>4. QED  BY <1>1, <1>2, <1>3

LEMMA MountOverlaySeen ==
  ASSUME IInv, Seen, MountOverlay, UNCHANGED mountable
  PROVE  Seen'
<1> PICK h : h = Head(todo)
  OBVIOUS
<1>1. /\ pc = "mount" /\ Style(h) = "overlay" /\ UNCHANGED <<root, host, mountable>>
      /\ \/ /\ mounts' = Append(mounts, Mounted(h, TRUE))
            /\ upper' = [upper EXCEPT ![h] = host[h]] /\ Record
         \/ \E call \in {"props", "mount"} : Fault(call)
  BY DEF MountOverlay
<1>2. CASE /\ mounts' = Append(mounts, Mounted(h, TRUE))
           /\ upper' = [upper EXCEPT ![h] = host[h]] /\ Record
  <2>1. TRUE \in BOOLEAN /\ Style(h) = (IF TRUE THEN "overlay" ELSE "bind")
    BY <1>1
  <2>2. QED  BY <1>1, <1>2, <2>1, MountSeen
<1>3. CASE \E call \in {"props", "mount"} : Fault(call)
  BY <1>3 DEF Fault, Seen, Placing
<1>4. QED  BY <1>1, <1>2, <1>3

LEMMA RemountSeen ==
  ASSUME IInv, Seen, Remount, UNCHANGED mountable
  PROVE  Seen'
<1>1. /\ Stack /\ pc = "remount" /\ UNCHANGED <<root, upper, host, mountable>>
      /\ InOrder /\ Untouched /\ Connected /\ Founded /\ Visible /\ todo # <<>> /\ mounts # <<>>
  BY DEF IInv, Stack, Basic, Seen, Placing, Remount, NoChange
<1>2. CASE Fault("remount")
  BY <1>2 DEF Fault, Seen, Placing
<1>3. CASE mounts' = [mounts EXCEPT ![Len(mounts)].rw = FALSE] /\ Record
  <2>1. There' = There /\ Coming' = Coming /\ todo' = Tail(todo)
    BY <1>1, <1>3 DEF Record, There, Coming
  <2>2. InOrder' /\ Untouched'
    BY <1>1, <2>1, OrderKept, UntouchedKept
  <2>3. \A q : SameView(q)
    BY <1>1, <1>3, RemountView
  <2>4. \A q : IsDir(q) => IsDir(q)'
    BY <2>3, DirStays
  <2>5. Connected'
    BY <1>1, <2>3, <2>4 DEF Connected, SameView
  <2>6. Founded'
    BY <1>1, <2>1, <2>4 DEF Founded
  <2>7. \A i, q : Hidden(i, q)' = Hidden(i, q) /\ Point(q)' = Point(q)
    BY <2>1 DEF Hidden, Point
  <2>8. Visible'
    BY <1>1, <2>1, <2>3, <2>7 DEF Visible, SameView
  <2>9. QED  BY <2>2, <2>5, <2>6, <2>8 DEF Seen
<1>4. QED  BY <1>2, <1>3 DEF Remount
-----------------------------------------------------------------------------
LEMMA NothingSeen ==
  ASSUME UNCHANGED <<mounts, root, upper, host>>
  PROVE  \A q : SameView(q)
BY DEF SameView, Has, Node, Rel, Tree, Top, Covering

\* The deepest of some parents, which the code finds by going up.
LEMMA Deepest ==
  ASSUME NEW t \in Paths, NEW M, M \subseteq Parents(t), M # {}
  PROVE  \E q \in M : \A r \in M : Len(r) <= Len(q) /\ IsPrefix(r, q)
<1> DEFINE O == {ss \in Nat \X Nat : ss[1] < ss[2]}
           T == {Len(t) - Len(q) : q \in M}
<1>1. t \in Seq(Nat) /\ Len(t) \in Nat
  BY PathAssumption, LenProperties
<1>2. \A r \in M : r \in Paths /\ r \in Seq(Nat) /\ IsPrefix(r, t)
  BY HasParents
<1>3. \A r \in M : Len(r) \in Nat /\ Len(r) <= Len(t)
  BY <1>2, LenProperties DEF IsPrefix
<1>4. T \subseteq Nat /\ T # {}
  BY <1>1, <1>3
<1>5. IsWellFoundedOn(O, Nat)
  BY NatLessThanWellFounded DEF OpToRel
<1>6. PICK m \in T : \A n \in T : ~(<<n, m>> \in O)
  <2> HIDE DEF O, T
  <2>1. QED  BY <1>4, <1>5, WFMin
<1>7. PICK q \in M : m = Len(t) - Len(q)
  BY <1>6
<1>8. ASSUME NEW r \in M PROVE Len(r) <= Len(q) /\ IsPrefix(r, q)
  <2>1. Len(t) - Len(r) \in T /\ Len(t) - Len(r) \in Nat /\ m \in Nat
    BY <1>4, <1>6, <1>8
  <2>2. ~(Len(t) - Len(r) < m)
    BY <1>6, <2>1
  <2>3. Len(r) <= Len(q)
    BY <1>1, <1>3, <1>7, <2>1, <2>2
  <2>4. IsPrefix(r, q) \/ IsPrefix(q, r)
    BY <1>1, <1>2, PrefixOrder
  <2>5. IsPrefix(q, r) => IsPrefix(r, q)
    <3>1. ASSUME IsPrefix(q, r) PROVE Starts(r, q)
      <4>1. Starts(q, r)
        BY <1>2, <3>1, PrefixStarts
      <4>2. Len(q) = Len(r)
        BY <1>3, <2>3, <4>1 DEF Starts
      <4>3. QED  BY <4>1, <4>2 DEF Starts
    <3>2. QED  BY <1>2, <3>1, PrefixStarts
  <2>6. QED  BY <2>3, <2>4, <2>5
<1> HIDE DEF O, T
<1>9. QED  BY <1>8

\* What is missing on the way to the next part is all missing from one tree: what
\* is mounted already has its place in a directory that is seen.
LEMMA MissingTogether ==
  ASSUME Stack, Founded, pc \in Working, NEW t \in Paths, NEW q \in Parents(t),
         NEW r \in Parents(t), IsPrefix(r, q), ~Has(r)
  PROVE  Top(r) = Top(q)
<1>1. Basic
  BY DEF Stack
<1>2. /\ r \in Paths /\ r \in Seq(Nat) /\ q \in Seq(Nat) /\ t \in Seq(Nat)
      /\ IsPrefix(r, t) /\ IsPrefix(q, t)
  BY HasParents
<1>3. ASSUME NEW k \in DOMAIN mounts, IsPrefix(mounts[k].at, r) PROVE IsPrefix(mounts[k].at, q)
  <2>1. mounts[k].at \in Seq(Nat)
    BY <1>1, MountFacts, PathAssumption
  <2>2. QED  BY <1>2, <1>3, <2>1, PrefixOrder
<1>4. ASSUME NEW k \in DOMAIN mounts, IsPrefix(mounts[k].at, q) PROVE IsPrefix(mounts[k].at, r)
  <2>1. /\ mounts[k].at \in Seq(Nat) /\ mounts[k].at = Target[mounts[k].part]
        /\ mounts[k].at \in Paths
    BY <1>1, MountFacts, PathAssumption
  <2>2. IsPrefix(mounts[k].at, r) \/ IsPrefix(r, mounts[k].at)
    BY <1>2, <1>4, <2>1, PrefixOrder
  <2>3. SUFFICES ASSUME Above(r, mounts[k].at) PROVE FALSE
    BY <1>2, <2>1, <2>2, PrefixOrder DEF Above
  <2>4. PICK i \in DOMAIN emplaced : emplaced[i] = mounts[k].part
    BY MountsDiffer
  <2>5. r \in Parents(Target[emplaced[i]])
    BY <1>2, <2>1, <2>3, <2>4, ParentsAbove
  <2>6. There = emplaced
    BY DEF There, Working
  <2>7. IsDir(r)
    BY <2>5, <2>6 DEF Founded
  <2>8. QED  BY <2>7 DEF IsDir
<1>5. Covering(r) = Covering(q)
  BY <1>3, <1>4 DEF Covering
<1>6. QED  BY <1>5 DEF Top

LEMMA MakeParentsSeen ==
  ASSUME IInv, Seen, MakeParents, UNCHANGED mountable
  PROVE  Seen'
<1> DEFINE missing(t) == {q \in Parents(t) : ~Has(q)}
           deep(t) == CHOOSE q \in missing(t) : \A r \in missing(t) : Len(r) <= Len(q)
<1> PICK t : t = Target[Head(todo)]
  OBVIOUS
<1> PICK M, d : M = missing(t) /\ d = deep(t)
  OBVIOUS
<1>0. /\ Stack /\ Content /\ pc = "assemble" /\ pc \in Working /\ todo # <<>> /\ Founded
      /\ UNCHANGED <<todo, emplaced, mounts, mountable>>
  BY DEF IInv, Seen, Placing, MakeParents, Working
<1>1. t \in Paths
  BY <1>0, HeadFacts
<1>2. \/ M = {} /\ (\A q \in Parents(t) : IsDir(q)) /\ pc' = "place" /\ NoChange
      \/ /\ M # {} /\ (\A q \in Parents(t) \ M : IsDir(q)) /\ pc' = "place"
         /\ Change(d, Onto([q \in {Rel(r) : r \in M} |-> Dir], Tree(Top(d))))
      \/ Panic
  BY DEF MakeParents
<1>3. CASE M = {} /\ (\A q \in Parents(t) : IsDir(q)) /\ pc' = "place" /\ NoChange
  <2>1. \A q : SameView(q)
    BY <1>0, <1>3, NothingSeen DEF NoChange
  <2>2. \A r \in Parents(t) : IsDir(r)'
    BY <1>3, <2>1, DirStays
  <2>3. \A i \in DOMAIN todo : host'[todo[i]] = host[todo[i]]
    BY <1>3 DEF NoChange
  <2>4. {} \in SUBSET Paths
    OBVIOUS
  <2>5. QED  BY <1>0, <1>3, <2>1, <2>2, <2>3, <2>4, RoomSeen
<1>4. CASE /\ M # {} /\ (\A q \in Parents(t) \ M : IsDir(q)) /\ pc' = "place"
           /\ Change(d, Onto([q \in {Rel(r) : r \in M} |-> Dir], Tree(Top(d))))
  <2>1. M \subseteq Parents(t) /\ M \subseteq Paths /\ \A r \in M : ~Has(r)
    BY <1>1, HasParents
  <2>2. d \in M /\ \A r \in M : Len(r) <= Len(d)
    BY <1>1, <1>4, <2>1, Deepest
  <2>3. \A r \in M : IsPrefix(r, d)
    <3>1. PICK q \in M : \A r \in M : Len(r) <= Len(q) /\ IsPrefix(r, q)
      BY <1>1, <1>4, <2>1, Deepest
    <3>2. q \in Seq(Nat) /\ d \in Seq(Nat) /\ Len(q) \in Nat /\ Len(d) \in Nat
      BY <2>1, <2>2, PathAssumption, LenProperties
    <3>3. Len(q) = Len(d) /\ IsPrefix(d, q)
      BY <2>2, <3>1, <3>2
    <3>4. Starts(d, q)
      BY <3>2, <3>3, PrefixStarts
    <3>5. d = q
      BY <3>2, <3>3, <3>4, SeqEqual DEF Starts
    <3>6. QED  BY <3>1, <3>5
  <2>4. d \in Paths /\ \A r \in M : Top(r) = Top(d)
    BY <1>0, <1>1, <2>1, <2>2, <2>3, MissingTogether
  <2>5. M \in SUBSET Paths
    BY <2>1
  <2>6. ASSUME NEW q \in Paths
        PROVE  /\ q \in M => Has(q)' /\ Node(q)' = Dir
               /\ q \notin M => SameView(q)
    BY <1>0, <1>4, <2>4, <2>5, LaidView
  <2>7. \A r \in Parents(t) : IsDir(r)'
    <3>1. ASSUME NEW r \in Parents(t) PROVE IsDir(r)'
      <4>1. r \in Paths
        BY <1>1, HasParents
      <4>2. CASE r \in M
        BY <2>6, <4>1, <4>2 DEF IsDir
      <4>3. CASE r \notin M
        BY <1>4, <2>6, <4>1, <4>3, DirStays
      <4>4. QED  BY <4>2, <4>3
    <3>2. QED  BY <3>1
  <2>8. ASSUME NEW q \in M, NEW r \in Parents(q) PROVE IsDir(r)'
    <3>1. /\ q \in Paths /\ q \in Seq(Nat) /\ t \in Seq(Nat) /\ IsPrefix(q, t)
          /\ r \in Seq(Nat) /\ IsPrefix(r, q) /\ r # q
      BY <1>1, <2>1, HasParents
    <3>2. Above(r, t)
      BY <3>1, PrefixOrder DEF Above
    <3>3. QED  BY <1>1, <2>7, <3>1, <3>2, ParentsAbove
  <2>9. <<>> \in Seq(Blocks) /\ Dir.data = <<>>
    BY DEF Dir
  <2>10. /\ \A q \in M : IsPrefix(q, t) /\ ~Has(q)
         /\ \A q \in M : Has(q)' /\ Node(q)'.data \in Seq(Blocks)
         /\ \A q \in Paths \ M : SameView(q)
    BY <1>1, <2>1, <2>6, <2>9, HasParents
  <2>11. \A i \in DOMAIN todo : host'[todo[i]] = host[todo[i]]
    BY <1>0, <1>4, OthersUntouched
  <2>12. QED  BY <1>0, <1>4, <2>5, <2>7, <2>8, <2>10, <2>11, RoomSeen
<1>5. CASE Panic
  BY <1>5 DEF Panic, Seen, Placing
<1>6. QED  BY <1>2, <1>3, <1>4, <1>5

\* One node put at a path.
LEMMA PutView ==
  ASSUME Stack, Content, pc \in Working, NEW t \in Paths, UNCHANGED <<mounts, mountable>>,
         NEW node, Change(t, Put(Tree(Top(t)), Rel(t), node))
  PROVE  /\ Has(t)' /\ Node(t)' = node
         /\ \A q \in Paths : q # t => SameView(q)
<1> PICK R : R = {t}
  OBVIOUS
<1>1. R \in SUBSET Paths /\ \A r \in R : Top(r) = Top(t)
  OBVIOUS
<1>2. {Rel(t)} = {Rel(r) : r \in R}
  OBVIOUS
<1>3. Change(t, Onto([x \in {Rel(r) : r \in R} |-> node], Tree(Top(t))))
  <2>1. Put(Tree(Top(t)), Rel(t), node) = Onto([x \in {Rel(r) : r \in R} |-> node], Tree(Top(t)))
    BY <1>2 DEF Put
  <2>2. QED  BY <2>1
<1>4. ASSUME NEW q \in Paths
      PROVE  /\ q \in R => Has(q)' /\ Node(q)' = node
             /\ q \notin R => SameView(q)
  BY <1>1, <1>3, LaidView
<1>5. QED  BY <1>4

LEMMA MakeDestSeen ==
  ASSUME IInv, Seen, MakeDest, UNCHANGED mountable
  PROVE  Seen'
<1> PICK t, node : /\ t = Target[Head(todo)]
                   /\ node = IF Source[Head(todo)][<<>>] = Dir THEN Dir ELSE File(<<>>)
  OBVIOUS
<1>0. /\ Stack /\ Content /\ pc = "place" /\ pc \in Working /\ todo # <<>> /\ Founded
      /\ UNCHANGED <<todo, emplaced, mounts, mountable>>
  BY DEF IInv, Seen, Placing, Stack, Basic, MakeDest, Working
<1>1. t \in Paths /\ t \in Seq(Nat) /\ IsPrefix(t, t)
  BY <1>0, HeadFacts, PathAssumption, PrefixOrder
<1>2. \/ pc' = "mount" /\ NoChange
      \/ ~Has(t) /\ pc' = "mount" /\ Change(t, Put(Tree(Top(t)), Rel(t), node))
      \/ Panic
  BY DEF MakeDest
<1>3. \A r \in Parents(t) : IsDir(r) /\ r \in Paths /\ r # t
  BY <1>0, <1>1, HasParents DEF Founded, Coming
<1>4. CASE pc' = "mount" /\ NoChange
  <2>1. \A q : SameView(q)
    BY <1>0, <1>4, NothingSeen DEF NoChange
  <2>2. \A r \in Parents(t) : IsDir(r)'
    BY <1>3, <2>1, DirStays
  <2>3. \A i \in DOMAIN todo : host'[todo[i]] = host[todo[i]]
    BY <1>4 DEF NoChange
  <2>4. {} \in SUBSET Paths
    OBVIOUS
  <2>5. QED  BY <1>0, <1>4, <2>1, <2>2, <2>3, <2>4, RoomSeen
<1>5. CASE ~Has(t) /\ pc' = "mount" /\ Change(t, Put(Tree(Top(t)), Rel(t), node))
  <2>1. Has(t)' /\ Node(t)' = node /\ \A q \in Paths : q # t => SameView(q)
    BY <1>0, <1>1, <1>5, PutView
  <2>2. node.data \in Seq(Blocks)
    BY DEF Dir, File
  <2>3. \A r \in Parents(t) : IsDir(r)'
    BY <1>3, <2>1, DirStays
  <2>4. \A i \in DOMAIN todo : host'[todo[i]] = host[todo[i]]
    BY <1>0, <1>5, OthersUntouched
  <2> PICK R : R = {t}
    OBVIOUS
  <2>5. /\ R \in SUBSET Paths /\ \A q \in R : IsPrefix(q, t) /\ ~Has(q)
        /\ \A q \in R : Has(q)' /\ Node(q)'.data \in Seq(Blocks)
        /\ \A q \in R : \A r \in Parents(q) : IsDir(r)'
        /\ \A q \in Paths \ R : SameView(q)
    BY <1>1, <1>5, <2>1, <2>2, <2>3
  <2>6. QED  BY <1>0, <1>5, <2>3, <2>4, <2>5, RoomSeen
<1>6. CASE Panic
  BY <1>6 DEF Panic, Seen, Placing
<1>7. QED  BY <1>2, <1>4, <1>5, <1>6
-----------------------------------------------------------------------------
LEMMA SuffixIsData ==
  ASSUME NEW d \in Seq(Blocks), NEW m \in Nat
  PROVE  SubSeq(d, m + 1, Len(d)) \in Seq(Blocks)
<1>1. Len(d) \in Nat /\ \A i \in m + 1 .. Len(d) : d[i] \in Blocks
  <2>1. Len(d) \in Nat
    BY LenProperties
  <2>2. \A i \in m + 1 .. Len(d) : i \in 1 .. Len(d)
    BY <2>1
  <2>3. QED  BY <2>1, <2>2, ElementOfSeq
<1>2. m + 1 \in Int /\ Len(d) \in Int
  BY <1>1
<1>3. QED  BY <1>1, <1>2, SubSeqProperties

LEMMA BelowTop ==
  ASSUME NEW t \in Seq(Nat)
  PROVE  Below(t, t) = <<>>
<1>1. <<>> \in Seq(Nat) /\ t \o <<>> = t
  <2>1. <<>> \in Seq(Nat)
    OBVIOUS
  <2>2. QED  BY <2>1, ConcatEmptySeq
<1>2. Below(t, t \o <<>>) = <<>>
  BY <1>1, BelowItself
<1>3. QED  BY <1>1, <1>2

LEMMA FileFacts ==
  ASSUME NEW d
  PROVE  File(d).data = d /\ File(d).type = "file"
BY DEF File

LEMMA PlaceCopyFileSeen ==
  ASSUME IInv, Seen, PlaceCopyFile, UNCHANGED mountable
  PROVE  Seen'
<1> PICK h, t : h = Head(todo) /\ t = Target[Head(todo)]
  OBVIOUS
<1> PICK new, node : /\ new = Source[Head(todo)][<<>>]
                     /\ node = IF Has(t) THEN Overwrite(Node(t), new) ELSE new
  OBVIOUS
<1>0. /\ Stack /\ Content /\ pc = "place" /\ pc \in Working /\ todo # <<>> /\ Connected
      /\ UNCHANGED <<mounts, mountable>> /\ new.type = "file"
  BY DEF IInv, Seen, Placing, Stack, Basic, PlaceCopyFile, Working
<1>1. h \in Parts /\ t \in Paths /\ t \in Seq(Nat) /\ IsPrefix(t, t) /\ t = Target[h]
  BY <1>0, HeadFacts, PathAssumption, PrefixOrder
<1>2. \/ ~IsDir(t) /\ Record /\ Change(t, Put(Tree(Top(t)), Rel(t), node))
      \/ Panic
  BY DEF PlaceCopyFile
<1>3. CASE ~IsDir(t) /\ Record /\ Change(t, Put(Tree(Top(t)), Rel(t), node))
  <2>1. Has(t)' /\ Node(t)' = node /\ \A q \in Paths : q # t => SameView(q)
    BY <1>0, <1>1, <1>3, PutView
  <2>2. /\ <<>> \in DOMAIN Source[h] /\ new = Source[h][<<>>] /\ Below(t, t) = <<>>
        /\ new.data \in Seq(Blocks) /\ Shows(new, new) /\ new # Dir
    <3>1. <<>> \in DOMAIN Source[h] /\ new = Source[h][<<>>]
      BY <1>1, SourceAssumption
    <3>2. new # Dir
      BY <1>0 DEF Dir
    <3>3. QED  BY <1>1, <3>1, <3>2, BelowTop, SourceShows
  <2>3. node.data \in Seq(Blocks) /\ Shows(node, new)
    <3>1. CASE Has(t)
      <4> PICK s : s = SubSeq(Node(t).data, Len(new.data) + 1, Len(Node(t).data))
        OBVIOUS
      <4>1. Node(t).data \in Seq(Blocks)
        BY <1>0, <1>1, <3>1 DEF Connected
      <4>2. Len(new.data) \in Nat
        BY <2>2, LenProperties
      <4>3. s \in Seq(Blocks)
        BY <4>1, <4>2, SuffixIsData
      <4>4. new.data \o s \in Seq(Blocks) /\ IsPrefix(new.data, new.data \o s)
        BY <2>2, <4>3, DataBegins
      <4> PICK d : d = new.data \o s
        OBVIOUS
      <4>5. node = File(d)
        BY <3>1 DEF Overwrite
      <4>6. node.data = d /\ node.type = "file"
        BY <4>5, FileFacts
      <4>7. QED  BY <1>0, <4>4, <4>6 DEF Shows
    <3>2. CASE ~Has(t)
      BY <2>2, <3>2
    <3>3. QED  BY <3>1, <3>2
  <2>4. ASSUME NEW q \in Paths, IsPrefix(t, q), q # t
        PROVE  ~Has(q)' /\ Below(t, q) \notin DOMAIN Source[h]
    <3>1. Above(t, q) /\ t \in Parents(q)
      BY <1>1, <2>4, ParentsAbove DEF Above
    <3>2. ~Has(q)
      BY <1>0, <1>3, <3>1 DEF Connected
    <3>3. <<>> \in Parents(Below(t, q))
      BY <1>1, <2>2, <3>1, BelowAbove
    <3>4. Below(t, q) \notin DOMAIN Source[h]
      BY <1>1, <2>2, <3>3, SourceAssumption
    <3>5. QED  BY <2>1, <2>4, <3>2, <3>4 DEF SameView
  <2>5. \A q \in Paths : ~IsPrefix(t, q) => SameView(q)
    BY <1>1, <2>1
  <2>6. \A q \in Paths : IsPrefix(t, q) => Has(q)' = (Below(t, q) \in DOMAIN Source[h])
    <3>1. Has(t)' = (Below(t, t) \in DOMAIN Source[h])
      BY <2>1, <2>2 DEF Has
    <3>2. ASSUME NEW q \in Paths, IsPrefix(t, q), q # t
          PROVE  Has(q)' = (Below(t, q) \in DOMAIN Source[h])
      BY <2>4, <3>2 DEF Has
    <3>3. QED  BY <3>1, <3>2
  <2>7. ASSUME NEW q \in Paths, IsPrefix(t, q), Has(q)'
        PROVE  /\ Node(q)'.data \in Seq(Blocks) /\ Shows(Node(q)', Source[h][Below(t, q)])
               /\ Source[h][Below(t, q)] = Dir => Node(q)' = Dir
    <3>1. q = t
      BY <2>4, <2>7
    <3>2. QED  BY <2>1, <2>2, <2>3, <3>1
  <2>8. \A i \in DOMAIN todo : host'[todo[i]] = host[todo[i]]
    BY <1>0, <1>3, OthersUntouched
  <2>9. pc \in {"place", "mount"} /\ h = Head(todo) /\ Target[h] = t
    BY <1>0, <1>1
  <2>10. QED  BY <1>0, <1>3, <2>5, <2>6, <2>7, <2>8, <2>9, PlacedSeen
<1>4. CASE Panic
  BY <1>4 DEF Panic, Seen, Placing
<1>5. QED  BY <1>2, <1>3, <1>4

LEMMA ViewIsSame ==
  ASSUME NEW q, Has(q)' <=> Has(q), Has(q) => Node(q)' = Node(q)
  PROVE  SameView(q)
<1>1. Has(q)' \in BOOLEAN /\ Has(q) \in BOOLEAN
  BY DEF Has
<1>2. QED  BY <1>1 DEF SameView

LEMMA HasAs ==
  ASSUME NEW q, NEW x, NEW S, Has(q)' <=> x \in S
  PROVE  Has(q)' = (x \in S)
<1>1. Has(q)' \in BOOLEAN
  BY DEF Has
<1>2. QED  BY <1>1

LEMMA PlaceCopyDirSeen ==
  ASSUME IInv, Seen, PlaceCopyDir, UNCHANGED mountable
  PROVE  Seen'
<1> PICK h, t : h = Head(todo) /\ t = Target[Head(todo)]
  OBVIOUS
<1> PICK at, kept, copy : /\ at = {t \o r : r \in DOMAIN Source[h]} /\ kept = Drop(root, t)
                          /\ copy = Onto([q \in at |-> Source[h][Below(t, q)]], kept)
  OBVIOUS
<1>0. /\ Stack /\ Content /\ Basic /\ pc = "place" /\ pc \in Working /\ todo # <<>>
      /\ UNCHANGED <<mounts, mountable>> /\ Style(h) = "copy" /\ ~BareMount[h]
      /\ Source[h][<<>>] = Dir
  BY DEF IInv, Seen, Placing, Stack, Basic, PlaceCopyDir, Working
<1>1. h \in Parts /\ t \in Paths /\ t \in Seq(Nat) /\ t = Target[h]
  BY <1>0, HeadFacts, PathAssumption
<1>2. (Record /\ Change(t, copy)) \/ Panic
  BY DEF PlaceCopyDir
<1>3. \A q : Top(q) = 0 /\ Rel(q) = q /\ Tree(Top(q)) = root
  <2>1. ~mountable
    <3>1. Source[h][<<>>].type = "dir"
      BY <1>0 DEF Dir
    <3>2. QED  BY <1>0, <3>1 DEF Style
  <2>2. DOMAIN mounts = {}
    BY <1>0, <2>1 DEF Basic, MountsOK, Style
  <2>3. \A q : Top(q) = 0
    BY <2>2 DEF Covering, Top
  <2>4. QED  BY <2>3 DEF Rel, Tree
<1>4. CASE Record /\ Change(t, copy)
  <2>1. ASSUME NEW q
        PROVE  (Has(q)' <=> q \in DOMAIN copy) /\ Node(q)' = copy[q]
    <3>1. copy = IF Top(q) = Top(t) THEN copy ELSE Tree(Top(q))
      BY <1>3
    <3>2. Has(q)' = (Rel(q) \in DOMAIN copy) /\ Node(q)' = copy[Rel(q)]
      BY <1>0, <1>4, <3>1, ChangeView
    <3>3. QED  BY <1>3, <3>2
  <2>2. /\ \A q : q \in DOMAIN copy <=> q \in at \/ (q \in DOMAIN root /\ ~IsPrefix(t, q))
        /\ \A q \in at : copy[q] = Source[h][Below(t, q)]
        /\ \A q \in DOMAIN copy : q \notin at => copy[q] = root[q]
    BY DEF Onto, Drop
  <2>3. ASSUME NEW r \in DOMAIN Source[h]
        PROVE  IsPrefix(t, t \o r) /\ Below(t, t \o r) = r
    <3>1. r \in Seq(Nat)
      BY <1>1, PathAssumption, SourceAssumption DEF IsTree
    <3>2. QED  BY <1>1, <3>1, DataBegins, BelowItself
  <2>4. ASSUME NEW q \in Paths, ~IsPrefix(t, q) PROVE SameView(q)
    <3>1. q \notin at
      BY <2>3, <2>4
    <3>2. (q \in DOMAIN copy <=> q \in DOMAIN root) /\ (q \in DOMAIN copy => copy[q] = root[q])
      BY <2>2, <2>4, <3>1
    <3>3. (Has(q) <=> q \in DOMAIN root) /\ Node(q) = root[q]
      BY <1>3 DEF Has, Node
    <3>4. QED  BY <2>1, <3>2, <3>3, ViewIsSame
  <2>5. ASSUME NEW q \in Paths, IsPrefix(t, q)
        PROVE  q \in at <=> Below(t, q) \in DOMAIN Source[h]
    <3>1. t \o Below(t, q) = q
      BY <1>1, <2>5, BelowFacts
    <3>2. QED  BY <2>3, <3>1
  <2>6. \A q \in Paths : IsPrefix(t, q) => Has(q)' = (Below(t, q) \in DOMAIN Source[h])
    <3>1. ASSUME NEW q \in Paths, IsPrefix(t, q)
          PROVE  q \in DOMAIN copy <=> Below(t, q) \in DOMAIN Source[h]
      BY <2>2, <2>5, <3>1
    <3>2. ASSUME NEW q \in Paths, IsPrefix(t, q)
          PROVE  Has(q)' = (Below(t, q) \in DOMAIN Source[h])
      <4>1. Has(q)' <=> Below(t, q) \in DOMAIN Source[h]
        BY <2>1, <3>1, <3>2
      <4>2. QED  BY <4>1, HasAs
    <3>3. QED  BY <3>2
  <2>7. ASSUME NEW q \in Paths, IsPrefix(t, q), Has(q)'
        PROVE  /\ Node(q)'.data \in Seq(Blocks) /\ Shows(Node(q)', Source[h][Below(t, q)])
               /\ Source[h][Below(t, q)] = Dir => Node(q)' = Dir
    <3>1. Below(t, q) \in DOMAIN Source[h] /\ q \in at
      BY <2>5, <2>6, <2>7
    <3>2. Node(q)' = Source[h][Below(t, q)]
      BY <2>1, <2>2, <3>1
    <3>3. /\ Source[h][Below(t, q)].data \in Seq(Blocks)
          /\ Shows(Source[h][Below(t, q)], Source[h][Below(t, q)])
      BY <1>1, <3>1, SourceShows
    <3>4. Node(q)'.data \in Seq(Blocks) /\ Shows(Node(q)', Source[h][Below(t, q)])
      BY <3>2, <3>3
    <3>5. QED  BY <3>2, <3>4
  <2>8. \A i \in DOMAIN todo : host'[todo[i]] = host[todo[i]]
    BY <1>0, <1>4, OthersUntouched
  <2>9. pc \in {"place", "mount"} /\ h = Head(todo) /\ Target[h] = t
    BY <1>0, <1>1
  <2>10. QED  BY <1>0, <1>4, <2>4, <2>6, <2>7, <2>8, <2>9, PlacedSeen
<1>5. CASE Panic
  BY <1>5 DEF Panic, Seen, Placing
<1>6. QED  BY <1>2, <1>4, <1>5
-----------------------------------------------------------------------------
LEMMA InitSeen == Init => Seen
<1> SUFFICES ASSUME Init PROVE Seen
  OBVIOUS
<1>1. /\ pc = "assemble" /\ emplaced = <<>> /\ mounts = <<>> /\ root = Empty
      /\ host = [p \in Parts |-> Source[p]] /\ Sorted(todo)
  BY DEF Init
<1>2. todo \in Seq(Parts)
  BY OrderFacts DEF Init
<1>3. There = <<>> /\ DOMAIN There = {} /\ Coming = {}
  BY <1>1 DEF There, Coming
<1>4. \A q : ~Has(q)
  BY <1>1 DEF Has, Rel, Tree, Top, Covering, Empty
<1>5. InOrder
  BY <1>1, <1>3 DEF InOrder, Sorted, Less, Above
<1>6. Untouched
  <2>1. ASSUME NEW i \in DOMAIN todo PROVE todo[i] \in Parts
    BY <1>2, LenProperties, ElementOfSeq
  <2>2. QED  BY <1>1, <2>1 DEF Untouched
<1>7. QED  BY <1>3, <1>4, <1>5, <1>6 DEF Seen, Connected, Founded, Visible

LEMMA NextSeen == IInv /\ Seen /\ [Next]_vars => Seen'
<1> SUFFICES ASSUME IInv, Seen, [Next]_vars PROVE Seen'
  OBVIOUS
<1>1. ASSUME MakeParents, UNCHANGED mountable PROVE Seen'
  BY <1>1, MakeParentsSeen
<1>2. ASSUME PlaceCopyFile, UNCHANGED mountable PROVE Seen'
  BY <1>2, PlaceCopyFileSeen
<1>3. ASSUME PlaceCopyDir, UNCHANGED mountable PROVE Seen'
  BY <1>3, PlaceCopyDirSeen
<1>4. ASSUME MakeDest, UNCHANGED mountable PROVE Seen'
  BY <1>4, MakeDestSeen
<1>5. ASSUME MountBind, UNCHANGED mountable PROVE Seen'
  BY <1>5, MountBindSeen
<1>6. ASSUME Remount, UNCHANGED mountable PROVE Seen'
  BY <1>6, RemountSeen
<1>7. ASSUME MountOverlay, UNCHANGED mountable PROVE Seen'
  BY <1>7, MountOverlaySeen
<1>8. ASSUME pc' \in {"run", "teardown", "remove", "done", "crashed"} PROVE Seen'
  BY <1>8 DEF Seen, Placing
<1>9. RefuseBareMount \/ RefuseSource => pc' = "remove"
  BY DEF RefuseBareMount, RefuseSource, Panic
<1>10. Assembled \/ JobEnds \/ TornDown \/ RemoveJobDir \/ Job
         => pc' \in {"run", "teardown", "remove", "done", "crashed"}
  BY DEF Assembled, JobEnds, TornDown, RemoveJobDir, Job, JobWrites, JobDeletes
<1>11. TeardownCopy \/ TeardownMount => pc' \in {"teardown", "remove"}
  BY DEF TeardownCopy, TeardownMount, Panic, Fault
<1>12. ASSUME UNCHANGED vars PROVE Seen'
  <2>1. \A q : SameView(q) /\ (IsDir(q) => IsDir(q)')
    BY <1>12, NothingSeen, DirStays DEF vars
  <2>2. There' = There /\ Coming' = Coming /\ Placing' = Placing
    BY <1>12 DEF There, Coming, Placing, vars
  <2>3. \A i, q : Hidden(i, q)' = Hidden(i, q) /\ Point(q)' = Point(q)
    BY <2>2 DEF Hidden, Point
  <2>4. CASE Placing
    <3>1. InOrder' /\ Untouched'
      BY <1>12, <2>2, <2>4 DEF Seen, InOrder, Untouched, vars
    <3>2. Connected' /\ Founded'
      BY <2>1, <2>2, <2>4 DEF Seen, Connected, Founded, SameView
    <3>3. Visible'
      BY <2>1, <2>2, <2>3, <2>4 DEF Seen, Visible, SameView
    <3>4. QED  BY <3>1, <3>2, <3>3 DEF Seen
  <2>5. CASE ~Placing
    BY <2>2, <2>5 DEF Seen
  <2>6. QED  BY <2>4, <2>5
<1>13. QED
  BY <1>1, <1>2, <1>3, <1>4, <1>5, <1>6, <1>7, <1>8, <1>9, <1>10, <1>11, <1>12
     DEF Next, Executor, Place, Ended

\* When the last part is in its place, and nothing is on the way to another.
LEMMA SeenIsShown ==
  ASSUME IInv, Seen, pc = "assemble"
  PROVE  PartsShow
<1>1. Visible /\ There = emplaced /\ Coming = {}
  BY DEF Seen, Placing, There, Coming
<1>2. /\ \A i, q : Hidden(i, q) = Covered(i, q)
      /\ \A q : Point(q) = MountPoint(q)
  BY <1>1 DEF Hidden, Covered, Point, MountPoint
<1>3. QED  BY <1>1, <1>2 DEF Visible, PartsShow

\* Whatever parts a job has, and whatever their targets: once they are all placed,
\* the job finds each of them where it was asked for, whole but for what a later
\* part covers, and nothing that is in no part (placer_tests.go:75, "overlapping
\* placements shows only top layer").
THEOREM JobSeesItsParts == Spec => JobSeesParts
<1>1. IInv /\ Seen /\ [Next]_vars => [pc = "assemble" /\ pc' = "run" => PartsShow]_vars
  BY SeenIsShown
<1>2. QED  BY <1>1, InitInv, NextInv, InitSeen, NextSeen, PTL DEF Spec, JobSeesParts
=============================================================================
