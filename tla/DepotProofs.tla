---------------------------- MODULE DepotProofs ----------------------------
(***************************************************************************)
(* Depot for any scans, wares and warehouses: what is filed under a hash   *)
(* is that ware, what is there is kept, and a scan that is done has saved  *)
(* what it hashed, for each of the four transmats.                         *)
(***************************************************************************)
EXTENDS Depot, SequenceTheorems, TLAPS

\* The variables of scans, by scan (TypeOK leaves their domains open).
Shape == /\ route \in [Scans -> Routes \cup {<<>>}]
         /\ at \in [Scans -> Nat]
         /\ ids \in [Scans -> Seq(Wares)]

\* A scan that has not begun, or has given up, has nothing.
Resting(c) == pc[c] \in {"idle", "failed"} =>
  route[c] = <<>> /\ at[c] = 1 /\ ids[c] = <<>> /\ stage[c] = NoStage

\* Where a scan is on its route, and which transmats get to which labels.
Located(c) == /\ pc[c] \in Busy => at[c] \in 1 .. Len(route[c])
              /\ pc[c] = "done" => at[c] = Len(route[c]) + 1
              /\ pc[c] \in {"swap", "clean"} => kind = "dir" /\ Here(c) \in Plain
              /\ pc[c] \in {"copy", "delete"} => Object /\ Here(c) \in CA
              /\ kind # "dir" /\ pc[c] = "save" => at[c] = 1
              /\ aside[c] # None => pc[c] \in {"swap", "clean"}

\* A hash for each walk over the tree: one walk for each warehouse, or one for all.
Hashed(c) ==
  IF kind = "dir"
  THEN Len(ids[c]) = IF pc[c] \in {"commit", "swap", "clean"} THEN at[c] ELSE at[c] - 1
  ELSE pc[c] \in {"commit", "copy", "delete"} \/ (pc[c] = "done" /\ route[c] # <<>>) =>
         Len(ids[c]) = 1

\* What is staged for the rest of the route is the ware that was hashed, except
\* where an error was dropped or, with s3 and gs, behind a writer that failed.
Afterwards(c) == kind = "dir" \/ pc[c] \notin {"open", "save"}
Staged(c) ==
  /\ kind = "dir" /\ pc[c] \in {"commit", "swap"} => stage[c][Here(c)] = Id(c)
  /\ kind = "tar" /\ pc[c] = "commit" => \A k \in at[c] .. Len(route[c]) :
       stage[c][route[c][k]] = Id(c) \/ Place(route[c][k], Id(c)) \in overlooked
  /\ Object /\ pc[c] \in {"commit", "copy", "delete"} => \A k \in at[c] .. Len(route[c]) :
       \/ stage[c][route[c][k]] = Id(c)
       \/ \E j \in at[c] .. k : stage[c][route[c][j]] = Broken
  /\ pc[c] \in {"copy", "delete"} => stage[c][Here(c)] = Id(c)

\* A plain warehouse of dir has a ware that nobody is about to remove.
Held(w) == \/ \E p \in Places : p[1] = w /\ shelf[p] \in Wares
           \/ w \in expired
           \/ \E c \in Scans : pc[c] = "swap" /\ aside[c] # None /\ Here(c) = w

\* What a scan did for the warehouses it is through with.
Stored(w, h) == \/ Place(w, h) \in overlooked
                \/ w \in CA /\ shelf[Place(w, h)] = h
                \/ w \in Plain /\ Stocked(w)
Saved(c) == /\ Afterwards(c) => \A k \in 1 .. at[c] - 1 : Stored(route[c][k], Hash(c, k))
            /\ pc[c] = "delete" => shelf[Target(c)] = Id(c)
            /\ pc[c] = "clean" => Held(Here(c))

ScanOK(c) == Resting(c) /\ Located(c) /\ Hashed(c) /\ Staged(c) /\ Saved(c)

Filed == \A w \in CA, h \in Wares : \/ shelf[Place(w, h)] \in {None, h}
                                    \/ kind = "tar" /\ Place(w, h) \in overlooked
Sound == kind # "tar" => \A p \in Places : shelf[p] \in Wares \cup {None}

IInv == TypeOK /\ Shape /\ Filed /\ Sound /\ \A c \in Scans : ScanOK(c)
-----------------------------------------------------------------------------
LEMMA RouteFacts ==
  ASSUME NEW r \in Routes \cup {<<>>}
  PROVE  /\ r \in Seq(Warehouses) /\ Len(r) \in Nat /\ DOMAIN r = 1 .. Len(r)
         /\ \A k \in 1 .. Len(r) : r[k] \in Warehouses /\ r[k] \in Range(r)
                                   /\ AntiFunction(r)[r[k]] = k
         /\ \A j, k \in 1 .. Len(r) : r[j] = r[k] => j = k
         /\ r \in Routes => Len(r) >= 1
<1>1. CASE r = <<>>
  BY <1>1, EmptySeq DEF Routes
<1>2. CASE r \in Routes
  <2>1. PICK n \in 1 .. 2 : r \in [1 .. n -> Warehouses]
    BY <1>2 DEF Routes
  <2>2. IsInjective(r)
    BY <1>2 DEF Routes
  <2>3. r \in Seq(Warehouses) /\ Len(r) = n /\ DOMAIN r = 1 .. n
    BY <2>1, SeqDef
  <2>4. \A j, k \in 1 .. n : r[j] = r[k] => j = k
    BY <2>2, <2>3 DEF IsInjective
  <2>5. \A k \in 1 .. n : r[k] \in Warehouses /\ r[k] \in Range(r)
    BY <2>1, <2>3 DEF Range
  <2>6. ASSUME NEW k \in 1 .. n PROVE AntiFunction(r)[r[k]] = k
    <3>1. AntiFunction(r)[r[k]] = CHOOSE i \in 1 .. n : r[k] \in Range(r) => r[i] = r[k]
      BY <2>3, <2>5 DEF AntiFunction, Inverse
    <3>2. \A i \in 1 .. n : (r[k] \in Range(r) => r[i] = r[k]) <=> i = k
      BY <2>4, <2>5
    <3>3. QED  BY <3>1, <3>2
  <2>7. QED  BY <2>3, <2>4, <2>5, <2>6
<1>3. QED  BY <1>1, <1>2

LEMMA PlaceFacts ==
  /\ \A w \in Warehouses, h \in Wares : Place(w, h) \in Places /\ Place(w, h)[1] = w
  /\ \A w \in Plain, h \in Wares : Place(w, h) = <<w, NoId>> /\ w \notin CA /\ w \in Warehouses
  /\ \A w \in CA, h \in Wares : Place(w, h) = <<w, h>> /\ w \notin Plain /\ w \in Warehouses
  /\ \A p \in Places : \E w \in Warehouses, h \in Wares : p = Place(w, h) /\ p[1] = w
BY WarehousesAssumption DEF Places, Place, Warehouses

\* Whoever is busy works on a warehouse of its route, and whoever has hashed
\* the tree has a place for it there.
LEMMA HereFacts ==
  ASSUME IInv, NEW c \in Scans, pc[c] \in Busy
  PROVE  /\ Here(c) \in Warehouses /\ Len(route[c]) \in Nat
         /\ at[c] \in 1 .. Len(route[c]) /\ route[c] # <<>>
<1>1. at[c] \in 1 .. Len(route[c]) /\ route[c] \in Routes \cup {<<>>}
  BY DEF IInv, ScanOK, Located, TypeOK
<1>2. QED  BY <1>1, RouteFacts, EmptySeq DEF Here

LEMMA IdFacts ==
  ASSUME IInv, NEW c \in Scans, pc[c] \in {"commit", "swap", "clean", "copy", "delete"}
  PROVE  /\ Id(c) \in Wares /\ Target(c) \in Places /\ Target(c) = Place(Here(c), Id(c))
         /\ Hash(c, at[c]) = Id(c) /\ Id(c) \notin {None, Broken, Short}
<1>1. pc[c] \in Busy
  BY DEF Busy
<1>2. Here(c) \in Warehouses /\ at[c] \in 1 .. Len(route[c]) /\ Len(route[c]) \in Nat
  BY <1>1, HereFacts
<1>3. Len(ids[c]) \in Nat /\ Len(ids[c]) >= 1 /\ ids[c] \in Seq(Wares)
      /\ (kind = "dir" => Len(ids[c]) = at[c])
  <2>1. kind = "dir" => Len(ids[c]) = at[c]
    BY <1>1 DEF IInv, ScanOK, Hashed, Located, Object
  <2>2. kind # "dir" => Len(ids[c]) = 1
    BY <1>1 DEF IInv, ScanOK, Hashed, Located
  <2>3. ids[c] \in Seq(Wares) /\ Len(ids[c]) \in Nat
    BY DEF IInv, TypeOK
  <2>4. CASE kind = "dir"
    <3>1. at[c] \in Nat /\ at[c] >= 1
      BY <1>2
    <3>2. QED  BY <2>1, <2>3, <2>4, <3>1
  <2>5. CASE kind # "dir"
    <3>1. Len(ids[c]) = 1
      BY <2>2, <2>5
    <3>2. QED  BY <2>3, <2>5, <3>1
  <2>6. QED  BY <2>4, <2>5
<1>4. Id(c) \in Wares
  BY <1>3, ElementOfSeq DEF Id
<1>5. QED  BY <1>2, <1>3, <1>4, PlaceFacts, ContentAssumption DEF Target, Hash, Id
-----------------------------------------------------------------------------
\* What no step does to the shelves: change a ware filed under its hash; empty
\* a plain warehouse, except for dir, where someone still holds the ware.
Steady ==
  /\ kind' = kind /\ overlooked \subseteq overlooked' /\ expired \subseteq expired'
  /\ \A w \in CA, h \in Wares :
       \/ shelf'[Place(w, h)] \in {shelf[Place(w, h)], h}
       \/ kind = "tar" /\ Place(w, h) \in overlooked'
  /\ kind # "dir" => \A w \in Plain, h \in Wares : shelf[Place(w, h)] \in Wares =>
       \/ shelf'[Place(w, h)] \in Wares
       \/ kind = "tar" /\ Place(w, h) \in overlooked'
  /\ kind = "dir" => \A w \in Plain : Held(w) => Held(w)'

Still(d) == /\ pc'[d] = pc[d] /\ route'[d] = route[d] /\ at'[d] = at[d]
            /\ ids'[d] = ids[d] /\ stage'[d] = stage[d] /\ aside'[d] = aside[d]

LEMMA StockedIsHeld ==
  ASSUME IInv, kind = "dir", NEW w \in Plain, Stocked(w)
  PROVE  Held(w)
<1>1. CASE \E c \in Scans : aside[c] # None /\ Here(c) = w
  <2>1. PICK c \in Scans : aside[c] # None /\ Here(c) = w
    BY <1>1
  <2>2. pc[c] \in {"swap", "clean"}
    BY <2>1 DEF IInv, ScanOK, Located
  <2>3. QED  BY <2>1, <2>2 DEF IInv, ScanOK, Saved, Held
<1>2. QED  BY <1>1 DEF Stocked, Held

LEMMA StoredStays ==
  ASSUME IInv, Steady, NEW w \in Warehouses, NEW h \in Wares, Stored(w, h)
  PROVE  Stored(w, h)'
<1>1. CASE Place(w, h) \in overlooked
  BY <1>1 DEF Steady, Stored
<1>2. CASE w \in CA /\ shelf[Place(w, h)] = h
  BY <1>2 DEF Steady, Stored
<1>3. CASE w \in Plain /\ Stocked(w)
  <2>1. CASE kind = "dir"
    <3>1. Held(w)'
      BY <1>3, <2>1, StockedIsHeld DEF Steady
    <3>2. Stocked(w)'
      BY <3>1 DEF Held, Stocked
    <3>3. QED  BY <1>3, <3>2 DEF Stored
  <2>2. CASE kind # "dir"
    <3>1. \A c \in Scans : aside[c] = None
      BY <2>2 DEF IInv, ScanOK, Located
    <3>2. CASE w \in expired
      BY <1>3, <3>2 DEF Steady, Stored, Stocked
    <3>3. CASE \E p \in Places : p[1] = w /\ shelf[p] \in Wares
      <4>1. shelf[Place(w, h)] \in Wares /\ Place(w, h)[1] = w /\ Place(w, h) \in Places
        <5>1. PICK p \in Places : p[1] = w /\ shelf[p] \in Wares
          BY <3>3
        <5>2. PICK v \in Warehouses, g \in Wares : p = Place(v, g) /\ p[1] = v
          BY PlaceFacts
        <5>3. Place(w, h) = <<w, NoId>> /\ Place(w, g) = <<w, NoId>>
          BY <1>3, PlaceFacts
        <5>4. p = Place(w, h)
          BY <5>1, <5>2, <5>3
        <5>5. QED  BY <5>1, <5>4, PlaceFacts
      <4>2. shelf'[Place(w, h)] \in Wares \/ Place(w, h) \in overlooked'
        BY <1>3, <2>2, <4>1 DEF Steady
      <4>3. QED  BY <1>3, <4>1, <4>2 DEF Stored, Stocked
    <3>4. QED  BY <1>3, <3>1, <3>2, <3>3 DEF Stocked
  <2>3. QED  BY <2>1, <2>2
<1>4. QED  BY <1>1, <1>2, <1>3 DEF Stored

\* What a scan saved so far stays saved.
LEMMA SavedStays ==
  ASSUME IInv, Steady, NEW d \in Scans, Afterwards(d), NEW k \in 1 .. at[d] - 1
  PROVE  \E w \in Warehouses, h \in Wares :
           w = route[d][k] /\ h = Hash(d, k) /\ Stored(w, h)'
<1>0. ScanOK(d) /\ at[d] \in 1 .. Len(route[d]) + 1 /\ route[d] \in Routes \cup {<<>>}
      /\ Len(route[d]) \in Nat
  BY RouteFacts DEF IInv, TypeOK
<1>1. route[d][k] \in Warehouses
  <2>1. k \in 1 .. Len(route[d])
    BY <1>0
  <2>2. QED  BY <1>0, <2>1, RouteFacts
<1>2. Hash(d, k) \in Wares
  <2>1. pc[d] \notin {"idle", "failed"} /\ route[d] # <<>>
    BY <1>0, EmptySeq DEF ScanOK, Resting
  <2>2. CASE kind = "dir"
    <3>1. ids[d] \in Seq(Wares) /\ k \in 1 .. Len(ids[d])
      BY <1>0, <2>2 DEF IInv, TypeOK, ScanOK, Hashed
    <3>2. QED  BY <2>2, <3>1, ElementOfSeq DEF Hash
  <2>3. CASE kind # "dir"
    <3>1. Len(ids[d]) = 1 /\ ids[d] \in Seq(Wares)
      BY <1>0, <2>1, <2>3 DEF IInv, TypeOK, ScanOK, Hashed, Located, Afterwards, Busy
    <3>2. QED  BY <2>3, <3>1, ElementOfSeq DEF Hash, Id
  <2>4. QED  BY <2>2, <2>3
<1>3. Stored(route[d][k], Hash(d, k))
  BY <1>0 DEF ScanOK, Saved
<1>4. PICK w \in Warehouses, h \in Wares : w = route[d][k] /\ h = Hash(d, k)
  BY <1>1, <1>2
<1>5. Stored(w, h)'
  BY <1>3, <1>4, StoredStays
<1>6. QED  BY <1>4, <1>5

\* A scan that does not move is not disturbed by the others.
LEMMA StillOK ==
  ASSUME IInv, Steady, NEW d \in Scans, Still(d)
  PROVE  ScanOK(d)'
<1>0. ScanOK(d) /\ kind' = kind /\ overlooked \subseteq overlooked'
  BY DEF IInv, Steady
<1>1. Here(d)' = Here(d) /\ Id(d)' = Id(d) /\ Target(d)' = Target(d) /\ Object' = Object
  BY <1>0 DEF Still, Here, Id, Target, Object
<1>2. Resting(d)'
  BY <1>0 DEF Still, ScanOK, Resting
<1>3. Located(d)'
  BY <1>0, <1>1 DEF Still, ScanOK, Located
<1>4. Hashed(d)'
  BY <1>0 DEF Still, ScanOK, Hashed
<1>5. Staged(d)'
  BY <1>0, <1>1 DEF Still, ScanOK, Staged, Afterwards
<1>6. Saved(d)'
  <2>1. Afterwards(d)' = Afterwards(d)
    BY <1>0 DEF Still, Afterwards
  <2>2. ASSUME Afterwards(d), NEW k \in 1 .. at[d] - 1
        PROVE  Stored(route[d][k], Hash(d, k))'
    <3>1. PICK w \in Warehouses, h \in Wares :
            w = route[d][k] /\ h = Hash(d, k) /\ Stored(w, h)'
      BY <2>2, SavedStays
    <3>2. w = route'[d][k] /\ h = Hash(d, k)'
      BY <1>0, <1>1, <3>1 DEF Still, Hash
    <3>3. QED  BY <3>1, <3>2
  <2>3. ASSUME pc[d] = "delete" PROVE shelf'[Target(d)] = Id(d)
    <3>1. Here(d) \in CA /\ Object /\ Id(d) \in Wares /\ Target(d) = Place(Here(d), Id(d))
      BY <1>0, <2>3, IdFacts DEF ScanOK, Located
    <3>2. QED  BY <1>0, <2>3, <3>1 DEF Steady, ScanOK, Saved, Object
  <2>4. ASSUME pc[d] = "clean" PROVE Held(Here(d))'
    <3>1. kind = "dir" /\ Here(d) \in Plain /\ Held(Here(d))
      BY <1>0, <2>4 DEF ScanOK, Located, Saved
    <3>2. PICK w \in Plain : w = Here(d)
      BY <3>1
    <3>3. Held(w)'
      BY <3>1, <3>2 DEF Steady
    <3>4. w = Here(d)'
      BY <1>1, <3>2
    <3>5. QED  BY <3>3, <3>4
  <2>5. QED  BY <1>1, <2>1, <2>2, <2>3, <2>4 DEF Still, Saved
<1>7. QED  BY <1>2, <1>3, <1>4, <1>5, <1>6 DEF ScanOK
-----------------------------------------------------------------------------
\* Only scan c moves.
Alone(c) == \A d \in Scans \ {c} : Still(d)

\* The sets the variables stay in.
Typed == /\ pc \in [Scans -> Busy \cup {"idle", "done", "failed"}]
         /\ Shape
         /\ stage \in [Scans -> [Warehouses -> Content \cup {None}]]
         /\ aside \in [Scans -> Wares \cup {None}]
         /\ shelf \in [Places -> Content \cup {None}]
         /\ expired \subseteq Warehouses /\ overlooked \subseteq Places

\* So a step of c has to look after c, and after the shelves.
LEMMA Gathered ==
  ASSUME IInv, Steady, Typed', Sound', \A d \in Scans : Still(d) \/ ScanOK(d)'
  PROVE  IInv'
<1>1. \A d \in Scans : ScanOK(d)'
  BY StillOK
<1>2. Filed'
  BY DEF Steady, IInv, Filed
<1>3. TypeOK'
  <2>1. ASSUME NEW d \in Scans
        PROVE  at'[d] \in 1 .. Len(route'[d]) + 1
    <3>1. pc'[d] \in Busy \cup {"idle", "done", "failed"}
          /\ route'[d] \in Routes \cup {<<>>} /\ Len(route'[d]) \in Nat
      BY RouteFacts DEF Typed, Shape
    <3>2. CASE pc'[d] \in Busy
      BY <1>1, <3>1, <3>2 DEF ScanOK, Located
    <3>3. CASE pc'[d] = "done"
      BY <1>1, <3>1, <3>3 DEF ScanOK, Located
    <3>4. CASE pc'[d] \in {"idle", "failed"}
      BY <1>1, <3>1, <3>4, EmptySeq DEF ScanOK, Resting
    <3>5. QED  BY <3>1, <3>2, <3>3, <3>4
  <2>2. kind' = kind /\ kind \in {"tar", "dir", "s3", "gs"}
    BY DEF Steady, IInv, TypeOK
  <2>3. QED  BY <2>1, <2>2 DEF Typed, Shape, TypeOK
<1>4. QED  BY <1>1, <1>2, <1>3 DEF IInv, Typed

LEMMA Assembled ==
  ASSUME IInv, NEW c \in Scans, Alone(c), Steady, Typed', Sound', ScanOK(c)'
  PROVE  IInv'
BY Gathered DEF Alone

LEMMA TypedNow == IInv => Typed
BY DEF IInv, TypeOK, Typed

LEMMA HeldStays ==
  ASSUME NEW c \in Scans, Alone(c), expired \subseteq expired', NEW w \in Warehouses, Held(w),
         pc[c] # "swap" \/ Here(c) # w,
         \A p \in Places : p[1] = w /\ shelf[p] \in Wares => shelf'[p] \in Wares
  PROVE  Held(w)'
<1>1. CASE \E d \in Scans : pc[d] = "swap" /\ aside[d] # None /\ Here(d) = w
  <2>1. PICK d \in Scans : pc[d] = "swap" /\ aside[d] # None /\ Here(d) = w
    BY <1>1
  <2>2. Still(d)
    BY <2>1 DEF Alone
  <2>3. pc'[d] = "swap" /\ aside'[d] # None /\ Here(d)' = w
    BY <2>1, <2>2 DEF Still, Here
  <2>4. QED  BY <2>3 DEF Held
<1>2. QED  BY <1>1 DEF Held

LEMMA QuietIsSteady ==
  ASSUME IInv, NEW c \in Scans, Alone(c), UNCHANGED <<kind, shelf>>,
         expired \subseteq expired', overlooked \subseteq overlooked', pc[c] # "swap"
  PROVE  Steady /\ Sound'
<1>1. \A w \in Plain : Held(w) => Held(w)'
  BY HeldStays DEF Warehouses
<1>2. QED  BY <1>1 DEF Steady, IInv, Sound

\* tar, s3 and gs: a ware on its own shelf, or something that was overlooked.
LEMMA FilingIsSteady ==
  ASSUME IInv, NEW c \in Scans, kind # "dir", pc[c] \in {"commit", "copy"},
         UNCHANGED <<kind, expired>>, overlooked \subseteq overlooked',
         NEW y \in Content \cup {None}, shelf' = [shelf EXCEPT ![Target(c)] = y],
         y = Id(c) \/ (kind = "tar" /\ Target(c) \in overlooked')
  PROVE  Steady /\ Sound'
<1>1. Id(c) \in Wares /\ Target(c) \in Places /\ Target(c) = Place(Here(c), Id(c))
      /\ Here(c) \in Warehouses
  BY IdFacts, HereFacts DEF Busy
<1>2. \A p \in Places : shelf'[p] = IF p = Target(c) THEN y ELSE shelf[p]
  BY <1>1 DEF IInv, TypeOK
<1>3. \A w \in Warehouses, h \in Wares : Place(w, h) \in Places
  BY PlaceFacts
<1>4. ASSUME NEW w \in CA, NEW h \in Wares
      PROVE  \/ shelf'[Place(w, h)] \in {shelf[Place(w, h)], h}
             \/ kind = "tar" /\ Place(w, h) \in overlooked'
  <2>1. CASE Place(w, h) = Target(c)
    <3>1. h = Id(c)
      BY <1>1, <2>1 DEF Place, Warehouses
    <3>2. QED  BY <1>1, <1>2, <2>1, <3>1
  <2>2. QED  BY <1>2, <1>3, <2>1 DEF Warehouses
<1>5. ASSUME NEW w \in Plain, NEW h \in Wares, shelf[Place(w, h)] \in Wares
      PROVE  \/ shelf'[Place(w, h)] \in Wares
             \/ kind = "tar" /\ Place(w, h) \in overlooked'
  BY <1>1, <1>2, <1>3, <1>5 DEF Warehouses
<1>6. Sound'
  BY <1>1, <1>2 DEF IInv, Sound
<1>7. QED  BY <1>4, <1>5, <1>6 DEF Steady
-----------------------------------------------------------------------------
\* A ware on its shelf, or an error overlooked: either way it counts as stored.
LEMMA StoredNow ==
  ASSUME IInv, NEW c \in Scans, pc[c] \in {"commit", "swap", "clean", "copy", "delete"},
         shelf'[Target(c)] = Id(c) \/ Target(c) \in overlooked'
  PROVE  \E w \in Warehouses, h \in Wares : w = Here(c) /\ h = Id(c) /\ Stored(w, h)'
<1>1. Here(c) \in Warehouses /\ Id(c) \in Wares /\ Target(c) = Place(Here(c), Id(c))
  BY IdFacts, HereFacts DEF Busy
<1>2. PICK w \in Warehouses, h \in Wares : w = Here(c) /\ h = Id(c)
  BY <1>1
<1>3. Place(w, h) \in Places /\ Place(w, h)[1] = w /\ w \in CA \cup Plain
  BY PlaceFacts DEF Warehouses
<1>4. shelf'[Place(w, h)] = h \/ Place(w, h) \in overlooked'
  BY <1>1, <1>2
<1>5. Stored(w, h)'
  BY <1>3, <1>4 DEF Stored, Stocked
<1>6. QED  BY <1>2, <1>5

LEMMA AdvanceFacts ==
  ASSUME IInv, NEW c \in Scans, pc[c] \in Busy, NEW l \in Busy, Advance(c, l)
  PROVE  /\ pc' \in [Scans -> Busy \cup {"idle", "done", "failed"}]
         /\ at' \in [Scans -> Nat]
         /\ at'[c] = at[c] + 1 /\ at[c] \in Nat
         /\ \A d \in Scans \ {c} : pc'[d] = pc[d] /\ at'[d] = at[d]
         /\ \/ pc'[c] = "done" /\ at[c] = Len(route[c])
            \/ pc'[c] = l /\ at[c] + 1 \in 1 .. Len(route[c])
<1>1. at \in [Scans -> Nat] /\ pc \in [Scans -> Busy \cup {"idle", "done", "failed"}]
  BY DEF IInv, TypeOK, Shape
<1>2. at[c] \in 1 .. Len(route[c]) /\ Len(route[c]) \in Nat
  BY HereFacts
<1>3. pc' = [pc EXCEPT ![c] = IF at[c] = Len(route[c]) THEN "done" ELSE l]
      /\ at' = [at EXCEPT ![c] = at[c] + 1]
  BY DEF Advance, Goto
<1>4. QED  BY <1>1, <1>2, <1>3

LEMMA StagesFacts ==
  ASSUME IInv, NEW c \in Scans, pc[c] \in Busy, NEW y \in Content \cup {None}, Stages(c, y)
  PROVE  /\ stage' \in [Scans -> [Warehouses -> Content \cup {None}]]
         /\ \A w \in Warehouses : stage'[c][w] = IF w = Here(c) THEN y ELSE stage[c][w]
         /\ \A d \in Scans \ {c} : stage'[d] = stage[d]
<1>1. stage \in [Scans -> [Warehouses -> Content \cup {None}]] /\ Here(c) \in Warehouses
  BY HereFacts DEF IInv, TypeOK
<1>2. stage' = [stage EXCEPT ![c] = [stage[c] EXCEPT ![Here(c)] = y]]
  BY DEF Stages
<1>3. QED  BY <1>1, <1>2

\* What a removal leaves behind is in the way of no other warehouse.
LEMMA RemovedFacts ==
  ASSUME IInv, NEW c \in Scans, pc[c] \in Busy, RemoveStage(c)
  PROVE  /\ stage' \in [Scans -> [Warehouses -> Content \cup {None}]]
         /\ \A w \in Warehouses \ {Here(c)} : stage'[c][w] = stage[c][w]
         /\ \A d \in Scans \ {c} : stage'[d] = stage[d]
<1>1. CASE Stages(c, None)
  BY <1>1, StagesFacts
<1>2. CASE UNCHANGED stage
  BY <1>2 DEF IInv, TypeOK
<1>3. QED  BY <1>1, <1>2 DEF RemoveStage

\* A scan that is through with a warehouse has stored there what it hashed.
LEMMA Through ==
  ASSUME IInv, Steady, Typed', NEW c \in Scans, pc[c] \in {"commit", "clean", "copy", "delete"},
         Advance(c, IF kind = "dir" THEN "open" ELSE "commit"), UNCHANGED <<route, ids>>,
         aside'[c] = None, Object => stage[c][Here(c)] # Broken,
         \A w \in Warehouses \ {Here(c)} : stage'[c][w] = stage[c][w],
         \E w \in Warehouses, h \in Wares : w = Here(c) /\ h = Id(c) /\ Stored(w, h)'
  PROVE  ScanOK(c)'
<1>0. ScanOK(c) /\ kind' = kind /\ overlooked \subseteq overlooked' /\ Object' = Object
      /\ Id(c)' = Id(c)
  BY DEF IInv, Steady, Object, Id
<1>1. at[c] \in 1 .. Len(route[c]) /\ Len(route[c]) \in Nat /\ Here(c) \in Warehouses
      /\ at[c] \in Nat /\ route[c] \in Routes \cup {<<>>} /\ route[c] # <<>>
  BY HereFacts DEF Busy, IInv, TypeOK
<1>2. /\ at'[c] = at[c] + 1
      /\ \/ pc'[c] = "done" /\ at[c] = Len(route[c])
         \/ /\ pc'[c] = IF kind = "dir" THEN "open" ELSE "commit"
            /\ at[c] + 1 \in 1 .. Len(route[c])
  BY AdvanceFacts DEF Busy
<1>3. ASSUME NEW k \in at[c] + 1 .. Len(route[c])
      PROVE  /\ k \in at[c] .. Len(route[c]) /\ route[c][k] \in Warehouses
             /\ route[c][k] # Here(c) /\ stage'[c][route[c][k]] = stage[c][route[c][k]]
  <2>1. k \in 1 .. Len(route[c]) /\ k # at[c] /\ k \in at[c] .. Len(route[c])
    BY <1>1
  <2>2. QED  BY <1>1, <2>1, RouteFacts DEF Here
<1>4. Resting(c)' /\ Located(c)'
  BY <1>0, <1>1, <1>2 DEF Resting, Located, Busy
<1>5. Hashed(c)'
  <2>1. CASE kind = "dir"
    <3>1. pc[c] \in {"commit", "clean"} /\ Len(ids[c]) = at[c]
      BY <1>0, <2>1 DEF ScanOK, Located, Hashed, Object
    <3>2. at[c] = (at[c] + 1) - 1
      BY <1>1
    <3>3. QED  BY <1>0, <1>2, <2>1, <3>1, <3>2 DEF Hashed
  <2>2. CASE kind # "dir"
    BY <1>0, <2>2 DEF ScanOK, Hashed, Located
  <2>3. QED  BY <2>1, <2>2
<1>6. Staged(c)'
  <2>1. ASSUME kind = "tar", NEW k \in at[c] + 1 .. Len(route[c])
        PROVE  stage'[c][route[c][k]] = Id(c) \/ Place(route[c][k], Id(c)) \in overlooked'
    <3>1. pc[c] = "commit"
      BY <1>0, <2>1 DEF ScanOK, Located, Object
    <3>2. QED  BY <1>0, <1>3, <2>1, <3>1 DEF ScanOK, Staged
  <2>2. ASSUME Object, NEW k \in at[c] + 1 .. Len(route[c])
        PROVE  \/ stage'[c][route[c][k]] = Id(c)
               \/ \E j \in at[c] + 1 .. k : stage'[c][route[c][j]] = Broken
    <3>1. pc[c] \in {"commit", "copy", "delete"} /\ stage[c][Here(c)] # Broken
      BY <1>0, <2>2 DEF ScanOK, Located, Object
    <3>2. CASE \E j \in at[c] .. k : stage[c][route[c][j]] = Broken
      <4>1. PICK j \in at[c] .. k : stage[c][route[c][j]] = Broken
        BY <3>2
      <4>2. j # at[c]
        BY <3>1, <4>1 DEF Here
      <4>3. j \in at[c] + 1 .. k /\ j \in at[c] + 1 .. Len(route[c])
        BY <1>1, <4>2
      <4>4. QED  BY <1>3, <4>1, <4>3
    <3>3. QED  BY <1>0, <1>3, <2>2, <3>1, <3>2 DEF ScanOK, Staged
  <2>3. QED  BY <1>0, <1>2, <2>1, <2>2 DEF Staged
<1>7. Saved(c)'
  <2>1. ASSUME NEW k \in 1 .. at[c]
        PROVE  Stored(route[c][k], Hash(c, k))'
    <3>1. PICK w \in Warehouses, h \in Wares :
            w = route[c][k] /\ h = Hash(c, k) /\ Stored(w, h)'
      <4>1. CASE k = at[c]
        BY <4>1, IdFacts DEF Here
      <4>2. CASE k # at[c]
        <5>1. k \in 1 .. at[c] - 1 /\ Afterwards(c)
          BY <1>1, <4>2 DEF Afterwards
        <5>2. QED  BY <5>1, SavedStays
      <4>3. QED  BY <4>1, <4>2
    <3>2. w = route'[c][k] /\ h = Hash(c, k)'
      BY <1>0, <3>1 DEF Hash
    <3>3. QED  BY <3>1, <3>2
  <2>2. at'[c] - 1 = at[c]
    BY <1>1, <1>2
  <2>3. QED  BY <1>2, <2>1, <2>2 DEF Saved
<1>8. QED  BY <1>4, <1>5, <1>6, <1>7 DEF ScanOK
-----------------------------------------------------------------------------
LEMMA ScanOnlyInv ==
  ASSUME IInv, NEW c \in Scans, ScanOnly(c)
  PROVE  IInv' /\ Steady
<1>1. ScanOK(c) /\ Typed /\ pc[c] = "idle"
  BY TypedNow DEF IInv, ScanOnly
<1>2. PICK l \in {"done", "failed"} : pc' = [pc EXCEPT ![c] = l]
  BY DEF ScanOnly, Goto
<1>3. /\ pc' \in [Scans -> Busy \cup {"idle", "done", "failed"}]
      /\ pc'[c] \in {"done", "failed"} /\ \A d \in Scans \ {c} : pc'[d] = pc[d]
  BY <1>1, <1>2 DEF Typed
<1>4. Typed' /\ Alone(c)
  BY <1>1, <1>3 DEF ScanOnly, Typed, Shape, Alone, Still
<1>5. Steady /\ Sound'
  BY <1>1, <1>4, QuietIsSteady DEF ScanOnly
<1>6. ScanOK(c)'
  <2>1. /\ route'[c] = <<>> /\ at'[c] = 1 /\ ids'[c] = <<>> /\ stage'[c] = NoStage
        /\ aside'[c] = None /\ kind' = kind
    BY <1>1 DEF ScanOnly, ScanOK, Resting, Located
  <2>2. Resting(c)' /\ Hashed(c)' /\ Located(c)'
    BY <1>3, <2>1, EmptySeq DEF Resting, Hashed, Located, Busy
  <2>3. Staged(c)' /\ Saved(c)'
    BY <1>3, <2>1 DEF Staged, Saved, NoStage
  <2>4. QED  BY <2>2, <2>3 DEF ScanOK
<1>7. QED  BY <1>4, <1>5, <1>6, Assembled

LEMMA DialInv ==
  ASSUME IInv, NEW c \in Scans, Dial(c)
  PROVE  IInv' /\ Steady
<1>1. ScanOK(c) /\ Typed /\ pc[c] = "idle"
  BY TypedNow DEF IInv, Dial
<1>2. /\ pc' \in [Scans -> Busy \cup {"idle", "done", "failed"}]
      /\ route' \in [Scans -> Routes \cup {<<>>}]
      /\ \A d \in Scans \ {c} : pc'[d] = pc[d] /\ route'[d] = route[d]
      /\ \/ pc'[c] = "open" /\ route'[c] \in Routes
         \/ pc'[c] = "failed" /\ route'[c] = route[c]
  <2>1. /\ pc \in [Scans -> Busy \cup {"idle", "done", "failed"}]
        /\ route \in [Scans -> Routes \cup {<<>>}] /\ "open" \in Busy
    BY <1>1 DEF Typed, Shape, Busy
  <2>2. CASE \E r \in Routes : route' = [route EXCEPT ![c] = r] /\ pc' = [pc EXCEPT ![c] = "open"]
    <3>1. PICK r \in Routes : route' = [route EXCEPT ![c] = r] /\ pc' = [pc EXCEPT ![c] = "open"]
      BY <2>2
    <3>2. QED  BY <2>1, <3>1
  <2>3. CASE pc' = [pc EXCEPT ![c] = "failed"] /\ route' = route
    BY <2>1, <2>3
  <2>4. QED  BY <2>2, <2>3 DEF Dial, Goto
<1>3. Typed' /\ Alone(c)
  BY <1>1, <1>2 DEF Dial, Typed, Shape, Alone, Still
<1>4. Steady /\ Sound'
  BY <1>1, <1>3, QuietIsSteady DEF Dial
<1>5. ScanOK(c)'
  <2>1. /\ route[c] = <<>> /\ at'[c] = 1 /\ ids'[c] = <<>> /\ stage'[c] = NoStage
        /\ aside'[c] = None /\ kind' = kind
    BY <1>1 DEF Dial, ScanOK, Resting, Located
  <2>2. pc'[c] = "open" => Len(route'[c]) >= 1 /\ Len(route'[c]) \in Nat
    BY <1>2, RouteFacts
  <2>3. Resting(c)' /\ Hashed(c)' /\ Located(c)'
    BY <1>2, <2>1, <2>2, EmptySeq DEF Resting, Hashed, Located, Busy
  <2>4. Staged(c)' /\ Saved(c)'
    BY <1>2, <2>1 DEF Staged, Saved, NoStage
  <2>5. QED  BY <2>3, <2>4 DEF ScanOK
<1>6. QED  BY <1>3, <1>4, <1>5, Assembled

LEMMA OpenWriterInv ==
  ASSUME IInv, NEW c \in Scans, OpenWriter(c)
  PROVE  IInv' /\ Steady
<1>1. ScanOK(c) /\ Typed /\ pc[c] = "open" /\ pc[c] \in Busy /\ kind' = kind
  BY TypedNow DEF IInv, OpenWriter, Busy
<1>2. at[c] \in 1 .. Len(route[c]) /\ Len(route[c]) \in Nat /\ at[c] \in Nat
  BY <1>1, HereFacts
<1>3. /\ at' \in [Scans -> Nat] /\ pc' \in [Scans -> Busy \cup {"idle", "done", "failed"}]
      /\ \A d \in Scans \ {c} : pc'[d] = pc[d] /\ at'[d] = at[d]
      /\ \/ kind # "dir" /\ pc'[c] = "open" /\ at'[c] = at[c] + 1 /\ at[c] < Len(route[c])
         \/ kind # "dir" /\ pc'[c] = "save" /\ at'[c] = 1
         \/ kind = "dir" /\ pc'[c] = "save" /\ at'[c] = at[c]
  <2>0. at \in [Scans -> Nat] /\ pc \in [Scans -> Busy \cup {"idle", "done", "failed"}]
        /\ "save" \in Busy
    BY <1>1 DEF Typed, Shape, Busy
  <2>1. CASE kind # "dir" /\ at[c] < Len(route[c])
    <3>1. at' = [at EXCEPT ![c] = at[c] + 1] /\ pc' = pc
      BY <2>1 DEF OpenWriter
    <3>2. QED  BY <1>1, <1>2, <2>0, <2>1, <3>1
  <2>2. CASE ~(kind # "dir" /\ at[c] < Len(route[c]))
    <3>1. /\ at' = [at EXCEPT ![c] = IF kind = "dir" THEN at[c] ELSE 1]
          /\ pc' = [pc EXCEPT ![c] = "save"]
      BY <2>2 DEF OpenWriter, Goto
    <3>2. QED  BY <1>1, <1>2, <2>0, <2>2, <3>1
  <2>3. QED  BY <2>1, <2>2
<1>4. /\ stage' \in [Scans -> [Warehouses -> Content \cup {None}]]
      /\ \A w \in Warehouses : stage'[c][w] = IF w = Here(c) THEN Short ELSE stage[c][w]
      /\ \A d \in Scans \ {c} : stage'[d] = stage[d]
  BY <1>1, StagesFacts DEF OpenWriter, Content
<1>5. Typed' /\ Alone(c)
  BY <1>1, <1>3, <1>4 DEF OpenWriter, Typed, Shape, Alone, Still
<1>6. Steady /\ Sound'
  BY <1>1, <1>5, QuietIsSteady DEF OpenWriter
<1>7. ScanOK(c)'
  <2>1. /\ route'[c] = route[c] /\ ids'[c] = ids[c] /\ aside'[c] = None
    BY <1>1 DEF OpenWriter, ScanOK, Located
  <2>2. Resting(c)' /\ Located(c)'
    <3>1. at'[c] \in 1 .. Len(route[c])
      BY <1>2, <1>3
    <3>2. QED  BY <1>1, <1>3, <2>1, <3>1 DEF Resting, Located
  <2>3. Hashed(c)'
    BY <1>1, <1>3, <2>1 DEF Hashed, ScanOK
  <2>4. Staged(c)'
    BY <1>1, <1>3 DEF Staged, Object
  <2>5. Saved(c)'
    <3>1. ASSUME kind = "dir", NEW k \in 1 .. at[c] - 1
          PROVE  Stored(route[c][k], Hash(c, k))'
      <4>1. PICK w \in Warehouses, h \in Wares :
              w = route[c][k] /\ h = Hash(c, k) /\ Stored(w, h)'
        BY <1>6, <3>1, SavedStays DEF Afterwards
      <4>2. w = route'[c][k] /\ h = Hash(c, k)'
        BY <1>1, <2>1, <3>1, <4>1 DEF Hash
      <4>3. QED  BY <4>1, <4>2
    <3>2. QED  BY <1>1, <1>3, <3>1 DEF Saved, Afterwards
  <2>6. QED  BY <2>2, <2>3, <2>4, <2>5 DEF ScanOK
<1>8. QED  BY <1>5, <1>6, <1>7, Assembled

LEMMA SaveTreeInv ==
  ASSUME IInv, NEW c \in Scans, SaveTree(c)
  PROVE  IInv' /\ Steady
<1>1. ScanOK(c) /\ Typed /\ pc[c] = "save" /\ pc[c] \in Busy /\ kind = "dir" /\ kind' = kind
  BY TypedNow DEF IInv, SaveTree, Busy
<1>2. /\ at[c] \in 1 .. Len(route[c]) /\ Len(route[c]) \in Nat /\ at[c] \in Nat
      /\ Here(c) \in Warehouses
  BY <1>1, HereFacts
<1>3. PICK h \in Wares : Stages(c, h) /\ ids' = [ids EXCEPT ![c] = Append(ids[c], h)]
  BY DEF SaveTree
<1>4. /\ stage' \in [Scans -> [Warehouses -> Content \cup {None}]]
      /\ \A w \in Warehouses : stage'[c][w] = IF w = Here(c) THEN h ELSE stage[c][w]
      /\ \A d \in Scans \ {c} : stage'[d] = stage[d]
  BY <1>1, <1>3, StagesFacts DEF Content
<1>5. Len(ids[c]) = at[c] - 1 /\ ids[c] \in Seq(Wares) /\ ids \in [Scans -> Seq(Wares)]
  BY <1>1 DEF ScanOK, Hashed, Typed, Shape
<1>6. /\ Append(ids[c], h) \in Seq(Wares) /\ Len(Append(ids[c], h)) = at[c]
      /\ Append(ids[c], h)[at[c]] = h
      /\ \A k \in 1 .. at[c] - 1 : Append(ids[c], h)[k] = ids[c][k]
  <2>1. Len(Append(ids[c], h)) = Len(ids[c]) + 1 /\ Append(ids[c], h)[Len(ids[c]) + 1] = h
        /\ \A k \in 1 .. Len(ids[c]) : Append(ids[c], h)[k] = ids[c][k]
        /\ Append(ids[c], h) \in Seq(Wares)
    BY <1>5, AppendProperties
  <2>2. QED  BY <1>2, <1>5, <2>1
<1>7. /\ ids' \in [Scans -> Seq(Wares)] /\ ids'[c] = Append(ids[c], h)
      /\ \A d \in Scans \ {c} : ids'[d] = ids[d]
  BY <1>3, <1>5, <1>6
<1>8. /\ pc' \in [Scans -> Busy \cup {"idle", "done", "failed"}] /\ pc'[c] = "commit"
      /\ \A d \in Scans \ {c} : pc'[d] = pc[d]
  BY <1>1 DEF SaveTree, Goto, Typed, Busy
<1>9. Typed' /\ Alone(c)
  BY <1>1, <1>4, <1>7, <1>8 DEF SaveTree, Typed, Shape, Alone, Still
<1>10. Steady /\ Sound'
  BY <1>1, <1>9, QuietIsSteady DEF SaveTree
<1>11. ScanOK(c)'
  <2>1. route'[c] = route[c] /\ at'[c] = at[c] /\ aside'[c] = None
    BY <1>1 DEF SaveTree, ScanOK, Located
  <2>2. Resting(c)' /\ Located(c)'
    BY <1>1, <1>2, <1>8, <2>1 DEF Resting, Located, Busy
  <2>3. Hashed(c)'
    BY <1>1, <1>6, <1>7, <1>8, <2>1 DEF Hashed
  <2>4. Staged(c)'
    <3>1. stage'[c][Here(c)] = h /\ Here(c)' = Here(c) /\ Id(c)' = h
      BY <1>2, <1>4, <1>6, <1>7, <2>1 DEF Here, Id
    <3>2. QED  BY <1>1, <1>8, <2>1, <3>1 DEF Staged, Object
  <2>5. Saved(c)'
    <3>1. ASSUME NEW k \in 1 .. at[c] - 1
          PROVE  Stored(route[c][k], Hash(c, k))'
      <4>1. PICK w \in Warehouses, g \in Wares :
              w = route[c][k] /\ g = Hash(c, k) /\ Stored(w, g)'
        BY <1>1, <1>10, <3>1, SavedStays DEF Afterwards
      <4>2. w = route'[c][k] /\ g = Hash(c, k)'
        BY <1>1, <1>6, <1>7, <2>1, <3>1, <4>1 DEF Hash
      <4>3. QED  BY <4>1, <4>2
    <3>2. QED  BY <1>8, <2>1, <3>1 DEF Saved
  <2>6. QED  BY <2>2, <2>3, <2>4, <2>5 DEF ScanOK
<1>12. QED  BY <1>9, <1>10, <1>11, Assembled

LEMMA SaveStreamInv ==
  ASSUME IInv, NEW c \in Scans, SaveStream(c)
  PROVE  IInv' /\ Steady
<1>1. /\ ScanOK(c) /\ Typed /\ pc[c] = "save" /\ pc[c] \in Busy
      /\ kind # "dir" /\ kind' = kind /\ kind \in {"tar", "s3", "gs"}
  BY TypedNow DEF IInv, TypeOK, SaveStream, Busy
<1>2. /\ at[c] = 1 /\ Len(route[c]) \in Nat /\ route[c] \in Routes \cup {<<>>}
      /\ 1 \in 1 .. Len(route[c])
  BY <1>1, HereFacts DEF ScanOK, Located, Typed, Shape
<1>3. PICK h \in Wares, f \in 1 .. Len(route[c]) + 1 :
        /\ ids' = [ids EXCEPT ![c] = <<h>>]
        /\ stage' = [stage EXCEPT ![c] = [w \in Warehouses |->
             IF w \in Range(route[c]) THEN Got(AntiFunction(route[c])[w], h, f) ELSE None]]
        /\ overlooked' = IF Object THEN overlooked
             ELSE overlooked \cup {Place(route[c][k], h) : k \in f .. Len(route[c])}
  BY DEF SaveStream
<1>4. \A k \in 1 .. Len(route[c]) : /\ route[c][k] \in Warehouses /\ route[c][k] \in Range(route[c])
                                    /\ AntiFunction(route[c])[route[c][k]] = k
                                    /\ Got(k, h, f) \in Content
  BY <1>2, RouteFacts DEF Got, Content
<1>5. \A w \in Range(route[c]) : \E k \in 1 .. Len(route[c]) : w = route[c][k]
  BY <1>2, RouteFacts DEF Range
<1>6. /\ stage' \in [Scans -> [Warehouses -> Content \cup {None}]]
      /\ \A k \in 1 .. Len(route[c]) : stage'[c][route[c][k]] = Got(k, h, f)
      /\ \A d \in Scans \ {c} : stage'[d] = stage[d]
  <2> DEFINE got == [w \in Warehouses |->
        IF w \in Range(route[c]) THEN Got(AntiFunction(route[c])[w], h, f) ELSE None]
  <2>1. got \in [Warehouses -> Content \cup {None}]
    BY <1>4, <1>5
  <2>2. \A k \in 1 .. Len(route[c]) : got[route[c][k]] = Got(k, h, f)
    BY <1>4
  <2>3. /\ stage' = [stage EXCEPT ![c] = got]
        /\ stage \in [Scans -> [Warehouses -> Content \cup {None}]]
    BY <1>1, <1>3 DEF Typed
  <2> HIDE DEF got
  <2>4. stage'[c] = got /\ \A d \in Scans \ {c} : stage'[d] = stage[d]
    BY <2>3
  <2>5. QED  BY <2>1, <2>2, <2>3, <2>4
<1>7. /\ ids' \in [Scans -> Seq(Wares)] /\ ids'[c] = <<h>> /\ Len(<<h>>) = 1 /\ <<h>>[1] = h
      /\ \A d \in Scans \ {c} : ids'[d] = ids[d]
  BY <1>1, <1>3 DEF Typed, Shape
<1>8. /\ pc' \in [Scans -> Busy \cup {"idle", "done", "failed"}] /\ pc'[c] = "commit"
      /\ \A d \in Scans \ {c} : pc'[d] = pc[d]
  BY <1>1 DEF SaveStream, Goto, Typed, Busy
<1>9. /\ overlooked' \subseteq Places /\ overlooked \subseteq overlooked'
      /\ kind = "tar" => \A k \in f .. Len(route[c]) : Place(route[c][k], h) \in overlooked'
  <2>1. \A k \in f .. Len(route[c]) : Place(route[c][k], h) \in Places
    BY <1>2, <1>4, PlaceFacts
  <2>2. QED  BY <1>1, <1>3, <2>1 DEF Typed, Object
<1>10. Typed' /\ Alone(c)
  BY <1>1, <1>6, <1>7, <1>8, <1>9 DEF SaveStream, Typed, Shape, Alone, Still
<1>11. Steady /\ Sound'
  BY <1>1, <1>9, <1>10, QuietIsSteady DEF SaveStream
<1>12. ScanOK(c)'
  <2>1. route'[c] = route[c] /\ at'[c] = 1 /\ aside'[c] = None
    BY <1>1, <1>2 DEF SaveStream, ScanOK, Located
  <2>2. Id(c)' = h
    BY <1>7 DEF Id
  <2>3. Resting(c)' /\ Located(c)' /\ Hashed(c)'
    BY <1>1, <1>2, <1>7, <1>8, <2>1 DEF Resting, Located, Hashed, Busy
  <2>4. Staged(c)'
    <3>1. ASSUME kind = "tar", NEW k \in 1 .. Len(route[c])
          PROVE  stage'[c][route[c][k]] = h \/ Place(route[c][k], h) \in overlooked'
      <4>1. CASE k < f
        BY <1>6, <4>1 DEF Got
      <4>2. CASE ~(k < f)
        <5>1. k \in f .. Len(route[c])
          BY <1>2, <4>2
        <5>2. QED  BY <1>9, <3>1, <5>1
      <4>3. QED  BY <4>1, <4>2
    <3>2. ASSUME NEW k \in 1 .. Len(route[c])
          PROVE  \/ stage'[c][route[c][k]] = h
                 \/ \E j \in 1 .. k : stage'[c][route[c][j]] = Broken
      <4>1. CASE k < f
        BY <1>6, <4>1 DEF Got
      <4>2. CASE ~(k < f)
        <5>1. f \in 1 .. k /\ f \in 1 .. Len(route[c])
          BY <1>2, <4>2
        <5>2. stage'[c][route[c][f]] = Broken
          BY <1>6, <5>1 DEF Got
        <5>3. QED  BY <5>1, <5>2
      <4>3. QED  BY <4>1, <4>2
    <3>3. QED  BY <1>1, <1>8, <2>1, <2>2, <3>1, <3>2 DEF Staged
  <2>5. Saved(c)'
    BY <1>8, <2>1 DEF Saved
  <2>6. QED  BY <2>3, <2>4, <2>5 DEF ScanOK
<1>13. QED  BY <1>10, <1>11, <1>12, Assembled

LEMMA CommitFileInv ==
  ASSUME IInv, NEW c \in Scans, CommitFile(c)
  PROVE  IInv' /\ Steady
<1>1. /\ ScanOK(c) /\ Typed /\ pc[c] = "commit" /\ pc[c] \in Busy /\ kind = "tar"
      /\ ~Object /\ kind' = kind /\ aside[c] = None
  BY TypedNow DEF IInv, CommitFile, Busy, Object, ScanOK, Located
<1>2. /\ at[c] \in 1 .. Len(route[c]) /\ Len(route[c]) \in Nat /\ at[c] \in Nat
      /\ Here(c) \in Warehouses /\ Id(c) \in Wares /\ Target(c) \in Places
      /\ Target(c) = Place(Here(c), Id(c)) /\ Id(c) # Short
  BY <1>1, HereFacts, IdFacts
<1>3. PICK y \in Content \cup {None} :
        /\ shelf' = [shelf EXCEPT ![Target(c)] = y]
        /\ y = Id(c) \/ Target(c) \in overlooked'
        /\ overlooked \subseteq overlooked' /\ overlooked' \subseteq Places
  <2>1. stage[c][Here(c)] = Id(c) \/ Target(c) \in overlooked
    <3>1. at[c] \in at[c] .. Len(route[c])
      BY <1>2
    <3>2. QED  BY <1>1, <1>2, <3>1 DEF ScanOK, Staged, Here
  <2>2. stage[c][Here(c)] \in Content \cup {None}
    BY <1>1, <1>2 DEF Typed
  <2>3. CASE Shelve(c, stage[c][Here(c)]) /\ UNCHANGED overlooked
    <3>1. (IF stage[c][Here(c)] = Short THEN Broken ELSE stage[c][Here(c)])
            \in Content \cup {None}
      BY <2>2 DEF Content
    <3>2. QED  BY <1>1, <1>2, <2>1, <2>3, <3>1 DEF Shelve, Typed
  <2>4. CASE Shelve(c, Broken) /\ overlooked' = overlooked \cup {Target(c)}
    BY <1>1, <1>2, <2>4 DEF Shelve, Content, Typed
  <2>5. QED  BY <2>3, <2>4 DEF CommitFile
<1>4. Advance(c, "commit") /\ Stages(c, None)
  BY DEF CommitFile
<1>5. /\ pc' \in [Scans -> Busy \cup {"idle", "done", "failed"}] /\ at' \in [Scans -> Nat]
      /\ \A d \in Scans \ {c} : pc'[d] = pc[d] /\ at'[d] = at[d]
  BY <1>1, <1>4, AdvanceFacts DEF Busy
<1>6. /\ stage' \in [Scans -> [Warehouses -> Content \cup {None}]]
      /\ \A w \in Warehouses : stage'[c][w] = IF w = Here(c) THEN None ELSE stage[c][w]
      /\ \A d \in Scans \ {c} : stage'[d] = stage[d]
  BY <1>1, <1>4, StagesFacts
<1>7. shelf' \in [Places -> Content \cup {None}]
      /\ (shelf'[Target(c)] = Id(c) \/ Target(c) \in overlooked')
  BY <1>1, <1>2, <1>3 DEF Typed
<1>8. Typed' /\ Alone(c)
  BY <1>1, <1>3, <1>5, <1>6, <1>7 DEF CommitFile, Typed, Shape, Alone, Still
<1>9. Steady /\ Sound'
  BY <1>1, <1>3, FilingIsSteady DEF CommitFile
<1>10. ScanOK(c)'
  <2>1. \E w \in Warehouses, h \in Wares : w = Here(c) /\ h = Id(c) /\ Stored(w, h)'
    BY <1>1, <1>7, StoredNow
  <2>2. UNCHANGED <<route, ids>> /\ aside'[c] = None
    BY <1>1 DEF CommitFile
  <2>3. QED  BY <1>1, <1>4, <1>6, <1>8, <1>9, <2>1, <2>2, Through
<1>11. QED  BY <1>8, <1>9, <1>10, Assembled

LEMMA CommitTreeInv ==
  ASSUME IInv, NEW c \in Scans, CommitTree(c)
  PROVE  IInv' /\ Steady
<1>1. /\ ScanOK(c) /\ Typed /\ pc[c] = "commit" /\ pc[c] \in Busy /\ kind = "dir"
      /\ ~Object /\ kind' = kind /\ aside[c] = None /\ Here(c) \in CA
  BY TypedNow DEF IInv, CommitTree, Busy, Object, ScanOK, Located
<1>2. /\ Here(c) \in Warehouses /\ Id(c) \in Wares /\ Target(c) \in Places
      /\ Target(c) = Place(Here(c), Id(c)) /\ Id(c) \notin {None, Broken, Short}
  BY <1>1, HereFacts, IdFacts
<1>3. /\ shelf' \in [Places -> Content \cup {None}] /\ shelf'[Target(c)] = Id(c)
      /\ \A p \in Places : p # Target(c) => shelf'[p] = shelf[p]
  <2>1. CASE shelf[Target(c)] = None
    <3>1. shelf' = [shelf EXCEPT ![Target(c)] = Id(c)]
      BY <1>1, <1>2, <2>1 DEF CommitTree, Shelve, ScanOK, Staged
    <3>2. QED  BY <1>1, <1>2, <3>1 DEF Typed, Content
  <2>2. CASE shelf[Target(c)] # None
    <3>1. shelf' = shelf
      BY <2>2 DEF CommitTree
    <3>2. shelf[Target(c)] = Id(c)
      BY <1>1, <1>2, <2>2 DEF IInv, Filed
    <3>3. QED  BY <1>1, <3>1, <3>2 DEF Typed
  <2>3. QED  BY <2>1, <2>2
<1>4. Advance(c, "open") /\ RemoveStage(c)
  BY DEF CommitTree, RemoveStage
<1>5. /\ pc' \in [Scans -> Busy \cup {"idle", "done", "failed"}] /\ at' \in [Scans -> Nat]
      /\ \A d \in Scans \ {c} : pc'[d] = pc[d] /\ at'[d] = at[d]
  BY <1>1, <1>4, AdvanceFacts DEF Busy
<1>6. /\ stage' \in [Scans -> [Warehouses -> Content \cup {None}]]
      /\ \A w \in Warehouses \ {Here(c)} : stage'[c][w] = stage[c][w]
      /\ \A d \in Scans \ {c} : stage'[d] = stage[d]
  BY <1>1, <1>4, RemovedFacts
<1>7. Typed' /\ Alone(c)
  BY <1>1, <1>3, <1>5, <1>6 DEF CommitTree, Typed, Shape, Alone, Still
<1>8. Steady /\ Sound'
  <2>1. ASSUME NEW w \in CA, NEW h \in Wares
        PROVE  shelf'[Place(w, h)] \in {shelf[Place(w, h)], h}
    <3>1. CASE Place(w, h) = Target(c)
      <4>1. h = Id(c)
        BY <1>1, <1>2, <3>1, PlaceFacts
      <4>2. QED  BY <1>3, <3>1, <4>1
    <3>2. CASE Place(w, h) # Target(c)
      BY <1>3, <3>2, PlaceFacts DEF Warehouses
    <3>3. QED  BY <3>1, <3>2
  <2>2. \A w \in Plain : Held(w) => Held(w)'
    <3>1. \A p \in Places : shelf[p] \in Wares => shelf'[p] \in Wares
      BY <1>2, <1>3
    <3>2. QED  BY <1>1, <1>7, <3>1, HeldStays DEF CommitTree, Warehouses
  <2>3. Sound'
    BY <1>1, <1>2, <1>3 DEF IInv, Sound
  <2>4. QED  BY <1>1, <2>1, <2>2, <2>3 DEF Steady, CommitTree
<1>9. ScanOK(c)'
  <2>1. \E w \in Warehouses, h \in Wares : w = Here(c) /\ h = Id(c) /\ Stored(w, h)'
    BY <1>1, <1>3, StoredNow
  <2>2. UNCHANGED <<route, ids>> /\ aside'[c] = None
    BY <1>1 DEF CommitTree
  <2>3. QED  BY <1>1, <1>4, <1>6, <1>7, <1>8, <2>1, <2>2, Through
<1>10. QED  BY <1>7, <1>8, <1>9, Assembled

\* The place of a plain warehouse is the only one it has.
LEMMA OnePlace ==
  ASSUME NEW w \in Plain, NEW h \in Wares, NEW p \in Places, p[1] = w
  PROVE  p = Place(w, h)
<1>1. PICK v \in Warehouses, g \in Wares : p = Place(v, g) /\ p[1] = v
  BY PlaceFacts
<1>2. Place(w, h) = <<w, NoId>> /\ Place(w, g) = <<w, NoId>>
  BY PlaceFacts
<1>3. QED  BY <1>1, <1>2

LEMMA PushAsideInv ==
  ASSUME IInv, NEW c \in Scans, PushAside(c)
  PROVE  IInv' /\ Steady
<1>1. /\ ScanOK(c) /\ Typed /\ pc[c] = "commit" /\ pc[c] \in Busy /\ kind = "dir"
      /\ ~Object /\ kind' = kind /\ Here(c) \in Plain
  BY TypedNow DEF IInv, PushAside, Busy, Object
<1>2. /\ Here(c) \in Warehouses /\ Id(c) \in Wares /\ Target(c) \in Places
      /\ Target(c) = Place(Here(c), Id(c)) /\ at[c] \in 1 .. Len(route[c])
  BY <1>1, HereFacts, IdFacts
<1>3. /\ shelf' \in [Places -> Content \cup {None}] /\ shelf'[Target(c)] = None
      /\ \A p \in Places : p # Target(c) => shelf'[p] = shelf[p]
  <2>1. shelf' = [shelf EXCEPT ![Target(c)] = None]
    BY ContentAssumption DEF PushAside, Shelve
  <2>2. QED  BY <1>1, <1>2, <2>1 DEF Typed
<1>4. /\ aside' \in [Scans -> Wares \cup {None}] /\ aside'[c] = shelf[Target(c)]
      /\ \A d \in Scans \ {c} : aside'[d] = aside[d]
  <2>1. shelf[Target(c)] \in Wares \cup {None}
    BY <1>1, <1>2 DEF IInv, Sound
  <2>2. QED  BY <1>1, <2>1 DEF PushAside, Typed
<1>5. /\ pc' \in [Scans -> Busy \cup {"idle", "done", "failed"}] /\ pc'[c] = "swap"
      /\ \A d \in Scans \ {c} : pc'[d] = pc[d]
  BY <1>1 DEF PushAside, Goto, Typed, Busy
<1>6. Typed' /\ Alone(c)
  BY <1>1, <1>3, <1>4, <1>5 DEF PushAside, Typed, Shape, Alone, Still
<1>7. Here(c)' = Here(c) /\ Id(c)' = Id(c)
  BY DEF PushAside, Here, Id
<1>8. Steady /\ Sound'
  <2>1. \A w \in CA, h \in Wares : shelf'[Place(w, h)] = shelf[Place(w, h)]
    <3>1. ASSUME NEW w \in CA, NEW h \in Wares PROVE Place(w, h) \in Places \ {Target(c)}
      BY <1>1, <1>2, PlaceFacts DEF Warehouses
    <3>2. QED  BY <1>3, <3>1
  <2>2. ASSUME NEW w \in Plain, Held(w) PROVE Held(w)'
    <3>1. CASE w = Here(c)
      <4>1. CASE shelf[Target(c)] \in Wares
        <5>1. pc'[c] = "swap" /\ aside'[c] # None /\ Here(c)' = w
          BY <1>4, <1>5, <1>7, <3>1, <4>1, ContentAssumption
        <5>2. QED  BY <5>1 DEF Held
      <4>2. CASE shelf[Target(c)] \notin Wares
        <5>1. \A p \in Places : p[1] = w /\ shelf[p] \in Wares => shelf'[p] \in Wares
          BY <1>2, <3>1, <4>2, OnePlace
        <5>2. QED  BY <1>1, <1>2, <1>6, <2>2, <3>1, <5>1, HeldStays DEF PushAside
      <4>3. QED  BY <4>1, <4>2
    <3>2. CASE w # Here(c)
      <4>1. Target(c)[1] # w /\ w \in Warehouses
        BY <1>2, <3>2, PlaceFacts
      <4>2. \A p \in Places : p[1] = w /\ shelf[p] \in Wares => shelf'[p] \in Wares
        BY <1>3, <4>1
      <4>3. QED  BY <1>1, <1>6, <2>2, <4>1, <4>2, HeldStays DEF PushAside
    <3>3. QED  BY <3>1, <3>2
  <2>3. Sound'
    BY <1>1, <1>2, <1>3 DEF IInv, Sound
  <2>4. QED  BY <1>1, <2>1, <2>2, <2>3 DEF Steady, PushAside
<1>9. ScanOK(c)'
  <2>1. /\ route'[c] = route[c] /\ at'[c] = at[c] /\ ids'[c] = ids[c] /\ stage'[c] = stage[c]
    BY DEF PushAside
  <2>2. Resting(c)' /\ Located(c)' /\ Hashed(c)'
    BY <1>1, <1>2, <1>5, <1>7, <2>1 DEF ScanOK, Resting, Located, Hashed
  <2>3. Staged(c)'
    BY <1>1, <1>5, <1>7, <2>1 DEF ScanOK, Staged, Afterwards, Object
  <2>4. Saved(c)'
    <3>1. ASSUME NEW k \in 1 .. at[c] - 1
          PROVE  Stored(route[c][k], Hash(c, k))'
      <4>1. PICK w \in Warehouses, h \in Wares :
              w = route[c][k] /\ h = Hash(c, k) /\ Stored(w, h)'
        BY <1>1, <1>8, SavedStays DEF Afterwards
      <4>2. w = route'[c][k] /\ h = Hash(c, k)'
        BY <1>1, <2>1, <4>1 DEF Hash
      <4>3. QED  BY <4>1, <4>2
    <3>2. QED  BY <1>5, <2>1, <3>1 DEF Saved
  <2>5. QED  BY <2>2, <2>3, <2>4 DEF ScanOK
<1>10. QED  BY <1>6, <1>8, <1>9, Assembled

LEMMA SwapInv ==
  ASSUME IInv, NEW c \in Scans, Swap(c)
  PROVE  IInv' /\ Steady
<1>1. /\ ScanOK(c) /\ Typed /\ pc[c] = "swap" /\ pc[c] \in Busy /\ kind = "dir"
      /\ ~Object /\ kind' = kind /\ Here(c) \in Plain
  BY TypedNow DEF IInv, Swap, Busy, Object, ScanOK, Located
<1>2. /\ Here(c) \in Warehouses /\ Id(c) \in Wares /\ Target(c) \in Places
      /\ Target(c) = Place(Here(c), Id(c)) /\ at[c] \in 1 .. Len(route[c])
      /\ Id(c) \notin {None, Broken, Short}
  BY <1>1, HereFacts, IdFacts
<1>3. /\ shelf' \in [Places -> Content \cup {None}] /\ shelf'[Target(c)] = Id(c)
      /\ \A p \in Places : p # Target(c) => shelf'[p] = shelf[p]
  <2>1. shelf' = [shelf EXCEPT ![Target(c)] = Id(c)]
    BY <1>1, <1>2 DEF Swap, Shelve, ScanOK, Staged
  <2>2. QED  BY <1>1, <1>2, <2>1 DEF Typed, Content
<1>4. /\ stage' \in [Scans -> [Warehouses -> Content \cup {None}]]
      /\ \A w \in Warehouses : stage'[c][w] = IF w = Here(c) THEN None ELSE stage[c][w]
      /\ \A d \in Scans \ {c} : stage'[d] = stage[d]
  BY <1>1, StagesFacts DEF Swap
<1>5. /\ pc' \in [Scans -> Busy \cup {"idle", "done", "failed"}] /\ pc'[c] = "clean"
      /\ \A d \in Scans \ {c} : pc'[d] = pc[d]
  BY <1>1 DEF Swap, Goto, Typed, Busy
<1>6. Typed' /\ Alone(c)
  BY <1>1, <1>3, <1>4, <1>5 DEF Swap, Typed, Shape, Alone, Still
<1>7. Here(c)' = Here(c) /\ Id(c)' = Id(c)
  BY DEF Swap, Here, Id
<1>8. Held(Here(c))'
  <2>1. PICK w \in Warehouses : w = Here(c)
    BY <1>2
  <2>2. Target(c)[1] = w
    BY <1>2, <2>1, PlaceFacts
  <2>3. Held(w)'
    BY <1>2, <1>3, <2>2 DEF Held
  <2>4. w = Here(c)'
    BY <1>7, <2>1
  <2>5. QED  BY <2>3, <2>4
<1>9. Steady /\ Sound'
  <2>1. \A w \in CA, h \in Wares : shelf'[Place(w, h)] = shelf[Place(w, h)]
    <3>1. ASSUME NEW w \in CA, NEW h \in Wares PROVE Place(w, h) \in Places \ {Target(c)}
      BY <1>1, <1>2, PlaceFacts DEF Warehouses
    <3>2. QED  BY <1>3, <3>1
  <2>2. ASSUME NEW w \in Plain, Held(w) PROVE Held(w)'
    <3>1. CASE w = Here(c)
      <4>1. w = Here(c)'
        BY <1>7, <3>1
      <4>2. QED  BY <1>8, <4>1
    <3>2. CASE w # Here(c)
      <4>1. \A p \in Places : shelf[p] \in Wares => shelf'[p] \in Wares
        BY <1>2, <1>3
      <4>2. QED  BY <1>6, <2>2, <3>2, <4>1, HeldStays DEF Swap, Warehouses
    <3>3. QED  BY <3>1, <3>2
  <2>3. Sound'
    BY <1>1, <1>2, <1>3 DEF IInv, Sound
  <2>4. QED  BY <1>1, <2>1, <2>2, <2>3 DEF Steady, Swap
<1>10. ScanOK(c)'
  <2>1. route'[c] = route[c] /\ at'[c] = at[c] /\ ids'[c] = ids[c]
    BY DEF Swap
  <2>2. Resting(c)' /\ Located(c)' /\ Hashed(c)'
    BY <1>1, <1>2, <1>5, <1>7, <2>1 DEF ScanOK, Resting, Located, Hashed
  <2>3. Staged(c)'
    BY <1>1, <1>5 DEF Staged, Object
  <2>4. Saved(c)'
    <3>1. ASSUME NEW k \in 1 .. at[c] - 1
          PROVE  Stored(route[c][k], Hash(c, k))'
      <4>1. PICK w \in Warehouses, h \in Wares :
              w = route[c][k] /\ h = Hash(c, k) /\ Stored(w, h)'
        BY <1>1, <1>9, SavedStays DEF Afterwards
      <4>2. w = route'[c][k] /\ h = Hash(c, k)'
        BY <1>1, <2>1, <4>1 DEF Hash
      <4>3. QED  BY <4>1, <4>2
    <3>2. QED  BY <1>5, <1>8, <2>1, <3>1 DEF Saved
  <2>5. QED  BY <2>2, <2>3, <2>4 DEF ScanOK
<1>11. QED  BY <1>6, <1>9, <1>10, Assembled

LEMMA CleanInv ==
  ASSUME IInv, NEW c \in Scans, Clean(c)
  PROVE  IInv' /\ Steady
<1>1. /\ ScanOK(c) /\ Typed /\ pc[c] = "clean" /\ pc[c] \in Busy /\ kind = "dir"
      /\ ~Object /\ kind' = kind /\ Here(c) \in Plain
  BY TypedNow DEF IInv, Clean, Busy, Object, ScanOK, Located
<1>2. /\ Here(c) \in Warehouses /\ Id(c) \in Wares
  BY <1>1, HereFacts, IdFacts
<1>3. Advance(c, "open")
  BY DEF Clean
<1>4. /\ pc' \in [Scans -> Busy \cup {"idle", "done", "failed"}] /\ at' \in [Scans -> Nat]
      /\ \A d \in Scans \ {c} : pc'[d] = pc[d] /\ at'[d] = at[d]
  BY <1>1, <1>3, AdvanceFacts DEF Busy
<1>5. /\ aside' \in [Scans -> Wares \cup {None}] /\ aside'[c] = None
      /\ \A d \in Scans \ {c} : aside'[d] = aside[d]
  BY <1>1 DEF Clean, Typed
<1>6. expired \subseteq expired' /\ expired' \subseteq Warehouses
  BY <1>1, <1>2 DEF Clean, Typed
<1>7. Typed' /\ Alone(c)
  BY <1>1, <1>4, <1>5, <1>6 DEF Clean, Typed, Shape, Alone, Still
<1>8. Steady /\ Sound'
  BY <1>1, <1>6, <1>7, QuietIsSteady DEF Clean
<1>9. \E w \in Warehouses, h \in Wares : w = Here(c) /\ h = Id(c) /\ Stored(w, h)'
  <2>1. PICK w \in Warehouses, h \in Wares : w = Here(c) /\ h = Id(c)
    BY <1>2
  <2>2. Held(w)'
    BY <1>1, <1>8, <2>1 DEF ScanOK, Saved, Steady
  <2>3. Stored(w, h)'
    BY <1>1, <2>1, <2>2 DEF Held, Stored, Stocked
  <2>4. QED  BY <2>1, <2>3
<1>10. (\A w \in Warehouses \ {Here(c)} : stage'[c][w] = stage[c][w]) /\ UNCHANGED <<route, ids>>
  BY DEF Clean
<1>11. ScanOK(c)'
  BY <1>1, <1>3, <1>5, <1>7, <1>8, <1>9, <1>10, Through
<1>12. QED  BY <1>7, <1>8, <1>11, Assembled

\* s3 and gs: what is moved to its place is the ware that was hashed.
LEMMA UploadFacts ==
  ASSUME IInv, NEW c \in Scans, Object, pc[c] \in {"commit", "copy", "delete"},
         stage[c][Here(c)] # Broken
  PROVE  stage[c][Here(c)] = Id(c)
<1>1. ScanOK(c) /\ at[c] \in 1 .. Len(route[c])
  BY HereFacts DEF IInv, Busy
<1>2. at[c] \in at[c] .. Len(route[c]) /\ \A j \in at[c] .. at[c] : j = at[c]
  BY <1>1
<1>3. \/ stage[c][route[c][at[c]]] = Id(c)
      \/ \E j \in at[c] .. at[c] : stage[c][route[c][j]] = Broken
  BY <1>1, <1>2 DEF ScanOK, Staged
<1>4. QED  BY <1>2, <1>3 DEF Here

LEMMA CloseUploadInv ==
  ASSUME IInv, NEW c \in Scans, CloseUpload(c)
  PROVE  IInv' /\ Steady
<1>1. /\ ScanOK(c) /\ Typed /\ pc[c] = "commit" /\ pc[c] \in Busy /\ kind # "dir"
      /\ Object /\ kind' = kind /\ aside[c] = None /\ Object' = Object
  BY TypedNow DEF IInv, CloseUpload, Busy, Object, ScanOK, Located
<1>2. /\ Here(c) \in Warehouses /\ Id(c) \in Wares /\ Target(c) \in Places
      /\ at[c] \in 1 .. Len(route[c]) /\ Id(c) \notin {None, Broken, Short}
  BY <1>1, HereFacts, IdFacts
<1>3. stage[c][Here(c)] = Id(c) /\ stage[c][Here(c)] # Broken
  BY <1>1, UploadFacts DEF CloseUpload
<1>4. CASE Here(c) \in CA
  <2>1. /\ pc' \in [Scans -> Busy \cup {"idle", "done", "failed"}] /\ pc'[c] = "copy"
        /\ \A d \in Scans \ {c} : pc'[d] = pc[d]
    BY <1>1, <1>4 DEF CloseUpload, Goto, Typed, Busy
  <2>2. UNCHANGED <<kind, route, ids, aside, expired, overlooked, at, stage, shelf>>
    BY <1>4 DEF CloseUpload
  <2>3. Typed' /\ Alone(c)
    BY <1>1, <2>1, <2>2 DEF Typed, Shape, Alone, Still
  <2>4. Steady /\ Sound'
    BY <1>1, <2>2, <2>3, QuietIsSteady
  <2>5. ScanOK(c)'
    <3>1. Here(c)' = Here(c) /\ Id(c)' = Id(c)
      BY <2>2 DEF Here, Id
    <3>2. Resting(c)' /\ Located(c)' /\ Hashed(c)'
      BY <1>1, <1>2, <1>4, <2>1, <2>2, <3>1 DEF ScanOK, Resting, Located, Hashed
    <3>3. Staged(c)'
      BY <1>1, <1>3, <2>1, <2>2, <3>1 DEF ScanOK, Staged, Afterwards, Object
    <3>4. Saved(c)'
      <4>1. ASSUME NEW k \in 1 .. at[c] - 1
            PROVE  Stored(route[c][k], Hash(c, k))'
        <5>1. PICK w \in Warehouses, h \in Wares :
                w = route[c][k] /\ h = Hash(c, k) /\ Stored(w, h)'
          BY <1>1, <2>4, SavedStays DEF Afterwards
        <5>2. w = route'[c][k] /\ h = Hash(c, k)'
          BY <2>2, <3>1, <5>1 DEF Hash
        <5>3. QED  BY <5>1, <5>2
      <4>2. QED  BY <2>1, <2>2, <4>1 DEF Saved
    <3>5. QED  BY <3>2, <3>3, <3>4 DEF ScanOK
  <2>6. QED  BY <2>3, <2>4, <2>5, Assembled
<1>5. CASE Here(c) \notin CA
  <2>1. /\ Advance(c, "commit") /\ Stages(c, None)
        /\ shelf' = [shelf EXCEPT ![Target(c)] = Id(c)]
    BY <1>2, <1>3, <1>5 DEF CloseUpload, Shelve
  <2>2. UNCHANGED <<kind, route, ids, aside, expired, overlooked>>
    BY DEF CloseUpload
  <2>3. /\ pc' \in [Scans -> Busy \cup {"idle", "done", "failed"}] /\ at' \in [Scans -> Nat]
        /\ \A d \in Scans \ {c} : pc'[d] = pc[d] /\ at'[d] = at[d]
    BY <1>1, <2>1, AdvanceFacts DEF Busy
  <2>4. /\ stage' \in [Scans -> [Warehouses -> Content \cup {None}]]
        /\ \A w \in Warehouses : stage'[c][w] = IF w = Here(c) THEN None ELSE stage[c][w]
        /\ \A d \in Scans \ {c} : stage'[d] = stage[d]
    BY <1>1, <2>1, StagesFacts
  <2>5. Id(c) \in Content \cup {None} /\ shelf' \in [Places -> Content \cup {None}]
        /\ shelf'[Target(c)] = Id(c)
    BY <1>1, <1>2, <2>1 DEF Typed, Content
  <2>6. Typed' /\ Alone(c)
    BY <1>1, <2>2, <2>3, <2>4, <2>5 DEF Typed, Shape, Alone, Still
  <2>7. Steady /\ Sound'
    BY <1>1, <2>1, <2>2, <2>5, FilingIsSteady
  <2>8. \E w \in Warehouses, h \in Wares : w = Here(c) /\ h = Id(c) /\ Stored(w, h)'
    BY <1>1, <2>5, StoredNow
  <2>9. aside'[c] = None
    BY <1>1, <2>2
  <2>10. ScanOK(c)'
    BY <1>1, <1>3, <2>1, <2>2, <2>4, <2>6, <2>7, <2>8, <2>9, Through
  <2>11. QED  BY <2>6, <2>7, <2>10, Assembled
<1>6. QED  BY <1>4, <1>5

LEMMA CopyInv ==
  ASSUME IInv, NEW c \in Scans, Copy(c)
  PROVE  IInv' /\ Steady
<1>1. /\ ScanOK(c) /\ Typed /\ pc[c] = "copy" /\ pc[c] \in Busy /\ kind # "dir"
      /\ Object /\ kind' = kind /\ aside[c] = None /\ Object' = Object /\ Here(c) \in CA
  BY TypedNow DEF IInv, Copy, Busy, Object, ScanOK, Located
<1>2. /\ Here(c) \in Warehouses /\ Id(c) \in Wares /\ Target(c) \in Places
      /\ at[c] \in 1 .. Len(route[c]) /\ Id(c) \notin {None, Broken, Short}
  BY <1>1, HereFacts, IdFacts
<1>3. stage[c][Here(c)] = Id(c) /\ stage[c][Here(c)] # Broken
  BY <1>1, <1>2 DEF ScanOK, Staged
<1>4. /\ Id(c) \in Content \cup {None}
      /\ Shelve(c, stage[c][Here(c)]) <=> shelf' = [shelf EXCEPT ![Target(c)] = Id(c)]
  BY <1>2, <1>3 DEF Shelve, Content
<1>5. UNCHANGED <<kind, route, ids, aside, expired>>
  BY DEF Copy
<1>6. CASE /\ Shelve(c, stage[c][Here(c)]) /\ Goto(c, "delete")
           /\ UNCHANGED <<at, stage, overlooked>>
  <2>1. /\ pc' \in [Scans -> Busy \cup {"idle", "done", "failed"}] /\ pc'[c] = "delete"
        /\ \A d \in Scans \ {c} : pc'[d] = pc[d]
    BY <1>1, <1>6 DEF Goto, Typed, Busy
  <2>2. shelf' \in [Places -> Content \cup {None}] /\ shelf'[Target(c)] = Id(c)
    BY <1>1, <1>2, <1>4, <1>6 DEF Typed
  <2>3. Typed' /\ Alone(c)
    BY <1>1, <1>5, <1>6, <2>1, <2>2 DEF Typed, Shape, Alone, Still
  <2>4. Steady /\ Sound'
    BY <1>1, <1>4, <1>5, <1>6, FilingIsSteady
  <2>5. ScanOK(c)'
    <3>1. Here(c)' = Here(c) /\ Id(c)' = Id(c) /\ Target(c)' = Target(c)
      BY <1>5, <1>6 DEF Here, Id, Target
    <3>2. Resting(c)' /\ Located(c)' /\ Hashed(c)'
      BY <1>1, <1>2, <1>5, <1>6, <2>1, <3>1 DEF ScanOK, Resting, Located, Hashed
    <3>3. Staged(c)'
      BY <1>1, <1>3, <1>5, <1>6, <2>1, <3>1 DEF ScanOK, Staged, Afterwards, Object
    <3>4. Saved(c)'
      <4>1. ASSUME NEW k \in 1 .. at[c] - 1
            PROVE  Stored(route[c][k], Hash(c, k))'
        <5>1. PICK w \in Warehouses, h \in Wares :
                w = route[c][k] /\ h = Hash(c, k) /\ Stored(w, h)'
          BY <1>1, <2>4, SavedStays DEF Afterwards
        <5>2. w = route'[c][k] /\ h = Hash(c, k)'
          BY <1>5, <3>1, <5>1 DEF Hash
        <5>3. QED  BY <5>1, <5>2
      <4>2. QED  BY <1>6, <2>1, <2>2, <3>1, <4>1 DEF Saved
    <3>5. QED  BY <3>2, <3>3, <3>4 DEF ScanOK
  <2>6. QED  BY <2>3, <2>4, <2>5, Assembled
<1>7. CASE /\ overlooked' = overlooked \cup {Target(c)}
           /\ UNCHANGED shelf \/ Shelve(c, stage[c][Here(c)])
           /\ UNCHANGED stage /\ Advance(c, "commit")
  <2>1. /\ pc' \in [Scans -> Busy \cup {"idle", "done", "failed"}] /\ at' \in [Scans -> Nat]
        /\ \A d \in Scans \ {c} : pc'[d] = pc[d] /\ at'[d] = at[d]
    BY <1>1, <1>7, AdvanceFacts DEF Busy
  <2>2. stage' = stage
    BY <1>7
  <2>3. shelf' \in [Places -> Content \cup {None}]
    BY <1>1, <1>2, <1>4, <1>7 DEF Typed
  <2>4. /\ overlooked' \subseteq Places /\ overlooked \subseteq overlooked'
        /\ Target(c) \in overlooked'
    BY <1>1, <1>2, <1>7 DEF Typed
  <2>5. Typed' /\ Alone(c)
    BY <1>1, <1>5, <2>1, <2>2, <2>3, <2>4 DEF Typed, Shape, Alone, Still
  <2>6. Steady /\ Sound'
    <3>1. CASE UNCHANGED shelf
      BY <1>1, <1>5, <2>4, <2>5, <3>1, QuietIsSteady
    <3>2. CASE Shelve(c, stage[c][Here(c)])
      BY <1>1, <1>4, <1>5, <2>4, <3>2, FilingIsSteady
    <3>3. QED  BY <1>7, <3>1, <3>2
  <2>7. \E w \in Warehouses, h \in Wares : w = Here(c) /\ h = Id(c) /\ Stored(w, h)'
    BY <1>1, <2>4, StoredNow
  <2>8. aside'[c] = None
    BY <1>1, <1>5
  <2>9. ScanOK(c)'
    BY <1>1, <1>3, <1>5, <1>7, <2>2, <2>5, <2>6, <2>7, <2>8, Through
  <2>10. QED  BY <2>5, <2>6, <2>9, Assembled
<1>8. QED  BY <1>6, <1>7 DEF Copy

LEMMA DeleteInv ==
  ASSUME IInv, NEW c \in Scans, Delete(c)
  PROVE  IInv' /\ Steady
<1>1. /\ ScanOK(c) /\ Typed /\ pc[c] = "delete" /\ pc[c] \in Busy /\ kind # "dir"
      /\ Object /\ kind' = kind /\ aside[c] = None /\ Id(c) \notin {None, Broken, Short}
  BY TypedNow, IdFacts DEF IInv, Delete, Busy, Object, ScanOK, Located
<1>2. stage[c][Here(c)] # Broken /\ shelf[Target(c)] = Id(c)
  BY <1>1 DEF ScanOK, Staged, Saved
<1>3. Advance(c, "commit") /\ RemoveStage(c)
  BY DEF Delete
<1>4. /\ pc' \in [Scans -> Busy \cup {"idle", "done", "failed"}] /\ at' \in [Scans -> Nat]
      /\ \A d \in Scans \ {c} : pc'[d] = pc[d] /\ at'[d] = at[d]
  BY <1>1, <1>3, AdvanceFacts DEF Busy
<1>5. /\ stage' \in [Scans -> [Warehouses -> Content \cup {None}]]
      /\ \A w \in Warehouses \ {Here(c)} : stage'[c][w] = stage[c][w]
      /\ \A d \in Scans \ {c} : stage'[d] = stage[d]
  BY <1>1, <1>3, RemovedFacts
<1>6. Typed' /\ Alone(c)
  BY <1>1, <1>4, <1>5 DEF Delete, Typed, Shape, Alone, Still
<1>7. Steady /\ Sound'
  BY <1>1, <1>6, QuietIsSteady DEF Delete
<1>8. \E w \in Warehouses, h \in Wares : w = Here(c) /\ h = Id(c) /\ Stored(w, h)'
  BY <1>1, <1>2, StoredNow DEF Delete
<1>9. UNCHANGED <<route, ids>> /\ aside'[c] = None
  BY <1>1 DEF Delete
<1>10. ScanOK(c)'
  BY <1>1, <1>2, <1>3, <1>5, <1>6, <1>7, <1>8, <1>9, Through
<1>11. QED  BY <1>6, <1>7, <1>10, Assembled

\* Scans that end, one or, in a crash, all of them.
LEMMA LeaveInv ==
  ASSUME IInv, NEW S \in SUBSET Scans, NEW l \in {"idle", "failed"}, Leave(S, l)
  PROVE  IInv' /\ Steady
<1>1. Typed /\ UNCHANGED <<kind, shelf, overlooked>>
  BY TypedNow DEF Leave
<1>2. 1 \in Nat /\ <<>> \in Seq(Wares) /\ NoStage \in [Warehouses -> Content \cup {None}]
  BY EmptySeq DEF NoStage
<1>3. expired' = expired \cup {Here(d) : d \in {e \in S : aside[e] # None}}
      /\ expired' \subseteq Warehouses
  <2>1. ASSUME NEW d \in S, aside[d] # None PROVE Here(d) \in Warehouses
    <3>1. pc[d] \in Busy
      BY <2>1 DEF IInv, ScanOK, Located, Busy
    <3>2. QED  BY <3>1, HereFacts
  <2>2. QED  BY <1>1, <2>1 DEF Leave, Typed
<1>4. ASSUME NEW d \in S
      PROVE  /\ pc'[d] = l /\ route'[d] = <<>> /\ at'[d] = 1 /\ ids'[d] = <<>>
             /\ stage'[d] = NoStage /\ aside'[d] = None
  BY DEF Leave
<1>5. ASSUME NEW d \in Scans \ S PROVE Still(d)
  BY DEF Leave, Still
<1>6. Typed'
  <2>1. /\ pc' \in [Scans -> Busy \cup {"idle", "done", "failed"}]
        /\ route' \in [Scans -> Routes \cup {<<>>}]
    BY <1>1, <1>2 DEF Leave, Typed, Shape
  <2>2. at' \in [Scans -> Nat] /\ ids' \in [Scans -> Seq(Wares)]
    BY <1>1, <1>2 DEF Leave, Typed, Shape
  <2>3. /\ stage' \in [Scans -> [Warehouses -> Content \cup {None}]]
        /\ aside' \in [Scans -> Wares \cup {None}]
    BY <1>1, <1>2 DEF Leave, Typed
  <2>4. QED  BY <1>1, <1>3, <2>1, <2>2, <2>3 DEF Typed, Shape
<1>7. ASSUME NEW w \in Plain, Held(w) PROVE Held(w)'
  <2>1. CASE \E d \in Scans : pc[d] = "swap" /\ aside[d] # None /\ Here(d) = w
    <3>1. PICK d \in Scans : pc[d] = "swap" /\ aside[d] # None /\ Here(d) = w
      BY <2>1
    <3>2. CASE d \in S
      <4>1. w \in expired'
        BY <1>3, <3>1, <3>2
      <4>2. QED  BY <4>1 DEF Held
    <3>3. CASE d \notin S
      <4>1. pc'[d] = "swap" /\ aside'[d] # None /\ Here(d)' = w
        BY <1>5, <3>1, <3>3 DEF Still, Here
      <4>2. QED  BY <4>1 DEF Held
    <3>4. QED  BY <3>2, <3>3
  <2>2. QED  BY <1>1, <1>3, <1>7, <2>1 DEF Held
<1>8. Steady /\ Sound'
  BY <1>1, <1>3, <1>7 DEF Steady, IInv, Sound
<1>9. ASSUME NEW d \in S PROVE ScanOK(d)'
  <2>1. Resting(d)' /\ Located(d)' /\ Hashed(d)'
    BY <1>4, EmptySeq DEF Resting, Located, Hashed, Busy
  <2>2. Staged(d)' /\ Saved(d)'
    BY <1>4 DEF Staged, Saved, NoStage
  <2>3. QED  BY <2>1, <2>2 DEF ScanOK
<1>10. QED  BY <1>5, <1>6, <1>8, <1>9, Gathered

LEMMA NextInv ==
  ASSUME IInv, Next
  PROVE  IInv' /\ Steady
<1>1. CASE Crash
  BY <1>1, LeaveInv DEF Crash
<1>2. ASSUME NEW c \in Scans, ScanOnly(c) \/ Dial(c) \/ Step(c) \/ Return(c)
      PROVE  IInv' /\ Steady
  <2>1. CASE Panic(c) \/ Return(c)
    BY <2>1, LeaveInv DEF Panic, Return
  <2>2. CASE ScanOnly(c) \/ Dial(c)
    BY <2>2, ScanOnlyInv, DialInv
  <2>3. CASE OpenWriter(c) \/ SaveTree(c) \/ SaveStream(c)
    BY <2>3, OpenWriterInv, SaveTreeInv, SaveStreamInv
  <2>4. CASE CommitFile(c) \/ CommitTree(c) \/ PushAside(c) \/ Swap(c) \/ Clean(c)
    BY <2>4, CommitFileInv, CommitTreeInv, PushAsideInv, SwapInv, CleanInv
  <2>5. CASE CloseUpload(c) \/ Copy(c) \/ Delete(c)
    BY <2>5, CloseUploadInv, CopyInv, DeleteInv
  <2>6. QED  BY <1>2, <2>1, <2>2, <2>3, <2>4, <2>5 DEF Step
<1>3. QED  BY <1>1, <1>2 DEF Next

LEMMA InitInv == Init => IInv
<1> SUFFICES ASSUME Init PROVE IInv
  OBVIOUS
<1>1. <<>> \in Seq(Wares) /\ Len(<<>>) = 0 /\ NoStage \in [Warehouses -> Content \cup {None}]
  BY EmptySeq DEF NoStage
<1>2. TypeOK /\ Shape
  BY <1>1 DEF Init, TypeOK, Shape
<1>3. Filed /\ Sound
  BY PlaceFacts DEF Init, Filed, Sound, Warehouses
<1>4. ASSUME NEW c \in Scans PROVE ScanOK(c)
  <2>1. Resting(c) /\ Located(c) /\ Hashed(c)
    BY <1>1 DEF Init, Resting, Located, Hashed, Busy
  <2>2. Staged(c) /\ Saved(c)
    BY DEF Init, Staged, Saved, NoStage
  <2>3. QED  BY <2>1, <2>2 DEF ScanOK
<1>5. QED  BY <1>2, <1>3, <1>4 DEF IInv

LEMMA StutterInv == IInv /\ UNCHANGED vars => IInv'
<1> SUFFICES ASSUME IInv, UNCHANGED vars PROVE IInv'
  OBVIOUS
<1>1. \A d \in Scans : Still(d)
  BY DEF vars, Still
<1>2. Typed' /\ Sound'
  BY TypedNow DEF vars, IInv, Typed, Shape, Sound
<1>3. Steady
  <2>1. \A w \in Plain : Held(w) => Held(w)'
    BY DEF vars, Held, Here
  <2>2. QED  BY <2>1 DEF vars, Steady
<1>4. QED  BY <1>1, <1>2, <1>3, Gathered

LEMMA Invariance == Spec => []IInv
<1>1. IInv /\ [Next]_vars => IInv'
  BY NextInv, StutterInv
<1>2. QED  BY InitInv, <1>1, PTL DEF Spec
-----------------------------------------------------------------------------
\* A content-addressed warehouse has under a hash the ware of that hash or
\* nothing, for any scans that race, fail and crash, unless it is one of tar where
\* the error of a close was dropped.
THEOREM FilesAreUnderTheirHash == Spec => []FiledUnderOwnHash
<1>1. IInv => FiledUnderOwnHash
  BY DEF IInv, Filed, FiledUnderOwnHash
<1>2. QED  BY <1>1, Invariance, PTL

\* A scan that returns a hash has stored what it hashed in every warehouse that
\* answered, under its hash or, in a plain one, where a ware is kept from then on; or
\* it dropped an error of that very one.
THEOREM DoneScansHaveStored == Spec => []StoredWhenDone
<1>1. ASSUME IInv, NEW c \in Scans, pc[c] = "done", NEW k \in DOMAIN route[c]
      PROVE  Stored(route[c][k], Hash(c, k))
  <2>1. /\ ScanOK(c) /\ at[c] = Len(route[c]) + 1 /\ Len(route[c]) \in Nat
        /\ DOMAIN route[c] = 1 .. Len(route[c])
    BY <1>1, RouteFacts DEF IInv, TypeOK, ScanOK, Located
  <2>2. k \in 1 .. at[c] - 1
    BY <2>1
  <2>3. QED  BY <1>1, <2>1, <2>2 DEF ScanOK, Saved, Afterwards
<1>2. IInv => StoredWhenDone
  BY <1>1 DEF StoredWhenDone, Stored
<1>3. QED  BY <1>2, Invariance, PTL

\* No scan takes away a ware that is on a shelf, nor does a crash: its own hash
\* keeps it in a content-addressed warehouse, and in a plain one of tar, s3 or gs it
\* makes room for another whole one only, but for the errors that tar drops.
THEOREM WaresAreKept == Spec => KeptWhole
<1> DEFINE Kept(p) == shelf[p] \in Wares /\ (kind = "dir" => p[1] \in CA) =>
                        \/ shelf'[p] \in IF p[1] \in CA THEN {shelf[p]} ELSE Wares
                        \/ kind = "tar" /\ p \in overlooked'
<1>1. ASSUME IInv, Next, NEW p \in Places PROVE Kept(p)
  <2>1. PICK w \in Warehouses, h \in Wares : p = Place(w, h) /\ p[1] = w
    BY PlaceFacts
  <2>2. Steady
    BY <1>1, NextInv
  <2>3. CASE w \in CA
    <3>1. \/ shelf'[p] \in {shelf[p], h}
          \/ kind = "tar" /\ p \in overlooked'
      BY <2>1, <2>2, <2>3 DEF Steady
    <3>2. shelf[p] \in {None, h} \/ (kind = "tar" /\ p \in overlooked')
      BY <1>1, <2>1, <2>2, <2>3 DEF IInv, Filed, Steady
    <3>3. QED  BY <2>1, <2>3, <3>1, <3>2, ContentAssumption
  <2>4. CASE w \notin CA
    BY <2>1, <2>2, <2>4 DEF Steady, Warehouses
  <2>5. QED  BY <2>3, <2>4
<1>2. IInv /\ [Next]_vars => [\A p \in Places : Kept(p)]_vars
  BY <1>1
<1>3. QED  BY <1>2, Invariance, PTL DEF Spec, KeptWhole

\* A plain warehouse of dir that has a ware, on its shelf or pushed aside beside it,
\* has one after every step: of racing scans, of a swap that fails, or of a crash.
THEOREM TheLastIsNeverLost == Spec => NothingIsLost
<1>1. ASSUME IInv, Next, kind = "dir", NEW w \in Plain, Stocked(w)
      PROVE  Stocked(w)'
  <2>1. Held(w)'
    BY <1>1, NextInv, StockedIsHeld DEF Steady
  <2>2. QED  BY <2>1 DEF Held, Stocked
<1>2. IInv /\ [Next]_vars =>
        [kind = "dir" => \A w \in Plain : Stocked(w) => Stocked(w)']_vars
  BY <1>1
<1>3. QED  BY <1>2, Invariance, PTL DEF Spec, NothingIsLost
=============================================================================
