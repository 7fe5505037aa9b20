---------------------------- MODULE JournalProofs ----------------------------
(***************************************************************************)
(* Journal for any followers and any amount of output: what a follower     *)
(* reads is what the process wrote, the record is the last event, and a    *)
(* remote terminal shows a part of it from its beginning.                  *)
(*   The journal is a concatenation of chunks, by a recursive function, so *)
(* the first part derives what its proof needs: induction over Nat, from   *)
(* the subset ordering of intervals being well-founded, and the recursion  *)
(* equation of FlattenSeq.                                                 *)
(***************************************************************************)
EXTENDS Journal, SequenceTheorems, FiniteSetTheorems, TLAPS

-----------------------------------------------------------------------------
\* A set of naturals has a least element: the intervals up to its elements are
\* finite sets, and strict inclusion of finite sets is well-founded.
LEMMA Least ==
  ASSUME NEW T, T \subseteq Nat, T # {}
  PROVE  \E n \in T : \A m \in T : ~(m < n)
<1> DEFINE R == StrictSubsetOrdering(Nat)
           I == {1 .. n : n \in T}
<1>1. IsWellFoundedOn(R, FiniteSubsetsOf(Nat))
  BY FS_StrictSubsetOrderingWellFounded
<1>2. I \subseteq FiniteSubsetsOf(Nat) /\ I # {}
  <2>1. \A n \in T : 1 .. n \in SUBSET Nat /\ IsFiniteSet(1 .. n)
    BY FS_Interval
  <2>2. QED  BY <2>1 DEF FiniteSubsetsOf
<1>3. \E x \in I : \A y \in I : ~(<<y, x>> \in R)
  <2> HIDE DEF R, I
  <2>1. QED  BY <1>1, <1>2, WFMin
<1>4. ASSUME NEW n \in T, NEW m \in T, m < n PROVE <<1 .. m, 1 .. n>> \in R
  BY <1>4 DEF StrictSubsetOrdering
<1>5. PICK n \in T : \A y \in I : ~(<<y, 1 .. n>> \in R)
  <2> HIDE DEF R
  <2>1. QED  BY <1>3
<1>6. ASSUME NEW m \in T, m < n PROVE FALSE
  <2>1. <<1 .. m, 1 .. n>> \in R /\ 1 .. m \in I
    BY <1>4, <1>6
  <2> HIDE DEF R, I
  <2>2. QED  BY <1>5, <2>1
<1>7. QED  BY <1>6

\* Induction over Nat, for a set rather than a predicate.
LEMMA Induction ==
  ASSUME NEW T, 0 \in T, \A n \in Nat : n \in T => n + 1 \in T
  PROVE  \A n \in Nat : n \in T
<1> SUFFICES ASSUME Nat \ T # {} PROVE FALSE
  OBVIOUS
<1>1. PICK n \in Nat \ T : \A m \in Nat \ T : ~(m < n)
  BY Least
<1>2. n - 1 \in Nat /\ n - 1 < n
  BY <1>1
<1>3. n - 1 \in T
  BY <1>1, <1>2
<1>4. QED  BY <1>1, <1>2, <1>3

\* The equation that defines FlattenSeq.
Flat(f, s) == f = [i \in 1 .. Len(s) |-> IF i = 1 THEN s[i] ELSE f[i - 1] \o s[i]]

\* A solution of the recursion equation, at one argument.
LEMMA FlatAt ==
  ASSUME NEW f, NEW s, Flat(f, s), NEW i \in 1 .. Len(s)
  PROVE  f[i] = IF i = 1 THEN s[i] ELSE f[i - 1] \o s[i]
<1> DEFINE e(j) == IF j = 1 THEN s[j] ELSE f[j - 1] \o s[j]
<1>1. f = [j \in 1 .. Len(s) |-> e(j)]
  BY DEF Flat
<1>2. f[i] = e(i)
  <2> HIDE DEF e
  <2>1. QED  BY <1>1
<1>3. QED  BY <1>2

\* There is one, of the right type, ...
LEMMA FlatExists ==
  ASSUME NEW S, NEW s \in Seq(Seq(S))
  PROVE  \E f \in [1 .. Len(s) -> Seq(S)] : Flat(f, s)
<1> DEFINE Upto(f, n) == \A i \in 1 .. n : f[i] = IF i = 1 THEN s[i] ELSE f[i - 1] \o s[i]
           T == {n \in Nat : n <= Len(s) => \E f \in [1 .. n -> Seq(S)] : Upto(f, n)}
<1>1. 0 \in T
  <2>1. [i \in 1 .. 0 |-> <<>>] \in [1 .. 0 -> Seq(S)] /\ \A i \in 1 .. 0 : FALSE
    OBVIOUS
  <2>2. \E f \in [1 .. 0 -> Seq(S)] : Upto(f, 0)
    BY <2>1
  <2>3. QED  BY <2>2
<1>2. ASSUME NEW n \in Nat, n \in T, n + 1 <= Len(s) PROVE n + 1 \in T
  <2>1. PICK f \in [1 .. n -> Seq(S)] : Upto(f, n)
    BY <1>2
  <2> DEFINE v == IF n = 0 THEN s[n + 1] ELSE f[n] \o s[n + 1]
             g == [i \in 1 .. n + 1 |-> IF i = n + 1 THEN v ELSE f[i]]
  <2>2. s[n + 1] \in Seq(S)
    BY <1>2, ElementOfSeq
  <2>3. v \in Seq(S)
    <3>1. CASE n = 0
      BY <2>2, <3>1
    <3>2. CASE n # 0
      <4>1. f[n] \in Seq(S)
        BY <2>1, <3>2
      <4>2. QED  BY <2>2, <3>2, <4>1, ConcatProperties
    <3>3. QED  BY <3>1, <3>2
  <2>4. g \in [1 .. n + 1 -> Seq(S)]
    BY <2>3
  <2>5. Upto(g, n + 1)
    <3> SUFFICES ASSUME NEW i \in 1 .. n + 1
                 PROVE  g[i] = IF i = 1 THEN s[i] ELSE g[i - 1] \o s[i]
      OBVIOUS
    <3>1. CASE i = n + 1
      <4>1. g[i] = v /\ (i # 1 => g[i - 1] = f[n]) /\ i - 1 = n
        BY <3>1
      <4>2. QED  BY <3>1, <4>1
    <3>2. CASE i # n + 1
      <4>1. i \in 1 .. n /\ g[i] = f[i] /\ (i # 1 => g[i - 1] = f[i - 1])
        BY <3>2
      <4>2. QED  BY <2>1, <4>1
    <3>3. QED  BY <3>1, <3>2
  <2>6. \E h \in [1 .. n + 1 -> Seq(S)] : Upto(h, n + 1)
    <3> HIDE DEF g, Upto
    <3>1. QED  BY <2>4, <2>5
  <2> HIDE DEF Upto
  <2>7. QED  BY <2>6
<1>3. \A n \in Nat : n \in T
  <2>1. ASSUME NEW n \in Nat, n \in T PROVE n + 1 \in T
    <3>1. CASE n + 1 <= Len(s)
      <4> HIDE DEF T
      <4>1. QED  BY <1>2, <2>1, <3>1
    <3>2. CASE ~(n + 1 <= Len(s))
      BY <3>2
    <3>3. QED  BY <3>1, <3>2
  <2> HIDE DEF T
  <2>2. QED  BY <1>1, <2>1, Induction
<1>4. Len(s) \in Nat
  BY LenProperties
<1>5. \E f \in [1 .. Len(s) -> Seq(S)] : Upto(f, Len(s))
  <2>1. Len(s) \in T
    BY <1>3, <1>4
  <2>2. QED  BY <1>4, <2>1
<1>6. PICK f \in [1 .. Len(s) -> Seq(S)] : Upto(f, Len(s))
  BY <1>5
<1>7. Flat(f, s)
  <2> DEFINE g == [i \in 1 .. Len(s) |-> IF i = 1 THEN s[i] ELSE f[i - 1] \o s[i]]
  <2>1. \A i \in 1 .. Len(s) : f[i] = g[i]
    BY <1>6
  <2>2. f = [i \in 1 .. Len(s) |-> f[i]] /\ g = [i \in 1 .. Len(s) |-> g[i]]
    BY <1>6
  <2>3. f = g
    <3> HIDE DEF g
    <3>1. QED  BY <2>1, <2>2
  <2>4. QED  BY <2>3 DEF Flat
<1>8. QED  BY <1>6, <1>7

Agree(f, g, n) == \A i \in 1 .. n : f[i] = g[i]

\* ... and it does not depend on what follows.
LEMMA FlatUnique ==
  ASSUME NEW s, NEW t, NEW f, NEW g, Flat(f, s), Flat(g, t), Len(s) \in Nat, Len(t) \in Nat,
         Len(s) <= Len(t), \A i \in 1 .. Len(s) : s[i] = t[i]
  PROVE  Agree(f, g, Len(s))
<1> DEFINE T == {i \in Nat : i \in 1 .. Len(s) => f[i] = g[i]}
<1>1. 0 \in T
  OBVIOUS
<1>2. ASSUME NEW n \in Nat, n \in T PROVE n + 1 \in T
  <2> SUFFICES ASSUME n + 1 \in 1 .. Len(s) PROVE f[n + 1] = g[n + 1]
    OBVIOUS
  <2>1. n = 0 \/ f[n] = g[n]
    BY <1>2
  <2>2. f[n + 1] = IF n + 1 = 1 THEN s[n + 1] ELSE f[n + 1 - 1] \o s[n + 1]
    BY FlatAt
  <2>3. g[n + 1] = IF n + 1 = 1 THEN t[n + 1] ELSE g[n + 1 - 1] \o t[n + 1]
    <3>1. n + 1 \in 1 .. Len(t)
      OBVIOUS
    <3>2. QED  BY <3>1, FlatAt
  <2>4. QED  BY <2>1, <2>2, <2>3
<1>3. \A n \in Nat : n \in T
  <2> HIDE DEF T
  <2>1. QED  BY <1>1, <1>2, Induction
<1>4. QED  BY <1>3 DEF Agree

\* So FlattenSeq, which chooses one, is given by its recursion equation.
LEMMA FlattenIsFlat ==
  ASSUME NEW S, NEW s \in Seq(Seq(S)), s # <<>>
  PROVE  \E f : Flat(f, s) /\ FlattenSeq(s) = f[Len(s)]
<1> DEFINE F == CHOOSE f : f = [i \in 1 .. Len(s) |-> IF i = 1 THEN s[i] ELSE f[i - 1] \o s[i]]
<1>1. Len(s) # 0
  BY EmptySeq
<1>2. FlattenSeq(s) = F[Len(s)]
  BY <1>1 DEF FlattenSeq
<1>3. Flat(F, s)
  <2>1. \E f : Flat(f, s)
    BY FlatExists
  <2>2. QED  BY <2>1, Zenon DEF Flat
<1>4. QED  BY <1>2, <1>3

\* The three facts about FlattenSeq that the rest needs.
LEMMA FlattenEmpty == FlattenSeq(<<>>) = <<>>
BY DEF FlattenSeq

LEMMA FlattenType ==
  ASSUME NEW S, NEW s \in Seq(Seq(S))
  PROVE  FlattenSeq(s) \in Seq(S)
<1>1. CASE s = <<>>
  <2>1. FlattenSeq(s) = <<>> /\ <<>> \in Seq(S)
    BY <1>1, FlattenEmpty, EmptySeq
  <2>2. QED  BY <2>1
<1>2. CASE s # <<>>
  <2>1. Len(s) \in Nat \ {0}
    BY <1>2, EmptySeq
  <2>2. PICK f \in [1 .. Len(s) -> Seq(S)] : Flat(f, s)
    BY FlatExists
  <2>3. PICK g : Flat(g, s) /\ FlattenSeq(s) = g[Len(s)]
    BY <1>2, FlattenIsFlat
  <2>4. \A i \in 1 .. Len(s) : f[i] = g[i]
    <3>1. Len(s) \in Nat /\ Len(s) <= Len(s) /\ \A i \in 1 .. Len(s) : s[i] = s[i]
      BY <2>1
    <3>2. Flat(f, s) /\ Flat(g, s)
      BY <2>2, <2>3
    <3>3. Agree(f, g, Len(s))
      BY <3>1, <3>2, FlatUnique
    <3>4. QED  BY <3>3 DEF Agree
  <2>5. f[Len(s)] \in Seq(S)
    <3>1. Len(s) \in 1 .. Len(s)
      BY <2>1
    <3>2. QED  BY <2>2, <3>1
  <2>6. QED  BY <2>1, <2>3, <2>4, <2>5
<1>3. QED  BY <1>1, <1>2

LEMMA FlattenAppend ==
  ASSUME NEW S, NEW s \in Seq(Seq(S)), NEW e \in Seq(S)
  PROVE  FlattenSeq(Append(s, e)) = FlattenSeq(s) \o e
<1> DEFINE n == Len(s)
<1>0. PICK t : t = Append(s, e)
  OBVIOUS
<1>1. /\ t \in Seq(Seq(S)) /\ t # <<>> /\ Len(t) = n + 1 /\ n \in Nat
      /\ \A i \in 1 .. n : t[i] = s[i]
      /\ t[n + 1] = e
  BY <1>0, AppendProperties, LenProperties
<1>2. PICK g : Flat(g, t) /\ FlattenSeq(t) = g[n + 1]
  BY <1>1, FlattenIsFlat
<1>3. g[n + 1] = IF n + 1 = 1 THEN t[n + 1] ELSE g[n + 1 - 1] \o t[n + 1]
  <2>1. n + 1 \in 1 .. Len(t)
    BY <1>1
  <2>2. QED  BY <1>2, <2>1, FlatAt
<1>4. CASE s = <<>>
  <2>1. n = 0
    BY <1>4
  <2>2. <<>> \o e = e
    BY ConcatEmptySeq
  <2>3. QED  BY <1>1, <1>2, <1>3, <1>4, <2>1, <2>2, <1>0, FlattenEmpty
<1>5. CASE s # <<>>
  <2>1. PICK f : Flat(f, s) /\ FlattenSeq(s) = f[n]
    BY <1>5, FlattenIsFlat
  <2>2. n # 0
    BY <1>5, EmptySeq
  <2>3. \A i \in 1 .. n : f[i] = g[i]
    <3>1. \A i \in 1 .. Len(s) : s[i] = t[i]
      BY <1>1
    <3>2. Len(s) <= Len(t) /\ Len(t) \in Nat /\ Len(s) \in Nat
      BY <1>1
    <3>3. Flat(f, s) /\ Flat(g, t)
      BY <1>2, <2>1
    <3>4. Agree(f, g, Len(s))
      BY <3>1, <3>2, <3>3, FlatUnique
    <3>5. QED  BY <3>4 DEF Agree
  <2>4. g[n + 1] = g[n] \o e
    <3>1. n + 1 # 1 /\ n + 1 - 1 = n
      BY <1>1, <2>2
    <3>2. QED  BY <1>1, <1>3, <3>1
  <2>5. n \in 1 .. n
    BY <1>1, <2>2
  <2>6. QED  BY <1>0, <1>2, <2>1, <2>3, <2>4, <2>5
<1>6. QED  BY <1>4, <1>5
-----------------------------------------------------------------------------
\* A piece of output, a row of the mux's file, an event.
Piece    == Labels \X Nat
RowSet   == [label : Labels, msg : Seq(Piece), closed : BOOLEAN]
EventSet == [type : {"log", "record", "journal"}, what : Seq(Piece)]

\* The types that TypeOK does not state.
Shape == /\ TypeOK /\ setup \in Ways
         /\ rows \in Seq(RowSet) /\ put \in [Labels -> Nat]
         /\ reader \in [at : Nat, labels : SUBSET Labels, buf : Seq(Piece)]
         /\ got \in Seq(EventSet) /\ wire \in Seq(EventSet) /\ shown \in Seq(EventSet)

\* What the first n rows r contribute to the journal, and which streams they close.
Shut(r, n, l) == \E j \in 1 .. n : r[j].closed /\ r[j].label = l
Adds(r, i)    == IF Shut(r, i, r[i].label) THEN <<>> ELSE r[i].msg
Upto(r, n)    == FlattenSeq([i \in 1 .. n |-> Adds(r, i)])
AllShut(r, n) == \A l \in Labels : Shut(r, n, l)

\* The reader has passed on, or has left over, what the rows before it contribute.
Reading == /\ \A l \in Labels : l \in reader.labels <=> ~Shut(rows, reader.at, l)
           /\ Chunks(got) \o reader.buf = Upto(rows, reader.at)
           /\ reader.labels = {} => reader.buf = <<>>
           /\ runner \in {"wait", "done"} => reader.labels = {}

\* Who sent the record was done, and who received it will not receive again.
Recording ==
  /\ runner = "done" => job = "over"
  /\ Recorded(got) => runner = "done" /\ consumer \in {"encode", "returned", "panicked"}
  /\ \A i \in DOMAIN got : got[i].type = "record" => i = Len(got)

\* As long as the line is up, only the event being encoded has not been sent.
Begins(s, t) == Len(s) <= Len(t) /\ \A i \in 1 .. Len(s) : s[i] = t[i]
Sending ==
  /\ consumer = "encode" => setup.remote /\ got # <<>>
  /\ Begins(wire, got)
  /\ setup.remote /\ line = "up" =>
       Len(wire) = IF consumer = "encode" THEN Len(got) - 1 ELSE Len(got)
  /\ Begins(shown, wire)
  /\ far = "returned" => shown # <<>> /\ Last(shown).type = "record"

IInv == Shape /\ Reading /\ Recording /\ Sending
-----------------------------------------------------------------------------
\* Sequences and their prefixes.
LEMMA FunctionIsSeq ==
  ASSUME NEW S, NEW n \in Nat, NEW f \in [1 .. n -> S]
  PROVE  f \in Seq(S) /\ Len(f) = n
<1>1. f \in Seq(S)
  BY SeqDef
<1>2. 1 .. Len(f) = 1 .. n /\ Len(f) \in Nat
  BY <1>1, LenProperties
<1>3. QED  BY <1>2

LEMMA PrefixByElement ==
  ASSUME NEW S, NEW s \in Seq(S), NEW t \in Seq(S)
  PROVE  IsPrefix(s, t) <=> Begins(s, t)
<1>1. Len(s) \in Nat /\ Len(t) \in Nat
  BY LenProperties
<1>2. /\ \A i \in 1 .. Len(s) : s[i] \in S
      /\ \A i \in 1 .. Len(t) : t[i] \in S
  BY ElementOfSeq
<1>3. SubSeq(s, 1, Len(s)) = s
  BY SubSeqFull
<1>4. ASSUME Len(s) <= Len(t)
      PROVE  /\ SubSeq(t, 1, Len(s)) \in Seq(S) /\ Len(SubSeq(t, 1, Len(s))) = Len(s)
             /\ \A i \in 1 .. Len(s) : SubSeq(t, 1, Len(s))[i] = t[i]
  <2>1. \A i \in 1 .. Len(s) : t[i] \in S
    BY <1>1, <1>2, <1>4
  <2>2. /\ SubSeq(t, 1, Len(s)) \in Seq(S)
        /\ Len(SubSeq(t, 1, Len(s))) = IF 1 <= Len(s) THEN Len(s) - 1 + 1 ELSE 0
        /\ \A i \in 1 .. Len(s) - 1 + 1 : SubSeq(t, 1, Len(s))[i] = t[1 + i - 1]
    BY <1>1, <2>1, SubSeqProperties
  <2>3. QED  BY <1>1, <2>2
<1>5. ASSUME Len(s) <= Len(t)
      PROVE  s = SubSeq(t, 1, Len(s)) <=> \A i \in 1 .. Len(s) : s[i] = t[i]
  <2>1. ASSUME \A i \in 1 .. Len(s) : s[i] = t[i] PROVE s = SubSeq(t, 1, Len(s))
    <3>1. \A i \in 1 .. Len(s) : s[i] = SubSeq(t, 1, Len(s))[i]
      BY <1>4, <1>5, <2>1
    <3>2. QED  BY <1>4, <1>5, <3>1, SeqEqual
  <2>2. ASSUME s = SubSeq(t, 1, Len(s)) PROVE \A i \in 1 .. Len(s) : s[i] = t[i]
    BY <1>4, <1>5, <2>2
  <2>3. QED  BY <2>1, <2>2
<1>6. QED  BY <1>3, <1>5 DEF IsPrefix, Begins

LEMMA PrefixOfConcat ==
  ASSUME NEW S, NEW a \in Seq(S), NEW b \in Seq(S), NEW c \in Seq(S), IsPrefix(a, b)
  PROVE  IsPrefix(a, b \o c)
<1>1. Begins(a, b)
  BY PrefixByElement
<1>2. /\ b \o c \in Seq(S) /\ Len(b \o c) = Len(b) + Len(c)
      /\ \A i \in 1 .. Len(b) + Len(c) : (b \o c)[i] = IF i <= Len(b) THEN b[i] ELSE c[i - Len(b)]
  BY ConcatProperties
<1>3. Len(a) \in Nat /\ Len(b) \in Nat /\ Len(c) \in Nat
  BY LenProperties
<1>4. Begins(a, b \o c)
  BY <1>1, <1>2, <1>3 DEF Begins
<1>5. QED  BY <1>2, <1>4, PrefixByElement

LEMMA PrefixTransitive ==
  ASSUME NEW S, NEW a \in Seq(S), NEW b \in Seq(S), NEW c \in Seq(S),
         IsPrefix(a, b), IsPrefix(b, c)
  PROVE  IsPrefix(a, c)
<1>1. Begins(a, b) /\ Begins(b, c)
  BY PrefixByElement
<1>2. Len(a) \in Nat /\ Len(b) \in Nat /\ Len(c) \in Nat
  BY LenProperties
<1>3. Begins(a, c)
  BY <1>1, <1>2 DEF Begins
<1>4. QED  BY <1>3, PrefixByElement

LEMMA PrefixReflexive == ASSUME NEW S, NEW s \in Seq(S) PROVE IsPrefix(s, s)
<1>1. Len(s) \in Nat
  BY LenProperties
<1>2. QED  BY <1>1 DEF IsPrefix

\* What the rows contribute, one row at a time.
LEMMA RowType ==
  ASSUME NEW r \in Seq(RowSet), NEW i \in 1 .. Len(r)
  PROVE  r[i] \in RowSet /\ r[i].label \in Labels /\ Adds(r, i) \in Seq(Piece)
<1>1. r[i] \in RowSet
  BY ElementOfSeq
<1>2. <<>> \in Seq(Piece)
  BY EmptySeq
<1>3. QED  BY <1>1, <1>2 DEF RowSet, Adds

LEMMA AddsSeq ==
  ASSUME NEW r \in Seq(RowSet), NEW n \in 0 .. Len(r)
  PROVE  [i \in 1 .. n |-> Adds(r, i)] \in Seq(Seq(Piece)) /\ Upto(r, n) \in Seq(Piece)
<1>1. Len(r) \in Nat
  BY LenProperties
<1>2. \A i \in 1 .. n : Adds(r, i) \in Seq(Piece)
  BY <1>1, RowType
<1>3. [i \in 1 .. n |-> Adds(r, i)] \in [1 .. n -> Seq(Piece)]
  BY <1>2
<1>4. n \in Nat
  BY <1>1
<1>5. [i \in 1 .. n |-> Adds(r, i)] \in Seq(Seq(Piece))
  BY <1>3, <1>4, SeqDef
<1>6. QED  BY <1>5, FlattenType DEF Upto

LEMMA UptoNext ==
  ASSUME NEW r \in Seq(RowSet), NEW n \in Nat, n + 1 <= Len(r)
  PROVE  Upto(r, n + 1) = Upto(r, n) \o Adds(r, n + 1)
<1> DEFINE s == [i \in 1 .. n |-> Adds(r, i)]
           t == [i \in 1 .. n + 1 |-> Adds(r, i)]
<1>1. Len(r) \in Nat
  BY LenProperties
<1>2. n \in 0 .. Len(r) /\ n + 1 \in 0 .. Len(r) /\ n + 1 \in 1 .. Len(r)
  BY <1>1
<1>3. s \in Seq(Seq(Piece)) /\ t \in Seq(Seq(Piece))
  BY <1>2, AddsSeq
<1>4. Adds(r, n + 1) \in Seq(Piece)
  BY <1>2, RowType
<1>5. Len(s) = n /\ Len(t) = n + 1
  <2>1. DOMAIN s = 1 .. n /\ DOMAIN t = 1 .. n + 1
    OBVIOUS
  <2> HIDE DEF s, t
  <2>2. QED  BY <1>3, <2>1, LenProperties
<1>6. t = Append(s, Adds(r, n + 1))
  <2>1. /\ Append(s, Adds(r, n + 1)) \in Seq(Seq(Piece)) /\ Len(Append(s, Adds(r, n + 1))) = n + 1
        /\ \A i \in 1 .. n : Append(s, Adds(r, n + 1))[i] = s[i]
        /\ Append(s, Adds(r, n + 1))[n + 1] = Adds(r, n + 1)
    <3>1. PICK x : x = Adds(r, n + 1)
      OBVIOUS
    <3> HIDE DEF s
    <3>2. x \in Seq(Piece)
      BY <1>4, <3>1
    <3>3. /\ Append(s, x) \in Seq(Seq(Piece)) /\ Len(Append(s, x)) = Len(s) + 1
          /\ \A i \in 1 .. Len(s) : Append(s, x)[i] = s[i]
          /\ Append(s, x)[Len(s) + 1] = x
      BY <1>3, <3>2, AppendProperties
    <3>4. QED  BY <1>5, <3>1, <3>3
  <2>2. \A i \in 1 .. n : s[i] = t[i]
    OBVIOUS
  <2>3. t[n + 1] = Adds(r, n + 1)
    OBVIOUS
  <2> HIDE DEF s, t
  <2>4. \A i \in 1 .. n + 1 : t[i] = Append(s, Adds(r, n + 1))[i]
    <3>1. \A i \in 1 .. n + 1 : i \in 1 .. n \/ i = n + 1
      OBVIOUS
    <3>2. QED  BY <2>1, <2>2, <2>3, <3>1
  <2>5. QED  BY <1>3, <1>5, <2>1, <2>4, SeqEqual
<1>7. FlattenSeq(t) = FlattenSeq(s) \o Adds(r, n + 1)
  <2> HIDE DEF s, t
  <2>1. QED  BY <1>3, <1>4, <1>6, FlattenAppend
<1>8. QED  BY <1>7 DEF Upto

LEMMA UptoNone == \A r : Upto(r, 0) = <<>>
<1> SUFFICES ASSUME NEW r PROVE Upto(r, 0) = <<>>
  OBVIOUS
<1>1. [i \in 1 .. 0 |-> Adds(r, i)] = <<>>
  OBVIOUS
<1>2. QED  BY <1>1, FlattenEmpty DEF Upto

\* What follows a row only adds to what it and those before it contributed, and
\* nothing once both streams are closed.
LEMMA UptoGrows ==
  ASSUME NEW r \in Seq(RowSet), NEW n \in 0 .. Len(r)
  PROVE  /\ IsPrefix(Upto(r, n), Upto(r, Len(r)))
         /\ AllShut(r, n) => Upto(r, n) = Upto(r, Len(r))
<1> DEFINE Good(k) == /\ IsPrefix(Upto(r, n), Upto(r, n + k))
                      /\ AllShut(r, n) => Upto(r, n) = Upto(r, n + k)
           T == {k \in Nat : n + k <= Len(r) => Good(k)}
<1>1. Len(r) \in Nat /\ n \in Nat /\ Upto(r, n) \in Seq(Piece)
  BY LenProperties, AddsSeq
<1>2. 0 \in T
  <2>1. IsPrefix(Upto(r, n), Upto(r, n)) /\ n + 0 = n
    BY <1>1, PrefixReflexive
  <2>2. Good(0)
    BY <2>1
  <2>3. QED  BY <2>2
<1>3. ASSUME NEW k \in Nat, k \in T PROVE k + 1 \in T
  <2> SUFFICES ASSUME n + (k + 1) <= Len(r) PROVE Good(k + 1)
    OBVIOUS
  <2>1. Good(k)
    BY <1>1, <1>3
  <2>2. PICK m \in Nat : /\ m = n + k /\ m + 1 = n + (k + 1)
                         /\ m \in 0 .. Len(r) /\ m + 1 \in 1 .. Len(r)
    BY <1>1
  <2>3. /\ Upto(r, m + 1) = Upto(r, m) \o Adds(r, m + 1)
        /\ Upto(r, m) \in Seq(Piece) /\ Adds(r, m + 1) \in Seq(Piece)
    BY <1>1, <2>2, UptoNext, AddsSeq, RowType
  <2>4. IsPrefix(Upto(r, n), Upto(r, m + 1))
    <3>1. IsPrefix(Upto(r, n), Upto(r, m))
      BY <2>1, <2>2
    <3>2. QED  BY <1>1, <2>3, <3>1, PrefixOfConcat
  <2>5. ASSUME AllShut(r, n) PROVE Upto(r, n) = Upto(r, m + 1)
    <3>1. r[m + 1].label \in Labels
      BY <2>2, RowType
    <3>2. Adds(r, m + 1) = <<>>
      <4>1. PICK j \in 1 .. n : r[j].closed /\ r[j].label = r[m + 1].label
        BY <2>5, <3>1 DEF AllShut, Shut
      <4>2. j \in 1 .. m + 1
        BY <1>1, <2>2
      <4>3. QED  BY <4>1, <4>2 DEF Adds, Shut
    <3>3. Upto(r, m) \o <<>> = Upto(r, m)
      BY <2>3, ConcatEmptySeq
    <3>4. QED  BY <2>1, <2>2, <2>3, <2>5, <3>2, <3>3
  <2>6. QED  BY <2>2, <2>4, <2>5
<1>4. \A k \in Nat : k \in T
  <2> HIDE DEF T
  <2>1. QED  BY <1>2, <1>3, Induction
<1>5. PICK k \in Nat : n + k = Len(r)
  <2>1. Len(r) - n \in Nat /\ n + (Len(r) - n) = Len(r)
    BY <1>1
  <2>2. QED  BY <2>1
<1>6. Good(k)
  BY <1>1, <1>4, <1>5
<1>7. QED  BY <1>5, <1>6

\* A row appended leaves what the rows before it contribute as it was.
LEMMA RowsGrow ==
  ASSUME NEW r \in Seq(RowSet), NEW x \in RowSet, NEW n \in 0 .. Len(r)
  PROVE  /\ Upto(Append(r, x), n) = Upto(r, n)
         /\ \A l \in Labels : Shut(Append(r, x), n, l) <=> Shut(r, n, l)
<1>0. PICK t : t = Append(r, x)
  OBVIOUS
<1>1. /\ t \in Seq(RowSet) /\ Len(r) \in Nat /\ Len(t) = Len(r) + 1
      /\ \A i \in 1 .. Len(r) : t[i] = r[i]
  BY <1>0, LenProperties, AppendProperties
<1>2. \A i \in 1 .. n : t[i] = r[i] /\ r[i].label \in Labels
  BY <1>1, RowType
<1>3. \A m \in 0 .. n, l \in Labels : Shut(t, m, l) <=> Shut(r, m, l)
  <2> SUFFICES ASSUME NEW m \in 0 .. n, NEW l \in Labels PROVE Shut(t, m, l) <=> Shut(r, m, l)
    OBVIOUS
  <2>1. \A j \in 1 .. m : t[j] = r[j]
    BY <1>1, <1>2
  <2>2. QED  BY <2>1 DEF Shut
<1>4. \A i \in 1 .. n : Adds(t, i) = Adds(r, i)
  BY <1>1, <1>2, <1>3 DEF Adds
<1>5. [i \in 1 .. n |-> Adds(t, i)] = [i \in 1 .. n |-> Adds(r, i)]
  BY <1>4
<1>6. Upto(t, n) = Upto(r, n)
  BY <1>5 DEF Upto
<1>7. n \in 0 .. n
  BY <1>1
<1>8. QED  BY <1>0, <1>3, <1>6, <1>7

LEMMA WrittenIsUpto ==
  ASSUME rows \in Seq(RowSet)
  PROVE  Written = Upto(rows, Len(rows))
<1>1. DOMAIN rows = 1 .. Len(rows)
  BY LenProperties
<1>2. Written = FlattenSeq([i \in 1 .. Len(rows) |->
                  IF ~\E j \in 1 .. i : rows[j].closed /\ rows[j].label = rows[i].label
                    THEN rows[i].msg ELSE <<>>])
  BY <1>1 DEF Written
<1>3. \A i \in 1 .. Len(rows) :
        Adds(rows, i) = IF ~\E j \in 1 .. i : rows[j].closed /\ rows[j].label = rows[i].label
                          THEN rows[i].msg ELSE <<>>
  BY DEF Adds, Shut
<1>4. QED  BY <1>2, <1>3 DEF Upto

\* What is journal of the events received, one event at a time.
LEMMA ChunksAppend ==
  ASSUME NEW s \in Seq(EventSet), NEW e \in EventSet
  PROVE  /\ Chunks(s) \in Seq(Piece)
         /\ e.type = "journal" => Chunks(Append(s, e)) = Chunks(s) \o e.what
         /\ e.type # "journal" => Chunks(Append(s, e)) = Chunks(s)
<1>0. PICK n \in Nat : n = Len(s)
  BY LenProperties
<1> DEFINE chunk(x) == IF x.type = "journal" THEN x.what ELSE <<>>
           c == [i \in 1 .. n |-> chunk(s[i])]
           d == [i \in 1 .. n + 1 |-> chunk(Append(s, e)[i])]
<1>1. /\ n \in Nat /\ DOMAIN s = 1 .. n
      /\ Append(s, e) \in Seq(EventSet) /\ Len(Append(s, e)) = n + 1
      /\ \A i \in 1 .. n : Append(s, e)[i] = s[i]
      /\ Append(s, e)[n + 1] = e
  BY <1>0, LenProperties, AppendProperties
<1>2. DOMAIN Append(s, e) = 1 .. n + 1
  BY <1>1, LenProperties
<1>3. Chunks(s) = FlattenSeq(c) /\ Chunks(Append(s, e)) = FlattenSeq(d)
  BY <1>1, <1>2 DEF Chunks
<1>4. ASSUME NEW x \in EventSet PROVE chunk(x) \in Seq(Piece)
  BY <1>4, EmptySeq DEF EventSet
<1>5. /\ \A i \in 1 .. n : s[i] \in EventSet
      /\ \A i \in 1 .. n + 1 : Append(s, e)[i] \in EventSet
  <2>1. \A i \in 1 .. n : s[i] \in EventSet
    BY <1>0, ElementOfSeq
  <2>2. QED  BY <1>1, <2>1
<1>6. c \in Seq(Seq(Piece)) /\ d \in Seq(Seq(Piece)) /\ Len(c) = n /\ Len(d) = n + 1
  <2>1. c \in [1 .. n -> Seq(Piece)]
    <3> HIDE DEF chunk
    <3>1. QED  BY <1>4, <1>5
  <2>2. d \in [1 .. n + 1 -> Seq(Piece)]
    <3> HIDE DEF chunk
    <3>1. QED  BY <1>4, <1>5
  <2> HIDE DEF c, d
  <2>3. c \in Seq(Seq(Piece)) /\ Len(c) = n
    BY <2>1, FunctionIsSeq
  <2>4. d \in Seq(Seq(Piece)) /\ Len(d) = n + 1
    BY <2>2, FunctionIsSeq
  <2>5. QED  BY <2>3, <2>4
<1>7. d = Append(c, chunk(e))
  <2>1. chunk(e) \in Seq(Piece)
    BY <1>4
  <2>2. \A i \in 1 .. n : d[i] = c[i]
    BY <1>1
  <2>3. d[n + 1] = chunk(e)
    BY <1>1
  <2> HIDE DEF c, d, chunk
  <2>4. /\ Append(c, chunk(e)) \in Seq(Seq(Piece)) /\ Len(Append(c, chunk(e))) = n + 1
        /\ \A i \in 1 .. n : Append(c, chunk(e))[i] = c[i]
        /\ Append(c, chunk(e))[n + 1] = chunk(e)
    BY <1>6, <2>1, AppendProperties
  <2>5. \A i \in 1 .. n + 1 : d[i] = Append(c, chunk(e))[i]
    <3>1. \A i \in 1 .. n + 1 : i \in 1 .. n \/ i = n + 1
      BY <1>1
    <3>2. QED  BY <2>2, <2>3, <2>4, <3>1
  <2>6. QED  BY <1>6, <2>4, <2>5, SeqEqual
<1>8. Chunks(s) \in Seq(Piece) /\ Chunks(Append(s, e)) = Chunks(s) \o chunk(e)
  <2>1. chunk(e) \in Seq(Piece)
    BY <1>4
  <2> HIDE DEF c, d, chunk
  <2>2. FlattenSeq(c) \in Seq(Piece) /\ FlattenSeq(d) = FlattenSeq(c) \o chunk(e)
    BY <1>6, <1>7, <2>1, FlattenType, FlattenAppend
  <2>3. QED  BY <1>3, <2>2
<1>9. Chunks(s) \o <<>> = Chunks(s)
  BY <1>8, ConcatEmptySeq
<1>10. QED  BY <1>8, <1>9
-----------------------------------------------------------------------------
LEMMA InitInv == Init => IInv
<1> SUFFICES ASSUME Init PROVE IInv
  OBVIOUS
<1>1. Shape
  <2>1. /\ <<>> \in Seq(RowSet) /\ <<>> \in Seq(EventSet) /\ <<>> \in Seq(Piece) /\ Len(<<>>) = 0
    BY EmptySeq
  <2>2. \A l \in Labels : 0 \in 0 .. MaxPieces[l]
    BY JournalConstants DEF Labels, MaxPieces
  <2>3. \A l \in Labels : put[l] \in 0 .. MaxPieces[l]
    BY <2>2 DEF Init
  <2>4. reader.at \in 0 .. Len(rows) /\ reader.labels \subseteq Labels
    BY <2>1 DEF Init
  <2>5. follower \in [Followers -> {"idle", "rigging", "done"}]
    BY DEF Init
  <2>6. TypeOK
    BY <2>3, <2>4, <2>5, JournalConstants DEF Init, TypeOK
  <2>7. QED  BY <2>1, <2>6 DEF Init, Shape, Labels
<1>2. Reading
  <2>1. \A l \in Labels : ~Shut(rows, 0, l)
    BY DEF Shut
  <2>2. Chunks(<<>>) = <<>> /\ <<>> \o <<>> = <<>>
    <3>1. \A g : [i \in DOMAIN <<>> |-> g[i]] = <<>>
      OBVIOUS
    <3>2. QED  BY FlattenEmpty DEF Chunks
  <2>3. QED  BY <2>1, <2>2, UptoNone DEF Init, Reading, Labels
<1>3. Recording
  BY DEF Init, Recording, Recorded
<1>4. Sending
  BY DEF Init, Sending, Begins
<1>5. QED  BY <1>1, <1>2, <1>3, <1>4 DEF IInv

\* What a send does: its event is the last one received, and the only one that
\* is not on the line; nobody receives after a record.
LEMMA SendInv ==
  ASSUME IInv, NEW e \in EventSet, Send(e), UNCHANGED <<setup, farVars>>
  PROVE  /\ got' = Append(got, e) /\ got' \in Seq(EventSet)
         /\ consumer' \in {"receive", "encode", "returned"}
         /\ ~Recorded(got)
         /\ e.type # "record" => ~Recorded(got)'
         /\ e.type = "record" => consumer' # "receive"
         /\ \A i \in DOMAIN got' : got'[i].type = "record" => i = Len(got')
         /\ Sending'
<1>1. /\ got \in Seq(EventSet) /\ wire \in Seq(EventSet) /\ Len(got) \in Nat /\ Len(wire) \in Nat
      /\ Len(shown) \in Nat
  BY LenProperties DEF IInv, Shape
<1>2. /\ got' = Append(got, e) /\ got' \in Seq(EventSet) /\ Len(got') = Len(got) + 1
      /\ \A i \in 1 .. Len(got) : got'[i] = got[i]
      /\ got'[Len(got) + 1] = e
      /\ DOMAIN got' = 1 .. Len(got) + 1 /\ DOMAIN got = 1 .. Len(got)
  <2>1. got' = Append(got, e)
    BY DEF Send
  <2>2. QED  BY <1>1, <2>1, AppendProperties, LenProperties
<1>3. ~Recorded(got)
  BY DEF IInv, Recording, Send
<1>4. \A i \in 1 .. Len(got) : got[i].type # "record"
  BY <1>2, <1>3 DEF Recorded
<1>5. e.type # "record" => ~Recorded(got)'
  BY <1>1, <1>2, <1>4 DEF Recorded
<1>6. \A i \in DOMAIN got' : got'[i].type = "record" => i = Len(got')
  BY <1>1, <1>2, <1>4
<1>7. Sending'
  <2>1. setup' = setup /\ wire' = wire /\ line' = line /\ shown' = shown /\ far' = far
    BY DEF farVars
  <2>2. consumer = "receive" /\ consumer' = IF setup.remote THEN "encode"
                                ELSE IF e.type = "record" THEN "returned" ELSE "receive"
    BY DEF Send
  <2>3. got' # <<>>
    BY <1>1, <1>2
  <2>4. Begins(wire, got)'
    <3>1. Len(wire) <= Len(got) /\ \A i \in 1 .. Len(wire) : wire[i] = got[i]
      BY DEF IInv, Sending, Begins
    <3>2. Len(wire) <= Len(got') /\ \A i \in 1 .. Len(wire) : wire[i] = got'[i]
      BY <1>1, <1>2, <3>1
    <3>3. QED  BY <2>1, <3>2 DEF Begins
  <2>5. Begins(shown, wire)'
    BY <2>1 DEF IInv, Sending, Begins
  <2>6. (setup.remote /\ line = "up" =>
           Len(wire) = IF consumer = "encode" THEN Len(got) - 1 ELSE Len(got))'
    BY <1>1, <1>2, <2>1, <2>2 DEF IInv, Sending
  <2>7. (far = "returned" => shown # <<>> /\ Last(shown).type = "record")'
    BY <2>1 DEF IInv, Sending, Last
  <2>8. QED  BY <2>1, <2>2, <2>3, <2>4, <2>5, <2>6, <2>7 DEF Sending
<1>8. QED  BY <1>2, <1>3, <1>5, <1>6, <1>7 DEF Send

\* Steps that no event, row or reader takes part in.
LEMMA QuietInv ==
  ASSUME IInv, UNCHANGED <<setup, muxVars, reader, got, consumer, farVars>>, TypeOK',
         runner' = "done" <=> runner = "done", runner = "done" => job' = job,
         runner' \in {"wait", "done"} => reader.labels = {}
  PROVE  IInv'
<1>1. /\ setup' = setup /\ rows' = rows /\ put' = put /\ reader' = reader /\ got' = got
      /\ consumer' = consumer /\ wire' = wire /\ line' = line /\ shown' = shown /\ far' = far
  BY DEF muxVars, farVars
<1>2. Shape'
  BY <1>1 DEF IInv, Shape
<1>3. Reading'
  BY <1>1 DEF IInv, Reading
<1>4. Recording'
  BY <1>1 DEF IInv, Recording
<1>5. Sending'
  BY <1>1 DEF IInv, Sending
<1>6. QED  BY <1>2, <1>3, <1>4, <1>5 DEF IInv

LEMMA QuietStepsInv ==
  ASSUME IInv
  PROVE  /\ StartRun => IInv'
         /\ \A f \in Followers : FollowEvents(f) \/ Rig(f) => IInv'
         /\ Quit \/ Start \/ StartNull \/ CopyEnds \/ ProcExits => IInv'
<1>1. TypeOK
  BY DEF IInv, Shape
<1>2. ASSUME StartRun PROVE IInv'
  <2>1. UNCHANGED <<setup, muxVars, reader, got, consumer, farVars, runner, job>>
    BY <1>2 DEF StartRun, jobVars
  <2>2. TypeOK'
    BY <1>1, <1>2 DEF StartRun, TypeOK, jobVars, muxVars, farVars
  <2>3. runner \in {"wait", "done"} => reader.labels = {}
    BY DEF IInv, Reading
  <2>4. QED  BY <2>1, <2>2, <2>3, QuietInv
<1>3. ASSUME NEW f \in Followers, FollowEvents(f) PROVE IInv'
  <2>1. UNCHANGED <<setup, muxVars, reader, got, consumer, farVars, runner, job>>
    BY <1>3 DEF FollowEvents, jobVars
  <2>2. TypeOK'
    BY <1>1, <1>3 DEF FollowEvents, TypeOK, jobVars, muxVars, farVars
  <2>3. runner \in {"wait", "done"} => reader.labels = {}
    BY DEF IInv, Reading
  <2>4. QED  BY <2>1, <2>2, <2>3, QuietInv
<1>4. ASSUME NEW f \in Followers, Rig(f) PROVE IInv'
  <2>1. UNCHANGED <<setup, muxVars, reader, got, consumer, farVars, job>>
    BY <1>4 DEF Rig, jobVars
  <2>2. TypeOK'
    BY <1>1, <1>4 DEF Rig, TypeOK, jobVars, muxVars, farVars
  <2>3. runner = "rigging" /\ runner' = "start"
    BY <1>4 DEF Rig
  <2>4. QED  BY <2>1, <2>2, <2>3, QuietInv
<1>5. ASSUME Quit PROVE IInv'
  <2>1. UNCHANGED <<setup, muxVars, reader, got, consumer, farVars, job>>
    BY <1>5 DEF Quit, jobVars
  <2>2. TypeOK'
    BY <1>1, <1>5 DEF Quit, TypeOK, callVars, jobVars, muxVars, farVars
  <2>3. runner = "rigging" /\ runner' = "quit"
    BY <1>5 DEF Quit
  <2>4. QED  BY <2>1, <2>2, <2>3, QuietInv
<1>6. ASSUME Start \/ StartNull PROVE IInv'
  <2>1. UNCHANGED <<setup, muxVars, reader, got, consumer, farVars>>
    BY <1>6 DEF Start, StartNull
  <2>2. TypeOK'
    BY <1>1, <1>6 DEF Start, StartNull, TypeOK, callVars, muxVars, farVars
  <2>3. runner = "start" /\ runner' \in {"copy", "panicked"}
    BY <1>6 DEF Start, StartNull
  <2>4. QED  BY <2>1, <2>2, <2>3, QuietInv
<1>7. ASSUME CopyEnds PROVE IInv'
  <2>1. UNCHANGED <<setup, muxVars, reader, got, consumer, farVars, job>>
    BY <1>7 DEF CopyEnds, jobVars
  <2>2. TypeOK'
    BY <1>1, <1>7 DEF CopyEnds, TypeOK, callVars, jobVars, muxVars, farVars
  <2>3. runner = "copy" /\ runner' = "wait" /\ reader.labels = {}
    BY <1>7 DEF CopyEnds, Ended
  <2>4. QED  BY <2>1, <2>2, <2>3, QuietInv
<1>8. ASSUME ProcExits PROVE IInv'
  <2>1. UNCHANGED <<setup, muxVars, reader, got, consumer, farVars, runner, job>>
    BY <1>8 DEF ProcExits, JobUnchanged, muxVars
  <2>2. TypeOK'
    BY <1>1, <1>8 DEF ProcExits, JobUnchanged, TypeOK, callVars, farVars
  <2>3. runner \in {"wait", "done"} => reader.labels = {}
    BY DEF IInv, Reading
  <2>4. QED  BY <2>1, <2>2, <2>3, QuietInv
<1>9. QED  BY <1>2, <1>3, <1>4, <1>5, <1>6, <1>7, <1>8

\* A row appended, by the process or by the end of the job.
LEMMA AppendRowInv ==
  ASSUME IInv, NEW x \in RowSet, rows' = Append(rows, x), put' \in [Labels -> Nat], TypeOK',
         UNCHANGED <<setup, runner, reader, got, consumer, farVars>>,
         runner = "done" => job' = job
  PROVE  IInv'
<1>1. /\ setup' = setup /\ reader' = reader /\ got' = got /\ runner' = runner
      /\ consumer' = consumer /\ wire' = wire /\ line' = line /\ shown' = shown /\ far' = far
  BY DEF farVars
<1>2. rows \in Seq(RowSet) /\ rows' \in Seq(RowSet)
  BY AppendProperties DEF IInv, Shape
<1>3. Shape'
  BY <1>1, <1>2 DEF IInv, Shape
<1>4. Reading'
  <2>1. reader.at \in 0 .. Len(rows)
    BY DEF IInv, Shape, TypeOK
  <2>2. /\ Upto(rows', reader.at) = Upto(rows, reader.at)
        /\ \A l \in Labels : Shut(rows', reader.at, l) <=> Shut(rows, reader.at, l)
    BY <1>2, <2>1, RowsGrow
  <2>3. QED  BY <1>1, <2>2 DEF IInv, Reading
<1>5. Recording'
  BY <1>1 DEF IInv, Recording
<1>6. Sending'
  BY <1>1 DEF IInv, Sending
<1>7. QED  BY <1>3, <1>4, <1>5, <1>6 DEF IInv

LEMMA WriteInv ==
  ASSUME IInv, NEW l \in Labels, NEW k \in 1 .. 2, write(l, k)
  PROVE  IInv'
<1> DEFINE m == [i \in 1 .. k |-> <<l, put[l] + i>>]
<1>1. put \in [Labels -> Nat] /\ rows \in Seq(RowSet) /\ TypeOK
  BY DEF IInv, Shape
<1>2. m \in Seq(Piece)
  <2>1. m \in [1 .. k -> Piece]
    BY <1>1 DEF Piece
  <2> HIDE DEF m
  <2>2. QED  BY <2>1, FunctionIsSeq
<1>3. Row(l, m) \in RowSet
  BY <1>2 DEF Row, RowSet
<1>4. rows' = Append(rows, Row(l, m)) /\ put' = [put EXCEPT ![l] = put[l] + k]
  BY DEF write
<1>5. put' \in [Labels -> Nat] /\ \A j \in Labels : put'[j] \in 0 .. MaxPieces[j]
  <2>1. put[l] + k <= MaxPieces[l]
    BY DEF write
  <2>2. MaxPieces[l] \in Nat
    BY JournalConstants DEF Labels, MaxPieces
  <2>3. QED  BY <1>1, <1>4, <2>1, <2>2 DEF TypeOK
<1>6. Len(rows') = Len(rows) + 1 /\ Len(rows) \in Nat
  <2>1. PICK x \in RowSet : x = Row(l, m)
    BY <1>3
  <2>2. QED  BY <1>1, <1>4, <2>1, AppendProperties, LenProperties
<1>7. TypeOK'
  BY <1>1, <1>5, <1>6 DEF write, TypeOK, callVars, jobVars, farVars
<1>8. UNCHANGED <<setup, runner, reader, got, consumer, farVars, job>>
  BY DEF write, jobVars
<1> HIDE DEF m
<1>9. QED  BY <1>3, <1>4, <1>5, <1>7, <1>8, AppendRowInv

LEMMA TerminateInv == ASSUME IInv, Terminate PROVE IInv'
<1>1. put \in [Labels -> Nat] /\ rows \in Seq(RowSet) /\ TypeOK /\ Len(rows) \in Nat
  BY LenProperties DEF IInv, Shape
<1>2. UNCHANGED <<setup, runner, reader, got, consumer, farVars, put>>
  BY DEF Terminate, JobUnchanged
<1>3. runner # "done"
  BY DEF IInv, Recording, Terminate, JobGoes
<1>4. ASSUME NEW c \in Labels, rows' = Append(rows, CloseRow(c)) PROVE IInv'
  <2>1. CloseRow(c) \in RowSet
    <3>1. <<>> \in Seq(Piece)
      BY EmptySeq
    <3>2. QED  BY <3>1 DEF CloseRow, RowSet
  <2>2. Len(rows') = Len(rows) + 1
    <3>1. PICK x \in RowSet : x = CloseRow(c)
      BY <2>1
    <3>2. QED  BY <1>1, <1>4, <3>1, AppendProperties
  <2>3. TypeOK'
    BY <1>1, <1>2, <2>2 DEF Terminate, JobGoes, JobUnchanged, TypeOK, callVars, farVars
  <2>4. put' \in [Labels -> Nat]
    BY <1>1, <1>2
  <2>5. QED  BY <1>2, <1>3, <1>4, <2>1, <2>3, <2>4, AppendRowInv
<1>5. ASSUME rows' = rows PROVE IInv'
  <2>1. TypeOK'
    BY <1>1, <1>2, <1>5 DEF Terminate, JobGoes, JobUnchanged, TypeOK, callVars, farVars
  <2>2. runner \in {"wait", "done"} => reader.labels = {}
    BY DEF IInv, Reading
  <2>3. UNCHANGED <<setup, muxVars, reader, got, consumer, farVars, runner>>
    BY <1>2, <1>5 DEF muxVars
  <2>4. QED  BY <1>3, <2>1, <2>2, <2>3, QuietInv
<1>6. 1 \in Labels /\ 2 \in Labels
  BY DEF Labels
<1>7. QED  BY <1>4, <1>5, <1>6 DEF Terminate

\* A log message, or the record, is no part of the journal.
LEMMA SendNoChunkInv ==
  ASSUME IInv, NEW e \in {LogEvent, RecordEvent}, Send(e), TypeOK',
         UNCHANGED <<setup, muxVars, reader, farVars>>,
         runner' \in {"wait", "done"} => reader.labels = {},
         e = RecordEvent => runner' = "done", runner' = "done" => job' = "over"
  PROVE  IInv'
<1>1. e \in EventSet /\ e.type # "journal" /\ (e.type = "record" => e = RecordEvent)
  <2>1. <<>> \in Seq(Piece)
    BY EmptySeq
  <2>2. CASE e = LogEvent
    BY <2>1, <2>2 DEF EventSet, LogEvent, Event
  <2>3. CASE e = RecordEvent
    BY <2>1, <2>3 DEF EventSet, RecordEvent, Event
  <2>4. QED  BY <2>2, <2>3
<1>2. /\ got' = Append(got, e) /\ got' \in Seq(EventSet)
      /\ consumer' \in {"receive", "encode", "returned"}
      /\ e.type # "record" => ~Recorded(got)'
      /\ e.type = "record" => consumer' # "receive"
      /\ \A i \in DOMAIN got' : got'[i].type = "record" => i = Len(got')
      /\ Sending'
  BY <1>1, SendInv
<1>3. /\ rows' = rows /\ put' = put /\ reader' = reader /\ wire' = wire /\ shown' = shown
      /\ setup' = setup
  BY DEF muxVars, farVars
<1>4. Shape'
  BY <1>2, <1>3 DEF IInv, Shape
<1>5. Reading'
  <2>1. got \in Seq(EventSet)
    BY DEF IInv, Shape
  <2>2. Chunks(got') = Chunks(got)
    BY <1>1, <1>2, <2>1, ChunksAppend
  <2>3. QED  BY <1>3, <2>2 DEF IInv, Reading
<1>6. Recording'
  BY <1>1, <1>2 DEF Recording
<1>7. QED  BY <1>2, <1>4, <1>5, <1>6 DEF IInv

LEMMA SendRecordInv == ASSUME IInv, SendRecord PROVE IInv'
<1>1. Send(RecordEvent) /\ job = "over" /\ runner = "wait" /\ runner' = "done"
  BY DEF SendRecord, JobWait
<1>2. UNCHANGED <<setup, muxVars, reader, farVars, job>>
  BY DEF SendRecord, jobVars
<1>3. reader.labels = {}
  BY <1>1 DEF IInv, Reading
<1>4. TypeOK'
  BY DEF IInv, Shape, SendRecord, Send, TypeOK, callVars, jobVars, muxVars, farVars
<1>5. QED  BY <1>1, <1>2, <1>3, <1>4, SendNoChunkInv

\* The job's goroutine, and the ones it left behind, log.
LEMMA LogInv == ASSUME IInv, Launch \/ Execute \/ Straggle PROVE IInv'
<1>1. UNCHANGED <<setup, muxVars, reader, farVars, runner>>
  BY DEF Launch, Execute, Straggle, JobUnchanged, muxVars
<1>2. runner = "done" => job' = job
  BY DEF IInv, Recording, Launch, Execute, Straggle, JobGoes
<1>3. runner = "done" => job' = "over"
  BY <1>2 DEF IInv, Recording
<1>4. runner \in {"wait", "done"} => reader.labels = {}
  BY DEF IInv, Reading
<1>5. ASSUME Send(LogEvent) PROVE IInv'
  <2>1. TypeOK'
    BY <1>5 DEF IInv, Shape, Launch, Execute, Straggle, JobGoes, JobUnchanged, Send, TypeOK,
                callVars, farVars
  <2>2. LogEvent # RecordEvent
    BY DEF LogEvent, RecordEvent, Event
  <2>3. QED  BY <1>1, <1>3, <1>4, <1>5, <2>1, <2>2, SendNoChunkInv
<1>6. ASSUME Execute, UNCHANGED <<got, consumer>> PROVE IInv'
  <2>1. TypeOK'
    BY <1>6 DEF IInv, Shape, Execute, JobGoes, JobUnchanged, TypeOK, callVars, farVars
  <2>2. QED  BY <1>1, <1>2, <1>4, <1>6, <2>1, QuietInv
<1>7. QED  BY <1>5, <1>6 DEF Launch, Execute, Straggle

\* The split of what is read into what fits and what is left over.
LEMMA Split ==
  ASSUME NEW m \in Seq(Piece)
  PROVE  /\ Fits(m) \in Seq(Piece) /\ Leftover(m) \in Seq(Piece)
         /\ Fits(m) \o Leftover(m) = m
<1>1. PICK n \in Nat : n = Len(m)
  BY LenProperties
<1>2. CASE n < 1
  <2>1. m = <<>> /\ n = 0
    BY <1>1, <1>2, EmptySeq
  <2>2. SubSeq(m, 1, 0) = <<>> /\ SubSeq(m, 2, 0) = <<>>
    BY SubSeqEmpty
  <2>3. Fits(m) = <<>> /\ Leftover(m) = <<>>
    BY <1>1, <2>1, <2>2 DEF Fits, Leftover, Buffer
  <2>4. <<>> \o <<>> = <<>> /\ <<>> \in Seq(Piece)
    BY EmptySeq, ConcatEmptySeq
  <2>5. QED  BY <2>1, <2>3, <2>4
<1>3. CASE ~(n < 1)
  <2>1. Fits(m) = SubSeq(m, 1, 1) /\ Leftover(m) = SubSeq(m, 2, n)
    BY <1>1, <1>3 DEF Fits, Leftover, Buffer
  <2>2. \A i \in 1 .. n : m[i] \in Piece
    BY <1>1, ElementOfSeq
  <2>3. SubSeq(m, 1, 1) \in Seq(Piece) /\ SubSeq(m, 2, n) \in Seq(Piece)
    BY <1>1, <1>3, <2>2, SubSeqProperties
  <2>4. SubSeq(m, 1, 1) \o SubSeq(m, 1 + 1, n) = SubSeq(m, 1, n)
    BY <1>1, <1>3, ConcatAdjacentSubSeq
  <2>5. SubSeq(m, 1, n) = m
    BY <1>1, SubSeqFull
  <2>6. QED  BY <2>1, <2>3, <2>4, <2>5
<1>4. QED  BY <1>2, <1>3

LEMMA Associative ==
  ASSUME NEW a \in Seq(Piece), NEW b \in Seq(Piece), NEW c \in Seq(Piece)
  PROVE  (a \o b) \o c = a \o (b \o c)
BY ConcatAssociative

\* A chunk sent on: what it had in it is received, what it had not is left over.
LEMMA ChunkInv ==
  ASSUME IInv, NEW m \in Seq(Piece), Send(JournalEvent(Fits(m))),
         NEW n \in 0 .. Len(rows), Chunks(got) \o m = Upto(rows, n),
         reader' = [reader EXCEPT !.at = n, !.buf = Leftover(m)],
         reader.labels # {}, TypeOK',
         \A l \in Labels : l \in reader.labels <=> ~Shut(rows, n, l),
         UNCHANGED <<setup, muxVars, runner, farVars>>
  PROVE  IInv'
<1>1. Fits(m) \in Seq(Piece) /\ Leftover(m) \in Seq(Piece) /\ Fits(m) \o Leftover(m) = m
  BY Split
<1> DEFINE e == JournalEvent(Fits(m))
<1>2. e \in EventSet /\ e.type = "journal" /\ e.what = Fits(m)
  BY <1>1 DEF EventSet, JournalEvent, Event
<1>3. /\ got' = Append(got, e) /\ got' \in Seq(EventSet)
      /\ consumer' \in {"receive", "encode", "returned"}
      /\ ~Recorded(got)'
      /\ \A i \in DOMAIN got' : got'[i].type = "record" => i = Len(got')
      /\ Sending'
  BY <1>2, SendInv
<1>4. /\ rows' = rows /\ put' = put /\ wire' = wire /\ shown' = shown /\ setup' = setup
      /\ runner' = runner
  BY DEF muxVars, farVars
<1>5. /\ reader \in [at : Nat, labels : SUBSET Labels, buf : Seq(Piece)]
      /\ got \in Seq(EventSet) /\ rows \in Seq(RowSet)
  BY DEF IInv, Shape
<1>6. reader'.at = n /\ reader'.labels = reader.labels /\ reader'.buf = Leftover(m)
  BY <1>5
<1>7. reader' \in [at : Nat, labels : SUBSET Labels, buf : Seq(Piece)]
  <2>1. n \in Nat
    BY <1>5, LenProperties
  <2>2. QED  BY <1>1, <1>5, <2>1
<1>8. Shape'
  BY <1>3, <1>4, <1>7 DEF IInv, Shape
<1>9. Chunks(got') \o Leftover(m) = Upto(rows, n)
  <2>1. Chunks(got) \in Seq(Piece) /\ Chunks(got') = Chunks(got) \o Fits(m)
    <3>1. PICK x \in EventSet : x = e
      BY <1>2
    <3> HIDE DEF e
    <3>2. x.type = "journal" /\ x.what = Fits(m) /\ got' = Append(got, x)
      BY <1>2, <1>3, <3>1
    <3>3. QED  BY <1>5, <3>2, ChunksAppend
  <2>2. (Chunks(got) \o Fits(m)) \o Leftover(m) = Chunks(got) \o (Fits(m) \o Leftover(m))
    BY <1>1, <2>1, Associative
  <2>3. QED  BY <1>1, <2>1, <2>2
<1>10. Reading'
  BY <1>4, <1>6, <1>9 DEF IInv, Reading
<1>11. Recording'
  <2>1. ~(runner \in {"wait", "done"})
    BY DEF IInv, Reading
  <2>2. QED  BY <1>3, <1>4, <2>1 DEF Recording
<1>12. QED  BY <1>3, <1>8, <1>10, <1>11 DEF IInv

LEMMA CopyInv == ASSUME IInv, Copy PROVE IInv'
<1> DEFINE n == reader.at
           row == rows[n + 1]
<1>1. /\ rows \in Seq(RowSet) /\ got \in Seq(EventSet) /\ TypeOK /\ Len(rows) \in Nat
      /\ reader \in [at : Nat, labels : SUBSET Labels, buf : Seq(Piece)]
      /\ n \in 0 .. Len(rows)
      /\ Chunks(got) \in Seq(Piece)
  <2>1. rows \in Seq(RowSet) /\ got \in Seq(EventSet) /\ TypeOK
        /\ reader \in [at : Nat, labels : SUBSET Labels, buf : Seq(Piece)]
    BY DEF IInv, Shape
  <2>2. PICK e \in EventSet : e = LogEvent
    <3>1. <<>> \in Seq(Piece)
      BY EmptySeq
    <3>2. LogEvent \in EventSet
      BY <3>1 DEF LogEvent, Event, EventSet
    <3>3. QED  BY <3>2
  <2>3. Chunks(got) \in Seq(Piece)
    BY <2>1, <2>2, ChunksAppend
  <2>4. QED  BY <2>1, <2>3, LenProperties DEF TypeOK
<1>2. /\ Chunks(got) \o reader.buf = Upto(rows, n)
      /\ \A l \in Labels : l \in reader.labels <=> ~Shut(rows, n, l)
  BY DEF IInv, Reading
<1>3. reader.labels # {} /\ runner = "copy"
  BY DEF Copy, Ended
<1>4. UNCHANGED <<setup, muxVars, runner, farVars, job, callVars, jobVars>>
  BY DEF Copy, jobVars
<1>5. ASSUME reader.buf # <<>>, Send(JournalEvent(Fits(reader.buf))),
             reader' = [reader EXCEPT !.buf = Leftover(reader.buf)]
      PROVE  IInv'
  <2>1. reader' = [reader EXCEPT !.at = n, !.buf = Leftover(reader.buf)]
    BY <1>1, <1>5
  <2>2. TypeOK'
    BY <1>1, <1>4, <1>5 DEF Send, TypeOK, callVars, jobVars, muxVars, farVars
  <2>3. reader.buf \in Seq(Piece)
    BY <1>1
  <2>4. QED  BY <1>1, <1>2, <1>3, <1>4, <1>5, <2>1, <2>2, <2>3, ChunkInv
<1>6. ASSUME n < Len(rows)
      PROVE  /\ row \in RowSet /\ row.label \in Labels /\ row.msg \in Seq(Piece)
             /\ row.closed \in BOOLEAN
             /\ Upto(rows, n + 1) = Upto(rows, n) \o Adds(rows, n + 1)
             /\ \A l \in Labels : Shut(rows, n + 1, l) <=>
                                    Shut(rows, n, l) \/ (row.closed /\ row.label = l)
  <2>1. n + 1 \in 1 .. Len(rows) /\ n \in Nat
    BY <1>1, <1>6
  <2>2. row \in RowSet
    BY <1>1, <2>1, RowType
  <2>3. Upto(rows, n + 1) = Upto(rows, n) \o Adds(rows, n + 1)
    <3>1. PICK k \in Nat : k = n /\ k + 1 <= Len(rows)
      BY <1>1, <2>1
    <3>2. Upto(rows, k + 1) = Upto(rows, k) \o Adds(rows, k + 1)
      BY <1>1, <3>1, UptoNext
    <3>3. QED  BY <3>1, <3>2
  <2>4. \A l \in Labels : Shut(rows, n + 1, l) <=>
                            Shut(rows, n, l) \/ (row.closed /\ row.label = l)
    BY <2>1 DEF Shut
  <2>5. QED  BY <2>2, <2>3, <2>4 DEF RowSet
<1>7. ASSUME reader.buf = <<>>, n < Len(rows), ~row.closed, row.label \in reader.labels,
             Send(JournalEvent(Fits(row.msg))),
             reader' = [reader EXCEPT !.at = n + 1, !.buf = Leftover(row.msg)]
      PROVE  IInv'
  <2>1. PICK m \in Seq(Piece) : m = row.msg
    BY <1>6, <1>7
  <2>2. PICK k \in 0 .. Len(rows) : k = n + 1
    BY <1>1, <1>7
  <2>3. \A l \in Labels : l \in reader.labels <=> ~Shut(rows, k, l)
    BY <1>2, <1>6, <1>7, <2>2
  <2>4. Chunks(got) \o m = Upto(rows, k)
    <3>1. Adds(rows, n + 1) = m
      BY <1>6, <1>7, <2>1, <2>2, <2>3 DEF Adds
    <3>2. Chunks(got) \o <<>> = Chunks(got)
      BY <1>1, ConcatEmptySeq
    <3>3. QED  BY <1>2, <1>6, <1>7, <2>2, <3>1, <3>2
  <2>5. TypeOK'
    BY <1>1, <1>4, <1>7 DEF Send, TypeOK, callVars, jobVars, muxVars, farVars
  <2>6. QED  BY <1>3, <1>4, <1>7, <2>1, <2>2, <2>3, <2>4, <2>5, ChunkInv
<1>8. ASSUME reader.buf = <<>>, n < Len(rows), row.closed \/ row.label \notin reader.labels,
             reader' = [reader EXCEPT !.at = n + 1, !.labels = IF row.closed
                                         THEN reader.labels \ {row.label} ELSE reader.labels],
             UNCHANGED <<got, consumer>>
      PROVE  IInv'
  <2>1. /\ reader'.at = n + 1 /\ reader'.buf = <<>>
        /\ reader'.labels = IF row.closed THEN reader.labels \ {row.label} ELSE reader.labels
        /\ reader' \in [at : Nat, labels : SUBSET Labels, buf : Seq(Piece)]
    <3>1. PICK k \in Nat : k = n + 1
      BY <1>1
    <3>2. PICK b \in SUBSET Labels :
            b = IF row.closed THEN reader.labels \ {row.label} ELSE reader.labels
      BY <1>1
    <3>3. reader' = [reader EXCEPT !.at = k, !.labels = b]
      BY <1>8, <3>1, <3>2
    <3>4. QED  BY <1>1, <1>8, <3>1, <3>2, <3>3
  <2>2. TypeOK'
    BY <1>1, <1>4, <1>8, <2>1 DEF TypeOK, callVars, jobVars, muxVars, farVars
  <2>3. Adds(rows, n + 1) = <<>>
    BY <1>2, <1>6, <1>8 DEF Adds
  <2>4. Upto(rows, n + 1) = Upto(rows, n)
    <3>1. Upto(rows, n) \in Seq(Piece)
      BY <1>1, AddsSeq
    <3>2. Upto(rows, n) \o <<>> = Upto(rows, n)
      BY <3>1, ConcatEmptySeq
    <3>3. QED  BY <1>6, <1>8, <2>3, <3>2
  <2>5. \A l \in Labels : l \in reader'.labels <=> ~Shut(rows, n + 1, l)
    BY <1>2, <1>6, <1>8, <2>1
  <2>6. /\ rows' = rows /\ put' = put /\ wire' = wire /\ shown' = shown /\ setup' = setup
        /\ runner' = runner /\ got' = got /\ consumer' = consumer /\ job' = job
        /\ line' = line /\ far' = far
    BY <1>4, <1>8 DEF muxVars, farVars
  <2>7. Shape'
    BY <2>1, <2>2, <2>6 DEF IInv, Shape
  <2>8. Reading'
    BY <1>2, <1>3, <1>8, <2>1, <2>4, <2>5, <2>6 DEF Reading
  <2>9. Recording' /\ Sending'
    BY <2>6 DEF IInv, Recording, Sending
  <2>10. QED  BY <2>7, <2>8, <2>9 DEF IInv
<1>9. QED
  BY <1>5, <1>7, <1>8 DEF Copy
-----------------------------------------------------------------------------
\* Steps of the far side's line and terminal, and of the publisher: the events
\* received, the rows and the reader of them stay.
LEMMA FarInv ==
  ASSUME IInv, PublisherUnchanged, TypeOK', Sending',
         wire' \in Seq(EventSet), shown' \in Seq(EventSet),
         Recorded(got) => consumer' \in {"encode", "returned", "panicked"}
  PROVE  IInv'
<1>1. /\ setup' = setup /\ rows' = rows /\ put' = put /\ reader' = reader /\ got' = got
      /\ runner' = runner /\ job' = job
  BY DEF PublisherUnchanged, muxVars, jobVars
<1>2. Shape'
  BY <1>1 DEF IInv, Shape
<1>3. Reading'
  BY <1>1 DEF IInv, Reading
<1>4. Recording'
  BY <1>1 DEF IInv, Recording, Recorded
<1>5. QED  BY <1>2, <1>3, <1>4 DEF IInv

LEMMA EncodeInv == ASSUME IInv, Encode PROVE IInv'
<1>1. /\ got \in Seq(EventSet) /\ wire \in Seq(EventSet) /\ shown \in Seq(EventSet)
      /\ Len(got) \in Nat /\ Len(wire) \in Nat /\ Len(shown) \in Nat
      /\ consumer = "encode" /\ setup.remote /\ got # <<>> /\ got[Len(got)] \in EventSet
  <2>1. got \in Seq(EventSet) /\ wire \in Seq(EventSet) /\ shown \in Seq(EventSet)
    BY DEF IInv, Shape
  <2>2. consumer = "encode" /\ setup.remote /\ got # <<>>
    BY DEF Encode, IInv, Sending
  <2>3. Len(got) \in Nat \ {0} /\ Len(got) \in 1 .. Len(got)
    BY <2>1, <2>2, EmptySeq, LenProperties
  <2>4. got[Len(got)] \in EventSet
    BY <2>1, <2>3, ElementOfSeq
  <2>5. QED  BY <2>1, <2>2, <2>3, <2>4, LenProperties
<1>2. UNCHANGED <<setup, line, shown, far, got>>
  BY DEF Encode, PublisherUnchanged
<1>3. TypeOK'
  BY DEF IInv, Shape, Encode, PublisherUnchanged, TypeOK, callVars, jobVars, muxVars
<1>4. Len(got) # 0
  BY <1>1, EmptySeq
<1>5. /\ Len(wire) <= Len(got) /\ \A i \in 1 .. Len(wire) : wire[i] = got[i]
      /\ Len(shown) <= Len(wire) /\ \A i \in 1 .. Len(shown) : shown[i] = wire[i]
      /\ line = "up" => Len(wire) = Len(got) - 1
      /\ far = "returned" => shown # <<>> /\ Last(shown).type = "record"
  BY <1>1 DEF IInv, Sending, Begins
<1>6. ASSUME line = "up", wire' = Append(wire, got[Len(got)]),
             consumer' = IF got[Len(got)].type = "record" THEN "returned" ELSE "receive"
      PROVE  IInv'
  <2>1. PICK e \in EventSet : e = got[Len(got)]
    BY <1>1
  <2>2. /\ wire' \in Seq(EventSet) /\ Len(wire') = Len(wire) + 1
        /\ \A i \in 1 .. Len(wire) : wire'[i] = wire[i]
        /\ wire'[Len(wire) + 1] = e
    BY <1>1, <1>6, <2>1, AppendProperties
  <2>3. Len(wire') = Len(got)
    BY <1>1, <1>5, <1>6, <2>2
  <2>4. \A i \in 1 .. Len(wire') : wire'[i] = got[i]
    BY <1>1, <1>5, <1>6, <2>1, <2>2, <2>3
  <2>5. Len(shown) <= Len(wire') /\ \A i \in 1 .. Len(shown) : shown[i] = wire'[i]
    BY <1>1, <1>5, <2>2
  <2>6. Sending'
    BY <1>1, <1>2, <1>5, <1>6, <2>3, <2>4, <2>5 DEF Sending, Begins
  <2>7. Recorded(got) => got[Len(got)].type = "record"
    BY DEF IInv, Recording, Recorded
  <2>8. QED  BY <1>1, <1>2, <1>3, <1>6, <2>2, <2>6, <2>7, FarInv DEF Encode
<1>7. ASSUME line # "up", consumer' = "panicked", UNCHANGED wire PROVE IInv'
  <2>1. Sending'
    BY <1>1, <1>2, <1>5, <1>7 DEF Sending, Begins
  <2>2. QED  BY <1>1, <1>2, <1>3, <1>7, <2>1, FarInv DEF Encode
<1>8. QED  BY <1>6, <1>7 DEF Encode, Last

LEMMA HangUpInv == ASSUME IInv, HangUp PROVE IInv'
<1>1. UNCHANGED <<setup, wire, shown, far, got>> /\ PublisherUnchanged
  BY DEF HangUp, PublisherUnchanged
<1>2. TypeOK'
  BY DEF IInv, Shape, HangUp, PublisherUnchanged, TypeOK, callVars, jobVars, muxVars
<1>3. line' = "eof" /\ consumer' # "encode"
  BY DEF HangUp
<1>4. Sending'
  BY <1>1, <1>3 DEF IInv, Sending, Begins
<1>5. wire' \in Seq(EventSet) /\ shown' \in Seq(EventSet)
  BY <1>1 DEF IInv, Shape
<1>6. Recorded(got) => consumer' \in {"encode", "returned", "panicked"}
  BY DEF IInv, Recording, HangUp
<1>7. QED  BY <1>1, <1>2, <1>4, <1>5, <1>6, FarInv

LEMMA CutInv == ASSUME IInv, Cut PROVE IInv'
<1>1. UNCHANGED <<setup, shown, far, got, consumer>> /\ PublisherUnchanged
  BY DEF Cut, PublisherUnchanged
<1>2. TypeOK'
  BY DEF IInv, Shape, Cut, PublisherUnchanged, TypeOK, callVars, jobVars, muxVars
<1>3. /\ got \in Seq(EventSet) /\ wire \in Seq(EventSet) /\ shown \in Seq(EventSet)
      /\ Len(got) \in Nat /\ Len(wire) \in Nat /\ Len(shown) \in Nat
      /\ \A i \in 1 .. Len(wire) : wire[i] \in EventSet
  BY LenProperties, ElementOfSeq DEF IInv, Shape
<1>4. PICK k \in Len(shown) .. Len(wire) : wire' = SubSeq(wire, 1, k)
  BY DEF Cut
<1>5. /\ wire' \in Seq(EventSet) /\ Len(wire') = k /\ k \in Nat
      /\ \A i \in 1 .. k : wire'[i] = wire[i]
  <2>1. k \in Nat /\ \A i \in 1 .. k : wire[i] \in EventSet
    BY <1>3, <1>4
  <2>2. /\ SubSeq(wire, 1, k) \in Seq(EventSet)
        /\ Len(SubSeq(wire, 1, k)) = IF 1 <= k THEN k - 1 + 1 ELSE 0
        /\ \A i \in 1 .. k - 1 + 1 : SubSeq(wire, 1, k)[i] = wire[1 + i - 1]
    BY <2>1, SubSeqProperties
  <2>3. QED  BY <1>4, <2>1, <2>2
<1>6. line' # "up"
  BY DEF Cut
<1>7. Sending'
  BY <1>1, <1>3, <1>4, <1>5, <1>6 DEF IInv, Sending, Begins
<1>8. /\ Recorded(got) => consumer' \in {"encode", "returned", "panicked"}
      /\ shown' = shown
  BY <1>1 DEF IInv, Recording
<1>9. QED  BY <1>1, <1>2, <1>3, <1>5, <1>7, <1>8, FarInv

LEMMA FarStepInv == ASSUME IInv, FarStep PROVE IInv'
<1>1. UNCHANGED <<setup, wire, line, got, consumer>> /\ PublisherUnchanged
  BY DEF FarStep, PublisherUnchanged
<1>2. TypeOK'
  BY DEF IInv, Shape, FarStep, PublisherUnchanged, TypeOK, callVars, jobVars, muxVars
<1>3. /\ wire \in Seq(EventSet) /\ shown \in Seq(EventSet)
      /\ Len(wire) \in Nat /\ Len(shown) \in Nat
      /\ \A i \in 1 .. Len(wire) : wire[i] \in EventSet
      /\ Len(shown) <= Len(wire) /\ \A i \in 1 .. Len(shown) : shown[i] = wire[i]
  BY LenProperties, ElementOfSeq DEF IInv, Shape, Sending, Begins
<1>4. ASSUME NEW e, e = wire[Len(shown) + 1], Len(shown) < Len(wire), shown' = Append(shown, e),
             far' = IF e.type = "record" THEN "returned" ELSE far
      PROVE  IInv'
  <2>1. e \in EventSet
    BY <1>3, <1>4
  <2>2. /\ shown' \in Seq(EventSet) /\ Len(shown') = Len(shown) + 1 /\ shown' # <<>>
        /\ \A i \in 1 .. Len(shown) : shown'[i] = shown[i]
        /\ shown'[Len(shown) + 1] = e
    BY <1>3, <1>4, <2>1, AppendProperties
  <2>3. Begins(shown, wire)'
    BY <1>1, <1>3, <1>4, <2>2 DEF Begins
  <2>4. far' = "returned" => Last(shown').type = "record"
    BY <1>3, <1>4, <2>2 DEF FarStep, Last
  <2>5. Sending'
    BY <1>1, <2>2, <2>3, <2>4 DEF IInv, Sending, Begins
  <2>6. /\ Recorded(got) => consumer' \in {"encode", "returned", "panicked"}
        /\ wire' = wire
    BY <1>1 DEF IInv, Recording
  <2>7. QED  BY <1>1, <1>2, <1>3, <2>2, <2>5, <2>6, FarInv
<1>5. ASSUME far' = "panicked", UNCHANGED shown PROVE IInv'
  <2>1. Sending'
    BY <1>1, <1>5 DEF IInv, Sending, Begins
  <2>2. /\ Recorded(got) => consumer' \in {"encode", "returned", "panicked"}
        /\ wire' = wire
    BY <1>1 DEF IInv, Recording
  <2>3. QED  BY <1>1, <1>2, <1>3, <1>5, <2>1, <2>2, FarInv
<1>6. QED  BY <1>4, <1>5 DEF FarStep
-----------------------------------------------------------------------------
LEMMA NextInv == IInv /\ [Next]_vars => IInv'
<1> SUFFICES ASSUME IInv, [Next]_vars PROVE IInv'
  OBVIOUS
<1>1. ASSUME UNCHANGED vars PROVE IInv'
  <2>1. UNCHANGED <<setup, muxVars, reader, got, consumer, farVars, runner, job>>
    BY <1>1 DEF vars, jobVars
  <2>2. TypeOK'
    BY <1>1 DEF IInv, Shape, TypeOK, vars, callVars, jobVars, muxVars, farVars
  <2>3. runner \in {"wait", "done"} => reader.labels = {}
    BY DEF IInv, Reading
  <2>4. QED  BY <2>1, <2>2, <2>3, QuietInv
<1>2. ASSUME StartRun \/ Quit \/ ProcExits PROVE IInv'
  BY <1>2, QuietStepsInv
<1>3. ASSUME Run PROVE IInv'
  BY <1>3, QuietStepsInv, CopyInv, SendRecordInv DEF Run
<1>4. ASSUME Jobs \/ Straggle PROVE IInv'
  BY <1>4, LogInv, TerminateInv DEF Jobs
<1>5. ASSUME NEW f \in Followers, FollowEvents(f) \/ Rig(f) PROVE IInv'
  BY <1>5, QuietStepsInv
<1>6. ASSUME NEW l \in Labels, NEW k \in 1 .. 2, write(l, k) PROVE IInv'
  BY <1>6, WriteInv
<1>7. ASSUME Encode \/ HangUp \/ Cut \/ FarStep PROVE IInv'
  BY <1>7, EncodeInv, HangUpInv, CutInv, FarStepInv
<1>8. QED
  BY <1>1, <1>2, <1>3, <1>4, <1>5, <1>6, <1>7 DEF Next

LEMMA Invariance == Spec => []IInv
BY InitInv, NextInv, PTL DEF Spec

\* The journal a follower receives is what the process wrote, in that order and
\* without a gap, and once the record arrived it is all of it (runner.go:85-104):
\* no row is lost at the end of a stream, or split so that a piece is missing.
THEOREM JournalAlwaysFaithful == Spec => []JournalIsFaithful
<1>1. IInv => JournalIsFaithful
  <2> SUFFICES ASSUME IInv PROVE JournalIsFaithful
    OBVIOUS
  <2>1. /\ rows \in Seq(RowSet) /\ got \in Seq(EventSet) /\ reader.at \in 0 .. Len(rows)
        /\ reader.buf \in Seq(Piece) /\ TypeOK
    BY DEF IInv, Shape, TypeOK
  <2>2. PICK n \in 0 .. Len(rows) : n = reader.at
    BY <2>1
  <2>3. /\ Written = Upto(rows, Len(rows)) /\ IsPrefix(Upto(rows, n), Written)
        /\ AllShut(rows, n) => Upto(rows, n) = Written
    BY <2>1, WrittenIsUpto, UptoGrows
  <2>4. Upto(rows, n) \in Seq(Piece) /\ Len(rows) \in 0 .. Len(rows) /\ Written \in Seq(Piece)
    <3>1. Len(rows) \in Nat
      BY <2>1, LenProperties
    <3>2. QED  BY <2>1, <2>3, <3>1, AddsSeq
  <2>5. Chunks(got) \in Seq(Piece) /\ Chunks(got) \o reader.buf = Upto(rows, n)
    <3>1. PICK e \in EventSet : e = LogEvent
      BY EmptySeq DEF EventSet, LogEvent, Event
    <3>2. Chunks(got) \in Seq(Piece)
      BY <2>1, <3>1, ChunksAppend
    <3>3. QED  BY <2>2, <3>2 DEF IInv, Reading
  <2>6. IsPrefix(Chunks(got), Written)
    <3>1. IsPrefix(Chunks(got), Upto(rows, n))
      BY <2>1, <2>5, PrefixReflexive, PrefixOfConcat
    <3>2. QED  BY <2>3, <2>4, <2>5, <3>1, PrefixTransitive
  <2>7. ASSUME Recorded(got) PROVE Chunks(got) = Written
    <3>1. reader.labels = {} /\ reader.buf = <<>>
      BY <2>7 DEF IInv, Reading, Recording
    <3>2. AllShut(rows, n)
      BY <2>2, <3>1 DEF IInv, Reading, AllShut
    <3>3. Chunks(got) \o <<>> = Chunks(got)
      BY <2>5, ConcatEmptySeq
    <3>4. QED  BY <2>3, <2>5, <3>1, <3>2, <3>3
  <2>8. QED  BY <2>1, <2>6, <2>7 DEF JournalIsFaithful
<1>2. QED  BY <1>1, Invariance, PTL

\* The record is the last event that is sent, and it is not sent before the job is
\* over (runner.go:99, util.go:15), whatever goroutines of the job still log.
THEOREM RecordAlwaysLast == Spec => []RecordComesLast
<1>1. IInv => RecordComesLast
  BY DEF IInv, Recording, Recorded, RecordComesLast
<1>2. QED  BY <1>1, Invariance, PTL

\* A remote terminal shows a part of the events from their beginning, and returns
\* only a record that came after all the others, wherever the line is cut
\* (runObserver.go, runObserverSrv.go).
THEOREM FarSideAlwaysFollows == Spec => []FarSideFollows
<1>1. IInv => FarSideFollows
  <2> SUFFICES ASSUME IInv PROVE FarSideFollows
    OBVIOUS
  <2>1. /\ got \in Seq(EventSet) /\ shown \in Seq(EventSet)
        /\ Len(got) \in Nat /\ Len(wire) \in Nat /\ Len(shown) \in Nat
        /\ DOMAIN got = 1 .. Len(got)
    BY LenProperties DEF IInv, Shape
  <2>2. Begins(shown, got)
    <3>1. Begins(shown, wire) /\ Begins(wire, got)
      BY DEF IInv, Sending
    <3>2. QED  BY <2>1, <3>1 DEF Begins
  <2>3. IsPrefix(shown, got)
    BY <2>1, <2>2, PrefixByElement
  <2>4. ASSUME far = "returned" PROVE shown = got /\ Last(shown).type = "record"
    <3>1. shown # <<>> /\ Last(shown).type = "record"
      BY <2>4 DEF IInv, Sending
    <3>2. Len(shown) \in 1 .. Len(shown)
      BY <2>1, <3>1, EmptySeq
    <3>3. Len(shown) \in DOMAIN got /\ got[Len(shown)].type = "record"
      BY <2>1, <2>2, <3>1, <3>2 DEF Begins, Last
    <3>4. Len(shown) = Len(got)
      BY <3>3 DEF IInv, Recording
    <3>5. shown = got
      BY <2>1, <2>2, <3>4, SeqEqual DEF Begins
    <3>6. QED  BY <3>1, <3>5
  <2>5. QED  BY <2>3, <2>4 DEF FarSideFollows
<1>2. QED  BY <1>1, Invariance, PTL
=============================================================================
