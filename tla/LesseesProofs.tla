--------------------------- MODULE LesseesProofs ---------------------------
(***************************************************************************)
(* Plans and their lessees, for any number of plans, tokens, commissions   *)
(* and workers: the three indexes agree, a lease is exclusive, a           *)
(* commission's plans keep their order, and only the holder removes one.   *)
(***************************************************************************)
EXTENDS Lessees, SequenceTheorems, WellFoundedInduction, TLAPS

\* The parts of IndexesAgree: each plan is queued once, a lease in force is of
\* a queued plan, a leased plan is known by its lease, and what may be replaced
\* is queued and not leased.
Once == \A i, j \in DOMAIN queue : queue[i] = queue[j] => i = j
LeasesLead == \A t \in Tokens : leasesIndex[t] # NoPlan =>
                leasesIndex[t] \in Queued /\ leasedAs[leasesIndex[t]] = t
LeasedAreIndexed == \A p \in Queued : leasedAs[p] # NoToken => leasesIndex[leasedAs[p]] = p
Replaceable == \A c \in Commissions : commissionIndex[c] # NoPlan =>
                 /\ commissionIndex[c] \in Queued
                 /\ by[commissionIndex[c]] = c
                 /\ leasedAs[commissionIndex[c]] = NoToken

\* Plans are numbered as they are pushed, and what may be replaced is the newest
\* of its commission and was never leased: else the plan that takes its place
\* could stand in front of an older one.
Numbered == \A p \in Queued \cup leased : p <= pushed
Newest == \A c \in Commissions : commissionIndex[c] # NoPlan =>
            /\ commissionIndex[c] \notin leased
            /\ \A p \in Queued : by[p] = c => p <= commissionIndex[c]

\* No two workers hold a token, and a token in force leads to the plan it was
\* leased with.
TokensDiffer == \A v, w \in Workers : held[v] # NoToken /\ held[v] = held[w] => v = w
HeldIsGot == \A w \in Workers :
  held[w] # NoToken /\ leasesIndex[held[w]] # NoPlan => leasesIndex[held[w]] = got[w]

Structure == Once /\ LeasesLead /\ LeasedAreIndexed /\ Replaceable
Workings  == Numbered /\ Newest /\ TokensDiffer /\ HeldIsGot
IInv == TypeOK /\ Structure /\ InOrder /\ Workings

-----------------------------------------------------------------------------
\* What At chooses, in a sequence that has nothing twice.
LEMMA WhereItIs ==
  ASSUME NEW S, NEW q \in Seq(S), \A i, j \in DOMAIN q : q[i] = q[j] => i = j,
         NEW k \in DOMAIN q
  PROVE  (CHOOSE i \in DOMAIN q : q[i] = q[k] /\ \A j \in 1 .. i - 1 : q[j] # q[k]) = k
<1>1. DOMAIN q = 1 .. Len(q) /\ Len(q) \in Nat
  BY LenProperties
<1>2. \A j \in 1 .. k - 1 : j \in DOMAIN q /\ j # k
  BY <1>1
<1>3. \A j \in 1 .. k - 1 : q[j] # q[k]
  BY <1>2
<1>4. \A i \in DOMAIN q : (q[i] = q[k] /\ \A j \in 1 .. i - 1 : q[j] # q[k]) <=> i = k
  BY <1>3
<1>5. QED  BY <1>4

LEMMA AtFinds ==
  ASSUME PlansTypeOK, Once, NEW p \in Queued
  PROVE  /\ DOMAIN queue = 1 .. Len(queue) /\ Len(queue) \in Nat
         /\ At(p) \in DOMAIN queue /\ queue[At(p)] = p
         /\ \A i \in DOMAIN queue : queue[i] = p => i = At(p)
<1>1. queue \in Seq(Ids)
  BY DEF PlansTypeOK
<1>2. PICK k \in DOMAIN queue : queue[k] = p
  BY DEF Queued
<1>3. At(p) = k
  BY <1>1, <1>2, WhereItIs DEF Once, At
<1>4. QED  BY <1>1, <1>2, <1>3, LenProperties DEF Once

\* The sequence without its element number i.
LEMMA WithoutOne ==
  ASSUME NEW S, NEW q \in Seq(S), NEW i \in 1 .. Len(q)
  PROVE  /\ RemoveAt(q, i) \in Seq(S)
         /\ Len(RemoveAt(q, i)) = Len(q) - 1
         /\ \A j \in 1 .. Len(q) - 1 : RemoveAt(q, i)[j] = IF j < i THEN q[j] ELSE q[j + 1]
<1> DEFINE a == SubSeq(q, 1, i - 1)
           b == SubSeq(q, i + 1, Len(q))
<1>1. Len(q) \in Nat /\ \A j \in 1 .. Len(q) : q[j] \in S
  BY LenProperties, ElementOfSeq
<1>2. a \in Seq(S) /\ Len(a) = i - 1 /\ \A j \in 1 .. i - 1 : a[j] = q[j]
  <2>1. 1 \in Int /\ i - 1 \in Int /\ \A j \in 1 .. i - 1 : q[j] \in S
    BY <1>1
  <2>2. /\ a \in Seq(S) /\ Len(a) = IF 1 <= i - 1 THEN i - 1 - 1 + 1 ELSE 0
        /\ \A j \in 1 .. i - 1 - 1 + 1 : a[j] = q[1 + j - 1]
    BY <2>1, SubSeqProperties
  <2> HIDE DEF a
  <2>3. \A j \in 1 .. i - 1 : j \in 1 .. i - 1 - 1 + 1 /\ 1 + j - 1 = j
    BY <1>1
  <2>4. QED  BY <1>1, <2>2, <2>3
<1>3. b \in Seq(S) /\ Len(b) = Len(q) - i /\ \A j \in 1 .. Len(q) - i : b[j] = q[i + j]
  <2>1. i + 1 \in Int /\ Len(q) \in Int /\ \A j \in i + 1 .. Len(q) : q[j] \in S
    BY <1>1
  <2>2. /\ b \in Seq(S) /\ Len(b) = IF i + 1 <= Len(q) THEN Len(q) - (i + 1) + 1 ELSE 0
        /\ \A j \in 1 .. Len(q) - (i + 1) + 1 : b[j] = q[i + 1 + j - 1]
    BY <2>1, SubSeqProperties
  <2> HIDE DEF b
  <2>3. \A j \in 1 .. Len(q) - i : j \in 1 .. Len(q) - (i + 1) + 1 /\ i + 1 + j - 1 = i + j
    BY <1>1
  <2>4. QED  BY <1>1, <2>2, <2>3
<1>4. RemoveAt(q, i) = a \o b
  BY DEF RemoveAt
<1> HIDE DEF a, b
<1>5. /\ a \o b \in Seq(S) /\ Len(a \o b) = Len(a) + Len(b)
      /\ \A j \in 1 .. Len(a) + Len(b) : (a \o b)[j] = IF j <= Len(a) THEN a[j] ELSE b[j - Len(a)]
  BY <1>2, <1>3, ConcatProperties
<1>6. Len(a) + Len(b) = Len(q) - 1
  BY <1>1, <1>2, <1>3
<1>7. ASSUME NEW j \in 1 .. Len(q) - 1
      PROVE  (a \o b)[j] = IF j < i THEN q[j] ELSE q[j + 1]
  <2>1. CASE j < i
    <3>1. j <= Len(a) /\ j \in 1 .. i - 1
      BY <1>1, <1>2, <2>1
    <3>2. QED  BY <1>2, <1>5, <1>6, <2>1, <3>1
  <2>2. CASE ~(j < i)
    <3>1. ~(j <= Len(a)) /\ j - Len(a) \in 1 .. Len(q) - i /\ i + (j - Len(a)) = j + 1
      BY <1>1, <1>2, <2>2
    <3>2. QED  BY <1>3, <1>5, <1>6, <2>2, <3>1
  <2>3. QED  BY <2>1, <2>2
<1>8. QED  BY <1>4, <1>5, <1>6, <1>7

\* What is left of the queue is as it was, in the same order.
LEMMA QueueWithout ==
  ASSUME PlansTypeOK, Once, NEW p \in Queued, queue' = RemoveAt(queue, At(p))
  PROVE  /\ queue' \in Seq(Ids) /\ Once' /\ Queued' = Queued \ {p}
         /\ \A i, j \in DOMAIN queue' : i < j =>
              \E k, l \in DOMAIN queue : k < l /\ queue'[i] = queue[k] /\ queue'[j] = queue[l]
<1> DEFINE n == Len(queue)
           from(j) == IF j < At(p) THEN j ELSE j + 1
<1>1. queue \in Seq(Ids) /\ n \in Nat /\ DOMAIN queue = 1 .. n
  BY LenProperties DEF PlansTypeOK
<1>2. At(p) \in 1 .. n /\ queue[At(p)] = p /\ \A i \in 1 .. n : queue[i] = p => i = At(p)
  BY <1>1, AtFinds
<1>3. queue' \in Seq(Ids) /\ Len(queue') = n - 1 /\ DOMAIN queue' = 1 .. n - 1
      /\ \A j \in 1 .. n - 1 : queue'[j] = IF j < At(p) THEN queue[j] ELSE queue[j + 1]
  <2>1. /\ queue' \in Seq(Ids) /\ Len(queue') = n - 1
        /\ \A j \in 1 .. n - 1 : queue'[j] = IF j < At(p) THEN queue[j] ELSE queue[j + 1]
    BY <1>1, <1>2, WithoutOne
  <2>2. QED  BY <2>1, LenProperties
<1>4. \A j \in 1 .. n - 1 : from(j) \in 1 .. n /\ from(j) # At(p) /\ queue'[j] = queue[from(j)]
  BY <1>1, <1>2, <1>3
<1>5. \A i, j \in 1 .. n - 1 : i < j => from(i) < from(j)
  BY <1>2
<1>6. \A k \in 1 .. n : k # At(p) => \E j \in 1 .. n - 1 : from(j) = k
  <2>1. ASSUME NEW k \in 1 .. n, k # At(p) PROVE \E j \in 1 .. n - 1 : from(j) = k
    <3>1. CASE k < At(p)
      <4>1. k \in 1 .. n - 1 /\ from(k) = k
        BY <1>1, <1>2, <3>1
      <4>2. QED  BY <4>1
    <3>2. CASE k > At(p)
      <4>1. k - 1 \in 1 .. n - 1 /\ from(k - 1) = k
        BY <1>1, <1>2, <3>2
      <4>2. QED  BY <4>1
    <3>3. QED  BY <1>2, <2>1, <3>1, <3>2
  <2>2. QED  BY <2>1
<1> HIDE DEF from
<1>7. \A i, j \in DOMAIN queue' : i < j =>
        \E k, l \in DOMAIN queue : k < l /\ queue'[i] = queue[k] /\ queue'[j] = queue[l]
  BY <1>1, <1>3, <1>4, <1>5
<1>8. Once'
  <2>1. ASSUME NEW i \in 1 .. n - 1, NEW j \in 1 .. n - 1, queue'[i] = queue'[j], i # j
        PROVE  FALSE
    <3>1. from(i) = from(j)
      BY <1>1, <1>4, <2>1 DEF Once
    <3>2. i < j \/ j < i
      BY <2>1
    <3>3. from(i) < from(j) \/ from(j) < from(i)
      BY <1>5, <3>2
    <3>4. from(i) \in Nat /\ from(j) \in Nat
      BY <1>4
    <3>5. QED  BY <3>1, <3>3, <3>4
  <2>2. QED  BY <1>3, <2>1 DEF Once
<1>9. Queued' = Queued \ {p}
  <2>1. ASSUME NEW x \in Queued' PROVE x \in Queued \ {p}
    <3>1. PICK j \in 1 .. n - 1 : queue'[j] = x
      BY <1>3 DEF Queued
    <3>2. x = queue[from(j)] /\ from(j) \in 1 .. n /\ from(j) # At(p)
      BY <1>4, <3>1
    <3>3. QED  BY <1>1, <1>2, <3>2 DEF Queued
  <2>2. ASSUME NEW x \in Queued \ {p} PROVE x \in Queued'
    <3>1. PICK k \in 1 .. n : queue[k] = x
      BY <1>1 DEF Queued
    <3>2. PICK j \in 1 .. n - 1 : from(j) = k
      BY <1>2, <1>6, <2>2, <3>1
    <3>3. QED  BY <1>3, <1>4, <3>1, <3>2 DEF Queued
  <2>3. QED  BY <2>1, <2>2
<1>10. QED  BY <1>3, <1>7, <1>8, <1>9

\* A new plan takes the place of an old one, or the last place.
LEMMA QueueWithReplaced ==
  ASSUME PlansTypeOK, Once, NEW o \in Queued, NEW n \in Ids, n \notin Queued,
         queue' = ReplaceAt(queue, At(o), n)
  PROVE  /\ queue' \in Seq(Ids) /\ DOMAIN queue' = DOMAIN queue
         /\ At(o) \in DOMAIN queue /\ queue[At(o)] = o
         /\ \A i \in DOMAIN queue : queue'[i] = IF i = At(o) THEN n ELSE queue[i]
         /\ Once' /\ Queued' = (Queued \ {o}) \cup {n} /\ At(n)' = At(o)
<1>1. queue \in Seq(Ids) /\ DOMAIN queue = 1 .. Len(queue)
  BY LenProperties DEF PlansTypeOK
<1>2. /\ At(o) \in DOMAIN queue /\ queue[At(o)] = o
      /\ \A i \in DOMAIN queue : queue[i] = o => i = At(o)
  BY AtFinds
<1>3. /\ queue' \in Seq(Ids) /\ DOMAIN queue' = DOMAIN queue
      /\ \A i \in DOMAIN queue : queue'[i] = IF i = At(o) THEN n ELSE queue[i]
  <2>1. queue' = [queue EXCEPT ![At(o)] = n]
    BY DEF ReplaceAt
  <2>2. queue' \in Seq(Ids) /\ Len(queue') = Len(queue)
    BY <1>1, <1>2, <2>1, ExceptSeq
  <2>3. QED  BY <1>1, <2>1, <2>2, LenProperties
<1>4. Once'
  BY <1>1, <1>2, <1>3 DEF Once, Queued
<1>5. Queued' = (Queued \ {o}) \cup {n}
  BY <1>1, <1>2, <1>3 DEF Queued
<1>6. At(n)' = At(o)
  <2>1. queue'[At(o)] = n
    BY <1>2, <1>3
  <2> DEFINE k == At(o)
  <2>2. k \in DOMAIN queue'
    BY <1>2, <1>3
  <2> HIDE DEF k
  <2>3. At(n)' = k
    <3>1. queue'[k] = n
      BY <2>1 DEF k
    <3>2. QED  BY <1>3, <1>4, <2>2, <3>1, WhereItIs DEF Once, At
  <2>4. QED  BY <2>3 DEF k
<1>7. QED  BY <1>2, <1>3, <1>4, <1>5, <1>6

LEMMA QueueWithAppended ==
  ASSUME PlansTypeOK, Once, NEW n \in Ids, n \notin Queued, queue' = Append(queue, n)
  PROVE  /\ queue' \in Seq(Ids) /\ DOMAIN queue' = DOMAIN queue \cup {Len(queue) + 1}
         /\ \A i \in DOMAIN queue : i < Len(queue) + 1 /\ queue'[i] = queue[i]
         /\ queue'[Len(queue) + 1] = n /\ Len(queue) + 1 \notin DOMAIN queue
         /\ Once' /\ Queued' = Queued \cup {n}
<1>1. queue \in Seq(Ids) /\ Len(queue) \in Nat /\ DOMAIN queue = 1 .. Len(queue)
  BY LenProperties DEF PlansTypeOK
<1>2. /\ queue' \in Seq(Ids) /\ Len(queue') = Len(queue) + 1 /\ DOMAIN queue' = 1 .. Len(queue')
      /\ \A i \in 1 .. Len(queue) : queue'[i] = queue[i]
      /\ queue'[Len(queue) + 1] = n
  BY <1>1, AppendProperties, LenProperties
<1>3. DOMAIN queue' = DOMAIN queue \cup {Len(queue) + 1}
      /\ \A i \in DOMAIN queue : i < Len(queue) + 1 /\ queue'[i] = queue[i]
      /\ Len(queue) + 1 \notin DOMAIN queue
  BY <1>1, <1>2
<1>4. Once'
  BY <1>2, <1>3 DEF Once, Queued
<1>5. Queued' = Queued \cup {n}
  BY <1>2, <1>3 DEF Queued
<1>6. QED  BY <1>2, <1>3, <1>4, <1>5

\* The first plan without a lease, when there is one.
LEMMA FirstLeasable ==
  ASSUME PlansTypeOK, Leasable # {}
  PROVE  nextLeasable \in DOMAIN queue /\ leasedAs[queue[nextLeasable]] = NoToken
<1> DEFINE R == {ss \in Nat \X Nat : ss[1] < ss[2]}
<1>1. Leasable \subseteq Nat
  BY LenProperties DEF PlansTypeOK, Leasable
<1>2. IsWellFoundedOn(R, Nat)
  BY NatLessThanWellFounded DEF OpToRel
<1>3. PICK i \in Leasable : \A j \in Leasable : ~(<<j, i>> \in R)
  <2> HIDE DEF R
  <2>1. QED  BY <1>1, <1>2, WFMin
<1>4. ASSUME NEW j \in Leasable PROVE i <= j
  <2>1. ~(j < i)
    BY <1>1, <1>3, <1>4
  <2>2. QED  BY <1>1, <2>1
<1>5. nextLeasable \in Leasable
  BY <1>4 DEF nextLeasable
<1>6. QED  BY <1>5 DEF Leasable
-----------------------------------------------------------------------------
LEMMA InitInv == Init => IInv
<1> SUFFICES ASSUME Init PROVE IInv
  OBVIOUS
<1> USE DEF Init, NewPlans
<1>1. queue = <<>> /\ Queued = {} /\ DOMAIN queue = {}
  BY DEF Queued
<1>2. TypeOK
  BY IdsAssumption DEF TypeOK, PlansTypeOK
<1>3. Structure /\ InOrder
  BY <1>1 DEF Structure, Once, LeasesLead, LeasedAreIndexed, Replaceable, InOrder
<1>4. Workings
  BY <1>1 DEF Workings, Numbered, Newest, TokensDiffer, HeldIsGot
<1>5. QED  BY <1>2, <1>3, <1>4 DEF IInv

\* A plan that is pushed has a number of its own.
LEMMA NewPlan ==
  ASSUME IInv, pushed < MaxPushes
  PROVE  /\ pushed + 1 \in Ids /\ pushed + 1 \in 0 .. MaxPushes /\ pushed \in Nat
         /\ pushed + 1 \notin Queued /\ pushed + 1 \notin leased
         /\ \A p \in Queued : p \in Nat /\ p < pushed + 1
<1>1. pushed \in Nat /\ pushed + 1 \in Ids /\ pushed + 1 \in 0 .. MaxPushes
  BY IdsAssumption DEF IInv, TypeOK
<1>2. Queued \subseteq Ids /\ Ids \subseteq Nat
  <2>1. queue \in Seq(Ids)
    BY DEF IInv, TypeOK, PlansTypeOK
  <2>2. QED  BY <2>1, IdsAssumption, LenProperties, ElementOfSeq DEF Queued
<1>3. QED  BY <1>1, <1>2 DEF IInv, Workings, Numbered

LEMMA PushReplacesInv ==
  ASSUME IInv, NEW c \in Commissions, PushNew(c), Evictable(c)
  PROVE  IInv'
<1> DEFINE n == pushed + 1
           o == commissionIndex[c]
<1>0. PlansTypeOK /\ Once /\ LeasesLead /\ LeasedAreIndexed /\ Replaceable /\ InOrder
      /\ Numbered /\ Newest /\ TokensDiffer /\ HeldIsGot
  BY DEF IInv, TypeOK, Structure, Workings
<1>1. /\ n \in Ids /\ n \in 0 .. MaxPushes /\ pushed \in Nat
      /\ n \notin Queued /\ n \notin leased
      /\ \A p \in Queued : p \in Nat /\ p < n
  BY NewPlan DEF PushNew
<1>2. /\ by' = [by EXCEPT ![n] = c] /\ leasedAs' = [leasedAs EXCEPT ![n] = NoToken]
      /\ commissionIndex' = [commissionIndex EXCEPT ![c] = n]
      /\ queue' = ReplaceAt(queue, At(o), n) /\ pushed' = n
      /\ UNCHANGED <<leasesIndex, held, got, leased>>
  BY DEF PushNew, Push
<1>3. o \in Queued /\ o # NoPlan /\ by[o] = c /\ leasedAs[o] = NoToken /\ o \notin leased
      /\ \A p \in Queued : by[p] = c => p <= o
  <2>1. o \in Queued
    BY DEF Evictable
  <2>2. o # NoPlan
    BY <1>0, <2>1, LenProperties, ElementOfSeq, NonesAssumption DEF Queued, PlansTypeOK
  <2>3. QED  BY <1>0, <2>1, <2>2 DEF Replaceable, Newest
<1>4. /\ queue' \in Seq(Ids) /\ DOMAIN queue' = DOMAIN queue
      /\ At(o) \in DOMAIN queue /\ queue[At(o)] = o
      /\ \A i \in DOMAIN queue : queue'[i] = IF i = At(o) THEN n ELSE queue[i]
      /\ Once' /\ Queued' = (Queued \ {o}) \cup {n}
  BY <1>0, <1>1, <1>2, <1>3, QueueWithReplaced
<1> HIDE DEF n, o
<1>5. TypeOK'
  BY <1>1, <1>2, <1>4 DEF IInv, TypeOK, PlansTypeOK
<1>6. LeasesLead'
  BY <1>0, <1>1, <1>2, <1>3, <1>4, NonesAssumption DEF LeasesLead, PlansTypeOK
<1>7. LeasedAreIndexed'
  BY <1>0, <1>1, <1>2, <1>4 DEF LeasedAreIndexed, PlansTypeOK
<1>8. Replaceable'
  BY <1>0, <1>1, <1>2, <1>3, <1>4 DEF Replaceable, PlansTypeOK, o
<1>9. InOrder'
  <2>1. \A p \in Queued : by'[p] = by[p]
    BY <1>0, <1>1, <1>2 DEF PlansTypeOK
  <2>2. ASSUME NEW i \in DOMAIN queue', NEW j \in DOMAIN queue', i < j,
               by'[queue'[i]] = by'[queue'[j]]
        PROVE  queue'[i] < queue'[j]
    <3>1. i \in DOMAIN queue /\ j \in DOMAIN queue /\ queue[i] \in Queued /\ queue[j] \in Queued
      BY <1>4 DEF Queued
    <3>2. by'[n] = c
      BY <1>0, <1>1, <1>2 DEF PlansTypeOK
    <3>3. CASE i # At(o) /\ j # At(o)
      BY <1>0, <1>4, <2>1, <2>2, <3>1, <3>3 DEF InOrder
    <3>4. CASE j = At(o)
      <4>1. queue'[j] = n /\ queue'[i] = queue[i]
        BY <1>1, <1>4, <2>2, <3>1, <3>4
      <4>2. QED  BY <1>1, <3>1, <4>1
    <3>5. CASE i = At(o)
      <4>1. j # At(o) /\ queue'[j] = queue[j] /\ queue'[i] = n /\ queue[i] = o
        <5>1. i # j
          BY <2>2, <3>1, <1>0, LenProperties DEF PlansTypeOK
        <5>2. QED  BY <1>4, <3>1, <3>5, <5>1
      <4>2. by[queue[j]] = c
        BY <2>1, <2>2, <3>1, <3>2, <4>1
      <4>3. queue[i] < queue[j] /\ queue[j] <= o
        BY <1>0, <1>3, <2>2, <3>1, <4>1, <4>2 DEF InOrder
      <4>4. queue[i] \in Nat /\ queue[j] \in Nat
        BY <1>1, <3>1
      <4>5. QED  BY <4>1, <4>3, <4>4
    <3>6. QED  BY <3>3, <3>4, <3>5
  <2>3. QED  BY <2>2 DEF InOrder
<1>10. Numbered'
  <2>1. leased \subseteq Ids /\ \A p \in leased : p <= pushed
    BY <1>0 DEF Numbered, IInv, TypeOK
  <2>2. \A p \in leased : p <= n
    BY <1>1, <2>1, IdsAssumption DEF n
  <2>3. QED  BY <1>1, <1>2, <1>4, <2>2 DEF Numbered
<1>11. Newest'
  <2>1. ASSUME NEW d \in Commissions, commissionIndex'[d] # NoPlan
        PROVE  /\ commissionIndex'[d] \notin leased
               /\ \A p \in Queued' : by'[p] = d => p <= commissionIndex'[d]
    <3>1. \A p \in Queued : by'[p] = by[p]
      BY <1>0, <1>1, <1>2 DEF PlansTypeOK
    <3>2. CASE d = c
      <4>1. commissionIndex'[d] = n
        BY <1>0, <1>2, <3>2 DEF PlansTypeOK
      <4>2. QED  BY <1>1, <1>4, <4>1
    <3>3. CASE d # c
      <4>1. commissionIndex'[d] = commissionIndex[d] /\ by'[n] = c
        BY <1>0, <1>1, <1>2, <3>3 DEF PlansTypeOK
      <4>2. QED  BY <1>0, <1>4, <2>1, <3>1, <3>3, <4>1 DEF Newest
    <3>4. QED  BY <3>2, <3>3
  <2>2. QED  BY <1>2, <2>1 DEF Newest
<1>12. TokensDiffer' /\ HeldIsGot'
  BY <1>0, <1>2 DEF TokensDiffer, HeldIsGot
<1>13. QED  BY <1>4, <1>5, <1>6, <1>7, <1>8, <1>9, <1>10, <1>11, <1>12
     DEF IInv, Structure, Workings
LEMMA PushAppendsInv ==
  ASSUME IInv, NEW c \in Commissions, PushNew(c), ~Evictable(c)
  PROVE  IInv'
<1> DEFINE n == pushed + 1
<1>0. PlansTypeOK /\ Once /\ LeasesLead /\ LeasedAreIndexed /\ Replaceable /\ InOrder
      /\ Numbered /\ Newest /\ TokensDiffer /\ HeldIsGot
  BY DEF IInv, TypeOK, Structure, Workings
<1>1. /\ n \in Ids /\ n \in 0 .. MaxPushes /\ pushed \in Nat
      /\ n \notin Queued /\ n \notin leased
      /\ \A p \in Queued : p \in Nat /\ p < n
  BY NewPlan DEF PushNew
<1>2. /\ by' = [by EXCEPT ![n] = c] /\ leasedAs' = [leasedAs EXCEPT ![n] = NoToken]
      /\ commissionIndex' = [commissionIndex EXCEPT ![c] = n]
      /\ queue' = Append(queue, n) /\ pushed' = n
      /\ UNCHANGED <<leasesIndex, held, got, leased>>
  BY DEF PushNew, Push
<1>3. /\ queue' \in Seq(Ids) /\ DOMAIN queue' = DOMAIN queue \cup {Len(queue) + 1}
      /\ \A i \in DOMAIN queue : i < Len(queue) + 1 /\ queue'[i] = queue[i]
      /\ queue'[Len(queue) + 1] = n /\ Len(queue) + 1 \notin DOMAIN queue
      /\ Once' /\ Queued' = Queued \cup {n}
  BY <1>0, <1>1, <1>2, QueueWithAppended
<1>4. \A p \in Queued : by'[p] = by[p] /\ leasedAs'[p] = leasedAs[p]
  BY <1>0, <1>1, <1>2 DEF PlansTypeOK
<1>5. by'[n] = c /\ leasedAs'[n] = NoToken
  BY <1>0, <1>1, <1>2 DEF PlansTypeOK
<1> HIDE DEF n
<1>6. TypeOK'
  BY <1>1, <1>2, <1>3 DEF IInv, TypeOK, PlansTypeOK
<1>7. LeasesLead'
  BY <1>0, <1>2, <1>3, <1>4 DEF LeasesLead
<1>8. LeasedAreIndexed'
  BY <1>0, <1>2, <1>3, <1>4, <1>5 DEF LeasedAreIndexed
<1>9. Replaceable'
  BY <1>0, <1>2, <1>3, <1>4, <1>5 DEF Replaceable, PlansTypeOK
<1>10. InOrder'
  <2>1. ASSUME NEW i \in DOMAIN queue', NEW j \in DOMAIN queue', i < j,
               by'[queue'[i]] = by'[queue'[j]]
        PROVE  queue'[i] < queue'[j]
    <3>0. Len(queue) \in Nat /\ DOMAIN queue = 1 .. Len(queue)
      BY <1>0, LenProperties DEF PlansTypeOK
    <3>1. i \in DOMAIN queue
      BY <1>3, <2>1, <3>0
    <3>2. queue'[i] = queue[i] /\ queue[i] \in Queued
      BY <1>3, <3>1 DEF Queued
    <3>3. CASE j = Len(queue) + 1
      BY <1>1, <1>3, <3>2, <3>3
    <3>4. CASE j \in DOMAIN queue
      <4>1. queue'[j] = queue[j] /\ queue[j] \in Queued
        BY <1>3, <3>4 DEF Queued
      <4>2. QED  BY <1>0, <1>4, <2>1, <3>1, <3>2, <3>4, <4>1 DEF InOrder
    <3>5. QED  BY <1>3, <3>3, <3>4
  <2>2. QED  BY <2>1 DEF InOrder
<1>11. Numbered'
  <2>1. leased \subseteq Ids /\ \A p \in leased : p <= pushed
    BY <1>0 DEF Numbered, IInv, TypeOK
  <2>2. \A p \in leased : p <= n
    BY <1>1, <2>1, IdsAssumption DEF n
  <2>3. QED  BY <1>1, <1>2, <1>3, <2>2 DEF Numbered
<1>12. Newest'
  <2>1. ASSUME NEW d \in Commissions, commissionIndex'[d] # NoPlan
        PROVE  /\ commissionIndex'[d] \notin leased
               /\ \A p \in Queued' : by'[p] = d => p <= commissionIndex'[d]
    <3>1. CASE d = c
      <4>1. commissionIndex'[d] = n
        BY <1>0, <1>2, <3>1 DEF PlansTypeOK
      <4>2. QED  BY <1>1, <1>3, <4>1
    <3>2. CASE d # c
      <4>1. commissionIndex'[d] = commissionIndex[d]
        BY <1>0, <1>2, <3>2 DEF PlansTypeOK
      <4>2. QED  BY <1>0, <1>3, <1>4, <1>5, <2>1, <3>2, <4>1 DEF Newest
    <3>3. QED  BY <3>1, <3>2
  <2>2. QED  BY <1>2, <2>1 DEF Newest
<1>13. TokensDiffer' /\ HeldIsGot'
  BY <1>0, <1>2 DEF TokensDiffer, HeldIsGot
<1>14. QED  BY <1>3, <1>6, <1>7, <1>8, <1>9, <1>10, <1>11, <1>12, <1>13
     DEF IInv, Structure, Workings

LEMMA LeaseInv ==
  ASSUME IInv, NEW w \in Workers, Lease(w)
  PROVE  IInv'
<1> DEFINE p == queue[nextLeasable]
<1>0. PlansTypeOK /\ Once /\ LeasesLead /\ LeasedAreIndexed /\ Replaceable /\ InOrder
      /\ Numbered /\ Newest /\ TokensDiffer /\ HeldIsGot
  BY DEF IInv, TypeOK, Structure, Workings
<1>1. PICK t \in Unused :
        /\ Leasable # {}
        /\ leasedAs' = [leasedAs EXCEPT ![p] = t]
        /\ leasesIndex' = [leasesIndex EXCEPT ![t] = p]
        /\ commissionIndex' = [commissionIndex EXCEPT ![by[p]] = NoPlan]
        /\ held' = [held EXCEPT ![w] = t]
        /\ got' = [got EXCEPT ![w] = p]
        /\ leased' = leased \cup {p}
        /\ UNCHANGED <<queue, by, pushed>>
  BY DEF Lease, LeaseNext, Unevictable
<1>2. p \in Queued /\ leasedAs[p] = NoToken /\ p \in Ids
  BY <1>0, <1>1, FirstLeasable, LenProperties, ElementOfSeq DEF Queued, PlansTypeOK
<1>3. t \in Tokens /\ leasesIndex[t] = NoPlan /\ t # NoToken /\ \A v \in Workers : held[v] # t
  BY NonesAssumption DEF Unused
<1>4. Queued' = Queued
  BY <1>1 DEF Queued
<1> HIDE DEF p
<1>5. TypeOK'
  BY <1>1, <1>2, <1>3 DEF IInv, TypeOK, PlansTypeOK
<1>6. Once' /\ InOrder'
  BY <1>0, <1>1 DEF Once, InOrder
<1>7. LeasesLead'
  BY <1>0, <1>1, <1>2, <1>3, <1>4, NonesAssumption DEF LeasesLead, PlansTypeOK
<1>8. LeasedAreIndexed'
  <2>1. Queued \subseteq Ids
    BY <1>0, LenProperties, ElementOfSeq DEF Queued, PlansTypeOK
  <2>2. ASSUME NEW q \in Queued, leasedAs'[q] # NoToken PROVE leasesIndex'[leasedAs'[q]] = q
    <3>1. CASE q = p
      BY <1>0, <1>1, <1>2, <1>3, <3>1 DEF PlansTypeOK
    <3>2. CASE q # p
      <4>1. leasedAs'[q] = leasedAs[q] /\ leasedAs[q] \in Tokens
        BY <1>0, <1>1, <2>1, <2>2, <3>2 DEF PlansTypeOK
      <4>2. leasesIndex[leasedAs[q]] = q
        BY <1>0, <2>2, <4>1 DEF LeasedAreIndexed
      <4>3. leasedAs[q] # t
        BY <1>3, <2>1, <4>2, NonesAssumption
      <4>4. QED  BY <1>0, <1>1, <4>1, <4>2, <4>3 DEF PlansTypeOK
    <3>3. QED  BY <3>1, <3>2
  <2>3. QED  BY <1>4, <2>2 DEF LeasedAreIndexed
<1>9. Replaceable' /\ Newest'
  <2>1. ASSUME NEW c \in Commissions, commissionIndex'[c] # NoPlan
        PROVE  commissionIndex'[c] = commissionIndex[c] /\ commissionIndex[c] # p
    <3>1. c # by[p] /\ commissionIndex'[c] = commissionIndex[c]
      BY <1>0, <1>1, <1>2, <2>1 DEF PlansTypeOK
    <3>2. QED  BY <1>0, <2>1, <3>1 DEF Replaceable
  <2>2. Replaceable'
    <3>1. \A q \in Ids : q # p => leasedAs'[q] = leasedAs[q]
      BY <1>0, <1>1 DEF PlansTypeOK
    <3>2. QED  BY <1>0, <1>1, <1>4, <2>1, <3>1 DEF Replaceable, PlansTypeOK
  <2>3. Newest'
    BY <1>0, <1>1, <1>4, <2>1 DEF Newest
  <2>4. QED  BY <2>2, <2>3
<1>10. Numbered'
  BY <1>0, <1>1, <1>2, <1>4 DEF Numbered
<1>11. TokensDiffer' /\ HeldIsGot'
  <2>1. held'[w] = t /\ got'[w] = p /\ leasesIndex'[t] = p
    BY <1>0, <1>1, <1>3 DEF IInv, TypeOK, PlansTypeOK
  <2>2. \A v \in Workers \ {w} : held'[v] = held[v] /\ got'[v] = got[v] /\ held[v] # t
    BY <1>1, <1>3 DEF IInv, TypeOK
  <2>3. \A v \in Workers \ {w} : held[v] # NoToken => leasesIndex'[held[v]] = leasesIndex[held[v]]
    BY <1>1, <2>2 DEF IInv, TypeOK, PlansTypeOK
  <2>4. TokensDiffer'
    BY <1>0, <2>1, <2>2 DEF TokensDiffer
  <2>5. HeldIsGot'
    BY <1>0, <2>1, <2>2, <2>3 DEF HeldIsGot
  <2>6. QED  BY <2>4, <2>5
<1>12. QED  BY <1>5, <1>6, <1>7, <1>8, <1>9, <1>10, <1>11 DEF IInv, Structure, Workings

\* The plan a token in force leads to.
LEMMA TokenLeads ==
  ASSUME IInv, NEW t \in Tokens, leasesIndex[t] # NoPlan
  PROVE  /\ leasesIndex[t] \in Queued /\ leasesIndex[t] \in Ids
         /\ leasedAs[leasesIndex[t]] = t /\ t # NoToken
         /\ \A u \in Tokens \ {t} : leasesIndex[u] # leasesIndex[t]
         /\ \A c \in Commissions : commissionIndex[c] # leasesIndex[t]
BY NonesAssumption DEF IInv, TypeOK, PlansTypeOK, Structure, LeasesLead, Replaceable

LEMMA GiveBackInv ==
  ASSUME IInv, NEW w \in Workers, GiveBack(w)
  PROVE  IInv'
<1> DEFINE t == held[w]
           p == leasesIndex[t]
<1>0. PlansTypeOK /\ Once /\ LeasesLead /\ LeasedAreIndexed /\ Replaceable /\ InOrder
      /\ Numbered /\ Newest /\ TokensDiffer /\ HeldIsGot
  BY DEF IInv, TypeOK, Structure, Workings
<1>1. t \in Tokens /\ UNCHANGED <<pushed, held, got, leased>>
  BY DEF GiveBack, IInv, TypeOK
<1>2. CASE p = NoPlan
  BY <1>1, <1>2 DEF GiveBack, Unlease, plans, IInv, TypeOK, PlansTypeOK, Structure, Once,
     LeasesLead, LeasedAreIndexed, Replaceable, InOrder, Workings, Numbered, Newest,
     TokensDiffer, HeldIsGot, Queued
<1>3. CASE p # NoPlan
  <2>1. /\ leasedAs' = [leasedAs EXCEPT ![p] = NoToken]
        /\ leasesIndex' = [leasesIndex EXCEPT ![t] = NoPlan]
        /\ UNCHANGED <<queue, commissionIndex, by>>
    BY <1>3 DEF GiveBack, Unlease
  <2>2. /\ p \in Queued /\ p \in Ids /\ leasedAs[p] = t /\ t # NoToken
        /\ \A u \in Tokens \ {t} : leasesIndex[u] # p
        /\ \A c \in Commissions : commissionIndex[c] # p
    BY <1>1, <1>3, TokenLeads
  <2>3. Queued' = Queued /\ Queued \subseteq Ids
    BY <1>0, <2>1, LenProperties, ElementOfSeq DEF Queued, PlansTypeOK
  <2>4. \A q \in Ids : leasedAs'[q] = IF q = p THEN NoToken ELSE leasedAs[q]
    BY <1>0, <2>1 DEF PlansTypeOK
  <2>5. \A u \in Tokens : leasesIndex'[u] = IF u = t THEN NoPlan ELSE leasesIndex[u]
    BY <1>0, <2>1 DEF PlansTypeOK
  <2> HIDE DEF t, p
  <2>6. TypeOK'
    BY <1>1, <2>1 DEF IInv, TypeOK, PlansTypeOK
  <2>7. Once' /\ InOrder' /\ Numbered' /\ Newest' /\ TokensDiffer'
    BY <1>0, <1>1, <2>1, <2>3 DEF Once, InOrder, Numbered, Newest, TokensDiffer
  <2>8. LeasesLead'
    BY <1>0, <2>2, <2>3, <2>4, <2>5 DEF LeasesLead
  <2>9. LeasedAreIndexed'
    <3>1. ASSUME NEW q \in Queued, leasedAs'[q] # NoToken PROVE leasesIndex'[leasedAs'[q]] = q
      <4>1. q # p /\ leasedAs'[q] = leasedAs[q] /\ leasedAs[q] \in Tokens
        BY <1>0, <2>3, <2>4, <3>1 DEF PlansTypeOK
      <4>2. leasesIndex[leasedAs[q]] = q
        BY <1>0, <3>1, <4>1 DEF LeasedAreIndexed
      <4>3. leasedAs[q] # t
        BY <4>1, <4>2 DEF p
      <4>4. QED  BY <2>5, <4>1, <4>2, <4>3
    <3>2. QED  BY <2>3, <3>1 DEF LeasedAreIndexed
  <2>10. Replaceable'
    BY <1>0, <2>1, <2>2, <2>3, <2>4 DEF Replaceable, PlansTypeOK
  <2>11. HeldIsGot'
    BY <1>0, <1>1, <2>5 DEF HeldIsGot, IInv, TypeOK
  <2>12. QED  BY <2>6, <2>7, <2>8, <2>9, <2>10, <2>11 DEF IInv, Structure, Workings
<1>4. QED  BY <1>2, <1>3

LEMMA DoneInv ==
  ASSUME IInv, NEW w \in Workers, Done(w)
  PROVE  IInv'
<1> DEFINE t == held[w]
           p == leasesIndex[t]
<1>0. PlansTypeOK /\ Once /\ LeasesLead /\ LeasedAreIndexed /\ Replaceable /\ InOrder
      /\ Numbered /\ Newest /\ TokensDiffer /\ HeldIsGot
  BY DEF IInv, TypeOK, Structure, Workings
<1>1. t \in Tokens /\ UNCHANGED <<pushed, held, got, leased>>
  BY DEF Done, IInv, TypeOK
<1>2. CASE p = NoPlan
  BY <1>1, <1>2 DEF Done, Finish, plans, IInv, TypeOK, PlansTypeOK, Structure, Once,
     LeasesLead, LeasedAreIndexed, Replaceable, InOrder, Workings, Numbered, Newest,
     TokensDiffer, HeldIsGot, Queued
<1>3. CASE p # NoPlan
  <2>1. /\ p \in Queued /\ p \in Ids /\ leasedAs[p] = t /\ t # NoToken
        /\ \A u \in Tokens \ {t} : leasesIndex[u] # p
        /\ \A c \in Commissions : commissionIndex[c] # p
    BY <1>1, <1>3, TokenLeads
  <2>2. /\ queue' = RemoveAt(queue, At(p))
        /\ leasesIndex' = [leasesIndex EXCEPT ![t] = NoPlan]
        /\ commissionIndex' = commissionIndex /\ UNCHANGED <<by, leasedAs>>
    <3>1. commissionIndex[by[p]] # p
      BY <1>0, <2>1 DEF PlansTypeOK
    <3>2. remove(p)
      BY <1>3 DEF Done, Finish
    <3> HIDE DEF p
    <3>3. QED  BY <2>1, <3>1, <3>2 DEF remove, NotOf
  <2>3. /\ queue' \in Seq(Ids) /\ Once' /\ Queued' = Queued \ {p}
        /\ \A i, j \in DOMAIN queue' : i < j =>
             \E k, l \in DOMAIN queue : k < l /\ queue'[i] = queue[k] /\ queue'[j] = queue[l]
    BY <1>0, <2>1, <2>2, QueueWithout
  <2>4. \A u \in Tokens : leasesIndex'[u] = IF u = t THEN NoPlan ELSE leasesIndex[u]
    BY <1>0, <2>2 DEF PlansTypeOK
  <2>5. Queued \subseteq Ids
    BY <1>0, LenProperties, ElementOfSeq DEF Queued, PlansTypeOK
  <2> HIDE DEF t, p
  <2>6. TypeOK'
    BY <1>1, <2>2, <2>3 DEF IInv, TypeOK, PlansTypeOK
  <2>7. InOrder'
    BY <1>0, <2>2, <2>3 DEF InOrder
  <2>8. Numbered' /\ Newest' /\ TokensDiffer'
    BY <1>0, <1>1, <2>2, <2>3 DEF Numbered, Newest, TokensDiffer
  <2>9. LeasesLead'
    BY <1>0, <2>1, <2>2, <2>3, <2>4 DEF LeasesLead
  <2>10. LeasedAreIndexed'
    <3>1. ASSUME NEW q \in Queued', leasedAs[q] # NoToken PROVE leasesIndex'[leasedAs[q]] = q
      <4>1. q \in Queued /\ q # p /\ leasedAs[q] \in Tokens
        BY <1>0, <2>3, <2>5, <3>1 DEF PlansTypeOK
      <4>2. leasesIndex[leasedAs[q]] = q
        BY <1>0, <3>1, <4>1 DEF LeasedAreIndexed
      <4>3. leasedAs[q] # t
        BY <4>1, <4>2 DEF p
      <4>4. QED  BY <2>4, <4>1, <4>2, <4>3
    <3>2. QED  BY <2>2, <3>1 DEF LeasedAreIndexed
  <2>11. Replaceable'
    BY <1>0, <2>1, <2>2, <2>3 DEF Replaceable
  <2>12. HeldIsGot'
    BY <1>0, <1>1, <2>4 DEF HeldIsGot, IInv, TypeOK
  <2>13. QED  BY <2>3, <2>6, <2>7, <2>8, <2>9, <2>10, <2>11, <2>12
       DEF IInv, Structure, Workings
<1>4. QED  BY <1>2, <1>3

LEMMA NextInv == IInv /\ [Next]_vars => IInv'
<1> SUFFICES ASSUME IInv, [Next]_vars PROVE IInv'
  OBVIOUS
<1>1. CASE UNCHANGED vars
  BY <1>1 DEF vars, plans, IInv, TypeOK, PlansTypeOK, Structure, Once, LeasesLead,
     LeasedAreIndexed, Replaceable, InOrder, Workings, Numbered, Newest, TokensDiffer,
     HeldIsGot, Queued
<1>2. CASE Next
  BY <1>2, PushReplacesInv, PushAppendsInv, LeaseInv, GiveBackInv, DoneInv DEF Next
<1>3. QED  BY <1>1, <1>2

LEMMA Invariance == Spec => []IInv
BY InitInv, NextInv, PTL DEF Spec
-----------------------------------------------------------------------------
\* The queue, the leases and what may be replaced never contradict each other.
THEOREM IndexesStayConsistent == Spec => []IndexesAgree
<1>1. IInv => IndexesAgree
  BY DEF IInv, Structure, Once, LeasesLead, LeasedAreIndexed, Replaceable, IndexesAgree
<1>2. QED  BY <1>1, Invariance, PTL

\* No plan of a commission is overtaken by a newer one.
THEOREM PlansStayInOrder == Spec => []InOrder
<1>1. IInv => InOrder
  BY DEF IInv
<1>2. QED  BY <1>1, Invariance, PTL

\* A plan on lease is queued until it is finished, and nobody else's.
THEOREM LeasesStayExclusive == Spec => []LeasesAreExclusive
<1>1. ASSUME IInv, NEW v \in Workers, held[v] # NoToken, leasesIndex[held[v]] # NoPlan
      PROVE  /\ leasesIndex[held[v]] = got[v] /\ got[v] \in Queued
             /\ leasedAs[got[v]] = held[v]
  BY <1>1, TokenLeads DEF IInv, TypeOK, Workings, HeldIsGot
<1>2. IInv => LeasesAreExclusive
  BY <1>1 DEF LeasesAreExclusive, IInv, Workings, TokensDiffer
<1>3. QED  BY <1>2, Invariance, PTL

\* A plan leaves the queue by the hand of who leased it, or, never leased, in
\* favour of a newer one in its place.
THEOREM OnlyHoldersRemove == Spec => OnlyItsHolderRemoves
<1> DEFINE Ending(p) ==
      \/ /\ p \notin leased
         /\ \E q \in Queued' : q \notin Queued /\ by'[q] = by[p] /\ At(q)' = At(p)
      \/ leasedAs[p] # NoToken /\ \E w \in Workers : held[w] = leasedAs[p] /\ got[w] = p
<1>1. ASSUME IInv, [Next]_vars, NEW p \in Queued, p \notin Queued' PROVE Ending(p)
  <2>0. PlansTypeOK /\ Once /\ Replaceable /\ Newest /\ HeldIsGot
    BY <1>1 DEF IInv, TypeOK, Structure, Workings
  <2>1. CASE UNCHANGED queue
    BY <1>1, <2>1 DEF Queued
  <2>2. ASSUME NEW c \in Commissions, PushNew(c) PROVE Ending(p)
    <3>0. pushed + 1 \in Ids /\ pushed + 1 \notin Queued
      BY <1>1, <2>2, NewPlan DEF PushNew
    <3>1. PICK n \in Ids : n = pushed + 1 /\ n \notin Queued
      BY <3>0
    <3>2. CASE Evictable(c)
      <4> DEFINE o == commissionIndex[c]
      <4>1. o \in Queued /\ queue' = ReplaceAt(queue, At(o), n)
        BY <2>2, <3>1, <3>2 DEF PushNew, Push, Evictable
      <4>2. Queued' = (Queued \ {o}) \cup {n} /\ At(n)' = At(o)
        BY <2>0, <3>1, <4>1, QueueWithReplaced
      <4>3. p = o /\ o # NoPlan
        <5>1. o \in Ids
          BY <2>0, <4>1, LenProperties, ElementOfSeq DEF Queued, PlansTypeOK
        <5>2. QED  BY <1>1, <4>2, <5>1, NonesAssumption
      <4> HIDE DEF o
      <4>4. by[o] = c /\ o \notin leased
        BY <2>0, <4>3 DEF Replaceable, Newest, o
      <4>5. by'[n] = c
        BY <2>0, <2>2, <3>1 DEF PushNew, Push, PlansTypeOK
      <4>6. QED  BY <3>1, <4>2, <4>3, <4>4, <4>5
    <3>3. CASE ~Evictable(c)
      <4>1. queue' = Append(queue, n)
        BY <2>2, <3>1, <3>3 DEF PushNew, Push
      <4>2. QED  BY <1>1, <2>0, <3>1, <4>1, QueueWithAppended
    <3>4. QED  BY <3>2, <3>3
  <2>3. ASSUME NEW w \in Workers, Done(w) PROVE Ending(p)
    <3>1. held[w] \in Tokens /\ held[w] # NoToken
      BY <1>1, <2>3 DEF Done, IInv, TypeOK
    <3>2. CASE leasesIndex[held[w]] = NoPlan
      BY <1>1, <2>3, <3>2 DEF Done, Finish, plans, Queued
    <3>3. CASE leasesIndex[held[w]] # NoPlan
      <4> DEFINE q == leasesIndex[held[w]]
      <4>1. q \in Queued /\ leasedAs[q] = held[w] /\ got[w] = q
        BY <1>1, <2>0, <3>1, <3>3, TokenLeads DEF HeldIsGot
      <4>2. queue' = RemoveAt(queue, At(q))
        BY <2>3, <3>3, <4>1 DEF Done, Finish, remove
      <4>3. Queued' = Queued \ {q}
        BY <2>0, <4>1, <4>2, QueueWithout
      <4>4. QED  BY <1>1, <3>1, <4>1, <4>3
    <3>4. QED  BY <3>2, <3>3
  <2>4. (\E c \in Commissions : PushNew(c)) \/ (\E w \in Workers : Done(w)) \/ UNCHANGED queue
    BY <1>1 DEF Next, vars, plans, Lease, LeaseNext, GiveBack, Unlease
  <2>5. QED  BY <2>1, <2>2, <2>3, <2>4
<1>2. IInv /\ [Next]_vars => [\A p \in Queued : p \notin Queued' =>
        \/ /\ p \notin leased
           /\ \E q \in Queued' : q \notin Queued /\ by'[q] = by[p] /\ At(q)' = At(p)
        \/ leasedAs[p] # NoToken /\ \E w \in Workers : held[w] = leasedAs[p] /\ got[w] = p]_vars
  BY <1>1
<1>3. QED  BY <1>2, Invariance, PTL DEF Spec, OnlyItsHolderRemoves
=============================================================================
