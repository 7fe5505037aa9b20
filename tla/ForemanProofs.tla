--------------------------- MODULE ForemanProofs ---------------------------
(***************************************************************************)
(* The foreman for any commissions, catalogs, sources and outcomes of      *)
(* jobs: no edition gets lost between its publication and the plan that    *)
(* takes it in, and no two plans of a commission wait at once.             *)
(***************************************************************************)
EXTENDS Foreman, SequenceTheorems, FiniteSetTheorems, WellFoundedInduction, TLAPS

\* The types of the foreman's variables, and where its goroutine holds what.
ChanOK == chNew \in Seq(Catalogs) /\ Len(chNew) <= Capacity /\ chOld \in Seq(Catalogs)
KbOK   == /\ IsFormula(catalogs) /\ observed \in BOOLEAN /\ sending \subseteq Catalogs
          /\ ~observed => pc = "observe"
PcOK   == pc \in {"observe", "list", "pump", "fill", "job", "publish", "send"}
FillOK == /\ marked \subseteq Commissions /\ IsFormula(reads)
          /\ DOMAIN reasons \subseteq Commissions
          /\ \A c \in DOMAIN reasons : reasons[c] \in [Inputs[c] -> Nat \ {0}]
          /\ pc # "fill" => marked = {} /\ DOMAIN reasons = {}
          /\ marked = {} => DOMAIN reads = {}
UseOK  == /\ use = [p \in Ids |-> use[p]]
          /\ \A p \in Queued : use[p] \in [Inputs[by[p]] -> Nat \ {0}]
RanOK  == /\ ran = [c \in Commissions |-> ran[c]]
          /\ \A c \in Commissions : /\ ran[c] \in [DOMAIN ran[c] -> Nat]
                                    /\ DOMAIN ran[c] \subseteq Inputs[c]
EvoOK  == /\ job \in [plan : Ids \cup {NoPlan}, token : Tokens \cup {NoToken}]
          /\ outcome \in {"none", "ok", "failed"} /\ IsFormula(editions)
          /\ pc \in {"job", "publish", "send"} => job.token \in Tokens

\* The plans: each is queued once; what may be replaced is queued, of that
\* commission, and not leased; and whatever is not leased may be replaced.
Once == \A i, j \in DOMAIN queue : queue[i] = queue[j] => i = j
Replaceable == \A c \in Commissions : commissionIndex[c] # NoPlan =>
                 /\ commissionIndex[c] \in Queued
                 /\ by[commissionIndex[c]] = c
                 /\ leasedAs[commissionIndex[c]] = NoToken
Waiting == \A p \in Queued : leasedAs[p] = NoToken => commissionIndex[by[p]] = p

\* There is a lease only while the job runs, and it was run as it was planned.
Leased ==
  IF pc = "job"
    THEN /\ job.plan \in Queued /\ leasedAs[job.plan] = job.token
         /\ \A t \in Tokens : leasesIndex[t] = IF t = job.token THEN job.plan ELSE NoPlan
         /\ \A p \in Queued : p # job.plan => leasedAs[p] = NoToken
         /\ ran[by[job.plan]] = use[job.plan]
    ELSE /\ \A t \in Tokens : leasesIndex[t] = NoPlan
         /\ \A p \in Queued : leasedAs[p] = NoToken

\* Only the foreman publishes what its commissions release, one by one, so that
\* the editions it has made are still the next ones.
OwnCatalogs ==
  /\ \A i \in sending \cap Released : pc = "send"
  /\ \A i, j \in sending \cap Released : i = j
  /\ DOMAIN editions \subseteq Released
  /\ pc \notin {"publish", "send"} => DOMAIN editions = {}
  /\ \A o \in DOMAIN editions : editions[o] = Latest(o) + 1

\* While commissions are filled, what was read is the latest release, or the
\* change that came since is on its way.
OnItsWay(i) == i \in sending \/ i \in Range(chNew)
Fresh ==
  /\ \A i \in DOMAIN reads : /\ reads[i] # 0 /\ reads[i] <= Latest(i)
                             /\ reads[i] = Latest(i) \/ OnItsWay(i)
  /\ \A c \in DOMAIN reasons : \A i \in Inputs[c] :
       /\ reasons[c][i] <= Latest(i)
       /\ reasons[c][i] = Latest(i) \/ OnItsWay(i)

\* A commission is never planned for, or run with, less than it was run with.
Onward ==
  /\ \A c \in Commissions : \A i \in DOMAIN ran[c] :
       /\ ran[c][i] <= Latest(i)
       /\ i \in DOMAIN reads => ran[c][i] <= reads[i]
       /\ c \in DOMAIN reasons => ran[c][i] <= reasons[c][i]
  /\ \A p \in Queued : \A i \in Inputs[by[p]] :
       /\ use[p][i] <= Latest(i)
       /\ i \in DOMAIN ran[by[p]] => ran[by[p]][i] <= use[p][i]

Pending(c) == \/ pc \in {"observe", "list"} \/ c \in marked
              \/ \E i \in Inputs[c] : OnItsWay(i) \/ i \in Range(chOld)
Served(c)  == \A i \in Inputs[c] : Planned(c, i, Latest(i))
NothingLost == \A c \in Commissions : Ready(c) => Served(c) \/ Pending(c)

Types == PlansTypeOK /\ ChanOK /\ KbOK /\ PcOK /\ FillOK /\ UseOK /\ RanOK /\ EvoOK
Queue == Once /\ Replaceable /\ Waiting /\ Leased
News  == OwnCatalogs /\ Fresh /\ Onward
IInv  == Types /\ Queue /\ News /\ NothingLost
\* What At chooses, in a sequence that has nothing twice.
LEMMA WhereItIs ==
  ASSUME NEW S, NEW q \in Seq(S), \A i, j \in DOMAIN q : q[i] = q[j] => i = j,
         NEW k \in DOMAIN q
  PROVE  (CHOOSE i \in DOMAIN q : q[i] = q[k] /\ \A j \in 1 .. i - 1 : q[j] # q[k]) = k
<1>1. DOMAIN q = 1 .. Len(q) /\ Len(q) \in Nat
  BY LenProperties
<1>2. \A j \in 1 .. k - 1 : j \in DOMAIN q /\ j # k
  BY <1>1
<1>3. \A j \in 1 .. k - 1 : q[j] # q[k]
  BY <1>2
<1>4. \A i \in DOMAIN q : (q[i] = q[k] /\ \A j \in 1 .. i - 1 : q[j] # q[k]) <=> i = k
  BY <1>3
<1>5. QED  BY <1>4

LEMMA AtFinds ==
  ASSUME PlansTypeOK, Once, NEW p \in Queued
  PROVE  /\ DOMAIN queue = 1 .. Len(queue) /\ Len(queue) \in Nat
         /\ At(p) \in DOMAIN queue /\ queue[At(p)] = p
         /\ \A i \in DOMAIN queue : queue[i] = p => i = At(p)
<1>1. queue \in Seq(Ids)
  BY DEF PlansTypeOK
<1>2. PICK k \in DOMAIN queue : queue[k] = p
  BY DEF Queued
<1>3. At(p) = k
  BY <1>1, <1>2, WhereItIs DEF Once, At
<1>4. QED  BY <1>1, <1>2, <1>3, LenProperties DEF Once

\* The sequence without its element number i.
LEMMA WithoutOne ==
  ASSUME NEW S, NEW q \in Seq(S), NEW i \in 1 .. Len(q)
  PROVE  /\ RemoveAt(q, i) \in Seq(S)
         /\ Len(RemoveAt(q, i)) = Len(q) - 1
         /\ \A j \in 1 .. Len(q) - 1 : RemoveAt(q, i)[j] = IF j < i THEN q[j] ELSE q[j + 1]
<1> DEFINE a == SubSeq(q, 1, i - 1)
           b == SubSeq(q, i + 1, Len(q))
<1>1. Len(q) \in Nat /\ \A j \in 1 .. Len(q) : q[j] \in S
  BY LenProperties, ElementOfSeq
<1>2. a \in Seq(S) /\ Len(a) = i - 1 /\ \A j \in 1 .. i - 1 : a[j] = q[j]
  <2>1. 1 \in Int /\ i - 1 \in Int /\ \A j \in 1 .. i - 1 : q[j] \in S
    BY <1>1
  <2>2. /\ a \in Seq(S) /\ Len(a) = IF 1 <= i - 1 THEN i - 1 - 1 + 1 ELSE 0
        /\ \A j \in 1 .. i - 1 - 1 + 1 : a[j] = q[1 + j - 1]
    BY <2>1, SubSeqProperties
  <2> HIDE DEF a
  <2>3. \A j \in 1 .. i - 1 : j \in 1 .. i - 1 - 1 + 1 /\ 1 + j - 1 = j
    BY <1>1
  <2>4. QED  BY <1>1, <2>2, <2>3
<1>3. b \in Seq(S) /\ Len(b) = Len(q) - i /\ \A j \in 1 .. Len(q) - i : b[j] = q[i + j]
  <2>1. i + 1 \in Int /\ Len(q) \in Int /\ \A j \in i + 1 .. Len(q) : q[j] \in S
    BY <1>1
  <2>2. /\ b \in Seq(S) /\ Len(b) = IF i + 1 <= Len(q) THEN Len(q) - (i + 1) + 1 ELSE 0
        /\ \A j \in 1 .. Len(q) - (i + 1) + 1 : b[j] = q[i + 1 + j - 1]
    BY <2>1, SubSeqProperties
  <2> HIDE DEF b
  <2>3. \A j \in 1 .. Len(q) - i : j \in 1 .. Len(q) - (i + 1) + 1 /\ i + 1 + j - 1 = i + j
    BY <1>1
  <2>4. QED  BY <1>1, <2>2, <2>3
<1>4. RemoveAt(q, i) = a \o b
  BY DEF RemoveAt
<1> HIDE DEF a, b
<1>5. /\ a \o b \in Seq(S) /\ Len(a \o b) = Len(a) + Len(b)
      /\ \A j \in 1 .. Len(a) + Len(b) : (a \o b)[j] = IF j <= Len(a) THEN a[j] ELSE b[j - Len(a)]
  BY <1>2, <1>3, ConcatProperties
<1>6. Len(a) + Len(b) = Len(q) - 1
  BY <1>1, <1>2, <1>3
<1>7. ASSUME NEW j \in 1 .. Len(q) - 1
      PROVE  (a \o b)[j] = IF j < i THEN q[j] ELSE q[j + 1]
  <2>1. CASE j < i
    <3>1. j <= Len(a) /\ j \in 1 .. i - 1
      BY <1>1, <1>2, <2>1
    <3>2. QED  BY <1>2, <1>5, <1>6, <2>1, <3>1
  <2>2. CASE ~(j < i)
    <3>1. ~(j <= Len(a)) /\ j - Len(a) \in 1 .. Len(q) - i /\ i + (j - Len(a)) = j + 1
      BY <1>1, <1>2, <2>2
    <3>2. QED  BY <1>3, <1>5, <1>6, <2>2, <3>1
  <2>3. QED  BY <2>1, <2>2
<1>8. QED  BY <1>4, <1>5, <1>6, <1>7

\* The queue without a plan.
LEMMA QueueWithout ==
  ASSUME PlansTypeOK, Once, NEW p \in Queued, queue' = RemoveAt(queue, At(p))
  PROVE  queue' \in Seq(Ids) /\ Once' /\ Queued' = Queued \ {p}
<1> DEFINE n == Len(queue)
           from(j) == IF j < At(p) THEN j ELSE j + 1
<1>1. queue \in Seq(Ids) /\ n \in Nat /\ DOMAIN queue = 1 .. n
  BY LenProperties DEF PlansTypeOK
<1>2. At(p) \in 1 .. n /\ queue[At(p)] = p /\ \A i \in 1 .. n : queue[i] = p => i = At(p)
  BY <1>1, AtFinds
<1>3. queue' \in Seq(Ids) /\ Len(queue') = n - 1 /\ DOMAIN queue' = 1 .. n - 1
      /\ \A j \in 1 .. n - 1 : queue'[j] = IF j < At(p) THEN queue[j] ELSE queue[j + 1]
  <2>1. /\ queue' \in Seq(Ids) /\ Len(queue') = n - 1
        /\ \A j \in 1 .. n - 1 : queue'[j] = IF j < At(p) THEN queue[j] ELSE queue[j + 1]
    BY <1>1, <1>2, WithoutOne
  <2>2. QED  BY <2>1, LenProperties
<1>4. \A j \in 1 .. n - 1 : from(j) \in 1 .. n /\ from(j) # At(p) /\ queue'[j] = queue[from(j)]
  BY <1>1, <1>2, <1>3
<1>5. \A i, j \in 1 .. n - 1 : i < j => from(i) < from(j)
  BY <1>2
<1>6. \A k \in 1 .. n : k # At(p) => \E j \in 1 .. n - 1 : from(j) = k
  <2>1. ASSUME NEW k \in 1 .. n, k # At(p) PROVE \E j \in 1 .. n - 1 : from(j) = k
    <3>1. CASE k < At(p)
      <4>1. k \in 1 .. n - 1 /\ from(k) = k
        BY <1>1, <1>2, <3>1
      <4>2. QED  BY <4>1
    <3>2. CASE k > At(p)
      <4>1. k - 1 \in 1 .. n - 1 /\ from(k - 1) = k
        BY <1>1, <1>2, <3>2
      <4>2. QED  BY <4>1
    <3>3. QED  BY <1>2, <2>1, <3>1, <3>2
  <2>2. QED  BY <2>1
<1> HIDE DEF from
<1>7. Once'
  <2>1. ASSUME NEW i \in 1 .. n - 1, NEW j \in 1 .. n - 1, queue'[i] = queue'[j], i # j
        PROVE  FALSE
    <3>1. from(i) = from(j)
      BY <1>1, <1>4, <2>1 DEF Once
    <3>2. i < j \/ j < i
      BY <2>1
    <3>3. from(i) < from(j) \/ from(j) < from(i)
      BY <1>5, <3>2
    <3>4. from(i) \in Nat /\ from(j) \in Nat
      BY <1>4
    <3>5. QED  BY <3>1, <3>3, <3>4
  <2>2. QED  BY <1>3, <2>1 DEF Once
<1>8. Queued' = Queued \ {p}
  <2>1. ASSUME NEW x \in Queued' PROVE x \in Queued \ {p}
    BY <1>1, <1>2, <1>3, <1>4 DEF Queued
  <2>2. ASSUME NEW x \in Queued \ {p} PROVE x \in Queued'
    <3>1. PICK k \in 1 .. n : queue[k] = x
      BY <1>1 DEF Queued
    <3>2. PICK j \in 1 .. n - 1 : from(j) = k
      BY <1>2, <1>6, <2>2, <3>1
    <3>3. QED  BY <1>3, <1>4, <3>1, <3>2 DEF Queued
  <2>3. QED  BY <2>1, <2>2
<1>9. QED  BY <1>3, <1>7, <1>8

\* A new plan takes the place of an old one, or the last place.
LEMMA QueueWithReplaced ==
  ASSUME PlansTypeOK, Once, NEW o \in Queued, NEW n \in Ids, n \notin Queued,
         queue' = ReplaceAt(queue, At(o), n)
  PROVE  queue' \in Seq(Ids) /\ Once' /\ Queued' = (Queued \ {o}) \cup {n}
<1>1. queue \in Seq(Ids) /\ DOMAIN queue = 1 .. Len(queue)
  BY LenProperties DEF PlansTypeOK
<1>2. /\ At(o) \in DOMAIN queue /\ queue[At(o)] = o
      /\ \A i \in DOMAIN queue : queue[i] = o => i = At(o)
  BY AtFinds
<1>3. /\ queue' \in Seq(Ids) /\ DOMAIN queue' = DOMAIN queue
      /\ \A i \in DOMAIN queue : queue'[i] = IF i = At(o) THEN n ELSE queue[i]
  <2>1. queue' = [queue EXCEPT ![At(o)] = n]
    BY DEF ReplaceAt
  <2>2. queue' \in Seq(Ids) /\ Len(queue') = Len(queue)
    BY <1>1, <1>2, <2>1, ExceptSeq
  <2>3. QED  BY <1>1, <2>1, <2>2, LenProperties
<1>4. Once'
  BY <1>1, <1>2, <1>3 DEF Once, Queued
<1>5. Queued' = (Queued \ {o}) \cup {n}
  BY <1>1, <1>2, <1>3 DEF Queued
<1>6. QED  BY <1>3, <1>4, <1>5

LEMMA QueueWithAppended ==
  ASSUME PlansTypeOK, Once, NEW n \in Ids, n \notin Queued, queue' = Append(queue, n)
  PROVE  queue' \in Seq(Ids) /\ Once' /\ Queued' = Queued \cup {n}
<1>1. queue \in Seq(Ids) /\ Len(queue) \in Nat /\ DOMAIN queue = 1 .. Len(queue)
  BY LenProperties DEF PlansTypeOK
<1>2. /\ queue' \in Seq(Ids) /\ Len(queue') = Len(queue) + 1 /\ DOMAIN queue' = 1 .. Len(queue')
      /\ \A i \in 1 .. Len(queue) : queue'[i] = queue[i]
      /\ queue'[Len(queue) + 1] = n
  BY <1>1, AppendProperties, LenProperties
<1>3. DOMAIN queue' = DOMAIN queue \cup {Len(queue) + 1}
      /\ \A i \in DOMAIN queue : i < Len(queue) + 1 /\ queue'[i] = queue[i]
      /\ Len(queue) + 1 \notin DOMAIN queue
  BY <1>1, <1>2
<1>4. Once'
  BY <1>2, <1>3 DEF Once, Queued
<1>5. Queued' = Queued \cup {n}
  BY <1>2, <1>3 DEF Queued
<1>6. QED  BY <1>2, <1>4, <1>5

\* The first plan without a lease, when there is one.
LEMMA FirstLeasable ==
  ASSUME PlansTypeOK, Leasable # {}
  PROVE  nextLeasable \in DOMAIN queue /\ leasedAs[queue[nextLeasable]] = NoToken
<1> DEFINE R == {ss \in Nat \X Nat : ss[1] < ss[2]}
<1>1. Leasable \subseteq Nat
  BY LenProperties DEF PlansTypeOK, Leasable
<1>2. IsWellFoundedOn(R, Nat)
  BY NatLessThanWellFounded DEF OpToRel
<1>3. PICK i \in Leasable : \A j \in Leasable : ~(<<j, i>> \in R)
  <2> HIDE DEF R
  <2>1. QED  BY <1>1, <1>2, WFMin
<1>4. ASSUME NEW j \in Leasable PROVE i <= j
  <2>1. ~(j < i)
    BY <1>1, <1>3, <1>4
  <2>2. QED  BY <1>1, <2>1
<1>5. nextLeasable \in Leasable
  BY <1>4 DEF nextLeasable
<1>6. QED  BY <1>5 DEF Leasable
-----------------------------------------------------------------------------
\* The foreman's state but for the catalogs and what is on its way.
LEMMA PlansStay ==
  ASSUME Types, Queue, UNCHANGED <<plans, use, job, ran>>, pc = "job" <=> pc' = "job"
  PROVE  PlansTypeOK' /\ Queue' /\ UseOK' /\ RanOK' /\ Queued' = Queued
<1>1. /\ queue' = queue /\ leasesIndex' = leasesIndex /\ commissionIndex' = commissionIndex
      /\ by' = by /\ leasedAs' = leasedAs /\ use' = use /\ job' = job /\ ran' = ran
  BY DEF plans
<1>2. Queued' = Queued
  BY <1>1 DEF Queued
<1>3. PlansTypeOK' /\ UseOK' /\ RanOK'
  BY <1>1, <1>2 DEF Types, PlansTypeOK, UseOK, RanOK
<1>4. Once' /\ Replaceable' /\ Waiting'
  BY <1>1, <1>2 DEF Queue, Once, Replaceable, Waiting
<1>5. Leased'
  <2>1. CASE pc = "job"
    BY <1>1, <1>2, <2>1 DEF Queue, Leased
  <2>2. CASE pc # "job"
    BY <1>1, <1>2, <2>2 DEF Queue, Leased
  <2>3. QED  BY <2>1, <2>2
<1>6. QED  BY <1>2, <1>3, <1>4, <1>5 DEF Queue

\* Nothing is published, read or planned for.
LEMMA NewsStay ==
  ASSUME News, UNCHANGED <<plans, catalogs, reads, reasons, use, ran>>,
         \A i \in Catalogs : OnItsWay(i) => OnItsWay(i)', Types
  PROVE  /\ Fresh' /\ Onward'
         /\ \A c \in Commissions : (Served(c) => Served(c)') /\ (Ready(c)' => Ready(c))
<1>1. by' = by /\ Queued' = Queued /\ \A i : Latest(i)' = Latest(i)
  BY DEF plans, Queued, Latest
<1>2. DOMAIN reads \subseteq Catalogs /\ \A c \in DOMAIN reasons : c \in Commissions
  BY DEF Types, FillOK, IsFormula
<1>3. \A c \in Commissions : Inputs[c] \subseteq Catalogs
  BY CatalogsAssumption
<1>4. Fresh'
  BY <1>1, <1>2, <1>3 DEF News, Fresh
<1>5. Onward'
  BY <1>1 DEF News, Onward
<1>6. \A c : \A i, v : Planned(c, i, v)' = Planned(c, i, v)
  BY <1>1 DEF Planned
<1>7. QED  BY <1>1, <1>4, <1>5, <1>6 DEF Served, Ready

LEMMA InitInv == Init => IInv
<1> SUFFICES ASSUME Init PROVE IInv
  OBVIOUS
<1>1. /\ NewPlans /\ by \in [Ids -> Commissions]
      /\ catalogs = [i \in Preloaded |-> 1] /\ observed = FALSE /\ sending = {}
      /\ chNew = <<>> /\ chOld = <<>> /\ pc = "observe"
      /\ marked = {} /\ reads = Empty /\ reasons = Empty /\ use = [p \in Ids |-> Empty]
      /\ job = NoJob /\ outcome = "none" /\ editions = Empty
      /\ ran = [c \in Commissions |-> Empty]
  BY DEF Init, NewPlans
<1>2. queue = <<>> /\ Queued = {} /\ DOMAIN queue = {} /\ DOMAIN Empty = {}
  BY <1>1 DEF NewPlans, Queued, Empty
<1>3. PlansTypeOK
  BY <1>1, <1>2 DEF NewPlans, PlansTypeOK
<1>4. ChanOK /\ KbOK /\ PcOK
  <2>1. Preloaded \subseteq Catalogs
    BY CatalogsAssumption
  <2>2. Len(chNew) = 0 /\ chNew \in Seq(Catalogs) /\ chOld \in Seq(Catalogs)
    BY <1>1
  <2>3. DOMAIN catalogs = Preloaded /\ catalogs \in [Preloaded -> Nat]
    BY <1>1
  <2>4. ChanOK
    BY <2>2, BoundsAssumption DEF ChanOK
  <2>5. QED  BY <1>1, <2>1, <2>3, <2>4 DEF KbOK, PcOK, IsFormula
<1>5. FillOK /\ UseOK /\ EvoOK
  BY <1>1, <1>2 DEF FillOK, UseOK, EvoOK, IsFormula, Empty, NoJob
<1>6. RanOK
  BY <1>1, <1>2 DEF RanOK, Empty
<1>7. Queue
  BY <1>1, <1>2 DEF Queue, Once, Replaceable, Waiting, Leased, NewPlans
<1>8. News
  BY <1>1, <1>2 DEF News, OwnCatalogs, Fresh, Onward
<1>9. NothingLost
  BY <1>1 DEF NothingLost, Pending
<1>10. QED  BY <1>3, <1>4, <1>5, <1>6, <1>7, <1>8, <1>9 DEF IInv, Types

LEMMA ObserveInv ==
  ASSUME IInv, Observe
  PROVE  IInv'
<1>1. /\ Types /\ Queue /\ News /\ NothingLost /\ pc = "observe" /\ pc' = "list" /\ observed' = TRUE
      /\ UNCHANGED <<plans, catalogs, sending, chNew, chOld, marked, reads, reasons, use, job,
                     outcome, editions, ran>>
  BY DEF IInv, Observe, chan, fill, evo
<1>2. PlansTypeOK' /\ Queue' /\ UseOK' /\ RanOK'
  BY <1>1, PlansStay
<1>3. Types'
  BY <1>1, <1>2 DEF Types, ChanOK, KbOK, PcOK, FillOK, EvoOK
<1>4. Fresh' /\ Onward'
  BY <1>1, NewsStay DEF OnItsWay
<1>5. OwnCatalogs'
  BY <1>1 DEF News, OwnCatalogs, Latest
<1>6. NothingLost'
  BY <1>1 DEF NothingLost, Pending
<1>7. QED  BY <1>2, <1>3, <1>4, <1>5, <1>6 DEF IInv, News

\* The list has every catalog that there is.
LEMMA ListedAll ==
  ASSUME NEW S, IsFiniteSet(S), NEW s \in SetToSeqs(S)
  PROVE  s \in Seq(S) /\ Range(s) = S
<1> PICK n : n = Cardinality(S)
  OBVIOUS
<1>1. n \in Nat
  BY FS_CardinalityType
<1>2. s \in [1 .. n -> S] /\ \A i, j \in 1 .. n : i # j => s[i] # s[j]
  BY DEF SetToSeqs
<1>3. s \in Injection(1 .. n, S)
  BY <1>2 DEF Injection, IsInjective
<1>4. Cardinality(1 .. n) = n
  <2>1. 1 \in Int /\ n \in Int /\ (IF 1 > n THEN 0 ELSE n - 1 + 1) = n
    BY <1>1
  <2>2. Cardinality(1 .. n) = IF 1 > n THEN 0 ELSE n - 1 + 1
    BY <2>1, FS_Interval
  <2>3. QED  BY <2>1, <2>2
<1>5. s \in Surjection(1 .. n, S)
  BY <1>3, <1>4, FS_Injection
<1>6. Range(s) = S
  BY <1>2, <1>5 DEF Surjection, Range
<1>7. QED  BY <1>1, <1>2, <1>6

LEMMA ListInv ==
  ASSUME IInv, List
  PROVE  IInv'
<1>1. /\ Types /\ Queue /\ News /\ NothingLost /\ pc = "list" /\ pc' = "pump"
      /\ chOld' \in SetToSeqs(DOMAIN catalogs)
      /\ UNCHANGED <<plans, catalogs, observed, sending, chNew, marked, reads, reasons, use, job,
                     outcome, editions, ran>>
  BY DEF IInv, List, Listed, kb, fill, evo
<1>2. PlansTypeOK' /\ Queue' /\ UseOK' /\ RanOK'
  BY <1>1, PlansStay
<1>3. DOMAIN catalogs \subseteq Catalogs
  BY <1>1 DEF Types, KbOK, IsFormula
<1>4. chOld' \in Seq(Catalogs) /\ Range(chOld') = DOMAIN catalogs
  <2>1. IsFiniteSet(DOMAIN catalogs)
    BY <1>3, BoundsAssumption, FS_Subset
  <2>2. chOld' \in Seq(DOMAIN catalogs) /\ Range(chOld') = DOMAIN catalogs
    BY <1>1, <2>1, ListedAll
  <2>3. QED  BY <1>3, <2>2
<1>5. Types'
  BY <1>1, <1>2, <1>4 DEF Types, ChanOK, KbOK, PcOK, FillOK, EvoOK
<1>6. Fresh' /\ Onward'
  BY <1>1, NewsStay DEF OnItsWay
<1>7. OwnCatalogs'
  BY <1>1 DEF News, OwnCatalogs, Latest
<1>8. NothingLost'
  <2>1. ASSUME NEW c \in Commissions, Ready(c)' PROVE Pending(c)'
    <3>1. PICK i : i \in Inputs[c]
      <4>1. Inputs[c] \in (SUBSET Catalogs) \ {{}}
        BY CatalogsAssumption
      <4>2. QED  BY <4>1
    <3>2. i \in DOMAIN catalogs
      BY <1>1, <2>1, <3>1 DEF Ready, Latest
    <3>3. QED  BY <1>4, <3>1, <3>2 DEF Pending
  <2>2. QED  BY <2>1 DEF NothingLost
<1>9. QED  BY <1>2, <1>5, <1>6, <1>7, <1>8 DEF IInv, News

LEMMA SelectInv ==
  ASSUME IInv, Select
  PROVE  IInv'
<1>1. /\ Types /\ Queue /\ News /\ NothingLost /\ pc = "pump" /\ pc' = "fill"
      /\ \/ chNew # <<>> /\ chNew' = Tail(chNew) /\ marked' = Mark(Head(chNew)) /\ chOld' = chOld
         \/ chOld # <<>> /\ chOld' = Tail(chOld) /\ marked' = Mark(Head(chOld)) /\ chNew' = chNew
      /\ UNCHANGED <<plans, catalogs, observed, sending, reads, reasons, use, job,
                     outcome, editions, ran>>
  BY DEF IInv, Select, kb, evo
<1>2. PlansTypeOK' /\ Queue' /\ UseOK' /\ RanOK'
  BY <1>1, PlansStay
<1>3. marked = {} /\ DOMAIN reads = {} /\ DOMAIN reasons = {}
  BY <1>1 DEF Types, FillOK
<1>4. ASSUME NEW s \in Seq(Catalogs), s # <<>>
      PROVE  /\ Tail(s) \in Seq(Catalogs) /\ Len(Tail(s)) = Len(s) - 1
             /\ Range(s) \subseteq {Head(s)} \cup Range(Tail(s))
  <2>1. /\ Head(s) = s[1] /\ Tail(s) \in Seq(Catalogs) /\ Len(Tail(s)) = Len(s) - 1
        /\ \A i \in 1 .. Len(Tail(s)) : Tail(s)[i] = s[i + 1]
    BY <1>4, HeadTailProperties
  <2>2. Len(s) \in Nat /\ Len(s) # 0 /\ DOMAIN s = 1 .. Len(s) /\ DOMAIN Tail(s) = 1 .. Len(Tail(s))
    BY <1>4, <2>1, LenProperties, EmptySeq
  <2>3. ASSUME NEW i \in 1 .. Len(s) PROVE s[i] \in {Head(s)} \cup Range(Tail(s))
    <3>1. CASE i = 1
      BY <2>1, <3>1
    <3>2. CASE i # 1
      <4>1. i - 1 \in 1 .. Len(Tail(s)) /\ i - 1 + 1 = i
        BY <2>1, <2>2, <3>2
      <4>2. QED  BY <2>1, <2>2, <4>1 DEF Range
    <3>3. QED  BY <3>1, <3>2
  <2>4. QED  BY <2>1, <2>2, <2>3 DEF Range
<1>5. chNew \in Seq(Catalogs) /\ chOld \in Seq(Catalogs) /\ Len(chNew) <= Capacity
      /\ Len(chNew) \in Nat /\ Capacity \in Nat
  BY <1>1, LenProperties, BoundsAssumption DEF Types, ChanOK
<1>6. ChanOK'
  <2>1. CASE chNew # <<>> /\ chNew' = Tail(chNew) /\ chOld' = chOld
    BY <1>4, <1>5, <2>1 DEF ChanOK
  <2>2. CASE chOld # <<>> /\ chOld' = Tail(chOld) /\ chNew' = chNew
    BY <1>4, <1>5, <2>2 DEF ChanOK
  <2>3. QED  BY <1>1, <2>1, <2>2
<1>7. marked' \subseteq Commissions
  BY <1>1 DEF Mark
<1>8. Types'
  BY <1>1, <1>2, <1>3, <1>6, <1>7 DEF Types, KbOK, PcOK, FillOK, EvoOK
<1>9. Fresh'
  BY <1>1, <1>3 DEF Fresh
<1>10. Onward'
  BY <1>1, <1>3, <1>2, PlansStay DEF News, Onward, Latest, plans
<1>11. OwnCatalogs'
  BY <1>1 DEF News, OwnCatalogs, Latest
<1>12. NothingLost'
  <2>1. ASSUME NEW c \in Commissions, Pending(c) PROVE Pending(c)'
    <3>1. PICK i \in Inputs[c] : OnItsWay(i) \/ i \in Range(chOld)
      BY <1>1, <1>3, <2>1 DEF Pending
    <3>2. CASE i \in sending
      BY <1>1, <3>2 DEF Pending, OnItsWay
    <3>3. CASE i \in Range(chNew)
      <4>1. i \in Range(chNew') \/ (chNew # <<>> /\ i = Head(chNew) /\ marked' = Mark(i))
        BY <1>1, <1>4, <1>5, <3>3
      <4>2. QED  BY <4>1 DEF Pending, OnItsWay, Mark
    <3>4. CASE i \in Range(chOld)
      <4>1. i \in Range(chOld') \/ (chOld # <<>> /\ i = Head(chOld) /\ marked' = Mark(i))
        BY <1>1, <1>4, <1>5, <3>4
      <4>2. QED  BY <4>1 DEF Pending, Mark
    <3>5. QED  BY <3>1, <3>2, <3>3, <3>4 DEF OnItsWay
  <2>2. Queued' = Queued /\ by' = by
    BY <1>1 DEF plans, Queued
  <2>3. \A c \in Commissions : (Served(c) => Served(c)') /\ (Ready(c)' => Ready(c))
    BY <1>1, <2>2 DEF Served, Ready, Planned, Latest
  <2>4. QED  BY <1>1, <2>1, <2>3 DEF NothingLost
<1>13. QED  BY <1>2, <1>8, <1>9, <1>10, <1>11, <1>12 DEF IInv, News
-----------------------------------------------------------------------------
\* An edition is published, and its notification is on the way.
LEMMA PublishedNews ==
  ASSUME Types, News, NothingLost, NEW s \in Catalogs, NEW n \in Nat, n >= Latest(s),
         catalogs' = With(catalogs, s, n), sending \subseteq sending',
         s \in sending' \/ pc = "observe",
         UNCHANGED <<plans, chNew, chOld, marked, reads, reasons, use, ran>>,
         pc' = pc \/ (pc = "publish" /\ pc' = "send")
  PROVE  /\ IsFormula(catalogs') /\ Fresh' /\ Onward' /\ NothingLost'
         /\ Latest(s)' = n /\ \A i : i # s => Latest(i)' = Latest(i)
<1>1. by' = by /\ Queued' = Queued
  BY DEF plans, Queued
<1>2. IsFormula(catalogs) /\ IsFormula(catalogs')
  <2>1. IsFormula(catalogs)
    BY DEF Types, KbOK
  <2>2. QED  BY <2>1 DEF IsFormula, With
<1>3. Latest(s)' = n /\ \A i : i # s => Latest(i)' = Latest(i)
  BY DEF Latest, With
<1>4. \A i : Latest(i) \in Nat /\ Latest(i)' \in Nat /\ Latest(i) <= Latest(i)'
  BY <1>2, <1>3 DEF Latest, IsFormula
<1>5. \A i : OnItsWay(i) => OnItsWay(i)'
  BY DEF OnItsWay
<1>6. pc = "observe" => marked = {} /\ DOMAIN reads = {} /\ DOMAIN reasons = {}
  BY DEF Types, FillOK
<1>7. s \in sending' => OnItsWay(s)'
  BY DEF OnItsWay
<1>8. /\ \A i \in DOMAIN reads : reads[i] \in Nat
      /\ \A c \in DOMAIN reasons : \A i \in Inputs[c] : reasons[c][i] \in Nat
      /\ \A c \in Commissions : \A i \in DOMAIN ran[c] : ran[c][i] \in Nat
      /\ \A p \in Queued : \A i \in Inputs[by[p]] : use[p][i] \in Nat
  BY DEF Types, FillOK, IsFormula, RanOK, UseOK
<1>9. Fresh'
  <2>1. ASSUME NEW i \in DOMAIN reads
        PROVE  reads[i] # 0 /\ reads[i] <= Latest(i)' /\ (reads[i] = Latest(i)' \/ OnItsWay(i)')
    <3>1. reads[i] # 0 /\ reads[i] <= Latest(i) /\ (reads[i] = Latest(i) \/ OnItsWay(i))
      BY DEF News, Fresh
    <3>2. reads[i] <= Latest(i)'
      BY <1>4, <1>8, <3>1
    <3>3. QED  BY <1>3, <1>5, <1>6, <1>7, <3>1, <3>2
  <2>2. ASSUME NEW c \in DOMAIN reasons, NEW i \in Inputs[c]
        PROVE  reasons[c][i] <= Latest(i)' /\ (reasons[c][i] = Latest(i)' \/ OnItsWay(i)')
    <3>1. reasons[c][i] <= Latest(i) /\ (reasons[c][i] = Latest(i) \/ OnItsWay(i))
      BY DEF News, Fresh
    <3>2. reasons[c][i] <= Latest(i)'
      BY <1>4, <1>8, <3>1
    <3>3. QED  BY <1>3, <1>5, <1>6, <1>7, <3>1, <3>2
  <2>3. QED  BY <2>1, <2>2 DEF Fresh
<1>10. Onward'
  <2>1. \A c \in Commissions : \A i \in DOMAIN ran[c] : ran[c][i] <= Latest(i)'
    <3>1. ASSUME NEW c \in Commissions, NEW i \in DOMAIN ran[c] PROVE ran[c][i] <= Latest(i)'
      <4>1. ran[c][i] <= Latest(i)
        BY DEF News, Onward
      <4>2. QED  BY <1>4, <1>8, <4>1
    <3>2. QED  BY <3>1
  <2>2. \A p \in Queued : \A i \in Inputs[by[p]] : use[p][i] <= Latest(i)'
    <3>1. ASSUME NEW p \in Queued, NEW i \in Inputs[by[p]] PROVE use[p][i] <= Latest(i)'
      <4>1. use[p][i] <= Latest(i)
        BY DEF News, Onward
      <4>2. QED  BY <1>4, <1>8, <4>1
    <3>2. QED  BY <3>1
  <2>3. QED  BY <1>1, <2>1, <2>2 DEF News, Onward
<1>11. NothingLost'
  <2>1. ASSUME NEW c \in Commissions, Ready(c)', ~Pending(c)' PROVE Served(c)'
    <3>1. s \notin Inputs[c]
      BY <1>7, <2>1 DEF Pending
    <3>2. \A i \in Inputs[c] : Latest(i)' = Latest(i)
      BY <1>3, <3>1
    <3>3. Ready(c) /\ ~Pending(c)
      BY <1>5, <2>1, <3>2 DEF Ready, Pending
    <3>4. Served(c)
      BY <3>3 DEF NothingLost
    <3>5. \A i, v : Planned(c, i, v)' = Planned(c, i, v)
      BY <1>1 DEF Planned
    <3>6. QED  BY <3>2, <3>4, <3>5 DEF Served
  <2>2. QED  BY <2>1 DEF NothingLost
<1>12. QED  BY <1>2, <1>3, <1>9, <1>10, <1>11

\* The catalogs of the foreman's releases are nobody else's.
LEMMA NotReleased ==
  ASSUME NEW s \in Sources
  PROVE  s \in Catalogs /\ s \notin Released
  BY CatalogsAssumption

LEMMA PublishSourceInv ==
  ASSUME IInv, NEW s \in Sources, PublishSource(s)
  PROVE  IInv'
<1>1. /\ Types /\ Queue /\ News /\ NothingLost
      /\ sending' = IF observed THEN sending \cup {s} ELSE sending
      /\ UNCHANGED <<plans, observed, chNew, chOld, pc, marked, reads, reasons, use, job,
                     outcome, editions, ran>>
  BY DEF IInv, PublishSource, chan, fill, evo
<1>2. PICK n \in {Latest(s), Latest(s) + 1} : catalogs' = With(catalogs, s, n)
  BY DEF PublishSource
<1>3. s \in Catalogs /\ s \notin Released
  BY NotReleased
<1>4. n \in Nat /\ n >= Latest(s)
  <2>1. Latest(s) \in Nat
    BY <1>1 DEF Types, KbOK, IsFormula, Latest
  <2>2. QED  BY <1>2, <2>1
<1>5. s \in sending' \/ pc = "observe"
  BY <1>1 DEF Types, KbOK
<1>6. /\ IsFormula(catalogs') /\ Fresh' /\ Onward' /\ NothingLost'
      /\ \A i : i # s => Latest(i)' = Latest(i)
  BY <1>1, <1>2, <1>3, <1>4, <1>5, PublishedNews
<1>7. PlansTypeOK' /\ Queue' /\ UseOK' /\ RanOK'
  BY <1>1, PlansStay
<1>8. Types'
  BY <1>1, <1>3, <1>6, <1>7 DEF Types, ChanOK, KbOK, PcOK, FillOK, EvoOK
<1>9. OwnCatalogs'
  BY <1>1, <1>3, <1>6 DEF News, OwnCatalogs
<1>10. QED  BY <1>6, <1>7, <1>8, <1>9 DEF IInv, News

LEMMA PublishReleaseInv ==
  ASSUME IInv, NEW o \in Released, PublishRelease(o)
  PROVE  IInv'
<1>1. /\ Types /\ Queue /\ News /\ NothingLost /\ pc = "publish" /\ o \in DOMAIN editions
      /\ catalogs' = With(catalogs, o, editions[o]) /\ sending' = sending \cup {o}
      /\ editions' = [i \in DOMAIN editions \ {o} |-> editions[i]] /\ pc' = "send"
      /\ UNCHANGED <<plans, observed, chNew, chOld, marked, reads, reasons, use, job,
                     outcome, ran>>
  BY DEF IInv, PublishRelease, Restrict, chan, fill
<1>2. o \in Catalogs
  BY CatalogsAssumption DEF Released
<1>3. editions[o] = Latest(o) + 1 /\ Latest(o) \in Nat /\ OwnCatalogs
  BY <1>1 DEF News, OwnCatalogs, Types, KbOK, IsFormula, Latest
<1>4. editions[o] \in Nat /\ editions[o] >= Latest(o)
  BY <1>3
<1>5. /\ IsFormula(catalogs') /\ Fresh' /\ Onward' /\ NothingLost'
      /\ \A i : i # o => Latest(i)' = Latest(i)
  BY <1>1, <1>2, <1>4, PublishedNews
<1>6. PlansTypeOK' /\ Queue' /\ UseOK' /\ RanOK'
  BY <1>1, PlansStay
<1>7. IsFormula(editions')
  BY <1>1 DEF Types, EvoOK, IsFormula
<1>8. Types'
  BY <1>1, <1>2, <1>5, <1>6, <1>7 DEF Types, ChanOK, KbOK, PcOK, FillOK, EvoOK
<1>9. OwnCatalogs'
  <2>1. sending \cap Released = {}
    BY <1>1, <1>3 DEF OwnCatalogs
  <2>2. \A i \in DOMAIN editions' : i \in DOMAIN editions /\ i # o /\ editions'[i] = editions[i]
    BY <1>1
  <2>3. QED  BY <1>1, <1>3, <1>5, <2>1, <2>2 DEF OwnCatalogs
<1>10. QED  BY <1>5, <1>6, <1>8, <1>9 DEF IInv, News

LEMMA SendInv ==
  ASSUME IInv, NEW i \in Catalogs, Send(i)
  PROVE  IInv'
<1>1. /\ Types /\ Queue /\ News /\ NothingLost /\ i \in sending /\ Len(chNew) < Capacity
      /\ chNew' = Append(chNew, i) /\ sending' = sending \ {i}
      /\ pc' = IF i \in Released THEN "publish" ELSE pc
      /\ UNCHANGED <<plans, catalogs, observed, chOld, marked, reads, reasons, use, job,
                     outcome, editions, ran>>
  BY DEF IInv, Send, fill, evo
<1>2. OwnCatalogs /\ (i \in Released => pc = "send")
  BY <1>1 DEF News, OwnCatalogs
<1>3. /\ chNew' \in Seq(Catalogs) /\ Len(chNew') <= Capacity
      /\ Range(chNew) \cup {i} \subseteq Range(chNew')
  <2> PICK n : n = Len(chNew)
    OBVIOUS
  <2>1. chNew \in Seq(Catalogs) /\ n \in Nat /\ DOMAIN chNew = 1 .. n
    BY <1>1, LenProperties DEF Types, ChanOK
  <2>2. /\ chNew' \in Seq(Catalogs) /\ Len(chNew') = n + 1 /\ DOMAIN chNew' = 1 .. n + 1
        /\ \A j \in 1 .. n : chNew'[j] = chNew[j]
        /\ chNew'[n + 1] = i
    BY <1>1, <2>1, AppendProperties, LenProperties
  <2>3. Len(chNew') <= Capacity
    BY <1>1, <2>1, <2>2, BoundsAssumption
  <2>4. n + 1 \in 1 .. n + 1 /\ \A j \in 1 .. n : j \in 1 .. n + 1
    BY <2>1
  <2>5. QED  BY <2>1, <2>2, <2>3, <2>4 DEF Range
<1>4. \A j : OnItsWay(j) => OnItsWay(j)'
  BY <1>1, <1>3 DEF OnItsWay
<1>5. PlansTypeOK' /\ Queue' /\ UseOK' /\ RanOK'
  BY <1>1, <1>2, PlansStay
<1>6. Types'
  BY <1>1, <1>2, <1>3, <1>5 DEF Types, ChanOK, KbOK, PcOK, FillOK, EvoOK
<1>7. /\ Fresh' /\ Onward'
      /\ \A c \in Commissions : (Served(c) => Served(c)') /\ (Ready(c)' => Ready(c))
  BY <1>1, <1>4, NewsStay
<1>8. OwnCatalogs'
  <2>1. \A j : Latest(j)' = Latest(j)
    BY <1>1 DEF Latest
  <2>2. QED  BY <1>1, <1>2, <2>1 DEF OwnCatalogs
<1>9. NothingLost'
  <2>1. \A c \in Commissions : Pending(c) => Pending(c)'
    BY <1>1, <1>2, <1>4 DEF Pending
  <2>2. QED  BY <1>1, <1>7, <2>1 DEF NothingLost
<1>10. QED  BY <1>5, <1>6, <1>7, <1>8, <1>9 DEF IInv, News
-----------------------------------------------------------------------------
\* Where the latest release is not read, its change is on the way.
LEMMA FillInv ==
  ASSUME IInv, NEW c \in Commissions, NEW i \in Inputs[c], Fill(c, i)
  PROVE  IInv'
<1> DEFINE read == With(reads, i, Latest(i))
<1>1. /\ Types /\ Queue /\ News /\ NothingLost /\ pc = "fill" /\ c \in marked
      /\ DOMAIN reads \subseteq Inputs[c]
      /\ \/ Latest(i) = 0 /\ marked' = marked \ {c} /\ reads' = Empty /\ UNCHANGED reasons
         \/ Latest(i) # 0 /\ reads' = read /\ UNCHANGED <<marked, reasons>>
         \/ /\ Latest(i) # 0 /\ DOMAIN read = Inputs[c]
            /\ marked' = marked \ {c} /\ reads' = Empty /\ reasons' = With(reasons, c, read)
      /\ UNCHANGED <<plans, catalogs, observed, sending, chNew, chOld, pc, use, job,
                     outcome, editions, ran>>
  BY DEF IInv, Fill, kb, chan, evo
<1>2. Queued' = Queued /\ by' = by /\ (\A j : Latest(j)' = Latest(j) /\ OnItsWay(j)' = OnItsWay(j))
  BY <1>1 DEF plans, Queued, Latest, OnItsWay
<1>3. /\ \A j : Latest(j) \in Nat
      /\ Inputs[c] \subseteq Catalogs /\ IsFormula(reads)
  BY <1>1, CatalogsAssumption DEF Types, KbOK, FillOK, IsFormula, Latest
<1>4. /\ DOMAIN read = DOMAIN reads \cup {i} /\ IsFormula(read)
      /\ \A j \in DOMAIN read : read[j] = IF j = i THEN Latest(i) ELSE reads[j]
  BY <1>3 DEF With, IsFormula
<1>5. ASSUME Latest(i) # 0, NEW j \in DOMAIN read
      PROVE  /\ read[j] # 0 /\ read[j] \in Nat /\ read[j] <= Latest(j)
             /\ read[j] = Latest(j) \/ OnItsWay(j)
             /\ \A d \in Commissions : j \in DOMAIN ran[d] => ran[d][j] <= read[j]
  <2>1. CASE j = i
    BY <1>1, <1>3, <1>4, <1>5, <2>1 DEF News, Onward
  <2>2. CASE j # i
    <3>1. j \in DOMAIN reads /\ read[j] = reads[j]
      BY <1>4, <2>2
    <3>2. reads[j] \in Nat
      BY <1>3, <3>1 DEF IsFormula
    <3>3. QED  BY <1>1, <3>1, <3>2 DEF News, Fresh, Onward
  <2>3. QED  BY <2>1, <2>2
<1> HIDE DEF read
<1>6. DOMAIN Empty = {} /\ IsFormula(Empty)
  BY DEF Empty, IsFormula
<1>7. PlansTypeOK' /\ Queue' /\ UseOK' /\ RanOK'
  BY <1>1, PlansStay
<1>8. OwnCatalogs'
  BY <1>1, <1>2 DEF News, OwnCatalogs
<1>9. Types' <=> FillOK'
  BY <1>1, <1>7 DEF Types, ChanOK, KbOK, PcOK, EvoOK
<1>10. Served(c) => Served(c)' \/ reasons' # reasons
  BY <1>1, <1>2 DEF Served, Planned
<1>11. CASE Latest(i) = 0 /\ marked' = marked \ {c} /\ reads' = Empty /\ UNCHANGED reasons
  <2>1. FillOK'
    BY <1>1, <1>6, <1>11 DEF Types, FillOK
  <2>2. Fresh' /\ Onward'
    BY <1>1, <1>2, <1>6, <1>11 DEF News, Fresh, Onward
  <2>3. ~Ready(c)'
    BY <1>2, <1>11 DEF Ready
  <2>4. ASSUME NEW d \in Commissions, d # c, Ready(d)' PROVE Served(d)' \/ Pending(d)'
    <3>1. Ready(d) /\ (Pending(d) => Pending(d)')
      BY <1>1, <1>2, <1>11, <2>4 DEF Ready, Pending
    <3>2. Served(d) => Served(d)'
      BY <1>1, <1>2, <1>11 DEF Served, Planned
    <3>3. QED  BY <1>1, <3>1, <3>2 DEF NothingLost
  <2>5. NothingLost'
    BY <2>3, <2>4 DEF NothingLost
  <2>6. QED  BY <1>7, <1>8, <1>9, <2>1, <2>2, <2>5 DEF IInv, News
<1>12. CASE Latest(i) # 0 /\ reads' = read /\ UNCHANGED <<marked, reasons>>
  <2>1. FillOK'
    BY <1>1, <1>4, <1>12 DEF Types, FillOK
  <2>2. Fresh' /\ Onward'
    BY <1>1, <1>2, <1>5, <1>12 DEF News, Fresh, Onward
  <2>3. ASSUME NEW d \in Commissions, Ready(d)' PROVE Served(d)' \/ Pending(d)'
    <3>1. Ready(d) /\ (Pending(d) => Pending(d)')
      BY <1>1, <1>2, <1>12, <2>3 DEF Ready, Pending
    <3>2. Served(d) => Served(d)'
      BY <1>1, <1>2, <1>12 DEF Served, Planned
    <3>3. QED  BY <1>1, <3>1, <3>2 DEF NothingLost
  <2>4. QED  BY <1>7, <1>8, <1>9, <2>1, <2>2, <2>3 DEF IInv, News, NothingLost
<1>13. CASE /\ Latest(i) # 0 /\ DOMAIN read = Inputs[c]
            /\ marked' = marked \ {c} /\ reads' = Empty /\ reasons' = With(reasons, c, read)
  <2>1. DOMAIN reasons' = DOMAIN reasons \cup {c} /\ reasons'[c] = read
        /\ \A d \in DOMAIN reasons : d # c => reasons'[d] = reasons[d]
    BY <1>13 DEF With
  <2>2. read \in [Inputs[c] -> Nat \ {0}]
    <3>1. read = [j \in DOMAIN read |-> read[j]]
      BY DEF read, With
    <3>2. QED  BY <1>5, <1>13, <3>1
  <2>3. FillOK'
    <3>1. \A d \in DOMAIN reasons' : reasons'[d] \in [Inputs[d] -> Nat \ {0}]
      BY <1>1, <2>1, <2>2 DEF Types, FillOK
    <3>2. DOMAIN reasons' \subseteq Commissions
      BY <1>1, <2>1 DEF Types, FillOK
    <3>3. QED  BY <1>1, <1>6, <1>13, <3>1, <3>2 DEF Types, FillOK
  <2>4. Fresh'
    <3>1. ASSUME NEW d \in DOMAIN reasons', NEW j \in Inputs[d]
          PROVE  reasons'[d][j] <= Latest(j) /\ (reasons'[d][j] = Latest(j) \/ OnItsWay(j))
      <4>1. CASE d = c
        BY <1>5, <1>13, <2>1, <3>1, <4>1
      <4>2. CASE d # c
        BY <1>1, <2>1, <3>1, <4>2 DEF News, Fresh
      <4>3. QED  BY <4>1, <4>2
    <3>2. QED  BY <1>2, <1>6, <1>13, <3>1 DEF Fresh
  <2>5. Onward'
    <3>1. ASSUME NEW d \in Commissions, NEW j \in DOMAIN ran[d], d \in DOMAIN reasons'
          PROVE  ran[d][j] <= reasons'[d][j]
      <4>1. CASE d = c
        <5>1. j \in Inputs[c]
          BY <1>1, <3>1, <4>1 DEF Types, RanOK
        <5>2. QED  BY <1>5, <1>13, <2>1, <3>1, <4>1, <5>1
      <4>2. CASE d # c
        BY <1>1, <2>1, <3>1, <4>2 DEF News, Onward
      <4>3. QED  BY <4>1, <4>2
    <3>2. QED  BY <1>1, <1>2, <1>6, <1>13, <3>1 DEF News, Onward
  <2>6. Served(c)' \/ Pending(c)'
    <3>1. SUFFICES ASSUME ~Pending(c)' PROVE Served(c)'
      OBVIOUS
    <3>2. ASSUME NEW j \in Inputs[c] PROVE Planned(c, j, Latest(j))'
      <4>1. ~OnItsWay(j)
        BY <1>2, <3>1, <3>2 DEF Pending
      <4>2. reasons'[c][j] = Latest(j)' /\ Latest(j)' \in Nat
        BY <1>2, <1>3, <1>5, <1>13, <2>1, <3>2, <4>1
      <4>3. QED  BY <2>1, <4>2 DEF Planned
    <3>3. QED  BY <3>2 DEF Served
  <2>7. ASSUME NEW d \in Commissions, d # c, Ready(d)' PROVE Served(d)' \/ Pending(d)'
    <3>1. Ready(d) /\ (Pending(d) => Pending(d)')
      BY <1>1, <1>2, <1>13, <2>7 DEF Ready, Pending
    <3>2. \A j, v : Planned(d, j, v) => Planned(d, j, v)'
      BY <1>1, <1>2, <2>1, <2>7 DEF Planned
    <3>3. Served(d) => Served(d)'
      BY <1>2, <3>2 DEF Served
    <3>4. QED  BY <1>1, <3>1, <3>3 DEF NothingLost
  <2>8. NothingLost'
    BY <2>6, <2>7 DEF NothingLost
  <2>9. QED  BY <1>7, <1>8, <1>9, <2>3, <2>4, <2>5, <2>8 DEF IInv, News
<1>14. QED  BY <1>1, <1>11, <1>12, <1>13
-----------------------------------------------------------------------------
\* Between two jobs no plan is leased, so every queued plan is the one plan its
\* commission may have there: a pointer is to spare.
LEMMA PlanToSpare ==
  ASSUME Types, Queue, pc = "fill"
  PROVE  \E p \in Ids : p \notin Queued
<1> SUFFICES ASSUME Ids \subseteq Queued PROVE FALSE
  OBVIOUS
<1>1. by \in [Ids -> Commissions]
  BY DEF Types, PlansTypeOK
<1>2. \A p \in Ids : commissionIndex[by[p]] = p
  BY DEF Queue, Leased, Waiting
<1>3. Cardinality(Commissions) < Cardinality(Ids)
  <2>1. Cardinality(Commissions) \in Nat /\ Cardinality(Ids) \in Nat
    BY BoundsAssumption, FS_CardinalityType
  <2>2. QED  BY <2>1, BoundsAssumption
<1>4. \E p, q \in Ids : p # q /\ by[p] = by[q]
  BY <1>1, <1>3, BoundsAssumption, FS_PigeonHole
<1>5. QED  BY <1>2, <1>4

\* The new plan of c is the only one of c in the queue.
LEMMA Pushed ==
  ASSUME Types, Queue, pc = "fill", NEW c \in Commissions, NEW p \in Ids, p \notin Queued,
         Push(p, c)
  PROVE  /\ queue' \in Seq(Ids) /\ Once'
         /\ Queued' = {q \in Queued : by[q] # c} \cup {p}
         /\ by' = [by EXCEPT ![p] = c]
         /\ leasedAs' = [leasedAs EXCEPT ![p] = NoToken]
         /\ commissionIndex' = [commissionIndex EXCEPT ![c] = p]
         /\ leasesIndex' = leasesIndex
<1>1. PlansTypeOK /\ Once /\ Replaceable
      /\ \A q \in Queued : commissionIndex[by[q]] = q
  BY DEF Types, Queue, Leased, Waiting
<1>2. CASE Evictable(c)
  <2> DEFINE o == commissionIndex[c]
  <2>1. o \in Queued /\ queue' = ReplaceAt(queue, At(o), p)
    BY <1>2 DEF Push, Evictable
  <2>2. by[o] = c
    <3>1. o # NoPlan
      <4>1. o \in Ids
        BY <1>1, <2>1, ElementOfSeq DEF PlansTypeOK, Queued
      <4>2. QED  BY <4>1, NonesAssumption
    <3>2. QED  BY <1>1, <3>1 DEF Replaceable
  <2>3. \A q \in Queued : by[q] = c => q = o
    BY <1>1
  <2> HIDE DEF o
  <2>4. queue' \in Seq(Ids) /\ Once' /\ Queued' = (Queued \ {o}) \cup {p}
    BY <1>1, <2>1, QueueWithReplaced
  <2>5. QED  BY <2>2, <2>3, <2>4 DEF Push
<1>3. CASE ~Evictable(c)
  <2>1. queue' = Append(queue, p)
    BY <1>3 DEF Push
  <2>2. \A q \in Queued : by[q] # c
    BY <1>1, <1>3 DEF Evictable
  <2>3. queue' \in Seq(Ids) /\ Once' /\ Queued' = Queued \cup {p}
    BY <1>1, <2>1, QueueWithAppended
  <2>4. QED  BY <2>2, <2>3 DEF Push
<1>4. QED  BY <1>2, <1>3

LEMMA QueuedIds ==
  ASSUME PlansTypeOK
  PROVE  Queued \subseteq Ids
BY ElementOfSeq, LenProperties DEF PlansTypeOK, Queued

LEMMA PushPlanInv ==
  ASSUME IInv, NEW c \in Commissions, PushPlan(c)
  PROVE  IInv'
<1> DEFINE p == CHOOSE p \in Ids : p \notin Queued
<1>1. /\ Types /\ Queue /\ News /\ NothingLost /\ pc = "fill" /\ pc' = "fill" /\ marked = {}
      /\ c \in DOMAIN reasons /\ Push(p, c)
      /\ use' = [use EXCEPT ![p] = reasons[c]]
      /\ reasons' = [d \in DOMAIN reasons \ {c} |-> reasons[d]]
      /\ UNCHANGED <<catalogs, observed, sending, chNew, chOld, marked, reads, job,
                     outcome, editions, ran>>
  BY DEF IInv, PushPlan, Restrict, kb, chan, evo
<1>2. p \in Ids /\ p \notin Queued
  BY <1>1, PlanToSpare
<1> HIDE DEF p
<1>3. /\ queue' \in Seq(Ids) /\ Once'
      /\ Queued' = {q \in Queued : by[q] # c} \cup {p}
      /\ by' = [by EXCEPT ![p] = c]
      /\ leasedAs' = [leasedAs EXCEPT ![p] = NoToken]
      /\ commissionIndex' = [commissionIndex EXCEPT ![c] = p]
      /\ leasesIndex' = leasesIndex
  BY <1>1, <1>2, Pushed
<1>4. /\ PlansTypeOK /\ UseOK /\ FillOK /\ RanOK /\ Fresh /\ Onward
      /\ Queued \subseteq Ids
      /\ (\A t \in Tokens : leasesIndex[t] = NoPlan) /\ (\A q \in Queued : leasedAs[q] = NoToken)
  BY <1>1, QueuedIds DEF Types, Queue, News, Leased
<1>5. /\ by'[p] = c /\ leasedAs'[p] = NoToken /\ use'[p] = reasons[c]
      /\ commissionIndex'[c] = p
      /\ \A q \in Queued' : q # p => /\ q \in Queued /\ by[q] # c /\ by'[q] = by[q]
                                     /\ leasedAs'[q] = leasedAs[q] /\ use'[q] = use[q]
      /\ \A q \in Queued : by[q] # c => q \in Queued' /\ by'[q] = by[q] /\ use'[q] = use[q]
      /\ \A d \in Commissions : d # c => commissionIndex'[d] = commissionIndex[d]
  <2>1. /\ by \in [Ids -> Commissions] /\ leasedAs \in [Ids -> Tokens \cup {NoToken}]
        /\ commissionIndex \in [Commissions -> Ids \cup {NoPlan}] /\ use = [q \in Ids |-> use[q]]
    BY <1>4 DEF PlansTypeOK, UseOK
  <2>2. \A q \in Queued : q # p
    BY <1>2
  <2>3. use'[p] = reasons[c] /\ \A q \in Ids : q # p => use'[q] = use[q]
    BY <1>1, <1>2, <2>1
  <2>4. QED  BY <1>2, <1>3, <1>4, <2>1, <2>2, <2>3
<1>6. PlansTypeOK'
  BY <1>2, <1>3, <1>4 DEF PlansTypeOK
<1>7. UseOK'
  <2>1. use' = [q \in Ids |-> use'[q]]
    BY <1>1, <1>4 DEF UseOK
  <2>2. ASSUME NEW q \in Queued' PROVE use'[q] \in [Inputs[by'[q]] -> Nat \ {0}]
    <3>1. CASE q = p
      BY <1>1, <1>4, <1>5, <3>1 DEF FillOK
    <3>2. CASE q # p
      BY <1>4, <1>5, <2>2, <3>2 DEF UseOK
    <3>3. QED  BY <3>1, <3>2
  <2>3. QED  BY <2>1, <2>2 DEF UseOK
<1>8. Types'
  <2>1. FillOK'
    BY <1>1, <1>4 DEF FillOK
  <2>2. QED  BY <1>1, <1>6, <1>7, <2>1 DEF Types, ChanOK, KbOK, PcOK, RanOK, EvoOK
<1>9. Queue'
  <2>1. Replaceable'
    <3>1. p \in Queued'
      BY <1>3
    <3>2. ASSUME NEW d \in Commissions, commissionIndex'[d] # NoPlan, d # c
          PROVE  /\ commissionIndex'[d] \in Queued' /\ by'[commissionIndex'[d]] = d
                 /\ leasedAs'[commissionIndex'[d]] = NoToken
      <4>1. /\ commissionIndex'[d] = commissionIndex[d] /\ commissionIndex[d] \in Queued
            /\ by[commissionIndex[d]] = d
        BY <1>1, <1>5, <3>2 DEF Queue, Replaceable
      <4>2. commissionIndex[d] # p
        BY <1>2, <4>1
      <4>3. QED  BY <1>4, <1>5, <3>2, <4>1, <4>2
    <3>3. QED  BY <1>5, <3>1, <3>2 DEF Replaceable
  <2>2. Waiting'
    <3>1. \A q \in Queued : commissionIndex[by[q]] = q /\ by[q] \in Commissions
      BY <1>1, <1>4 DEF Queue, Waiting, PlansTypeOK
    <3>2. QED  BY <1>5, <3>1 DEF Waiting
  <2>3. Leased'
    BY <1>1, <1>3, <1>4, <1>5 DEF Leased
  <2>4. QED  BY <1>3, <2>1, <2>2, <2>3 DEF Queue
<1>10. (\A i : Latest(i)' = Latest(i) /\ OnItsWay(i)' = OnItsWay(i)) /\ \A i : Latest(i) \in Nat
  BY <1>1 DEF Latest, OnItsWay, Types, KbOK, IsFormula
<1>11. OwnCatalogs'
  BY <1>1, <1>10 DEF News, OwnCatalogs
<1>12. Fresh'
  BY <1>1, <1>4, <1>10 DEF Fresh
<1>13. Onward'
  <2>1. ASSUME NEW q \in Queued', NEW i \in Inputs[by'[q]]
        PROVE  use'[q][i] <= Latest(i) /\ (i \in DOMAIN ran[by'[q]] => ran[by'[q]][i] <= use'[q][i])
    <3>1. CASE q = p
      BY <1>1, <1>4, <1>5, <2>1, <3>1 DEF Fresh, Onward
    <3>2. CASE q # p
      BY <1>4, <1>5, <2>1, <3>2 DEF Onward
    <3>3. QED  BY <3>1, <3>2
  <2>2. QED  BY <1>1, <1>4, <1>10, <2>1 DEF Onward
<1>14. NothingLost'
  <2>1. \A d \in Commissions : (Ready(d)' => Ready(d)) /\ (Pending(d) => Pending(d)')
    BY <1>1, <1>10 DEF Ready, Pending
  <2>2. Served(c)' \/ Pending(c)'
    <3>1. SUFFICES ASSUME ~Pending(c)' PROVE Served(c)'
      OBVIOUS
    <3>2. ASSUME NEW i \in Inputs[c] PROVE Planned(c, i, Latest(i))'
      <4>1. ~OnItsWay(i)
        BY <1>10, <3>1, <3>2 DEF Pending
      <4>2. use'[p][i] = Latest(i)'
        BY <1>1, <1>4, <1>5, <1>10, <3>2, <4>1 DEF Fresh
      <4>3. p \in Queued' /\ by'[p] = c /\ Latest(i)' >= Latest(i)'
        BY <1>3, <1>5, <1>10
      <4>4. QED  BY <4>2, <4>3 DEF Planned
    <3>3. QED  BY <3>2 DEF Served
  <2>3. ASSUME NEW d \in Commissions, d # c, Served(d) PROVE Served(d)'
    <3>1. \A i, v : Planned(d, i, v) => Planned(d, i, v)'
      BY <1>1, <1>5, <2>3 DEF Planned
    <3>2. QED  BY <1>10, <2>3, <3>1 DEF Served
  <2>4. QED  BY <1>1, <2>1, <2>2, <2>3 DEF NothingLost
<1>15. QED  BY <1>8, <1>9, <1>11, <1>12, <1>13, <1>14 DEF IInv, News
-----------------------------------------------------------------------------
LEMMA NothingToDoInv ==
  ASSUME IInv, NothingToDo
  PROVE  IInv'
<1>1. /\ Types /\ Queue /\ News /\ NothingLost /\ pc = "fill" /\ marked = {} /\ reasons = Empty
      /\ pc' = "pump"
      /\ UNCHANGED <<plans, catalogs, observed, sending, chNew, chOld, marked, reads, reasons, use,
                     job, outcome, editions, ran>>
  BY DEF IInv, NothingToDo, Pumped, kb, chan, fill, evo
<1>2. PlansTypeOK' /\ Queue' /\ UseOK' /\ RanOK'
  BY <1>1, PlansStay
<1>3. DOMAIN reasons = {}
  BY <1>1 DEF Empty
<1>4. Types'
  BY <1>1, <1>2, <1>3 DEF Types, ChanOK, KbOK, PcOK, FillOK, EvoOK
<1>5. /\ Fresh' /\ Onward'
      /\ \A c \in Commissions : (Served(c) => Served(c)') /\ (Ready(c)' => Ready(c))
  BY <1>1, NewsStay DEF OnItsWay
<1>6. OwnCatalogs'
  BY <1>1 DEF News, OwnCatalogs, Latest
<1>7. NothingLost'
  <2>1. \A c \in Commissions : Pending(c) => Pending(c)'
    BY <1>1 DEF Pending, OnItsWay
  <2>2. QED  BY <1>1, <1>5, <2>1 DEF NothingLost
<1>8. QED  BY <1>2, <1>4, <1>5, <1>6, <1>7 DEF IInv, News

\* A commission runs with what its plan was made for, which is no less than
\* what it ran with before.
LEMMA StartJobInv ==
  ASSUME IInv, StartJob
  PROVE  IInv'
<1> DEFINE p == queue[nextLeasable]
           c == by[p]
<1>1. /\ Types /\ Queue /\ News /\ NothingLost /\ pc = "fill" /\ marked = {} /\ reasons = Empty
      /\ Leasable # {} /\ pc' = "job"
      /\ ran' = [ran EXCEPT ![c] = use[p]]
      /\ UNCHANGED <<catalogs, observed, sending, chNew, chOld, marked, reads, reasons, use,
                     outcome, editions>>
  BY DEF IInv, StartJob, LeaseNext, Pumped, kb, chan, fill
<1>2. PICK t \in Tokens : /\ job' = [plan |-> p, token |-> t]
                          /\ leasedAs' = [leasedAs EXCEPT ![p] = t]
                          /\ leasesIndex' = [leasesIndex EXCEPT ![t] = p]
                          /\ commissionIndex' = [commissionIndex EXCEPT ![c] = NoPlan]
                          /\ queue' = queue /\ by' = by
  BY DEF StartJob, LeaseNext, Unevictable
<1>3. /\ PlansTypeOK /\ UseOK /\ FillOK /\ RanOK /\ Fresh /\ Onward /\ Queued \subseteq Ids
      /\ Once /\ Replaceable /\ Waiting
      /\ (\A k \in Tokens : leasesIndex[k] = NoPlan) /\ (\A q \in Queued : leasedAs[q] = NoToken)
  BY <1>1, QueuedIds DEF Types, Queue, News, Leased
<1>4. p \in Queued /\ p \in Ids /\ p # NoPlan
  <2>1. nextLeasable \in DOMAIN queue
    BY <1>1, <1>3, FirstLeasable
  <2>2. QED  BY <1>3, <2>1, NonesAssumption DEF Queued
<1>5. c \in Commissions /\ use[p] \in [Inputs[c] -> Nat \ {0}] /\ t # NoToken
  BY <1>3, <1>4, NonesAssumption DEF PlansTypeOK, UseOK
<1>6. \A q \in Queued : by[q] = c => q = p
  BY <1>3, <1>4 DEF Waiting
<1>7. DOMAIN reads = {} /\ DOMAIN reasons = {}
  BY <1>1, <1>3 DEF FillOK, Empty
<1> HIDE DEF p, c
<1>c. c = by[p]
  BY DEF c
<1>8. Queued' = Queued
  BY <1>2 DEF Queued
<1>9. /\ ran'[c] = use[p] /\ \A d \in Commissions : d # c => ran'[d] = ran[d]
      /\ commissionIndex'[c] = NoPlan
      /\ \A d \in Commissions : d # c => commissionIndex'[d] = commissionIndex[d]
      /\ leasedAs'[p] = t /\ (\A q \in Queued : q # p => leasedAs'[q] = leasedAs[q])
      /\ \A k \in Tokens : leasesIndex'[k] = IF k = t THEN p ELSE NoPlan
  <2>1. /\ leasedAs \in [Ids -> Tokens \cup {NoToken}]
        /\ leasesIndex \in [Tokens -> Ids \cup {NoPlan}]
        /\ commissionIndex \in [Commissions -> Ids \cup {NoPlan}]
        /\ ran = [d \in Commissions |-> ran[d]]
    BY <1>3 DEF PlansTypeOK, RanOK
  <2>2. ran'[c] = use[p] /\ \A d \in Commissions : d # c => ran'[d] = ran[d]
    BY <1>1, <1>5, <2>1
  <2>3. QED  BY <1>2, <1>3, <1>4, <1>5, <2>1, <2>2
<1>10. PlansTypeOK'
  BY <1>2, <1>3, <1>4 DEF PlansTypeOK
<1>11. UseOK'
  BY <1>1, <1>2, <1>3, <1>8 DEF UseOK
<1>12. RanOK'
  <2>1. ran' = [d \in Commissions |-> ran'[d]]
    BY <1>1, <1>3 DEF RanOK
  <2>2. ASSUME NEW d \in Commissions
        PROVE  ran'[d] \in [DOMAIN ran'[d] -> Nat] /\ DOMAIN ran'[d] \subseteq Inputs[d]
    <3>1. CASE d = c
      BY <1>5, <1>9, <3>1
    <3>2. CASE d # c
      BY <1>3, <1>9, <3>2 DEF RanOK
    <3>3. QED  BY <3>1, <3>2
  <2>3. QED  BY <2>1, <2>2 DEF RanOK
<1>13. Types'
  <2>1. EvoOK'
    BY <1>1, <1>2, <1>4 DEF Types, EvoOK
  <2>2. FillOK'
    BY <1>1, <1>3, <1>7 DEF FillOK
  <2>3. QED  BY <1>1, <1>10, <1>11, <1>12, <2>1, <2>2 DEF Types, ChanOK, KbOK, PcOK
<1>14. Queue'
  <2>1. Once'
    BY <1>2, <1>3 DEF Once
  <2>2. Replaceable'
    <3>1. ASSUME NEW d \in Commissions, commissionIndex'[d] # NoPlan
          PROVE  /\ commissionIndex'[d] \in Queued' /\ by'[commissionIndex'[d]] = d
                 /\ leasedAs'[commissionIndex'[d]] = NoToken
      <4>1. d # c /\ commissionIndex'[d] = commissionIndex[d]
        BY <1>9, <3>1
      <4>2. commissionIndex[d] \in Queued /\ by[commissionIndex[d]] = d
        BY <1>3, <3>1, <4>1 DEF Replaceable
      <4>3. commissionIndex[d] # p
        BY <1>c, <4>1, <4>2
      <4>4. QED  BY <1>2, <1>3, <1>8, <1>9, <4>1, <4>2, <4>3
    <3>2. QED  BY <3>1 DEF Replaceable
  <2>3. Waiting'
    <3>1. ASSUME NEW q \in Queued, leasedAs'[q] = NoToken PROVE commissionIndex'[by[q]] = q
      <4>1. q # p
        BY <1>5, <1>9, <3>1
      <4>2. by[q] # c /\ by[q] \in Commissions
        BY <1>3, <1>6, <4>1 DEF PlansTypeOK
      <4>3. QED  BY <1>3, <1>9, <4>2 DEF Waiting
    <3>2. QED  BY <1>2, <1>8, <3>1 DEF Waiting
  <2>4. Leased'
    <3>1. job'.plan = p /\ job'.token = t
      BY <1>2
    <3>2. ran'[by'[p]] = use'[p]
      BY <1>1, <1>2, <1>9, <1>c
    <3>3. QED  BY <1>1, <1>3, <1>4, <1>8, <1>9, <3>1, <3>2 DEF Leased
  <2>5. QED  BY <2>1, <2>2, <2>3, <2>4 DEF Queue
<1>15. /\ \A i : Latest(i)' = Latest(i) /\ OnItsWay(i)' = OnItsWay(i)
       /\ \A i : Latest(i) \in Nat
  BY <1>1 DEF Latest, OnItsWay, Types, KbOK, IsFormula
<1>16. OwnCatalogs'
  BY <1>1, <1>15 DEF News, OwnCatalogs
<1>17. Fresh'
  BY <1>1, <1>7 DEF Fresh
<1>18. \A i \in Inputs[c] : /\ use[p][i] \in Nat /\ use[p][i] <= Latest(i)
                            /\ i \in DOMAIN ran[c] => ran[c][i] <= use[p][i]
  BY <1>3, <1>4, <1>5, <1>c DEF Onward
<1>19. Onward'
  <2>1. ASSUME NEW d \in Commissions, NEW i \in DOMAIN ran'[d] PROVE ran'[d][i] <= Latest(i)
    <3>1. CASE d = c
      BY <1>5, <1>9, <1>18, <2>1, <3>1
    <3>2. CASE d # c
      BY <1>3, <1>9, <2>1, <3>2 DEF Onward
    <3>3. QED  BY <3>1, <3>2
  <2>2. ASSUME NEW q \in Queued, NEW i \in Inputs[by[q]]
        PROVE  use[q][i] <= Latest(i) /\ (i \in DOMAIN ran'[by[q]] => ran'[by[q]][i] <= use[q][i])
    <3>1. CASE q = p
      BY <1>9, <1>18, <1>c, <2>2, <3>1
    <3>2. CASE q # p
      <4>1. by[q] # c /\ by[q] \in Commissions
        BY <1>3, <1>6, <3>2 DEF PlansTypeOK
      <4>2. QED  BY <1>3, <1>9, <2>2, <4>1 DEF Onward
    <3>3. QED  BY <3>1, <3>2
  <2>3. QED  BY <1>1, <1>2, <1>7, <1>8, <1>15, <2>1, <2>2 DEF Onward
<1>20. NothingLost'
  <2>1. \A d \in Commissions : (Ready(d)' => Ready(d)) /\ (Pending(d) => Pending(d)')
    BY <1>1, <1>15 DEF Ready, Pending
  <2>2. ASSUME NEW d \in Commissions, NEW i \in Inputs[d], NEW v \in Nat, Planned(d, i, v)
        PROVE  Planned(d, i, v)'
    <3>1. CASE \E q \in Queued : by[q] = d /\ use[q][i] >= v
      BY <1>1, <1>2, <1>8, <3>1 DEF Planned
    <3>2. CASE i \in DOMAIN ran[d] /\ ran[d][i] >= v
      <4>1. CASE d = c
        <5>1. ran[c][i] \in Nat /\ ran'[c][i] >= ran[c][i] /\ ran'[c][i] \in Nat
          BY <1>3, <1>5, <1>9, <1>18, <2>2, <3>2, <4>1 DEF RanOK
        <5>2. i \in DOMAIN ran'[c] /\ ran'[c][i] >= v
          BY <1>5, <1>9, <2>2, <3>2, <4>1, <5>1
        <5>3. QED  BY <4>1, <5>2 DEF Planned
      <4>2. CASE d # c
        BY <1>9, <3>2, <4>2 DEF Planned
      <4>3. QED  BY <4>1, <4>2
    <3>3. QED  BY <1>7, <2>2, <3>1, <3>2 DEF Planned
  <2>3. \A d \in Commissions : Served(d) => Served(d)'
    BY <1>15, <2>2 DEF Served
  <2>4. QED  BY <1>1, <2>1, <2>3 DEF NothingLost
<1>21. QED  BY <1>13, <1>14, <1>16, <1>17, <1>19, <1>20 DEF IInv, News

\* The finished plan leaves the queue and the leases; what it was made for is
\* what its commission ran with.
LEMMA JobEndsInv ==
  ASSUME IInv, JobEnds
  PROVE  IInv'
<1> DEFINE p == job.plan
           c == by[p]
<1>1. /\ Types /\ Queue /\ News /\ NothingLost /\ pc = "job" /\ pc' = "publish"
      /\ Finish(job.token)
      /\ outcome' \in Outcomes /\ (editions' = makeReleases(c) \/ editions' = Empty)
      /\ use' = [use EXCEPT ![p] = Empty]
      /\ UNCHANGED <<catalogs, observed, sending, chNew, chOld, marked, reads, reasons, job, ran>>
  BY DEF IInv, JobEnds, kb, chan, fill
<1>2. /\ PlansTypeOK /\ UseOK /\ FillOK /\ RanOK /\ EvoOK /\ Fresh /\ Onward /\ OwnCatalogs
      /\ Queued \subseteq Ids /\ Once /\ Replaceable /\ Waiting
      /\ job.token \in Tokens /\ p \in Queued /\ p \in Ids /\ leasedAs[p] = job.token
      /\ \A t \in Tokens : leasesIndex[t] = IF t = job.token THEN p ELSE NoPlan
      /\ \A q \in Queued : q # p => leasedAs[q] = NoToken
      /\ ran[c] = use[p]
  BY <1>1, QueuedIds DEF Types, Queue, News, Leased, EvoOK
<1>3. p # NoPlan /\ job.token # NoToken /\ c \in Commissions
  BY <1>2, NonesAssumption DEF PlansTypeOK
<1>4. use[p] \in [Inputs[c] -> Nat \ {0}]
  BY <1>2 DEF UseOK
<1> HIDE DEF p, c
<1>c. c = by[p] /\ p = job.plan
  BY DEF c, p
<1>5. remove(p)
  BY <1>1, <1>2, <1>3 DEF Finish
<1>6. /\ queue' = RemoveAt(queue, At(p))
      /\ leasesIndex' = [leasesIndex EXCEPT ![job.token] = NoPlan]
      /\ by' = by /\ leasedAs' = leasedAs /\ commissionIndex' = commissionIndex
  <2>1. commissionIndex[c] # p
    BY <1>2, <1>3 DEF Replaceable
  <2>2. QED  BY <1>2, <1>5, <1>c, <2>1 DEF remove, NotOf
<1>7. queue' \in Seq(Ids) /\ Once' /\ Queued' = Queued \ {p}
  BY <1>2, <1>6, QueueWithout
<1>8. /\ \A t \in Tokens : leasesIndex'[t] = NoPlan
      /\ leasesIndex' \in [Tokens -> Ids \cup {NoPlan}]
      /\ \A q \in Queued' : q \in Queued /\ q # p /\ use'[q] = use[q]
  <2>1. leasesIndex \in [Tokens -> Ids \cup {NoPlan}] /\ use = [q \in Ids |-> use[q]]
    BY <1>2 DEF PlansTypeOK, UseOK
  <2>2. \A q \in Queued : q # p => use'[q] = use[q]
    BY <1>1, <1>2, <1>c, <2>1
  <2>3. QED  BY <1>2, <1>6, <1>7, <2>1, <2>2
<1>9. PlansTypeOK'
  BY <1>2, <1>6, <1>7, <1>8 DEF PlansTypeOK
<1>10. UseOK'
  <2>1. use' = [q \in Ids |-> use'[q]]
    BY <1>1, <1>2, <1>c DEF UseOK
  <2>2. QED  BY <1>2, <1>6, <1>8, <2>1 DEF UseOK
<1>11. (\A i : Latest(i)' = Latest(i) /\ OnItsWay(i)' = OnItsWay(i)) /\ \A i : Latest(i) \in Nat
  BY <1>1 DEF Latest, OnItsWay, Types, KbOK, IsFormula
<1>12. /\ IsFormula(editions') /\ DOMAIN editions' \subseteq Released
       /\ \A o \in DOMAIN editions' : editions'[o] = Latest(o) + 1
  <2>1. CASE editions' = makeReleases(c)
    <3>1. DOMAIN editions' = Outs[c] /\ \A o \in Outs[c] : editions'[o] = Latest(o) + 1
      BY <2>1 DEF makeReleases
    <3>2. Outs[c] \subseteq Released /\ Outs[c] \subseteq Catalogs
      BY <1>3, CatalogsAssumption DEF Released
    <3>3. editions' \in [Outs[c] -> Nat]
      BY <1>11, <2>1 DEF makeReleases
    <3>4. QED  BY <3>1, <3>2, <3>3 DEF IsFormula
  <2>2. CASE editions' = Empty
    BY <2>2 DEF Empty, IsFormula
  <2>3. QED  BY <1>1, <2>1, <2>2
<1>13. Types'
  <2>1. EvoOK'
    BY <1>1, <1>2, <1>12, BoundsAssumption DEF EvoOK
  <2>2. QED  BY <1>1, <1>9, <1>10, <2>1 DEF Types, ChanOK, KbOK, PcOK, FillOK, RanOK
<1>14. Queue'
  <2>1. Replaceable'
    <3>1. ASSUME NEW d \in Commissions, commissionIndex[d] # NoPlan
          PROVE  commissionIndex[d] \in Queued'
      <4>1. commissionIndex[d] \in Queued /\ leasedAs[commissionIndex[d]] = NoToken
        BY <1>2, <3>1 DEF Replaceable
      <4>2. QED  BY <1>2, <1>3, <1>7, <4>1
    <3>2. QED  BY <1>2, <1>6, <3>1 DEF Replaceable
  <2>2. Waiting'
    BY <1>2, <1>6, <1>8 DEF Waiting
  <2>3. Leased'
    BY <1>1, <1>2, <1>6, <1>8 DEF Leased
  <2>4. QED  BY <1>7, <2>1, <2>2, <2>3 DEF Queue
<1>15. OwnCatalogs'
  BY <1>1, <1>2, <1>11, <1>12 DEF OwnCatalogs
<1>16. Fresh'
  BY <1>1, <1>2, <1>11 DEF Fresh
<1>17. Onward'
  BY <1>1, <1>2, <1>6, <1>8, <1>11 DEF Onward
<1>18. NothingLost'
  <2>1. \A d \in Commissions : (Ready(d)' => Ready(d)) /\ (Pending(d) => Pending(d)')
    BY <1>1, <1>11 DEF Ready, Pending
  <2>2. ASSUME NEW d \in Commissions, NEW i \in Inputs[d], NEW v \in Nat, Planned(d, i, v)
        PROVE  Planned(d, i, v)'
    <3>1. ASSUME NEW q \in Queued, by[q] = d, use[q][i] >= v PROVE Planned(d, i, v)'
      <4>1. CASE q = p
        <5>1. i \in DOMAIN ran[d] /\ ran[d][i] >= v
          BY <1>2, <1>4, <1>c, <2>2, <3>1, <4>1
        <5>2. QED  BY <1>1, <5>1 DEF Planned
      <4>2. CASE q # p
        BY <1>6, <1>7, <1>8, <3>1, <4>2 DEF Planned
      <4>3. QED  BY <4>1, <4>2
    <3>2. CASE d \in DOMAIN reasons /\ reasons[d][i] >= v
      BY <1>1, <3>2 DEF Planned
    <3>3. CASE i \in DOMAIN ran[d] /\ ran[d][i] >= v
      BY <1>1, <3>3 DEF Planned
    <3>4. QED  BY <2>2, <3>1, <3>2, <3>3 DEF Planned
  <2>3. \A d \in Commissions : Served(d) => Served(d)'
    BY <1>11, <2>2 DEF Served
  <2>4. QED  BY <1>1, <2>1, <2>3 DEF NothingLost
<1>19. QED  BY <1>13, <1>14, <1>15, <1>16, <1>17, <1>18 DEF IInv, News

\* The deferred Unlease meets no lease: Finish has taken it.
LEMMA EvokeReturnsInv ==
  ASSUME IInv, EvokeReturns
  PROVE  IInv'
<1>1. /\ Types /\ Queue /\ News /\ NothingLost /\ pc = "publish" /\ pc' = "pump"
      /\ editions = Empty /\ Unlease(job.token) /\ job' = NoJob
      /\ UNCHANGED <<catalogs, observed, sending, chNew, chOld, marked, reads, reasons, use,
                     outcome, editions, ran>>
  BY DEF IInv, EvokeReturns, kb, chan, fill
<1>2. /\ queue' = queue /\ leasesIndex' = leasesIndex /\ commissionIndex' = commissionIndex
      /\ by' = by /\ leasedAs' = leasedAs
  <2>1. leasesIndex[job.token] = NoPlan
    BY <1>1 DEF Types, EvoOK, Queue, Leased
  <2>2. QED  BY <1>1, <2>1 DEF Unlease, plans
<1>3. Queued' = Queued
  BY <1>2 DEF Queued
<1>4. PlansTypeOK' /\ UseOK' /\ RanOK'
  BY <1>1, <1>2, <1>3 DEF Types, PlansTypeOK, UseOK, RanOK
<1>5. Queue'
  <2>1. Once' /\ Replaceable' /\ Waiting'
    BY <1>1, <1>2, <1>3 DEF Queue, Once, Replaceable, Waiting
  <2>2. Leased'
    BY <1>1, <1>2, <1>3 DEF Queue, Leased
  <2>3. QED  BY <2>1, <2>2 DEF Queue
<1>6. Types'
  <2>1. EvoOK'
    BY <1>1 DEF Types, EvoOK, NoJob
  <2>2. QED  BY <1>1, <1>4, <2>1 DEF Types, ChanOK, KbOK, PcOK, FillOK
<1>7. UNCHANGED plans
  BY <1>2 DEF plans
<1>8. /\ Fresh' /\ Onward'
      /\ \A c \in Commissions : (Served(c) => Served(c)') /\ (Ready(c)' => Ready(c))
  BY <1>1, <1>7, NewsStay DEF OnItsWay
<1>9. OwnCatalogs'
  <2>1. DOMAIN editions' = {} /\ \A i : Latest(i)' = Latest(i)
    BY <1>1 DEF Empty, Latest
  <2>2. QED  BY <1>1, <2>1 DEF News, OwnCatalogs
<1>10. NothingLost'
  <2>1. \A c \in Commissions : Pending(c) => Pending(c)'
    BY <1>1 DEF Pending, OnItsWay
  <2>2. QED  BY <1>1, <1>8, <2>1 DEF NothingLost
<1>11. QED  BY <1>5, <1>6, <1>8, <1>9, <1>10 DEF IInv, News

LEMMA StutterInv ==
  ASSUME IInv, UNCHANGED vars
  PROVE  IInv'
<1>1. /\ Types /\ Queue /\ News /\ NothingLost
      /\ UNCHANGED <<plans, catalogs, observed, sending, chNew, chOld, pc, marked, reads, reasons,
                     use, job, outcome, editions, ran>>
  BY DEF IInv, vars, kb, chan, fill, evo
<1>2. PlansTypeOK' /\ Queue' /\ UseOK' /\ RanOK'
  BY <1>1, PlansStay
<1>3. Types'
  BY <1>1, <1>2 DEF Types, ChanOK, KbOK, PcOK, FillOK, EvoOK
<1>4. /\ Fresh' /\ Onward'
      /\ \A c \in Commissions : (Served(c) => Served(c)') /\ (Ready(c)' => Ready(c))
  BY <1>1, NewsStay DEF OnItsWay
<1>5. OwnCatalogs'
  BY <1>1 DEF News, OwnCatalogs, Latest
<1>6. NothingLost'
  <2>1. \A c \in Commissions : Pending(c) => Pending(c)'
    BY <1>1 DEF Pending, OnItsWay
  <2>2. QED  BY <1>1, <1>4, <2>1 DEF NothingLost
<1>7. QED  BY <1>2, <1>3, <1>4, <1>5, <1>6 DEF IInv, News
-----------------------------------------------------------------------------
LEMMA NextInv == IInv /\ [Next]_vars => IInv'
<1> SUFFICES ASSUME IInv, [Next]_vars PROVE IInv'
  OBVIOUS
<1>1. CASE Work
  <2>1. CASE \E c \in Commissions : \E i \in Inputs[c] : Fill(c, i)
    BY <2>1, FillInv
  <2>2. CASE \E c \in Commissions : PushPlan(c)
    BY <2>2, PushPlanInv
  <2>3. CASE \E o \in Released : PublishRelease(o)
    BY <2>3, PublishReleaseInv
  <2>4. QED  BY <1>1, <2>1, <2>2, <2>3, ObserveInv, ListInv, SelectInv, NothingToDoInv,
                StartJobInv, JobEndsInv, EvokeReturnsInv DEF Work
<1>2. CASE \E s \in Sources : PublishSource(s)
  BY <1>2, PublishSourceInv
<1>3. CASE \E i \in Catalogs : Send(i)
  BY <1>3, SendInv
<1>4. CASE UNCHANGED vars
  BY <1>4, StutterInv
<1>5. QED  BY <1>1, <1>2, <1>3, <1>4 DEF Next

LEMMA Invariance == Spec => []IInv
BY InitInv, NextInv, PTL DEF Spec

\* A release is in a plan of every commission that takes it in, waiting, run or
\* about to be pushed, or its commission is being filled, or the change of one
\* of its inputs is still to be read: subscribing before listing, marking while
\* others publish and reading one catalog at a time lose none.
THEOREM EditionsStayPending == Spec => []StaleIsPending
<1>1. IInv => StaleIsPending
  <2> SUFFICES ASSUME IInv PROVE StaleIsPending
    OBVIOUS
  <2>1. Types /\ NothingLost
    BY DEF IInv
  <2>2. TypeOK
    <3>1. \A c \in Commissions : IsFormula(ran[c])
      <4>1. ASSUME NEW c \in Commissions PROVE IsFormula(ran[c])
        <5>1. ran[c] \in [DOMAIN ran[c] -> Nat] /\ DOMAIN ran[c] \subseteq Inputs[c]
          BY <2>1 DEF Types, RanOK
        <5>2. Inputs[c] \subseteq Catalogs
          BY CatalogsAssumption
        <5>3. QED  BY <5>1, <5>2 DEF IsFormula
      <4>2. QED  BY <4>1
    <3>2. QED  BY <2>1, <3>1 DEF TypeOK, Types, ChanOK, KbOK, PcOK, FillOK, UseOK, EvoOK
  <2>3. ASSUME NEW c \in Commissions, Ready(c), NEW i \in Inputs[c], ~Planned(c, i, Latest(i))
        PROVE  \/ pc \in {"observe", "list"} \/ c \in marked
               \/ Inputs[c] \cap (Range(chNew) \cup Range(chOld) \cup sending) # {}
    <3>1. Pending(c)
      BY <2>1, <2>3 DEF NothingLost, Served
    <3>2. QED  BY <3>1 DEF Pending, OnItsWay
  <2>4. QED  BY <2>2, <2>3 DEF StaleIsPending
<1>2. QED  BY <1>1, Invariance, PTL

\* Whatever the foreman is told and whenever its jobs end, a newer plan of a
\* commission replaces the one that waits: two never do.
THEOREM PlansSupersede == Spec => []OnePlanPerCommission
<1>1. IInv => OnePlanPerCommission
  <2> SUFFICES ASSUME IInv, NEW p \in Queued, NEW q \in Queued, by[p] = by[q],
                      leasedAs[p] = NoToken, leasedAs[q] = NoToken
               PROVE  p = q
    BY DEF OnePlanPerCommission
  <2>1. commissionIndex[by[p]] = p /\ commissionIndex[by[q]] = q
    BY DEF IInv, Queue, Waiting
  <2>2. QED  BY <2>1
<1>2. QED  BY <1>1, Invariance, PTL
=============================================================================
