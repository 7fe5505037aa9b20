------------------------------- MODULE Plans -------------------------------
(***************************************************************************)
(* The foreman's list of what to run next: a FIFO queue of plans, an index *)
(* of the leases taken out on them and an index of the plans that a newer  *)
(* plan of the same commission may still replace.                          *)
(* A plan is a pointer in the code; here it is a member of Ids, and the    *)
(* fields the structure reads are by and leasedAs.                         *)
(***************************************************************************)
EXTENDS Naturals, Sequences, SequencesExt

CONSTANTS Ids, Tokens, Commissions, NoPlan, NoToken

ASSUME NonesAssumption == NoPlan \notin Ids /\ NoToken \notin Tokens

VARIABLES queue,           \* what to run next, in order
          leasesIndex,     \* lease token -> plan
          commissionIndex, \* commission -> plan still replaceable
          by,              \* commissionedBy, of each plan
          leasedAs         \* the lease of each plan

plans == <<queue, leasesIndex, commissionIndex, by, leasedAs>>

Queued == {queue[i] : i \in DOMAIN queue}
\* Mutant of At: off by one.
AtNext(p) ==
  LET i == CHOOSE i \in DOMAIN queue : queue[i] = p /\ \A j \in 1 .. i - 1 : queue[j] # p
  IN  IF i < Len(queue) THEN i + 1 ELSE i
At(p) == CHOOSE i \in DOMAIN queue : queue[i] = p /\ \A j \in 1 .. i - 1 : queue[j] # p

PlansTypeOK == /\ queue \in Seq(Ids)
               /\ leasesIndex \in [Tokens -> Ids \cup {NoPlan}]
               /\ commissionIndex \in [Commissions -> Ids \cup {NoPlan}]
               /\ by \in [Ids -> Commissions]
               /\ leasedAs \in [Ids -> Tokens \cup {NoToken}]

NewPlans == /\ queue = <<>>
            /\ leasesIndex = [t \in Tokens |-> NoPlan]
            /\ commissionIndex = [c \in Commissions |-> NoPlan]
            /\ by \in [Ids -> Commissions]
            /\ leasedAs = [p \in Ids |-> NoToken]

\* Mutant of Evictable: nothing is replaced.
EvictableNever(c) == FALSE
\* The plan the newest plan of c takes the place of.
Evictable(c) == commissionIndex[c] \in Queued

\* p, a new plan of commission c, replaces an evictable one or lines up.
Push(p, c) ==
  /\ by' = [by EXCEPT ![p] = c]
  /\ leasedAs' = [leasedAs EXCEPT ![p] = NoToken]
  /\ queue' = IF Evictable(c) THEN ReplaceAt(queue, At(commissionIndex[c]), p)
                              ELSE Append(queue, p)
  /\ commissionIndex' = [commissionIndex EXCEPT ![c] = p]
  /\ UNCHANGED leasesIndex

Leasable == {i \in DOMAIN queue : leasedAs[queue[i]] = NoToken}
nextLeasable == CHOOSE i \in Leasable : \A j \in Leasable : i <= j

\* Mutant of Unevictable: the entry stays.
UnevictableKept(p) == commissionIndex
\* The index entry of the commission goes, whichever plan it points at.
Unevictable(p) == [commissionIndex EXCEPT ![by[p]] = NoPlan]

\* t is a new guid.
LeaseNext(t) ==
  LET p == queue[nextLeasable] IN
  /\ Leasable # {}
  /\ leasedAs' = [leasedAs EXCEPT ![p] = t]
  /\ leasesIndex' = [leasesIndex EXCEPT ![t] = p]
  /\ commissionIndex' = Unevictable(p)
  /\ UNCHANGED <<queue, by>>

\* Mutants of Unlease: a plan given back queues up again; the token stays good.
UnleaseToBack(t) ==
  LET p == leasesIndex[t] IN
  IF p = NoPlan THEN UNCHANGED plans
  ELSE /\ leasedAs' = [leasedAs EXCEPT ![p] = NoToken]
       /\ leasesIndex' = [leasesIndex EXCEPT ![t] = NoPlan]
       /\ queue' = Append(RemoveAt(queue, At(p)), p)
       /\ UNCHANGED <<commissionIndex, by>>
UnleaseHalf(t) ==
  LET p == leasesIndex[t] IN
  IF p = NoPlan THEN UNCHANGED plans
  ELSE /\ leasedAs' = [leasedAs EXCEPT ![p] = NoToken]
       /\ UNCHANGED <<queue, leasesIndex, commissionIndex, by>>
Unlease(t) ==
  LET p == leasesIndex[t] IN
  IF p = NoPlan THEN UNCHANGED plans
  ELSE /\ leasedAs' = [leasedAs EXCEPT ![p] = NoToken]
       /\ leasesIndex' = [leasesIndex EXCEPT ![t] = NoPlan]
       /\ UNCHANGED <<queue, commissionIndex, by>>

\* A newer plan of the commission may be in the index by now: it stays there.
NotOf(p) == IF commissionIndex[by[p]] = p THEN [commissionIndex EXCEPT ![by[p]] = NoPlan]
                                          ELSE commissionIndex

remove(p) == /\ queue' = IF p \in Queued THEN RemoveAt(queue, At(p)) ELSE queue
             /\ leasesIndex' = [leasesIndex EXCEPT ![leasedAs[p]] = NoPlan]
             /\ commissionIndex' = NotOf(p)
             /\ UNCHANGED <<by, leasedAs>>

Finish(t) ==
  IF leasesIndex[t] = NoPlan THEN UNCHANGED plans ELSE remove(leasesIndex[t])
-----------------------------------------------------------------------------
(* The three parts of the structure tell the same story: no plan is queued  *)
(* twice; the leases index holds exactly the queued plans that are leased,  *)
(* each under its own lease; and what a newer plan may replace is queued,   *)
(* of that commission, and not leased.  Replacing a leased plan would pull  *)
(* a running task out of the queue (plans.go:35-37).                        *)
IndexesAgree ==
  /\ \A i, j \in DOMAIN queue : queue[i] = queue[j] => i = j
  /\ \A t \in Tokens : leasesIndex[t] # NoPlan =>
        leasesIndex[t] \in Queued /\ leasedAs[leasesIndex[t]] = t
  /\ \A p \in Queued : leasedAs[p] # NoToken => leasesIndex[leasedAs[p]] = p
  /\ \A c \in Commissions : commissionIndex[c] # NoPlan =>
        /\ commissionIndex[c] \in Queued
        /\ by[commissionIndex[c]] = c
        /\ leasedAs[commissionIndex[c]] = NoToken
=============================================================================
