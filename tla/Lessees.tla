------------------------------ MODULE Lessees ------------------------------
(***************************************************************************)
(* Clients of the plans: one that pushes, and several that lease a plan,   *)
(* and call Unlease and Finish on their token in either order and as often *)
(* as they like, long after the token has lost its meaning too.            *)
(* Plans are numbered in the order they are pushed, MaxPushes at most.     *)
(***************************************************************************)
EXTENDS Plans

CONSTANTS Workers,      \* who leases
          MaxPushes     \* bound on the plans pushed

ASSUME IdsAssumption == MaxPushes \in Nat /\ Ids = 1 .. MaxPushes

VARIABLES pushed,  \* number of plans pushed
          held,    \* token each worker holds, spent or not
          got,     \* the plan it was leased with
          leased   \* plans leased at least once (history)

vars == <<plans, pushed, held, got, leased>>

TypeOK == /\ PlansTypeOK
          /\ pushed \in 0 .. MaxPushes
          /\ held \in [Workers -> Tokens \cup {NoToken}]
          /\ got \in [Workers -> Ids \cup {NoPlan}]
          /\ leased \subseteq Ids

Init == /\ NewPlans /\ by = [p \in Ids |-> CHOOSE c \in Commissions : TRUE]
        /\ pushed = 0
        /\ held = [w \in Workers |-> NoToken]
        /\ got = [w \in Workers |-> NoPlan]
        /\ leased = {}

PushNew(c) == /\ pushed < MaxPushes
              /\ Push(pushed + 1, c)
              /\ pushed' = pushed + 1
              /\ UNCHANGED <<held, got, leased>>

\* Guids do not repeat while anybody can still tell.
Unused == {t \in Tokens : leasesIndex[t] = NoPlan /\ \A w \in Workers : held[w] # t}

Lease(w) == \E t \in Unused :
              /\ LeaseNext(t)
              /\ held' = [held EXCEPT ![w] = t]
              /\ got' = [got EXCEPT ![w] = queue[nextLeasable]]
              /\ leased' = leased \cup {queue[nextLeasable]}
              /\ UNCHANGED pushed

GiveBack(w) == /\ held[w] # NoToken
               /\ Unlease(held[w])
               /\ UNCHANGED <<pushed, held, got, leased>>

Done(w) == /\ held[w] # NoToken
           /\ Finish(held[w])
           /\ UNCHANGED <<pushed, held, got, leased>>

Next == \/ \E c \in Commissions : PushNew(c)
        \/ \E w \in Workers : Lease(w) \/ GiveBack(w) \/ Done(w)

Spec == Init /\ [][Next]_vars
-----------------------------------------------------------------------------
\* The plans of a commission are leased and run in the order they were made:
\* neither replacement nor a lease given back lets a newer one overtake.
InOrder == \A i, j \in DOMAIN queue :
             i < j /\ by[queue[i]] = by[queue[j]] => queue[i] < queue[j]

\* A plan disappears from the queue only when the holder of its lease finishes
\* it, or, if it was never leased, because a newer plan of its commission takes
\* its very place.  A token that was given back can do neither.
OnlyItsHolderRemoves == [][
  \A p \in Queued : p \notin Queued' =>
    \/ /\ p \notin leased
       /\ \E q \in Queued' : q \notin Queued /\ by'[q] = by[p] /\ At(q)' = At(p)
    \/ leasedAs[p] # NoToken /\ \E w \in Workers : held[w] = leasedAs[p] /\ got[w] = p]_vars

\* What somebody works on stays queued until he is done: a lease in force is
\* one worker's, and its plan is there.
LeasesAreExclusive ==
  /\ TypeOK
  /\ \A v, w \in Workers :
       held[v] # NoToken /\ leasesIndex[held[v]] # NoPlan =>
         /\ leasesIndex[held[v]] = got[v] /\ got[v] \in Queued
         /\ v # w /\ held[w] # NoToken /\ leasesIndex[held[w]] # NoPlan => got[v] # got[w]
=============================================================================
