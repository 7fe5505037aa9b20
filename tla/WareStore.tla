----------------------------- MODULE WareStore -----------------------------
(***************************************************************************)
(* What a caching transmat promises its callers, without files, silos or   *)
(* staging: a set of wares that only grows, and calls that are answered    *)
(* with the ware they asked for, with an error, or with the place where    *)
(* the ware would be, on trust.  CacheDir and Git implement it.            *)
(***************************************************************************)
CONSTANTS Calls,    \* callers of Materialize that may run at the same time
          Hashes,   \* the ids wares are asked for by
          NoHash    \* the empty id, which no ware has

VARIABLES have,     \* the wares that are kept
          state,    \* state of each call
          asked     \* the id each call asked for

vars == <<have, state, asked>>

States == {"idle", "waiting", "served", "trusted", "failed"}

Init == /\ have = {}
        /\ state = [c \in Calls |-> "idle"]
        /\ asked = [c \in Calls |-> NoHash]

Ask(c, h) == /\ state[c] = "idle"
             /\ state' = [state EXCEPT ![c] = "waiting"]
             /\ asked' = [asked EXCEPT ![c] = h]
             /\ UNCHANGED have

\* A waiting call is served only with the ware it asked for, which from then
\* on is kept for every later call.
Serve(c) == /\ state[c] = "waiting"
            /\ asked[c] \in Hashes
            /\ have' = have \cup {asked[c]}
            /\ state' = [state EXCEPT ![c] = "served"]
            /\ UNCHANGED asked

\* Nobody could see, or did look, whether the ware is there: nothing is promised to
\* this caller, and nothing is kept for others.
Trust(c) == /\ state[c] = "waiting"
            /\ state' = [state EXCEPT ![c] = "trusted"]
            /\ UNCHANGED <<have, asked>>

Fail(c) == /\ state[c] = "waiting"
           /\ state' = [state EXCEPT ![c] = "failed"]
           /\ UNCHANGED <<have, asked>>

Forget(c) == /\ state[c] \in {"served", "trusted", "failed"}
             /\ state' = [state EXCEPT ![c] = "idle"]
             /\ UNCHANGED <<have, asked>>

\* The process dies: every call is gone, every kept ware is still there.
Crash == /\ state' = [c \in Calls |-> "idle"]
         /\ UNCHANGED <<have, asked>>

Next == \/ \E c \in Calls :
             \/ \E h \in Hashes \cup {NoHash} : Ask(c, h)
             \/ Serve(c)
             \/ Trust(c)
             \/ Fail(c)
             \/ Forget(c)
        \/ Crash

Spec == Init /\ [][Next]_vars
=============================================================================
