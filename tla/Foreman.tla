------------------------------ MODULE Foreman ------------------------------
(***************************************************************************)
(* The foreman over the in-memory knowledge base: it registers for catalog *)
(* changes, pumps one change after the other into plans (module Plans),    *)
(* evokes one plan after each pump and publishes what the job released,    *)
(* into the very channel it reads; others publish concurrently.            *)
(* A catalog is the number of releases on its default track, and so is the *)
(* hash of its latest release.                                             *)
(***************************************************************************)
EXTENDS Plans, FiniteSets, Functions

CONSTANTS Catalogs,
          Inputs,      \* commission -> the catalogs its formula takes in
          Outs,        \* commission -> the catalogs its outputs are released to
          Sources,     \* catalogs somebody else publishes
          Preloaded,   \* sources published before the foreman registers
          MaxEdition,  \* bound on the releases of a source
          Capacity,    \* of the catalog channel; 100 in the code
          Outcomes     \* what jobs may do: subset of {"ok", "failed"}

Released == UNION {Outs[c] : c \in Commissions}

ASSUME CatalogsAssumption ==
  /\ Inputs \in [Commissions -> (SUBSET Catalogs) \ {{}}]
  /\ Outs \in [Commissions -> SUBSET Catalogs]
  /\ \A c, d \in Commissions : c # d => Outs[c] \cap Outs[d] = {}
  /\ Preloaded \subseteq Sources /\ Sources \subseteq Catalogs \ Released
ASSUME BoundsAssumption ==
  /\ IsFiniteSet(Catalogs) /\ IsFiniteSet(Commissions)
  /\ IsFiniteSet(Ids) /\ Cardinality(Ids) > Cardinality(Commissions)
  /\ MaxEdition \in Nat \ {0} /\ Capacity \in Nat \ {0}
  /\ Outcomes \subseteq {"ok", "failed"}

VARIABLES catalogs,  \* kb.catalogs: known id -> number of releases
          observed,  \* kb.catalogObservers: has the foreman's channel been registered?
          sending,   \* published catalogs the foreman has yet to be notified of
          chNew,     \* catalog changes
          chOld,     \* catalogs that were there at the start
          pc,        \* the foreman's goroutine
          marked,    \* markedSet: commissions still to be filled
          reads,     \* inputs of the commission being filled that are read
          reasons,   \* commission -> formula, to be pushed
          use,       \* plan -> formula: the release each input is pinned to
          job,       \* the plan evoke leased, and its token
          outcome,   \* of the latest job
          editions,  \* newEditions still to be published
          ran        \* commission -> formula it was last run with (history)

kb   == <<catalogs, observed, sending>>
chan == <<chNew, chOld>>
fill == <<marked, reads, reasons>>
evo  == <<job, outcome, editions>>
vars == <<plans, kb, chan, pc, fill, use, evo, ran>>

Empty == [i \in {} |-> 0]
IsFormula(f) == DOMAIN f \subseteq Catalogs /\ f \in [DOMAIN f -> Nat]
NoJob == [plan |-> NoPlan, token |-> NoToken]

TypeOK == /\ PlansTypeOK
          /\ IsFormula(catalogs)
          /\ observed \in BOOLEAN /\ sending \subseteq Catalogs
          /\ chNew \in Seq(Catalogs) /\ Len(chNew) <= Capacity /\ chOld \in Seq(Catalogs)
          /\ pc \in {"observe", "list", "pump", "fill", "job", "publish", "send"}
          /\ marked \subseteq Commissions
          /\ IsFormula(reads)
          /\ DOMAIN reasons \subseteq Commissions
          /\ \A c \in DOMAIN reasons : reasons[c] \in [Inputs[c] -> Nat \ {0}]
          /\ \A p \in Queued : use[p] \in [Inputs[by[p]] -> Nat \ {0}]
          /\ job \in [plan : Ids \cup {NoPlan}, token : Tokens \cup {NoToken}]
          /\ outcome \in {"none", "ok", "failed"}
          /\ IsFormula(editions)
          /\ (\A c \in Commissions : IsFormula(ran[c]))

Init == /\ NewPlans /\ by = [p \in Ids |-> CHOOSE c \in Commissions : TRUE]
        /\ catalogs = [i \in Preloaded |-> 1]
        /\ observed = FALSE /\ sending = {}
        /\ chNew = <<>> /\ chOld = <<>> /\ pc = "observe"
        /\ marked = {} /\ reads = Empty /\ reasons = Empty
        /\ use = [p \in Ids |-> Empty]
        /\ job = NoJob /\ outcome = "none" /\ editions = Empty
        /\ ran = [c \in Commissions |-> Empty]

With(f, x, y) == [z \in DOMAIN f \cup {x} |-> IF z = x THEN y ELSE f[z]]
Latest(i) == IF i \in DOMAIN catalogs THEN catalogs[i] ELSE 0
-----------------------------------------------------------------------------
(* register: subscribe, and only then list what is there. *)
Observe == /\ pc = "observe"
           /\ observed' = TRUE /\ pc' = "list"
           /\ UNCHANGED <<plans, catalogs, sending, chan, fill, use, evo, ran>>

\* Mutant of Listed: only what is new is considered.
ListedNothing == {}
Listed == DOMAIN catalogs
List == /\ pc = "list"
        /\ \E s \in SetToSeqs(Listed) : chOld' = s
        /\ pc' = "pump"
        /\ UNCHANGED <<plans, kb, chNew, fill, use, evo, ran>>

(* pump *)
\* Mutant of Mark: commissions with other inputs are overlooked.
MarkSole(i) == {c \in Commissions : Inputs[c] = {i}}
Mark(i) == {c \in Commissions : i \in Inputs[c]}

\* The select: a change or an old catalog, and the commissions it concerns.
Select == /\ pc = "pump"
          /\ \/ chNew # <<>> /\ chNew' = Tail(chNew) /\ marked' = Mark(Head(chNew))
                /\ UNCHANGED chOld
             \/ chOld # <<>> /\ chOld' = Tail(chOld) /\ marked' = Mark(Head(chOld))
                /\ UNCHANGED chNew
          /\ pc' = "fill"
          /\ UNCHANGED <<plans, kb, reads, reasons, use, evo, ran>>

\* The catalogs are locked for one read at a time.  An input without a release
\* drops its commission; the last input completes the formula.
Fill(c, i) ==
  LET read == With(reads, i, Latest(i)) IN
  /\ pc = "fill" /\ c \in marked /\ i \in Inputs[c] \ DOMAIN reads
  /\ DOMAIN reads \subseteq Inputs[c]
  /\ \/ /\ Latest(i) = 0
        /\ marked' = marked \ {c} /\ reads' = Empty
        /\ UNCHANGED reasons
     \/ /\ Latest(i) # 0 /\ DOMAIN read # Inputs[c]
        /\ reads' = read
        /\ UNCHANGED <<marked, reasons>>
     \/ /\ Latest(i) # 0 /\ DOMAIN read = Inputs[c]
        /\ marked' = marked \ {c} /\ reads' = Empty
        /\ reasons' = With(reasons, c, read)
  /\ UNCHANGED <<plans, kb, chan, pc, use, evo, ran>>

\* A new plan is a new pointer: the address of nothing still in use.
PushPlan(c) ==
  LET p == CHOOSE p \in Ids : p \notin Queued IN
  /\ pc = "fill" /\ marked = {} /\ c \in DOMAIN reasons
  /\ Push(p, c)
  /\ use' = [use EXCEPT ![p] = reasons[c]]
  /\ reasons' = Restrict(reasons, DOMAIN reasons \ {c})
  /\ UNCHANGED <<kb, chan, pc, marked, reads, evo, ran>>

(* evoke *)
Pumped == pc = "fill" /\ marked = {} /\ reasons = Empty

NothingToDo == /\ Pumped /\ Leasable = {}
               /\ pc' = "pump"
               /\ UNCHANGED <<plans, kb, chan, fill, use, evo, ran>>

StartJob == LET p == queue[nextLeasable] IN
            /\ Pumped
            /\ \E t \in Tokens : LeaseNext(t) /\ job' = [plan |-> p, token |-> t]
            /\ ran' = [ran EXCEPT ![by[p]] = use[p]]
            /\ pc' = "job"
            /\ UNCHANGED <<kb, chan, fill, use, outcome, editions>>

\* Every output a job has becomes the next edition of its catalog.
makeReleases(c) == [o \in Outs[c] |-> Latest(o) + 1]

\* job.Wait returns; a failed job has no outputs.  The plan is finished.
JobEnds == LET c == by[job.plan] IN
           /\ pc = "job"
           /\ Finish(job.token)
           /\ \E r \in Outcomes :
                /\ outcome' = r
                /\ editions' = IF r = "ok" THEN makeReleases(c) ELSE Empty
           /\ use' = [use EXCEPT ![job.plan] = Empty]
           /\ pc' = "publish"
           /\ UNCHANGED <<kb, chan, fill, job, ran>>

(* PublishCatalog: an edition replaces the catalog under the mutex, and the *)
(* observers there were at that moment are notified after it, one blocking  *)
(* send each.  The foreman publishes its releases, others their sources.    *)
PublishRelease(o) == /\ pc = "publish" /\ o \in DOMAIN editions
                     /\ catalogs' = With(catalogs, o, editions[o])
                     /\ sending' = sending \cup {o}
                     /\ editions' = Restrict(editions, DOMAIN editions \ {o})
                     /\ pc' = "send"
                     /\ UNCHANGED <<plans, observed, chan, fill, use, job, outcome, ran>>

\* The deferred Unlease finds nothing to do.
EvokeReturns == /\ pc = "publish" /\ editions = Empty
                /\ Unlease(job.token)
                /\ job' = NoJob /\ pc' = "pump"
                /\ UNCHANGED <<kb, chan, fill, use, outcome, editions, ran>>

\* A new source may come without a release at first.
PublishSource(s) == /\ s \in Sources \ sending
                    /\ \E n \in {Latest(s), Latest(s) + 1} :
                         /\ n <= MaxEdition /\ (n = Latest(s) => s \notin DOMAIN catalogs)
                         /\ catalogs' = With(catalogs, s, n)
                    /\ sending' = IF observed THEN sending \cup {s} ELSE sending
                    /\ UNCHANGED <<plans, observed, chan, pc, fill, use, evo, ran>>

\* A send blocks while the channel is full, also the foreman's, which is its only
\* reader.
Send(i) == /\ i \in sending /\ Len(chNew) < Capacity
           /\ chNew' = Append(chNew, i)
           /\ sending' = sending \ {i}
           /\ pc' = IF i \in Released THEN "publish" ELSE pc
           /\ UNCHANGED <<plans, catalogs, observed, chOld, fill, use, evo, ran>>
-----------------------------------------------------------------------------
Work == \/ Observe \/ List \/ Select
        \/ \E c \in Commissions : \E i \in Inputs[c] : Fill(c, i)
        \/ \E c \in Commissions : PushPlan(c)
        \/ NothingToDo \/ StartJob \/ JobEnds
        \/ \E o \in Released : PublishRelease(o)
        \/ EvokeReturns
Next == Work \/ (\E s \in Sources : PublishSource(s)) \/ (\E i \in Catalogs : Send(i))

\* The foreman's goroutine is scheduled, its jobs end, and a send goes through
\* once there is room.  Nobody has to publish anything.
Spec == /\ Init /\ [][Next]_vars
        /\ WF_vars(Work) /\ \A i \in Catalogs : WF_vars(Send(i))
-----------------------------------------------------------------------------
Ready(c) == \A i \in Inputs[c] : Latest(i) # 0

\* The newest release of i that a plan of c was made for so far.
Planned(c, i, v) == \/ \E p \in Queued : by[p] = c /\ use[p][i] >= v
                    \/ c \in DOMAIN reasons /\ reasons[c][i] >= v
                    \/ i \in DOMAIN ran[c] /\ ran[c][i] >= v

\* No edition is lost between subscribing, listing, marking and filling: while a
\* commission that could fly has no plan for the latest release of an input,
\* the commission is being filled or the change of an input is on its way.
StaleIsPending ==
  /\ TypeOK
  /\ \A c \in Commissions :
       Ready(c) /\ (\E i \in Inputs[c] : ~Planned(c, i, Latest(i))) =>
         \/ pc \in {"observe", "list"} \/ c \in marked
         \/ Inputs[c] \cap (Range(chNew) \cup Range(chOld) \cup sending) # {}

\* Plans of a commission supersede each other: two are never waiting, so work
\* already out of date is not done on top (foreman_test.go:123-126).
OnePlanPerCommission == \A p, q \in Queued :
  by[p] = by[q] /\ leasedAs[p] = NoToken /\ leasedAs[q] = NoToken => p = q

\* Every edition of an input is planned for, once the others are there, as long as
\* the channel of changes has room (foreman.go:41).
EditionsArePlanned == \A c \in Commissions : \A i \in Inputs[c] : \A v \in 1 .. MaxEdition :
  Ready(c) /\ Latest(i) = v ~> Planned(c, i, v)
=============================================================================
