-------------------------------- MODULE Job --------------------------------
(***************************************************************************)
(* One job of the chroot or runc executor: the goroutine Start launches,   *)
(* the goroutines that provision inputs and preserve outputs and report    *)
(* over unbuffered channels, the contained process, and the caller.        *)
(* A panic is a jump of the job's goroutine to the nearest deferred or     *)
(* recovering code, with result.Error set when Run recovers it.            *)
(***************************************************************************)
EXTENDS Naturals, FiniteSets

CONSTANTS Inputs, Outputs,   \* names in the formula
          Kind               \* "chroot" or "runc"

ASSUME KindAssumption == Kind \in {"chroot", "runc"}
ASSUME NamesAssumption == IsFiniteSet(Inputs) /\ IsFiniteSet(Outputs)

VARIABLES pc,        \* the job's goroutine
          fetch,     \* the goroutine of each input
          scan,      \* the goroutine of each output
          arenas,    \* filesystems: inputs gathered so far
          saved,     \* results: outputs gathered so far
          assembled, \* the assembly stands, and its Teardown is deferred
          proc,      \* the contained process
          exit,      \* result.ExitCode: "unset" is -1
          error,     \* result.Error, or the panic on its way there
          outputs,   \* result.Outputs
          streams,   \* the appenders of stdout and stderr
          dir,       \* the job's directory
          start,     \* the caller: blocked in Start, in Wait, or returned
          wait       \* WaitChan

vars == <<pc, fetch, scan, arenas, saved, assembled, proc, exit, error, outputs,
          streams, dir, start, wait>>

Workers == {"none", "working", "ok", "failed", "gone"}

TypeOK == /\ pc \in {"begin", "setup", "inputs", "gather", "assemble", "exec", "running",
                     "exited", "scan", "gatherOut", "defers", "recovered", "remove",
                     "ended", "crashed"}
          /\ fetch \in [Inputs -> Workers] /\ scan \in [Outputs -> Workers]
          /\ arenas \subseteq Inputs /\ saved \subseteq Outputs
          /\ assembled \in BOOLEAN /\ proc \in {"none", "running", "exited"}
          /\ exit \in {"unset", "zero", "nonzero"} /\ error \in BOOLEAN
          /\ outputs \subseteq Outputs
          /\ streams \in {"none", "open", "closed"} /\ dir \in {"none", "there", "removed"}
          /\ start \in {"starting", "waiting", "returned"} /\ wait \in {"open", "closed"}

Init == /\ pc = "begin"
        /\ fetch = [i \in Inputs |-> "none"] /\ scan = [o \in Outputs |-> "none"]
        /\ arenas = {} /\ saved = {}
        /\ assembled = FALSE /\ proc = "none"
        /\ exit = "unset" /\ error = FALSE /\ outputs = {}
        /\ streams = "none" /\ dir = "none"
        /\ start = "starting" /\ wait = "open"
-----------------------------------------------------------------------------
(* Start's goroutine up to Run: WithDir makes the directory, the log file   *)
(* of the mux is opened.  A failure of either is recovered by nobody.       *)
MakeDir == /\ pc = "begin"
           /\ \/ dir' = "there" /\ pc' = "setup"
              \/ pc' = "crashed" /\ UNCHANGED dir
           /\ UNCHANGED <<fetch, scan, arenas, saved, assembled, proc, exit, error, outputs,
                          streams, start, wait>>

OpenStreams == /\ pc = "setup"
               /\ \/ streams' = "open" /\ pc' = "inputs"
                  \/ pc' = "crashed" /\ UNCHANGED streams
               /\ UNCHANGED <<fetch, scan, arenas, saved, assembled, proc, exit, error,
                              outputs, dir, start, wait>>

\* close(jobReady) lets Start return; the caller goes on to Wait.
StartReturns == /\ start = "starting" /\ streams # "none"
                /\ start' = "waiting"
                /\ UNCHANGED <<pc, fetch, scan, arenas, saved, assembled, proc, exit, error,
                               outputs, streams, dir, wait>>

WaitReturns == /\ start = "waiting" /\ wait = "closed"
               /\ start' = "returned"
               /\ UNCHANGED <<pc, fetch, scan, arenas, saved, assembled, proc, exit, error,
                              outputs, streams, dir, wait>>
-----------------------------------------------------------------------------
\* A panic inside Execute: deferred Teardown first, if it is deferred already.
Panic == error' = TRUE /\ pc' = "defers"

(* ProvisionInputs. *)
SpawnInputs == /\ pc = "inputs"
               /\ fetch' = [i \in Inputs |-> "working"]
               /\ pc' = "gather"
               /\ UNCHANGED <<scan, arenas, saved, assembled, proc, exit, error, outputs,
                              streams, dir, start, wait>>

\* Mutant of Fetched: a transmat's error ends the goroutine without a report.
FetchedMute(i) == /\ fetch[i] = "working"
                  /\ \E r \in {"ok", "gone"} : fetch' = [fetch EXCEPT ![i] = r]
                  /\ UNCHANGED <<pc, scan, arenas, saved, assembled, proc, exit, error, outputs,
                                 streams, dir, start, wait>>
Fetched(i) == /\ fetch[i] = "working"
              /\ \E r \in {"ok", "failed"} : fetch' = [fetch EXCEPT ![i] = r]
              /\ UNCHANGED <<pc, scan, arenas, saved, assembled, proc, exit, error, outputs,
                             streams, dir, start, wait>>

\* The report of i meets the receive: the channel is unbuffered.  The first
\* error is raised at once, and the reports still to come are for nobody.
GatherInput(i) == /\ pc = "gather" /\ fetch[i] \in {"ok", "failed"}
                  /\ fetch' = [fetch EXCEPT ![i] = "gone"]
                  /\ IF fetch[i] = "ok"
                       THEN arenas' = arenas \cup {i} /\ UNCHANGED <<pc, error>>
                       ELSE Panic /\ UNCHANGED arenas
                  /\ UNCHANGED <<scan, saved, assembled, proc, exit, outputs, streams, dir,
                                 start, wait>>

\* Mutant of AllInputs: the first report is enough.
AllInputsOne == arenas # {}
\* The loop receives as many reports as there are inputs.
AllInputs == arenas = Inputs
InputsGathered == /\ pc = "gather" /\ AllInputs
                  /\ pc' = "assemble"
                  /\ UNCHANGED <<fetch, scan, arenas, saved, assembled, proc, exit, error,
                                 outputs, streams, dir, start, wait>>

\* A failed assembly has deferred nothing yet (module Assembly has the rest).
Assemble == /\ pc = "assemble"
            /\ \/ assembled' = TRUE /\ pc' = "exec" /\ UNCHANGED error
               \/ Panic /\ UNCHANGED assembled
            /\ UNCHANGED <<fetch, scan, arenas, saved, proc, exit, outputs, streams, dir,
                           start, wait>>

\* The cradle, the cwd check or the configuration, and the launch.
Launch == /\ pc = "exec"
          /\ \/ proc' = "running" /\ pc' = "running" /\ UNCHANGED error
             \/ Panic /\ UNCHANGED proc
          /\ UNCHANGED <<fetch, scan, arenas, saved, assembled, exit, outputs, streams, dir,
                         start, wait>>

\* runc: the log file cannot be opened; the process is left running.
NoRuncLog == /\ Kind = "runc" /\ pc = "running"
             /\ Panic
             /\ UNCHANGED <<fetch, scan, arenas, saved, assembled, proc, exit, outputs,
                            streams, dir, start, wait>>

ProcExits == /\ proc = "running"
             /\ proc' = "exited"
             /\ UNCHANGED <<pc, fetch, scan, arenas, saved, assembled, exit, error, outputs,
                            streams, dir, start, wait>>

\* proc.GetExitCode returns; with runc, an error found in its log overrides the
\* code (module RuncLog has the tailer).
GetExitCode == /\ pc = "running" /\ proc = "exited"
               /\ \/ \E c \in {"zero", "nonzero"} : exit' = c
                     /\ pc' = "scan" /\ UNCHANGED error
                  \/ Kind = "runc" /\ exit' = "unset" /\ Panic
               /\ UNCHANGED <<fetch, scan, arenas, saved, assembled, proc, outputs, streams,
                              dir, start, wait>>

(* PreserveOutputs, the same way around. *)
SpawnScans == /\ pc = "scan"
              /\ scan' = [o \in Outputs |-> "working"]
              /\ pc' = "gatherOut"
              /\ UNCHANGED <<fetch, arenas, saved, assembled, proc, exit, error, outputs,
                             streams, dir, start, wait>>

\* Mutant of Scanned: the goroutine writes the result itself.
ScannedInPlace(o) == /\ scan[o] = "working"
                     /\ \E r \in {"ok", "failed"} :
                          /\ scan' = [scan EXCEPT ![o] = r]
                          /\ outputs' = IF r = "ok" THEN outputs \cup {o} ELSE outputs
                     /\ UNCHANGED <<pc, fetch, arenas, saved, assembled, proc, exit, error,
                                    streams, dir, start, wait>>
Scanned(o) == /\ scan[o] = "working"
              /\ \E r \in {"ok", "failed"} : scan' = [scan EXCEPT ![o] = r]
              /\ UNCHANGED <<pc, fetch, arenas, saved, assembled, proc, exit, error, outputs,
                             streams, dir, start, wait>>

\* Mutant of GatherOutput: a failed scan ends the loop, and that is all.
GatherOutputSilently(o) == /\ pc = "gatherOut" /\ scan[o] \in {"ok", "failed"}
                           /\ scan' = [scan EXCEPT ![o] = "gone"]
                           /\ IF scan[o] = "ok" THEN saved' = saved \cup {o} /\ UNCHANGED pc
                                                ELSE pc' = "defers" /\ UNCHANGED saved
                           /\ UNCHANGED <<fetch, arenas, assembled, proc, exit, error, outputs,
                                          streams, dir, start, wait>>
GatherOutput(o) == /\ pc = "gatherOut" /\ scan[o] \in {"ok", "failed"}
                   /\ scan' = [scan EXCEPT ![o] = "gone"]
                   /\ IF scan[o] = "ok"
                        THEN saved' = saved \cup {o} /\ UNCHANGED <<pc, error>>
                        ELSE Panic /\ UNCHANGED saved
                   /\ UNCHANGED <<fetch, arenas, assembled, proc, exit, outputs, streams, dir,
                                  start, wait>>

AllOutputs == saved = Outputs
OutputsGathered == /\ pc = "gatherOut" /\ AllOutputs
                   /\ outputs' = saved
                   /\ pc' = "defers"
                   /\ UNCHANGED <<fetch, scan, arenas, saved, assembled, proc, exit, error,
                                  streams, dir, start, wait>>
-----------------------------------------------------------------------------
(* The way out. *)
Teardown == /\ pc = "defers"
            /\ pc' = "recovered"
            /\ assembled' = FALSE
            /\ \/ UNCHANGED error
               \/ assembled /\ error' = TRUE
            /\ UNCHANGED <<fetch, scan, arenas, saved, proc, exit, outputs, streams, dir,
                           start, wait>>

\* Mutant of CloseStreams: the job counts as over before its directory is gone.
CloseStreamsAndWait == /\ pc = "recovered"
                       /\ streams' = "closed" /\ wait' = "closed"
                       /\ pc' = "remove"
                       /\ UNCHANGED <<fetch, scan, arenas, saved, assembled, proc, exit, error,
                                      outputs, dir, start>>
CloseStreams == /\ pc = "recovered"
                /\ streams' = "closed"
                /\ pc' = "remove"
                /\ UNCHANGED <<fetch, scan, arenas, saved, assembled, proc, exit, error,
                               outputs, dir, start, wait>>

\* RemoveAll, and the WaitChan; a failed removal ends the program.
RemoveDir == /\ pc = "remove"
             /\ \/ dir' = "removed" /\ wait' = "closed" /\ pc' = "ended"
                \/ pc' = "crashed" /\ UNCHANGED <<dir, wait>>
             /\ UNCHANGED <<fetch, scan, arenas, saved, assembled, proc, exit, error, outputs,
                            streams, start>>

Runner == \/ MakeDir \/ OpenStreams \/ SpawnInputs \/ (\E i \in Inputs : GatherInput(i))
          \/ InputsGathered \/ Assemble \/ Launch \/ NoRuncLog \/ GetExitCode
          \/ SpawnScans \/ (\E o \in Outputs : GatherOutput(o)) \/ OutputsGathered
          \/ Teardown \/ CloseStreams \/ RemoveDir
Alive == pc # "crashed"
Next == /\ Alive
        /\ \/ Runner
           \/ \E i \in Inputs : Fetched(i)
           \/ \E o \in Outputs : Scanned(o)
           \/ ProcExits
           \/ StartReturns \/ WaitReturns

\* Goroutines are scheduled, transmats return, the contained process ends.
Spec == /\ Init /\ [][Next]_vars
        /\ WF_vars(Alive /\ Runner)
        /\ \A i \in Inputs : WF_vars(Alive /\ Fetched(i))
        /\ \A o \in Outputs : WF_vars(Alive /\ Scanned(o))
        /\ WF_vars(Alive /\ ProcExits)
        /\ WF_vars(Alive /\ StartReturns) /\ WF_vars(Alive /\ WaitReturns)
-----------------------------------------------------------------------------
\* When the caller's Wait returns, the job has let go of everything: streams
\* terminated, nothing assembled, directory gone (chroot_executor.go:53,63).
WaitMeansOver ==
  /\ TypeOK
  /\ start = "returned" => streams = "closed" /\ ~assembled /\ dir = "removed"

\* A result without an error is the result of a job that really ran: with every
\* input, a process that exited by itself, and every output of the formula.
\* Outputs are there all or none, and only when a process exited.
ResultIsWhole ==
  /\ wait = "closed" /\ ~error =>
       arenas = Inputs /\ proc = "exited" /\ exit # "unset" /\ outputs = Outputs
  /\ outputs # {} => outputs = Outputs /\ exit # "unset"

\* What Wait hands over is final: the reports of goroutines that were left
\* behind reach nobody (basicjob.go:15: "Only valid to read after Wait()").
ResultIsFinal == [][wait = "closed" => UNCHANGED <<exit, error, outputs>>]_vars

\* As long as nothing failed, no scan still reads the filesystem when it is
\* taken down.
NoScanOutlivesTheRootfs ==
  pc \in {"defers", "recovered", "remove", "ended"} /\ ~error =>
    \A o \in Outputs : scan[o] = "gone"

\* The caller always gets out of Start and of Wait, or the program dies.
CallerReturns == <>(start = "returned" \/ pc = "crashed")
=============================================================================
