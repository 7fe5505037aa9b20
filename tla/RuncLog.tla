------------------------------ MODULE RuncLog ------------------------------
(***************************************************************************)
(* How the runc executor learns what runc itself had to say: the process   *)
(* appends JSON messages to its log, a goroutine decodes them through a    *)
(* TailReader, and when the process has exited the job's goroutine has the *)
(* reader drain, waits for it and lets what was decoded override the exit  *)
(* code.  A message is Parts pieces long; a read may end between pieces.   *)
(***************************************************************************)
EXTENDS Naturals, Sequences

CONSTANTS MaxMessages,  \* bound on the messages runc writes
          Torn          \* may a message reach the file in pieces?

ASSUME LogAssumption == MaxMessages \in Nat /\ Torn \in BOOLEAN

Parts == 2
\* "start": a whitelisted failure; "status": runc's "exit status n"; "other".
Kinds == {"start", "status", "other"}

VARIABLES log,       \* kinds of the messages begun
          written,   \* pieces in the file
          runc,      \* "running" or "exited"
          got,       \* pieces the decoder has read
          decoded,   \* messages it has decoded
          tailer,    \* "read", "eof": about to look at drain, "done", "crashed"
          drain,     \* TailReader.drain
          realError, someError,
          main,      \* "exec", "drain", "join", "judge", "outputs", "raised"
          exitCode,  \* result.ExitCode: "unset" is -1
          lastEOF    \* was drain set at the latest end of file? (history)

logVars == <<log, written, runc, got, decoded, tailer, drain, realError, someError, main,
             exitCode, lastEOF>>

LogTypeOK == /\ log \in Seq(Kinds) /\ Len(log) <= MaxMessages
             /\ written \in 0 .. Parts * Len(log) /\ got \in 0 .. written
             /\ decoded \in 0 .. got \div Parts
             /\ runc \in {"running", "exited"}
             /\ tailer \in {"read", "eof", "done", "crashed"}
             /\ drain \in BOOLEAN /\ realError \in BOOLEAN /\ someError \in BOOLEAN
             /\ main \in {"exec", "drain", "join", "judge", "outputs", "raised"}
             /\ exitCode \in {"unset", "code"} /\ lastEOF \in BOOLEAN

LogInit == /\ log = <<>> /\ written = 0 /\ runc = "running"
           /\ got = 0 /\ decoded = 0 /\ tailer = "read" /\ drain = FALSE
           /\ realError = FALSE /\ someError = FALSE
           /\ main = "exec" /\ exitCode = "unset" /\ lastEOF = FALSE
-----------------------------------------------------------------------------
(* runc *)
Whole == written = Parts * Len(log)

RuncWrites == /\ runc = "running"
              /\ \/ Whole /\ Len(log) < MaxMessages /\ \E k \in Kinds : log' = Append(log, k)
                 \/ ~Whole /\ UNCHANGED log
              /\ written' = written + (IF Torn THEN 1 ELSE Parts)
              /\ UNCHANGED <<runc, got, decoded, tailer, drain, realError, someError, main,
                             exitCode, lastEOF>>

RuncExits == /\ runc = "running"
             /\ runc' = "exited"
             /\ UNCHANGED <<log, written, got, decoded, tailer, drain, realError, someError,
                            main, exitCode, lastEOF>>

(* The tailer: Decode takes a message from its buffer, or reads on. *)
Buffered == (decoded + 1) * Parts <= got
Filter(k) == /\ realError' = (realError \/ k = "start")
             /\ someError' = (someError \/ k = "status")

Decode == /\ tailer = "read" /\ Buffered
          /\ decoded' = decoded + 1
          /\ Filter(log[decoded + 1])
          /\ UNCHANGED <<log, written, runc, got, tailer, drain, main, exitCode, lastEOF>>

\* Mutant of Read: a closed reader does not look again.
ReadUnlessClosed == /\ tailer = "read" /\ ~Buffered
                    /\ \/ /\ ~drain
                          /\ \E n \in got + 1 .. written : got' = n
                          /\ UNCHANGED <<tailer, lastEOF>>
                       \/ /\ got = written \/ drain
                          /\ tailer' = "eof" /\ lastEOF' = drain
                          /\ UNCHANGED got
                    /\ UNCHANGED <<log, written, runc, decoded, drain, realError, someError,
                                   main, exitCode>>
\* TailReader.Read: what there is, or the end of the file.
Read == /\ tailer = "read" /\ ~Buffered
        /\ \/ \E n \in got + 1 .. written : got' = n
              /\ UNCHANGED <<tailer, lastEOF>>
           \/ /\ got = written
              /\ tailer' = "eof" /\ lastEOF' = drain
              /\ UNCHANGED got
        /\ UNCHANGED <<log, written, runc, decoded, drain, realError, someError, main, exitCode>>

\* After an end of file: leave if closed by now, else pause and try again.  The
\* end of the stream within a message is a panic nobody recovers.
CheckDrain == /\ tailer = "eof"
              /\ tailer' = IF ~drain THEN "read"
                           ELSE IF got % Parts = 0 THEN "done" ELSE "crashed"
              /\ UNCHANGED <<log, written, runc, got, decoded, drain, realError, someError,
                             main, exitCode, lastEOF>>

(* The job's goroutine. *)
TakeExitCode == /\ main = "exec" /\ runc = "exited"
                /\ exitCode' = "code" /\ main' = "drain"
                /\ UNCHANGED <<log, written, runc, got, decoded, tailer, drain, realError,
                               someError, lastEOF>>

\* Mutant of Close: the reader is left tailing.
CloseNot == /\ main = "drain"
            /\ main' = "join"
            /\ UNCHANGED <<log, written, runc, got, decoded, tailer, drain, realError, someError,
                           exitCode, lastEOF>>
Close == /\ main = "drain"
         /\ drain' = TRUE /\ main' = "join"
         /\ UNCHANGED <<log, written, runc, got, decoded, tailer, realError, someError, exitCode,
                        lastEOF>>

TailerDone == tailer = "done"
Join == /\ main = "join" /\ TailerDone
        /\ main' = "judge"
        /\ UNCHANGED <<log, written, runc, got, decoded, tailer, drain, realError, someError,
                       exitCode, lastEOF>>

\* Mutant of Failed: a failure is only what was recognised.
FailedKnown == realError
Failed == realError \/ someError
Judge == /\ main = "judge"
         /\ IF Failed THEN main' = "raised" /\ exitCode' = "unset"
                      ELSE main' = "outputs" /\ UNCHANGED exitCode
         /\ UNCHANGED <<log, written, runc, got, decoded, tailer, drain, realError, someError,
                        lastEOF>>

Tailer == Decode \/ Read \/ CheckDrain
Main   == TakeExitCode \/ Close \/ Join \/ Judge
TailerAlive == tailer # "crashed"
LogNext == TailerAlive /\ (RuncWrites \/ RuncExits \/ Tailer \/ Main)

\* Goroutines run; the process ends in time (its writes are bounded).
LogSpec == /\ LogInit /\ [][LogNext]_logVars
           /\ WF_logVars(TailerAlive /\ Tailer) /\ WF_logVars(TailerAlive /\ Main)
           /\ WF_logVars(TailerAlive /\ RuncWrites) /\ WF_logVars(TailerAlive /\ RuncExits)
-----------------------------------------------------------------------------
Judged == main \in {"outputs", "raised"}
Missed == {m \in DOMAIN log : m > decoded /\ m * Parts <= written}

\* Once the reader has seen the end of the file while draining, there is nothing
\* left: what the goroutine leaves unread is only what raced its last look.
DrainMissesNothing == Judged /\ lastEOF => Missed = {}

\* The verdict is that of the messages decoded: outputs are only ever collected
\* when none of them was a failure, and then the exit code is the command's.  The
\* errors are read after the goroutine that sets them (runc_executor.go:279).
VerdictFitsTheLog ==
  LET bad == \E m \in 1 .. decoded : log[m] \in {"start", "status"} IN
  /\ LogTypeOK
  /\ Judged => (bad <=> main = "raised") /\ (bad <=> exitCode = "unset")

\* Every job is judged after its process ended, however late the tailer looks,
\* unless runc died within a message and the tailer's panic ends the program.
JudgedAtLast == runc = "exited" ~> Judged \/ tailer = "crashed"
=============================================================================
