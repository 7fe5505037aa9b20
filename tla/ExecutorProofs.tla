--------------------------- MODULE ExecutorProofs ---------------------------
(***************************************************************************)
(* The executors.  RuncLog, for any number of messages, torn or not: the   *)
(* verdict on a job is that of its decoded messages, and a reader that     *)
(* drained has seen all there is.  Then Job, for any inputs and outputs    *)
(* and both executors: whoever waited finds everything released and a      *)
(* result that is whole and final.                                         *)
(***************************************************************************)
EXTENDS RuncLog, Job, FiniteSets, TLAPS

(* The log and its reader. *)
\* A message that is not torn reaches the file in one step.
AtOnce == Torn \/ Whole

\* The error variables say what was decoded.
Noted == /\ realError <=> \E m \in 1 .. decoded : log[m] = "start"
         /\ someError <=> \E m \in 1 .. decoded : log[m] = "status"

\* The job's goroutine reads them only when the one that sets them has ended.
Handed == /\ main \in {"judge", "outputs", "raised"} => tailer = "done"
          /\ main \in {"drain", "join", "judge", "outputs"} => exitCode = "code"
          /\ main = "raised" => Failed /\ exitCode = "unset"
          /\ main = "outputs" => ~Failed

\* The reader is closed after the process ended, so what is there when a
\* closed reader meets the end of the file is all there will be.
Drained == /\ main # "exec" => runc = "exited"
           /\ drain => runc = "exited"
           /\ lastEOF => drain /\ tailer # "read" /\ got = written /\ ~Buffered

IInv == LogTypeOK /\ AtOnce /\ Noted /\ Handed /\ Drained

-----------------------------------------------------------------------------
LEMMA InitInv == LogInit => IInv
<1> SUFFICES ASSUME LogInit PROVE IInv
  OBVIOUS
<1>1. log \in Seq(Kinds) /\ Len(log) = 0
  BY DEF LogInit
<1>2. 0 \in 0 .. Parts * 0 /\ 0 \in 0 .. 0 \div Parts
  BY DEF Parts
<1>3. LogTypeOK
  <2>1. Len(log) <= MaxMessages /\ written \in 0 .. Parts * Len(log) /\ got \in 0 .. written
    BY <1>1, <1>2, LogAssumption DEF LogInit
  <2>2. decoded \in 0 .. got \div Parts
    BY <1>2 DEF LogInit
  <2>3. QED  BY <1>1, <2>1, <2>2 DEF LogInit, LogTypeOK
<1>4. AtOnce /\ Noted /\ Handed /\ Drained
  BY <1>1 DEF LogInit, AtOnce, Whole, Parts, Noted, Handed, Drained
<1>5. QED  BY <1>3, <1>4 DEF IInv

LEMMA HalfMonotonic ==
  ASSUME NEW a \in Nat, NEW b \in Nat, a <= b
  PROVE  a \div Parts \in Nat /\ b \div Parts \in Nat /\ a \div Parts <= b \div Parts
BY DEF Parts

\* What messages were decoded does not depend on those begun after them.
LEMMA DecodedPrefix ==
  ASSUME LogTypeOK
  PROVE  /\ decoded \in 0 .. Len(log)
         /\ \A k \in Kinds, m \in 1 .. decoded : Append(log, k)[m] = log[m]
BY DEF LogTypeOK, Parts

\* One lemma per action: each keeps the inductive invariant.
LEMMA RuncWritesInv == ASSUME IInv, RuncWrites PROVE IInv'
<1> USE DEF IInv, RuncWrites
<1>1. Len(log') \in {Len(log), Len(log) + 1} /\ log' \in Seq(Kinds)
  BY DEF LogTypeOK
<1>2. written' \in written .. Parts * Len(log')
  <2>1. written \in Nat /\ Len(log) \in Nat /\ written <= 2 * Len(log)
    BY DEF LogTypeOK, Parts
  <2>2. CASE Whole
    <3>1. Len(log') = Len(log) + 1  BY <2>1, <2>2 DEF Whole, LogTypeOK
    <3>2. QED  BY <2>1, <2>2, <3>1 DEF Whole, Parts
  <2>3. CASE ~Whole
    <3>1. written' <= 2 * Len(log)  BY <2>1, <2>3 DEF AtOnce, Whole, Parts
    <3>2. QED  BY <2>1, <2>3, <3>1 DEF Parts
  <2>4. QED  BY <2>2, <2>3
<1>3. LogTypeOK'
  BY <1>1, <1>2, LogAssumption DEF LogTypeOK, Parts, Whole
<1>4. \A m \in 1 .. decoded : log'[m] = log[m]
  BY DecodedPrefix
<1>5. Noted' /\ Handed'
  BY <1>4 DEF Noted, Handed, Failed
<1>6. AtOnce'
  BY <1>1, LogAssumption DEF LogTypeOK, AtOnce, Whole, Parts
<1>7. Drained'
  BY DEF Drained
<1>8. QED  BY <1>3, <1>5, <1>6, <1>7

LEMMA RuncExitsInv == ASSUME IInv, RuncExits PROVE IInv'
BY DEF IInv, RuncExits, LogTypeOK, AtOnce, Whole, Noted, Handed, Failed, Drained, Buffered

LEMMA DecodeInv == ASSUME IInv, Decode PROVE IInv'
<1> USE DEF IInv, Decode
<1>1. decoded' \in 1 .. got \div Parts
  BY DEF LogTypeOK, Buffered, Parts
<1>2. LogTypeOK'
  BY <1>1 DEF LogTypeOK, Filter
<1>3. Noted'
  <2>1. decoded \in Nat /\ decoded' = decoded + 1
    BY DEF LogTypeOK, Parts
  <2>2. 1 .. decoded' = 1 .. decoded \cup {decoded + 1}
    BY <2>1
  <2>3. QED  BY <2>1, <2>2 DEF Noted, Filter
<1>4. AtOnce' /\ Handed' /\ Drained'
  BY DEF AtOnce, Whole, Handed, Drained
<1>5. QED  BY <1>2, <1>3, <1>4

LEMMA ReadInv == ASSUME IInv, Read PROVE IInv'
<1> USE DEF IInv, Read
<1>1. got \in Nat /\ written \in Nat /\ got' \in got .. written
  BY DEF LogTypeOK, Parts
<1>2. got \div Parts \in Nat /\ got' \div Parts \in Nat /\ got \div Parts <= got' \div Parts
  <2>1. got' \in Nat /\ got <= got'
    BY <1>1
  <2>2. QED  BY <1>1, <2>1, HalfMonotonic
<1>3. LogTypeOK'
  <2>1. decoded \in 0 .. got' \div Parts
    BY <1>2 DEF LogTypeOK
  <2>2. tailer' \in {"read", "eof"} /\ lastEOF' \in BOOLEAN
    BY DEF LogTypeOK
  <2>3. got' \in 0 .. written
    BY <1>1
  <2>4. QED  BY <2>1, <2>2, <2>3 DEF LogTypeOK
<1>4. AtOnce' /\ Noted' /\ Handed'
  BY DEF AtOnce, Whole, Noted, Handed, Failed
<1>5. Drained'
  BY DEF Drained, Buffered
<1>6. QED  BY <1>3, <1>4, <1>5

LEMMA CheckDrainInv == ASSUME IInv, CheckDrain PROVE IInv'
BY DEF IInv, CheckDrain, LogTypeOK, AtOnce, Whole, Noted, Handed, Failed, Drained, Buffered

\* The job's goroutine changes neither the log nor what was read of it.
LEMMA MainInv == ASSUME IInv, Main PROVE IInv'
<1> USE DEF IInv, Main, TakeExitCode, Close, Join, Judge, TailerDone
<1>1. UNCHANGED <<log, written, got, decoded, realError, someError, runc, tailer, lastEOF>>
  OBVIOUS
<1>2. drain' \in BOOLEAN /\ exitCode' \in {"unset", "code"}
      /\ main' \in {"exec", "drain", "join", "judge", "outputs", "raised"}
  BY DEF LogTypeOK
<1>3. LogTypeOK'
  BY <1>1, <1>2 DEF LogTypeOK
<1>4. AtOnce' /\ Noted'
  BY <1>1 DEF AtOnce, Whole, Noted
<1>5. Handed'
  BY DEF Handed, Failed
<1>6. Drained'
  BY DEF Drained, Buffered
<1>7. QED  BY <1>3, <1>4, <1>5, <1>6

LEMMA NextInv == IInv /\ [LogNext]_logVars => IInv'
<1> SUFFICES ASSUME IInv, [LogNext]_logVars PROVE IInv'
  OBVIOUS
<1>1. CASE UNCHANGED logVars
  BY <1>1 DEF logVars, IInv, LogTypeOK, AtOnce, Whole, Noted, Handed, Failed, Drained, Buffered
<1>2. CASE LogNext
  BY <1>2, RuncWritesInv, RuncExitsInv, DecodeInv, ReadInv, CheckDrainInv, MainInv
     DEF LogNext, Tailer
<1>3. QED  BY <1>1, <1>2

LEMMA Invariance == LogSpec => []IInv
BY InitInv, NextInv, PTL DEF LogSpec
-----------------------------------------------------------------------------
\* The verdict is that of the messages decoded (runc_executor.go:279).
THEOREM VerdictIsRight == LogSpec => []VerdictFitsTheLog
<1>1. IInv => VerdictFitsTheLog
  <2> SUFFICES ASSUME IInv PROVE VerdictFitsTheLog
    OBVIOUS
  <2>1. (\E m \in 1 .. decoded : log[m] \in {"start", "status"}) <=> Failed
    BY DEF IInv, Noted, Failed
  <2>2. Judged => (Failed <=> main = "raised") /\ (Failed <=> exitCode = "unset")
    BY DEF IInv, Handed, Judged
  <2>3. QED  BY <2>1, <2>2 DEF IInv, VerdictFitsTheLog
<1>2. QED  BY <1>1, Invariance, PTL

\* A reader that met the end of the file while draining missed nothing: what is
\* lost is only what raced its last look (tail.go:31, runc_executor.go:277).
THEOREM DrainIsComplete == LogSpec => []DrainMissesNothing
<1>1. IInv => DrainMissesNothing
  BY DEF IInv, Drained, LogTypeOK, DrainMissesNothing, Missed, Buffered, Parts
<1>2. QED  BY <1>1, Invariance, PTL

\* Reads may end within a message, but a reader that met the end of the file has read
\* whole ones, if the log has whole ones only.
Unbroken == ~Torn => /\ tailer # "crashed"
                     /\ tailer \in {"eof", "done"} => got % Parts = 0

LEMMA UnbrokenStep == IInv /\ Unbroken /\ [LogNext]_logVars => Unbroken'
<1> SUFFICES ASSUME IInv, Unbroken, [LogNext]_logVars, ~Torn PROVE Unbroken'
  BY DEF Unbroken
<1>1. CASE Read
  <2>1. CASE tailer' = "eof"
    <3>1. got' = Parts * Len(log) /\ Len(log) \in Nat
      BY <1>1, <2>1 DEF Read, IInv, LogTypeOK, AtOnce, Whole
    <3>2. got' % Parts = 0
      BY <3>1 DEF Parts
    <3>3. QED  BY <2>1, <3>2 DEF Unbroken
  <2>2. CASE tailer' = "read"
    BY <2>2 DEF Unbroken
  <2>3. QED  BY <1>1, <2>1, <2>2 DEF Read
<1>2. CASE CheckDrain
  BY <1>2 DEF CheckDrain, Unbroken
<1>3. CASE UNCHANGED <<tailer, got>>
  BY <1>3 DEF Unbroken
<1>4. QED
  BY <1>1, <1>2, <1>3 DEF LogNext, RuncWrites, RuncExits, Tailer, Decode, Main, TakeExitCode,
     Close, Join, Judge, logVars

\* The end of the stream falls within a message only if runc died within one, so a log
\* of whole messages never ends the program (runc_executor.go:217).
THEOREM WholeLogsAreReadable == LogSpec => [](~Torn => tailer # "crashed")
<1>1. LogInit => Unbroken
  BY DEF LogInit, Unbroken, Parts
<1>2. Unbroken => (~Torn => tailer # "crashed")
  BY DEF Unbroken
<1>3. QED  BY <1>1, <1>2, UnbrokenStep, Invariance, PTL DEF LogSpec

\* Nobody sets the errors any more when they are read: once the job's goroutine
\* has joined the tailer, they and the messages decoded stay as they are.
THEOREM ErrorsSettleBeforeTheVerdict ==
  LogSpec => [][Judged \/ main = "judge" => UNCHANGED <<realError, someError, decoded>>]_logVars
<1>1. IInv /\ [LogNext]_logVars =>
        [Judged \/ main = "judge" => UNCHANGED <<realError, someError, decoded>>]_logVars
  BY DEF IInv, Handed, Judged, LogNext, Tailer, Main, RuncWrites, RuncExits, Decode, Read,
     CheckDrain, TakeExitCode, Close, Join, Judge, logVars
<1>2. QED  BY <1>1, Invariance, PTL DEF LogSpec
-----------------------------------------------------------------------------
(* The job around it: its variables are its own, and no step of one half is *)
(* a step of the other.                                                     *)
WayOut == {"defers", "recovered", "remove", "ended"}

\* WaitChan is closed by the last step of the job's goroutine.
Closing == /\ wait = "closed" <=> pc = "ended"
           /\ start = "returned" => wait = "closed"

\* On the way out things are let go of one after the other.
Released == /\ pc \in {"recovered", "remove", "ended"} => ~assembled
            /\ pc \in {"remove", "ended"} => streams = "closed"
            /\ pc = "ended" => dir = "removed"

\* What the job has of its result by now.
Progress ==
  /\ pc \in {"assemble", "exec", "running", "scan", "gatherOut"} => arenas = Inputs
  /\ pc \in {"scan", "gatherOut"} => proc = "exited" /\ exit # "unset"
  /\ pc \in WayOut /\ ~error =>
       arenas = Inputs /\ proc = "exited" /\ exit # "unset" /\ outputs = Outputs

\* The reports gathered are those of the goroutines that ended, so all scans
\* have ended when all are gathered.
Gathered ==
  /\ pc \notin WayOut \cup {"gatherOut", "crashed"} =>
       saved = {} /\ \A o \in Outputs : scan[o] = "none"
  /\ pc = "gatherOut" => saved = {o \in Outputs : scan[o] = "gone"}

\* The results are assigned at once, when all are there.
AllAtOnce ==
  outputs # {} => pc \in WayOut \cup {"crashed"} /\ outputs = Outputs /\ exit # "unset"

JobInv == /\ TypeOK /\ Closing /\ Released /\ Progress /\ Gathered /\ AllAtOnce
          /\ NoScanOutlivesTheRootfs

-----------------------------------------------------------------------------
LEMMA JobInitInv == Init => JobInv
<1> SUFFICES ASSUME Init PROVE JobInv
  OBVIOUS
<1> USE DEF Init
<1>1. TypeOK  BY DEF TypeOK, Workers
<1>2. Closing /\ Released /\ Progress /\ AllAtOnce
  BY DEF Closing, Released, Progress, AllAtOnce, WayOut
<1>3. Gathered  BY DEF Gathered, WayOut
<1>4. NoScanOutlivesTheRootfs  BY DEF NoScanOutlivesTheRootfs
<1>5. QED  BY <1>1, <1>2, <1>3, <1>4 DEF JobInv

\* One lemma for each part of the program.  What leads up to the process:
LEMMA PreparationInv ==
  ASSUME JobInv,
         \/ MakeDir \/ OpenStreams \/ SpawnInputs \/ InputsGathered
         \/ Assemble \/ Launch \/ \E i \in Inputs : GatherInput(i)
  PROVE  JobInv'
<1> USE DEF JobInv, MakeDir, OpenStreams, SpawnInputs, InputsGathered, AllInputs, Assemble,
       Launch, GatherInput, Panic
<1>1. TypeOK'
  <2>1. CASE MakeDir \/ OpenStreams \/ SpawnInputs
    BY <2>1 DEF TypeOK, Workers
  <2>2. CASE InputsGathered \/ Assemble \/ Launch
    BY <2>2 DEF TypeOK, Workers
  <2>3. ASSUME NEW i \in Inputs, GatherInput(i) PROVE TypeOK'
    <3>1. CASE fetch[i] = "ok"
      BY <2>3, <3>1 DEF TypeOK, Workers
    <3>2. CASE fetch[i] # "ok"
      BY <2>3, <3>2 DEF TypeOK, Workers
    <3>3. QED  BY <3>1, <3>2
  <2>4. QED  BY <2>1, <2>2, <2>3
<1>2. Closing' /\ Released'  BY DEF Closing, Released, TypeOK
<1>3. Progress' /\ AllAtOnce'  BY DEF Progress, AllAtOnce, WayOut, TypeOK
<1>4. Gathered'  BY DEF Gathered, WayOut
<1>5. NoScanOutlivesTheRootfs'  BY DEF NoScanOutlivesTheRootfs
<1>6. QED  BY <1>1, <1>2, <1>3, <1>4, <1>5

\* The process, and what becomes of its end:
LEMMA ExecutionInv ==
  ASSUME JobInv, NoRuncLog \/ GetExitCode \/ ProcExits PROVE JobInv'
<1> USE DEF JobInv, NoRuncLog, GetExitCode, ProcExits, Panic
<1>1. TypeOK'  BY DEF TypeOK
<1>2. Closing' /\ Released'  BY DEF Closing, Released
<1>3. Progress' /\ AllAtOnce'  BY DEF Progress, AllAtOnce, WayOut
<1>4. Gathered'  BY DEF Gathered, WayOut
<1>5. NoScanOutlivesTheRootfs'  BY DEF NoScanOutlivesTheRootfs
<1>6. QED  BY <1>1, <1>2, <1>3, <1>4, <1>5

\* The goroutines of inputs and outputs:
LEMMA FetchedInv == ASSUME JobInv, NEW i \in Inputs, Fetched(i) PROVE JobInv'
BY DEF JobInv, Fetched, TypeOK, Workers, Closing, Released, Progress, Gathered,
   AllAtOnce, NoScanOutlivesTheRootfs

LEMMA ScannedInv == ASSUME JobInv, NEW o \in Outputs, Scanned(o) PROVE JobInv'
<1> USE DEF JobInv, Scanned
<1>1. TypeOK'  BY DEF TypeOK, Workers
<1>2. Closing' /\ Released' /\ Progress' /\ AllAtOnce'
  BY DEF Closing, Released, Progress, AllAtOnce
<1>3. \A p \in Outputs : scan'[p] = "gone" <=> scan[p] = "gone"  BY DEF TypeOK
<1>4. Gathered'  BY <1>3 DEF Gathered, WayOut, TypeOK
<1>5. NoScanOutlivesTheRootfs'  BY <1>3 DEF NoScanOutlivesTheRootfs
<1>6. QED  BY <1>1, <1>2, <1>4, <1>5

\* The gathering of outputs:
LEMMA PreservationInv ==
  ASSUME JobInv, SpawnScans \/ OutputsGathered \/ \E o \in Outputs : GatherOutput(o)
  PROVE  JobInv'
<1> USE DEF JobInv
<1>1. CASE SpawnScans
  <2> USE <1>1 DEF SpawnScans
  <2>1. TypeOK'  BY DEF TypeOK, Workers
  <2>2. Closing' /\ Released' /\ Progress' /\ AllAtOnce'
    BY DEF Closing, Released, Progress, AllAtOnce, WayOut
  <2>3. Gathered' /\ NoScanOutlivesTheRootfs'
    BY DEF Gathered, NoScanOutlivesTheRootfs, WayOut
  <2>4. QED  BY <2>1, <2>2, <2>3
<1>2. CASE OutputsGathered
  <2> USE <1>2 DEF OutputsGathered, AllOutputs
  <2>1. TypeOK'  BY DEF TypeOK
  <2>2. Closing' /\ Released' /\ Progress' /\ AllAtOnce'
    BY DEF Closing, Released, Progress, AllAtOnce, WayOut
  <2>3. Gathered' /\ NoScanOutlivesTheRootfs'
    BY DEF Gathered, NoScanOutlivesTheRootfs, WayOut
  <2>4. QED  BY <2>1, <2>2, <2>3
<1>3. ASSUME NEW o \in Outputs, GatherOutput(o) PROVE JobInv'
  <2> USE <1>3 DEF GatherOutput, Panic
  <2>1. TypeOK'
    <3>1. scan' \in [Outputs -> Workers]  BY DEF TypeOK, Workers
    <3>2. saved' \subseteq Outputs /\ error' \in BOOLEAN /\ pc' \in {"gatherOut", "defers"}
      <4>1. saved \subseteq Outputs /\ error \in BOOLEAN
        BY DEF TypeOK
      <4>2. CASE scan[o] = "ok"
        BY <4>1, <4>2
      <4>3. CASE scan[o] # "ok"
        BY <4>1, <4>3
      <4>4. QED  BY <4>2, <4>3
    <3>3. QED  BY <3>1, <3>2 DEF TypeOK
  <2>2. Closing' /\ Released' /\ Progress' /\ AllAtOnce'
    BY DEF Closing, Released, Progress, AllAtOnce, WayOut
  <2>3. Gathered' /\ NoScanOutlivesTheRootfs'
    BY DEF Gathered, NoScanOutlivesTheRootfs, WayOut, TypeOK
  <2>4. QED  BY <2>1, <2>2, <2>3
<1>4. QED  BY <1>1, <1>2, <1>3

\* The way out, and the caller:
LEMMA ReleaseInv ==
  ASSUME JobInv, Teardown \/ CloseStreams \/ RemoveDir \/ StartReturns \/ WaitReturns
  PROVE  JobInv'
<1> USE DEF JobInv, Teardown, CloseStreams, RemoveDir, StartReturns, WaitReturns
<1>1. TypeOK'  BY DEF TypeOK
<1>2. Closing' /\ Released'  BY DEF Closing, Released, TypeOK
<1>3. Progress' /\ AllAtOnce'  BY DEF Progress, AllAtOnce, WayOut
<1>4. Gathered' /\ NoScanOutlivesTheRootfs'
  BY DEF Gathered, NoScanOutlivesTheRootfs, WayOut
<1>5. QED  BY <1>1, <1>2, <1>3, <1>4

LEMMA JobNextInv == JobInv /\ [Next]_vars => JobInv'
<1> SUFFICES ASSUME JobInv, [Next]_vars PROVE JobInv'
  OBVIOUS
<1>1. CASE UNCHANGED vars
  BY <1>1 DEF vars, JobInv, TypeOK, Closing, Released, Progress, Gathered, AllAtOnce,
     NoScanOutlivesTheRootfs
<1>2. CASE Next
  BY <1>2, PreparationInv, ExecutionInv, FetchedInv, ScannedInv, PreservationInv, ReleaseInv
     DEF Next, Runner
<1>3. QED  BY <1>1, <1>2

LEMMA JobInvariance == Spec => []JobInv
BY JobInitInv, JobNextInv, PTL DEF Spec
-----------------------------------------------------------------------------
\* Whoever got out of Wait finds the streams terminated, nothing assembled and
\* the directory gone (chroot_executor.go:53,63).
THEOREM WaitIsTheEnd == Spec => []WaitMeansOver
<1>1. JobInv => WaitMeansOver  BY DEF JobInv, Closing, Released, WaitMeansOver
<1>2. QED  BY <1>1, JobInvariance, PTL

\* No error, no gap: without one the job ran with all its inputs and has all
\* its outputs, and there never are some of them (provision.go:74,179).
THEOREM ResultsAreWhole == Spec => []ResultIsWhole
<1>1. JobInv => ResultIsWhole
  BY DEF JobInv, Closing, Progress, AllAtOnce, ResultIsWhole, WayOut
<1>2. QED  BY <1>1, JobInvariance, PTL

\* Only a failure leaves scans behind that read the root file system while it
\* is taken down (provision.go:179).
THEOREM ScansEndFirst == Spec => []NoScanOutlivesTheRootfs
BY JobInvariance, PTL DEF JobInv

\* The result is not touched once WaitChan is closed (basicjob.go:15).
THEOREM ResultsAreFinal == Spec => ResultIsFinal
<1>1. JobInv /\ [Next]_vars =>
        [wait = "closed" => UNCHANGED <<exit, error, outputs>>]_vars
  <2> SUFFICES ASSUME JobInv, Next, wait = "closed"
               PROVE  UNCHANGED <<exit, error, outputs>>
    OBVIOUS
  <2>1. pc = "ended"  BY DEF JobInv, Closing
  <2>2. QED
    BY <2>1 DEF Next, Runner, MakeDir, OpenStreams, SpawnInputs, GatherInput, InputsGathered,
       Assemble, Launch, NoRuncLog, GetExitCode, SpawnScans, GatherOutput, OutputsGathered,
       Teardown, CloseStreams, RemoveDir, Fetched, Scanned, ProcExits, StartReturns, WaitReturns
<1>2. QED  BY <1>1, JobInvariance, PTL DEF Spec, ResultIsFinal
=============================================================================
