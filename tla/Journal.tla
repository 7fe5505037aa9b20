------------------------------ MODULE Journal ------------------------------
(***************************************************************************)
(* From a job's stdout and stderr to the eyes of a user: the writers and   *)
(* the reader of the CBOR mux, the Runner actor that turns rows and log    *)
(* messages into events on an unbuffered channel, and who follows them: a  *)
(* terminal, or a publisher whose encoded events a remote client reads.    *)
(* A row is one step, since write holds wmu from its first byte to its     *)
(* last and the tail reader shields the decoder from half of one.          *)
(***************************************************************************)
EXTENDS Naturals, Sequences, SequencesExt, FiniteSets

CONSTANTS Followers,   \* callers of FollowEvents; only one can be served
          None,        \* nobody
          MaxOut, MaxErr  \* bounds on what the process writes to each stream

ASSUME JournalConstants == None \notin Followers /\ {MaxOut, MaxErr} \subseteq Nat

Labels == {1, 2}       \* stdout and stderr
MaxPieces == <<MaxOut, MaxErr>>
Buffer == 1            \* pieces that fit into the buffer of io.Copy

VARIABLES setup,     \* which executor runs the job, and whether it is followed remotely
          mutex,     \* holder of Runner.mutex
          started,   \* whether StartRun assigned a runID
          follower,  \* where each call of FollowEvents is
          owner,     \* the follower whose channel the actor took
          runner,    \* the goroutine of Runner.Run
          job,       \* the job's goroutine
          proc,      \* the contained process
          straggler, \* a provisioning goroutine that a failed job left behind
          rows,      \* the mux's file
          put,       \* pieces written to each stream
          reader,    \* the reader of the mux: position, open labels, leftover
          got,       \* events the follower received
          consumer,  \* terminal.Consume, or the publisher
          wire,      \* events that reached the remote end
          line,      \* the connection
          shown,     \* events the remote terminal showed
          far        \* the remote terminal.Consume

jobVars  == <<job, proc, straggler>>
muxVars  == <<rows, put>>
farVars  == <<wire, line, shown, far>>
callVars == <<mutex, started, follower, owner>>
vars == <<setup, callVars, runner, jobVars, muxVars, reader, got, consumer, farVars>>

Row(l, m)    == [label |-> l, msg |-> m, closed |-> FALSE]
CloseRow(l)  == [label |-> l, msg |-> <<>>, closed |-> TRUE]
Event(t, x)  == [type |-> t, what |-> x]
LogEvent     == Event("log", <<>>)
RecordEvent  == Event("record", <<>>)
JournalEvent(chunk) == Event("journal", chunk)

\* The command wires a runner to an executor, and to a terminal or a publisher.
Ways == [executor : {"runc", "null"}, remote : BOOLEAN]

Init == /\ setup \in Ways
        /\ mutex = None /\ started = FALSE /\ owner = None
        /\ follower = [f \in Followers |-> "idle"]
        /\ runner = "rigging"
        /\ job = "none" /\ proc = "none" /\ straggler = "none"
        /\ rows = <<>> /\ put = [l \in Labels |-> 0]
        /\ reader = [at |-> 0, labels |-> Labels, buf |-> <<>>]
        /\ got = <<>> /\ consumer = "receive"
        /\ wire = <<>> /\ line = "up" /\ shown = <<>> /\ far = "consuming"
-----------------------------------------------------------------------------
(* The calls: the command starts the run, then follows it. *)
StartRun == /\ ~started /\ mutex = None
            /\ started' = TRUE
            /\ UNCHANGED <<setup, mutex, follower, owner, runner, jobVars, muxVars, reader, got,
                           consumer, farVars>>

FollowEvents(f) ==
  /\ started /\ follower[f] = "idle" /\ mutex = None
  /\ mutex' = f
  /\ follower' = [follower EXCEPT ![f] = "rigging"]
  /\ UNCHANGED <<setup, started, owner, runner, jobVars, muxVars, reader, got, consumer,
                 farVars>>

\* The actor takes the channel it is offered, once.  A later offer blocks for
\* ever, with the mutex held.
Rig(f) ==
  /\ follower[f] = "rigging" /\ runner = "rigging"
  /\ runner' = "start" /\ owner' = f
  /\ follower' = [follower EXCEPT ![f] = "done"] /\ mutex' = None
  /\ UNCHANGED <<setup, started, jobVars, muxVars, reader, got, consumer, farVars>>

\* The supervisor may have the actor quit, but only while it awaits its launch.
Quit == /\ runner = "rigging"
        /\ runner' = "quit"
        /\ UNCHANGED <<setup, callVars, jobVars, muxVars, reader, got, consumer, farVars>>

\* A send on the unbuffered channel: it meets the owner's receive.
Send(e) == /\ owner # None /\ consumer = "receive"
           /\ got' = Append(got, e)
           /\ consumer' = IF setup.remote THEN "encode"
                          ELSE IF e.type = "record" THEN "returned" ELSE "receive"

(* Runner.Run *)
Start == /\ runner = "start" /\ setup.executor # "null"
         /\ job' = "inputs" /\ runner' = "copy"
         /\ UNCHANGED <<setup, callVars, proc, straggler, muxVars, reader, got, consumer,
                        farVars>>

\* The null executor runs nothing and sets no streams; asking its job for a
\* reader of them is a panic of the actor.
StartNull == /\ runner = "start" /\ setup.executor = "null"
             /\ job' = "over" /\ runner' = "panicked"
             /\ UNCHANGED <<setup, callVars, proc, straggler, muxVars, reader, got, consumer,
                            farVars>>

\* Mutant: what did not fit into the buffer is forgotten.
LeftoverNone(m) == <<>>
Leftover(m) == SubSeq(m, Buffer + 1, Len(m))
Fits(m)     == SubSeq(m, 1, IF Len(m) < Buffer THEN Len(m) ELSE Buffer)

\* The reader is at its end when each of its labels was closed.
Ended(labels) == labels = {}

\* io.Copy's next chunk: first what was left over, then the next row; close
\* signals and rows of other labels are skipped.
Copy == LET row == rows[reader.at + 1] IN
  /\ runner = "copy" /\ ~Ended(reader.labels)
  /\ \/ /\ reader.buf # <<>>
        /\ Send(JournalEvent(Fits(reader.buf)))
        /\ reader' = [reader EXCEPT !.buf = Leftover(@)]
     \/ /\ reader.buf = <<>> /\ reader.at < Len(rows)
        /\ IF ~row.closed /\ row.label \in reader.labels
           THEN /\ Send(JournalEvent(Fits(row.msg)))
                /\ reader' = [reader EXCEPT !.at = @ + 1, !.buf = Leftover(row.msg)]
           ELSE /\ reader' = [reader EXCEPT !.at = @ + 1,
                               !.labels = IF row.closed THEN @ \ {row.label} ELSE @]
                /\ UNCHANGED <<got, consumer>>
  /\ UNCHANGED <<setup, callVars, runner, jobVars, muxVars, farVars>>

CopyEnds == /\ runner = "copy" /\ Ended(reader.labels)
            /\ runner' = "wait"
            /\ UNCHANGED <<setup, callVars, jobVars, muxVars, reader, got, consumer, farVars>>

\* Mutant: the end of the streams is taken for the end of the job.
JobWaitNot == TRUE
\* jobToRunRecord: job.Wait returns when WaitChan is closed.
JobWait == job = "over"

\* The record is the last event.
SendRecord == /\ runner = "wait" /\ JobWait
              /\ Send(RecordEvent)
              /\ runner' = "done"
              /\ UNCHANGED <<setup, callVars, jobVars, muxVars, reader, farVars>>
-----------------------------------------------------------------------------
(* The job; its log messages are events too, sent by its own goroutine.  *)
JobGoes(from, to) == job = from /\ job' = to
JobUnchanged == UNCHANGED <<setup, callVars, runner, put, reader, farVars>>

\* "Beginning execution!", and the process runs; or an input fails while
\* others are still being fetched.
Launch == /\ \/ JobGoes("inputs", "exec") /\ proc' = "running" /\ UNCHANGED straggler
             \/ JobGoes("inputs", "close1") /\ straggler' = "logging" /\ UNCHANGED proc
          /\ Send(LogEvent)
          /\ UNCHANGED rows /\ JobUnchanged

\* Somebody nobody waits for has something to say.
Straggle == /\ straggler = "logging"
            /\ Send(LogEvent)
            /\ straggler' = "gone"
            /\ UNCHANGED <<job, proc, rows>> /\ JobUnchanged

\* The process writes: what exec copies from one pipe at a time is one row.
write(l, k) ==
  /\ proc = "running" /\ put[l] + k <= MaxPieces[l]
  /\ rows' = Append(rows, Row(l, [i \in 1 .. k |-> <<l, put[l] + i>>]))
  /\ put' = [put EXCEPT ![l] = @ + k]
  /\ UNCHANGED <<setup, callVars, runner, jobVars, reader, got, consumer, farVars>>

ProcExits == /\ proc = "running" /\ proc' = "exited"
             /\ UNCHANGED <<job, straggler, rows, got, consumer>> /\ JobUnchanged

\* "Execution done!", after the copying of both streams; or, with runc, a
\* panic while the process goes on writing.
Execute == /\ \/ JobGoes("exec", "close1") /\ proc = "exited" /\ Send(LogEvent)
              \/ JobGoes("exec", "close1") /\ UNCHANGED <<got, consumer>>
           /\ UNCHANGED <<proc, straggler, rows>> /\ JobUnchanged

\* Mutant: only stdout is terminated.
TerminateOne == /\ JobGoes("close1", "over")
                /\ rows' = Append(rows, CloseRow(1))
                /\ UNCHANGED <<proc, straggler, got, consumer>> /\ JobUnchanged

\* However the job ends, the streams are terminated, one after the other; the
\* last step stands for the removal of the directory and the WaitChan.
Terminate == /\ \/ JobGoes("close1", "close2") /\ rows' = Append(rows, CloseRow(1))
                \/ JobGoes("close2", "remove") /\ rows' = Append(rows, CloseRow(2))
                \/ JobGoes("remove", "over") /\ UNCHANGED rows
             /\ UNCHANGED <<proc, straggler, got, consumer>> /\ JobUnchanged
-----------------------------------------------------------------------------
(* The publisher and its far side. *)
PublisherUnchanged ==
  UNCHANGED <<setup, callVars, runner, jobVars, muxVars, reader, got>>

\* Mutant: an error of the encoder is not looked at.
EncodeLossy == /\ consumer = "encode"
               /\ wire' \in {wire, Append(wire, Last(got))}
               /\ consumer' = IF Last(got).type = "record" THEN "returned" ELSE "receive"
               /\ PublisherUnchanged /\ UNCHANGED <<line, shown, far>>

Encode == /\ consumer = "encode"
          /\ \/ /\ line = "up"
                /\ wire' = Append(wire, Last(got))
                /\ consumer' = IF Last(got).type = "record" THEN "returned" ELSE "receive"
             \/ line # "up" /\ consumer' = "panicked" /\ UNCHANGED wire
          /\ PublisherUnchanged /\ UNCHANGED <<line, shown, far>>

\* The publisher may be told to quit between events, and its process ends
\* when it is through: the far side sees the end of the stream.
HangUp == /\ setup.remote /\ line = "up"
          /\ \/ consumer \in {"returned", "panicked"} /\ UNCHANGED consumer
             \/ consumer = "receive" /\ consumer' = "quit"
          /\ line' = "eof"
          /\ PublisherUnchanged /\ UNCHANGED <<wire, shown, far>>

\* The connection breaks; what was on its way is lost, perhaps within an event.
Cut == /\ setup.remote /\ line = "up"
       /\ \E k \in Len(shown) .. Len(wire) : wire' = SubSeq(wire, 1, k)
       /\ line' \in {"eof", "torn"}
       /\ PublisherUnchanged /\ UNCHANGED <<consumer, shown, far>>

\* readOne decodes an event and Consume shows it, up to the record; torn data
\* is ErrRemotePanic in a goroutine of its own, the end of the stream nothing.
FarStep ==
  /\ far = "consuming"
  /\ \/ /\ Len(shown) < Len(wire)
        /\ LET e == wire[Len(shown) + 1] IN
             shown' = Append(shown, e) /\ far' = IF e.type = "record" THEN "returned" ELSE far
     \/ shown = wire /\ line = "torn" /\ far' = "panicked" /\ UNCHANGED shown
  /\ PublisherUnchanged /\ UNCHANGED <<consumer, wire, line>>

Run  == Start \/ StartNull \/ Copy \/ CopyEnds \/ SendRecord
Jobs == Launch \/ Execute \/ Terminate
Next == \/ StartRun \/ Quit \/ Run \/ Jobs \/ Straggle \/ ProcExits
        \/ \E f \in Followers : FollowEvents(f) \/ Rig(f)
        \/ \E l \in Labels, k \in 1 .. 2 : write(l, k)
        \/ Encode \/ HangUp \/ Cut \/ FarStep

\* Goroutines run, a process ends; nobody has to follow, write, quit or hang up.
Spec == /\ Init /\ [][Next]_vars
        /\ WF_vars(Run) /\ WF_vars(Jobs) /\ WF_vars(ProcExits)
        /\ WF_vars(Encode) /\ WF_vars(FarStep)
-----------------------------------------------------------------------------
TypeOK == /\ mutex \in Followers \cup {None} /\ started \in BOOLEAN
          /\ owner \in Followers \cup {None}
          /\ follower \in [Followers -> {"idle", "rigging", "done"}]
          /\ runner \in {"rigging", "start", "copy", "wait", "done", "quit", "panicked"}
          /\ job \in {"none", "inputs", "exec", "close1", "close2", "remove", "over"}
          /\ proc \in {"none", "running", "exited"}
          /\ straggler \in {"none", "logging", "gone"}
          /\ \A l \in Labels : put[l] \in 0 .. MaxPieces[l]
          /\ reader.at \in 0 .. Len(rows) /\ reader.labels \subseteq Labels
          /\ consumer \in {"receive", "encode", "returned", "panicked", "quit"}
          /\ line \in {"up", "eof", "torn"}
          /\ far \in {"consuming", "returned", "panicked"}

\* What a follower should read: all that was written to a stream before it was
\* closed, in the order of the file.
Written == LET live(i) == ~\E j \in 1 .. i : rows[j].closed /\ rows[j].label = rows[i].label
           IN  FlattenSeq([i \in DOMAIN rows |-> IF live(i) THEN rows[i].msg ELSE <<>>])
Chunks(events) == LET chunk(e) == IF e.type = "journal" THEN e.what ELSE <<>>
                  IN  FlattenSeq([i \in DOMAIN events |-> chunk(events[i])])
Recorded(events) == \E i \in DOMAIN events : events[i].type = "record"

\* The journal a follower receives is what the process wrote, in that order, no
\* piece lost, doubled or moved by the split into chunks, the other stream or a
\* late write; once the record arrived it is all of it (runner.go:85-104).
JournalIsFaithful ==
  /\ TypeOK
  /\ IsPrefix(Chunks(got), Written)
  /\ Recorded(got) => Chunks(got) = Written

\* The record is the last event, there is one, and it comes after the job
\* let go of everything (runner.go:99, util.go:15), also when goroutines the job left
\* behind go on logging.
RecordComesLast ==
  \A i \in DOMAIN got : got[i].type = "record" => i = Len(got) /\ job = "over"

\* Over whatever line: a remote terminal shows a part of the journal from its
\* beginning, without a gap, and returns a record only with all before it.
FarSideFollows ==
  /\ IsPrefix(shown, got)
  /\ far = "returned" => shown = got /\ Last(shown).type = "record"

\* A run whose events are followed ends with its record: no stream is waited
\* for that nobody closes (cbor_streamer.go:105), and nobody blocks for ever on
\* the channel, unless the executor has no streams or who listened gave up.
FollowedRunEnds ==
  owner # None ~> \/ Recorded(got)
                  \/ runner = "panicked" \/ consumer \in {"panicked", "quit"}
=============================================================================
