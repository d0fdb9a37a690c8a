--------------------------- MODULE RolloutRecorder ---------------------------
(***************************************************************************)
(* The durable event log (core/rollout_recorder.py): producers put records *)
(* and flush commands into a bounded queue, one background task writes     *)
(* them to a file, and a flush that returns promises that everything       *)
(* accepted before it is on the disk.                                      *)
(*                                                                         *)
(* The file is a stack of three places: Python's buffer, the operating     *)
(* system's file, and its fsynced prefix.  An open, a flush or an fsync    *)
(* may fail, and so may the flush inside close(), which then drops the     *)
(* buffer.  Left out: lines torn by a failed write, record() (it waits     *)
(* where record_nowait refuses, and no run uses it), and a shutdown that   *)
(* is cancelled.                                                           *)
(***************************************************************************)
EXTENDS Naturals, Sequences, FiniteSets

CONSTANTS
  Runs,       \* the pipeline runs that share the recorder
  Host,       \* who shuts it down
  MaxEvents,  \* bound: events of each run before its terminal one
  QueueSize,  \* the recorder's queue_size
  MaxFaults   \* bound: commands in whose work an I/O operation fails

ASSUME RecorderAssumption ==
    /\ Host \notin Runs
    /\ MaxEvents \in [Runs -> Nat]
    /\ QueueSize \in Nat \ {0}
    /\ MaxFaults \in Nat

VARIABLES
  queue,     \* RolloutRecorder._queue
  command,   \* the command the writer works on, if any
  file,      \* _WriterState and the file behind it
  writer,    \* the writer task: "alive" or "done"
  stopped,   \* RolloutRecorder._stopped
  ack,       \* where each caller's last flush or shutdown is
  accepted,  \* every record accepted, in order
  faults,    \* commands that met a failing operation so far
  dropped    \* a close() dropped lines it could not write

recorderVars == <<queue, command, file, writer, stopped, ack, accepted,
                  faults, dropped>>

(* The terminal event of a run comes after its others.                     *)
Records == {rec \in Runs \X Nat : rec[2] \in 1..(MaxEvents[rec[1]] + 1)}
Callers == Runs \cup {Host}
Command == [kind : {"add"}, record : Records]
           \cup [kind : {"flush", "shutdown"}, by : Callers]
           \cup [kind : {"abandoned"}]
Nothing == [kind |-> "nothing"]

File == [pending : Seq(Records), buffer : Seq(Records), disk : Seq(Records),
         synced : Nat, exists : BOOLEAN, open : BOOLEAN]

RecorderTypeOK ==
    /\ queue \in Seq(Command) /\ Len(queue) <= QueueSize
    /\ command \in Command \cup {Nothing}
    /\ file \in File /\ file.synced <= Len(file.disk)
    /\ writer \in {"alive", "done"}
    /\ stopped \in BOOLEAN
    /\ ack \in [Callers -> {"none", "putting", "waiting", "ok", "failed"}]
    /\ accepted \in Seq(Records)
    /\ faults \in 0..MaxFaults
    /\ dropped \in BOOLEAN

RecorderInit ==
    /\ queue = <<>> /\ command = Nothing
    /\ file = [pending |-> <<>>, buffer |-> <<>>, disk |-> <<>>, synced |-> 0,
               exists |-> FALSE, open |-> FALSE]
    /\ writer = "alive" /\ stopped = FALSE
    /\ ack = [c \in Callers |-> "none"]
    /\ accepted = <<>>
    /\ faults = 0 /\ dropped = FALSE

Durable == {file.disk[i] : i \in 1..file.synced}

-----------------------------------------------------------------------------
(* Callers.                                                                *)

Serving == writer = "alive" /\ ~stopped

Room == Len(queue) < QueueSize

(* record_nowait: accepted, or refused with an exception.                  *)
Accept(r) ==
    /\ queue' = Append(queue, [kind |-> "add", record |-> r])
    /\ accepted' = Append(accepted, r)

Accepts == Serving /\ Room

(* flush() or shutdown() of c is called.                                   *)
Barrier(c) == ack' = [ack EXCEPT ![c] = IF Serving THEN "putting" ELSE "failed"]

(* The command finds room in the queue.                                    *)
Put(c) ==
    /\ ack[c] = "putting"
    /\ writer = "alive" /\ Room
    /\ ack' = [ack EXCEPT ![c] = "waiting"]
    /\ queue' = Append(queue, [kind |-> IF c = Host THEN "shutdown" ELSE "flush",
                               by |-> c])
    /\ UNCHANGED <<command, file, writer, stopped, accepted, faults,
                   dropped>>

(* A caller that looks for the writer's end only while it puts.            *)
SeesWriterEndPutting(c) ==
    /\ ack[c] = "putting"
    /\ writer = "done"
    /\ ack' = [ack EXCEPT ![c] = "failed"]
    /\ UNCHANGED <<queue, command, file, writer, stopped, accepted,
                   faults, dropped>>

(* The writer ended first.                                                 *)
SeesWriterEnd(c) ==
    /\ ack[c] \in {"putting", "waiting"}
    /\ writer = "done"
    /\ ack' = [ack EXCEPT ![c] = "failed"]
    /\ UNCHANGED <<queue, command, file, writer, stopped, accepted,
                   faults, dropped>>

(* The task that waits for flush() is cancelled.  A command in the queue   *)
(* stays there; nobody reads its answer.                                   *)
GiveUp(c) ==
    LET orphan(q) == IF q.kind = "flush" /\ q.by = c THEN [kind |-> "abandoned"] ELSE q
    IN  /\ queue' = [i \in DOMAIN queue |-> orphan(queue[i])]
        /\ command' = IF command = Nothing THEN command ELSE orphan(command)
        /\ ack' = [ack EXCEPT ![c] = "none"]
        /\ UNCHANGED <<file, writer, stopped, accepted, faults, dropped>>

(* shutdown()'s barrier is over: the recorder refuses from now on, and a   *)
(* failed one takes the writer with it.                                    *)
ShutdownEnds ==
    /\ ack[Host] \in {"ok", "failed"}
    /\ ~stopped
    /\ stopped' = TRUE
    /\ writer' = "done"
    /\ UNCHANGED <<queue, command, file, ack, accepted, faults,
                   dropped>>

-----------------------------------------------------------------------------
(* The writer.                                                             *)

Take ==
    /\ writer = "alive" /\ command = Nothing
    /\ queue # <<>>
    /\ command' = Head(queue)
    /\ queue' = Tail(queue)
    /\ UNCHANGED <<file, writer, stopped, ack, accepted, faults,
                   dropped>>

(* _write_pending_once, up to the operation that fails.  Lines handed to   *)
(* the buffer leave pending, whatever happens to them afterwards.          *)
Opened(f)   == [f EXCEPT !.open = TRUE, !.exists = TRUE]
Buffered(f) == [Opened(f) EXCEPT !.buffer = @ \o f.pending, !.pending = <<>>]
Flushed(f)  == [f EXCEPT !.disk = @ \o f.buffer, !.buffer = <<>>]
Synced(f)   == [f EXCEPT !.synced = Len(f.disk)]
Skipped(f, durable) == /\ f.pending = <<>> /\ ~f.open
                       /\ ~durable \/ ~f.exists

(* A retry that writes the lines again that a failed flush had buffered.   *)
AttemptsKeepingLines(f, durable) ==
    IF Skipped(f, durable) THEN {[file |-> f, ok |-> TRUE]}
    ELSE {[file |-> IF durable THEN Synced(Flushed(Buffered(f)))
                               ELSE Flushed(Buffered(f)), ok |-> TRUE],
          [file |-> [Buffered(f) EXCEPT !.pending = f.pending], ok |-> FALSE]}

Attempts(f, durable) ==
    IF Skipped(f, durable) THEN {[file |-> f, ok |-> TRUE]}
    ELSE {[file |-> IF durable THEN Synced(Flushed(Buffered(f)))
                               ELSE Flushed(Buffered(f)), ok |-> TRUE],
          [file |-> Buffered(f), ok |-> FALSE]}
         \cup (IF f.open THEN {} ELSE {[file |-> f, ok |-> FALSE]})
         \cup (IF durable THEN {[file |-> Flushed(Buffered(f)), ok |-> FALSE]}
                          ELSE {})

(* close(): what is still in the buffer is written, or lost.               *)
Closed(f)      == [Flushed(f) EXCEPT !.open = FALSE]
ClosedBadly(f) == [f EXCEPT !.buffer = <<>>, !.open = FALSE]

(* write_pending: one retry behind a fresh open, unless close() raises.    *)
Writes(f, durable) ==
    LET first == Attempts(f, durable)
        bad   == {one \in first : ~one.ok}
        again == UNION {Attempts(Closed(one.file), durable) : one \in bad}
    IN  {[file |-> one.file, ok |-> TRUE, failed |-> FALSE, drops |-> FALSE] :
            one \in first \ bad}
        \cup {[file |-> ClosedBadly(one.file), ok |-> FALSE, failed |-> TRUE,
               drops |-> one.file.buffer # <<>>] : one \in {b \in bad : b.file.open}}
        \cup {[file |-> two.file, ok |-> two.ok, failed |-> TRUE,
               drops |-> FALSE] : two \in again}

Outcome(w) ==
    /\ file' = w.file
    /\ faults' = faults + (IF w.failed THEN 1 ELSE 0)
    /\ faults' <= MaxFaults
    /\ dropped' = (dropped \/ w.drops)

(* An added record is only written once there is a file; a failure waits   *)
(* for the next flush.                                                     *)
WorkAdd ==
    /\ command.kind = "add"
    /\ LET f == [file EXCEPT !.pending = Append(@, command.record)]
       IN  IF file.open
             THEN \E w \in Writes(f, FALSE) : Outcome(w)
             ELSE file' = f /\ UNCHANGED <<faults, dropped>>
    /\ UNCHANGED <<writer, ack>>

(* A flush or a shutdown writes, fsyncs and answers.                       *)
WorkBarrier ==
    /\ command.kind \in {"flush", "shutdown", "abandoned"}
    /\ \E w \in Writes(file, TRUE) :
          /\ Outcome(w)
          /\ ack' = [c \in Callers |->
                       IF command.kind # "abandoned" /\ command.by = c
                       THEN IF w.ok THEN "ok" ELSE "failed" ELSE ack[c]]
          /\ writer' = IF w.ok /\ command.kind = "shutdown" THEN "done"
                       ELSE "alive"

Work ==
    /\ writer = "alive"
    /\ WorkAdd \/ WorkBarrier
    /\ command' = Nothing
    /\ UNCHANGED <<queue, stopped, accepted>>

WriterStep    == Take \/ Work
CallerStep(c) == Put(c) \/ SeesWriterEnd(c)

RecorderStep == WriterStep \/ ShutdownEnds \/ \E c \in Callers : CallerStep(c)
=============================================================================
