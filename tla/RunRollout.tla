------------------------------ MODULE RunRollout ------------------------------
(***************************************************************************)
(* The runs of a pipeline and their audit trail (core/pipeline.py:         *)
(* _record_event, _emit_rollout_terminal, _flush_run_rollout and the ends  *)
(* of run() and run_stream()): every event of a run is recorded before     *)
(* anyone sees it, and a run is reported complete only when its events are *)
(* on the disk.  The runs share one RolloutRecorder, which the host may    *)
(* shut down at any time.                                                  *)
(***************************************************************************)
EXTENDS RolloutRecorder

CONSTANT Cancellable  \* bound: the runs whose task the host may cancel

ASSUME CancellableAssumption == Cancellable \subseteq Runs

VARIABLES
  pc,         \* where each run is
  emitted,    \* the events each run has emitted
  failure,    \* the runs in _run_rollout_failures
  published   \* the terminal event each run has put on the bus

runVars     == <<pc, emitted, failure, published>>
rolloutVars == <<recorderVars, runVars>>

(* "phases": the stages run.  "complete", "error", "final": the run waits  *)
(* for the flush before its completion, after its error event, or of its   *)
(* finally.  "failing": an exception is on its way to the error event.     *)
(* "ending": the finally begins.                                           *)
Places == {"phases", "complete", "failing", "error", "ending", "final", "over"}

RolloutTypeOK ==
    /\ RecorderTypeOK
    /\ pc \in [Runs -> Places]
    /\ emitted \in [Runs -> Nat]
    /\ \A r \in Runs : emitted[r] \in 0..(MaxEvents[r] + 1)
    /\ failure \subseteq Runs
    /\ published \in [Runs -> {"none", "complete", "error"}]

RolloutInit ==
    /\ RecorderInit
    /\ pc = [r \in Runs |-> "phases"]
    /\ emitted = [r \in Runs |-> 0]
    /\ failure = {}
    /\ published = [r \in Runs |-> "none"]

Goes(r, p) == pc' = [pc EXCEPT ![r] = p]

(* _record_event: after one refused event the run records nothing more.    *)
RecordEvent(r) ==
    LET event == <<r, emitted[r] + 1>>
    IN  /\ emitted' = [emitted EXCEPT ![r] = @ + 1]
        /\ IF r \notin failure /\ Accepts
             THEN Accept(event) /\ UNCHANGED failure
             ELSE /\ failure' = failure \cup {r}
                  /\ UNCHANGED <<queue, accepted>>

Unrecorded == <<command, file, writer, stopped, faults, dropped>>

(* An event of a stage.  A refusal reaches the stage when it emits on the  *)
(* bus itself, and is swallowed by add_event.                              *)
Emit(r) ==
    /\ pc[r] = "phases"
    /\ emitted[r] < MaxEvents[r]
    /\ RecordEvent(r)
    /\ \/ UNCHANGED pc
       \/ ~Accepts /\ r \notin failure /\ Goes(r, "failing")
    /\ UNCHANGED <<Unrecorded, ack, published>>

(* The phases are over: pipeline.complete is recorded, then flushed.       *)
Complete(r) ==
    /\ pc[r] = "phases"
    /\ RecordEvent(r)
    /\ IF ~Accepts /\ r \notin failure
         THEN Goes(r, "failing") /\ UNCHANGED ack
         ELSE Goes(r, "complete") /\ Barrier(r)
    /\ UNCHANGED <<Unrecorded, published>>

(* A stage raises.                                                         *)
Raise(r) ==
    /\ pc[r] = "phases"
    /\ Goes(r, "failing")
    /\ UNCHANGED <<recorderVars, emitted, failure, published>>

(* The host cancels the run's task, in its stages or at a flush.  A        *)
(* CancelledError is not an Exception: there is no error event.  In the    *)
(* last flush it skips the release, and the run stays in the tables.       *)
CancelRun(r) ==
    /\ \/ pc[r] = "phases" /\ Goes(r, "ending") /\ UNCHANGED recorderVars
       \/ pc[r] \in {"complete", "error"} /\ Goes(r, "ending") /\ GiveUp(r)
       \/ pc[r] = "final" /\ Goes(r, "over") /\ GiveUp(r)
    /\ UNCHANGED <<emitted, failure, published>>

(* The run has read its flush's answer.                                    *)
Answered(r) ==
    /\ ack' = [ack EXCEPT ![r] = "none"]
    /\ UNCHANGED <<queue, accepted, Unrecorded>>

(* A completion that goes out with whatever the flush said.                *)
PublishUnflushed(r) ==
    /\ pc[r] = "complete"
    /\ ack[r] \in {"ok", "failed"}
    /\ published' = [published EXCEPT ![r] = "complete"]
    /\ Goes(r, "ending")
    /\ Answered(r)
    /\ UNCHANGED <<emitted, failure>>

(* The flush before pipeline.complete is over.                             *)
Publish(r) ==
    /\ pc[r] = "complete"
    /\ ack[r] \in {"ok", "failed"}
    /\ IF ack[r] = "ok" /\ r \notin failure
         THEN /\ published' = [published EXCEPT ![r] = "complete"]
              /\ Goes(r, "ending")
              /\ UNCHANGED failure
         ELSE /\ failure' = failure \cup {r}
              /\ Goes(r, "failing")
              /\ UNCHANGED published
    /\ Answered(r)
    /\ UNCHANGED emitted

(* pipeline.error is recorded if it can be, and flushed.                   *)
Fail(r) ==
    /\ pc[r] = "failing"
    /\ IF emitted[r] <= MaxEvents[r]
         THEN RecordEvent(r)
         ELSE UNCHANGED <<queue, accepted, emitted, failure>>
    /\ Barrier(r)
    /\ Goes(r, "error")
    /\ UNCHANGED <<Unrecorded, published>>

(* ... and published whatever became of the flush.                         *)
PublishError(r) ==
    /\ pc[r] = "error"
    /\ ack[r] \in {"ok", "failed"}
    /\ failure' = IF ack[r] = "ok" THEN failure ELSE failure \cup {r}
    /\ published' = [published EXCEPT ![r] = "error"]
    /\ Goes(r, "ending")
    /\ Answered(r)
    /\ UNCHANGED emitted

(* The finally flushes once more and lets the recorder go.                 *)
FinalFlush(r) ==
    /\ pc[r] = "ending"
    /\ Barrier(r)
    /\ Goes(r, "final")
    /\ UNCHANGED <<Unrecorded, queue, accepted, emitted, failure, published>>

ReleaseRun(r) ==
    /\ pc[r] = "final"
    /\ ack[r] \in {"ok", "failed"}
    /\ failure' = failure \ {r}
    /\ Goes(r, "over")
    /\ Answered(r)
    /\ UNCHANGED <<emitted, published>>

(* The host shuts the recorder down.                                       *)
Shutdown ==
    /\ ack[Host] = "none"
    /\ Serving
    /\ Barrier(Host)
    /\ UNCHANGED <<queue, accepted, Unrecorded, runVars>>

RunStep(r) ==
    \/ Emit(r) \/ Complete(r) \/ Raise(r) \/ Publish(r) \/ Fail(r)
    \/ PublishError(r) \/ FinalFlush(r) \/ ReleaseRun(r)

Background == RecorderStep /\ UNCHANGED runVars

RolloutNext ==
    \/ \E r \in Runs : RunStep(r)
    \/ \E r \in Cancellable : CancelRun(r)
    \/ Background \/ Shutdown

RolloutSpec == RolloutInit /\ [][RolloutNext]_rolloutVars

(* The phases end (module TurnLoop), the writer's thread gets on, and the  *)
(* event loop runs a caller whose put or answer is ready.  A run's own     *)
(* steps and those of its waiting call are never enabled together.         *)
FairSpec == /\ RolloutSpec
            /\ \A r \in Runs :
                  WF_rolloutVars(RunStep(r) \/ (CallerStep(r) /\ UNCHANGED runVars))
            /\ WF_rolloutVars(WriterStep /\ UNCHANGED runVars)
            /\ WF_rolloutVars(CallerStep(Host) /\ UNCHANGED runVars)

-----------------------------------------------------------------------------
(* Properties.                                                             *)

EventsOf(r) == {<<r, k>> : k \in 1..emitted[r]}

(* A run whose completion is on the bus has all its events on the disk, or *)
(* a close() dropped lines.  (_emit_rollout_terminal, flush)               *)
PublishedIsDurable ==
    ~dropped => \A r \in Runs :
        published[r] = "complete" => EventsOf(r) \subseteq Durable

(* The same when a close() dropped lines: flush is "a durability barrier   *)
(* for all records accepted before that call".                             *)
CompleteIsDurable ==
    \A r \in Runs : published[r] = "complete" => EventsOf(r) \subseteq Durable

Written == file.disk \o file.buffer \o file.pending
Waiting == IF command = Nothing THEN queue ELSE <<command>> \o queue

(* The records not written yet are those of the waiting commands, in the   *)
(* same order.                                                             *)
QueuedInOrder ==
    \E place \in [Len(Written) + 1 .. Len(accepted) -> DOMAIN Waiting] :
        /\ \A n \in DOMAIN place :
              Waiting[place[n]] = [kind |-> "add", record |-> accepted[n]]
        /\ \A m, n \in DOMAIN place : m < n => place[m] < place[n]
        /\ \A i \in DOMAIN Waiting :
              Waiting[i].kind = "add" => \E n \in DOMAIN place : place[n] = i

(* A run's records are its first events, in order.                         *)
NoGap ==
    \A i \in DOMAIN accepted :
        accepted[i][2] = Cardinality({j \in 1..i : accepted[j][1] = accepted[i][1]})

(* Nothing is written twice, left out or overtaken.                        *)
InOrderOfAcceptance ==
    /\ Len(Written) <= Len(accepted)
    /\ \A i \in DOMAIN Written : Written[i] = accepted[i]
    /\ QueuedInOrder

(* The trail has no gap and no duplicate: the records of a run are its     *)
(* first events, in order, and every accepted record is in exactly one     *)
(* place between the queue and the disk, in the order of acceptance,       *)
(* unless a close() dropped lines.  (_record_event, _write_pending_once)   *)
TrailIntact == NoGap /\ (dropped \/ InOrderOfAcceptance)

(* Every run ends, however the writer ends and whichever of its waits is   *)
(* cancelled.  (_barrier, _put, _ensure_running)                           *)
RunsEnd == \A r \in Runs : <>(pc[r] = "over")
=============================================================================
