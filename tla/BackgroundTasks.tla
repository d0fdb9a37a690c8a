--------------------------- MODULE BackgroundTasks ---------------------------
(***************************************************************************)
(* Background tasks: the runner that gives each submitted record a task of *)
(* the event loop (runtime/task_runner.py), over the registry that keeps   *)
(* one line per change in registry.jsonl (runtime/tasks.py,                *)
(* FileBackedRegistry), a process that may die at any point, and readers   *)
(* that follow a task's output.                                            *)
(*                                                                         *)
(* A submission that is scheduled is a job; jobs are numbered in that      *)
(* order, which is also the order in which the semaphore serves them.  An  *)
(* action is what one task of the loop does between two waits.  The file   *)
(* is what replaying it would give.  Left out: payloads and errors,        *)
(* remove(), which nothing calls, a registry write that fails, a torn line *)
(* cut exactly before its newline, the output of tasks nobody follows, and *)
(* hosts that submit before start().                                       *)
(***************************************************************************)
EXTENDS Naturals, FiniteSets

CONSTANTS
  Tasks,          \* task ids
  NoTask,         \* no task id
  Watched,        \* the tasks whose output somebody follows
  MaxConcurrent,  \* the runner's max_concurrent
  MaxJobs,        \* submissions that one process schedules
  MaxChunks,      \* chunks of output per task id
  MaxCrashes      \* how often the process dies

ASSUME BackgroundAssumption ==
    /\ Watched \subseteq Tasks
    /\ NoTask \notin Tasks
    /\ MaxConcurrent \in Nat \ {0}
    /\ {MaxJobs, MaxChunks, MaxCrashes} \subseteq Nat

Jobs     == 1..MaxJobs
NoJob    == 0
Terminal == {"done", "failed", "cancelled"}
Status   == {"absent", "pending", "running"} \cup Terminal

VARIABLES
  up,       \* the process runs and start() has returned
  crashes,  \* how often it died
  record,   \* the registry's cache: each task's status
  disk,     \* the status that replaying registry.jsonl gives
  torn,     \* the file ends in half a line
  task,     \* the task id of each job that is under way
  pc,       \* where each job is; "over": its done-callback is still to run
  asked,    \* the jobs whose task has a CancelledError coming
  futures,  \* _futures: the job each task id leads to
  free,     \* the semaphore's free slots
  host,     \* what the host waits for: nothing, a stop() or a shutdown()
  awaited,  \* the jobs a stop() waits for
  out,      \* chunks in outputs/<task_id>.bin
  event,    \* _output_events: missing, clear or set
  reader,   \* where the reader of each watched task is
  offset,   \* the chunks it has read
  stuck,    \* a reader holds the event loop
  late      \* history: the ids that were submitted again before the callback
            \* of their last job, or that a shutdown() left with one under way

file    == <<disk, torn>>
jobs    == <<task, pc, asked, futures, free>>
calls   == <<host, awaited>>
readers == <<reader, offset, stuck>>
vars    == <<up, crashes, record, file, jobs, calls, out, event, readers, late>>

Live(j)      == pc[j] \in {"queued", "executing"}
InFlight(t)  == futures[t] # NoJob /\ Live(futures[t])
Idle         == up /\ ~stuck  \* the event loop can take a step

TypeOK ==
    /\ up \in BOOLEAN
    /\ crashes \in 0..MaxCrashes
    /\ record \in [Tasks -> Status]
    /\ disk \in [Tasks -> Status]
    /\ torn \in BOOLEAN
    /\ task \in [Jobs -> Tasks \cup {NoTask}]
    /\ pc \in [Jobs -> {"unused", "queued", "executing", "over", "gone"}]
    /\ asked \in SUBSET Jobs
    /\ futures \in [Tasks -> Jobs \cup {NoJob}]
    /\ free \in 0..MaxConcurrent
    /\ host \in {"free", "stop", "shutdown"}
    /\ awaited \in SUBSET Jobs
    /\ out \in [Watched -> 0..MaxChunks]
    /\ event \in [Watched -> {"none", "clear", "set"}]
    /\ reader \in [Watched -> {"off", "reading", "waiting"}]
    /\ offset \in [Watched -> 0..MaxChunks]
    /\ stuck \in BOOLEAN
    /\ late \in SUBSET Tasks

Init ==
    /\ up = FALSE /\ crashes = 0
    /\ record = [t \in Tasks |-> "absent"]
    /\ disk = record /\ torn = FALSE
    /\ task = [j \in Jobs |-> NoTask]
    /\ pc = [j \in Jobs |-> "unused"] /\ asked = {}
    /\ futures = [t \in Tasks |-> NoJob]
    /\ free = MaxConcurrent
    /\ host = "free" /\ awaited = {}
    /\ out = [t \in Watched |-> 0]
    /\ event = [t \in Watched |-> "none"]
    /\ reader = [t \in Watched |-> "off"]
    /\ offset = [t \in Watched |-> 0]
    /\ stuck = FALSE /\ late = {}

(***************************************************************************)
(* The registry.                                                           *)
(***************************************************************************)
(* _append_line: a line behind half a line is unreadable together with it, *)
(* and the file is whole again.                                            *)
Append(t, status) ==
    /\ disk' = IF torn THEN disk ELSE [disk EXCEPT ![t] = status]
    /\ torn' = FALSE

(* A bug this could have: a terminal status is kept in memory only.        *)
MarkCacheOnly(t, status) ==
    /\ record' = [record EXCEPT ![t] = status]
    /\ IF status \in Terminal THEN UNCHANGED file ELSE Append(t, status)
    /\ event' = [w \in Watched |-> IF w = t /\ status \in Terminal /\ event[w] # "none"
                                  THEN "set" ELSE event[w]]

(* update_status: the cache, its line, and the wake-up a terminal status   *)
(* gives the readers.  Nothing clears the event again but append_output.   *)
Mark(t, status) ==
    /\ record' = [record EXCEPT ![t] = status]
    /\ Append(t, status)
    /\ event' = [w \in Watched |-> IF w = t /\ status \in Terminal /\ event[w] # "none"
                                  THEN "set" ELSE event[w]]

(***************************************************************************)
(* The process.  start() loads the file and fails what another process     *)
(* left RUNNING; one line of these is lost behind a torn tail.  A process  *)
(* that dies may be in the middle of a line.                               *)
(***************************************************************************)
Swept == [t \in Tasks |-> IF disk[t] = "running" THEN "failed" ELSE disk[t]]

Start ==
    /\ ~up
    /\ up' = TRUE
    /\ record' = Swept
    /\ LET running == {t \in Tasks : disk[t] = "running"}
       IN  IF torn /\ running # {}
           THEN \E lost \in running :
                  disk' = [Swept EXCEPT ![lost] = disk[lost]] /\ torn' = FALSE
           ELSE disk' = Swept /\ torn' = torn
    /\ UNCHANGED <<crashes, jobs, calls, out, event, readers, late>>

Crash ==
    /\ up /\ crashes < MaxCrashes
    /\ up' = FALSE /\ crashes' = crashes + 1
    /\ record' = [t \in Tasks |-> "absent"]
    /\ torn' \in {torn, TRUE}
    /\ pc' = [j \in Jobs |-> "unused"]
    /\ task' = [j \in Jobs |-> NoTask] /\ asked' = {}
    /\ futures' = [t \in Tasks |-> NoJob]
    /\ free' = MaxConcurrent
    /\ host' = "free" /\ awaited' = {}
    /\ event' = [t \in Watched |-> "none"]
    /\ reader' = [t \in Watched |-> "off"]
    /\ offset' = [t \in Watched |-> 0]
    /\ stuck' = FALSE /\ late' = {}
    /\ UNCHANGED <<disk, out>>

(***************************************************************************)
(* The runner.  An id in flight is not scheduled again (submit returns its *)
(* id); a kind without an executor fails at once.                          *)
(***************************************************************************)
Signal(t, value) == event' = [w \in Watched |-> IF w = t THEN value ELSE event[w]]

Register(t) ==
    event' = [w \in Watched |-> IF w = t /\ event[w] = "none" THEN "clear" ELSE event[w]]

(* The last job of the id is over, and its callback still to come.         *)
Overtakes(t) == \E j \in Jobs : pc[j] = "over" /\ task[j] = t

(* A bug this could have: no look at the job in flight.                    *)
SubmitAnyway(t) ==
    /\ Idle
    /\ \E j \in Jobs :
         /\ pc[j] = "unused" /\ \A i \in Jobs : pc[i] = "unused" => j <= i
         /\ pc' = [pc EXCEPT ![j] = "queued"]
         /\ task' = [task EXCEPT ![j] = t]
         /\ futures' = [futures EXCEPT ![t] = j]
    /\ record' = [record EXCEPT ![t] = "pending"]
    /\ Append(t, "pending")
    /\ Register(t)
    /\ late' = IF Overtakes(t) THEN late \cup {t} ELSE late
    /\ UNCHANGED <<up, crashes, asked, free, calls, out, readers>>

Submit(t) ==
    /\ Idle /\ ~InFlight(t)
    /\ \E j \in Jobs :
         /\ pc[j] = "unused" /\ \A i \in Jobs : pc[i] = "unused" => j <= i
         /\ pc' = [pc EXCEPT ![j] = "queued"]
         /\ task' = [task EXCEPT ![j] = t]
         /\ futures' = [futures EXCEPT ![t] = j]
    /\ record' = [record EXCEPT ![t] = "pending"]
    /\ Append(t, "pending")
    /\ Register(t)
    /\ late' = IF Overtakes(t) THEN late \cup {t} ELSE late
    /\ UNCHANGED <<up, crashes, asked, free, calls, out, readers>>

SubmitUnknown(t) ==
    /\ Idle /\ ~InFlight(t)
    /\ record' = [record EXCEPT ![t] = "failed"]
    /\ disk' = [disk EXCEPT ![t] = "failed"]  \* the second of its two lines
    /\ torn' = FALSE
    /\ Signal(t, "set")
    /\ UNCHANGED <<up, crashes, jobs, calls, out, readers, late>>

(* The semaphore is free, or was handed on, in the order of arrival; a     *)
(* waiter that was cancelled does not hold up the others.                  *)
Enter(j) ==
    /\ Idle /\ pc[j] = "queued" /\ j \notin asked /\ free > 0
    /\ \A i \in Jobs : i < j /\ pc[i] = "queued" => i \in asked
    /\ free' = free - 1
    /\ pc' = [pc EXCEPT ![j] = "executing"]
    /\ Mark(task[j], "running")
    /\ UNCHANGED <<up, crashes, task, asked, futures, calls, out, readers, late>>

(* A cancellation that comes before the slot ends the task outside the     *)
(* try: no status is written.                                              *)
Dropped(j) ==
    /\ Idle /\ pc[j] = "queued" /\ j \in asked
    /\ pc' = [pc EXCEPT ![j] = "over"]
    /\ asked' = asked \ {j}
    /\ UNCHANGED <<up, crashes, record, file, task, futures, free, calls, out, event, readers, late>>

Chunk(j) ==
    LET t == task[j] IN
    /\ Idle /\ pc[j] = "executing" /\ t \in Watched
    /\ out[t] < MaxChunks
    /\ out' = [out EXCEPT ![t] = @ + 1]
    /\ Signal(t, "clear")
    /\ UNCHANGED <<up, crashes, record, file, jobs, calls, readers, late>>

(* A bug this could have: the slot is given back by runs that succeed only. *)
EndsKeepsSlot(j) ==
    /\ Idle /\ pc[j] = "executing"
    /\ \E status \in {"done", "failed"} \cup (IF j \in asked THEN {"cancelled"} ELSE {}) :
         /\ Mark(task[j], status)
         /\ free' = IF status = "done" THEN free + 1 ELSE free
    /\ pc' = [pc EXCEPT ![j] = "over"]
    /\ asked' = asked \ {j}
    /\ UNCHANGED <<up, crashes, task, futures, calls, out, readers, late>>

(* The executor is exhausted, raises, or lets the cancellation through; it *)
(* may also swallow it.                                                    *)
Ends(j) ==
    /\ Idle /\ pc[j] = "executing"
    /\ \E status \in {"done", "failed"} \cup (IF j \in asked THEN {"cancelled"} ELSE {}) :
         Mark(task[j], status)
    /\ free' = free + 1
    /\ pc' = [pc EXCEPT ![j] = "over"]
    /\ asked' = asked \ {j}
    /\ UNCHANGED <<up, crashes, task, futures, calls, out, readers, late>>

(* The done-callback pops the id, whatever job it leads to by now.         *)
Callback(j) ==
    /\ Idle /\ pc[j] = "over"
    /\ pc' = [pc EXCEPT ![j] = "gone"]
    /\ task' = [task EXCEPT ![j] = NoTask]
    /\ futures' = [futures EXCEPT ![task[j]] = NoJob]
    /\ UNCHANGED <<up, crashes, record, file, asked, free, calls, out, event, readers, late>>

Cancel(js) ==
    /\ Idle /\ host = "free"
    /\ asked' = asked \cup {j \in js : Live(j)}
    /\ UNCHANGED <<up, crashes, record, file, task, pc, futures, free, out, event, readers, late>>

Stop(t) ==
    /\ InFlight(t) /\ Cancel({futures[t]})
    /\ host' = "stop" /\ awaited' = {futures[t]}

Shutdown ==
    LET js == {j \in Jobs : \E t \in Tasks : futures[t] = j} IN
    /\ js # {} /\ Cancel(js)
    /\ host' = "shutdown" /\ UNCHANGED awaited

Resumed ==
    /\ Idle
    /\ host' = "free" /\ awaited' = {}
    /\ UNCHANGED <<up, crashes, record, file, task, pc, asked, free, out, event, readers>>

StopReturns ==
    /\ host = "stop" /\ \A j \in awaited : pc[j] = "gone"
    /\ Resumed /\ UNCHANGED <<futures, late>>

(* All are over or the timeout passed: it clears the table either way.     *)
ShutdownReturns ==
    /\ host = "shutdown"
    /\ futures' = [t \in Tasks |-> NoJob]
    /\ late' = late \cup {task[j] : j \in {i \in Jobs : Live(i)}}
    /\ Resumed

(***************************************************************************)
(* stream_output.  A set event answers wait_for at once, and nothing in    *)
(* the loop suspends then: the reader keeps the event loop for itself.     *)
(***************************************************************************)
Open(t) ==
    /\ Idle /\ reader[t] = "off"
    /\ reader' = [reader EXCEPT ![t] = "reading"]
    /\ offset' = [offset EXCEPT ![t] = 0]
    /\ UNCHANGED <<up, crashes, record, file, jobs, calls, out, event, stuck, late>>

Over(t) == record[t] \in {"absent"} \cup Terminal \/ event[t] = "none"

Poll(t) ==
    /\ Idle /\ reader[t] = "reading"
    /\ \/ /\ offset[t] < out[t]
          /\ offset' = [offset EXCEPT ![t] = out[t]]
          /\ UNCHANGED <<reader, stuck>>
       \/ /\ offset[t] >= out[t]
          /\ stuck' = (~Over(t) /\ event[t] = "set")
          /\ reader' = [reader EXCEPT ![t] = IF Over(t) THEN "off"
                                            ELSE IF stuck' THEN "reading" ELSE "waiting"]
          /\ UNCHANGED offset
    /\ UNCHANGED <<up, crashes, record, file, jobs, calls, out, event, late>>

(* The event was set, or one second passed.                                *)
Wake(t) ==
    /\ Idle /\ reader[t] = "waiting"
    /\ reader' = [reader EXCEPT ![t] = "reading"]
    /\ UNCHANGED <<up, crashes, record, file, jobs, calls, out, event, offset, stuck, late>>

JobStep(j)    == Enter(j) \/ Dropped(j) \/ Ends(j) \/ Callback(j)
ReaderStep(t) == Poll(t) \/ Wake(t)

Next ==
    \/ Start \/ Crash
    \/ \E t \in Tasks : Submit(t) \/ SubmitUnknown(t) \/ Stop(t)
    \/ \E j \in Jobs : JobStep(j) \/ Chunk(j)
    \/ Shutdown \/ StopReturns \/ ShutdownReturns
    \/ \E t \in Watched : Open(t) \/ ReaderStep(t)

Spec == Init /\ [][Next]_vars

(* The loop runs every ready task and callback; commands end; whoever      *)
(* supervises the process starts it again.                                 *)
FairSpec ==
    /\ Spec
    /\ WF_vars(Start)
    /\ WF_vars(StopReturns) /\ WF_vars(ShutdownReturns)
    /\ \A j \in Jobs : WF_vars(JobStep(j))
    /\ \A t \in Watched : WF_vars(ReaderStep(t))

(***************************************************************************)
(* Properties.                                                             *)
(***************************************************************************)
(* A record says RUNNING exactly while a job executes it, across stops,    *)
(* failures, crashes and restarts: nobody polls a record that no job will  *)
(* ever resolve (start's docstring).  Only two jobs of one id can spoil    *)
(* it, which takes a late one (JobsInReach).                               *)
RecordsMatch ==
    up => \A t \in Tasks \ late : record[t] = "running" <=>
              \E j \in Jobs : task[j] = t /\ pc[j] = "executing"

(* Replaying registry.jsonl gives what the registry holds, but for at most *)
(* one record: whose line went onto the half line a crash left behind.     *)
OneLineLost == up => Cardinality({t \in Tasks : disk[t] # record[t]}) <= 1

(* The record of a task agrees with its job, and the file with the record. *)
(* (TaskRunner._run, FileBackedRegistry)                                   *)
RecordsTrue == RecordsMatch /\ OneLineLost

(* A job in flight is the one its id leads to in _futures, so that stop(),  *)
(* shutdown() and the check against a double run reach it and no id has    *)
(* two.  Two races can break that, and only for the id they happen to: a   *)
(* submission between the end of a job and its callback, which then pops   *)
(* the new job, and a shutdown() that clears the table over a job under    *)
(* way (submit, its done-callback, stop, shutdown).                        *)
JobsInReach == \A j \in Jobs : Live(j) => futures[task[j]] = j \/ task[j] \in late

(* While the process lives and its loop turns, every scheduled job gets    *)
(* its slot, ends and is taken off the table: no way out of a run keeps a  *)
(* slot of the semaphore.                                                  *)
JobsEnd == \A j \in Jobs : pc[j] = "queued" ~> (pc[j] = "gone" \/ stuck \/ ~up)

(* stream_output's comment: the capped wait means that a consumer never    *)
(* hangs.                                                                  *)
ReaderYields == ~stuck
=============================================================================
