---------------------------- MODULE ToolDispatch ----------------------------
(***************************************************************************)
(* Stage 10: the tool calls of one reply, run by one of the four executors *)
(* (stages/s10_tool: executors.py, streaming.py) through the router        *)
(* (routers.py), inside the run's call budget and cancellation scope       *)
(* (host/execution_scope.py).                                              *)
(*                                                                         *)
(* The calls are numbered in the order the model asked for them.  An       *)
(* action is what one task does between two waits.  Which of several calls *)
(* that wait for a slot gets it is left open (asyncio's semaphore is       *)
(* first come, first served), and tools are taken to stop when cancelled.  *)
(* Left out: what the calls carry, the guards that answer a repeated call  *)
(* without running it, hooks' effects and result sizes.                    *)
(***************************************************************************)
EXTENDS Naturals, Sequences, FiniteSets

CONSTANTS
  N,               \* tool calls in the reply
  MaxConcurrency,  \* the executor's max_concurrency
  MaxActive,       \* RunBudget.max_active
  MaxCalls         \* RunBudget.max_calls

ASSUME BoundsAssumption ==
    /\ N \in Nat
    /\ {MaxConcurrency, MaxActive, MaxCalls} \subseteq Nat \ {0}

Calls     == 1..N
Executors == {"sequential", "parallel", "partition", "streaming"}

(* "asking": permissions, approval and hooks.  "running": the tool itself. *)
(* "after": its result is checked.  "raised": the call ended in an         *)
(* exception.  "dead": it was cancelled with the run.                      *)
InFlight == {"asking", "running", "after"}
Ended    == {"answered", "raised", "dead"}

VARIABLES
  executor,     \* the elected strategy
  safe,         \* each tool's concurrency_safe
  scoped,       \* the host bound a CancellationScope
  at,           \* where each call is
  active,       \* RunBudget.active
  calls,        \* RunBudget.calls
  hostSays,     \* what the scope's cancel_check answers
  cancelled,    \* CancellationScope.cancelled
  batch,        \* "open": calls arrive; "running"; "returned"; "raised"
  added,        \* streaming: the calls received
  tasks,        \* streaming: _tasks
  safeQueue,    \* streaming: _safe_queue
  unsafeQueue,  \* streaming: _unsafe_queue
  barrier,      \* streaming: _chain_barrier is set
  stopping      \* the calls whose task has a CancelledError coming

given  == <<executor, safe, scoped>>
budget == <<active, calls>>
scope  == <<hostSays, cancelled>>
online == <<added, tasks, safeQueue, unsafeQueue>>
vars   == <<given, at, budget, scope, batch, online, barrier, stopping>>

Streaming == executor = "streaming"
Busy      == {c \in Calls : at[c] \in InFlight}

TypeOK ==
    /\ executor \in Executors
    /\ safe \in [Calls -> BOOLEAN]
    /\ scoped \in BOOLEAN
    /\ at \in [Calls -> {"waiting"} \cup InFlight \cup Ended]
    /\ active \in Nat
    /\ calls \in Nat
    /\ hostSays \in BOOLEAN
    /\ cancelled \in BOOLEAN
    /\ batch \in {"open", "running", "returned", "raised"}
    /\ added \in 0..N
    /\ tasks \subseteq Calls
    /\ safeQueue \in Seq(Calls)
    /\ unsafeQueue \in Seq(Calls)
    /\ barrier \in BOOLEAN
    /\ stopping \subseteq Calls

Init ==
    /\ executor \in Executors
    /\ safe \in [Calls -> BOOLEAN]
    /\ scoped \in BOOLEAN
    /\ at = [c \in Calls |-> "waiting"]
    /\ active = 0 /\ calls = 0
    /\ hostSays = FALSE /\ cancelled = FALSE
    /\ batch = IF Streaming THEN "open" ELSE "running"
    /\ added = IF Streaming THEN 0 ELSE N
    /\ tasks = {} /\ safeQueue = <<>> /\ unsafeQueue = <<>>
    /\ barrier = FALSE
    /\ stopping = {}

-----------------------------------------------------------------------------
(* One call, whatever runs it.                                             *)

(* CancellationScope.check: a stop, once seen, stays.                      *)
Stopped  == scoped /\ (cancelled \/ hostSays)
CheckSees == cancelled' = (cancelled \/ Stopped)

(* A call ends.  A streaming executor's unsafe call takes the barrier down *)
(* with it when no other unsafe call is queued, however it ends.           *)
EndsBarrierUp(c, how) ==
    /\ at' = [at EXCEPT ![c] = how]
    /\ UNCHANGED barrier

Ends(c, how) ==
    /\ at' = [at EXCEPT ![c] = how]
    /\ barrier' = (barrier /\ ~(Streaming /\ ~safe[c] /\ unsafeQueue = <<>>))

(* The result goes through the scope's checks in the executor, which raise.*)
Answers(c) == Ends(c, IF Stopped THEN "raised" ELSE "answered")

(* RunBudget.release.                                                      *)
Release == active' = active - 1 /\ UNCHANGED calls

(* What lets a call begin: its turn in the executor's order, and a slot.   *)
FreeSlot == Cardinality({c \in Busy : safe[c] \/ executor = "parallel"})
                < MaxConcurrency

Answered(S) == \A c \in S : at[c] = "answered"
Earlier(c)  == 1..(c - 1)
Safe        == {c \in Calls : safe[c]}

(* Calls that only wait for a slot, though they may change something.      *)
TurnOfAnySafe(c) ==
    CASE executor = "sequential" -> batch = "running" /\ Answered(Earlier(c))
      [] executor = "parallel"   -> FreeSlot
      [] executor = "partition"  -> batch = "running" /\ FreeSlot
      [] executor = "streaming"  -> c \in tasks /\ FreeSlot

Turn(c) ==
    CASE executor = "sequential" -> batch = "running" /\ Answered(Earlier(c))
      [] executor = "parallel"   -> FreeSlot
      [] executor = "partition"  -> IF safe[c] THEN FreeSlot
                                    ELSE /\ batch = "running"
                                         /\ Answered(Safe \cup Earlier(c))
      [] executor = "streaming"  -> c \in tasks /\ (safe[c] => FreeSlot)

(* _emit_call_start, then RunBudget.reserve: a full budget answers the     *)
(* call without running it.                                                *)
Begin(c) ==
    /\ at[c] = "waiting"
    /\ c \notin stopping
    /\ Turn(c)
    /\ CheckSees
    /\ \/ /\ Stopped
          /\ Ends(c, "raised")
          /\ UNCHANGED budget
       \/ /\ ~Stopped
          /\ calls >= MaxCalls \/ active >= MaxActive
          /\ Ends(c, "answered")
          /\ UNCHANGED budget
       \/ /\ ~Stopped
          /\ calls < MaxCalls /\ active < MaxActive
          /\ active' = active + 1 /\ calls' = calls + 1
          /\ at' = [at EXCEPT ![c] = "asking"]
          /\ UNCHANGED barrier
    /\ UNCHANGED <<given, hostSays, batch, online, stopping>>

(* A rule, a hook, a human or a stopped scope refuses the call.            *)
Refused(c) ==
    /\ at[c] = "asking"
    /\ c \notin stopping
    /\ CheckSees
    /\ Answers(c)
    /\ Release
    /\ UNCHANGED <<given, hostSays, batch, online, stopping>>

Execute(c) ==
    /\ at[c] = "asking"
    /\ c \notin stopping
    /\ ~Stopped
    /\ at' = [at EXCEPT ![c] = "running"]
    /\ UNCHANGED <<given, budget, scope, batch, online, barrier, stopping>>

(* The tool returns.                                                       *)
ToolReturns(c) ==
    /\ at[c] = "running"
    /\ c \notin stopping
    /\ at' = [at EXCEPT ![c] = "after"]
    /\ UNCHANGED <<given, budget, scope, batch, online, barrier, stopping>>

(* The tool raises or overruns its time limit.  CancellationScope.run, if  *)
(* the host bound one, closes the scope on every exception.                *)
ToolFails(c) ==
    /\ at[c] = "running"
    /\ c \notin stopping
    /\ at' = [at EXCEPT ![c] = "after"]
    /\ cancelled' = (cancelled \/ scoped)
    /\ UNCHANGED <<given, budget, hostSays, batch, online, barrier, stopping>>

(* The scope's poll sees a stop and cancels the tool.                      *)
ToolStopped(c) ==
    /\ at[c] = "running"
    /\ c \notin stopping
    /\ Stopped
    /\ at' = [at EXCEPT ![c] = "after"]
    /\ cancelled' = TRUE
    /\ UNCHANGED <<given, budget, hostSays, batch, online, barrier, stopping>>

(* The result is checked, filtered and stored.                             *)
FinishKeepsSlot(c) ==
    /\ at[c] = "after"
    /\ c \notin stopping
    /\ CheckSees
    /\ Answers(c)
    /\ UNCHANGED <<given, budget, hostSays, batch, online, stopping>>

Finish(c) ==
    /\ at[c] = "after"
    /\ c \notin stopping
    /\ CheckSees
    /\ Answers(c)
    /\ Release
    /\ UNCHANGED <<given, hostSays, batch, online, stopping>>

(* The run's cancellation reaches a call's task.                           *)
Cancelled(c) ==
    /\ c \in stopping
    /\ at[c] \in {"waiting"} \cup InFlight
    /\ stopping' = stopping \ {c}
    /\ Ends(c, "dead")
    /\ IF at[c] = "waiting" THEN UNCHANGED budget ELSE Release
    /\ cancelled' = (cancelled \/ (scoped /\ at[c] = "running"))
    /\ UNCHANGED <<given, hostSays, batch, online>>

-----------------------------------------------------------------------------
(* The streaming executor.                                                 *)

(* add(): a safe call starts at once unless an unsafe one is about; an     *)
(* unsafe one raises the barrier and starts when no task is left.          *)
Add ==
    /\ batch = "open" /\ added < N
    /\ added' = added + 1
    /\ IF safe[added + 1]
         THEN /\ IF barrier
                   THEN /\ safeQueue' = Append(safeQueue, added + 1)
                        /\ UNCHANGED tasks
                   ELSE /\ tasks' = tasks \cup {added + 1}
                        /\ UNCHANGED safeQueue
              /\ UNCHANGED <<unsafeQueue, barrier>>
         ELSE /\ barrier' = TRUE
              /\ IF tasks = {}
                   THEN /\ tasks' = {Head(Append(unsafeQueue, added + 1))}
                        /\ unsafeQueue' = Tail(Append(unsafeQueue, added + 1))
                   ELSE /\ unsafeQueue' = Append(unsafeQueue, added + 1)
                        /\ UNCHANGED tasks
              /\ UNCHANGED safeQueue
    /\ UNCHANGED <<given, at, budget, scope, batch, stopping>>

(* drain() is called.                                                      *)
Drain ==
    /\ batch = "open"
    /\ batch' = "running"
    /\ UNCHANGED <<given, at, budget, scope, online, barrier, stopping>>

(* _advance_queues, once the tasks that ended are taken out.               *)
Advance(left) ==
    IF left = {} /\ unsafeQueue # <<>>
      THEN /\ tasks' = {Head(unsafeQueue)}
           /\ unsafeQueue' = Tail(unsafeQueue)
           /\ UNCHANGED safeQueue
      ELSE IF ~barrier
      THEN /\ tasks' = left \cup {safeQueue[i] : i \in DOMAIN safeQueue}
           /\ safeQueue' = <<>>
           /\ UNCHANGED unsafeQueue
      ELSE /\ tasks' = left
           /\ UNCHANGED <<safeQueue, unsafeQueue>>

(* One turn of drain()'s loop.                                             *)
Reap ==
    /\ Streaming /\ batch = "running"
    /\ tasks # {} \/ safeQueue # <<>> \/ unsafeQueue # <<>>
    /\ LET done == {c \in tasks : at[c] \in Ended}
       IN  /\ tasks = {} \/ done # {}
           /\ Advance(tasks \ done)
    /\ UNCHANGED <<given, at, budget, scope, batch, added, barrier, stopping>>

-----------------------------------------------------------------------------
(* The batch.                                                              *)

(* A gather that takes a call's exception for its result.                  *)
BatchReturnsAnyway ==
    /\ batch = "running"
    /\ IF Streaming
         THEN tasks = {} /\ safeQueue = <<>> /\ unsafeQueue = <<>>
         ELSE \A c \in Calls : at[c] \in Ended
    /\ batch' = "returned"
    /\ UNCHANGED <<given, at, budget, scope, online, barrier, stopping>>

(* Every result is there; drain() makes one up for a call that raised.     *)
BatchReturns ==
    /\ batch = "running"
    /\ IF Streaming
         THEN tasks = {} /\ safeQueue = <<>> /\ unsafeQueue = <<>>
         ELSE Answered(Calls)
    /\ batch' = "returned"
    /\ UNCHANGED <<given, at, budget, scope, online, barrier, stopping>>

(* A call's exception, or the cancellation of all calls, ends the batch.   *)
(* gather() does not stop the calls beside the one that raised.            *)
BatchRaises ==
    /\ ~Streaming /\ batch = "running"
    /\ \/ \E c \in Calls : at[c] = "raised"
       \/ stopping = {} /\ \E c \in Calls : at[c] = "dead"
    /\ batch' = "raised"
    /\ UNCHANGED <<given, at, budget, scope, online, barrier, stopping>>

(* The host cancels the run.  The batch executors' calls are cancelled     *)
(* with it; drain() ends alone.                                            *)
Begun == {c \in Calls : at[c] \in InFlight}
Made  == CASE executor = "parallel"  -> {c \in Calls : at[c] \notin Ended}
           [] executor = "partition" -> {c \in Calls : /\ at[c] \notin Ended
                                                       /\ safe[c] \/ c \in Begun}
           [] OTHER                  -> Begun

HostCancels ==
    /\ batch \in {"open", "running"}
    /\ stopping = {}
    /\ \A c \in Calls : at[c] # "dead"
    /\ IF Streaming \/ Made = {}
         THEN batch' = "raised" /\ UNCHANGED stopping
         ELSE stopping' = Made /\ UNCHANGED batch
    /\ UNCHANGED <<given, at, budget, scope, online, barrier>>

(* The host's own stop: the user cancelled the conversation.               *)
HostStops ==
    /\ ~hostSays
    /\ hostSays' = TRUE
    /\ UNCHANGED <<given, at, budget, cancelled, batch, online, barrier,
                   stopping>>

CallStep(c) ==
    \/ Begin(c) \/ Refused(c) \/ Execute(c) \/ ToolReturns(c) \/ ToolFails(c)
    \/ ToolStopped(c) \/ Finish(c) \/ Cancelled(c)

BatchStep == Add \/ Drain \/ Reap \/ BatchReturns \/ BatchRaises

Next ==
    \/ \E c \in Calls : CallStep(c)
    \/ BatchStep \/ HostCancels \/ HostStops

Spec == Init /\ [][Next]_vars

(* Tools return, raise or run into a limit; the loop runs what is ready.   *)
FairSpec == /\ Spec
            /\ \A c \in 1..N : WF_vars(CallStep(c))
            /\ WF_vars(Reap \/ BatchReturns \/ BatchRaises)

-----------------------------------------------------------------------------
(* Properties.                                                             *)

(* A tool that is not concurrency safe has the run to itself, from the     *)
(* first check to the last; the parallel executor does not look.           *)
(* (_chain_barrier, _advance_queues, PartitionExecutor.execute_all)        *)
UnsafeRunsAlone ==
    executor # "parallel" =>
        \A c, d \in Busy : ~safe[c] => c = d

(* Calls that may change something do so in the order the model asked for. *)
(* (_unsafe_queue, the executors' loops)                                   *)
UnsafeInOrder ==
    executor # "parallel" =>
        \A c, d \in Calls \ Safe :
            c < d /\ at[d] \notin {"waiting", "dead"} => at[c] \in Ended

(* The barrier of a tool that is not concurrency safe: alone and in turn.  *)
(* (_chain_barrier, _advance_queues, PartitionExecutor.execute_all)        *)
UnsafeInTurn == UnsafeRunsAlone /\ UnsafeInOrder

(* The budget counts the calls in flight, however each of them ended, and  *)
(* is never overdrawn.  (RunBudget.reserve, release)                       *)
BudgetExact ==
    /\ active = Cardinality(Busy)
    /\ active <= MaxActive
    /\ calls <= MaxCalls

(* execute_all() and drain() return with every call they were given ended, *)
(* none cancelled: every tool_use has its tool_result.                     *)
EveryCallAnswered ==
    batch = "returned" =>
        \A c \in 1..added :
            at[c] = "answered" \/ (Streaming /\ at[c] = "raised")

(* A batch that ended leaves no tool behind, but for calls beside one that *)
(* raised and for a cancelled drain().  (gather, execute_all)              *)
NothingLeftRunning ==
    (/\ batch \in {"returned", "raised"}
     /\ \A c \in Calls : at[c] # "raised"
     /\ batch = "raised" => ~Streaming)
    => Busy = {}

(* A batch is over as a whole: every call answered, none left at work, but *)
(* for the cases the two parts name.  (execute_all, drain, gather)         *)
BatchWhole == EveryCallAnswered /\ NothingLeftRunning

(* Every batch ends and every tool with it: no call waits for a slot or a  *)
(* barrier nobody gives back.                                              *)
BatchEnds ==
    (batch = "running") ~> (batch \in {"returned", "raised"} /\ Busy = {})

(* errors.py: the router "converts every failure mode into a ToolError": a *)
(* call ends in an exception only when the host stopped the run.           *)
FailureIsAnAnswer ==
    (\E c \in Calls : at[c] = "raised")
        => hostSays \/ \E c \in Calls : at[c] = "dead"
=============================================================================
