# TLA+ models of xgen-agent-runtime

The repository runs LLM agents: a *pipeline* of stages is passed through again
and again until the agent's turn is over, on one asyncio event loop, under a
host that may interrupt, extend, cancel or close it at any moment. This
directory models the parts where that concurrency, the budgets and the
durability promises meet, checks them with TLC on small instances, and proves
the central invariants with TLAPS for every instance.

Paths are relative to `src/src/xgen_agent_runtime/` unless they say otherwise.
`PROJECT.json` maps every definition to its source lines.

## 1. The system

| Component | State it keeps | Operations | Talks to |
|---|---|---|---|
| Mid-turn steering, `core/steer.py` | queue, outcome of each message, accepting or not | `offer` (any thread), `take`, `take_or_close`, `close`, `resolve` | the turn's thread, the host's listener |
| Agent loop, `core/pipeline.py` `_run_phases`, `stages/s16_loop`, `core/state.py` | `PipelineState`: iteration, cost, decision, status, stops | pass, turn boundaries, verdicts of four controllers, reviewer, two stops | every stage, the host's turn driver |
| Host turn driver, `host/runner.py` `stream_turn` | slices so far, cancel flag, inbox | run a slice, continue a suspended one, tear down | the agent loop, steering |
| Run lifecycle, `core/pipeline.py` | `_closed`, `_runs_in_flight`, `_active_run_tasks`, `_turn_in_flight` per state, client generation | `run`, `run_stream`, `aclose`, `refresh_runtime`, `invalidate_client` | host tasks, stream consumers, MCP servers, clients |
| Tool dispatch, `stages/s10_tool`, `host/execution_scope.py` | per-call phase, `RunBudget`, `CancellationScope`, streaming queues and barrier | `execute_all`, `add`, `drain`, `reserve`/`release`, `check` | tools, permissions, hooks |
| Rollout recording, `core/rollout_recorder.py` and the ends of a run | bounded queue, writer task, file state | `record_nowait`, `flush`, `shutdown`, the writer's commands | every run of the pipeline, the file system |
| Background tasks, `runtime/` | task records (memory and `registry.jsonl`), table of jobs, semaphore, output files | `start`, `submit`, `stop`, `shutdown`, `stream_output` | executors, readers, cron |
| Cron jobs, `cron/` | the jobs in memory, `jobs.json` and its backup, the daemon's cycle | create, switch, delete, submit what is due, stamp it, write | background tasks, the file system |
| MCP connections, `tools/mcp/manager.py` | the table of servers; per connection a state, a transport and a session | `connect`, `connect_all`, `disconnect`, `disconnect_all`, `enable_server`, `disable_server` | MCP servers, OAuth, teardown |
| Human in the loop, `stages/s15_hitl`, `permission/`, the router of `stages/s10_tool` | futures of pending requests, rows of the approval store | decide, ask, `resume`, time out, consume, execute | the host's UI, hooks, tool dispatch, teardown |
| Context and compaction, `stages/s02_context`, `s04_guard`, `core/compaction.py`, the recorders of `s18_memory` and the host | message history, watermarks into it, background summary, counters | summarise, swap in, reconcile, record | the model, memory |
| Model call stage, `stages/s06_api`, `s07_token` | attempts, what was shown, the internal loop's rounds, usage | call, retry, restart a stream, recover an overflow, answer tool calls, bill | LLM clients, tools, the host's boundary |
| Other stages, persistence, memory, host services, LLM clients, hooks, events, configuration, tools and skills, gateway, history | see the components in `PROJECT.json` | | |

What is hard in it:

* **Interleavings.** asyncio switches tasks wherever one waits, so state read
  before an `await` is stale after it; steering and host cancellation come from
  other threads.
* **Cancellation.** A `CancelledError` arrives where a task waits; a task that
  has not begun never enters its `try`, so neither its `except` nor its
  `finally` runs; one that arrives while a failure is being cleaned up ends the
  clean-up. Several of the divergences below come from this.
* **Budgets.** Iterations, cost, tokens, tool calls, active calls and reviewer
  rounds bound each other; what is continued or retried must not start afresh.
* **Stale positions.** Watermarks and background results point into a history
  that five different places rewrite.
* **Durability.** A run is only reported complete when its audit trail is on the
  disk; a task registry must survive a process that dies in the middle of a line,
  a job store one that dies between two renames.

What makes each component correct is stated by the properties of section 4;
`hazards` in `PROJECT.json` lists, line by line, what could go wrong.

## 2. The modules

| Module | Models | Run(s) | Proofs |
|---|---|---|---|
| `SteerContract` | what a host may rely on when it steers a turn | (refined by the next) | |
| `SteerInbox`, `MCSteerInbox` | the inbox, the turn's thread, the host's threads | `steer_contract` | `ConversationProofs` |
| `TurnLoop`, `MCTurnLoop` | agent loop, controllers, stops, continuation | `turn_loop` | `TurnLoopProofs` |
| `RunLifecycle`, `MCRunLifecycle` | runs, streams, client swaps, `aclose` | `run_lifecycle` | `RunLifecycleProofs` |
| `ModelCall` | one execution of stage 6 and its accounting | `model_call` | `CallAndTrailProofs` |
| `ToolDispatch` | four executors, budget, cancellation scope | `tool_dispatch` | `ToolDispatchProofs` |
| `Approvals` | a tool call's permission, its human, the stage-15 gate | `approvals` | `ApprovalsProofs` |
| `Compaction` | the history, its summaries, the recorders that read it | `compaction` | `ConversationProofs` |
| `MCPManager` | the table of servers and their connections | `mcp` | `JobsAndServersProofs` |
| `RolloutRecorder` | queue, writer and file; no behaviour of its own | (through the next) | |
| `RunRollout`, `MCRunRollout` | the ends of runs over `RolloutRecorder` | `rollout` | `CallAndTrailProofs` |
| `BackgroundTasks` | runner, registry file, crashes, readers | `background_tasks` | `BackgroundTasksProofs` |
| `CronJobs`, `MCCronJobs` | daemon and job store, crashes between renames | `cron`, `jobs_lost` | `JobsAndServersProofs` |

The MC modules only name model values and choose configurations. A module whose
constants a `.cfg` can write down has none. A definition whose comment starts
with "A bug this could have" is a deliberately broken form of the definition
that follows it; no specification uses it, and `PROJECT.json` lists which
property it breaks.

An action is what one task does between two waits: that is the grain at which
asyncio interleaves, so nothing finer can be observed on one loop. Threads
(steering) are interleaved at the grain of the lock they take.

### SteerInbox

`queue`, `open`, `outcome`, `notified` are the inbox's fields; `pc`, `held` and
`left` are where the turn's thread is in `_take_steer` and in the teardown;
`convo` is the conversation. `Offer` and `RequestStop` are the host's threads;
the turn's are its passes (`Pass`, `Abort`, `AtBoundary`, `NextPass`), its two
ways of taking (`TakeQueued`, `TakeOrClose`, or `LeaveQueued`), what becomes of
each message in its hand (`DeliverOne`, `DeliverRaises`, `RejectOne`), and the
teardown (`CloseReturns`, `SliceEnds`, `HostCloses`). `raises` chooses a host
whose listener raises, in which case the notification is cut short as in the
code. `SteerContract` is the abstract specification: accept, deliver the oldest,
shut, send the rest back. It keeps the accepted messages and their outcomes; the
mapping only names `open` what the contract calls `accepting`, so that the queue,
the hand of the turn and the list of those sent back stay out of sight.

### TurnLoop

`s` is the part of `PipelineState` that survives from pass to pass. Each
strategy of the loop stage is an operator from one such record to the next, as
it is in the code. One pass is `Stages` (the model's call, its tools, what a
human says of them), `LoopStage` (controller, stops, reviewer) and `Boundary`
(limits in the code's order, steering), with the model's reply, the prices and
the token counts as inputs; `RunFails` and `Cancel` may cut it short and
`Finalize` ends a slice. `HostContinues` and `HostEnds` are `stream_turn`'s.
Left out: the wall clock dimension (it suspends exactly like the iteration
dimension), `early_stop_on`, and stages that do not touch these fields.

### RunLifecycle

`pc` holds where each run's task is, `cancelled` the tasks with a
`CancelledError` on its way, `closer` and `reaping` the progress of `aclose()`.
A tool may itself call `aclose()`. A client swap is allowed where the code
allows it, between turns.

### ToolDispatch

`at` is where each call is, from its reservation to its result; `Turn`,
`Advance`, `Reap` and `BatchReturns` are what the sequential, parallel,
partitioning and streaming executors each do with them. Refusals by permissions,
approval, hooks and the budget are one action, because they differ only in text.

### RolloutRecorder and RunRollout

The file is a stack: lines pending in the recorder, in Python's buffer, in the
operating system, on the disk. An open, a flush or an fsync may fail during a
bounded number of commands (`MaxFaults`). `RunRollout` adds the terminal
protocol of runs: record, flush, then publish. A run may be cancelled in its
stages or at any of its flushes (`CancelRun`, `GiveUp`), whose command then stays in
the queue (`Barrier` is the call that puts it there). Left out: `record()`, which no run uses, torn lines, a cancelled
shutdown.

### BackgroundTasks

`record` is the registry's cache and `disk` what replaying `registry.jsonl`
gives, so a line is one assignment and half a line (`torn`) is an append that
eats the next one. `pc` holds where each scheduled job is, `futures` the table
the runner finds it through, and `free` the semaphore. `Dropped` is the
cancellation that arrives before the slot, outside the `try`; `Callback` is the
done-callback, which pops by id; `late` remembers the ids for which it came too
late, and those a `shutdown()` returned over. `reader` follows a task's output; `stuck` is the
state in which it no longer gives the event loop back.

### ModelCall

`attempt`, `timeouts` and `recovered` are the retry wrapper's; `calls` and
`waited` count what the provider has seen of one request. A request is `Call`,
then any number of `Chunk` and perhaps `MessageComplete`, then `TimesOut`,
`Fails`, `TooLong` or `Reply`; `Wake` and `Recovers` lead to the next attempt.
`screen` is what a consumer shows that heeds `api.stream_restart`, `said` what
the present attempt has said. `StartTool`, `EndTool`, `Commit` and
`NextRequest` are the internal loop's round; `Abort` and `Raises` bill what it
consumed, `Track` is stage 7 on the reply that is returned. A command-line
client runs its tools itself, so its reply has no calls.

### Approvals

A tool call carries a version of its arguments; a hook (`PreHook`) replaces
them, and whoever holds a reference may change them at any wait (`Edited`). The
call is decided on (`Dispatch`, `Decides`), may be asked about (`AskHook`,
`Issues`), answered (`AskAnswered`, `MandatoryAnswered`) and executed
(`Executes`, behind the comparison of digests). A gate of stage 15 asks
(`GateAsks`), is answered or times out (`TimerFires`) under its policy. `Resume`
and `CancelPending` are the host's, `Close` is teardown: a future is resolved
first and its waiter runs later, which is where an answer and a timer meet.

### Compaction

A message is an identity and the set of messages it stands for; a checkpoint
stands for all it replaced. `Trim`, `Collect`, `Decide`, `Guard`, `Overflow`
and `InnerRound` are the places that may rewrite the history, `BackgroundEnds`
the task that computes a summary meanwhile and `Collect` the place that swaps it
in, if it still fits. Every rewrite moves each recorder's watermark (`Translate`)
and sets aside what it has not recorded yet (`Unrecorded`). `Trim` is the context
strategy of stage 2 (`BuildContext`): the default one keeps the list, the hybrid
one its newest messages, progressive disclosure the first and the newest with a
marker between; the last two move no watermark. An attempt at a summary
(`Attempt`) asks the model once or twice (`MaxAsks`). `RecordTurns` and `Archive`
are the two recorders, whose batch may fail or be cut short.

### MCPManager

Caller and server name the task that works, the connection it makes and the
transport it opens. `running` keeps the other tasks out between two waits, so an
await is where another call may look at the table; the manager has no lock. A
connection is dialled (`Dial`, `Opens`, `Initializes`, `Lists`), cleaned up
(`LeaveSession`, `LeaveTransport`, `SessionExits`, `TransportExits`) for one of
three reasons, and cancelled at any wait (`HostCancels`, `Interrupted`).
`Overlap` chooses whether two calls may work on one server at once.

### CronJobs

A schedule is a period. A write is `MoveAway` and `MoveInto`, the two renames of
`_flush`; the process may die at any step (`Crash`), a write or a submission may
fail (`WriteFails`, `Submit`). The daemon's cycle lists the enabled jobs
(`Wake`), passes over those that are not due (`Skip`), submits (`Submit`) and
stamps (`Stamp`). `promised` is what the tools were told of each job, `fired`
what the runner was given of it. Left out: `tick_once` (`cron/runner.py:76`,
"Useful for tests"), which only tests call. It runs the daemon's cycle in the
caller's task: a host that called it beside the daemon could have one time served
by both, which `FiresOnce` does not cover.

## 3. Runs, bounds, fairness

| Run | Instance | Why it is enough |
|---|---|---|
| `steer_contract` | 3 messages, with and without a raising listener | one queued, one held, one late: every place a message can be at once |
| `turn_loop` | 10 configurations, 2 turns, 2-3 iterations, 1 continuation, 1 steer, prices 0 or 1, size 1 | each controller, stop and stage is on in one configuration, the token limits fall in the first and in the second pass; a second turn shows what the first left behind |
| `run_lifecycle` | 2 runs, 2 states, 2 swaps, one close | a conflict needs two runs; the third client shows a swap behind a swap |
| `model_call` | 2 retries, 1 timeout retry, 2 rounds, 2 calls in a reply | a retry behind a retry, a third reply behind two recorded rounds, one tool at work beside one that waits |
| `tool_dispatch` | 3 calls, 2 slots, budget 2 active, 3 in all | one running, one queued behind it and one behind the barrier |
| `approvals` | 1 tool call with 3 versions of its arguments, 1 gate, 2 answers | arguments that change twice: before the decision and behind it; the gate and the call share only `Close` |
| `compaction` | the three context strategies, 5 messages, 2 turns, 2 attempts, 1 fault, 1 preloaded message | a summary of a summary, and one that is swapped in a turn later |
| `mcp` | 2 servers, 2 calls, 1 cancellation, calls that do not overlap on a server | one server connected while the other fails, is cancelled or never opens; a call behind a call |
| `rollout` | 2 runs of which one may be cancelled, queue of 1, one command that meets faults | a full queue with a waiting caller, and another run's flush behind it |
| `background_tasks` | 2 ids, 1 slot, 2 jobs per process, 2 crashes, 1 reader | a resubmission over a job whose callback is due, a queue, a tear behind a tear |
| `cron` | 2 jobs of periods 1 and 2, clock to 3, 3 calls, 1 fault | a due job behind another, a missed time, a write over a write |
| `jobs_lost` | the same, clock to 1, 2 calls | one write behind another is enough |

The models of sequential work and of services that may be idle allow deadlock
(`CHECK_DEADLOCK FALSE`): a session, a batch or a recorder may be finished, and
a stuck reader really stops its process. In `Approvals` and `MCPManager` the end
of the work is an action (`Rest`) and deadlock is checked: a call that waits for
ever on a server that never opens its transport, or a request nobody answers, is
not taken for an end.

Fairness, always weak unless said otherwise, and why the code justifies it:

* a task that can take a step takes it: asyncio runs every ready task (each run,
  each tool call, each job, the rollout writer, the stream consumer that reads);
* `TurnLoop`: the turn's own steps only; the model and the human do answer, the
  host need not start a turn;
* `SteerInbox`: the turn is fair, and strongly fair to end its slice (a loop
  bounded by `max_iterations`, see `TurnLoop`); hosts need not send anything;
* `ToolDispatch` and `BackgroundTasks`: a tool and a command end, by their own
  timeouts; nobody need cancel. A process that died is started again by whoever
  supervises it;
* `Approvals`: hooks return and timers fire; nobody has to answer a request;
* `MCPManager`: a transport may open or not; every later wait ends, by an answer
  or by its timeout;
* `CronJobs`: the daemon's own steps, as long as its process lives;
* `ModelCall` and `Compaction` have safety properties only and state none.

## 4. What the runs show

* `steer_contract`: whatever the order of offers, stops, aborts and
  continuations, a message is delivered in the order of acceptance or sent back,
  told exactly once, never both, never forgotten while no listener raises; the
  inbox implements `SteerContract`.
* `turn_loop`: calls per turn are bounded over continuations and the cost budget
  is overrun by at most one call per slice (`LimitsHold`); each price is counted
  once (`SessionCostExact`); a stop gives the model its final report first, a
  completed turn has no unread tool results and the status told to the host
  agrees with the verdict (`OutcomeIsTrue`); a stop is final (`StopIsFinal`) and
  every turn ends (`TurnEnds`).
* `run_lifecycle`: two runs never share a state and no turn mixes two clients
  (`RunsIsolated`), resources go down only behind the last stage, a closed
  pipeline is torn down, a stream's reader is not left waiting, and nothing stays
  held but by tasks that were cancelled before they began (`HeldForLostOnly`).
* `model_call`: a consumer that heeds the restarts shows what is recorded
  (`ShownIsRecorded`); however the stage ends, every reply but the one in hand is
  billed once (`BilledOnce`), and the tools of earlier replies have run once and
  are in the messages (`WorkKept`).
* `tool_dispatch`: an unsafe call is alone and in the order asked for, in every
  executor but the parallel one (`UnsafeInTurn`); the budget counts exactly the
  calls in flight however they end (`BudgetExact`); a batch that returns has an
  answer for each call and leaves nothing running, but for the two cases its
  comment names (`BatchWhole`); every batch ends.
* `approvals`: a tool runs with the arguments that were allowed, whoever changes
  them in between (`RunsAsPermitted`); a refusal is not overtaken by a timer, a
  retry or a store that fails (`NoStaysNo`); `aclose` leaves nothing waiting
  (`ClosedReleases`).
* `compaction`, with any context strategy: all places together stay within the
  turn's allowance of summaries (`SummariesBounded`), in model calls, and a late
  summary brings nothing into the history that was not said (`EverythingInView`).
  With all but progressive disclosure no recorder records what nobody said, twice
  or out of order (`FaithfulRecord`). With the default one no recorder forgets a
  message (`NothingForgotten`) and the history stands for everything that was
  said: a late summary never replaces messages it was not made of. The other two
  cut the list under the recorders, two divergences below.
* `mcp`: of calls that do not overlap on a server, each leaves one open transport
  for a connected server and none otherwise (`OneTransportEach`); `connect_all`
  is all or nothing (`AllOrNothing`) and fails fast (`FailsFast`). A transport
  whose clean-up was itself cancelled is the named exception.
* `rollout`: completion waits for the disk unless a `close()` dropped its buffer;
  the trail has neither gap nor duplicate; every run ends, whatever the writer
  meets.
* `background_tasks`: a record says RUNNING exactly while a job runs it, over
  crashes and restarts, and the file lacks at most one record (`RecordsTrue`); the
  table leads `stop()` and `submit()` to the one live job of each id, but for the
  ids in `late` (`JobsInReach`); every job ends and returns its slot.
* `cron`: no time is served twice and an outage is not caught up on fire by fire
  (`FiresOnce`); a write keeps what it was told unless the process dies between
  its renames (`JobsKeptUnlessCut`); a due job is served, whatever fails
  (`DueIsServed`).

One run expects a violation, a disagreement between the code and what the
repository says of it:

* `jobs_lost`: `_flush` renames `jobs.json` to its backup and then the new file
  into its place, "atomic" by its docstring; a process that dies between the two
  leaves no `jobs.json`, loading does not look at the backup, and every job is
  gone.

Nine more configurations of the same modules check a claim of a doc or a comment
that the code does not keep; TLC refutes each of them, and its counterexample is
the shortest account:

| Configuration | Claim | What happens |
|---|---|---|
| `TurnLoopStopNotFinal.cfg` (`MCTurnLoop`) | `StopIsFinal` | a controller that suspends in the pass in which a stop ends the turn leaves the run resumable, and the host continues the stopped turn (`stages/s16_loop/artifact/default/stage.py:201` against `turn_budget.py:17`) |
| `RunLifecycleEarly.cfg` (`MCRunLifecycle`) | `NothingHeld` | `aclose()` before the first step of a stream's task: its `finally` never runs, the count of runs and the state stay taken (`core/pipeline.py:2694` against 2606 and 3420) |
| `ToolDispatchFailure.cfg` | `FailureIsAnAnswer` | behind a host's cancellation scope a tool that raises closes the scope, so its call and all later ones end in exceptions (`host/execution_scope.py:308` against `tools/errors.py:3`) |
| `RunRolloutLost.cfg` (`MCRunRollout`) | `CompleteIsDurable` | a flush whose retry cannot close the file forgets lines it counted as written; a later flush succeeds over the gap (`core/rollout_recorder.py:90` against 123) |
| `BackgroundTasksReader.cfg` | `ReaderYields` | a reader of an id that ended once and was submitted again finds the old event set and polls without ever suspending (`runtime/tasks.py:623` against 381) |
| `MCPManagerDisabled.cfg` | `DisabledStays` | a server that is disabled while `enable_server` still connects ends CONNECTED (`tools/mcp/manager.py:872` against `state.py:75`) |
| `ApprovalsVerdict.cfg` | `VerdictHonoured` | a verdict that arrives in the tick in which the gate's timer fires is accepted and lost (`s15_hitl` stage 172 against `core/pipeline.py:2958`) |
| `CompactionHybrid.cfg` | `NoneLost` | the hybrid context strategy trims the history and moves no watermark: stage 18 then records from a stale index (`s02_context` strategies 73 against `core/compaction.py:97`) |
| `CompactionDisclosure.cfg` | `OnlyWhatWasSaid` | progressive disclosure puts a marker into the list and moves no watermark: what is behind the mark shifts, so stage 18 records a message again, or the marker as the user's words (`s02_context` strategies 134 against `core/compaction.py:31`: "Synthetic summary messages are never recorded as if the user had said them") |

Divergences met while modelling and not given a configuration of their own:

* `core/pipeline.py:3161`: a message steered in at the moment of "complete"
  prolongs the loop, and if the limit is reached then (3140) the turn ends with
  the message taken and unanswered.
* `core/pipeline.py:3164`: the iteration limit is tested before the cost limit,
  so a slice with its budget spent may end suspended and be continued.
* `controllers.py:108` in `stages/s16_loop`: `max_turns` of the standard
  controller is never reached while the tool stage decides first (92); at 782 the
  multi-dimensional one returns CONTINUE on token pressure and hides a tool cap
  listed behind it (496).
* `core/pipeline.py:1117`: `aclose()` from a tool in a task of its own waits for
  the run that waits for the tool.
* `stages/s10_tool/streaming.py`: a safe call queued behind the barrier runs
  after a later unsafe one.
* `core/pipeline.py:2881`: a subscriber sees `pipeline.complete` and then
  `pipeline.error` when the flush fails.
* `core/pipeline.py:2535`: a run cancelled once more, in the flush of its
  `finally`, is never released: its recorder and its failure stay in the
  pipeline's tables (2879).
* `runtime/task_runner.py:60`: "Pending tasks transition to CANCELLED"; a task
  cancelled before it has its slot stays PENDING (`Dropped`), and after a crash
  `start()` looks at RUNNING records only. Also 113: the callback can pop a later
  job of the same id, after which a third submission runs the id twice.
* `host/runner.py:1736`: the host discards the parts of a call at
  `api.stream_restart`, but neither what it collected as output nor what it has
  yielded, against `s06_api` stage 1075 ("consumers must DISCARD").
  `ShownIsRecorded` is about a consumer that does as asked.
* `host/runner.py:1729`: the mark of what memory has to keep is taken when the
  request event is handled, not when it is sent; a compaction in between moves it.
* `s06_api/artifact/default/tool_loop.py:447`: usage of replies the loop consumed
  before it failed reaches `token_usage`, not the turn's own account or its cost.
* `llm_client/cli_trajectory.py:24`: a trajectory "reset per attempt" is not
  reset by a new turn; one a failed call left would stand in for the next answer.
* `permission/matrix.py:66`: the docstring lets BYPASS pass everything, 108 keeps
  the mandatory rules in force; `routers.py:377` of `s10_tool` does not evaluate
  PLAN mode when there are no rules and the posture allows.
* `tools/mcp/manager.py:444`: a cancellation during a clean-up is passed on
  before the transport is left, which stays open.
* `cron/runner.py:127`: a submission that fails is stamped like one that
  succeeded, so that time is lost; a job deleted between the list and its turn is
  still submitted once; `start()` during a shutdown does nothing.

## 5. What is proved

TLC's answers hold for the instances above; these theorems hold for all values
of the constants. The listed assumptions are the named `ASSUME`s of each module
(finite sets of runs, natural bounds).

* `ConversationProofs`, its first part on `SteerInbox`, from its constants alone:
  types, one outcome per accepted message, conservation, finality, order. The invariant ties the
  position of each message (queue, hand of the turn, list of those sent back,
  conversation) to its outcome and its notification (`PlaceInv`, `ListInv`,
  `AnswerInv`, `NotifyInv`); "every message has one outcome at the end" is not
  inductive without knowing where an unanswered one still is (`SafeInv`), and
  order needs the queue to be the rest of the accepted list (`OrderInv`). Where
  a listener may raise, that is not enough: `PositionInv` says at each step of the
  turn which messages it can be holding, from which follow that no outcome is a
  lie and the refinement: every step of the inbox is one of `SteerContract`'s
  actions or leaves its variables alone (`KeepsContract`).
* `ConversationProofs`, its second part on `Compaction` (nothing is shared with the
  first): types and its four properties, for any number of messages, turns,
  faults and attempts, any cap and the three strategies. The key is what a recorder has
  ahead of it: the records put aside, then the history behind its watermark. Any
  rewriting of the history leaves that sequence as it was but for what the cap
  drops (`ReconcileKeeps`, `CappedAhead`), whatever the rewriting did: the longest
  common suffix of the old and the new history exists (`KeptSuffixIs`, by
  well-founded induction on finite sets) and the watermark is on one of its sides.
  So all 14 actions do one of six things to a recorder (`StepEffects`): nothing,
  rewrite, hear a message, trim, disclose, record. Under progressive disclosure
  nothing is claimed of what a recorder stores. The invariant (`RecordsInv`) says that
  what is ahead is in order and later than what is stored; it holds of a recorder
  that was not interrupted, also where a trim left its watermark beyond the list.
  `EverythingInView` needs that a finished summary stands for what it was made of
  (`BackgroundInv`), `SummariesBounded` that the model calls a turn pays for
  are at most two for each of its attempts (`BudgetInv`). The text of a summary is not modelled: that a checkpoint
  *stands for* a message says only that the message was given to its writer.
* `TurnLoopProofs`: types, bounded calls, exact cost, bounded overspending,
  reported stops, read results. The bound on calls per turn needs the bound on
  the calls of the present slice (`Counting`); overspending needs that a late
  call is followed by the end of its slice (`Costs`, `Overspend`); `StopSound`
  and `Unread` carry the report owed and the results not yet read. `End` follows
  the marks a stop leaves from the pass that sets them to the host (`EndMarks`,
  `EndStops`): with it the status the host is told is the last verdict's, and no
  model call follows a stop. These two hold under a hypothesis on the
  configurations: a controller with stops does not suspend a slice by itself
  (`NeverResumed`) nor, for the status, escalate (`NeverBlocked`). Without it they
  are false, the divergence of `TurnLoopStopNotFinal.cfg`; the theorems say that
  nothing else breaks them. What the multi-dimensional controller decides is that
  of the first limit hit, which exists (`Least`).
* `RunLifecycleProofs`: types, one run per state, one client per turn, resources
  last. The invariant says that the count is the number of holders and the taken
  states are theirs (`Counted`, `Owned`), and that `aclose()` has every live run
  in sight (`Watched`). What stays held when nothing is under way is then that of
  the lost runs (`HeldForLostOnly`).
* `CallAndTrailProofs`, its first part on `ModelCall`: types, what is shown, what
  is billed, what has run, and the number of calls and silences of a request:
  every property of `ModelCall`, for any number of retries, rounds and calls in a
  reply. The invariant has a part
  for each. Attempts are counted from the first call or from the recovery
  (`RetryInv`); the screen is empty wherever an attempt is about to start, which
  needs that nothing was shown unless the latch says so (`ScreenInv`); nothing is
  billed before the end, and all replies but the one in hand are consumed
  (`LedgerInv`, without which the ledger's bound of two would not hold either);
  a call that ran is recorded or of the round in hand (`ToolInv`).
* `CallAndTrailProofs`, its second part on `RunRollout` (two parts share a module,
  not a fact): types, the trail and the durability of what is published, for any
  runs, queue size, and number of faults and events. The file first, as a pure
  stack of lines: however an open, write, flush, fsync or close fails, no line of
  a batch is lost or repeated (`Tidy`, `Content`; `AttemptKeeps`, `WriteKeeps`), and
  only a close that fails once more drops any. Then the queue: each accepted
  record is on the stack or at one place of the queue, in order (`Placed`).
  Each step does one of five things to that (`TrailEffects`), so the trail's
  invariance is five cases. A run that still records has recorded all it emitted
  (`AllRecorded`), hence no gap. Durability is about order in the queue: a flush
  that is asked for has every record of its run in front of it (`Behind`), each
  task has one flush at most (`OneFlush`), and one that is answered without error
  found all of them on the disk (`FlushSays`).
* `ToolDispatchProofs`: types, the budget, the order and the solitude of unsafe
  calls, and what a batch leaves, for any number of calls, any limits and the
  four executors. A sequential or partitioned call that has begun has everything
  in front of it answered (`TurnInv`); in the streaming executor every call is at
  work, queued or ended, a queued unsafe call means the barrier is up, and an
  unsafe call at work is the only task (`StreamInv`). `BatchWhole` needs to know
  of a cancelled batch that what is at work is being cancelled and what waits can
  never begin, because something in front of it never answers (`StopInv`), and
  what each executor has empty when it returns (`OverInv`).
* `ApprovalsProofs`: types, the arguments a tool runs with, and that a refusal
  stands, for any set of calls and gates, any permission matrix and any number of
  versions and answers. The invariant says what each place a call can be at has
  been asked and answered, in terms of the digest it was asked with (`CallOk`),
  and that what a human said of a request is what its waiter will read, a timer
  under "auto_approve" excepted (`HumanOk`).
* `JobsAndServersProofs`, its first part on `CronJobs`: types, what the store keeps
  and that no time is served twice, for any jobs, schedules and number of crashes and failures. Until a write was
  cut in two, the cache and the file a restart would load both say what was
  promised (`Kept`); a submission is behind its job's stamp unless the stamp is
  still to be made or was lost (`Stamped`), also as the cycle has listed it
  (`Listed`), and the next fire is later than the stamp it is computed from
  (`Later`, the one fact of arithmetic on remainders).
* `JobsAndServersProofs`, its second part on `MCPManager`: types, whatever calls
  overlap; and, under the hypothesis `~Overlap`, one transport for each connected
  server and `connect_all`'s all or nothing, for any servers, callers and
  cancellations. The hypothesis says that a host makes one call at a time on a
  server and `connect_all` and `disconnect_all` alone; nothing in the manager sees
  to it (`tools/mcp/manager.py:872`, `MCPManagerDisabled.cfg`). A name that no task
  works on is in order: its table entry and its open transport agree (`InOrder`).
  A task that works says by its place how far its name has got (`TaskInv`), and a
  task between its calls answers for it too (`Local`). A step of a task is a step on
  its own name (`Touches`, `LocalStep`, one lemma per action), so the whole table
  follows (`NamesStep`) once calls are known to keep off each other's servers
  (`CallInv`, `ApartInv`). `AllOrNothing` needs in addition what a `connect_all` has
  connected so far, and that it drops all there is (`GatherInv`, `DropInv`). Under
  the same hypothesis a disabled server stays disabled until it is enabled
  (`DisabledStaysAlways`): the connection a task works on is not muted, and one it
  has yet to make is nobody's (`MutedInv`). No run checks `DisabledStays`; it is what
  `MCPManagerDisabled.cfg` refutes without the hypothesis.
* `BackgroundTasksProofs`: types, records against jobs, the way from an id to its
  live job, one live job per id, and the file, the last three but for the ids in
  `late`. The records match (`RecordsMatch`) only together with `JobsInReach` and
  `Alone`, one job per id from its submission to its callback: otherwise one of
  two jobs of an id could end under the other. The bound on slots needs their sum
  (`Slots`); `OneLineLost` needs that half a line exists only while cache and file
  agree (`FileInv`).

Each proof has one lemma per action or group of actions, then an invariance
lemma, then one theorem per property.

`AttemptsBounded` of `ModelCall` and several parts of the checked conjunctions are
theorems of their own; the runs check what is left.

Only model-checked: the liveness properties (`EveryMessageAnswered`, `TurnEnds`,
`CloseTearsDown`, `StreamsEnd`, `BatchEnds`, `RunsEnd`, `JobsEnd`, `ClosedReleases`,
`FailsFast`, `DueIsServed`), since the prover has no support for fairness and
ENABLED. Every safety property a passing run checks is a theorem, with the
hypotheses named above where it has any. No module with a theorem uses a RECURSIVE
operator.

## 6. Not modelled, and the plan

Not modelled at all: the components with that status in `PROJECT.json`, each with
its reason. Wire formats, prompts, file tools, settings and queries have no
protocol a model would say more about than a test.

In the order of their weight for the system:

1. `LoopLock` (`memory/_locks.py`): a lock that outlives event loops and a waiter
   that is cancelled while its thread waits. `VectorIndex`: two files and a crash.
2. The missing operations of the modelled components, which `PROJECT.json` names
   in their notes: the pruning inside messages and the repair of unpaired calls,
   the in-memory registry.
3. `Sessions` (`session/`, `stages/s20_persist`): checkpoints against a turn that
   is interrupted.
4. Composition: `ModelCall` as an implementation of the single step `TurnLoop`
   takes its outcome from, `CronJobs` over `BackgroundTasks`.
