---------------------------- MODULE RunLifecycle ----------------------------
(***************************************************************************)
(* The runs of one Pipeline and its teardown (core/pipeline.py): run(),    *)
(* run_stream() with its background task, aclose(), and the operations     *)
(* that are legal between runs only.                                       *)
(*                                                                         *)
(* asyncio runs one task at a time and switches only where a task waits,   *)
(* so an action is what a task does from one wait to the next.  A task     *)
(* that is cancelled gets a CancelledError where it waits; one that has    *)
(* not taken its first step never enters its body, finally included.       *)
(*                                                                         *)
(* A host task that calls run() is taken to end when the call ends.        *)
(***************************************************************************)
EXTENDS Naturals, FiniteSets

CONSTANTS
  Runs,           \* calls of run() and run_stream()
  States,         \* the PipelineStates they are given
  MaxGeneration   \* bound: client swaps

ASSUME RunsAssumption ==
    /\ IsFiniteSet(Runs)
    /\ Runs \cap {"nobody", "host", "tool"} = {}
    /\ MaxGeneration \in Nat

Nobody == "nobody"
Host   == "host"
Tool   == "tool"

(* "emit": pipeline.start is being published.  "error": that failed and a  *)
(* stream yields the error to its consumer.  "spawned": the stream's task  *)
(* has not begun.  "stages": the phases run.  "terminal": the last event   *)
(* is flushed and published.  "tail": the bookkeeping is done, hooks and   *)
(* rollout are flushed.  "lost": the task was cancelled before it began.   *)
Live   == {"emit", "error", "spawned", "stages", "terminal"}
Phases == Live \cup {"none", "tail", "done", "lost"}

VARIABLES
  closed,      \* Pipeline._closed
  resources,   \* MCP servers, tool providers, clients
  closer,      \* who is inside aclose()
  reaping,     \* the runs aclose() has cancelled and awaits
  inFlight,    \* Pipeline._runs_in_flight
  active,      \* the runs whose task is in _active_run_tasks
  inTurn,      \* the states whose _turn_in_flight is set
  generation,  \* the pipeline's client generation
  pc,          \* where each run is
  kind,        \* "run" or "stream"
  st,          \* the state each run was given
  client,      \* the client generation each run started with
  cancelled,   \* the runs whose task has a CancelledError coming
  consumer     \* a stream's consumer: "reading", "sentinel" (in its queue),
               \* or "ended"

pipeline == <<closed, resources, closer, reaping, generation>>
lock     == <<inFlight, active, inTurn>>
given    == <<kind, st>>
vars     == <<pipeline, lock, given, client, pc, cancelled, consumer>>

TypeOK ==
    /\ closed \in BOOLEAN
    /\ resources \in {"up", "down"}
    /\ closer \in Runs \cup {Nobody, Host, Tool}
    /\ reaping \subseteq Runs
    /\ inFlight \in Nat
    /\ active \subseteq Runs
    /\ inTurn \subseteq States
    /\ generation \in 0..MaxGeneration
    /\ pc \in [Runs -> Phases]
    /\ kind \in [Runs -> {"run", "stream"}]
    /\ st \in [Runs -> States]
    /\ client \in [Runs -> 0..MaxGeneration]
    /\ cancelled \subseteq Runs
    /\ consumer \in [Runs -> {"reading", "sentinel", "ended"}]

Init ==
    /\ closed = FALSE
    /\ resources = "up"
    /\ closer = Nobody
    /\ reaping = {}
    /\ inFlight = 0
    /\ active = {}
    /\ inTurn = {}
    /\ generation = 0
    /\ pc = [r \in Runs |-> "none"]
    /\ kind \in [Runs -> {"run", "stream"}]
    /\ st \in [Runs -> States]
    /\ client = [r \in Runs |-> 0]
    /\ cancelled = {}
    /\ consumer = [r \in Runs |-> "reading"]

Goes(r, p) == pc' = [pc EXCEPT ![r] = p]

-----------------------------------------------------------------------------
(* A run.                                                                  *)

(* What a run takes: it is counted (n = 1) before its first wait, its task *)
(* can be cancelled, its state is in a turn, with the current client.      *)
Begin(r, n) ==
    /\ pc[r] = "none"
    /\ ~closed
    /\ inFlight' = inFlight + n
    /\ active' = active \cup {r}
    /\ inTurn' = inTurn \cup {st[r]}
    /\ client' = [client EXCEPT ![r] = generation]
    /\ Goes(r, "emit")
    /\ UNCHANGED <<pipeline, given, cancelled, consumer>>

(* A bug this could have: the run is not counted among those in flight.    *)
StartUncounted(r) == st[r] \notin inTurn /\ Begin(r, 0)

(* run(), or the first step of run_stream()'s generator: a closed pipeline *)
(* and a state already in a turn are refused.                              *)
Start(r) == st[r] \notin inTurn /\ Begin(r, 1)

(* pipeline.start is out: run() goes on, run_stream() makes its task, which*)
(* takes over the generator's place in _active_run_tasks and the duty to   *)
(* count the run down.                                                     *)
Emitted(r) ==
    /\ pc[r] = "emit"
    /\ r \notin cancelled
    /\ Goes(r, IF kind[r] = "run" THEN "stages" ELSE "spawned")
    /\ UNCHANGED <<pipeline, lock, given, client, cancelled, consumer>>

(* A failing audit sink refuses the event.                                 *)
EmitFails(r) ==
    /\ pc[r] = "emit"
    /\ r \notin cancelled
    /\ Goes(r, IF kind[r] = "run" THEN "terminal" ELSE "error")
    /\ UNCHANGED <<pipeline, lock, given, client, cancelled, consumer>>

TaskStarts(r) ==
    /\ pc[r] = "spawned"
    /\ r \notin cancelled
    /\ Goes(r, "stages")
    /\ UNCHANGED <<pipeline, lock, given, client, cancelled, consumer>>

TaskNeverStarts(r) ==
    /\ pc[r] = "spawned"
    /\ r \in cancelled
    /\ Goes(r, "lost")
    /\ UNCHANGED <<pipeline, lock, given, client, cancelled, consumer>>

(* The phases end or raise.  A stage may turn the CancelledError into an   *)
(* error of its own, and the run goes on to report it.  A run that is in   *)
(* aclose() itself waits for it.                                           *)
StagesEnd(r) ==
    /\ pc[r] = "stages"
    /\ closer # r
    /\ Goes(r, "terminal")
    /\ cancelled' = cancelled \ {r}
    /\ UNCHANGED <<pipeline, lock, given, client, consumer>>

(* The last event is out, or the cancellation arrives.  A run inside       *)
(* aclose() waits for it.                                                  *)
Over(r) ==
    /\ \/ pc[r] \in {"terminal", "error"}
       \/ r \in cancelled /\ pc[r] \in {"emit", "stages"}
    /\ closer # r

(* What the finally gives back.  A generator that made no task ends its    *)
(* consumer's loop by itself.                                              *)
Release(r, turns) ==
    /\ inFlight' = inFlight - 1
    /\ inTurn' = inTurn \ turns
    /\ active' = active \ {r}
    /\ cancelled' = cancelled \ {r}
    /\ Goes(r, "tail")
    /\ consumer' = IF kind[r] = "stream" /\ pc[r] \in {"emit", "error"}
                   THEN [consumer EXCEPT ![r] = "ended"] ELSE consumer
    /\ UNCHANGED <<pipeline, given, client>>

(* Bookkeeping that a cancelled run skips.                                 *)
FinishOnlyIfEnded(r) ==
    Over(r) /\ Release(r, IF r \in cancelled THEN {} ELSE {st[r]})

(* The finally of run(), of the stream's task, or of a generator without   *)
(* one, up to its first wait.                                              *)
Finish(r) == Over(r) /\ Release(r, {st[r]})

(* A tail that ends without a sentinel.                                    *)
TailWithoutSentinel(r) ==
    /\ pc[r] = "tail"
    /\ Goes(r, "done")
    /\ cancelled' = cancelled \ {r}
    /\ UNCHANGED <<pipeline, lock, given, client, consumer>>

(* Hooks and rollout are flushed, or a cancellation of run() cuts that     *)
(* short; the stream's task puts the sentinel.                             *)
TailEnds(r) ==
    /\ pc[r] = "tail"
    /\ Goes(r, "done")
    /\ cancelled' = cancelled \ {r}
    /\ consumer' = IF kind[r] = "stream" /\ consumer[r] = "reading"
                   THEN [consumer EXCEPT ![r] = "sentinel"] ELSE consumer
    /\ UNCHANGED <<pipeline, lock, given, client>>

(* The consumer reads the sentinel.                                        *)
StreamEnds(r) ==
    /\ kind[r] = "stream"
    /\ consumer[r] = "sentinel"
    /\ consumer' = [consumer EXCEPT ![r] = "ended"]
    /\ UNCHANGED <<pipeline, lock, given, client, pc, cancelled>>

(* The consumer drops the stream: its task runs on.                        *)
Abandon(r) ==
    /\ kind[r] = "stream"
    /\ consumer[r] = "reading"
    /\ pc[r] \in {"spawned", "stages", "terminal", "tail"}
    /\ consumer' = [consumer EXCEPT ![r] = "ended"]
    /\ UNCHANGED <<pipeline, lock, given, client, pc, cancelled>>

(* The host cancels its own task while it is in run() or in the stream's   *)
(* generator before the task is made.                                      *)
HostCancels(r) ==
    /\ \/ kind[r] = "run" /\ pc[r] \in {"emit", "stages", "terminal", "tail"}
       \/ pc[r] \in {"emit", "error"}
    /\ closer # r
    /\ r \notin cancelled
    /\ cancelled' = cancelled \cup {r}
    /\ UNCHANGED <<pipeline, lock, given, client, pc, consumer>>

-----------------------------------------------------------------------------
(* The pipeline.                                                           *)

(* refresh_runtime and invalidate_client: refused while a run is counted.  *)
SwapClient ==
    /\ inFlight = 0
    /\ generation < MaxGeneration
    /\ generation' = generation + 1
    /\ UNCHANGED <<closed, resources, closer, reaping, lock, given, client, pc,
                   cancelled, consumer>>

(* aclose() up to its wait for the cancelled runs.  The run that calls it  *)
(* from its own task is spared.                                            *)
CloseBy(c, spared) ==
    /\ ~closed
    /\ closed' = TRUE
    /\ closer' = c
    /\ reaping' = active \ spared
    /\ cancelled' = cancelled \cup (active \ spared)
    /\ UNCHANGED <<resources, lock, generation, given, client, pc, consumer>>

HostCloses == CloseBy(Host, {})

RunClosesUnspared(r) ==
    /\ pc[r] = "stages"
    /\ r \notin cancelled
    /\ CloseBy(r, {})

RunCloses(r) ==
    /\ pc[r] = "stages"
    /\ r \notin cancelled
    /\ CloseBy(r, {r})

(* A tool in a task of its own calls aclose(): the run that waits for the  *)
(* tool is not the current task and is cancelled with the others.          *)
ToolCloses(r) ==
    /\ pc[r] = "stages"
    /\ r \notin cancelled
    /\ CloseBy(Tool, {})

(* ... and its cancellation reaches the tool, aclose() with it, which ends *)
(* with its latch set.                                                     *)
CloseCutShort ==
    /\ closer = Tool
    /\ closer' = Nobody
    /\ reaping' = {}
    /\ UNCHANGED <<closed, resources, lock, generation, given, client, pc,
                   cancelled, consumer>>

(* The rest of aclose(): taps, MCP servers, tool providers, clients.       *)
Disconnect ==
    /\ closer \notin {Nobody, Tool}
    /\ active' = active \ reaping
    /\ resources' = "down"
    /\ closer' = Nobody
    /\ reaping' = {}
    /\ UNCHANGED <<closed, inFlight, inTurn, generation, given, client, pc,
                   cancelled, consumer>>

(* An aclose() that does not wait for the runs it cancelled.               *)
TearDownAtOnce == Disconnect

(* The cancelled runs have ended: the resources go.                        *)
TearDown ==
    /\ \A r \in reaping : pc[r] \in {"done", "lost"}
    /\ Disconnect

RunStep(r) ==
    \/ Emitted(r) \/ EmitFails(r) \/ TaskStarts(r) \/ TaskNeverStarts(r)
    \/ StagesEnd(r) \/ Finish(r) \/ TailEnds(r) \/ StreamEnds(r)

Next ==
    \/ \E r \in Runs : \/ Start(r) \/ RunStep(r) \/ Abandon(r)
                       \/ HostCancels(r) \/ RunCloses(r) \/ ToolCloses(r)
    \/ SwapClient \/ HostCloses \/ CloseCutShort \/ TearDown

Spec == Init /\ [][Next]_vars

(* Every stage ends (its calls have timeouts), and the event loop runs     *)
(* what is ready.                                                          *)
FairSpec == /\ Spec
            /\ \A r \in Runs : WF_vars(RunStep(r))
            /\ WF_vars(TearDown) /\ WF_vars(CloseCutShort)

-----------------------------------------------------------------------------
(* Properties.                                                             *)

(* No two runs work on one state: the second would reset the first one's   *)
(* turn under its feet.  (_init_state, _end_turn)                          *)
OneRunPerState ==
    \A q, r \in Runs : pc[q] \in Live /\ pc[r] \in Live /\ st[q] = st[r]
                          => q = r

(* A turn never mixes two clients, whatever is swapped when.               *)
(* (refresh_runtime, invalidate_client, the count around every run)        *)
OneClientPerTurn ==
    \A r \in Runs : pc[r] \in Live => client[r] = generation

(* A run has its state and its client to itself.                           *)
(* (_init_state, refresh_runtime, invalidate_client)                       *)
RunsIsolated == OneRunPerState /\ OneClientPerTurn

(* When no run is under way, no state is refused and no swap is locked     *)
(* out: _end_turn releases "always, on both the success and failure paths".*)
Quiet       == \A r \in Runs : pc[r] \notin Live
NothingHeld == Quiet => inFlight = 0 /\ inTurn = {}

(* What a quiet pipeline still holds, it holds for streams whose task was  *)
(* cancelled before its first step, and for them alone.                    *)
(* (_end_turn, run_stream)                                                 *)
Lost == {r \in Runs : pc[r] = "lost"}
HeldForLostOnly ==
    Quiet => /\ inFlight = Cardinality(Lost)
             /\ inTurn = {st[r] : r \in Lost}

(* The resources are up as long as a stage may use them, but for the run   *)
(* that closes the pipeline itself.  (aclose, _ensure_not_closed)          *)
ResourcesOutliveStages ==
    [][resources' = "down" /\ resources = "up" =>
          \A r \in Runs : pc[r] \in Live => r = closer]_vars

(* A closed pipeline is torn down, unless a tool's own cancellation cut    *)
(* its aclose() short.  (aclose)                                           *)
CutShort       == closed /\ closer = Nobody /\ resources = "up"
CloseTearsDown == closed ~> (resources = "down" \/ CutShort)

(* A consumer that keeps reading is not left waiting, unless the stream's  *)
(* task never began.  (run_stream)                                         *)
StreamsEnd ==
    \A r \in Runs : (kind[r] = "stream" /\ pc[r] # "none")
                        ~> (consumer[r] = "ended" \/ pc[r] = "lost")
=============================================================================
