------------------------------ MODULE TurnLoop ------------------------------
(***************************************************************************)
(* One user turn: the agent loop of core/pipeline.py (_run_phases), the    *)
(* loop stage that decides after every pass (stages/s16_loop), and the     *)
(* host that continues a suspended slice (host/runner.py, stream_turn).    *)
(*                                                                         *)
(* A turn is a series of slices, a slice a series of passes over the       *)
(* stages, a pass one model call with the tools it asks for.  The record s *)
(* is the PipelineState that a session reuses from turn to turn; the       *)
(* strategies are operators from one such record to the next, as they are  *)
(* in the code.  What the model answers, what its tools do, what a call    *)
(* costs and what the human says are inputs.                               *)
(*                                                                         *)
(* Left out: the stages between the model call and the loop stage that do  *)
(* not touch these fields, the text of the notes, events and hooks, and    *)
(* the completion signals set together with a verdict (they only name the  *)
(* reason in the loop event; the next reply overwrites them).              *)
(***************************************************************************)
EXTENDS Naturals, Sequences, FiniteSets

CONSTANTS
  Configs,           \* the pipeline configurations a session may have
  MaxContinuations,  \* stream_turn's max_continuation_slices
  Prices,            \* what one model call may cost
  Sizes,             \* how many input tokens one model call may process
  MaxSessionTurns,   \* bound: turns on one state
  MaxSteers          \* bound: mid-turn messages in one turn

Controllers == {"standard", "single_turn", "budget_aware", "multi_dim_budget"}
Dimensions  == {"iteration", "cost", "tokens", "tool_calls"}

(* maxTurns, costBudget, stopAfter, hardTokens, toolCap: 0 when not set.   *)
(* costStop is the cost at which the controllers' ratio of the budget is   *)
(* reached.  evaluate, toolStage, hitl, costGuard: the stage (the guard)   *)
(* is registered.                                                          *)
Config == [controller : Controllers, dims : Seq(Dimensions),
           maxTurns : Nat, maxIterations : Nat \ {0}, costBudget : Nat,
           costStop : Nat, toolCap : Nat, stopAfter : Nat, hardTokens : Nat,
           evaluate : BOOLEAN, toolStage : BOOLEAN, hitl : BOOLEAN,
           costGuard : BOOLEAN, single : BOOLEAN, reviewer : BOOLEAN]

ASSUME ConfigsAssumption == Configs \subseteq Config
ASSUME BoundsAssumption ==
    /\ MaxContinuations \in Nat
    /\ Prices \subseteq Nat
    /\ Sizes \subseteq Nat
    /\ MaxSessionTurns \in Nat
    /\ MaxSteers \in Nat

Decisions == {"continue", "complete", "suspend", "escalate", "error"}
Statuses  == {"running", "completed", "suspended", "blocked", "failed"}

(* What the parser finds in a reply's text, and a human's rejection.       *)
Signals   == {"none", "complete", "blocked", "error"}
Verdicts  == {"approve", "reject", "cancel"}

VARIABLES
  conf,        \* the session's configuration
  s,           \* the PipelineState
  phase,       \* where the turn is
  slices,      \* stream_turn's continuation_count
  inbox,       \* the turn's SteerInbox: "open", "queued" or "closed"
  sessionCost, \* state.session_cost_usd
  turns,       \* turns started
  steers,      \* messages offered in this turn
  paid,        \* every price ever charged, for the properties
  late,        \* model calls of this turn made when its budget was gone
  owed         \* a message taken from a finishing turn awaits an answer

vars == <<conf, s, phase, slices, inbox, sessionCost, turns, steers, paid,
          late, owed>>

(* "idle": no turn.  "stages": the next pass.  "loop": stage 16.           *)
(* "boundary": the pass is over.  "finalize": the slice is over.  "host":  *)
(* stream_turn has read the slice's last event.                            *)
Phases == {"idle", "stages", "loop", "boundary", "finalize", "host"}

(* A report-and-stop record (repeat_stop.py, turn_budget.py).  final: the  *)
(* number of calls when the model was told to report, 0 before.            *)
StopRecord == [final : Nat, stopped : BOOLEAN]
NoStop     == [final |-> 0, stopped |-> FALSE]

(* tail: what the conversation ends with.                                  *)
State == [iteration : Nat, decision : Decisions,
          signal : Signals \cup {"rejected"}, status : Statuses,
          fresh : BOOLEAN, pending : BOOLEAN,
          tail : {"user", "assistant", "results"},
          calls : Nat, tokens : Nat, cost : Nat, accounted : Nat,
          toolCalls : Nat, refused : Nat, reviewed : BOOLEAN,
          repeat : StopRecord, budget : StopRecord]

TypeOK ==
    /\ conf \in Configs
    /\ s \in State
    /\ phase \in Phases
    /\ slices \in Nat
    /\ inbox \in {"open", "queued", "closed"}
    /\ sessionCost \in Nat
    /\ turns \in Nat
    /\ steers \in Nat
    /\ paid \in Nat
    /\ late \in Nat
    /\ owed \in BOOLEAN

NewState ==
    [iteration |-> 0, decision |-> "continue", signal |-> "none",
     status |-> "running", fresh |-> FALSE, pending |-> FALSE,
     tail |-> "user", calls |-> 0, tokens |-> 0, cost |-> 0, accounted |-> 0,
     toolCalls |-> 0, refused |-> 0, reviewed |-> FALSE,
     repeat |-> NoStop, budget |-> NoStop]

Init ==
    /\ conf \in Configs
    /\ s = NewState
    /\ phase = "idle"
    /\ slices = 0
    /\ inbox = "closed"
    /\ sessionCost = 0
    /\ turns = 0
    /\ steers = 0
    /\ paid = 0
    /\ late = 0
    /\ owed = FALSE

-----------------------------------------------------------------------------
(* Turn and slice boundaries.                                              *)

(* begin_turn(): every per-turn field and shared key is reset.  The user's *)
(* message is the last of the conversation.                                *)
BeginTurn(t) == NewState

(* begin_continuation_slice(): the machinery starts over, the turn's cost, *)
(* tokens, calls and stop records stay.                                    *)
BeginContinuationSlice(t) ==
    [t EXCEPT !.iteration = 0, !.decision = "continue", !.status = "running",
              !.signal = "none", !.pending = FALSE, !.fresh = FALSE,
              !.toolCalls = 0]

(* _end_turn() that adds the whole turn's cost again for every slice.      *)
FoldWhole(t) == sessionCost' = sessionCost + t.cost

(* _end_turn(): only what this slice added goes into the session's cost.   *)
FoldCost(t) ==
    sessionCost' = sessionCost +
        IF t.cost > t.accounted THEN t.cost - t.accounted ELSE 0

Accounted(t) == [t EXCEPT !.accounted = t.cost]

-----------------------------------------------------------------------------
(* Stage 16's strategies.                                                  *)

IsOverBudget(c, t)     == c.costBudget > 0 /\ t.cost >= c.costBudget
IsOverIterations(c, t) == t.iteration >= c.maxIterations

Suspend(t)  == [t EXCEPT !.decision = "suspend", !.status = "suspended"]
Escalate(t) == [t EXCEPT !.decision = "escalate", !.status = "blocked"]

(* The verdict a marker in the model's text asks for.                      *)
OfSignal(signal) ==
    CASE signal = "complete" -> "complete"
      [] signal = "blocked"  -> "escalate"
      [] signal = "error"    -> "error"
      [] OTHER               -> "continue"

(* Stage 14 (signal_based) asking for pending calls where it means the     *)
(* results of this pass: stage 10 has emptied the pending list.            *)
EvaluatePending(c, t) ==
    IF ~c.evaluate \/ t.pending THEN "continue" ELSE OfSignal(t.signal)

(* Stage 14: results the model has not seen come before any marker in its  *)
(* text.                                                                   *)
Evaluate(c, t) ==
    IF ~c.evaluate \/ t.fresh THEN "continue" ELSE OfSignal(t.signal)

(* What every controller but single_turn ends with.  budget_aware does not *)
(* look for "error".                                                       *)
BySignal(c, t) ==
    IF t.fresh THEN "continue"
    ELSE CASE t.signal = "complete" -> "complete"
           [] t.signal = "blocked"  -> "escalate"
           [] t.signal = "error" /\ c.controller # "budget_aware" -> "error"
           [] OTHER -> IF t.pending THEN "continue" ELSE "complete"

BySignals(c, t) == [t EXCEPT !.decision = BySignal(c, t)]

StandardDecide(c, t) ==
    LET cap == IF c.maxTurns > 0 THEN c.maxTurns ELSE c.maxIterations
    IN  IF /\ ~t.fresh /\ t.pending
           /\ t.signal \notin {"complete", "blocked", "error"}
           /\ t.iteration >= cap
        THEN Suspend(t)
        ELSE BySignals(c, t)

(* full: the next request would fill the context window.                   *)
BudgetAwareDecide(c, t, full) ==
    CASE c.costBudget > 0 /\ t.cost >= c.costStop -> Escalate(t)
      [] ~(c.costBudget > 0 /\ t.cost >= c.costStop)
         /\ full /\ (t.fresh \/ t.pending) -> [t EXCEPT !.decision = "continue"]
      [] OTHER -> BySignals(c, t)

Exceeded(c, t, full, dim) ==
    CASE dim = "iteration" ->
           t.iteration >= (IF c.maxTurns > 0 THEN c.maxTurns
                                             ELSE c.maxIterations)
      [] dim = "cost"       -> c.costBudget > 0 /\ t.cost >= c.costStop
      [] dim = "tokens"     -> full
      [] dim = "tool_calls" -> t.toolCalls >= c.toolCap

(* The first exceeded dimension decides; token pressure with work to       *)
(* follow asks for a compaction and goes on, without it is no verdict.     *)
MultiDimDecide(c, t, full) ==
    LET hits == {i \in DOMAIN c.dims : Exceeded(c, t, full, c.dims[i])}
        first == c.dims[CHOOSE i \in hits : \A j \in hits : i <= j]
    IN  IF hits = {} THEN BySignals(c, t)
        ELSE CASE first = "tokens" ->
                    IF t.fresh \/ t.pending
                    THEN [t EXCEPT !.decision = "continue"]
                    ELSE BySignals(c, t)
               [] first = "cost" -> Escalate(t)
               [] OTHER          -> Suspend(t)

Decide(c, t, full) ==
    CASE c.controller = "standard"         -> StandardDecide(c, t)
      [] c.controller = "single_turn"      -> [t EXCEPT !.decision = "complete"]
      [] c.controller = "budget_aware"     -> BudgetAwareDecide(c, t, full)
      [] c.controller = "multi_dim_budget" -> MultiDimDecide(c, t, full)

(* A verdict of an earlier stage stands; otherwise the controller decides. *)
Verdict(c, t, full) ==
    IF t.decision # "continue" THEN t ELSE Decide(c, t, full)

(* A completion reviewer that finds a problem sends a finished turn back,  *)
(* once per turn.                                                          *)
Review(c, t, problem) ==
    IF t.decision = "complete" /\ c.reviewer /\ ~t.reviewed /\ problem
    THEN [t EXCEPT !.decision = "continue", !.reviewed = TRUE,
                   !.tail = "user"]
    ELSE t

(* The two stops below: the note asks for a report and goes behind the     *)
(* tool results, or after the model's words, but not behind a user's; the  *)
(* reply to it ends the turn whatever was decided.                         *)
ReportThenStop(t, f, due) ==
    CASE t[f].stopped -> [t EXCEPT !.decision = "complete"]
      [] ~t[f].stopped /\ t[f].final > 0 /\ t.calls > t[f].final ->
           [t EXCEPT !.decision = "complete", ![f].stopped = TRUE]
      [] ~t[f].stopped /\ t[f].final = 0 /\ t.decision = "continue" /\ due
         /\ t.tail # "user" ->
           [t EXCEPT ![f].final = t.calls,
                     !.tail = IF t.tail = "results" THEN "results" ELSE "user"]
      [] OTHER -> t

(* RepeatStop.apply(): too many calls of this turn were refused.           *)
RepeatStop(c, t) ==
    IF c.stopAfter = 0 THEN t
    ELSE ReportThenStop(t, "repeat", t.refused >= c.stopAfter)

(* TurnInputBudget.apply(): the turn's input reached the hard limit.       *)
TurnInputBudget(c, t) ==
    IF c.hardTokens = 0 THEN t
    ELSE ReportThenStop(t, "budget", t.tokens >= c.hardTokens)

(* A reviewer asked last could undo a stop.                                *)
ReviewLast(c, t, full, problem) ==
    Review(c, TurnInputBudget(c, RepeatStop(c, Verdict(c, t, full))), problem)

(* Stage 16: the verdict, then the reviewer, then the stops.               *)
LoopVerdict(c, t, full, problem) ==
    TurnInputBudget(c, RepeatStop(c, Review(c, Verdict(c, t, full), problem)))

-----------------------------------------------------------------------------
(* One pass.                                                               *)

(* The user sends a message while no turn runs.                            *)
StartTurn ==
    /\ phase = "idle"
    /\ turns < MaxSessionTurns
    /\ turns' = turns + 1
    /\ s' = BeginTurn(s)
    /\ phase' = "stages"
    /\ slices' = 0
    /\ inbox' = "open"
    /\ steers' = 0
    /\ late' = 0
    /\ owed' = FALSE
    /\ UNCHANGED <<conf, sessionCost, paid>>

(* The model call (stages 6, 7, 9): its price and size are added up, the   *)
(* last reply's signal and calls are replaced.  Stage 10 runs the calls,   *)
(* one here, and may refuse a repeated one.                                *)
Reply(c, t, tools, signal, price, size, refuse) ==
    [t EXCEPT !.calls = @ + 1, !.cost = @ + price, !.tokens = @ + size,
              !.signal = signal,
              !.fresh = tools /\ c.toolStage,
              !.pending = tools /\ ~c.toolStage,
              !.toolCalls = IF tools /\ c.toolStage THEN @ + 1 ELSE @,
              !.refused = IF tools /\ c.toolStage /\ refuse THEN @ + 1 ELSE @,
              !.tail = IF tools /\ c.toolStage THEN "results" ELSE "assistant"]

(* Stages 14 and 15: the evaluation's verdict, then the human's.           *)
Judged(c, t, human) ==
    CASE c.hitl /\ human = "reject" ->
           [t EXCEPT !.decision = "complete", !.signal = "rejected"]
      [] c.hitl /\ human = "cancel" -> [t EXCEPT !.decision = "escalate"]
      [] OTHER -> [t EXCEPT !.decision = Evaluate(c, t)]

(* Stages 2 to 15.  A cost guard in stage 4 lets no call pass that starts  *)
(* over the budget (it raises: RunFails).                                  *)
Stages ==
    /\ phase = "stages"
    /\ ~(conf.costGuard /\ IsOverBudget(conf, s))
    /\ \E tools, refuse \in BOOLEAN, signal \in Signals, price \in Prices,
          size \in Sizes, human \in Verdicts :
          /\ s' = Judged(conf,
                     Reply(conf, s, tools, signal, price, size, refuse), human)
          /\ paid' = paid + price
    /\ late' = IF IsOverBudget(conf, s) THEN late + 1 ELSE late
    /\ owed' = FALSE
    /\ phase' = "loop"
    /\ UNCHANGED <<conf, slices, inbox, sessionCost, turns, steers>>

(* A stage raises.  It may have paid for a call.                           *)
RunFails ==
    /\ phase = "stages"
    /\ \E price \in Prices :
          LET t == [s EXCEPT !.cost = @ + price, !.status = "failed"] IN
          /\ s' = Accounted(t)
          /\ FoldCost(t)
          /\ paid' = paid + price
    /\ phase' = "host"
    /\ owed' = FALSE
    /\ UNCHANGED <<conf, slices, inbox, turns, steers, late>>

(* Stage 16.                                                               *)
LoopStage ==
    /\ phase = "loop"
    /\ \E full, problem \in BOOLEAN :
          s' = [LoopVerdict(conf, s, full, problem) EXCEPT !.fresh = FALSE]
    /\ phase' = "boundary"
    /\ UNCHANGED <<conf, slices, inbox, sessionCost, turns, steers, paid,
                   late, owed>>

(* One pass is all a single_turn run makes.                                *)
OnePass(c, t) ==
    IF c.single /\ t.decision = "continue"
    THEN [t EXCEPT !.decision = "complete"] ELSE t

(* _take_steer: a finishing turn with a message to answer goes on.         *)
TakesSteer(c, t) ==
    inbox = "queued" /\ ~c.single /\ t.decision \in {"continue", "complete"}

Steered(t) ==
    [t EXCEPT !.decision = "continue",
              !.signal = IF t.decision = "complete" THEN "none" ELSE @,
              !.tail = IF t.tail = "results" THEN "results" ELSE "user"]

(* The limits looked at after the pass has been counted, with the slice's  *)
(* limit off by one.                                                       *)
LimitsOffByOne(c, t) ==
    LET n == [t EXCEPT !.iteration = @ + 1] IN
    CASE n.iteration > c.maxIterations -> Suspend(n)
      [] n.iteration <= c.maxIterations /\ IsOverBudget(c, n) -> Escalate(n)
      [] OTHER -> n

(* The slice's own limits, in the order the loop checks them.              *)
Limits(c, t) ==
    LET n == [t EXCEPT !.iteration = @ + 1] IN
    CASE IsOverIterations(c, n) -> Suspend(n)
      [] ~IsOverIterations(c, n) /\ IsOverBudget(c, n) -> Escalate(n)
      [] OTHER -> n

(* After stage 16 the loop takes what the user steered in and checks its   *)
(* limits without suspending once.                                         *)
Boundary ==
    /\ phase = "boundary"
    /\ LET t == OnePass(conf, s)
           u == IF TakesSteer(conf, t) THEN Steered(t) ELSE t
       IN  /\ s' = IF u.decision = "continue" THEN Limits(conf, u) ELSE u
           /\ owed' = (TakesSteer(conf, t) /\ t.decision = "complete")
    /\ inbox' = CASE TakesSteer(conf, s) -> "open"
                  [] conf.single \/ (s.decision = "complete" /\ inbox = "open")
                                         -> "closed"
                  [] OTHER               -> inbox
    /\ phase' = IF s'.decision = "continue" THEN "stages" ELSE "finalize"
    /\ UNCHANGED <<conf, slices, sessionCost, turns, steers, paid, late>>

(* The status of the slice, unless a limit has already set it.             *)
RunStatus(t) ==
    IF t.status # "running" THEN t.status
    ELSE CASE t.decision = "complete" -> "completed"
           [] t.decision = "suspend"  -> "suspended"
           [] t.decision = "escalate" -> "blocked"
           [] t.decision = "error"    -> "failed"
           [] OTHER                   -> "running"

Finalize ==
    /\ phase = "finalize"
    /\ s' = Accounted([s EXCEPT !.status = RunStatus(s)])
    /\ FoldCost(s)
    /\ phase' = "host"
    /\ UNCHANGED <<conf, slices, inbox, turns, steers, paid, late, owed>>

-----------------------------------------------------------------------------
(* The host.                                                               *)

(* stream_turn continues a resumable slice by itself, a few times.         *)
HostContinues ==
    /\ phase = "host"
    /\ s.status = "suspended"
    /\ slices < MaxContinuations
    /\ slices' = slices + 1
    /\ s' = BeginContinuationSlice(s)
    /\ phase' = "stages"
    /\ UNCHANGED <<conf, inbox, sessionCost, turns, steers, paid, late, owed>>

(* A host that only knows finished and suspended turns.                    *)
HostEndsKnown ==
    /\ phase = "host"
    /\ \/ s.status \in {"completed", "failed"}
       \/ s.status = "suspended" /\ slices >= MaxContinuations
    /\ phase' = "idle"
    /\ inbox' = "closed"
    /\ UNCHANGED <<conf, s, slices, sessionCost, turns, steers, paid, late,
                   owed>>

(* ... or ends the turn and sends back what was not taken.                 *)
HostEnds ==
    /\ phase = "host"
    /\ ~(s.status = "suspended" /\ slices < MaxContinuations)
    /\ phase' = "idle"
    /\ inbox' = "closed"
    /\ UNCHANGED <<conf, s, slices, sessionCost, turns, steers, paid, late,
                   owed>>

(* The user stops the turn while a stage runs: the run's task is           *)
(* cancelled and still does its accounting.                                *)
Cancel ==
    /\ phase = "stages"
    /\ FoldCost(s)
    /\ s' = Accounted(s)
    /\ phase' = "idle"
    /\ inbox' = "closed"
    /\ owed' = FALSE
    /\ UNCHANGED <<conf, slices, turns, steers, paid, late>>

(* The user sends a message to the running turn.                           *)
Steer ==
    /\ phase # "idle"
    /\ inbox = "open"
    /\ steers < MaxSteers
    /\ inbox' = "queued"
    /\ steers' = steers + 1
    /\ UNCHANGED <<conf, s, phase, slices, sessionCost, turns, paid, late,
                   owed>>

Run == \/ Stages \/ RunFails \/ LoopStage \/ Boundary \/ Finalize
       \/ HostContinues \/ HostEnds

Next == StartTurn \/ Run \/ Cancel \/ Steer

Spec == Init /\ [][Next]_vars

(* A model call returns or raises (the clients have timeouts), and the     *)
(* event loop runs what is ready.                                          *)
FairSpec == Spec /\ WF_vars(Run)

-----------------------------------------------------------------------------
(* Properties.                                                             *)

(* A turn makes at most max_iterations model calls per slice, however the  *)
(* verdicts, the steering, the reviews and the continuations follow each   *)
(* other.  (_run_phases, stream_turn)                                      *)
CallsBounded == s.calls <= (MaxContinuations + 1) * conf.maxIterations

(* The session's cost is the sum of every price charged, each once, when   *)
(* no run is in flight: over continuations, failures and cancellations.    *)
(* (_end_turn, begin_turn, begin_continuation_slice)                       *)
SessionCostExact ==
    phase \in {"idle", "host"} => sessionCost = paid

(* A turn over its cost budget makes at most one more model call for each  *)
(* time the host continues it, and none at all behind a cost guard.        *)
(* (the order of the limits in _run_phases, begin_continuation_slice)      *)
OverspendBounded ==
    late <= IF conf.costGuard THEN 0 ELSE slices

(* However a turn is prolonged, it stays within its limits of calls and    *)
(* of cost.  (_run_phases, stream_turn)                                    *)
LimitsHold == CallsBounded /\ OverspendBounded

(* A turn is only stopped for refused calls or for its input after the     *)
(* model was asked, in this turn, to report and has replied; and never     *)
(* below the limit.  (RepeatStop.apply, TurnInputBudget.apply, begin_turn) *)
StopAfterReport ==
    /\ s.repeat.stopped => /\ s.repeat.final \in 1..(s.calls - 1)
                           /\ s.refused >= conf.stopAfter
    /\ s.budget.stopped => /\ s.budget.final \in 1..(s.calls - 1)
                           /\ s.tokens >= conf.hardTokens

Stopped == s.repeat.stopped \/ s.budget.stopped

(* A task reported as completed has no tool results the model never saw,   *)
(* unless the turn was stopped, a human rejected it, or the configuration  *)
(* allows one pass only.  (Evaluate, the controllers, LoopStage)           *)
NoResultsStranded ==
    (phase = "host" /\ s.status = "completed") =>
        \/ s.tail # "results"
        \/ Stopped
        \/ s.signal = "rejected"
        \/ conf.single
        \/ conf.controller = "single_turn"

(* What the host is told agrees with the loop's verdict: a turn whose last *)
(* verdict was "complete" is not resumable, a suspended one is.            *)
StatusMatchesDecision ==
    (phase = "host" /\ s.status # "failed") =>
        /\ s.status = "completed" <=> s.decision = "complete"
        /\ s.status = "suspended" <=> s.decision = "suspend"
        /\ s.status = "blocked"   <=> s.decision = "escalate"

(* What is told of a turn is so: stopped, completed, resumable.            *)
(* (RepeatStop.apply, TurnInputBudget.apply, LoopStage, _end_turn)         *)
OutcomeIsTrue == StopAfterReport /\ NoResultsStranded /\ StatusMatchesDecision

(* After a stop no model call follows in the turn, except to answer a      *)
(* message the user steered into it.  turn_budget.py: it ends "complete",  *)
(* so no automatic continuation follows.                                   *)
StopIsFinal == [][s.calls' > s.calls => ~Stopped \/ owed]_vars

(* Every turn ends, though steering, reviews and continuations each        *)
(* prolong it.  (_run_phases, LoopStage, stream_turn)                      *)
TurnEnds == (phase # "idle") ~> (phase = "idle")
=============================================================================
