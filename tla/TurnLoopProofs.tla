--------------------------- MODULE TurnLoopProofs ---------------------------
(***************************************************************************)
(* What TurnLoop promises for every set of configurations, every price and *)
(* size of a model call and every bound.                                   *)
(***************************************************************************)
EXTENDS TurnLoop, FiniteSetTheorems, TLAPS

-----------------------------------------------------------------------------
(* The strategies of stage 16 keep the state's type and everything that is *)
(* counted: they decide, mark, and append notes.                           *)

SameCounts(t, u) ==
    /\ u.calls = t.calls
    /\ u.cost = t.cost
    /\ u.accounted = t.accounted
    /\ u.tokens = t.tokens
    /\ u.refused = t.refused
    /\ u.iteration = t.iteration
    /\ u.fresh = t.fresh
    /\ u.signal = t.signal
    /\ t.status # "completed" => u.status # "completed"

Stops(t, u) == u.repeat = t.repeat /\ u.budget = t.budget

LEMMA ConfigType == \A c \in Configs : c \in Config
BY ConfigsAssumption

Keeps(t, u) == /\ u \in State
               /\ SameCounts(t, u)
               /\ Stops(t, u)
               /\ u.tail = t.tail

LEMMA Marks ==
    ASSUME NEW t \in State
    PROVE  /\ Keeps(t, Suspend(t)) /\ Suspend(t).decision = "suspend"
           /\ Keeps(t, Escalate(t)) /\ Escalate(t).decision = "escalate"
           /\ \A d \in Decisions : /\ Keeps(t, [t EXCEPT !.decision = d])
                                   /\ [t EXCEPT !.decision = d].decision = d
<1>1. Keeps(t, Suspend(t)) /\ Suspend(t).decision = "suspend"
  BY DEF Suspend, State, Decisions, Statuses, Keeps, SameCounts, Stops
<1>2. Keeps(t, Escalate(t)) /\ Escalate(t).decision = "escalate"
  BY DEF Escalate, State, Decisions, Statuses, Keeps, SameCounts, Stops
<1>3. ASSUME NEW d \in Decisions
      PROVE  /\ Keeps(t, [t EXCEPT !.decision = d])
             /\ [t EXCEPT !.decision = d].decision = d
  BY DEF State, Keeps, SameCounts, Stops
<1> QED BY <1>1, <1>2, <1>3

LEMMA SignalVerdict ==
    ASSUME NEW c \in Config, NEW t \in State
    PROVE  /\ Keeps(t, BySignals(c, t))
           /\ t.fresh => BySignals(c, t).decision = "continue"
<1>1. BySignal(c, t) \in Decisions
  BY DEF BySignal, Decisions
<1>2. t.fresh => BySignal(c, t) = "continue"
  BY DEF BySignal
<1> QED BY <1>1, <1>2, Marks DEF BySignals

LEMMA DecideVerdict ==
    ASSUME NEW c \in Config, NEW t \in State, NEW full \in BOOLEAN
    PROVE  /\ Keeps(t, Decide(c, t, full))
           /\ t.fresh /\ c.controller # "single_turn" =>
                Decide(c, t, full).decision # "complete"
<1> DEFINE u == Decide(c, t, full)
           go == [t EXCEPT !.decision = "continue"]
<1>0. c.controller \in Controllers
  BY DEF Config
<1>1. CASE c.controller = "single_turn"
  <2>1. u = [t EXCEPT !.decision = "complete"]
    BY <1>1 DEF Decide
  <2> QED BY <1>1, <2>1, Marks DEF Decisions
<1>2. CASE c.controller # "single_turn"
  <2>1. u \in {go, Suspend(t), Escalate(t), BySignals(c, t)}
    BY <1>0, <1>2 DEF Decide, Controllers, StandardDecide, BudgetAwareDecide,
                      MultiDimDecide
  <2>2. Keeps(t, go) /\ go.decision = "continue"
    BY Marks DEF Decisions
  <2> HIDE DEF u, go
  <2>3. Keeps(t, u)
    BY <2>1, <2>2, Marks, SignalVerdict
  <2>4. t.fresh => u.decision \in {"continue", "suspend", "escalate"}
    BY <2>1, <2>2, Marks, SignalVerdict
  <2> QED BY <2>3, <2>4 DEF u
<1> QED BY <1>1, <1>2

LEMMA VerdictKeeps ==
    ASSUME NEW c \in Config, NEW t \in State, NEW full \in BOOLEAN
    PROVE  /\ Keeps(t, Verdict(c, t, full))
           /\ t.fresh /\ c.controller # "single_turn"
              /\ t.decision # "complete" =>
                Verdict(c, t, full).decision # "complete"
BY DecideVerdict DEF Verdict, Keeps, SameCounts, Stops

LEMMA ReviewKeeps ==
    ASSUME NEW c \in Config, NEW t \in State, NEW problem \in BOOLEAN
    PROVE  /\ Review(c, t, problem) \in State
           /\ SameCounts(t, Review(c, t, problem))
           /\ Stops(t, Review(c, t, problem))
           /\ Review(c, t, problem).tail = "results" => t.tail = "results"
           /\ Review(c, t, problem).decision = "complete" =>
                t.decision = "complete"
BY DEF Review, State, Decisions, SameCounts, Stops

(* What a stop record says: the note came at a call, the stop later, and   *)
(* only when it was due.                                                   *)
StopSound(r, calls, due) ==
    /\ r.final > 0 => r.final <= calls /\ due
    /\ r.stopped => r.final > 0 /\ r.final < calls

LEMMA ReportKeeps ==
    ASSUME NEW t \in State, NEW f \in {"repeat", "budget"},
           NEW due \in BOOLEAN, StopSound(t[f], t.calls, due)
    PROVE  LET u == ReportThenStop(t, f, due) IN
           /\ u \in State
           /\ SameCounts(t, u)
           /\ StopSound(u[f], u.calls, due)
           /\ \A g \in {"repeat", "budget"} \ {f} : u[g] = t[g]
           /\ t[f].stopped => u[f].stopped
           /\ u.tail = "results" => t.tail = "results"
           /\ u.decision = "complete" => t.decision = "complete" \/ u[f].stopped
<1> DEFINE u == ReportThenStop(t, f, due)
<1>1. /\ t[f] \in StopRecord
      /\ t.calls \in Nat /\ t[f].final \in Nat /\ t[f].stopped \in BOOLEAN
  BY DEF State, StopRecord
<1>2. CASE t[f].stopped
  BY <1>2 DEF ReportThenStop, State, StopRecord, StopSound, SameCounts, Decisions
<1>3. CASE ~t[f].stopped /\ t[f].final > 0 /\ t.calls > t[f].final
  <2>0. t[f].final # 0
    BY <1>1, <1>3
  <2>1. u = [t EXCEPT !.decision = "complete", ![f].stopped = TRUE]
    BY <1>3, <2>0, Zenon DEF ReportThenStop
  <2>2. CASE f = "repeat"
    <3>1. u = [t EXCEPT !.decision = "complete",
                        !.repeat = [t.repeat EXCEPT !.stopped = TRUE]]
      BY <2>1, <2>2 DEF State
    <3>2. [t.repeat EXCEPT !.stopped = TRUE] \in StopRecord
      BY DEF State, StopRecord
    <3>3. u \in State /\ SameCounts(t, u) /\ u.budget = t.budget
      BY <3>1, <3>2 DEF State, Decisions, SameCounts
    <3>4. u.repeat.stopped /\ u.repeat.final = t.repeat.final
      BY <3>1 DEF State, StopRecord
    <3>5. u.tail = t.tail
      BY <3>1 DEF State
    <3> QED BY <1>1, <1>3, <2>2, <3>3, <3>4, <3>5 DEF StopSound, SameCounts
  <2>3. CASE f = "budget"
    <3>1. u = [t EXCEPT !.decision = "complete",
                        !.budget = [t.budget EXCEPT !.stopped = TRUE]]
      BY <2>1, <2>3 DEF State
    <3>2. [t.budget EXCEPT !.stopped = TRUE] \in StopRecord
      BY DEF State, StopRecord
    <3>3. u \in State /\ SameCounts(t, u) /\ u.repeat = t.repeat
      BY <3>1, <3>2 DEF State, Decisions, SameCounts
    <3>4. u.budget.stopped /\ u.budget.final = t.budget.final
      BY <3>1 DEF State, StopRecord
    <3>5. u.tail = t.tail
      BY <3>1 DEF State
    <3> QED BY <1>1, <1>3, <2>3, <3>3, <3>4, <3>5 DEF StopSound, SameCounts
  <2> QED BY <2>2, <2>3
<1>4. CASE /\ ~t[f].stopped /\ t[f].final = 0 /\ t.decision = "continue"
           /\ due /\ t.tail # "user"
  <2> DEFINE tl == IF t.tail = "results" THEN "results" ELSE "user"
  <2>1. u = [t EXCEPT ![f].final = t.calls, !.tail = tl]
    BY <1>4 DEF ReportThenStop
  <2>t. tl \in {"user", "assistant", "results"} /\ (tl = "results" => t.tail = "results")
    OBVIOUS
  <2> HIDE DEF tl
  <2>2. CASE f = "repeat"
    <3>1. u = [t EXCEPT !.repeat = [t.repeat EXCEPT !.final = t.calls],
                        !.tail = tl]
      BY <2>1, <2>2 DEF State
    <3>2. [t.repeat EXCEPT !.final = t.calls] \in StopRecord
      BY DEF State, StopRecord
    <3>3. u \in State /\ SameCounts(t, u) /\ u.budget = t.budget
      BY <3>1, <3>2, <2>t DEF State, SameCounts
    <3>4. u.repeat.final = t.calls /\ u.repeat.stopped = t.repeat.stopped
      BY <3>1 DEF State, StopRecord
    <3>5. u.tail = tl /\ u.decision = t.decision
      BY <3>1 DEF State
    <3>6. u.calls = t.calls
      BY <3>3 DEF SameCounts
    <3>7. StopSound(u.repeat, u.calls, due)
      <4>1. u.repeat.final <= u.calls
        BY <1>1, <3>4, <3>6
      <4>2. ~u.repeat.stopped
        BY <1>4, <2>2, <3>4, Zenon
      <4> HIDE DEF u
      <4> QED BY <1>4, <4>1, <4>2, Zenon DEF StopSound
    <3> HIDE DEF u
    <3> QED BY <1>4, <2>2, <2>t, <3>3, <3>5, <3>7 DEF u
  <2>3. CASE f = "budget"
    <3>1. u = [t EXCEPT !.budget = [t.budget EXCEPT !.final = t.calls],
                        !.tail = tl]
      BY <2>1, <2>3 DEF State
    <3>2. [t.budget EXCEPT !.final = t.calls] \in StopRecord
      BY DEF State, StopRecord
    <3>3. u \in State /\ SameCounts(t, u) /\ u.repeat = t.repeat
      BY <3>1, <3>2, <2>t DEF State, SameCounts
    <3>4. u.budget.final = t.calls /\ u.budget.stopped = t.budget.stopped
      BY <3>1 DEF State, StopRecord
    <3>5. u.tail = tl /\ u.decision = t.decision
      BY <3>1 DEF State
    <3>6. u.calls = t.calls
      BY <3>3 DEF SameCounts
    <3>7. StopSound(u.budget, u.calls, due)
      <4>1. u.budget.final <= u.calls
        BY <1>1, <3>4, <3>6
      <4>2. ~u.budget.stopped
        BY <1>4, <2>3, <3>4, Zenon
      <4> HIDE DEF u
      <4> QED BY <1>4, <4>1, <4>2, Zenon DEF StopSound
    <3> HIDE DEF u
    <3> QED BY <1>4, <2>3, <2>t, <3>3, <3>5, <3>7 DEF u
  <2> QED BY <2>2, <2>3
<1>5. CASE u = t
  <2>1. SameCounts(t, t)
    BY DEF SameCounts
  <2>2. t[f].stopped => u[f].stopped
    BY <1>5
  <2> HIDE DEF u
  <2> QED BY <1>5, <2>1, <2>2, Zenon DEF u
<1> QED BY <1>2, <1>3, <1>4, <1>5 DEF ReportThenStop

StopsSound(c, t) ==
    /\ StopSound(t.repeat, t.calls, t.refused >= c.stopAfter)
    /\ StopSound(t.budget, t.calls, t.tokens >= c.hardTokens)

StoppedIn(t) == t.repeat.stopped \/ t.budget.stopped

LEMMA RepeatStopKeeps ==
    ASSUME NEW c \in Config, NEW t \in State, StopsSound(c, t)
    PROVE  LET u == RepeatStop(c, t) IN
           /\ u \in State /\ SameCounts(t, u) /\ StopsSound(c, u)
           /\ StoppedIn(t) => StoppedIn(u)
           /\ u.tail = "results" => t.tail = "results"
           /\ u.decision = "complete" => t.decision = "complete" \/ StoppedIn(u)
<1> DEFINE due == t.refused >= c.stopAfter
           u == ReportThenStop(t, "repeat", due)
<1>1. CASE c.stopAfter = 0
  BY <1>1 DEF RepeatStop, SameCounts
<1>2. CASE c.stopAfter # 0
  <2>1. due \in BOOLEAN /\ StopSound(t["repeat"], t.calls, due)
    BY DEF StopsSound
  <2> HIDE DEF due
  <2>2. /\ u \in State /\ SameCounts(t, u) /\ StopSound(u["repeat"], u.calls, due)
        /\ \A g \in {"repeat", "budget"} \ {"repeat"} : u[g] = t[g]
        /\ t["repeat"].stopped => u["repeat"].stopped
        /\ u.tail = "results" => t.tail = "results"
        /\ u.decision = "complete" => t.decision = "complete" \/ u["repeat"].stopped
    BY <2>1, ReportKeeps
  <2>3. u.budget = t.budget
    BY <2>2
  <2>4. u.tokens = t.tokens /\ u.calls = t.calls /\ u.refused = t.refused
    BY <2>2 DEF SameCounts
  <2> HIDE DEF u
  <2>5. StopsSound(c, u)
    BY <2>2, <2>3, <2>4 DEF StopsSound, due
  <2>6. RepeatStop(c, t) = u
    BY <1>2 DEF RepeatStop, u, due
  <2> QED BY <2>2, <2>3, <2>5, <2>6 DEF StoppedIn
<1> QED BY <1>1, <1>2

LEMMA TurnInputBudgetKeeps ==
    ASSUME NEW c \in Config, NEW t \in State, StopsSound(c, t)
    PROVE  LET u == TurnInputBudget(c, t) IN
           /\ u \in State /\ SameCounts(t, u) /\ StopsSound(c, u)
           /\ StoppedIn(t) => StoppedIn(u)
           /\ u.tail = "results" => t.tail = "results"
           /\ u.decision = "complete" => t.decision = "complete" \/ StoppedIn(u)
<1> DEFINE due == t.tokens >= c.hardTokens
           u == ReportThenStop(t, "budget", due)
<1>1. CASE c.hardTokens = 0
  BY <1>1 DEF TurnInputBudget, SameCounts
<1>2. CASE c.hardTokens # 0
  <2>1. due \in BOOLEAN /\ StopSound(t["budget"], t.calls, due)
    BY DEF StopsSound
  <2> HIDE DEF due
  <2>2. /\ u \in State /\ SameCounts(t, u) /\ StopSound(u["budget"], u.calls, due)
        /\ \A g \in {"repeat", "budget"} \ {"budget"} : u[g] = t[g]
        /\ t["budget"].stopped => u["budget"].stopped
        /\ u.tail = "results" => t.tail = "results"
        /\ u.decision = "complete" => t.decision = "complete" \/ u["budget"].stopped
    BY <2>1, ReportKeeps
  <2>3. u.repeat = t.repeat
    BY <2>2
  <2>4. u.tokens = t.tokens /\ u.calls = t.calls /\ u.refused = t.refused
    BY <2>2 DEF SameCounts
  <2> HIDE DEF u
  <2>5. StopsSound(c, u)
    BY <2>2, <2>3, <2>4 DEF StopsSound, due
  <2>6. TurnInputBudget(c, t) = u
    BY <1>2 DEF TurnInputBudget, u, due
  <2> QED BY <2>2, <2>3, <2>5, <2>6 DEF StoppedIn
<1> QED BY <1>1, <1>2

(* The chain as a whole: what is counted stays, the stops are sound, and a *)
(* pass whose results the model has not seen is only completed by a stop,  *)
(* by an earlier verdict, or by the single-turn controller.                *)
LEMMA LoopVerdictKeeps ==
    ASSUME NEW c \in Config, NEW t \in State, StopsSound(c, t),
           NEW full \in BOOLEAN, NEW problem \in BOOLEAN
    PROVE  LET u == LoopVerdict(c, t, full, problem) IN
           /\ u \in State /\ SameCounts(t, u) /\ StopsSound(c, u)
           /\ u.tail = "results" => t.tail = "results"
           /\ u.decision = "complete" /\ t.fresh =>
                \/ t.decision = "complete"
                \/ c.controller = "single_turn"
                \/ StoppedIn(u)
<1> DEFINE v == Verdict(c, t, full)
           r == Review(c, v, problem)
           p == RepeatStop(c, r)
           u == TurnInputBudget(c, p)
<1>1. /\ v \in State /\ SameCounts(t, v) /\ Stops(t, v) /\ v.tail = t.tail
      /\ t.fresh /\ c.controller # "single_turn" /\ t.decision # "complete"
           => v.decision # "complete"
  BY VerdictKeeps DEF Keeps
<1> HIDE DEF v
<1>2. /\ r \in State /\ SameCounts(v, r) /\ Stops(v, r)
      /\ r.tail = "results" => v.tail = "results"
      /\ r.decision = "complete" => v.decision = "complete"
  BY <1>1, ReviewKeeps
<1> HIDE DEF r
<1>3. StopsSound(c, r)
  BY <1>1, <1>2 DEF Stops, SameCounts, StopsSound
<1>4. /\ p \in State /\ SameCounts(r, p) /\ StopsSound(c, p)
      /\ p.tail = "results" => r.tail = "results"
      /\ p.decision = "complete" => r.decision = "complete" \/ StoppedIn(p)
  BY <1>2, <1>3, RepeatStopKeeps
<1> HIDE DEF p
<1>5. /\ u \in State /\ SameCounts(p, u) /\ StopsSound(c, u)
      /\ StoppedIn(p) => StoppedIn(u)
      /\ u.tail = "results" => p.tail = "results"
      /\ u.decision = "complete" => p.decision = "complete" \/ StoppedIn(u)
  BY <1>4, TurnInputBudgetKeeps
<1> HIDE DEF u
<1>6. SameCounts(t, u)
  BY <1>1, <1>2, <1>4, <1>5 DEF SameCounts
<1>7. LoopVerdict(c, t, full, problem) = u
  BY DEF LoopVerdict, u, p, r, v
<1> QED BY <1>1, <1>2, <1>4, <1>5, <1>6, <1>7

-----------------------------------------------------------------------------
(* The inductive invariant.                                                *)

M == conf.maxIterations

(* Each slice makes at most one call per counted iteration, and one more   *)
(* while a pass is on its way.                                             *)
Counting ==
    /\ slices <= MaxContinuations
    /\ phase = "stages" =>
         s.iteration < M /\ s.calls <= slices * M + s.iteration
    /\ phase \in {"loop", "boundary"} =>
         s.iteration < M /\ s.calls <= slices * M + s.iteration + 1
    /\ s.calls <= slices * M + M

(* What is paid and not yet in the session's cost is what the turn's cost  *)
(* is ahead of what was accounted.                                         *)
Costs ==
    /\ s.accounted <= s.cost
    /\ paid = sessionCost + (s.cost - s.accounted)
    /\ phase \in {"idle", "host"} => s.accounted = s.cost

(* A pass may only start over the budget once for each continuation.       *)
Overspend ==
    /\ late <= slices
    /\ conf.costGuard => late = 0
    /\ phase = "stages" /\ IsOverBudget(conf, s) => late < slices

(* What decides whether a finished turn left results unread.               *)
Excused(c, t) ==
    t.decision = "complete" /\ t.tail = "results" =>
        StoppedIn(t) \/ t.signal = "rejected" \/ c.single
        \/ c.controller = "single_turn"

Unread ==
    /\ phase = "stages" => s.decision = "continue"
    /\ phase \in {"stages", "loop", "boundary", "finalize"} =>
         s.status # "completed"
    /\ phase = "loop" =>
         /\ s.tail = "results" => s.fresh
         /\ s.fresh /\ s.decision = "complete" => s.signal = "rejected"
    /\ phase \in {"boundary", "finalize", "host"} => Excused(conf, s)
    /\ phase = "host" /\ s.status = "completed" => s.decision = "complete"

Inv == /\ TypeOK
       /\ Counting
       /\ Costs
       /\ Overspend
       /\ StopsSound(conf, s)
       /\ Unread

LEMMA Times ==
    ASSUME NEW a \in Nat, NEW b \in Nat, NEW m \in Nat, a <= b
    PROVE  a * m \in Nat /\ a * m <= b * m /\ (a + 1) * m = a * m + m
OBVIOUS

(* A reply adds to the counts what it says, and brings its own results.    *)
LEMMA ReplyKeeps ==
    ASSUME NEW c \in Config, NEW t \in State, StopsSound(c, t),
           NEW tools \in BOOLEAN, NEW refuse \in BOOLEAN,
           NEW signal \in Signals, NEW price \in Nat, NEW size \in Nat
    PROVE  LET u == Reply(c, t, tools, signal, price, size, refuse) IN
           /\ u \in State
           /\ u.calls = t.calls + 1 /\ u.cost = t.cost + price
           /\ u.accounted = t.accounted /\ u.iteration = t.iteration
           /\ u.status = t.status
           /\ u.tail = "results" => u.fresh
           /\ StopsSound(c, u)
<1> DEFINE u == Reply(c, t, tools, signal, price, size, refuse)
           ran == tools /\ c.toolStage
           left == tools /\ ~c.toolStage
           n == IF ran THEN t.toolCalls + 1 ELSE t.toolCalls
           k == IF ran /\ refuse THEN t.refused + 1 ELSE t.refused
           tl == IF ran THEN "results" ELSE "assistant"
           a == t.calls + 1
           b == t.cost + price
           d == t.tokens + size
<1>0. /\ a \in Nat /\ b \in Nat /\ d \in Nat
  BY DEF State
<1>a. /\ ran \in BOOLEAN /\ left \in BOOLEAN /\ n \in Nat /\ k \in Nat
      /\ tl \in {"user", "assistant", "results"}
  <2>1. ran \in BOOLEAN /\ left \in BOOLEAN
    BY Zenon
  <2> HIDE DEF ran, left
  <2>2. n \in Nat /\ k \in Nat
    BY DEF State
  <2>3. tl \in {"user", "assistant", "results"}
    OBVIOUS
  <2> HIDE DEF n, k, tl
  <2> QED BY <2>1, <2>2, <2>3
<1>b. signal \in Signals \cup {"rejected"}
  OBVIOUS
<1>1. u \in State
  <2>1. u = [t EXCEPT !.calls = a, !.cost = b, !.tokens = d,
                      !.signal = signal, !.fresh = ran, !.pending = left,
                      !.toolCalls = n, !.refused = k, !.tail = tl]
    BY DEF Reply
  <2> HIDE DEF u, ran, left, n, k, tl, a, b, d
  <2>2. [t EXCEPT !.calls = a, !.cost = b, !.tokens = d] \in State
    BY <1>0 DEF State
  <2>3. ASSUME NEW x \in State
        PROVE  [x EXCEPT !.signal = signal, !.fresh = ran, !.pending = left]
                 \in State
    BY <1>a, <1>b DEF State
  <2>4. ASSUME NEW x \in State
        PROVE  [x EXCEPT !.toolCalls = n, !.refused = k, !.tail = tl] \in State
    BY <1>a DEF State
  <2>5. u = [[[t EXCEPT !.calls = a, !.cost = b, !.tokens = d]
                EXCEPT !.signal = signal, !.fresh = ran, !.pending = left]
                EXCEPT !.toolCalls = n, !.refused = k, !.tail = tl]
    BY <2>1 DEF State
  <2> QED BY <2>2, <2>3, <2>4, <2>5
<1>2. /\ u.calls = t.calls + 1 /\ u.cost = t.cost + price
      /\ u.accounted = t.accounted /\ u.iteration = t.iteration
      /\ u.status = t.status /\ u.tokens = t.tokens + size
      /\ u.repeat = t.repeat /\ u.budget = t.budget
  BY DEF Reply, State
<1>3. u.refused \in {t.refused, t.refused + 1}
  BY DEF Reply, State
<1>4. u.tail = "results" => u.fresh
  BY DEF Reply, State
<1> HIDE DEF u
<1>5. StopsSound(c, u)
  <2>1. /\ t.calls \in Nat /\ t.refused \in Nat /\ t.tokens \in Nat
        /\ c.stopAfter \in Nat /\ c.hardTokens \in Nat
        /\ t.repeat.final \in Nat /\ t.budget.final \in Nat
    BY DEF State, Config, StopRecord
  <2>2. (t.refused >= c.stopAfter) => (u.refused >= c.stopAfter)
    BY <1>3, <2>1
  <2>3. (t.tokens >= c.hardTokens) => (u.tokens >= c.hardTokens)
    BY <1>2, <2>1
  <2>4. \A f \in Nat : /\ f <= t.calls => f <= u.calls
                      /\ f < t.calls => f < u.calls
    BY <1>2, <2>1
  <2> QED BY <1>2, <2>1, <2>2, <2>3, <2>4 DEF StopsSound, StopSound
<1> QED BY <1>1, <1>2, <1>4, <1>5 DEF u

LEMMA JudgedKeeps ==
    ASSUME NEW c \in Config, NEW t \in State, NEW human \in Verdicts
    PROVE  LET u == Judged(c, t, human) IN
           /\ u \in State
           /\ u.calls = t.calls /\ u.cost = t.cost
           /\ u.accounted = t.accounted /\ u.iteration = t.iteration
           /\ u.status = t.status /\ u.tail = t.tail /\ u.fresh = t.fresh
           /\ u.fresh /\ u.decision = "complete" => u.signal = "rejected"
           /\ u.repeat = t.repeat /\ u.budget = t.budget
           /\ u.refused = t.refused /\ u.tokens = t.tokens
<1> DEFINE u == Judged(c, t, human)
<1>1. Evaluate(c, t) \in Decisions
  BY DEF Evaluate, OfSignal, Decisions
<1>2. t.fresh => Evaluate(c, t) = "continue"
  BY DEF Evaluate
<1>3. CASE c.hitl /\ human = "reject"
  <2>1. u = [t EXCEPT !.decision = "complete", !.signal = "rejected"]
    BY <1>3, Zenon DEF Judged
  <2> QED BY <2>1 DEF State, Decisions
<1>4. CASE c.hitl /\ human = "cancel"
  <2>0. human # "reject"
    BY <1>4
  <2>1. u = [t EXCEPT !.decision = "escalate"]
    BY <1>4, <2>0, Zenon DEF Judged
  <2> QED BY <2>1 DEF State, Decisions
<1>5. CASE ~(c.hitl /\ human = "reject") /\ ~(c.hitl /\ human = "cancel")
  <2> DEFINE d == Evaluate(c, t)
  <2>1. u = [t EXCEPT !.decision = d]
    BY <1>5, Zenon DEF Judged
  <2> HIDE DEF d, u
  <2>2. d \in Decisions /\ (t.fresh => d = "continue")
    BY <1>1, <1>2 DEF d
  <2>3. u \in State /\ u.decision = d /\ u.fresh = t.fresh
    BY <2>1, <2>2 DEF State
  <2>4. /\ u.calls = t.calls /\ u.cost = t.cost
        /\ u.accounted = t.accounted /\ u.iteration = t.iteration
        /\ u.status = t.status /\ u.tail = t.tail
        /\ u.repeat = t.repeat /\ u.budget = t.budget
        /\ u.refused = t.refused /\ u.tokens = t.tokens
    BY <2>1 DEF State
  <2> QED BY <2>2, <2>3, <2>4 DEF u
<1> QED BY <1>3, <1>4, <1>5

(* What the boundary and the accounting leave alone.                       *)
Rest(t, u) ==
    /\ u.calls = t.calls
    /\ u.cost = t.cost
    /\ u.tokens = t.tokens
    /\ u.refused = t.refused
    /\ u.repeat = t.repeat
    /\ u.budget = t.budget

LEMMA RestKeepsStops ==
    ASSUME NEW c, NEW t, NEW u, StopsSound(c, t), Rest(t, u)
    PROVE  StopsSound(c, u) /\ StoppedIn(u) = StoppedIn(t)
BY DEF StopsSound, StoppedIn, Rest

LEMMA LimitsKeeps ==
    ASSUME NEW c \in Config, NEW t \in State,
           t.iteration < c.maxIterations, t.decision = "continue"
    PROVE  LET u == Limits(c, t) IN
           /\ u \in State
           /\ Rest(t, u) /\ u.accounted = t.accounted
           /\ u.iteration = t.iteration + 1
           /\ u.decision \in {"continue", "suspend", "escalate"}
           /\ t.status # "completed" => u.status # "completed"
           /\ u.decision = "continue" =>
                u.iteration < c.maxIterations /\ ~IsOverBudget(c, u)
<1> DEFINE n == [t EXCEPT !.iteration = t.iteration + 1]
           u == Limits(c, t)
<1>1. /\ n \in State /\ n.iteration = t.iteration + 1 /\ Rest(t, n)
      /\ n.accounted = t.accounted /\ n.decision = "continue"
      /\ n.status = t.status
  BY DEF State, Rest
<1>2. c.maxIterations \in Nat
  BY DEF Config
<1>3. \/ u = Suspend(n)
      \/ u = Escalate(n)
      \/ u = n /\ ~IsOverIterations(c, n) /\ ~IsOverBudget(c, n)
  BY DEF Limits
<1> HIDE DEF n, u
<1>4. CASE u = n /\ ~IsOverIterations(c, n) /\ ~IsOverBudget(c, n)
  <2>1. n.iteration \in Nat
    BY <1>1 DEF State
  <2>2. n.iteration < c.maxIterations
    BY <1>2, <1>4, <2>1 DEF IsOverIterations
  <2> QED BY <1>1, <1>4, <2>2, Zenon DEF u
<1>5. CASE u = Suspend(n)
  <2>1. /\ u \in State /\ u.decision = "suspend" /\ u.status = "suspended"
        /\ Rest(n, u) /\ u.accounted = n.accounted /\ u.iteration = n.iteration
    BY <1>1, <1>5 DEF Suspend, State, Decisions, Statuses, Rest
  <2> QED BY <1>1, <2>1 DEF Rest, u
<1>6. CASE u = Escalate(n)
  <2>1. /\ u \in State /\ u.decision = "escalate" /\ u.status = "blocked"
        /\ Rest(n, u) /\ u.accounted = n.accounted /\ u.iteration = n.iteration
    BY <1>1, <1>6 DEF Escalate, State, Decisions, Statuses, Rest
  <2> QED BY <1>1, <2>1 DEF Rest, u
<1> QED BY <1>3, <1>4, <1>5, <1>6

LEMMA SteeredKeeps ==
    ASSUME NEW t \in State
    PROVE  LET u == Steered(t) IN
           /\ u \in State /\ Rest(t, u) /\ u.accounted = t.accounted
           /\ u.iteration = t.iteration /\ u.status = t.status
           /\ u.decision = "continue"
BY DEF Steered, State, Signals, Decisions, Rest

LEMMA OnePassKeeps ==
    ASSUME NEW c \in Config, NEW t \in State
    PROVE  LET u == OnePass(c, t) IN
           /\ u \in State /\ Rest(t, u) /\ u.accounted = t.accounted
           /\ u.iteration = t.iteration /\ u.status = t.status
           /\ u.tail = t.tail /\ u.signal = t.signal
           /\ u.decision = t.decision \/ c.single
BY DEF OnePass, State, Decisions, Rest

LEMMA AccountedKeeps ==
    ASSUME NEW t \in State
    PROVE  LET u == Accounted(t) IN
           /\ u \in State /\ Rest(t, u) /\ u.accounted = t.cost
           /\ u.iteration = t.iteration /\ u.status = t.status
           /\ u.decision = t.decision /\ u.signal = t.signal
           /\ u.tail = t.tail
BY DEF Accounted, State, Rest

(* Folding what is not accounted into the session's cost settles it.       *)
LEMMA FoldSettles ==
    ASSUME NEW t \in State, t.accounted <= t.cost,
           sessionCost \in Nat, FoldCost(t)
    PROVE  /\ sessionCost' \in Nat
           /\ sessionCost' = sessionCost + (t.cost - t.accounted)
<1>1. t.cost \in Nat /\ t.accounted \in Nat
  BY DEF State
<1>2. CASE t.cost > t.accounted
  BY <1>1, <1>2 DEF FoldCost
<1>3. CASE ~(t.cost > t.accounted)
  BY <1>1, <1>3 DEF FoldCost
<1> QED BY <1>2, <1>3

-----------------------------------------------------------------------------
(* Every step preserves the invariant.                                     *)

LEMMA InvInit == Init => Inv
<1> SUFFICES ASSUME Init PROVE Inv
  OBVIOUS
<1>1. NewState \in State
  BY DEF NewState, State, NoStop, StopRecord, Decisions, Signals, Statuses
<1>2. TypeOK
  BY <1>1 DEF Init, TypeOK, Phases
<1>3. conf \in Config /\ M \in Nat
  BY ConfigType DEF Init, Config, M
<1>4. Counting
  BY <1>3, BoundsAssumption DEF Init, NewState, Counting, M
<1>5. Costs
  BY DEF Init, NewState, Costs
<1>6. Overspend
  BY DEF Init, Overspend
<1>7. StopsSound(conf, s)
  BY DEF Init, NewState, NoStop, StopsSound, StopSound
<1>8. Unread
  BY DEF Init, Unread
<1> QED BY <1>2, <1>4, <1>5, <1>6, <1>7, <1>8 DEF Inv

LEMMA InvTypes ==
    ASSUME Inv
    PROVE  /\ conf \in Config /\ M \in Nat /\ M > 0
           /\ s \in State
           /\ s.calls \in Nat /\ s.cost \in Nat /\ s.accounted \in Nat
           /\ s.iteration \in Nat /\ s.tokens \in Nat /\ s.refused \in Nat
           /\ slices \in Nat /\ late \in Nat /\ paid \in Nat
           /\ sessionCost \in Nat
           /\ slices * M \in Nat
           /\ MaxContinuations \in Nat
<1>1. conf \in Config
  BY ConfigType DEF Inv, TypeOK
<1>2. M \in Nat /\ M > 0
  BY <1>1 DEF Config, M
<1>3. /\ s \in State /\ slices \in Nat /\ late \in Nat /\ paid \in Nat
      /\ sessionCost \in Nat
  BY DEF Inv, TypeOK
<1>4. /\ s.calls \in Nat /\ s.cost \in Nat /\ s.accounted \in Nat
      /\ s.iteration \in Nat /\ s.tokens \in Nat /\ s.refused \in Nat
  BY <1>3 DEF State
<1>5. slices * M \in Nat
  BY <1>2, <1>3, Times
<1> QED BY <1>1, <1>2, <1>3, <1>4, <1>5, BoundsAssumption

LEMMA InvStartTurn == Inv /\ StartTurn => Inv'
<1> SUFFICES ASSUME Inv, StartTurn PROVE Inv'
  OBVIOUS
<1> USE DEF M
<1>0. s' = NewState
  BY DEF StartTurn, BeginTurn
<1>1. NewState \in State
  BY DEF NewState, State, NoStop, StopRecord, Decisions, Signals, Statuses
<1>2. TypeOK'
  <2>1. /\ conf' \in Configs /\ phase' \in Phases
        /\ inbox' \in {"open", "queued", "closed"}
    BY DEF Inv, TypeOK, StartTurn, Phases
  <2>2. /\ slices' \in Nat /\ sessionCost' \in Nat /\ turns' \in Nat
        /\ steers' \in Nat /\ paid' \in Nat /\ late' \in Nat
    BY DEF Inv, TypeOK, StartTurn
  <2>3. owed' \in BOOLEAN
    BY DEF StartTurn
  <2> QED BY <1>0, <1>1, <2>1, <2>2, <2>3 DEF TypeOK
<1>3. Counting'
  BY <1>0, InvTypes DEF StartTurn, NewState, Counting
<1>4. Costs'
  <2>1. paid = sessionCost
    BY InvTypes DEF Inv, Costs, StartTurn
  <2>2. /\ s'.accounted = 0 /\ s'.cost = 0 /\ paid' = paid
        /\ sessionCost' = sessionCost
    BY <1>0 DEF NewState, StartTurn
  <2> QED BY <2>1, <2>2, InvTypes DEF Costs
<1>5. Overspend'
  <2>1. conf.costBudget \in Nat
    BY InvTypes DEF Config
  <2>2. ~IsOverBudget(conf, s)'
    BY <1>0, <2>1 DEF IsOverBudget, NewState, StartTurn
  <2> QED BY <2>2 DEF StartTurn, Overspend
<1>6. StopsSound(conf, s)'
  BY <1>0 DEF NewState, NoStop, StopsSound, StopSound
<1>7. Unread'
  BY <1>0 DEF StartTurn, Unread, NewState
<1> QED BY <1>2, <1>3, <1>4, <1>5, <1>6, <1>7 DEF Inv

LEMMA InvStages == Inv /\ Stages => Inv'
<1> SUFFICES ASSUME Inv, Stages PROVE Inv'
  OBVIOUS
<1>0. PICK tools \in BOOLEAN, refuse \in BOOLEAN, signal \in Signals,
           price \in Prices, size \in Sizes, human \in Verdicts :
         /\ s' = Judged(conf,
                    Reply(conf, s, tools, signal, price, size, refuse), human)
         /\ paid' = paid + price
  BY DEF Stages
<1> DEFINE r == Reply(conf, s, tools, signal, price, size, refuse)
<1>p. price \in Nat /\ size \in Nat
  BY BoundsAssumption
<1>r. StopsSound(conf, s)
  BY DEF Inv
<1>1. /\ r \in State
      /\ r.calls = s.calls + 1 /\ r.cost = s.cost + price
      /\ r.accounted = s.accounted /\ r.iteration = s.iteration
      /\ r.status = s.status
      /\ r.tail = "results" => r.fresh
      /\ StopsSound(conf, r)
  BY <1>p, <1>r, InvTypes, ReplyKeeps
<1> HIDE DEF r
<1>2. /\ s' \in State
      /\ s'.calls = r.calls /\ s'.cost = r.cost
      /\ s'.accounted = r.accounted /\ s'.iteration = r.iteration
      /\ s'.status = r.status /\ s'.tail = r.tail /\ s'.fresh = r.fresh
      /\ s'.fresh /\ s'.decision = "complete" => s'.signal = "rejected"
      /\ s'.repeat = r.repeat /\ s'.budget = r.budget
      /\ s'.refused = r.refused /\ s'.tokens = r.tokens
  BY <1>0, <1>1, InvTypes, JudgedKeeps DEF r
<1>3. /\ s'.calls = s.calls + 1 /\ s'.cost = s.cost + price
      /\ s'.accounted = s.accounted /\ s'.iteration = s.iteration
      /\ s'.status = s.status
  BY <1>1, <1>2
<1>f. /\ phase = "stages" /\ phase' = "loop" /\ conf' = conf
      /\ slices' = slices /\ sessionCost' = sessionCost
      /\ inbox' = inbox /\ turns' = turns /\ steers' = steers
      /\ owed' = FALSE
      /\ late' = IF IsOverBudget(conf, s) THEN late + 1 ELSE late
      /\ ~(conf.costGuard /\ IsOverBudget(conf, s))
  BY DEF Stages
<1>4. TypeOK'
  <2>1. /\ conf' \in Configs /\ phase' \in Phases
        /\ inbox' \in {"open", "queued", "closed"}
    BY <1>f DEF Inv, TypeOK, Phases
  <2>2. /\ slices' \in Nat /\ sessionCost' \in Nat /\ turns' \in Nat
        /\ steers' \in Nat /\ late' \in Nat
    BY <1>f DEF Inv, TypeOK
  <2>3. paid' \in Nat
    BY <1>0, <1>p, InvTypes
  <2>4. owed' \in BOOLEAN
    BY <1>f
  <2> QED BY <1>2, <2>1, <2>2, <2>3, <2>4 DEF TypeOK
<1>5. Counting'
  BY <1>3, <1>f, InvTypes DEF Inv, Counting, M
<1>6. Costs'
  BY <1>0, <1>3, <1>f, <1>p, InvTypes DEF Inv, Costs
<1>7. Overspend'
  <2>1. CASE IsOverBudget(conf, s)
    <3>1. late < slices /\ late' = late + 1
      BY <1>f, <2>1 DEF Inv, Overspend
    <3>2. ~conf.costGuard
      BY <1>f, <2>1
    <3> QED BY <1>f, <3>1, <3>2, InvTypes DEF Overspend
  <2>2. CASE ~IsOverBudget(conf, s)
    <3>1. late' = late
      BY <1>f, <2>2
    <3> QED BY <1>f, <3>1 DEF Inv, Overspend
  <2> QED BY <2>1, <2>2
<1>8. StopsSound(conf, s)'
  BY <1>1, <1>2, <1>f DEF StopsSound
<1>9. Unread'
  BY <1>1, <1>2, <1>f DEF Inv, Unread
<1> QED BY <1>4, <1>5, <1>6, <1>7, <1>8, <1>9 DEF Inv

LEMMA InvRunFails == Inv /\ RunFails => Inv'
<1> SUFFICES ASSUME Inv, RunFails PROVE Inv'
  OBVIOUS
<1>0. PICK price \in Prices :
        LET t == [s EXCEPT !.cost = @ + price, !.status = "failed"] IN
        /\ s' = Accounted(t)
        /\ FoldCost(t)
        /\ paid' = paid + price
  BY DEF RunFails
<1> DEFINE b == s.cost + price
           t == [s EXCEPT !.cost = b, !.status = "failed"]
<1>p. price \in Nat
  BY BoundsAssumption
<1>b. b \in Nat
  BY <1>p, InvTypes
<1>2. s' = Accounted(t) /\ FoldCost(t) /\ paid' = paid + price
  BY <1>0
<1>c. b = s.cost + price
  OBVIOUS
<1> HIDE DEF b
<1>1. /\ t \in State /\ t.cost = s.cost + price /\ t.status = "failed"
      /\ t.calls = s.calls /\ t.tokens = s.tokens /\ t.refused = s.refused
      /\ t.repeat = s.repeat /\ t.budget = s.budget
      /\ t.accounted = s.accounted /\ t.decision = s.decision
      /\ t.iteration = s.iteration
  BY <1>b, <1>c, InvTypes DEF State, Statuses
<1> HIDE DEF t
<1>3. /\ s' \in State /\ Rest(t, s') /\ s'.accounted = t.cost
      /\ s'.status = "failed" /\ s'.decision = s.decision
      /\ s'.iteration = s.iteration
  BY <1>1, <1>2, AccountedKeeps
<1>4. s.accounted <= s.cost /\ paid = sessionCost + (s.cost - s.accounted)
  BY DEF Inv, Costs
<1>5. t.accounted <= t.cost
  BY <1>1, <1>4, <1>p, InvTypes
<1>6. sessionCost' \in Nat /\ sessionCost' = sessionCost + (t.cost - t.accounted)
  BY <1>1, <1>2, <1>5, InvTypes, FoldSettles
<1>f. /\ phase = "stages" /\ phase' = "host" /\ conf' = conf
      /\ slices' = slices /\ late' = late
      /\ inbox' = inbox /\ turns' = turns /\ steers' = steers
      /\ owed' = FALSE
  BY DEF RunFails
<1>7. TypeOK'
  <2>1. /\ conf' \in Configs /\ phase' \in Phases
        /\ inbox' \in {"open", "queued", "closed"}
    BY <1>f DEF Inv, TypeOK, Phases
  <2>2. /\ slices' \in Nat /\ turns' \in Nat
        /\ steers' \in Nat /\ late' \in Nat
    BY <1>f DEF Inv, TypeOK
  <2>3. paid' \in Nat
    BY <1>2, <1>p, InvTypes
  <2>4. owed' \in BOOLEAN
    BY <1>f
  <2> QED BY <1>3, <1>6, <2>1, <2>2, <2>3, <2>4 DEF TypeOK
<1>8. Counting'
  BY <1>1, <1>3, <1>f, InvTypes DEF Inv, Counting, M, Rest
<1>9. Costs'
  <2>1. paid' = sessionCost'
    BY <1>1, <1>2, <1>4, <1>6, <1>p, InvTypes
  <2>2. s'.cost = t.cost /\ t.cost \in Nat
    BY <1>1, <1>3 DEF Rest, State
  <2> QED BY <1>3, <1>6, <2>1, <2>2 DEF Costs
<1>10. Overspend'
  BY <1>f DEF Inv, Overspend
<1>11. StopsSound(conf, s)'
  <2>1. Rest(s, s') \/ (/\ s'.calls = s.calls /\ s'.tokens = s.tokens
                        /\ s'.refused = s.refused
                        /\ s'.repeat = s.repeat /\ s'.budget = s.budget)
    BY <1>1, <1>3 DEF Rest
  <2> QED BY <1>f, <2>1 DEF Inv, StopsSound, Rest
<1>12. Unread'
  <2>1. s.decision = "continue"
    BY <1>f DEF Inv, Unread
  <2> QED BY <1>3, <1>f, <2>1 DEF Unread, Excused
<1> QED BY <1>7, <1>8, <1>9, <1>10, <1>11, <1>12 DEF Inv

LEMMA InvLoopStage == Inv /\ LoopStage => Inv'
<1> SUFFICES ASSUME Inv, LoopStage PROVE Inv'
  OBVIOUS
<1>0. PICK full \in BOOLEAN, problem \in BOOLEAN :
        s' = [LoopVerdict(conf, s, full, problem) EXCEPT !.fresh = FALSE]
  BY DEF LoopStage
<1> DEFINE u == LoopVerdict(conf, s, full, problem)
<1>1. /\ u \in State /\ SameCounts(s, u) /\ StopsSound(conf, u)
      /\ u.tail = "results" => s.tail = "results"
      /\ u.decision = "complete" /\ s.fresh =>
           \/ s.decision = "complete"
           \/ conf.controller = "single_turn"
           \/ StoppedIn(u)
  BY InvTypes, LoopVerdictKeeps DEF Inv
<1>2. s' = [u EXCEPT !.fresh = FALSE]
  BY <1>0
<1> HIDE DEF u
<1>3. /\ s' \in State /\ Rest(u, s') /\ s'.accounted = u.accounted
      /\ s'.iteration = u.iteration /\ s'.status = u.status
      /\ s'.decision = u.decision /\ s'.tail = u.tail
      /\ s'.signal = u.signal
  BY <1>1, <1>2 DEF State, Rest
<1>f. /\ phase = "loop" /\ phase' = "boundary"
      /\ UNCHANGED <<conf, slices, inbox, sessionCost, turns, steers, paid,
                     late, owed>>
  BY DEF LoopStage
<1>4. /\ s'.calls = s.calls /\ s'.cost = s.cost
      /\ s'.accounted = s.accounted /\ s'.iteration = s.iteration
      /\ s'.signal = s.signal
      /\ s.status # "completed" => s'.status # "completed"
  BY <1>1, <1>3 DEF SameCounts, Rest
<1>5. TypeOK'
  BY <1>3, <1>f DEF Inv, TypeOK, Phases
<1>6. Counting'
  BY <1>4, <1>f, InvTypes DEF Inv, Counting, M
<1>7. Costs'
  BY <1>4, <1>f, InvTypes DEF Inv, Costs
<1>8. Overspend'
  BY <1>f DEF Inv, Overspend
<1>9. StopsSound(conf, s)'
  BY <1>1, <1>3, <1>f, RestKeepsStops
<1>10. StoppedIn(s') = StoppedIn(u)
  BY <1>3 DEF StoppedIn, Rest
<1>11. Excused(conf, s)'
  <2> SUFFICES ASSUME s'.decision = "complete", s'.tail = "results"
               PROVE  \/ StoppedIn(s') \/ s'.signal = "rejected"
                      \/ conf.single \/ conf.controller = "single_turn"
    BY <1>f DEF Excused
  <2>1. s.fresh
    BY <1>1, <1>3, <1>f DEF Inv, Unread
  <2>2. s.decision = "complete" => s.signal = "rejected"
    BY <1>f, <2>1 DEF Inv, Unread
  <2> QED BY <1>1, <1>3, <1>4, <1>10, <2>1, <2>2
<1>12. Unread'
  BY <1>4, <1>11, <1>f DEF Inv, Unread
<1> QED BY <1>5, <1>6, <1>7, <1>8, <1>9, <1>12 DEF Inv

LEMMA InvBoundary == Inv /\ Boundary => Inv'
<1> SUFFICES ASSUME Inv, Boundary PROVE Inv'
  OBVIOUS
<1> DEFINE t == OnePass(conf, s)
           u == IF TakesSteer(conf, t) THEN Steered(t) ELSE t
<1>0. /\ s' = IF u.decision = "continue" THEN Limits(conf, u) ELSE u
      /\ owed' = (TakesSteer(conf, t) /\ t.decision = "complete")
  BY DEF Boundary
<1>f. /\ phase = "boundary"
      /\ phase' = IF s'.decision = "continue" THEN "stages" ELSE "finalize"
      /\ UNCHANGED <<conf, slices, sessionCost, turns, steers, paid, late>>
      /\ inbox' = CASE TakesSteer(conf, s) -> "open"
                    [] conf.single \/ (s.decision = "complete" /\ inbox = "open")
                                           -> "closed"
                    [] OTHER               -> inbox
  BY DEF Boundary
<1>1. /\ t \in State /\ Rest(s, t) /\ t.accounted = s.accounted
      /\ t.iteration = s.iteration /\ t.status = s.status
      /\ t.tail = s.tail /\ t.signal = s.signal
      /\ t.decision = s.decision \/ conf.single
  BY InvTypes, OnePassKeeps
<1>o. owed' \in BOOLEAN
  BY <1>0, Zenon
<1> HIDE DEF t
<1>2. /\ u \in State /\ Rest(t, u) /\ u.accounted = t.accounted
      /\ u.iteration = t.iteration /\ u.status = t.status
      /\ u.decision = "continue" \/ u = t
  BY <1>1, SteeredKeeps DEF Rest
<1> HIDE DEF u
<1>b. s.iteration < M /\ s.calls <= slices * M + s.iteration + 1
  BY <1>f DEF Inv, Counting
<1>s. s.status # "completed"
  BY <1>f DEF Inv, Unread
<1>3. ASSUME u.decision = "continue"
      PROVE  /\ s' \in State /\ Counting' /\ Costs' /\ Overspend'
             /\ StopsSound(conf, s)' /\ Unread'
  <2>1. s' = Limits(conf, u)
    BY <1>0, <1>3
  <2>2. u.iteration < conf.maxIterations
    BY <1>1, <1>2, <1>b DEF M
  <2>3. /\ s' \in State
        /\ Rest(u, s') /\ s'.accounted = u.accounted
        /\ s'.iteration = u.iteration + 1
        /\ s'.decision \in {"continue", "suspend", "escalate"}
        /\ u.status # "completed" => s'.status # "completed"
        /\ s'.decision = "continue" =>
             s'.iteration < conf.maxIterations /\ ~IsOverBudget(conf, s')
    BY <1>2, <1>3, <2>1, <2>2, InvTypes, LimitsKeeps
  <2>4. /\ s'.calls = s.calls /\ s'.cost = s.cost
        /\ s'.accounted = s.accounted /\ s'.iteration = s.iteration + 1
        /\ s'.status # "completed"
        /\ Rest(s, s')
    BY <1>1, <1>2, <1>s, <2>3 DEF Rest
  <2>5. Counting'
    <3>1. phase' \in {"stages", "finalize"}
      BY <1>f
    <3>2. phase' = "stages" => s'.iteration < M
      BY <1>f, <2>3 DEF M
    <3>3. M' = M /\ slices' = slices
      BY <1>f DEF M
    <3>4. s'.calls <= slices * M + s'.iteration
      BY <1>b, <2>4, InvTypes
    <3>5. s'.calls <= slices * M + M
      BY <1>b, <2>4, InvTypes
    <3> QED BY <3>1, <3>2, <3>3, <3>4, <3>5 DEF Inv, Counting
  <2>6. Costs'
    BY <1>f, <2>4, InvTypes DEF Inv, Costs
  <2>7. Overspend'
    <3>1. phase' = "stages" => ~IsOverBudget(conf, s')
      BY <1>f, <2>3
    <3> QED BY <1>f, <3>1 DEF Inv, Overspend
  <2>8. StopsSound(conf, s)'
    BY <1>f, <2>4, RestKeepsStops DEF Inv
  <2>9. Unread'
    BY <1>f, <2>3, <2>4 DEF Unread, Excused
  <2>10. s' \in State
    BY <2>3
  <2> QED BY <2>5, <2>6, <2>7, <2>8, <2>9, <2>10
<1>4. ASSUME u.decision # "continue"
      PROVE  /\ s' \in State /\ Counting' /\ Costs' /\ Overspend'
             /\ StopsSound(conf, s)' /\ Unread'
  <2>1. s' = u /\ u = t
    BY <1>0, <1>2, <1>4
  <2>2. /\ s' \in State /\ Rest(s, s') /\ s'.accounted = s.accounted
        /\ s'.iteration = s.iteration /\ s'.status = s.status
        /\ s'.tail = s.tail /\ s'.signal = s.signal
        /\ s'.decision = s.decision \/ conf.single
        /\ s'.decision # "continue"
    BY <1>1, <1>4, <2>1
  <2>3. phase' = "finalize"
    BY <1>f, <2>2
  <2>4. s'.calls = s.calls /\ s'.cost = s.cost
    BY <2>2 DEF Rest
  <2>5. Counting'
    BY <1>f, <2>3, <2>4, InvTypes DEF Inv, Counting, M
  <2>6. Costs'
    BY <1>f, <2>2, <2>3, <2>4 DEF Inv, Costs
  <2>7. Overspend'
    BY <1>f, <2>3 DEF Inv, Overspend
  <2>8. StopsSound(conf, s)'
    BY <1>f, <2>2, RestKeepsStops DEF Inv
  <2>9. StoppedIn(s') = StoppedIn(s)
    BY <2>2 DEF StoppedIn, Rest
  <2>10. Excused(conf, s)
    BY <1>f DEF Inv, Unread
  <2>11. Excused(conf, s)'
    BY <1>f, <2>2, <2>9, <2>10 DEF Excused
  <2>12. Unread'
    BY <1>s, <2>2, <2>3, <2>11 DEF Unread
  <2> QED BY <2>2, <2>5, <2>6, <2>7, <2>8, <2>12
<1>5. inbox' \in {"open", "queued", "closed"}
  BY <1>f DEF Inv, TypeOK
<1>6. phase' \in Phases
  BY <1>f DEF Phases
<1>8. TypeOK'
  BY <1>3, <1>4, <1>5, <1>6, <1>o, <1>f DEF Inv, TypeOK
<1> QED BY <1>3, <1>4, <1>8 DEF Inv

LEMMA InvFinalize == Inv /\ Finalize => Inv'
<1> SUFFICES ASSUME Inv, Finalize PROVE Inv'
  OBVIOUS
<1> DEFINE st == RunStatus(s)
           t == [s EXCEPT !.status = st]
<1>f. /\ phase = "finalize" /\ phase' = "host"
      /\ s' = Accounted(t) /\ FoldCost(s)
      /\ UNCHANGED <<conf, slices, inbox, turns, steers, paid, late, owed>>
  BY DEF Finalize
<1>1. st \in Statuses
  BY InvTypes DEF RunStatus, Statuses, State
<1>2. st = "completed" => s.decision = "complete"
  <2>1. s.status # "completed"
    BY <1>f DEF Inv, Unread
  <2> QED BY <2>1 DEF RunStatus
<1> HIDE DEF st
<1>3. /\ t \in State /\ Rest(s, t) /\ t.accounted = s.accounted
      /\ t.status = st /\ t.decision = s.decision /\ t.signal = s.signal
      /\ t.tail = s.tail /\ t.iteration = s.iteration
  BY <1>1, InvTypes DEF State, Rest
<1> HIDE DEF t
<1>4. /\ s' \in State /\ Rest(t, s') /\ s'.accounted = t.cost
      /\ s'.status = st /\ s'.decision = s.decision
      /\ s'.signal = s.signal /\ s'.tail = s.tail
      /\ s'.iteration = s.iteration
  BY <1>3, <1>f, AccountedKeeps
<1>5. Rest(s, s') /\ s'.accounted = s.cost
  BY <1>3, <1>4 DEF Rest
<1>6. /\ sessionCost' \in Nat
      /\ sessionCost' = sessionCost + (s.cost - s.accounted)
  BY <1>f, InvTypes, FoldSettles DEF Inv, Costs
<1>7. TypeOK'
  BY <1>4, <1>6, <1>f DEF Inv, TypeOK, Phases
<1>8. s'.calls = s.calls /\ s'.cost = s.cost
  BY <1>5 DEF Rest
<1>9. Counting'
  BY <1>8, <1>f DEF Inv, Counting, M
<1>10. Costs'
  BY <1>5, <1>6, <1>8, <1>f, InvTypes DEF Inv, Costs
<1>11. Overspend'
  BY <1>f DEF Inv, Overspend
<1>12. StopsSound(conf, s)'
  BY <1>5, <1>f, RestKeepsStops DEF Inv
<1>13. Excused(conf, s)'
  BY <1>4, <1>5, <1>f DEF Inv, Unread, Excused, StoppedIn, Rest
<1>14. Unread'
  BY <1>2, <1>4, <1>13, <1>f DEF Unread
<1> QED BY <1>7, <1>9, <1>10, <1>11, <1>12, <1>14 DEF Inv

LEMMA InvHostContinues == Inv /\ HostContinues => Inv'
<1> SUFFICES ASSUME Inv, HostContinues PROVE Inv'
  OBVIOUS
<1>f. /\ phase = "host" /\ phase' = "stages" /\ slices < MaxContinuations
      /\ slices' = slices + 1 /\ s' = BeginContinuationSlice(s)
      /\ UNCHANGED <<conf, inbox, sessionCost, turns, steers, paid, late, owed>>
  BY DEF HostContinues
<1>1. /\ s' \in State /\ Rest(s, s') /\ s'.accounted = s.accounted
      /\ s'.iteration = 0 /\ s'.status = "running" /\ s'.decision = "continue"
  BY <1>f, InvTypes
     DEF BeginContinuationSlice, State, Rest, Decisions, Statuses, Signals
<1>2. s'.calls = s.calls /\ s'.cost = s.cost
  BY <1>1 DEF Rest
<1>3. TypeOK'
  BY <1>1, <1>f DEF Inv, TypeOK, Phases
<1>4. Counting'
  <2>1. s.calls <= slices * M + M
    BY DEF Inv, Counting
  <2>2. (slices + 1) * M = slices * M + M /\ (slices + 1) * M \in Nat
    BY InvTypes, Times
  <2> QED BY <1>1, <1>2, <1>f, <2>1, <2>2, InvTypes DEF Counting, M
<1>5. Costs'
  BY <1>1, <1>2, <1>f DEF Inv, Costs
<1>6. Overspend'
  BY <1>f, InvTypes DEF Inv, Overspend
<1>7. StopsSound(conf, s)'
  BY <1>1, <1>f, RestKeepsStops DEF Inv
<1>8. Unread'
  BY <1>1, <1>f DEF Unread
<1> QED BY <1>3, <1>4, <1>5, <1>6, <1>7, <1>8 DEF Inv

LEMMA InvHostEnds == Inv /\ HostEnds => Inv'
<1> SUFFICES ASSUME Inv, HostEnds PROVE Inv'
  OBVIOUS
<1>f. /\ phase = "host" /\ phase' = "idle" /\ inbox' = "closed"
      /\ UNCHANGED <<conf, s, slices, sessionCost, turns, steers, paid, late,
                     owed>>
  BY DEF HostEnds
<1> QED BY <1>f DEF Inv, TypeOK, Phases, Counting, M, Costs, Overspend,
               StopsSound, Unread

LEMMA InvCancel == Inv /\ Cancel => Inv'
<1> SUFFICES ASSUME Inv, Cancel PROVE Inv'
  OBVIOUS
<1>f. /\ phase = "stages" /\ phase' = "idle" /\ inbox' = "closed"
      /\ s' = Accounted(s) /\ FoldCost(s) /\ owed' = FALSE
      /\ UNCHANGED <<conf, slices, turns, steers, paid, late>>
  BY DEF Cancel
<1>1. s' \in State /\ Rest(s, s') /\ s'.accounted = s.cost
  BY <1>f, InvTypes, AccountedKeeps
<1>2. /\ sessionCost' \in Nat
      /\ sessionCost' = sessionCost + (s.cost - s.accounted)
  BY <1>f, InvTypes, FoldSettles DEF Inv, Costs
<1>3. s'.calls = s.calls /\ s'.cost = s.cost
  BY <1>1 DEF Rest
<1>4. TypeOK'
  BY <1>1, <1>2, <1>f DEF Inv, TypeOK, Phases
<1>5. Counting'
  BY <1>3, <1>f DEF Inv, Counting, M
<1>6. Costs'
  BY <1>1, <1>2, <1>3, <1>f, InvTypes DEF Inv, Costs
<1>7. Overspend'
  BY <1>f DEF Inv, Overspend
<1>8. StopsSound(conf, s)'
  BY <1>1, <1>f, RestKeepsStops DEF Inv
<1>9. Unread'
  BY <1>f DEF Unread
<1> QED BY <1>4, <1>5, <1>6, <1>7, <1>8, <1>9 DEF Inv

LEMMA InvSteer == Inv /\ Steer => Inv'
<1> SUFFICES ASSUME Inv, Steer PROVE Inv'
  OBVIOUS
<1>f. /\ inbox' = "queued" /\ steers' = steers + 1
      /\ UNCHANGED <<conf, s, phase, slices, sessionCost, turns, paid, late,
                     owed>>
  BY DEF Steer
<1>1. steers' \in Nat
  BY <1>f DEF Inv, TypeOK
<1>2. TypeOK'
  BY <1>1, <1>f DEF Inv, TypeOK
<1> QED BY <1>2, <1>f DEF Inv, Counting, M, Costs, Overspend, StopsSound,
                          Unread

LEMMA InvStutter == Inv /\ UNCHANGED vars => Inv'
BY DEF vars, Inv, TypeOK, Counting, M, Costs, Overspend, StopsSound, Unread

LEMMA InvInvariant == Spec => []Inv
<1>1. Inv /\ [Next]_vars => Inv'
  BY InvStartTurn, InvStages, InvRunFails, InvLoopStage, InvBoundary,
     InvFinalize, InvHostContinues, InvHostEnds, InvCancel, InvSteer,
     InvStutter
     DEF Next, Run
<1> QED BY <1>1, InvInit, PTL DEF Spec

-----------------------------------------------------------------------------
(* The theorems.                                                           *)

(* Every reachable state of a session has its type.                        *)
THEOREM TurnLoopTypes == Spec => []TypeOK
<1>1. Inv => TypeOK
  BY DEF Inv
<1> QED BY <1>1, InvInvariant, PTL

(* Whatever the strategies decide, however often the user steers and the   *)
(* host continues, a turn makes at most max_iterations calls per slice.    *)
THEOREM TurnCallsBounded == Spec => []CallsBounded
<1>1. Inv => CallsBounded
  <2> SUFFICES ASSUME Inv PROVE CallsBounded
    OBVIOUS
  <2>1. s.calls <= slices * M + M /\ slices <= MaxContinuations
    BY DEF Inv, Counting
  <2>2. /\ slices * M <= MaxContinuations * M
        /\ MaxContinuations * M \in Nat
        /\ (MaxContinuations + 1) * M = MaxContinuations * M + M
    BY <2>1, InvTypes, Times
  <2> QED BY <2>1, <2>2, InvTypes DEF CallsBounded, M
<1> QED BY <1>1, InvInvariant, PTL

(* Continuations, failures and cancellations neither lose a price nor      *)
(* count one twice.                                                        *)
THEOREM CostAccountedOnce == Spec => []SessionCostExact
<1>1. Inv => SessionCostExact
  <2> SUFFICES ASSUME Inv, phase \in {"idle", "host"}
               PROVE  sessionCost = paid
    BY DEF SessionCostExact
  <2>1. /\ s.accounted = s.cost
        /\ paid = sessionCost + (s.cost - s.accounted)
    BY DEF Inv, Costs
  <2> QED BY <2>1, InvTypes
<1> QED BY <1>1, InvInvariant, PTL

(* The cost budget can be overrun by one model call for every automatic    *)
(* continuation, not by more, and by none behind a cost guard.             *)
THEOREM OverspendIsBounded == Spec => []OverspendBounded
<1>1. Inv => OverspendBounded
  BY DEF Inv, Overspend, OverspendBounded
<1> QED BY <1>1, InvInvariant, PTL

(* Calls and cost together.                                                *)
THEOREM LimitsAlwaysHold == Spec => []LimitsHold
<1>1. CallsBounded /\ OverspendBounded => LimitsHold
  BY DEF LimitsHold
<1> QED BY <1>1, TurnCallsBounded, OverspendIsBounded, PTL

(* No turn is stopped before the model was asked to report and replied.    *)
THEOREM StopsAreReported == Spec => []StopAfterReport
<1>1. Inv => StopAfterReport
  <2> SUFFICES ASSUME Inv PROVE StopAfterReport
    OBVIOUS
  <2>1. s.repeat.final \in Nat /\ s.budget.final \in Nat /\ s.calls \in Nat
    BY InvTypes DEF State, StopRecord
  <2>2. StopsSound(conf, s)
    BY DEF Inv
  <2>3. s.repeat.stopped => /\ s.repeat.final > 0 /\ s.repeat.final < s.calls
                            /\ s.refused >= conf.stopAfter
    BY <2>2, Zenon DEF StopsSound, StopSound
  <2>4. s.budget.stopped => /\ s.budget.final > 0 /\ s.budget.final < s.calls
                            /\ s.tokens >= conf.hardTokens
    BY <2>2, Zenon DEF StopsSound, StopSound
  <2>5. \A n \in Nat : n > 0 /\ n < s.calls => n \in 1..(s.calls - 1)
    BY <2>1
  <2> QED BY <2>1, <2>3, <2>4, <2>5 DEF StopAfterReport
<1> QED BY <1>1, InvInvariant, PTL

(* A turn reported as completed has left no tool result unread, but for    *)
(* the four reasons the property names.                                    *)
THEOREM ResultsAreRead == Spec => []NoResultsStranded
<1>1. Inv => NoResultsStranded
  BY DEF Inv, Unread, Excused, StoppedIn, NoResultsStranded, Stopped
<1> QED BY <1>1, InvInvariant, PTL
-----------------------------------------------------------------------------
(* How a turn ends.  A stop makes the verdict "complete", but leaves the   *)
(* status a controller may have set with a verdict of its own.  The two    *)
(* disagree in no pipeline whose stops and whose controller's own marks    *)
(* exclude each other.                                                     *)

MayStop(c) == c.stopAfter > 0 \/ c.hardTokens > 0

(* Only without a tool stage are calls pending when stage 16 decides.      *)
SuspendsItself(c) ==
    \/ c.controller = "standard" /\ ~c.toolStage
    \/ /\ c.controller = "multi_dim_budget"
       /\ \E i \in DOMAIN c.dims : c.dims[i] \in {"iteration", "tool_calls"}

EscalatesItself(c) ==
    \/ c.controller = "budget_aware"
    \/ /\ c.controller = "multi_dim_budget"
       /\ \E i \in DOMAIN c.dims : c.dims[i] = "cost"

NeverResumed(c) == MayStop(c) => ~SuspendsItself(c)
NeverBlocked(c) == MayStop(c) => ~EscalatesItself(c)

(* A slice that runs is marked by a limit, a controller, or not at all.    *)
RunMarks == {"running", "suspended", "blocked"}

Unmarked(c, t) ==
    /\ t.status \in RunMarks
    /\ NeverResumed(c) => t.status # "suspended"
    /\ NeverBlocked(c) => t.status # "blocked"

(* The mark agrees with the verdict.                                       *)
MarksFit(c, t) ==
    /\ t.status \in RunMarks
    /\ NeverResumed(c) /\ t.status = "suspended" => t.decision = "suspend"
    /\ NeverBlocked(c) /\ t.status = "blocked" => t.decision = "escalate"

(* A stop that is not configured never happens.                            *)
Off(c, t) ==
    /\ c.stopAfter = 0 => ~t.repeat.stopped
    /\ c.hardTokens = 0 => ~t.budget.stopped

(* A nonempty set of numbers has a least one: the sets 1..n, n in the set, *)
(* are finite, and strict inclusion of finite sets is well-founded.        *)
LEMMA Least ==
    ASSUME NEW T \in SUBSET Nat, T # {}
    PROVE  \E x \in T : \A y \in T : x <= y
<1> DEFINE U == {1 .. x : x \in T}
<1>1. U \subseteq FiniteSubsetsOf(Nat) /\ U # {}
  <2>1. ASSUME NEW x \in T PROVE IsFiniteSet(1 .. x) /\ 1 .. x \subseteq Nat
    BY FS_Interval
  <2> QED BY <2>1 DEF FiniteSubsetsOf
<1> HIDE DEF U
<1>2. PICK u \in U : \A v \in U : ~ (<<v, u>> \in StrictSubsetOrdering(Nat))
  BY ONLY <1>1, FS_StrictSubsetOrderingWellFounded, WFMin
<1>3. PICK x \in T : u = 1 .. x
  BY DEF U
<1>4. ASSUME NEW y \in T, y < x PROVE FALSE
  <2>1. 1 .. y \in U /\ 1 .. y \in SUBSET Nat /\ 1 .. x \in SUBSET Nat
    BY DEF U
  <2>2. 1 .. y \subseteq 1 .. x /\ x \notin 1 .. y /\ x \in 1 .. x
    BY <1>4
  <2> QED BY <1>2, <1>3, <2>1, <2>2 DEF StrictSubsetOrdering
<1> QED BY <1>4

LEMMA SignalMarks ==
    ASSUME NEW c \in Config, NEW t \in State
    PROVE  BySignals(c, t).status = t.status
BY DEF BySignals, State

LEMMA MultiDimMarks ==
    ASSUME NEW c \in Config, NEW t \in State, NEW full \in BOOLEAN,
           c.controller = "multi_dim_budget"
    PROVE  LET u == MultiDimDecide(c, t, full) IN
           \/ u.status = t.status
           \/ u = Suspend(t) /\ SuspendsItself(c)
           \/ u = Escalate(t) /\ EscalatesItself(c)
<1> DEFINE hits == {i \in DOMAIN c.dims : Exceeded(c, t, full, c.dims[i])}
           k == CHOOSE i \in hits : \A j \in hits : i <= j
           u == MultiDimDecide(c, t, full)
           go == [t EXCEPT !.decision = "continue"]
<1>1. go.status = t.status
  BY DEF State
<1>2. CASE hits = {}
  <2>1. u = BySignals(c, t)
    BY <1>2 DEF MultiDimDecide
  <2> QED BY <2>1, SignalMarks
<1>3. CASE hits # {}
  <2>1. hits \in SUBSET Nat
    BY DEF Config
  <2>2. k \in hits
    <3> HIDE DEF hits
    <3>1. \E i \in hits : \A j \in hits : i <= j
      BY <1>3, <2>1, Least
    <3> QED BY <3>1
  <2>3. c.dims[k] \in Dimensions
    BY <2>2 DEF Config
  <2>4. u = CASE c.dims[k] = "tokens" -> IF t.fresh \/ t.pending THEN go
                                         ELSE BySignals(c, t)
              [] c.dims[k] = "cost"   -> Escalate(t)
              [] OTHER                -> Suspend(t)
    BY <1>3 DEF MultiDimDecide
  <2>5. k \in DOMAIN c.dims
    BY <2>2
  <2> HIDE DEF u, k, hits, go
  <2>6. CASE c.dims[k] = "tokens"
    <3>1. u \in {go, BySignals(c, t)}
      BY <2>4, <2>6
    <3> QED BY <1>1, <3>1, SignalMarks DEF u
  <2>7. CASE c.dims[k] = "cost"
    <3>1. u = Escalate(t)
      BY <2>4, <2>7
    <3>2. EscalatesItself(c)
      BY <2>5, <2>7 DEF EscalatesItself
    <3> QED BY <3>1, <3>2 DEF u
  <2>8. CASE c.dims[k] \in {"iteration", "tool_calls"}
    <3>1. u = Suspend(t)
      BY <2>4, <2>8
    <3>2. SuspendsItself(c)
      BY <2>5, <2>8 DEF SuspendsItself
    <3> QED BY <3>1, <3>2 DEF u
  <2> QED BY <2>3, <2>6, <2>7, <2>8 DEF Dimensions
<1> QED BY <1>2, <1>3

(* A verdict marks the slice only with the controllers named above.        *)
LEMMA VerdictMarks ==
    ASSUME NEW c \in Config, NEW t \in State, NEW full \in BOOLEAN,
           c.toolStage => ~t.pending
    PROVE  LET u == Verdict(c, t, full) IN
           \/ u.status = t.status
           \/ u.status = "suspended" /\ u.decision = "suspend" /\ SuspendsItself(c)
           \/ u.status = "blocked" /\ u.decision = "escalate" /\ EscalatesItself(c)
<1> DEFINE u == Decide(c, t, full)
           go == [t EXCEPT !.decision = "continue"]
<1>1. /\ Suspend(t).status = "suspended" /\ Suspend(t).decision = "suspend"
      /\ Escalate(t).status = "blocked" /\ Escalate(t).decision = "escalate"
  BY DEF Suspend, Escalate, State
<1>2. \/ u.status = t.status
      \/ u = Suspend(t) /\ SuspendsItself(c)
      \/ u = Escalate(t) /\ EscalatesItself(c)
  <2>0. c.controller \in Controllers
    BY DEF Config
  <2>g. go.status = t.status
    BY DEF State
  <2>1. CASE c.controller = "standard"
    <3>1. u = StandardDecide(c, t)
      BY <2>1 DEF Decide
    <3>2. u = BySignals(c, t) \/ (u = Suspend(t) /\ t.pending)
      BY <3>1 DEF StandardDecide
    <3> QED BY <2>1, <3>2, SignalMarks DEF SuspendsItself
  <2>2. CASE c.controller = "single_turn"
    BY <2>2 DEF Decide, State
  <2>3. CASE c.controller = "budget_aware"
    <3>1. u = BudgetAwareDecide(c, t, full)
      BY <2>3 DEF Decide
    <3>2. u \in {Escalate(t), go, BySignals(c, t)}
      BY <3>1 DEF BudgetAwareDecide
    <3> HIDE DEF u, go
    <3> QED BY <2>3, <2>g, <3>2, SignalMarks DEF EscalatesItself, u
  <2>4. CASE c.controller = "multi_dim_budget"
    <3>1. u = MultiDimDecide(c, t, full)
      BY <2>4 DEF Decide
    <3> QED BY <2>4, <3>1, MultiDimMarks
  <2> QED BY <2>0, <2>1, <2>2, <2>3, <2>4 DEF Controllers
<1> HIDE DEF u
<1> QED BY <1>1, <1>2 DEF Verdict, u

(* A stop leaves the mark, and ends the turn.                              *)
LEMMA ReportMarks ==
    ASSUME NEW t \in State, NEW f \in {"repeat", "budget"}, NEW due \in BOOLEAN
    PROVE  LET u == ReportThenStop(t, f, due) IN
           /\ u.status = t.status
           /\ u.decision \in {t.decision, "complete"}
           /\ u[f].stopped => u.decision = "complete"
<1> DEFINE u == ReportThenStop(t, f, due)
<1>0. t[f] \in StopRecord
  BY DEF State
<1>1. CASE t[f].stopped
  BY <1>1 DEF ReportThenStop, State
<1>2. CASE ~t[f].stopped /\ t[f].final > 0 /\ t.calls > t[f].final
  <2>0. t[f].final # 0
    BY <1>0, <1>2 DEF StopRecord
  <2>1. u = [t EXCEPT !.decision = "complete", ![f].stopped = TRUE]
    BY <1>2, <2>0, Zenon DEF ReportThenStop
  <2> QED BY <2>1 DEF State
<1>3. CASE /\ ~t[f].stopped /\ t[f].final = 0 /\ t.decision = "continue"
           /\ due /\ t.tail # "user"
  <2> DEFINE tl == IF t.tail = "results" THEN "results" ELSE "user"
  <2>1. u = [t EXCEPT ![f].final = t.calls, !.tail = tl]
    BY <1>3 DEF ReportThenStop
  <2> HIDE DEF tl
  <2>2. u.status = t.status /\ u.decision = t.decision
    BY <2>1 DEF State
  <2>3. u[f].stopped = t[f].stopped
    <3>1. CASE f = "repeat"
      <4>1. u.repeat = [t.repeat EXCEPT !.final = t.calls]
        BY <2>1, <3>1 DEF State
      <4> QED BY <1>0, <3>1, <4>1 DEF StopRecord
    <3>2. CASE f = "budget"
      <4>1. u.budget = [t.budget EXCEPT !.final = t.calls]
        BY <2>1, <3>2 DEF State
      <4> QED BY <1>0, <3>2, <4>1 DEF StopRecord
    <3> QED BY <3>1, <3>2
  <2> QED BY <1>3, <2>2, <2>3
<1>4. CASE u = t /\ ~t[f].stopped
  BY <1>4
<1> QED BY <1>1, <1>2, <1>3, <1>4 DEF ReportThenStop

(* Stage 16 as a whole.                                                    *)
LEMMA LoopMarks ==
    ASSUME NEW c \in Config, NEW t \in State, StopsSound(c, t), Off(c, t),
           Unmarked(c, t), c.toolStage => ~t.pending,
           NEW full \in BOOLEAN, NEW problem \in BOOLEAN
    PROVE  LET u == LoopVerdict(c, t, full, problem) IN
           /\ MarksFit(c, u)
           /\ Off(c, u)
           /\ StoppedIn(u) => u.decision = "complete"
<1> DEFINE v == Verdict(c, t, full)
           r == Review(c, v, problem)
           p == RepeatStop(c, r)
           u == TurnInputBudget(c, p)
<1>n. c.stopAfter \in Nat /\ c.hardTokens \in Nat
  BY DEF Config
<1>1. /\ v \in State /\ SameCounts(t, v) /\ Stops(t, v)
      /\ \/ v.status = t.status
         \/ v.status = "suspended" /\ v.decision = "suspend" /\ SuspendsItself(c)
         \/ v.status = "blocked" /\ v.decision = "escalate" /\ EscalatesItself(c)
  BY VerdictKeeps, VerdictMarks DEF Keeps
<1> HIDE DEF v
<1>2. /\ r \in State /\ SameCounts(v, r) /\ Stops(v, r)
      /\ r.status = v.status
      /\ r.decision = v.decision \/ v.decision = "complete"
  <2>1. r \in State /\ SameCounts(v, r) /\ Stops(v, r)
    BY <1>1, ReviewKeeps
  <2>2. r.status = v.status
    BY <1>1 DEF Review, State
  <2>3. r.decision = v.decision \/ v.decision = "complete"
    BY DEF Review
  <2> QED BY <2>1, <2>2, <2>3
<1> HIDE DEF r
<1>3. StopsSound(c, r) /\ Off(c, r)
  BY <1>1, <1>2 DEF Stops, SameCounts, StopsSound, Off
<1>4. /\ p \in State /\ StopsSound(c, p)
      /\ p.status = r.status /\ p.decision \in {r.decision, "complete"}
      /\ p.repeat.stopped => p.decision = "complete"
      /\ p.budget = r.budget
      /\ c.stopAfter = 0 => p = r
  <2>1. p \in State /\ StopsSound(c, p)
    BY <1>2, <1>3, RepeatStopKeeps
  <2>2. CASE c.stopAfter = 0
    <3>1. p = r
      BY <2>2 DEF RepeatStop
    <3> QED BY <1>3, <2>1, <2>2, <3>1 DEF Off
  <2>3. CASE c.stopAfter # 0
    <3> DEFINE due == r.refused >= c.stopAfter
    <3>1. p = ReportThenStop(r, "repeat", due)
      BY <2>3 DEF RepeatStop
    <3>2. due \in BOOLEAN /\ StopSound(r["repeat"], r.calls, due)
      BY <1>3 DEF StopsSound
    <3> HIDE DEF due, p
    <3>3. p["budget"] = r["budget"]
      BY <1>2, <3>1, <3>2, ReportKeeps
    <3>4. /\ p.status = r.status /\ p.decision \in {r.decision, "complete"}
          /\ p["repeat"].stopped => p.decision = "complete"
      BY <1>2, <3>1, <3>2, ReportMarks
    <3> QED BY <2>1, <2>3, <3>3, <3>4
  <2> QED BY <2>2, <2>3
<1> HIDE DEF p
<1>5. /\ u.status = p.status /\ u.decision \in {p.decision, "complete"}
      /\ u.budget.stopped => u.decision = "complete"
      /\ u.repeat = p.repeat
      /\ c.hardTokens = 0 => u = p
  <2>2. CASE c.hardTokens = 0
    <3>1. u = p
      BY <2>2 DEF TurnInputBudget
    <3>2. ~p.budget.stopped
      BY <1>3, <1>4, <2>2 DEF Off
    <3> QED BY <2>2, <3>1, <3>2
  <2>3. CASE c.hardTokens # 0
    <3> DEFINE due == p.tokens >= c.hardTokens
    <3>1. u = ReportThenStop(p, "budget", due)
      BY <2>3 DEF TurnInputBudget
    <3>2. due \in BOOLEAN /\ StopSound(p["budget"], p.calls, due)
      BY <1>4 DEF StopsSound
    <3> HIDE DEF due, u
    <3>3. u["repeat"] = p["repeat"]
      BY <1>4, <3>1, <3>2, ReportKeeps
    <3>4. /\ u.status = p.status /\ u.decision \in {p.decision, "complete"}
          /\ u["budget"].stopped => u.decision = "complete"
      BY <1>4, <3>1, <3>2, ReportMarks
    <3> QED BY <2>3, <3>3, <3>4
  <2> QED BY <2>2, <2>3
<1> HIDE DEF u
<1>6. Off(c, u)
  BY <1>3, <1>4, <1>5 DEF Off
<1>7. StoppedIn(u) => u.decision = "complete"
  BY <1>4, <1>5 DEF StoppedIn
<1>8. u.status = v.status
  BY <1>2, <1>4, <1>5
<1>9. MarksFit(c, u)
  <2>1. u.status \in RunMarks
    BY <1>1, <1>8 DEF Unmarked, RunMarks
  <2>2. CASE MayStop(c)
    BY <1>1, <1>8, <2>1, <2>2 DEF MarksFit, Unmarked, NeverResumed, NeverBlocked
  <2>3. CASE ~MayStop(c)
    <3>1. c.stopAfter = 0 /\ c.hardTokens = 0
      BY <1>n, <2>3 DEF MayStop
    <3>2. u = r
      BY <1>4, <1>5, <3>1
    <3>3. u.decision = v.decision \/ v.decision = "complete"
      BY <1>2, <3>2
    <3> QED BY <1>1, <1>8, <2>1, <2>3, <3>3
            DEF MarksFit, Unmarked, NeverResumed, NeverBlocked
  <2> QED BY <2>2, <2>3
<1>10. LoopVerdict(c, t, full, problem) = u
  BY DEF LoopVerdict, u, p, r, v
<1> QED BY <1>6, <1>7, <1>9, <1>10

(* What holds of the status and of the stops from place to place.          *)
EndMarks ==
    /\ phase \in {"stages", "loop"} => Unmarked(conf, s)
    /\ phase \in {"boundary", "finalize"} => MarksFit(conf, s)
    /\ phase = "loop" /\ conf.toolStage => ~s.pending
    /\ phase = "finalize" => s.decision # "continue"
    /\ phase = "host" /\ NeverResumed(conf) /\ NeverBlocked(conf) =>
         StatusMatchesDecision

EndStops ==
    /\ Off(conf, s)
    /\ phase = "boundary" /\ StoppedIn(s) => s.decision = "complete"
    /\ NeverResumed(conf) /\ StoppedIn(s) =>
         /\ phase = "stages" => owed
         /\ phase = "finalize" => owed \/ s.decision = "complete"
         /\ phase = "host" => owed \/ s.status # "suspended"

End == EndMarks /\ EndStops

LEMMA JudgedMarks ==
    ASSUME NEW c, NEW t \in State, NEW human
    PROVE  LET u == Judged(c, t, human)
           IN  /\ u.status = t.status /\ u.pending = t.pending
               /\ u.repeat = t.repeat /\ u.budget = t.budget
BY DEF Judged, State

LEMMA EndStages == Inv /\ End /\ Stages => End'
<1> SUFFICES ASSUME Inv, End, Stages PROVE End'
  OBVIOUS
<1>1. PICK tools \in BOOLEAN, refuse \in BOOLEAN, signal \in Signals,
           price \in Prices, size \in Sizes, human \in Verdicts :
         s' = Judged(conf,
                  Reply(conf, s, tools, signal, price, size, refuse), human)
  BY DEF Stages
<1>2. price \in Nat /\ size \in Nat
  BY BoundsAssumption
<1>3. /\ s'.status = s.status
      /\ conf.toolStage => ~s'.pending
      /\ s'.repeat = s.repeat /\ s'.budget = s.budget
  <2> DEFINE r == Reply(conf, s, tools, signal, price, size, refuse)
  <2>1. r \in State
    BY <1>2, InvTypes, ReplyKeeps DEF Inv
  <2>2. r.status = s.status /\ r.repeat = s.repeat /\ r.budget = s.budget
    BY InvTypes DEF Reply, State
  <2>c. r.pending = (tools /\ ~conf.toolStage)
    BY InvTypes DEF Reply, State
  <2> HIDE DEF r
  <2>3. s' = Judged(conf, r, human)
    BY <1>1 DEF r
  <2>4. /\ s'.status = r.status /\ s'.pending = r.pending
        /\ s'.repeat = r.repeat /\ s'.budget = r.budget
    BY <2>1, <2>3, JudgedMarks
  <2> QED BY <2>2, <2>c, <2>4
<1>f. phase = "stages" /\ phase' = "loop" /\ conf' = conf
  BY DEF Stages
<1>4. EndMarks'
  BY <1>3, <1>f DEF End, EndMarks, Unmarked
<1>5. EndStops'
  BY <1>3, <1>f DEF End, EndStops, Off
<1> QED BY <1>4, <1>5 DEF End

LEMMA EndLoopStage == Inv /\ End /\ LoopStage => End'
<1> SUFFICES ASSUME Inv, End, LoopStage PROVE End'
  OBVIOUS
<1>0. PICK full \in BOOLEAN, problem \in BOOLEAN :
         s' = [LoopVerdict(conf, s, full, problem) EXCEPT !.fresh = FALSE]
  BY DEF LoopStage
<1>f. phase = "loop" /\ phase' = "boundary" /\ conf' = conf
  BY DEF LoopStage
<1> DEFINE u == LoopVerdict(conf, s, full, problem)
<1>1. StopsSound(conf, s) /\ Off(conf, s) /\ Unmarked(conf, s)
  BY <1>f DEF Inv, End, EndMarks, EndStops
<1>2. conf.toolStage => ~s.pending
  BY <1>f DEF End, EndMarks
<1>3. u \in State
  BY <1>1, InvTypes, LoopVerdictKeeps
<1>4. /\ MarksFit(conf, u) /\ Off(conf, u)
      /\ StoppedIn(u) => u.decision = "complete"
  BY <1>1, <1>2, InvTypes, LoopMarks
<1> HIDE DEF u
<1>5. /\ s'.status = u.status /\ s'.decision = u.decision
      /\ s'.repeat = u.repeat /\ s'.budget = u.budget
  BY <1>0, <1>3 DEF State, u
<1>6. EndMarks'
  BY <1>4, <1>5, <1>f DEF EndMarks, MarksFit
<1>7. EndStops'
  BY <1>4, <1>5, <1>f DEF EndStops, Off, StoppedIn
<1> QED BY <1>6, <1>7 DEF End

LEMMA LimitMarks ==
    ASSUME NEW c \in Config, NEW t \in State, t.decision = "continue",
           Unmarked(c, t)
    PROVE  LET u == Limits(c, t) IN
           /\ MarksFit(c, u)
           /\ u.decision = "continue" => Unmarked(c, u)
<1> DEFINE n == [t EXCEPT !.iteration = t.iteration + 1]
           u == Limits(c, t)
<1>1. n \in State /\ n.decision = "continue" /\ n.status = t.status
  BY DEF State
<1>2. u = Suspend(n) \/ u = Escalate(n) \/ u = n
  BY DEF Limits
<1> HIDE DEF n, u
<1>3. CASE u = Suspend(n)
  <2>1. u.status = "suspended" /\ u.decision = "suspend"
    BY <1>1, <1>3 DEF Suspend, State
  <2> QED BY <2>1 DEF MarksFit, RunMarks, u
<1>4. CASE u = Escalate(n)
  <2>1. u.status = "blocked" /\ u.decision = "escalate"
    BY <1>1, <1>4 DEF Escalate, State
  <2> QED BY <2>1 DEF MarksFit, RunMarks, u
<1>5. CASE u = n
  <2>1. u.status = t.status
    BY <1>1, <1>5
  <2> QED BY <2>1 DEF MarksFit, Unmarked, u
<1> QED BY <1>2, <1>3, <1>4, <1>5

LEMMA EndBoundary == Inv /\ End /\ Boundary => End'
<1> SUFFICES ASSUME Inv, End, Boundary PROVE End'
  OBVIOUS
<1> DEFINE t == OnePass(conf, s)
           takes == TakesSteer(conf, t)
           u == IF takes THEN Steered(t) ELSE t
<1>0. /\ s' = IF u.decision = "continue" THEN Limits(conf, u) ELSE u
      /\ owed' = (takes /\ t.decision = "complete")
  BY DEF Boundary
<1>f. /\ phase = "boundary" /\ conf' = conf
      /\ phase' = IF s'.decision = "continue" THEN "stages" ELSE "finalize"
  BY DEF Boundary
<1>1. /\ t \in State /\ Rest(s, t) /\ t.status = s.status
      /\ t.iteration = s.iteration
      /\ t.decision = s.decision \/ (s.decision = "continue" /\ t.decision = "complete")
  BY InvTypes, OnePassKeeps DEF OnePass, State
<1>2. takes => t.decision \in {"continue", "complete"}
  BY DEF TakesSteer
<1> HIDE DEF t, takes
<1>3. /\ u \in State /\ Rest(t, u) /\ u.status = t.status
      /\ u.iteration = t.iteration
      /\ takes => u.decision = "continue"
      /\ ~takes => u = t
  BY <1>1, SteeredKeeps DEF Rest
<1> HIDE DEF u
<1>4. /\ s.status \in RunMarks
      /\ NeverResumed(conf) /\ s.status = "suspended" => s.decision = "suspend"
      /\ NeverBlocked(conf) /\ s.status = "blocked" => s.decision = "escalate"
  BY <1>f DEF End, EndMarks, MarksFit
<1>5. Off(conf, s) /\ (StoppedIn(s) => s.decision = "complete")
  BY <1>f DEF End, EndStops
<1>6. CASE u.decision = "continue"
  <2>1. s.decision \in {"continue", "complete"}
    BY <1>1, <1>2, <1>3, <1>6
  <2>2. Unmarked(conf, u)
    BY <1>1, <1>3, <1>4, <2>1 DEF Unmarked
  <2>3. s' = Limits(conf, u)
    BY <1>0, <1>6
  <2>4. MarksFit(conf, s') /\ (s'.decision = "continue" => Unmarked(conf, s'))
    BY <1>3, <1>6, <2>2, <2>3, InvTypes, LimitMarks
  <2>5. s'.repeat = s.repeat /\ s'.budget = s.budget
    <3>1. u.iteration < conf.maxIterations
      BY <1>1, <1>3, <1>f DEF Inv, Counting, M
    <3>2. Rest(u, s')
      BY <1>3, <1>6, <2>3, <3>1, InvTypes, LimitsKeeps
    <3> QED BY <1>1, <1>3, <3>2 DEF Rest
  <2>6. StoppedIn(s) => owed'
    <3> SUFFICES ASSUME StoppedIn(s) PROVE owed'
      OBVIOUS
    <3>1. t.decision = "complete"
      BY <1>1, <1>5
    <3>2. takes
      BY <1>3, <1>6, <3>1
    <3> QED BY <1>0, <3>1, <3>2
  <2>7. EndMarks'
    BY <1>f, <2>4 DEF EndMarks
  <2>8. EndStops'
    BY <1>5, <1>f, <2>5, <2>6 DEF EndStops, Off, StoppedIn
  <2> QED BY <2>7, <2>8 DEF End
<1>7. CASE u.decision # "continue"
  <2>1. s' = u /\ u = t
    BY <1>0, <1>3, <1>7
  <2>2. /\ s'.status = s.status /\ s'.decision # "continue"
        /\ s'.repeat = s.repeat /\ s'.budget = s.budget
        /\ s'.decision = s.decision
           \/ (s.decision = "continue" /\ s'.decision = "complete")
    BY <1>1, <1>7, <2>1 DEF Rest
  <2>3. phase' = "finalize"
    BY <1>f, <2>2
  <2>4. MarksFit(conf, s')
    BY <1>4, <2>2 DEF MarksFit
  <2>5. EndMarks'
    BY <1>f, <2>2, <2>3, <2>4 DEF EndMarks
  <2>6. EndStops'
    BY <1>5, <1>f, <2>2, <2>3 DEF EndStops, Off, StoppedIn
  <2> QED BY <2>5, <2>6 DEF End
<1> QED BY <1>6, <1>7

LEMMA EndFinalize == Inv /\ End /\ Finalize => End'
<1> SUFFICES ASSUME Inv, End, Finalize PROVE End'
  OBVIOUS
<1> DEFINE st == RunStatus(s)
           t == [s EXCEPT !.status = st]
<1>f. /\ phase = "finalize" /\ phase' = "host" /\ conf' = conf /\ owed' = owed
      /\ s' = Accounted(t)
  BY DEF Finalize
<1>1. MarksFit(conf, s) /\ s.decision # "continue" /\ s.decision \in Decisions
  BY <1>f, InvTypes DEF End, EndMarks, State
<1>2. st \in Statuses
  BY InvTypes DEF RunStatus, Statuses, State
<1>3. st # s.status => s.status = "running"
  BY DEF RunStatus
<1>4. s.status = "running" =>
        /\ s.decision = "complete" => st = "completed"
        /\ s.decision = "suspend"  => st = "suspended"
        /\ s.decision = "escalate" => st = "blocked"
        /\ s.decision = "error"    => st = "failed"
  BY DEF RunStatus
<1> HIDE DEF st
<1>5. /\ s'.status = st /\ s'.decision = s.decision
      /\ s'.repeat = s.repeat /\ s'.budget = s.budget
  BY <1>2, <1>f, InvTypes DEF Accounted, State
<1>6. NeverResumed(conf) /\ NeverBlocked(conf) => StatusMatchesDecision'
  BY <1>1, <1>3, <1>4, <1>5
     DEF MarksFit, RunMarks, Decisions, StatusMatchesDecision
<1>7. EndMarks'
  BY <1>6, <1>f DEF EndMarks
<1>8. NeverResumed(conf) /\ s.decision = "complete" => st # "suspended"
  BY <1>1, <1>3, <1>4 DEF MarksFit
<1>9. EndStops'
  BY <1>5, <1>8, <1>f DEF End, EndStops, Off, StoppedIn
<1> QED BY <1>7, <1>9 DEF End

LEMMA EndRest ==
    Inv /\ End /\ (StartTurn \/ RunFails \/ HostContinues \/ HostEnds \/ Cancel
                   \/ Steer \/ UNCHANGED vars) => End'
<1> SUFFICES ASSUME Inv, End PROVE
        (StartTurn \/ RunFails \/ HostContinues \/ HostEnds \/ Cancel \/ Steer
         \/ UNCHANGED vars) => End'
  OBVIOUS
<1>1. ASSUME StartTurn PROVE End'
  <2>1. /\ s'.status = "running" /\ ~s'.repeat.stopped /\ ~s'.budget.stopped
        /\ phase' = "stages"
    BY <1>1 DEF StartTurn, BeginTurn, NewState, NoStop
  <2> QED BY <2>1 DEF End, EndMarks, EndStops, Unmarked, RunMarks, Off, StoppedIn
<1>2. ASSUME RunFails PROVE End'
  <2>1. PICK price \in Prices :
          s' = Accounted([s EXCEPT !.cost = @ + price, !.status = "failed"])
    BY <1>2 DEF RunFails
  <2>2. /\ s'.status = "failed" /\ s'.repeat = s.repeat /\ s'.budget = s.budget
    BY <2>1, InvTypes DEF Accounted, State
  <2>3. phase' = "host" /\ conf' = conf
    BY <1>2 DEF RunFails
  <2> QED BY <2>2, <2>3
          DEF End, EndMarks, EndStops, Off, StatusMatchesDecision
<1>3. ASSUME HostContinues PROVE End'
  <2>1. /\ phase = "host" /\ s.status = "suspended" /\ phase' = "stages"
        /\ conf' = conf /\ owed' = owed
    BY <1>3 DEF HostContinues
  <2>2. /\ s'.status = "running" /\ s'.repeat = s.repeat /\ s'.budget = s.budget
    BY <1>3, InvTypes DEF HostContinues, BeginContinuationSlice, State
  <2> QED BY <2>1, <2>2
          DEF End, EndMarks, EndStops, Unmarked, RunMarks, Off, StoppedIn
<1>4. ASSUME HostEnds PROVE End'
  BY <1>4 DEF HostEnds, End, EndMarks, EndStops
<1>5. ASSUME Cancel PROVE End'
  <2>1. phase' = "idle" /\ conf' = conf /\ s' = Accounted(s)
    BY <1>5 DEF Cancel
  <2>2. s'.repeat = s.repeat /\ s'.budget = s.budget
    BY <2>1, InvTypes DEF Accounted, State
  <2> QED BY <2>1, <2>2 DEF End, EndMarks, EndStops, Off
<1>6. ASSUME Steer PROVE End'
  BY <1>6 DEF Steer, End, EndMarks, EndStops, StatusMatchesDecision
<1>7. ASSUME UNCHANGED vars PROVE End'
  BY <1>7 DEF vars, End, EndMarks, EndStops, StatusMatchesDecision
<1> QED BY <1>1, <1>2, <1>3, <1>4, <1>5, <1>6, <1>7

LEMMA EndAlways == Spec => []End
<1>1. Init => End
  <2> SUFFICES ASSUME Init PROVE End
    OBVIOUS
  <2>1. phase = "idle" /\ ~s.repeat.stopped /\ ~s.budget.stopped
    BY DEF Init, NewState, NoStop
  <2> QED BY <2>1 DEF End, EndMarks, EndStops, Off
<1>2. Inv /\ End /\ [Next]_vars => End'
  BY EndStages, EndLoopStage, EndBoundary, EndFinalize, EndRest DEF Next, Run
<1> QED BY <1>1, <1>2, InvInvariant, PTL DEF Spec

(* Only the model call counts up.                                          *)
LEMMA OnlyStagesCalls ==
    Inv /\ Next /\ phase # "stages" => s'.calls = s.calls \/ s'.calls = 0
<1> SUFFICES ASSUME Inv, Next, phase # "stages"
             PROVE  s'.calls = s.calls \/ s'.calls = 0
  OBVIOUS
<1>1. CASE StartTurn
  BY <1>1 DEF StartTurn, BeginTurn, NewState
<1>2. CASE LoopStage
  <2>1. PICK full \in BOOLEAN, problem \in BOOLEAN :
           s' = [LoopVerdict(conf, s, full, problem) EXCEPT !.fresh = FALSE]
    BY <1>2 DEF LoopStage
  <2> DEFINE u == LoopVerdict(conf, s, full, problem)
  <2>2. u \in State /\ u.calls = s.calls
    BY InvTypes, LoopVerdictKeeps DEF Inv, SameCounts
  <2> HIDE DEF u
  <2>3. s' = [u EXCEPT !.fresh = FALSE]
    BY <2>1 DEF u
  <2> QED BY <2>2, <2>3 DEF State
<1>3. CASE Boundary
  <2> DEFINE t == OnePass(conf, s)
             u == IF TakesSteer(conf, t) THEN Steered(t) ELSE t
  <2>1. s' = IF u.decision = "continue" THEN Limits(conf, u) ELSE u
    BY <1>3 DEF Boundary
  <2>2. t \in State /\ t.calls = s.calls
    BY InvTypes, OnePassKeeps DEF Rest
  <2> HIDE DEF t
  <2>3. u \in State /\ u.calls = s.calls
    BY <2>2, SteeredKeeps DEF Rest
  <2> HIDE DEF u
  <2>4. Limits(conf, u).calls = u.calls
    BY <2>3 DEF Limits, Suspend, Escalate, State
  <2> QED BY <2>1, <2>3, <2>4
<1>4. CASE Finalize \/ HostContinues \/ HostEnds \/ Steer
  BY <1>4, InvTypes DEF Finalize, HostContinues, HostEnds, Steer, Accounted,
                        BeginContinuationSlice, State
<1>5. CASE Stages \/ RunFails \/ Cancel
  BY <1>5 DEF Stages, RunFails, Cancel
<1> QED BY <1>1, <1>2, <1>3, <1>4, <1>5 DEF Next, Run

(* What a host is told of a turn is so, whatever the strategies decide, in *)
(* every pipeline where no stop can meet a mark of the controller's own:   *)
(* a stop follows a report, a completed turn left nothing unread, and the  *)
(* status is the last verdict's.                                           *)
(* (RepeatStop.apply, TurnInputBudget.apply, LoopStage, _end_turn)         *)
THEOREM OutcomesToldAreTrue ==
    ASSUME \A c \in Configs : NeverResumed(c) /\ NeverBlocked(c)
    PROVE  Spec => []OutcomeIsTrue
<1>1. Inv /\ End => StatusMatchesDecision
  BY DEF Inv, TypeOK, End, EndMarks, StatusMatchesDecision
<1>2. StopAfterReport /\ NoResultsStranded /\ StatusMatchesDecision => OutcomeIsTrue
  BY DEF OutcomeIsTrue
<1> QED BY <1>1, <1>2, InvInvariant, EndAlways, StopsAreReported, ResultsAreRead, PTL

(* After a stop no model call follows but to answer the user, unless the   *)
(* controller of a pipeline with stops suspends slices by itself: then the *)
(* host continues a stopped turn.  (RepeatStop.apply, TurnInputBudget.apply)*)
THEOREM StopsAreFinal ==
    ASSUME \A c \in Configs : NeverResumed(c)
    PROVE  Spec => StopIsFinal
<1>1. Inv /\ End /\ Inv' /\ [Next]_vars =>
         [s.calls' > s.calls => ~Stopped \/ owed]_vars
  <2> SUFFICES ASSUME Inv, End, Inv', Next, s.calls' > s.calls
               PROVE  ~Stopped \/ owed
    OBVIOUS
  <2>1. CASE phase = "stages"
    <3>1. NeverResumed(conf)
      BY DEF Inv, TypeOK
    <3> QED BY <2>1, <3>1 DEF End, EndStops, StoppedIn, Stopped
  <2>2. CASE phase # "stages"
    BY <2>2, OnlyStagesCalls, InvTypes
  <2> QED BY <2>1, <2>2
<1> QED BY <1>1, InvInvariant, EndAlways, PTL DEF Spec, StopIsFinal
=============================================================================
