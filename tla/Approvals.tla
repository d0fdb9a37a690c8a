------------------------------- MODULE Approvals -------------------------------
(***************************************************************************)
(* The way of a tool call from the model's request to its execution        *)
(* (RegistryRouter._dispatch_with_lifecycle, stages/s10_tool/.../          *)
(* routers.py), the approval requests it and stage 15 (s15_hitl) make of a *)
(* human through Pipeline.resume, and the durable store of mandatory       *)
(* approvals (permission/approval.py).                                     *)
(*                                                                         *)
(* What a call carries is the version of its arguments: a PRE_TOOL_USE     *)
(* hook may replace them, and whoever was handed a reference (the tool's   *)
(* matcher, its on_enter) may change them at any wait; a change never      *)
(* brings earlier arguments back.  `rule' is what evaluate_permission      *)
(* says of each version.  Left out: the names of rules, hook payloads,     *)
(* audit events, tools that rewrite their input from the matrix (no        *)
(* decision of the matrix carries one).                                    *)
(***************************************************************************)
EXTENDS Naturals, FiniteSets

CONSTANTS
  ToolCalls,   \* tool calls of one reply
  Gates,       \* requests that wait in stage 15
  MaxVersion,  \* bound: changes of one call's arguments
  MaxAnswers,  \* bound: calls of resume() and cancel_pending_hitl()
  None

ASSUME ApprovalsAssumption ==
    /\ ToolCalls \cap Gates = {}
    /\ MaxVersion \in Nat /\ MaxAnswers \in Nat
    /\ None \notin Nat
    /\ None \notin {"approve", "reject", "cancel", "pending", "approved",
                    "rejected", "consumed", "timeout", "cancelled"}

Requests  == ToolCalls \cup Gates
Versions  == 0..MaxVersion
Verdicts  == {"approve", "reject", "cancel"}
Behaviors == {"allow", "deny", "ask", "must"}
Policies  == {"indefinite", "auto_approve", "auto_reject"}
Waits     == {"start", "pre", "asking", "waiting", "entering"}
Outcomes  == {"executed", "denied", "dead"} \cup Verdicts

VARIABLES
  rule,       \* the permission matrix, for each version of the arguments
  policy,     \* each gate's TimeoutPolicy
  at,         \* where each request is
  args,       \* tool_input
  digest,     \* final_digest
  asked,      \* the version a human or a policy hook is asked about
  ran,        \* the version the tool was executed with
  future,     \* the request's Future in _pending_hitl: None, "pending",
              \* or the verdict it was given
  thrown,     \* "timeout" or "cancelled": what the waiter will wake up to
  row,        \* the approval store's row
  expired,    \* the envelope's time is up
  hookSaid,   \* a PERMISSION_REQUEST hook approved
  accepted,   \* the verdict a resume() that returned was given
  answers,    \* calls of resume() and cancel_pending_hitl() so far
  closed      \* Pipeline._closed

given == <<rule, policy>>
call  == <<args, digest, asked, ran>>
human == <<accepted, answers>>
store == <<row, expired>>
vars  == <<given, at, call, future, thrown, store, hookSaid, human, closed>>

Over(q) == at[q] \in Outcomes

TypeOK ==
    /\ rule \in [ToolCalls -> [Versions -> Behaviors]]
    /\ policy \in [Gates -> Policies]
    /\ at \in [Requests -> Waits \cup Outcomes]
    /\ args \in [ToolCalls -> Versions]
    /\ digest \in [ToolCalls -> Versions]
    /\ asked \in [ToolCalls -> Versions \cup {None}]
    /\ ran \in [ToolCalls -> Versions \cup {None}]
    /\ future \in [Requests -> Verdicts \cup {None, "pending"}]
    /\ thrown \in [Requests -> {None, "timeout", "cancelled"}]
    /\ row \in [Requests -> {None, "pending", "approved", "rejected", "consumed"}]
    /\ expired \in [Requests -> BOOLEAN]
    /\ hookSaid \in [ToolCalls -> BOOLEAN]
    /\ accepted \in [Requests -> Verdicts \cup {None}]
    /\ answers \in 0..MaxAnswers
    /\ closed \in BOOLEAN

Init ==
    /\ rule \in [ToolCalls -> [Versions -> Behaviors]]
    /\ policy \in [Gates -> Policies]
    /\ at = [q \in Requests |-> "start"]
    /\ args = [c \in ToolCalls |-> 0]
    /\ digest = [c \in ToolCalls |-> 0]
    /\ asked = [c \in ToolCalls |-> None]
    /\ ran = [c \in ToolCalls |-> None]
    /\ future = [q \in Requests |-> None]
    /\ thrown = [q \in Requests |-> None]
    /\ row = [q \in Requests |-> None]
    /\ expired = [q \in Requests |-> FALSE]
    /\ hookSaid = [c \in ToolCalls |-> FALSE]
    /\ accepted = [q \in Requests |-> None]
    /\ answers = 0
    /\ closed = FALSE

-----------------------------------------------------------------------------
(* A tool call.                                                            *)

Goes(q, next) == at' = [at EXCEPT ![q] = next]

(* The first decision only keeps a denied call from its hooks.             *)
Dispatch(c) ==
    /\ at[c] = "start" /\ thrown[c] = None
    /\ Goes(c, IF rule[c][args[c]] = "deny" THEN "denied" ELSE "pre")
    /\ UNCHANGED <<given, call, future, thrown, store, hookSaid, human, closed>>

(* ApprovalEnvelope.issue and store.issue, or an identity, a durable store *)
(* or a requester is missing, or the store is.                             *)
Issues(c) ==
    \/ /\ row' = [row EXCEPT ![c] = "pending"]
       /\ future' = [future EXCEPT ![c] = "pending"]
       /\ Goes(c, "waiting")
    \/ /\ Goes(c, "denied")
       /\ UNCHANGED <<row, future>>

(* The PRE_TOOL_USE hook has answered: the arguments that are final now    *)
(* are validated, digested and decided on.                                 *)
Decides(c, v) ==
    /\ args' = [args EXCEPT ![c] = v]
    /\ digest' = [digest EXCEPT ![c] = v]
    /\ \/ /\ rule[c][v] = "allow"
          /\ Goes(c, "entering")
          /\ UNCHANGED <<asked, row, future>>
       \/ /\ rule[c][v] = "deny"
          /\ Goes(c, "denied")
          /\ UNCHANGED <<asked, row, future>>
       \/ /\ rule[c][v] = "ask"
          /\ Goes(c, "asking")
          /\ asked' = [asked EXCEPT ![c] = v]
          /\ UNCHANGED <<row, future>>
       \/ /\ rule[c][v] = "must"
          /\ Issues(c)
          /\ asked' = [asked EXCEPT ![c] = v]
    /\ UNCHANGED ran

PreHook(c) ==
    /\ at[c] = "pre" /\ thrown[c] = None
    /\ \/ Decides(c, args[c])
       \/ args[c] < MaxVersion /\ Decides(c, args[c] + 1)
       \/ /\ Goes(c, "denied")
          /\ UNCHANGED <<call, row, future>>
    /\ UNCHANGED <<given, thrown, expired, hookSaid, human, closed>>

(* Whoever holds a reference to tool_input changes what is in it.          *)
Edited(c) ==
    /\ ~Over(c)
    /\ args[c] < MaxVersion
    /\ args' = [args EXCEPT ![c] = @ + 1]
    /\ UNCHANGED <<given, at, digest, asked, ran, future, thrown, store,
                   hookSaid, human, closed>>

(* _resolve_ask: the PERMISSION_REQUEST hook answers first, then the       *)
(* requester, and nobody's answer is a denial.                             *)
AskHook(c) ==
    /\ at[c] = "asking" /\ thrown[c] = None
    /\ \/ /\ Goes(c, "denied")
          /\ UNCHANGED <<future, hookSaid>>
       \/ /\ Goes(c, "entering")
          /\ hookSaid' = [hookSaid EXCEPT ![c] = TRUE]
          /\ UNCHANGED future
       \/ /\ Goes(c, "waiting")
          /\ future' = [future EXCEPT ![c] = "pending"]
          /\ UNCHANGED hookSaid
    /\ UNCHANGED <<given, call, thrown, store, human, closed>>

(* The requester's finally drops the registration however it ended.        *)
Answered(q) ==
    /\ at[q] = "waiting" /\ thrown[q] = None
    /\ future[q] \in Verdicts
    /\ future' = [future EXCEPT ![q] = None]
    /\ UNCHANGED <<given, call, thrown, expired, hookSaid, human, closed>>

Consumable(c) == row[c] = "approved" /\ ~expired[c]

(* A request that was called off taken for one that was not refused.       *)
AskAnsweredUnlessRejected(c) ==
    /\ row[c] = None
    /\ Answered(c)
    /\ Goes(c, IF future[c] = "reject" THEN "denied" ELSE "entering")
    /\ UNCHANGED row

AskAnswered(c) ==
    /\ row[c] = None
    /\ Answered(c)
    /\ Goes(c, IF future[c] = "approve" THEN "entering" ELSE "denied")
    /\ UNCHANGED row

(* _resolve_mandatory_approval after the verdict: same arguments, same     *)
(* identity, run not stopped, and the store's row consumed.  A store that  *)
(* fails may have consumed it all the same.                                *)
MandatoryAnswered(c) ==
    /\ row[c] # None
    /\ Answered(c)
    /\ \/ /\ future[c] = "approve" /\ args[c] = asked[c] /\ Consumable(c)
          /\ row' = [row EXCEPT ![c] = "consumed"]
          /\ Goes(c, "entering") \/ Goes(c, "denied")
       \/ Goes(c, "denied") /\ UNCHANGED row

(* No second look at the arguments.                                        *)
ExecutesUnchecked(c) ==
    /\ at[c] = "entering" /\ thrown[c] = None
    /\ Goes(c, "executed")
    /\ ran' = [ran EXCEPT ![c] = args[c]]
    /\ UNCHANGED <<given, args, digest, asked, future, thrown, store, hookSaid,
                   human, closed>>

(* After on_enter: the arguments must still have the digest that was       *)
(* decided on, and the tool gets a copy of them.                           *)
Executes(c) ==
    /\ at[c] = "entering" /\ thrown[c] = None
    /\ IF args[c] = digest[c]
       THEN /\ Goes(c, "executed")
            /\ ran' = [ran EXCEPT ![c] = args[c]]
       ELSE Goes(c, "denied") /\ UNCHANGED ran
    /\ UNCHANGED <<given, args, digest, asked, future, thrown, store, hookSaid,
                   human, closed>>

-----------------------------------------------------------------------------
(* A gate: HITLStage.execute.                                              *)

GateAsks(g) ==
    /\ at[g] = "start" /\ thrown[g] = None
    /\ Goes(g, "waiting")
    /\ future' = [future EXCEPT ![g] = "pending"]
    /\ UNCHANGED <<given, call, thrown, store, hookSaid, human, closed>>

GateAnswered(g) ==
    /\ Answered(g)
    /\ Goes(g, future[g])
    /\ UNCHANGED row

OnTimeout(g) == CASE policy[g] = "auto_approve" -> "approve"
                  [] policy[g] = "auto_reject" -> "reject"

(* asyncio.wait_for gives up; it still does in the loop iteration in which *)
(* the verdict arrived.                                                    *)
TimerFires(q) ==
    /\ at[q] = "waiting" /\ thrown[q] = None
    /\ q \in Gates => policy[q] # "indefinite"
    /\ thrown' = [thrown EXCEPT ![q] = "timeout"]
    /\ UNCHANGED <<given, at, call, future, store, hookSaid, human, closed>>

Interrupted(q) ==
    /\ thrown[q] # None /\ ~Over(q)
    /\ Goes(q, CASE thrown[q] = "cancelled" -> "dead"
                 [] thrown[q] = "timeout" /\ q \in Gates -> OnTimeout(q)
                 [] thrown[q] = "timeout" /\ q \in ToolCalls -> "denied")
    /\ future' = [future EXCEPT ![q] = None]
    /\ UNCHANGED <<given, call, thrown, store, hookSaid, human, closed>>

-----------------------------------------------------------------------------
(* The host.                                                               *)

Answers ==
    /\ answers < MaxAnswers
    /\ answers' = answers + 1

(* resume(token, decision, ...): a mandatory request's verdict goes to the *)
(* store first, from the right actor and for the right arguments, or the   *)
(* call raises and nothing is resolved.  A store that fails may have       *)
(* written.                                                                *)
Decided(v) == IF v = "approve" THEN "approved" ELSE "rejected"

Resume(q, v) ==
    /\ Answers
    /\ future[q] = "pending" /\ thrown[q] = None
    /\ \/ /\ row[q] = None
          /\ future' = [future EXCEPT ![q] = v]
          /\ accepted' = [accepted EXCEPT ![q] = v]
          /\ UNCHANGED row
       \/ /\ row[q] = "pending" /\ ~expired[q]
          /\ row' = [row EXCEPT ![q] = Decided(v)]
          /\ \/ /\ future' = [future EXCEPT ![q] = v]
                /\ accepted' = [accepted EXCEPT ![q] = v]
             \/ UNCHANGED <<future, accepted>>
    /\ UNCHANGED <<given, at, call, thrown, expired, hookSaid, closed>>

CancelPending(q) ==
    /\ Answers
    /\ future[q] = "pending" /\ thrown[q] = None
    /\ future' = [future EXCEPT ![q] = "cancel"]
    /\ UNCHANGED <<given, at, call, thrown, store, hookSaid, accepted, closed>>

Expires(c) ==
    /\ row[c] # None /\ ~expired[c] /\ ~Over(c)
    /\ expired' = [expired EXCEPT ![c] = TRUE]
    /\ UNCHANGED <<given, at, call, future, thrown, row, hookSaid, human, closed>>

(* Only the requests that are open now are released.                       *)
CloseAnswersOnly ==
    /\ ~closed
    /\ closed' = TRUE
    /\ future' = [q \in Requests |->
                    IF future[q] = "pending" /\ thrown[q] = None THEN "cancel" ELSE future[q]]
    /\ UNCHANGED <<given, at, call, thrown, store, hookSaid, human>>

(* aclose(): every open request is answered with CANCEL, then the runs the *)
(* requests belong to are cancelled.                                       *)
Close ==
    /\ ~closed
    /\ closed' = TRUE
    /\ future' = [q \in Requests |->
                    IF future[q] = "pending" /\ thrown[q] = None THEN "cancel" ELSE future[q]]
    /\ thrown' = [q \in Requests |-> IF Over(q) THEN thrown[q] ELSE "cancelled"]
    /\ UNCHANGED <<given, at, call, store, hookSaid, human>>

-----------------------------------------------------------------------------
Request(q) ==
    \/ /\ q \in ToolCalls
       /\ \/ Dispatch(q) \/ PreHook(q) \/ AskHook(q) \/ Executes(q)
          \/ AskAnswered(q) \/ MandatoryAnswered(q)
    \/ /\ q \in Gates
       /\ GateAsks(q) \/ GateAnswered(q)
    \/ Interrupted(q)

Rest == (\A q \in Requests : Over(q)) /\ UNCHANGED vars

Next == \/ \E q \in Requests :
             \/ Request(q) \/ TimerFires(q) \/ CancelPending(q)
             \/ \E v \in Verdicts : Resume(q, v)
        \/ \E c \in ToolCalls : Edited(c) \/ Expires(c)
        \/ Close
        \/ Rest

(* Hooks answer and wait_for's timers fire; nobody has to answer a request.*)
Fairness == \A q \in Requests : WF_vars(Request(q)) /\ WF_vars(TimerFires(q))

Spec == Init /\ [][Next]_vars /\ Fairness

-----------------------------------------------------------------------------
(* Properties.                                                             *)

(* A tool runs with the very arguments that were allowed: by the matrix,   *)
(* or by a hook or a human who was asked about these arguments, and where  *)
(* an approval is mandatory by a human whose approval the store gave out   *)
(* (routers.py:454, "Lifecycle callbacks cannot reuse an approval for      *)
(* changed arguments", and _resolve_mandatory_approval, "Only a durable    *)
(* host-authenticated decision can satisfy mandatory ASK").                *)
Permitted(c, v) ==
    \/ rule[c][v] = "allow"
    \/ rule[c][v] = "ask" /\ asked[c] = v /\ (hookSaid[c] \/ accepted[c] = "approve")
    \/ rule[c][v] = "must" /\ asked[c] = v /\ row[c] = "consumed" /\ accepted[c] = "approve"

RunsAsPermitted == \A c \in ToolCalls : ran[c] # None => Permitted(c, ran[c])

(* A human's "no" that resume() took stays a no: the call does not run and *)
(* the gate does not open, unless the gate's own policy approved on a      *)
(* timeout (HITLStage._await_decision).                                    *)
NoStaysNo ==
    \A q \in Requests : accepted[q] \in {"reject", "cancel"} =>
       /\ at[q] # "executed"
       /\ at[q] = "approve" => thrown[q] = "timeout" /\ policy[q] = "auto_approve"

(* What aclose() leaves waiting ends: every request, whatever it waits for.*)
ClosedReleases == closed ~> \A q \in Requests : Over(q)

(* A verdict resume() returned for is the one the gate acts on             *)
(* (pipeline.py:2958-2960: resume "Resolves the asyncio.Future ... which   *)
(* lets the pipeline continue from where it paused").                      *)
VerdictHonoured ==
    \A g \in Gates :
       accepted[g] # None /\ Over(g) /\ ~closed => at[g] = accepted[g]
=============================================================================
