--------------------------- MODULE ApprovalsProofs ---------------------------
(***************************************************************************)
(* What Approvals promises for any set of calls and gates, any permission  *)
(* matrix, and any number of changes of arguments and of answers.          *)
(***************************************************************************)
EXTENDS Approvals, TLAPS

(* What each place a call can be at has been asked and answered.           *)
CallOk(c) ==
    /\ at[c] \notin {"approve", "reject", "cancel"}
    /\ at[c] \in {"start", "pre", "asking"} => row[c] = None
    /\ at[c] = "asking" => asked[c] = digest[c] /\ rule[c][digest[c]] = "ask"
    /\ at[c] = "waiting" =>
          /\ asked[c] = digest[c]
          /\ rule[c][digest[c]] = (IF row[c] = None THEN "ask" ELSE "must")
    /\ at[c] = "entering" => Permitted(c, digest[c])
    /\ ran[c] # None => at[c] = "executed" /\ Permitted(c, ran[c])

(* A request is open only while its waiter waits, and what a human said of *)
(* it is what the waiter will read.                                        *)
HumanOk(q) ==
    /\ future[q] # None => at[q] = "waiting"
    /\ future[q] \in {"approve", "reject"} => accepted[q] = future[q]
    /\ at[q] = "waiting" /\ accepted[q] # None => future[q] = accepted[q]
    /\ at[q] \in {"start", "pre", "asking"} => accepted[q] = None
    /\ accepted[q] \in {"reject", "cancel"} => at[q] \notin {"entering", "executed"}
    /\ q \in Gates =>
          /\ at[q] \in {"start", "waiting", "dead"} \cup Verdicts
          /\ thrown[q] = "timeout" => policy[q] # "indefinite"
          /\ accepted[q] \in {"reject", "cancel"} /\ at[q] = "approve" =>
                thrown[q] = "timeout" /\ policy[q] = "auto_approve"

CallInv  == \A c \in ToolCalls : CallOk(c)
HumanInv == \A q \in Requests : HumanOk(q)
Inv      == TypeOK /\ CallInv /\ HumanInv

-----------------------------------------------------------------------------
(* The type invariant in two halves: what a call carries, and the rest.    *)

TypeCall == /\ rule \in [ToolCalls -> [Versions -> Behaviors]]
            /\ args \in [ToolCalls -> Versions]
            /\ digest \in [ToolCalls -> Versions]
            /\ asked \in [ToolCalls -> Versions \cup {None}]
            /\ ran \in [ToolCalls -> Versions \cup {None}]
            /\ hookSaid \in [ToolCalls -> BOOLEAN]

TypeOpen == /\ policy \in [Gates -> Policies]
            /\ at \in [Requests -> Waits \cup Outcomes]
            /\ future \in [Requests -> Verdicts \cup {None, "pending"}]
            /\ thrown \in [Requests -> {None, "timeout", "cancelled"}]

TypeStore == /\ row \in [Requests -> {None, "pending", "approved", "rejected", "consumed"}]
             /\ expired \in [Requests -> BOOLEAN]
             /\ accepted \in [Requests -> Verdicts \cup {None}]
             /\ answers \in 0..MaxAnswers
             /\ closed \in BOOLEAN

LEMMA Types == TypeOK <=> TypeCall /\ TypeOpen /\ TypeStore
BY Zenon DEF TypeOK, TypeCall, TypeOpen, TypeStore

LEMMA TypesPrimed ==
    ASSUME TypeCall', TypeOpen', TypeStore' PROVE TypeOK'
BY Zenon DEF TypeOK, TypeCall, TypeOpen, TypeStore

(* Every action is about one request, and leaves the others alone.         *)
Alone(q) ==
    /\ UNCHANGED given
    /\ \A p \in Requests \ {q} :
          /\ at'[p] = at[p] /\ future'[p] = future[p] /\ thrown'[p] = thrown[p]
          /\ row'[p] = row[p] /\ accepted'[p] = accepted[p]
    /\ \A c \in ToolCalls \ {q} :
          /\ digest'[c] = digest[c] /\ asked'[c] = asked[c]
          /\ ran'[c] = ran[c] /\ hookSaid'[c] = hookSaid[c]

LEMMA OneRequest ==
    ASSUME Inv, NEW q \in Requests, Alone(q), TypeOK', HumanOk(q)',
           q \in ToolCalls => CallOk(q)'
    PROVE  Inv'
<1>1. ASSUME NEW c \in ToolCalls PROVE CallOk(c)'
  <2>1. CASE c = q
    BY <2>1
  <2>2. CASE c # q
    <3>1. /\ at'[c] = at[c] /\ row'[c] = row[c] /\ accepted'[c] = accepted[c]
          /\ digest'[c] = digest[c] /\ asked'[c] = asked[c] /\ ran'[c] = ran[c]
          /\ hookSaid'[c] = hookSaid[c] /\ rule' = rule
      BY <2>2 DEF Alone, Requests, given
    <3>2. CallOk(c)
      BY DEF Inv, CallInv
    <3> QED BY <3>1, <3>2 DEF CallOk, Permitted
  <2> QED BY <2>1, <2>2
<1>2. ASSUME NEW p \in Requests PROVE HumanOk(p)'
  <2>1. CASE p = q
    BY <2>1
  <2>2. CASE p # q
    <3>1. /\ at'[p] = at[p] /\ future'[p] = future[p] /\ thrown'[p] = thrown[p]
          /\ accepted'[p] = accepted[p] /\ policy' = policy
      BY <2>2 DEF Alone, given
    <3>2. HumanOk(p)
      BY DEF Inv, HumanInv
    <3> QED BY <3>1, <3>2 DEF HumanOk
  <2> QED BY <2>1, <2>2
<1> QED BY <1>1, <1>2 DEF Inv, CallInv, HumanInv

LEMMA InitInv == Init => Inv
<1> SUFFICES ASSUME Init PROVE Inv
  OBVIOUS
<1>0. 0 \in Versions
  BY ApprovalsAssumption DEF Versions
<1>1. TypeCall
  BY <1>0 DEF Init, TypeCall
<1>2. TypeOpen
  BY DEF Init, TypeOpen, Waits
<1>3. TypeStore
  <2>1. row \in [Requests -> {None, "pending", "approved", "rejected", "consumed"}]
    BY DEF Init
  <2>2. expired \in [Requests -> BOOLEAN] /\ accepted \in [Requests -> Verdicts \cup {None}]
    BY DEF Init
  <2>3. answers \in 0..MaxAnswers
    BY ApprovalsAssumption DEF Init
  <2>4. closed \in BOOLEAN
    BY DEF Init
  <2> QED BY <2>1, <2>2, <2>3, <2>4 DEF TypeStore
<1>4. CallInv
  <2> SUFFICES ASSUME NEW c \in ToolCalls PROVE CallOk(c)
    BY DEF CallInv
  <2>1. at[c] = "start" /\ row[c] = None /\ ran[c] = None
    BY DEF Init, Requests
  <2> QED BY <2>1 DEF CallOk, Verdicts
<1>5. HumanInv
  <2> SUFFICES ASSUME NEW q \in Requests PROVE HumanOk(q)
    BY DEF HumanInv
  <2>1. at[q] = "start" /\ future[q] = None /\ accepted[q] = None /\ thrown[q] = None
    BY DEF Init
  <2> QED BY <2>1, ApprovalsAssumption DEF HumanOk
<1> QED BY <1>1, <1>2, <1>3, <1>4, <1>5, Types DEF Inv

-----------------------------------------------------------------------------
(* A tool call.                                                            *)

(* A call is no gate; its facts before the step.                           *)
LEMMA CallFacts ==
    ASSUME Inv, NEW c \in ToolCalls
    PROVE  /\ c \in Requests /\ c \notin Gates
           /\ TypeCall /\ TypeOpen /\ TypeStore /\ CallOk(c) /\ HumanOk(c)
BY ApprovalsAssumption, Types DEF Inv, CallInv, HumanInv, Requests

LEMMA InvDispatch == ASSUME Inv, NEW c \in ToolCalls, Dispatch(c) PROVE Inv'
<1> USE CallFacts
<1>1. TypeCall' /\ TypeStore'
  BY DEF Dispatch, TypeCall, TypeStore, given, call, store, human
<1>2. TypeOpen'
  BY DEF Dispatch, Goes, TypeOpen, given, Waits, Outcomes
<1>3. at'[c] \in {"pre", "denied"} /\ at[c] = "start"
  BY DEF Dispatch, Goes, TypeOpen
<1>4. CallOk(c)' /\ HumanOk(c)'
  BY <1>3 DEF Dispatch, CallOk, HumanOk, call, store, human
<1>5. Alone(c)
  BY DEF Dispatch, Goes, Alone, TypeOpen, given, call, store, human
<1> QED BY <1>1, <1>2, <1>4, <1>5, TypesPrimed, OneRequest

LEMMA InvPreHook == ASSUME Inv, NEW c \in ToolCalls, PreHook(c) PROVE Inv'
<1> USE CallFacts
<1>0. /\ at[c] = "pre" /\ row[c] = None /\ accepted[c] = None /\ ran[c] = None
      /\ UNCHANGED <<given, thrown, expired, hookSaid, human, closed>>
  BY DEF PreHook, CallOk, HumanOk
<1>1. ASSUME NEW v \in Versions, Decides(c, v) PROVE Inv'
  <2>1. /\ args' = [args EXCEPT ![c] = v] /\ digest' = [digest EXCEPT ![c] = v] /\ ran' = ran
        /\ asked' = asked \/ asked' = [asked EXCEPT ![c] = v]
    BY <1>1 DEF Decides
  <2>2. PICK next \in {"entering", "denied", "asking", "waiting"} :
            /\ Goes(c, next)
            /\ next = "entering" => rule[c][v] = "allow" /\ row' = row /\ future' = future
            /\ next = "denied" => row' = row /\ future' = future
            /\ next = "asking" => rule[c][v] = "ask" /\ asked' = [asked EXCEPT ![c] = v]
                                  /\ row' = row /\ future' = future
            /\ next = "waiting" => /\ rule[c][v] = "must" /\ asked' = [asked EXCEPT ![c] = v]
                                   /\ row' = [row EXCEPT ![c] = "pending"]
                                   /\ future' = [future EXCEPT ![c] = "pending"]
    BY <1>1 DEF Decides, Issues
  <2>3. TypeCall'
    BY <1>0, <2>1 DEF TypeCall, given
  <2>4. TypeOpen'
    BY <1>0, <2>2 DEF TypeOpen, Goes, Waits, Outcomes, given
  <2>5. TypeStore'
    BY <1>0, <2>2 DEF TypeStore, human
  <2>6. /\ at'[c] = next /\ digest'[c] = v /\ ran'[c] = None /\ rule' = rule
        /\ accepted'[c] = None
    BY <1>0, <2>1, <2>2 DEF Goes, TypeCall, TypeOpen, given, human
  <2>7. CASE next = "waiting"
    <3>1. asked'[c] = v /\ row'[c] = "pending" /\ future'[c] = "pending" /\ rule[c][v] = "must"
      BY <2>2, <2>7 DEF TypeCall, TypeOpen, TypeStore
    <3>2. CallOk(c)' /\ HumanOk(c)'
      BY <3>1, <2>6, <2>7, ApprovalsAssumption DEF CallOk, HumanOk
    <3>3. Alone(c)
      BY <1>0, <2>1, <2>2, <2>7 DEF Goes, Alone, TypeCall, TypeOpen, TypeStore, human
    <3> QED BY <2>3, <2>4, <2>5, <3>2, <3>3, TypesPrimed, OneRequest
  <2>8. CASE next # "waiting"
    <3>1. row' = row /\ future' = future /\ future[c] = None
      BY <1>0, <2>2, <2>8 DEF HumanOk
    <3>2. next = "asking" => asked'[c] = v
      BY <2>2 DEF TypeCall
    <3>3. CallOk(c)' /\ HumanOk(c)'
      BY <1>0, <3>1, <3>2, <2>2, <2>6, <2>8, ApprovalsAssumption
      DEF CallOk, HumanOk, Permitted
    <3>4. Alone(c)
      BY <1>0, <2>1, <2>2, <3>1 DEF Goes, Alone, TypeCall, TypeOpen, human
    <3> QED BY <2>3, <2>4, <2>5, <3>3, <3>4, TypesPrimed, OneRequest
  <2> QED BY <2>7, <2>8
<1>2. ASSUME Goes(c, "denied"), UNCHANGED <<call, row, future>> PROVE Inv'
  <2>1. TypeCall' /\ TypeStore'
    BY <1>0, <1>2 DEF TypeCall, TypeStore, given, call, human
  <2>2. TypeOpen'
    BY <1>0, <1>2 DEF Goes, TypeOpen, given, Waits, Outcomes
  <2>3. at'[c] = "denied"
    BY <1>2 DEF Goes, TypeOpen
  <2>4. CallOk(c)' /\ HumanOk(c)'
    BY <1>0, <1>2, <2>3 DEF CallOk, HumanOk, call, human
  <2>5. Alone(c)
    BY <1>0, <1>2 DEF Goes, Alone, TypeOpen, call, human
  <2> QED BY <2>1, <2>2, <2>4, <2>5, TypesPrimed, OneRequest
<1>3. args[c] \in Versions /\ (args[c] < MaxVersion => args[c] + 1 \in Versions)
  BY ApprovalsAssumption DEF TypeCall, Versions
<1> QED BY <1>1, <1>2, <1>3 DEF PreHook

(* Only the arguments change: what was decided is kept in the digest.      *)
LEMMA InvEdited == ASSUME Inv, NEW c \in ToolCalls, Edited(c) PROVE Inv'
<1> USE CallFacts
<1>1. TypeCall'
  <2>1. args[c] + 1 \in Versions
    BY ApprovalsAssumption DEF Edited, TypeCall, Versions
  <2> QED BY <2>1 DEF Edited, TypeCall, given
<1>2. TypeOpen' /\ TypeStore'
  BY DEF Edited, TypeOpen, TypeStore, given, store, human
<1>3. CallOk(c)' /\ HumanOk(c)'
  BY DEF Edited, CallOk, HumanOk, Permitted, given, store, human
<1>4. Alone(c)
  BY DEF Edited, Alone, store, human
<1> QED BY <1>1, <1>2, <1>3, <1>4, TypesPrimed, OneRequest

LEMMA InvAskHook == ASSUME Inv, NEW c \in ToolCalls, AskHook(c) PROVE Inv'
<1> USE CallFacts
<1>0. /\ at[c] = "asking" /\ row[c] = None /\ ran[c] = None /\ accepted[c] = None
      /\ future[c] = None /\ asked[c] = digest[c] /\ rule[c][digest[c]] = "ask"
      /\ UNCHANGED <<given, call, thrown, store, human, closed>>
  BY DEF AskHook, CallOk, HumanOk
<1>1. PICK next \in {"denied", "entering", "waiting"} :
          /\ Goes(c, next)
          /\ next = "denied" => UNCHANGED <<future, hookSaid>>
          /\ next = "entering" => hookSaid' = [hookSaid EXCEPT ![c] = TRUE] /\ UNCHANGED future
          /\ next = "waiting" => future' = [future EXCEPT ![c] = "pending"] /\ UNCHANGED hookSaid
  BY DEF AskHook
<1>2. TypeCall' /\ TypeStore'
  BY <1>0, <1>1 DEF TypeCall, TypeStore, given, call, store, human
<1>3. TypeOpen'
  BY <1>0, <1>1 DEF Goes, TypeOpen, given, Waits, Outcomes
<1>4. /\ at'[c] = next
      /\ next = "entering" => hookSaid'[c] /\ future'[c] = None
      /\ next = "waiting" => future'[c] = "pending"
      /\ next = "denied" => future'[c] = None
  BY <1>0, <1>1 DEF Goes, TypeOpen, TypeCall
<1>5. CallOk(c)'
  BY <1>0, <1>4 DEF CallOk, Permitted, given, call, store, human
<1>6. HumanOk(c)'
  BY <1>0, <1>4, ApprovalsAssumption DEF HumanOk, human
<1>7. Alone(c)
  BY <1>0, <1>1 DEF Goes, Alone, TypeOpen, TypeCall, call, store, human
<1> QED BY <1>2, <1>3, <1>5, <1>6, <1>7, TypesPrimed, OneRequest

(* The answer is read and the request is closed.                           *)
LEMMA InvAnswered ==
    ASSUME Inv, NEW c \in ToolCalls, AskAnswered(c) \/ MandatoryAnswered(c)
    PROVE  Inv'
<1> USE CallFacts
<1>0. /\ at[c] = "waiting" /\ ran[c] = None /\ asked[c] = digest[c]
      /\ rule[c][digest[c]] = (IF row[c] = None THEN "ask" ELSE "must")
      /\ accepted[c] # None => future[c] = accepted[c]
      /\ future[c] = "approve" => accepted[c] = "approve"
      /\ future' = [future EXCEPT ![c] = None]
      /\ UNCHANGED <<given, call, thrown, expired, hookSaid, human, closed>>
  BY DEF AskAnswered, MandatoryAnswered, Answered, CallOk, HumanOk
<1>1. PICK next \in {"denied", "entering"} :
          /\ Goes(c, next)
          /\ next = "entering" =>
                /\ future[c] = "approve"
                /\ row'[c] = (IF row[c] = None THEN None ELSE "consumed")
  BY DEF AskAnswered, MandatoryAnswered, TypeStore
<1>r. row' = row \/ row' = [row EXCEPT ![c] = "consumed"]
  BY DEF AskAnswered, MandatoryAnswered
<1>2. TypeCall' /\ TypeStore'
  BY <1>0, <1>r DEF TypeCall, TypeStore, given, call, human
<1>3. TypeOpen'
  BY <1>0, <1>1 DEF Goes, TypeOpen, given, Waits, Outcomes
<1>4. at'[c] = next /\ future'[c] = None
  BY <1>0, <1>1 DEF Goes, TypeOpen
<1>5. CallOk(c)'
  BY <1>0, <1>1, <1>4, ApprovalsAssumption DEF CallOk, Permitted, given, call, human
<1>6. HumanOk(c)'
  BY <1>0, <1>1, <1>4, ApprovalsAssumption DEF HumanOk, human
<1>7. Alone(c)
  BY <1>0, <1>1, <1>r DEF Goes, Alone, TypeOpen, TypeStore, call, human
<1> QED BY <1>2, <1>3, <1>5, <1>6, <1>7, TypesPrimed, OneRequest

LEMMA InvExecutes == ASSUME Inv, NEW c \in ToolCalls, Executes(c) PROVE Inv'
<1> USE CallFacts
<1>0. /\ at[c] = "entering" /\ ran[c] = None /\ future[c] = None
      /\ Permitted(c, digest[c]) /\ accepted[c] \notin {"reject", "cancel"}
      /\ UNCHANGED <<given, args, digest, asked, future, thrown, store, hookSaid,
                     human, closed>>
  BY DEF Executes, CallOk, HumanOk
<1>1. PICK next \in {"denied", "executed"} :
          /\ Goes(c, next)
          /\ next = "denied" => ran' = ran
          /\ next = "executed" => ran' = [ran EXCEPT ![c] = digest[c]]
  BY DEF Executes
<1>2. TypeCall' /\ TypeStore'
  BY <1>0, <1>1 DEF TypeCall, TypeStore, given, store, human
<1>3. TypeOpen'
  BY <1>0, <1>1 DEF Goes, TypeOpen, given, Waits, Outcomes
<1>4. /\ at'[c] = next
      /\ next = "denied" => ran'[c] = None
      /\ next = "executed" => ran'[c] = digest[c]
  BY <1>0, <1>1 DEF Goes, TypeOpen, TypeCall
<1>5. CallOk(c)'
  BY <1>0, <1>4 DEF CallOk, Permitted, given, store, human
<1>6. HumanOk(c)'
  BY <1>0, <1>4, ApprovalsAssumption DEF HumanOk, human
<1>7. Alone(c)
  BY <1>0, <1>1 DEF Goes, Alone, TypeOpen, TypeCall, store, human
<1> QED BY <1>2, <1>3, <1>5, <1>6, <1>7, TypesPrimed, OneRequest

LEMMA InvExpires == ASSUME Inv, NEW c \in ToolCalls, Expires(c) PROVE Inv'
<1> USE CallFacts
<1>1. TypeCall' /\ TypeOpen' /\ TypeStore'
  BY DEF Expires, TypeCall, TypeOpen, TypeStore, given, call, human
<1>2. CallOk(c)' /\ HumanOk(c)'
  BY DEF Expires, CallOk, HumanOk, Permitted, given, call, human
<1>3. Alone(c)
  BY DEF Expires, Alone, call, human
<1> QED BY <1>1, <1>2, <1>3, TypesPrimed, OneRequest

-----------------------------------------------------------------------------
(* A gate.                                                                 *)

LEMMA GateFacts ==
    ASSUME Inv, NEW g \in Gates
    PROVE  /\ g \in Requests /\ g \notin ToolCalls
           /\ TypeCall /\ TypeOpen /\ TypeStore /\ HumanOk(g)
BY ApprovalsAssumption, Types DEF Inv, HumanInv, Requests

LEMMA InvGateAsks == ASSUME Inv, NEW g \in Gates, GateAsks(g) PROVE Inv'
<1> USE GateFacts
<1>1. TypeCall' /\ TypeStore'
  BY DEF GateAsks, TypeCall, TypeStore, given, call, store, human
<1>2. TypeOpen'
  BY DEF GateAsks, Goes, TypeOpen, given, Waits, Outcomes
<1>3. at'[g] = "waiting" /\ at[g] = "start" /\ future'[g] = "pending" /\ accepted[g] = None
  BY DEF GateAsks, Goes, TypeOpen, HumanOk
<1>4. HumanOk(g)'
  BY <1>3, ApprovalsAssumption DEF GateAsks, HumanOk, given, human
<1>5. Alone(g)
  BY DEF GateAsks, Goes, Alone, TypeOpen, given, call, store, human
<1> QED BY <1>1, <1>2, <1>4, <1>5, TypesPrimed, OneRequest

LEMMA InvGateAnswered == ASSUME Inv, NEW g \in Gates, GateAnswered(g) PROVE Inv'
<1> USE GateFacts
<1>0. /\ at[g] = "waiting" /\ future[g] \in Verdicts /\ thrown[g] = None
      /\ future' = [future EXCEPT ![g] = None] /\ Goes(g, future[g])
      /\ UNCHANGED <<given, call, thrown, store, hookSaid, human, closed>>
  BY DEF GateAnswered, Answered, store
<1>1. TypeCall' /\ TypeStore'
  BY <1>0 DEF TypeCall, TypeStore, given, call, store, human
<1>2. TypeOpen'
  BY <1>0 DEF Goes, TypeOpen, given, Waits, Outcomes
<1>3. at'[g] = future[g] /\ future'[g] = None
  BY <1>0 DEF Goes, TypeOpen
<1>4. HumanOk(g)'
  BY <1>0, <1>3, ApprovalsAssumption DEF HumanOk, given, human, Verdicts
<1>5. Alone(g)
  BY <1>0 DEF Goes, Alone, TypeOpen, given, call, store, human
<1> QED BY <1>1, <1>2, <1>4, <1>5, TypesPrimed, OneRequest

-----------------------------------------------------------------------------
(* Any request.                                                            *)

LEMMA RequestFacts ==
    ASSUME Inv, NEW q \in Requests
    PROVE  /\ TypeCall /\ TypeOpen /\ TypeStore /\ HumanOk(q)
           /\ q \in ToolCalls => CallOk(q) /\ q \notin Gates
           /\ q \in ToolCalls \/ q \in Gates
BY ApprovalsAssumption, Types DEF Inv, HumanInv, CallInv, Requests

LEMMA InvTimerFires == ASSUME Inv, NEW q \in Requests, TimerFires(q) PROVE Inv'
<1> USE RequestFacts
<1>1. TypeCall' /\ TypeStore' /\ TypeOpen'
  BY DEF TimerFires, TypeCall, TypeStore, TypeOpen, given, call, store, human
<1>2. HumanOk(q)'
  BY DEF TimerFires, HumanOk, given, human
<1>3. q \in ToolCalls => CallOk(q)'
  BY DEF TimerFires, CallOk, Permitted, given, call, store, human
<1>4. Alone(q)
  BY DEF TimerFires, Alone, call, store, human
<1> QED BY <1>1, <1>2, <1>3, <1>4, TypesPrimed, OneRequest

LEMMA InvInterrupted == ASSUME Inv, NEW q \in Requests, Interrupted(q) PROVE Inv'
<1> USE RequestFacts
<1>0. /\ thrown[q] \in {"timeout", "cancelled"} /\ ~Over(q)
      /\ future' = [future EXCEPT ![q] = None]
      /\ UNCHANGED <<given, call, thrown, store, hookSaid, human, closed>>
  BY DEF Interrupted, TypeOpen
<1>1. PICK next \in {"dead", "denied", "approve", "reject"} :
          /\ Goes(q, next)
          /\ q \in ToolCalls => next \in {"dead", "denied"}
          /\ q \in Gates => next \in {"dead", "approve", "reject"}
          /\ next = "approve" => thrown[q] = "timeout" /\ policy[q] = "auto_approve"
  <2>1. CASE thrown[q] = "cancelled"
    BY <2>1 DEF Interrupted
  <2>2. CASE thrown[q] = "timeout" /\ q \in ToolCalls
    BY <2>2 DEF Interrupted
  <2>3. CASE thrown[q] = "timeout" /\ q \in Gates
    <3>1. policy[q] \in {"auto_approve", "auto_reject"}
      BY <2>3 DEF HumanOk, TypeOpen, Policies
    <3>2. OnTimeout(q) \in {"approve", "reject"}
          /\ (OnTimeout(q) = "approve" => policy[q] = "auto_approve")
      BY <3>1 DEF OnTimeout
    <3>3. Goes(q, OnTimeout(q)) /\ q \notin ToolCalls
      BY <2>3 DEF Interrupted
    <3> QED BY <3>2, <3>3, <2>3
  <2> QED BY <2>1, <2>2, <2>3, <1>0
<1>2. TypeCall' /\ TypeStore'
  BY <1>0 DEF TypeCall, TypeStore, given, call, store, human
<1>3. TypeOpen'
  BY <1>0, <1>1 DEF Goes, TypeOpen, given, Waits, Outcomes, Verdicts
<1>4. at'[q] = next /\ future'[q] = None
  BY <1>0, <1>1 DEF Goes, TypeOpen
<1>5. HumanOk(q)'
  BY <1>0, <1>1, <1>4, ApprovalsAssumption DEF HumanOk, given, human, Verdicts
<1>6. q \in ToolCalls => CallOk(q)'
  <2> SUFFICES ASSUME q \in ToolCalls PROVE CallOk(q)'
    OBVIOUS
  <2>1. ran[q] = None
    BY <1>0 DEF CallOk, Over, Outcomes
  <2> QED BY <1>0, <1>1, <1>4, <2>1 DEF CallOk, call
<1>7. Alone(q)
  BY <1>0, <1>1 DEF Goes, Alone, TypeOpen, call, store, human
<1> QED BY <1>2, <1>3, <1>5, <1>6, <1>7, TypesPrimed, OneRequest

LEMMA InvResume ==
    ASSUME Inv, NEW q \in Requests, NEW v \in Verdicts, Resume(q, v)
    PROVE  Inv'
<1> USE RequestFacts
<1>0. /\ future[q] = "pending" /\ at[q] = "waiting" /\ thrown[q] = None
      /\ accepted[q] = None
      /\ UNCHANGED <<given, at, call, thrown, expired, hookSaid, closed>>
  BY ApprovalsAssumption DEF Resume, HumanOk, Verdicts, TypeStore
<1>1. answers' \in 0..MaxAnswers
  BY ApprovalsAssumption DEF Resume, Answers, TypeStore
<1>2. PICK told \in BOOLEAN, mark \in {None, "approved", "rejected"} :
          /\ told => /\ future' = [future EXCEPT ![q] = v]
                     /\ accepted' = [accepted EXCEPT ![q] = v]
          /\ ~told => UNCHANGED <<future, accepted>>
          /\ mark = None => row[q] = None /\ row' = row
          /\ mark # None => row[q] # None /\ row' = [row EXCEPT ![q] = mark]
  <2>1. CASE row[q] = None /\ row' = row /\ future' = [future EXCEPT ![q] = v]
             /\ accepted' = [accepted EXCEPT ![q] = v]
    BY <2>1
  <2>2. CASE row[q] = "pending" /\ row' = [row EXCEPT ![q] = Decided(v)]
    <3>1. Decided(v) \in {"approved", "rejected"} /\ Decided(v) # None /\ row[q] # None
      BY <2>2, ApprovalsAssumption DEF Decided
    <3>2. \/ future' = [future EXCEPT ![q] = v] /\ accepted' = [accepted EXCEPT ![q] = v]
          \/ UNCHANGED <<future, accepted>>
      BY <2>2, ApprovalsAssumption DEF Resume
    <3> QED BY <2>2, <3>1, <3>2
  <2> QED BY <2>1, <2>2 DEF Resume
<1>3. TypeCall'
  BY <1>0 DEF TypeCall, given, call
<1>4. TypeOpen'
  BY <1>0, <1>2 DEF TypeOpen, given
<1>5. TypeStore'
  BY <1>0, <1>1, <1>2 DEF TypeStore
<1>6. /\ at'[q] = "waiting" /\ (row'[q] = None <=> row[q] = None)
      /\ \/ future'[q] = v /\ accepted'[q] = v
         \/ future'[q] = "pending" /\ accepted'[q] = None
  BY <1>0, <1>2 DEF TypeOpen, TypeStore
<1>7. HumanOk(q)'
  BY <1>0, <1>6, ApprovalsAssumption DEF HumanOk, given, Verdicts
<1>8. q \in ToolCalls => CallOk(q)'
  BY <1>0, <1>6 DEF CallOk, given, call
<1>9. Alone(q)
  BY <1>0, <1>2 DEF Alone, TypeOpen, TypeStore, call
<1> QED BY <1>3, <1>4, <1>5, <1>7, <1>8, <1>9, TypesPrimed, OneRequest

LEMMA InvCancelPending == ASSUME Inv, NEW q \in Requests, CancelPending(q) PROVE Inv'
<1> USE RequestFacts
<1>0. /\ future[q] = "pending" /\ at[q] = "waiting" /\ accepted[q] = None
      /\ future' = [future EXCEPT ![q] = "cancel"]
      /\ UNCHANGED <<given, at, call, thrown, store, hookSaid, accepted, closed>>
  BY ApprovalsAssumption DEF CancelPending, HumanOk, Verdicts, TypeStore
<1>1. answers' \in 0..MaxAnswers
  BY ApprovalsAssumption DEF CancelPending, Answers, TypeStore
<1>2. TypeCall' /\ TypeStore'
  BY <1>0, <1>1 DEF TypeCall, TypeStore, given, call, store
<1>3. TypeOpen'
  BY <1>0 DEF TypeOpen, given, Verdicts
<1>4. HumanOk(q)'
  <2>1. future'[q] = "cancel" /\ at'[q] = "waiting" /\ accepted'[q] = None
    BY <1>0 DEF TypeOpen
  <2> QED BY <2>1, <1>0, ApprovalsAssumption DEF HumanOk, given, Verdicts
<1>5. q \in ToolCalls => CallOk(q)'
  BY <1>0 DEF CallOk, given, call, store
<1>6. Alone(q)
  BY <1>0 DEF Alone, TypeOpen, call, store
<1> QED BY <1>2, <1>3, <1>4, <1>5, <1>6, TypesPrimed, OneRequest

(* aclose() is about all requests at once.                                 *)
LEMMA InvClose == ASSUME Inv, Close PROVE Inv'
<1>0. TypeCall /\ TypeOpen /\ TypeStore
  BY Types DEF Inv
<1>1. TypeCall' /\ TypeStore'
  BY <1>0 DEF Close, TypeCall, TypeStore, given, call, store, human
<1>2. TypeOpen'
  BY <1>0 DEF Close, TypeOpen, given, Verdicts
<1>3. ASSUME NEW c \in ToolCalls PROVE CallOk(c)'
  <2>1. CallOk(c)
    BY DEF Inv, CallInv
  <2> QED BY <2>1 DEF Close, CallOk, Permitted, given, call, store, human
<1>4. ASSUME NEW q \in Requests PROVE HumanOk(q)'
  <2>1. HumanOk(q)
    BY DEF Inv, HumanInv
  <2>2. /\ future'[q] = future[q] \/ (future[q] = "pending" /\ future'[q] = "cancel")
        /\ thrown'[q] = (IF Over(q) THEN thrown[q] ELSE "cancelled")
        /\ at'[q] = at[q] /\ accepted'[q] = accepted[q] /\ policy' = policy
    BY DEF Close, given, human
  <2>3. at[q] = "approve" => Over(q)
    BY DEF Over, Outcomes, Verdicts
  <2>4. accepted[q] \in Verdicts \cup {None}
    BY <1>0 DEF TypeStore
  <2> QED BY <2>1, <2>2, <2>3, <2>4, ApprovalsAssumption DEF HumanOk, Verdicts
<1> QED BY <1>1, <1>2, <1>3, <1>4, TypesPrimed DEF Inv, CallInv, HumanInv

-----------------------------------------------------------------------------
(* The theorems.                                                           *)

LEMMA InvStep == Inv /\ [Next]_vars => Inv'
<1> SUFFICES ASSUME Inv, [Next]_vars PROVE Inv'
  OBVIOUS
<1>1. ASSUME NEW q \in Requests, Request(q) PROVE Inv'
  BY <1>1, InvDispatch, InvPreHook, InvAskHook, InvExecutes, InvAnswered, InvGateAsks,
     InvGateAnswered, InvInterrupted DEF Request
<1>2. ASSUME NEW q \in Requests, TimerFires(q) \/ CancelPending(q) PROVE Inv'
  BY <1>2, InvTimerFires, InvCancelPending
<1>3. ASSUME NEW q \in Requests, NEW v \in Verdicts, Resume(q, v) PROVE Inv'
  BY <1>3, InvResume
<1>4. ASSUME NEW c \in ToolCalls, Edited(c) \/ Expires(c) PROVE Inv'
  BY <1>4, InvEdited, InvExpires
<1>5. CASE Close
  BY <1>5, InvClose
<1>6. CASE UNCHANGED vars
  BY <1>6 DEF vars, given, call, store, human, Inv, TypeOK, CallInv, CallOk, Permitted,
              HumanInv, HumanOk
<1> QED BY <1>1, <1>2, <1>3, <1>4, <1>5, <1>6 DEF Next, Rest

THEOREM Invariance == Spec => []Inv
BY InitInv, InvStep, PTL DEF Spec

(* Every variable keeps its type.                                          *)
THEOREM TypeCorrect == Spec => []TypeOK
BY Invariance, PTL DEF Inv

(* A tool runs with the arguments that were allowed, whoever changes them  *)
(* between the decision and the execution (routers.py).                    *)
THEOREM RunsAsPermittedAlways == Spec => []RunsAsPermitted
<1>1. Inv => RunsAsPermitted
  BY DEF Inv, CallInv, CallOk, RunsAsPermitted
<1> QED BY <1>1, Invariance, PTL

(* A refusal that resume() took is not overtaken by a timer, a retry or a  *)
(* store that fails (Pipeline.resume, HITLStage).                          *)
THEOREM NoStaysNoAlways == Spec => []NoStaysNo
<1>1. Inv => NoStaysNo
  <2> SUFFICES ASSUME Inv, NEW q \in Requests, accepted[q] \in {"reject", "cancel"}
               PROVE  /\ at[q] # "executed"
                      /\ at[q] = "approve" =>
                            thrown[q] = "timeout" /\ policy[q] = "auto_approve"
    BY DEF NoStaysNo
  <2>1. HumanOk(q) /\ (q \in ToolCalls => at[q] # "approve")
    BY DEF Inv, HumanInv, CallInv, CallOk, Verdicts
  <2> QED BY <2>1 DEF HumanOk, Requests
<1> QED BY <1>1, Invariance, PTL
=============================================================================
