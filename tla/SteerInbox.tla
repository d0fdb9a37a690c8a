----------------------------- MODULE SteerInbox -----------------------------
(***************************************************************************)
(* Mid-turn steering: core/steer.py and the places that drive it.          *)
(*                                                                         *)
(* Host threads offer messages to a running turn through one SteerInbox.   *)
(* The turn's own thread takes them at each loop boundary                  *)
(* (Pipeline._take_steer) and closes the inbox when the turn can take no   *)
(* more (take_or_close, close, and the teardown of host.runner.stream_turn)*)
(* Every locked region of the class is one step; what the turn's thread    *)
(* holds between two locked regions (the messages it took, the messages it *)
(* is rejecting) is state, so an offer or a stop request may come between  *)
(* any two of them.                                                        *)
(***************************************************************************)
EXTENDS Naturals, Sequences

CONSTANTS Msgs,       \* the messages host threads may offer
          Listeners   \* whether a host's per-state event listener may raise

ASSUME ListenersAssumption == Listeners \subseteq BOOLEAN

VARIABLES
  open,        \* SteerInbox._open
  queue,       \* SteerInbox._queue
  outcome,     \* SteerMessage.delivered: "none" until resolved
  notified,    \* how often on_resolve was called for the message
  accepted,    \* every message offer() ever accepted, oldest first
  convo,       \* the steered messages in state.messages, oldest first
  held,        \* _take_steer: in the conversation, not yet resolved
  left,        \* close(): removed from the queue, not yet resolved
  singlePass,  \* state.single_turn, or a pipeline with no loop stage
  raises,      \* this host's listener may raise
  stop,        \* what stop_check answers
  decision,    \* state.loop_decision
  pc           \* where the turn's thread is

inboxVars == <<open, queue, outcome, notified, accepted>>
given     == <<singlePass, raises>>
turnVars  == <<convo, held, left, given, decision, pc>>
vars      == <<inboxVars, turnVars, stop>>

Outcomes  == {"none", "delivered", "rejected"}
Decisions == {"continue", "complete", "suspend", "escalate", "error"}

(* "stages": the stages run.  "boundary": the loop verdict is in, the turn *)
(* is about to ask for messages.  "take": the turn is not stopping.        *)
(* "resolve": messages taken, outcomes pending.  "verdict": the boundary   *)
(* is over.  "reject": close() is resolving what was left.  "over": the    *)
(* run ended and the host is to close the inbox.  "end": the host closed   *)
(* it.                                                                     *)
Places == {"stages", "boundary", "take", "resolve", "verdict",
           "reject", "rejectAtEnd", "over", "end"}

Elements(s) == {s[i] : i \in DOMAIN s}

TypeOK ==
    /\ open \in BOOLEAN
    /\ queue \in Seq(Msgs)
    /\ outcome \in [Msgs -> Outcomes]
    /\ notified \in [Msgs -> Nat]
    /\ accepted \in Seq(Msgs)
    /\ convo \in Seq(Msgs)
    /\ held \in Seq(Msgs)
    /\ left \in Seq(Msgs)
    /\ singlePass \in BOOLEAN
    /\ raises \in Listeners
    /\ stop \in BOOLEAN
    /\ decision \in Decisions
    /\ pc \in Places

Init ==
    /\ open = TRUE
    /\ queue = <<>>
    /\ outcome = [m \in Msgs |-> "none"]
    /\ notified = [m \in Msgs |-> 0]
    /\ accepted = <<>>
    /\ convo = <<>>
    /\ held = <<>>
    /\ left = <<>>
    /\ singlePass \in BOOLEAN
    /\ raises \in Listeners
    /\ stop = FALSE
    /\ decision = "continue"
    /\ pc = "stages"

-----------------------------------------------------------------------------
(* Host threads.                                                           *)

(* offer(): a closed inbox refuses (the call returns None and changes      *)
(* nothing), an open one queues the message.                               *)
Offer(m) ==
    /\ open
    /\ m \notin Elements(accepted)
    /\ queue' = Append(queue, m)
    /\ accepted' = Append(accepted, m)
    /\ UNCHANGED <<open, outcome, notified, turnVars, stop>>

(* The user stops the turn: cancel_check answers TRUE from now on.         *)
RequestStop ==
    /\ ~stop
    /\ stop' = TRUE
    /\ UNCHANGED <<inboxVars, turnVars>>

-----------------------------------------------------------------------------
(* The inbox's operations, as the turn's thread calls them.                *)

(* resolve(): the first outcome sticks; the host is told of that one only. *)
Resolve(m, o) ==
    IF outcome[m] = "none"
    THEN /\ outcome' = [outcome EXCEPT ![m] = o]
         /\ notified' = [notified EXCEPT ![m] = @ + 1]
    ELSE UNCHANGED <<outcome, notified>>

(* Plausible slips in close(), kept to show which properties see them.     *)
CloseForgetsQueue ==
    /\ open' = FALSE
    /\ left' = <<>>
    /\ queue' = <<>>
    /\ UNCHANGED <<outcome, notified, accepted>>

CloseStaysOpen ==
    /\ left' = queue
    /\ queue' = <<>>
    /\ UNCHANGED <<open, outcome, notified, accepted>>

(* The locked part of close().                                             *)
CloseInbox ==
    /\ open' = FALSE
    /\ left' = queue
    /\ queue' = <<>>
    /\ UNCHANGED <<outcome, notified, accepted>>

(* ... and in append_steer: only the newest message's text is added.       *)
JoinNewest(messages) ==
    /\ convo' = IF messages = <<>> THEN convo
                ELSE Append(convo, messages[Len(messages)])
    /\ held' = messages

(* The messages a take hands over join the conversation as one text block, *)
(* before any of them is resolved.                                         *)
Join(messages) ==
    /\ convo' = convo \o messages
    /\ held' = messages

-----------------------------------------------------------------------------
(* The turn's thread.                                                      *)

(* One pass over the stages ends with a verdict.  Single-pass runs turn    *)
(* "continue" into "complete".                                             *)
Pass ==
    /\ pc = "stages"
    /\ \E d \in Decisions :
          decision' = IF singlePass /\ d = "continue" THEN "complete" ELSE d
    /\ pc' = "boundary"
    /\ UNCHANGED <<inboxVars, convo, held, left, given, stop>>

(* A stage raises, or the consumer stops reading the stream.               *)
Abort ==
    /\ pc = "stages"
    /\ decision' = "error"
    /\ pc' = "over"
    /\ UNCHANGED <<inboxVars, convo, held, left, given, stop>>

(* _take_steer, the part before the queue is looked at.                    *)
AtBoundary ==
    /\ pc = "boundary"
    /\ IF singlePass \/ stop
       THEN /\ CloseInbox
            /\ pc' = "reject"
       ELSE /\ pc' = "take"
            /\ UNCHANGED <<inboxVars, left>>
    /\ UNCHANGED <<convo, held, given, decision, stop>>

(* "continue": take(); the inbox stays open.                               *)
TakeQueued ==
    /\ pc = "take"
    /\ decision = "continue"
    /\ queue' = <<>>
    /\ Join(queue)
    /\ pc' = IF queue = <<>> THEN "verdict" ELSE "resolve"
    /\ UNCHANGED <<open, outcome, notified, accepted, left, given,
                   decision, stop>>

(* "complete": take_or_close(), either there is more to do or nothing can  *)
(* arrive any more.  A turn with more to do keeps going.                   *)
TakeOrClose ==
    /\ pc = "take"
    /\ decision = "complete"
    /\ IF queue # <<>>
       THEN /\ queue' = <<>>
            /\ Join(queue)
            /\ decision' = "continue"
            /\ pc' = "resolve"
            /\ UNCHANGED open
       ELSE /\ open' = FALSE
            /\ pc' = "verdict"
            /\ UNCHANGED <<queue, convo, held, decision>>
    /\ UNCHANGED <<outcome, notified, accepted, left, given, stop>>

(* The other verdicts leave the queue alone.                               *)
LeaveQueued ==
    /\ pc = "take"
    /\ decision \notin {"continue", "complete"}
    /\ pc' = "verdict"
    /\ UNCHANGED <<inboxVars, convo, held, left, given, decision, stop>>

(* One message: the user.steer event, then its outcome.                    *)
DeliverOne ==
    /\ pc = "resolve"
    /\ held # <<>>
    /\ Resolve(Head(held), "delivered")
    /\ held' = Tail(held)
    /\ pc' = IF Len(held) = 1 THEN "verdict" ELSE "resolve"
    /\ UNCHANGED <<open, queue, accepted, convo, left, given, decision,
                   stop>>

(* state.add_event calls the host's listener outside any try: it raises    *)
(* out of _take_steer, and the run fails.                                  *)
DeliverRaises ==
    /\ raises
    /\ pc = "resolve"
    /\ decision' = "error"
    /\ held' = <<>>
    /\ pc' = "over"
    /\ UNCHANGED <<inboxVars, convo, left, given, stop>>

(* close() resolves what was left one message at a time, outside the lock. *)
RejectOne ==
    /\ pc \in {"reject", "rejectAtEnd"}
    /\ left # <<>>
    /\ Resolve(Head(left), "rejected")
    /\ left' = Tail(left)
    /\ UNCHANGED <<open, queue, accepted, convo, held, given, decision,
                   pc, stop>>

(* ... and returns, into the loop or into the host's teardown.             *)
CloseReturns ==
    /\ pc \in {"reject", "rejectAtEnd"}
    /\ left = <<>>
    /\ pc' = IF pc = "reject" THEN "verdict" ELSE "end"
    /\ UNCHANGED <<inboxVars, convo, held, left, given, decision, stop>>

(* After the boundary: the next pass; or the slice is over.  A suspended   *)
(* slice may be continued by the host, and a hard limit (iterations, cost) *)
(* may end a slice whose verdict was "continue".                           *)
NextPass ==
    /\ pc = "verdict"
    /\ decision \in {"continue", "suspend"}
    /\ decision' = "continue"
    /\ pc' = "stages"
    /\ UNCHANGED <<inboxVars, convo, held, left, given, stop>>

SliceEnds ==
    /\ pc = "verdict"
    /\ pc' = "over"
    /\ UNCHANGED <<inboxVars, convo, held, left, given, decision, stop>>

(* stream_turn closes the inbox however the run ended.                     *)
HostCloses ==
    /\ pc = "over"
    /\ CloseInbox
    /\ pc' = "rejectAtEnd"
    /\ UNCHANGED <<convo, held, given, decision, stop>>

Turn ==
    \/ Pass \/ Abort \/ AtBoundary \/ TakeQueued \/ TakeOrClose \/ LeaveQueued
    \/ DeliverOne \/ DeliverRaises \/ RejectOne \/ CloseReturns
    \/ NextPass \/ SliceEnds \/ HostCloses

Next == Turn \/ RequestStop \/ \E m \in Msgs : Offer(m)

(* The turn's thread is scheduled while it can run; a turn whose passes    *)
(* never end is excluded by the limits of TurnLoop, here by the strong     *)
(* fairness of leaving the loop.                                           *)
Fairness == WF_vars(Turn) /\ SF_vars(SliceEnds)

Spec     == Init /\ [][Next]_vars
FairSpec == Spec /\ Fairness

-----------------------------------------------------------------------------
(* Properties.                                                             *)

(* A message the inbox accepted is, until it has an outcome, somewhere the *)
(* turn's thread will still look: queued, just taken, or being sent back;  *)
(* unless a listener raises.  (offer, take, take_or_close, close, resolve) *)
NothingLost ==
    ~raises => \A m \in Elements(accepted) :
        outcome[m] = "none" <=>
            m \in Elements(queue) \cup Elements(held) \cup Elements(left)

(* When the host has closed the inbox, every accepted message has its one  *)
(* outcome and the host was told exactly once, unless a listener raises.   *)
(* (contract of steer.py)                                                  *)
OneOutcomeEach ==
    ~raises /\ pc = "end" =>
        \A m \in Elements(accepted) : outcome[m] # "none" /\ notified[m] = 1

(* "delivered" means in the conversation, "rejected" means not in it: the  *)
(* host that sends a rejected message as the next turn never makes the     *)
(* model read it twice.  (_take_steer, close)                              *)
OutcomeTellsTheTruth ==
    \A m \in Elements(accepted) :
        /\ outcome[m] = "delivered" => m \in Elements(convo)
        /\ outcome[m] = "rejected"  => m \notin Elements(convo)

(* The user's messages reach the model in the order they were accepted,    *)
(* with none left out before a later one.  (take, take_or_close)           *)
ConvoIsAcceptedPrefix ==
    /\ Len(convo) <= Len(accepted)
    /\ \A i \in DOMAIN convo : convo[i] = accepted[i]

(* The inbox never opens again, and a message never changes its outcome.   *)
(* (resolve, close)                                                        *)
OutcomesAreFinal ==
    [][/\ ~open => ~open'
       /\ \A m \in Msgs : outcome[m] # "none" => outcome'[m] = outcome[m]]_vars

(* Every accepted message gets its outcome in the end, unless a listener   *)
(* raises.  (stream_turn's teardown)                                       *)
EveryMessageAnswered ==
    \A m \in Msgs :
        (~raises /\ m \in Elements(accepted)) ~> (outcome[m] # "none")

-----------------------------------------------------------------------------
(* The contract this inbox implements.                                     *)

Contract == INSTANCE SteerContract WITH accepting <- open

(* Whatever the threads do, the inbox keeps the contract: an accepted      *)
(* message is delivered in order or sent back after the inbox shut, once.  *)
ContractSpec == Contract!Spec
=============================================================================
