------------------------------- MODULE ModelCall -------------------------------
(***************************************************************************)
(* One execution of stage 6: a request to the model with its retries and   *)
(* its recovery from a prompt that is too long (stages/s06_api/artifact/   *)
(* default/stage.py), and the loop that answers the tool calls of a reply  *)
(* inside the stage (tool_loop.py); then the accounting of stage 7.        *)
(*                                                                         *)
(* The provider is an environment: it streams pieces of an answer, stops,  *)
(* fails or says nothing.  The host may cancel the run at every await, and *)
(* may refuse every call to the provider (host/execution_scope.py).  A     *)
(* reply is its number, a tool call its reply and its place in it.  Left   *)
(* out: the content of a reply, delays, what a compaction does (module     *)
(* Compaction), how a tool is dispatched (module ToolDispatch).            *)
(***************************************************************************)
EXTENDS Naturals

CONSTANTS
  MaxRetries,     \* the retry strategy's: 0 is NoRetry
  TimeoutRetries, \* timeouts.timeout_retries()
  MaxInner,       \* max_inner_turns of the internal loop
  MaxTools        \* bound: tool calls in a reply

ASSUME ModelCallAssumption ==
    /\ MaxRetries \in Nat /\ TimeoutRetries \in Nat
    /\ MaxInner \in Nat \ {0} /\ MaxTools \in Nat

VARIABLES
  cfg,      \* the loop is internal, the call streams, the client is a CLI,
            \* the tools of a round run in parallel
  at,       \* where the stage is
  replies,  \* replies the provider has given
  attempt, timeouts, \* of the retry wrapper
  recovered,\* the prompt was compacted for this request
  calls, waited, \* calls of the provider for this request, and their timeouts
  latch,    \* state.shared["_api_ttft_emitted"]
  screen,   \* what a host shows of this request, that heeds stream_restart
  said,     \* what the provider has said in this attempt
  whole,    \* message_complete was among it
  wanted,   \* tool calls of the reply in hand
  todo, running, \* those of the round to start, and those at work
  rounds,   \* turns of the internal loop
  ran,      \* how often each tool call was started
  kept,     \* tool calls that are in the messages with their results
  consumed, \* replies in consumed_usage
  billed    \* how often each reply is in state.token_usage

request == <<attempt, timeouts, recovered, calls, waited>>
shown   == <<latch, screen, said, whole>>
loop    == <<wanted, todo, running, rounds>>
ledger  == <<ran, kept, consumed, billed>>
vars    == <<cfg, at, replies, request, shown, loop, ledger>>

Replies  == 1..(MaxInner + 1)
ToolIds  == Replies \X (1..MaxTools)
Pieces   == Nat \X {"text", "tool"}   \* the call it belongs to
Configs  == [internal : BOOLEAN, stream : BOOLEAN, cli : BOOLEAN, parallel : BOOLEAN]

TypeOK ==
    /\ cfg \in Configs
    /\ at \in {"boundary", "open", "sleep", "overflow", "round", "relief",
               "returned", "tracked", "failed"}
    /\ replies \in 0..(MaxInner + 1)
    /\ attempt \in 0..MaxRetries /\ timeouts \in 0..(TimeoutRetries + 1)
    /\ recovered \in BOOLEAN
    /\ calls \in Nat /\ waited \in Nat
    /\ latch \in BOOLEAN /\ whole \in BOOLEAN
    /\ screen \subseteq Pieces /\ said \subseteq Pieces
    /\ wanted \subseteq ToolIds /\ todo \subseteq wanted /\ running \subseteq wanted
    /\ rounds \in 0..MaxInner
    /\ ran \in [ToolIds -> 0..2]
    /\ kept \subseteq ToolIds
    /\ consumed \subseteq Replies
    /\ billed \in [Replies -> 0..2]

Init ==
    /\ cfg \in Configs
    /\ at = "boundary" /\ replies = 0
    /\ attempt = 0 /\ timeouts = 0 /\ recovered = FALSE
    /\ calls = 0 /\ waited = 0
    /\ latch = FALSE /\ screen = {} /\ said = {} /\ whole = FALSE
    /\ wanted = {} /\ todo = {} /\ running = {} /\ rounds = 0
    /\ ran = [id \in ToolIds |-> 0] /\ kept = {}
    /\ consumed = {} /\ billed = [i \in Replies |-> 0]

-----------------------------------------------------------------------------
(* The end of the execution.                                               *)

Bill(some) == billed' = [i \in Replies |-> IF i \in some THEN billed[i] + 1 ELSE billed[i]]

(* An error or a cancellation: what the loop consumed is billed here, for  *)
(* stage 7 will never see it.                                              *)
Abort ==
    /\ at' = "failed"
    /\ running' = {}
    /\ Bill(consumed)
    /\ UNCHANGED <<cfg, replies, request, shown, wanted, todo, rounds, ran, kept, consumed>>

Cancel == at \in {"open", "sleep", "overflow", "round", "relief"} /\ Abort

(* Stage 7, on the response whose usage is the sum of all.                 *)
Track ==
    /\ at = "returned" /\ at' = "tracked"
    /\ Bill(consumed \cup {replies})
    /\ UNCHANGED <<cfg, replies, request, shown, loop, ran, kept, consumed>>

-----------------------------------------------------------------------------
(* A call of the provider.                                                 *)

(* The host's boundary, looked at before every call.                       *)
Refused == at = "boundary" /\ Abort

Call ==
    /\ at = "boundary" /\ at' = "open"
    /\ calls' = calls + 1
    /\ said' = {} /\ whole' = FALSE
    /\ UNCHANGED <<cfg, replies, attempt, timeouts, recovered, waited, latch, screen, loop, ledger>>

(* A chunk of content; a CLI announces the tools it runs itself.           *)
Chunk ==
    /\ at = "open" /\ cfg.stream
    /\ \E kind \in {"text", "tool"} :
         /\ kind = "tool" => cfg.cli
         /\ <<calls, kind>> \notin said
         /\ said' = said \cup {<<calls, kind>>}
         /\ screen' = screen \cup {<<calls, kind>>}
    /\ latch' = TRUE
    /\ UNCHANGED <<cfg, at, replies, request, whole, loop, ledger>>

MessageComplete ==
    /\ at = "open" /\ cfg.stream /\ ~whole /\ whole' = TRUE
    /\ UNCHANGED <<cfg, at, replies, request, latch, screen, said, loop, ledger>>

(* Whatever was shown of the failed attempt is to be discarded.            *)
SignalStreamRestart ==
    IF latch THEN latch' = FALSE /\ screen' = {} ELSE UNCHANGED <<latch, screen>>

Raises == at' = "failed" /\ Bill(consumed) /\ UNCHANGED <<attempt, latch, screen>>

Retries(recoverable) ==
    /\ recoverable /\ attempt < MaxRetries
    /\ at' = "sleep"
    /\ IF cfg.stream THEN SignalStreamRestart ELSE UNCHANGED <<latch, screen>>
    /\ UNCHANGED <<attempt, billed>>

GivesUp(recoverable) == ~(recoverable /\ attempt < MaxRetries) /\ Raises

(* No content in time, a pause that is too long, or no answer in time; the *)
(* stream of a CLI, which works while it is silent, is not watched.        *)
TimesOut ==
    /\ at = "open" /\ (cfg.stream => ~cfg.cli)
    /\ waited' = waited + 1
    /\ timeouts' = timeouts + 1
    /\ LET again == timeouts' <= TimeoutRetries IN Retries(again) \/ GivesUp(again)
    /\ UNCHANGED <<cfg, replies, recovered, calls, said, whole, loop, ran, kept, consumed>>

(* A bug this could have: only an error the client has classified tells    *)
(* the consumer to discard what it shows.                                  *)
FailsQuietly ==
    /\ at = "open"
    /\ \/ /\ attempt < MaxRetries /\ at' = "sleep"
          /\ UNCHANGED <<attempt, latch, screen, billed>>
       \/ GivesUp(TRUE)
       \/ GivesUp(FALSE)
    /\ UNCHANGED <<cfg, replies, timeouts, recovered, calls, waited, said, whole, loop,
                   ran, kept, consumed>>

(* Any other error, among them a stream that ends without its last frame:  *)
(* recoverable or not.                                                     *)
Fails ==
    /\ at = "open"
    /\ Retries(TRUE) \/ GivesUp(TRUE) \/ GivesUp(FALSE)
    /\ UNCHANGED <<cfg, replies, timeouts, recovered, calls, waited, said, whole, loop,
                   ran, kept, consumed>>

Wake ==
    /\ at = "sleep" /\ at' = "boundary"
    /\ attempt' = attempt + 1
    /\ UNCHANGED <<cfg, replies, timeouts, recovered, calls, waited, shown, loop, ledger>>

(* The prompt does not fit: compacted once for each request.               *)
TooLong ==
    /\ at = "open"
    /\ IF recovered THEN Raises ELSE at' = "overflow" /\ UNCHANGED <<attempt, latch, screen, billed>>
    /\ UNCHANGED <<cfg, replies, timeouts, recovered, calls, waited, said, whole, loop,
                   ran, kept, consumed>>

Recovers ==
    /\ at = "overflow" /\ at' = "boundary"
    /\ recovered' = TRUE /\ attempt' = 0 /\ timeouts' = 0
    /\ SignalStreamRestart
    /\ UNCHANGED <<cfg, replies, calls, waited, said, whole, loop, ledger>>

StillTooLong == at = "overflow" /\ Abort

-----------------------------------------------------------------------------
(* A reply, and the loop over its tool calls.                              *)

Internal == cfg.internal /\ ~cfg.cli   \* _degrade_reason

(* The loop ends with a reply without calls, at its limit, or when the     *)
(* budget is spent; calls it leaves are for stages 9 and 10.               *)
Reply ==
    /\ at = "open" /\ (cfg.stream => whole)
    /\ replies' = replies + 1
    /\ \E k \in 0..MaxTools :
         /\ cfg.cli => k = 0
         /\ wanted' = {replies'} \X (1..k)
    /\ \/ /\ Internal /\ wanted' # {} /\ rounds < MaxInner
          /\ at' = "round" /\ todo' = wanted'
       \/ at' = "returned" /\ todo' = {}
    /\ UNCHANGED <<cfg, request, shown, running, rounds, ledger>>

StartTool(id) ==
    /\ at = "round" /\ id \in todo
    /\ ~cfg.parallel => running = {} /\ \A other \in todo : id[2] <= other[2]
    /\ todo' = todo \ {id} /\ running' = running \cup {id}
    /\ ran' = [ran EXCEPT ![id] = @ + 1]
    /\ UNCHANGED <<cfg, at, replies, request, shown, wanted, rounds, kept, consumed, billed>>

(* A tool's failure is a result like another.                              *)
EndTool(id) ==
    /\ at = "round" /\ id \in running
    /\ running' = running \ {id}
    /\ UNCHANGED <<cfg, at, replies, request, shown, wanted, todo, rounds, ledger>>

(* A bug this could have: the reply's usage is added when its round is     *)
(* over, and again to the response the loop returns.                       *)
CommitBilling ==
    /\ at = "round" /\ todo = {} /\ running = {}
    /\ at' = "relief" /\ rounds' = rounds + 1
    /\ kept' = kept \cup wanted
    /\ consumed' = consumed \cup {replies}
    /\ Bill({replies})
    /\ UNCHANGED <<cfg, replies, request, shown, wanted, todo, running, ran>>

(* A bug this could have: the exchanges are recorded when the loop ends.   *)
CommitAtEnd ==
    /\ at = "round" /\ todo = {} /\ running = {}
    /\ at' = "relief" /\ rounds' = rounds + 1
    /\ consumed' = consumed \cup {replies}
    /\ UNCHANGED <<cfg, replies, request, shown, wanted, todo, running, ran, kept, billed>>

(* The exchange goes into the messages as soon as it is complete.          *)
Commit ==
    /\ at = "round" /\ todo = {} /\ running = {}
    /\ at' = "relief" /\ rounds' = rounds + 1
    /\ kept' = kept \cup wanted
    /\ consumed' = consumed \cup {replies}
    /\ UNCHANGED <<cfg, replies, request, shown, wanted, todo, running, ran, billed>>

(* The pressure is relieved (module Compaction); then the next request.    *)
NextRequest ==
    /\ at = "relief" /\ at' = "boundary"
    /\ attempt' = 0 /\ timeouts' = 0 /\ recovered' = FALSE
    /\ calls' = 0 /\ waited' = 0
    /\ latch' = FALSE /\ screen' = {} /\ said' = {} /\ whole' = FALSE
    /\ wanted' = {}
    /\ UNCHANGED <<cfg, replies, todo, running, rounds, ledger>>

-----------------------------------------------------------------------------
Step ==
    \/ Call \/ Chunk \/ MessageComplete \/ TimesOut \/ Fails \/ Wake
    \/ TooLong \/ Recovers \/ StillTooLong \/ Refused
    \/ Reply \/ Commit \/ NextRequest \/ Track
    \/ \E id \in ToolIds : StartTool(id) \/ EndTool(id)

Next == Step \/ Cancel

Spec == Init /\ [][Next]_vars

-----------------------------------------------------------------------------
(* Properties.                                                             *)

(* When a reply of a stream is taken, a host that discards what it shows   *)
(* at every api.stream_restart shows this reply's attempt, all of it and   *)
(* nothing else, which is what is recorded of it                           *)
(* (APIStage._signal_stream_restart, CliTrajectory).                       *)
ShownIsRecorded ==
    at \in {"round", "relief", "returned", "tracked"} => screen = said

(* No reply is billed twice; a stage that returned has billed them all,    *)
(* one that failed all but the reply it had in hand (InternalAgenticLoop,  *)
(* TokenStage).                                                            *)
BilledOnce ==
    /\ \A i \in Replies : billed[i] <= 1
    /\ at = "tracked" => \A i \in 1..replies : billed[i] = 1
    /\ at = "failed"  => \A i \in 1..replies : billed[i] = 1 \/ i = replies

(* No tool call runs twice, in the loop or in stage 10, to which the calls *)
(* of the returned reply are handed as they are; and the calls of every    *)
(* reply before the last have run and are in the messages, so that a later *)
(* turn has no reason to run them again (InternalAgenticLoop).             *)
WorkKept ==
    /\ \A id \in ToolIds : ran[id] <= 1
    /\ at \in {"returned", "tracked"} => \A id \in wanted : ran[id] = 0
    /\ \A id \in ToolIds : ran[id] = 1 => id \in kept \/ id[1] = replies

(* A request calls the provider at most once for each attempt the strategy *)
(* allows, and waits for its silence at most once more than it may be      *)
(* retried: twice that if the prompt had to be compacted                   *)
(* (APIStage._call_streaming_with_retry, _timeout_budget_spent).           *)
AttemptsBounded ==
    LET invocations == IF recovered THEN 2 ELSE 1
    IN  calls <= invocations * (MaxRetries + 1) /\ waited <= invocations * (TimeoutRetries + 1)
=============================================================================
