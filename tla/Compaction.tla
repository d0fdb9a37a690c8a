------------------------------ MODULE Compaction ------------------------------
(***************************************************************************)
(* The conversation a state carries from turn to turn, what compaction     *)
(* (core/compaction.py, stages 2, 4 and 6) does to it, and the two         *)
(* recorders that copy it into memory: the short-term memory of stage 18   *)
(* and the host's conversation archive.                                    *)
(*                                                                         *)
(* A message is an identity and the set of the conversation's messages it  *)
(* stands for: a checkpoint stands for all it replaced, its               *)
(* acknowledgement for none.  A reply with the results of its tools is one *)
(* message.  Left out: tokens (whether a request is over a level, and      *)
(* whether a prune was enough, is a choice), the text of a summary,        *)
(* pruning inside messages, a history cut in place by a host, the window   *)
(* of short-term memory a host without a preloaded history may ask for.    *)
(***************************************************************************)
EXTENDS Integers, SequencesExt

CONSTANTS
  Preloaded,    \* messages of earlier conversations the host puts first
  MaxMessages,  \* bound: messages of the conversation
  MaxTurns,     \* bound: turns
  MaxAttempts,  \* MAX_LLM_COMPACTIONS_PER_TURN
  MaxFailures,  \* MAX_SUMMARY_FAILURES
  PendingCap,   \* PENDING_RECORDS_CAP
  MaxFaults,    \* bound: records that fail and batches cut short
  Strategies,   \* the context strategies a pipeline may have in stage 2
  MaxRecent,    \* messages the strategies that cut the list keep
  None

ASSUME CompactionAssumption ==
    /\ MaxMessages \in Nat /\ Preloaded \in 0..MaxMessages /\ MaxTurns \in Nat
    /\ MaxAttempts \in Nat /\ MaxFailures \in Nat /\ PendingCap \in Nat
    /\ MaxFaults \in Nat
    /\ Strategies \subseteq {"simple_load", "hybrid", "progressive_disclosure"}
    /\ MaxRecent \in Nat \ {0}

Recorders == {"stm", "archive"}

Said(n, by) == [id |-> n, by |-> by, of |-> {n}]
Summary(s)  == [id |-> 0, by |-> "user", of |-> s]
Ack         == [id |-> 0, by |-> "assistant", of |-> {}]
Marker      == [id |-> 0, by |-> "marker", of |-> {}]  \* a user message: "N messages omitted"

VARIABLES
  strategy,    \* the context strategy of stage 2: the pipeline's configuration
  messages,    \* state.messages
  written,     \* messages said so far
  mark,        \* the watermark of each recorder, an index into messages
  pending,     \* memory.compacted_unrecorded
  log,         \* what each recorder has stored
  excused,     \* messages a recorder was given and failed to store, or
               \* that did not fit PENDING_RECORDS_CAP
  again,       \* the recorder was interrupted and repeats a batch
  faults,      \* records that failed and batches cut short so far
  place,       \* where the turn is
  turn,        \* _context_turn_seq
  apiCalls,    \* API_CALLS_KEY
  summarizedAt,\* SUMMARIZED_AT_KEY
  attempts,    \* LLM_COMPACTIONS_KEY
  failures,    \* LLM_FAILURES_KEY
  forced,      \* CONTEXT_COMPACTION_REQUEST: None, "requested" or "manual"
  bg,          \* the background summary of stage 2
  bgUntil,     \* it still counts as running (BACKGROUND_UNTIL_KEY)
  calls,       \* model calls for summaries that this turn pays for and no
               \* person asked for
  softCalls    \* those under soft pressure since the last model request

recording == <<mark, pending, log, excused, again, faults>>
policy    == <<summarizedAt, attempts, failures, calls, softCalls>>
historyVars == <<strategy, messages, written, recording, place, turn, apiCalls,
                 policy, forced, bg, bgUntil>>

Stages == {"idle", "context", "decide", "guard", "chain", "api", "retry",
           "inner", "memory", "archive", "drive"}

Message == [id : 0..MaxMessages, by : {"user", "assistant", "marker"}, of : SUBSET (1..MaxMessages)]

Summaries == [of : Seq(Message), result : Seq(Message), turn : 0..MaxTurns,
              state : {"running", "model", "failed", "unavailable", "cancelled"}]

HistoryTypeOK ==
    /\ strategy \in Strategies
    /\ messages \in Seq(Message)
    /\ written \in 0..MaxMessages
    /\ mark \in [Recorders -> Nat]
    /\ pending \in [Recorders -> Seq(Message)] /\ log \in [Recorders -> Seq(Message)]
    /\ excused \in [Recorders -> SUBSET (1..MaxMessages)]
    /\ again \in [Recorders -> BOOLEAN] /\ faults \in 0..MaxFaults
    /\ place \in Stages /\ turn \in 0..MaxTurns
    /\ apiCalls \in Nat /\ attempts \in Nat /\ failures \in Nat
    /\ summarizedAt = None \/ summarizedAt \in Nat
    /\ forced \in {None, "requested", "manual"}
    /\ bg = None \/ bg \in Summaries
    /\ bgUntil \in BOOLEAN
    /\ calls \in Nat /\ softCalls \in Nat

(* The host preloads the history and sets both watermarks past it.         *)
HistoryInit ==
    /\ strategy \in Strategies
    /\ messages = [i \in 1..Preloaded |-> Said(i, IF i % 2 = 1 THEN "user" ELSE "assistant")]
    /\ written = Preloaded
    /\ mark = [r \in Recorders |-> Preloaded]
    /\ pending = [r \in Recorders |-> <<>>]
    /\ log = [r \in Recorders |-> <<>>]
    /\ excused = [r \in Recorders |-> {}]
    /\ again = [r \in Recorders |-> FALSE] /\ faults = 0
    /\ place = "idle" /\ turn = 0
    /\ apiCalls = 0 /\ summarizedAt = None /\ attempts = 0 /\ failures = 0
    /\ forced = None /\ bg = None /\ bgUntil = FALSE
    /\ calls = 0 /\ softCalls = 0

-----------------------------------------------------------------------------
(* Rewriting the history and keeping the recorders' place in it.           *)

Stands(s) == UNION {m.of : m \in ToSet(s)}
Reals(s)  == {m.id : m \in ToSet(s)} \ {0}

From(s, i)   == SubSeq(s, i, Len(s))
Newest(s, n) == IF Len(s) <= n THEN s ELSE From(s, Len(s) - n + 1)

(* A compactor keeps the messages after the cut, behind a checkpoint and,  *)
(* when they open on a user message, an acknowledgement.                   *)
Checkpoint(s, cut) ==
    <<Summary(Stands(SubSeq(s, 1, cut)))>>
    \o (IF s[cut + 1].by # "assistant" THEN <<Ack>> ELSE <<>>)
    \o From(s, cut + 1)

(* LLMSummaryCompactor.plan: never the last message, never a checkpoint    *)
(* alone.                                                                  *)
IsCheckpoint(m) == m.id = 0 /\ m.by = "user"
Opening(s) == IF ~IsCheckpoint(s[1]) THEN 0 ELSE IF s[2] = Ack THEN 2 ELSE 1
Cuts(s)    == {c \in 1..(Len(s) - 1) : c > Opening(s)}

(* The length of the longest suffix of both.                               *)
KeptSuffix(before, after) ==
    Max({k \in 0..Len(after) : k <= Len(before)
            /\ From(before, Len(before) - k + 1) = From(after, Len(after) - k + 1)})

(* A bug this could have: an unrecorded recorder is sent back to the head  *)
(* of the list, and records the checkpoint.                                *)
TranslateToHead(index, start, head) ==
    IF index <= start THEN 0 ELSE head + (index - start)

Translate(index, start, head) ==
    IF index <= start THEN head ELSE head + (index - start)

(* A bug this could have: what was cut away before it was recorded is lost.*)
UnrecordedDropped(before, index, start) == <<>>

Unrecorded(before, index, start) ==
    IF index < start THEN SubSeq(before, index + 1, start) ELSE <<>>

(* reconcile_recorded_index(before, after, metadata)                       *)
Reconcile(before, after) ==
    LET kept  == KeptSuffix(before, after)
        start == Len(before) - kept
        head  == Len(after) - kept
        owed  == [r \in Recorders |-> pending[r] \o Unrecorded(before, mark[r], start)]
    IN  /\ mark' = [r \in Recorders |->
                     IF Translate(mark[r], start, head) <= Len(after)
                     THEN Translate(mark[r], start, head) ELSE Len(after)]
        /\ pending' = [r \in Recorders |-> Newest(owed[r], PendingCap)]
        /\ excused' = [r \in Recorders |->
                        excused[r] \cup (Reals(owed[r]) \ Reals(Newest(owed[r], PendingCap)))]
        /\ UNCHANGED <<log, again, faults>>

Rewrite(after) == messages' = after /\ Reconcile(messages, after)
Kept           == UNCHANGED <<messages, recording>>

-----------------------------------------------------------------------------
(* run_compaction.                                                         *)

(* The summaries this turn may still pay for.                              *)
InBudget == attempts < MaxAttempts /\ failures < MaxFailures

(* _llm_gate under soft pressure.                                          *)
SoftGate == InBudget /\ summarizedAt # apiCalls /\ ~bgUntil

(* _summarize asks the model again once, when it wrote nothing.            *)
MaxAsks == 2

Paid(asked, soft) ==
    /\ calls' = calls + asked
    /\ softCalls' = softCalls + (IF soft THEN asked ELSE 0)

(* A bug this could have: only a summary that came back is counted.        *)
CountAttemptOnSuccess(source, asked) ==
    /\ IF source = "model"
       THEN summarizedAt' = apiCalls /\ attempts' = attempts + 1
       ELSE UNCHANGED <<summarizedAt, attempts>>
    /\ failures' = IF source = "model" THEN 0 ELSE failures

(* _count_attempt: `source' is what replaced the history, and an attempt   *)
(* is one however often it asked the model.                                *)
CountAttempt(source, asked) ==
    /\ summarizedAt' = apiCalls
    /\ attempts' = attempts + (IF asked > 0 THEN 1 ELSE 0)
    /\ failures' = IF source = "model" THEN 0
                   ELSE IF asked > 0 \/ source = "unavailable" THEN failures + 1
                   ELSE failures

Attempt(source, asked, person, soft) ==
    CountAttempt(source, asked) /\ Paid(IF person THEN 0 ELSE asked, soft)

Summarized(source, asked, person, soft) ==
    /\ \E cut \in Cuts(messages) : Rewrite(Checkpoint(messages, cut))
    /\ Attempt(source, asked, person, soft)

(* The model wrote no summary: under soft pressure the history stays.      *)
NoSummary(source, asked, person) ==
    /\ Cuts(messages) # {}
    /\ Kept
    /\ Attempt(source, asked, person, TRUE)

(* The prune was enough, the gate is shut, or plan() finds nothing to cut  *)
(* or too little.                                                          *)
LeftAlone == Kept /\ UNCHANGED policy

Summarizes(person) ==
    \/ \E asked \in 1..MaxAsks : Summarized("model", asked, person, TRUE)
    \/ NoSummary("model_failed", MaxAsks, person)
    \/ NoSummary("unavailable", 0, person)

SoftCompaction == LeftAlone \/ (SoftGate /\ Summarizes(FALSE))

(* Beyond the turn's limits the digest is made without the model.          *)
HardCompaction ==
    \/ LeftAlone
    \/ InBudget /\ \E asked \in 1..MaxAsks : Summarized("model", asked, FALSE, FALSE)
    \/ InBudget /\ Summarized("digest", MaxAsks, FALSE, FALSE)
    \/ Summarized("digest", 0, FALSE, FALSE)

-----------------------------------------------------------------------------
(* A turn.                                                                 *)

Goes(stage) == place' = stage

Says(by) ==
    /\ written < MaxMessages
    /\ written' = written + 1
    /\ messages' = Append(messages, Said(written + 1, by))

(* PipelineState.begin_turn; the state's shared slots outlive a turn but   *)
(* for those it names.                                                     *)
BeginTurn ==
    /\ place = "idle" /\ turn < MaxTurns
    /\ Says("user")
    /\ turn' = turn + 1
    /\ apiCalls' = 0 /\ summarizedAt' = None /\ attempts' = 0 /\ failures' = 0
    /\ calls' = 0 /\ softCalls' = 0
    /\ forced' \in {forced, "manual"}
    /\ Goes("context")
    /\ UNCHANGED <<strategy, recording, bg, bgUntil>>

(* A bug this could have: the summary is swapped in whatever became of the *)
(* messages it was made of.                                                *)
FitsByLength(b) ==
    /\ b.state = "model"
    /\ Len(messages) >= Len(b.of) /\ Len(b.result) < Len(b.of)

(* The messages it was made of are still the head of the history.          *)
Fits(b) ==
    /\ b.state = "model"
    /\ Len(messages) >= Len(b.of) /\ SubSeq(messages, 1, Len(b.of)) = b.of
    /\ Len(b.result) < Len(b.of)

(* A summary that called the model and came back empty is a failure of the *)
(* turn that scheduled it.                                                 *)
CollectFailures ==
    failures' = IF bg.turn # turn \/ bg.state \notin {"model", "failed"} THEN failures
                ELSE IF bg.state = "model" THEN 0 ELSE failures + 1

(* _apply_bg_compaction                                                    *)
ApplyBackground ==
    /\ bg' = None /\ bgUntil' = FALSE
    /\ CollectFailures
    /\ IF Fits(bg)
       THEN /\ Rewrite(bg.result \o From(messages, Len(bg.of) + 1))
            /\ summarizedAt' = apiCalls
       ELSE Kept /\ UNCHANGED summarizedAt
    /\ UNCHANGED <<attempts, calls, softCalls>>

Finished == IF bg = None THEN FALSE ELSE bg.state # "running"

(* build_context of the strategies, at every pass: the hybrid one keeps    *)
(* the newest messages, progressive disclosure the first one too, with a   *)
(* marker for what it left out.  Neither moves a watermark.                *)
Hybrid(s) == Newest(s, MaxRecent)
Disclosed(s) ==
    IF Len(s) <= MaxRecent THEN s ELSE <<s[1], Marker>> \o Newest(s, MaxRecent)

BuildContext(s) ==
    CASE strategy = "simple_load" -> s
      [] strategy = "hybrid" -> Hybrid(s)
      [] strategy = "progressive_disclosure" -> Disclosed(s)

MustTrim == BuildContext(messages) # messages

Trim ==
    /\ place = "context" /\ MustTrim
    /\ messages' = BuildContext(messages)
    /\ UNCHANGED <<strategy, written, recording, place, turn, apiCalls, policy, forced, bg, bgUntil>>

Collect ==
    /\ place = "context" /\ ~MustTrim
    /\ \/ Finished /\ ApplyBackground
       \/ ~Finished /\ UNCHANGED <<messages, recording, policy, bg, bgUntil>>
    /\ Goes("decide")
    /\ UNCHANGED <<strategy, written, turn, apiCalls, forced>>

(* _schedule_bg_compaction: paid for in advance, with all its model calls. *)
Schedule ==
    /\ bg = None /\ SoftGate /\ Cuts(messages) # {}
    /\ bg' = [of |-> messages, result |-> messages, state |-> "running", turn |-> turn]
    /\ bgUntil' = TRUE
    /\ summarizedAt' = apiCalls
    /\ attempts' = attempts + 1
    /\ Paid(MaxAsks, TRUE)
    /\ UNCHANGED failures

(* What stage 2 does about the pressure: a request of the loop or of a     *)
(* person is met at once and cancels the background summary.               *)
Decide ==
    /\ place = "decide"
    /\ \/ /\ forced # None
          /\ forced' = None /\ bg' = None /\ bgUntil' = FALSE
          /\ IF forced = "manual"
             THEN LeftAlone \/ Summarizes(TRUE)
             ELSE LeftAlone \/ (InBudget /\ summarizedAt # apiCalls /\ Summarizes(FALSE))
       \/ /\ forced = None
          /\ \/ Schedule /\ Kept
             \/ SoftCompaction /\ UNCHANGED <<bg, bgUntil>>
          /\ UNCHANGED forced
    /\ Goes("guard")
    /\ UNCHANGED <<strategy, written, turn, apiCalls>>

(* Stage 4: the proactive check again, then the guard chain.               *)
Guard ==
    /\ \/ place = "guard" /\ SoftCompaction /\ Goes("chain")
       \/ place = "chain" /\ HardCompaction /\ Goes("api")
    /\ UNCHANGED <<strategy, written, turn, apiCalls, forced, bg, bgUntil>>

(* Stage 6: the provider says the prompt does not fit; retried once.       *)
Overflow ==
    /\ place = "api" /\ HardCompaction /\ Goes("retry")
    /\ UNCHANGED <<strategy, written, turn, apiCalls, forced, bg, bgUntil>>

(* A reply.  The internal tool loop adds it and asks again, the pipeline's *)
(* loop goes back to stage 2, perhaps with a request for compaction, or    *)
(* the turn is complete.                                                   *)
Reply ==
    /\ place \in {"api", "retry"}
    /\ Says("assistant")
    /\ apiCalls' = apiCalls + 1 /\ softCalls' = 0
    /\ \/ place' \in {"inner", "memory"} /\ UNCHANGED forced
       \/ Goes("context") /\ forced' \in {None, "requested"}
    /\ UNCHANGED <<strategy, recording, turn, summarizedAt, attempts, failures, calls, bg, bgUntil>>

InnerRound ==
    /\ place = "inner" /\ SoftCompaction /\ Goes("api")
    /\ UNCHANGED <<strategy, written, turn, apiCalls, forced, bg, bgUntil>>

(* The turn fails or is cancelled: what is left of it does not run.        *)
Fail ==
    /\ place # "idle" /\ Goes("idle")
    /\ UNCHANGED <<strategy, messages, written, recording, turn, apiCalls, policy, forced, bg, bgUntil>>

-----------------------------------------------------------------------------
(* The background summary.                                                 *)

BackgroundEnds ==
    /\ bg # None /\ ~Finished
    /\ \/ \E cut \in Cuts(bg.of) :
            bg' = [bg EXCEPT !.state = "model", !.result = Checkpoint(bg.of, cut)]
       \/ \E how \in {"failed", "unavailable", "cancelled"} : bg' = [bg EXCEPT !.state = how]
    /\ UNCHANGED <<strategy, messages, written, recording, place, turn, apiCalls, policy, forced, bgUntil>>

(* BACKGROUND_MAX_SECONDS are over.                                        *)
BackgroundExpires ==
    /\ bgUntil /\ bgUntil' = FALSE
    /\ UNCHANGED <<strategy, messages, written, recording, place, turn, apiCalls, policy, forced, bg>>

-----------------------------------------------------------------------------
(* Stage 18.                                                               *)

Batch(r) == pending[r] \o From(messages, mark[r] + 1)

Stored(r, s) == log' = [log EXCEPT ![r] = @ \o s]

(* The i-th of the places P, and what a sequence has at them.              *)
Nth(P, i)  == CHOOSE p \in P : Cardinality({q \in P : q <= p}) = i
Part(s, P) == [i \in 1..Cardinality(P) |-> s[Nth(P, i)]]

(* The whole batch was handed over; the records at the places `lost'       *)
(* failed.                                                                 *)
Committed(r, lost) ==
    /\ faults + Cardinality(lost) <= MaxFaults
    /\ faults' = faults + Cardinality(lost)
    /\ mark' = [mark EXCEPT ![r] = Len(messages)]
    /\ pending' = [pending EXCEPT ![r] = <<>>]
    /\ Stored(r, Part(Batch(r), DOMAIN Batch(r) \ lost))
    /\ excused' = [excused EXCEPT ![r] = @ \cup ({Batch(r)[i].id : i \in lost} \ {0})]
    /\ UNCHANGED again

(* The first n records were stored, and neither the watermark nor the      *)
(* records put aside moved.                                                *)
Interrupted(r, n) ==
    /\ faults < MaxFaults /\ faults' = faults + 1
    /\ Stored(r, SubSeq(Batch(r), 1, n))
    /\ again' = [again EXCEPT ![r] = @ \/ n > 0]
    /\ UNCHANGED <<mark, pending, excused>>

InMemory(from) ==
    /\ place = from
    /\ UNCHANGED <<strategy, messages, written, turn, apiCalls, policy, forced, bg, bgUntil>>

(* ProviderDrivenStrategy.update: a record that fails is skipped; the      *)
(* host's time limit may cut it short, with the archive.  With nothing to  *)
(* record it leaves the watermark where it is, even beyond the list.       *)
RecordTurns ==
    /\ InMemory("memory")
    /\ \/ Batch("stm") = <<>> /\ UNCHANGED recording /\ Goes("archive")
       \/ Batch("stm") # <<>> /\ (\E lost \in SUBSET DOMAIN Batch("stm") : Committed("stm", lost)) /\ Goes("archive")
       \/ Batch("stm") # <<>> /\ (\E n \in 0..Len(Batch("stm")) : Interrupted("stm", n)) /\ Goes("drive")

(* ConversationArchivingStrategy._archive: one write.  It may fail, or be  *)
(* abandoned when it has reached the store.                                *)
Archive ==
    /\ InMemory("archive")
    /\ \/ Committed("archive", {})
       \/ \E n \in {0, Len(Batch("archive"))} : Interrupted("archive", n)
    /\ Goes("drive")

(* MemoryStage._drive_provider, when the stage has a provider too: a       *)
(* record that fails fails the turn.                                       *)
DriveProvider ==
    /\ InMemory("drive")
    /\ \/ UNCHANGED recording
       \/ Batch("stm") # <<>> /\ Committed("stm", {})
       \/ Batch("stm") # <<>> /\ \E n \in 0..Len(Batch("stm")) : Interrupted("stm", n)
    /\ Goes("idle")

HistoryNext ==
    \/ BeginTurn \/ Trim \/ Collect \/ Decide \/ Guard \/ Overflow \/ Reply \/ InnerRound
    \/ Fail \/ BackgroundEnds \/ BackgroundExpires
    \/ RecordTurns \/ Archive \/ DriveProvider

HistorySpec == HistoryInit /\ [][HistoryNext]_historyVars

-----------------------------------------------------------------------------
(* Properties.                                                             *)

New == (Preloaded + 1)..written

(* What every strategy should keep: a message is stored by each recorder,  *)
(* was handed over and failed, or is still ahead of it.                    *)
NoneLost ==
    \A r \in Recorders : New \subseteq Reals(log[r]) \cup excused[r] \cup Reals(Batch(r))

(* No message of the conversation is forgotten by a recorder, whatever     *)
(* compaction, in which stage and of which turn, took it out of the list   *)
(* (core/compaction.py, stages 2, 4, 6 and 18).  The other strategies cut  *)
(* the list and move no watermark: NoneLost fails with them.               *)
NothingForgotten == strategy = "simple_load" => NoneLost

(* A recorder stores what was said and nothing else: no checkpoint as      *)
(* something the user said, nothing of the preloaded history, and, unless  *)
(* a batch was cut short, nothing twice and nothing out of order.          *)
OnlyWhatWasSaid ==
    \A r \in Recorders :
        /\ \A m \in ToSet(log[r]) : m.id \in New
        /\ ~again[r] => \A i, j \in 1..Len(log[r]) : i < j => log[r][i].id < log[r][j].id

(* Compaction and the hybrid strategy keep the records faithful            *)
(* (reconcile_recorded_index, MemoryStage, ConversationArchivingStrategy). *)
(* Progressive disclosure shifts the list under the watermarks:            *)
(* OnlyWhatWasSaid fails with it.                                          *)
FaithfulRecord == strategy # "progressive_disclosure" => OnlyWhatWasSaid

(* Whatever rewrites the history, each message of the conversation is      *)
(* still in it, or in a checkpoint of it: a background summary never       *)
(* replaces messages it was not made of (_apply_bg_compaction).  With the  *)
(* strategies that are there to drop messages, there is nothing in view    *)
(* that was not said.                                                      *)
EverythingInView ==
    /\ Stands(messages) \subseteq 1..written
    /\ strategy = "simple_load" => Stands(messages) = 1..written

(* A turn pays for a bounded number of summaries, and, under pressure that *)
(* can wait, for one per model request, over all the places that make them *)
(* (_llm_gate, _count_attempt, _schedule_bg_compaction); each of them asks *)
(* the model once or twice.                                                *)
SummariesBounded == calls <= MaxAsks * MaxAttempts /\ softCalls <= MaxAsks

=============================================================================
