-------------------------- MODULE CallAndTrailProofs --------------------------
(***************************************************************************)
(* Two proofs.                                                             *)
(*                                                                         *)
(* What stage 6 shows, bills, runs and asks of the provider (ModelCall),   *)
(* for any number of retries, rounds and tool calls.  The inductive        *)
(* invariant IInv has one part for each: attempts are counted from the     *)
(* first call or from the compaction; the screen is empty whenever an      *)
(* attempt is about to start; nothing is billed before the end and every   *)
(* reply but the one in hand is consumed; a tool call that has run is      *)
(* recorded or in the round.                                               *)
(*                                                                         *)
(* What the audit trail holds (RunRollout), for any runs, events, queue    *)
(* size and faults.  TrailInv follows each record from the queue through   *)
(* the writer's file to the disk, and each flush through the queue back to *)
(* the run that waits for it.                                              *)
(***************************************************************************)
EXTENDS ModelCall, RunRollout, FiniteSetTheorems, SequenceTheorems, TLAPS

Asking == {"boundary", "open", "sleep", "overflow"}

Base  == IF recovered THEN MaxRetries + 1 ELSE 0
WBase == IF recovered THEN TimeoutRetries + 1 ELSE 0

RetryInv ==
    /\ at = "boundary" => calls <= Base + attempt
    /\ at = "open" => calls <= Base + attempt + 1
    /\ at = "sleep" => attempt < MaxRetries /\ calls <= Base + attempt + 1
    /\ at = "overflow" => ~recovered
    /\ at \in Asking => timeouts <= TimeoutRetries
    /\ calls <= Base + MaxRetries + 1
    /\ waited <= WBase + timeouts

ScreenInv ==
    /\ ~cfg.stream => screen = {} /\ said = {}
    /\ ~latch => screen = {}
    /\ at \in {"boundary", "sleep"} => screen = {}
    /\ at \in {"open", "round", "relief", "returned", "tracked"} => screen = said

LedgerInv ==
    /\ at \notin {"tracked", "failed"} => \A i \in Replies : billed[i] = 0
    /\ at \in Asking \cup {"relief"} => consumed = 1..replies /\ rounds = replies
    /\ at \in {"round", "returned"} => consumed = 1..(replies - 1) /\ replies = rounds + 1
    /\ at = "round" => rounds < MaxInner
    /\ BilledOnce

ToolInv ==
    /\ at \in Asking \cup {"relief"} => todo = {} /\ running = {}
    /\ \A id \in ToolIds : id[1] > replies => ran[id] = 0
    /\ \A id \in wanted : id[1] = replies
    /\ at = "round" => \A id \in todo : ran[id] = 0
    /\ at \in Asking \cup {"relief"} => \A id \in ToolIds : ran[id] = 1 => id \in kept
    /\ at = "round" => \A id \in ToolIds : ran[id] = 1 => id \in kept \/ id \in wanted
    /\ WorkKept

IInv == TypeOK /\ RetryInv /\ ScreenInv /\ LedgerInv /\ ToolInv

-----------------------------------------------------------------------------

(* The calls of one reply are tool calls.                                  *)
LEMMA ReplyTools ==
  ASSUME NEW r \in Replies, NEW k \in 0..MaxTools
  PROVE  {r} \X (1..k) \subseteq ToolIds
<1> SUFFICES ASSUME NEW x \in {r} \X (1..k) PROVE x \in ToolIds
  OBVIOUS
<1>1. PICK i \in 1..k : x = <<r, i>>
  OBVIOUS
<1>2. i \in 1..MaxTools
  BY ModelCallAssumption
<1> QED
  BY <1>1, <1>2 DEF ToolIds

LEMMA InitIInv == Init => IInv
<1> SUFFICES ASSUME Init PROVE IInv
  OBVIOUS
<1> USE ModelCallAssumption DEF Init
<1>1. TypeOK
  <2>1. cfg \in Configs /\ at = "boundary" /\ latch \in BOOLEAN /\ whole \in BOOLEAN /\ recovered \in BOOLEAN
    OBVIOUS
  <2>2. replies \in 0..(MaxInner + 1) /\ rounds \in 0..MaxInner
    OBVIOUS
  <2>3. attempt \in 0..MaxRetries /\ timeouts \in 0..(TimeoutRetries + 1) /\ calls \in Nat /\ waited \in Nat
    OBVIOUS
  <2>4. ran \in [ToolIds -> 0..2]
    OBVIOUS
  <2>5. billed \in [Replies -> 0..2]
    OBVIOUS
  <2> QED
    BY <2>1, <2>2, <2>3, <2>4, <2>5 DEF TypeOK
<1>2. RetryInv
  BY DEF RetryInv, Asking, Base, WBase
<1>3. ScreenInv
  BY DEF ScreenInv
<1>4. LedgerInv
  BY DEF LedgerInv, BilledOnce, Asking
<1>5. ToolInv
  BY DEF ToolInv, WorkKept, Asking
<1> QED
  BY <1>1, <1>2, <1>3, <1>4, <1>5 DEF IInv

(* The count of calls and timeouts.                                        *)
LEMMA RetryStep == IInv /\ Next => RetryInv'
<1> SUFFICES ASSUME IInv, Next PROVE RetryInv'
  OBVIOUS
<1> USE ModelCallAssumption DEF RetryInv, Asking, Base, WBase
<1>0. TypeOK /\ RetryInv
  BY DEF IInv
<1>t. /\ attempt \in Nat /\ timeouts \in Nat /\ calls \in Nat /\ waited \in Nat
      /\ attempt <= MaxRetries /\ recovered \in BOOLEAN
  BY <1>0 DEF TypeOK
<1>1. CASE Call
  BY <1>0, <1>t, <1>1 DEF Call
<1>2. CASE Chunk
  BY <1>0, <1>t, <1>2 DEF Chunk, request
<1>3. CASE MessageComplete
  BY <1>0, <1>t, <1>3 DEF MessageComplete, request
<1>4. CASE TimesOut
  BY <1>0, <1>t, <1>4 DEF TimesOut, Retries, GivesUp, Raises
<1>5. CASE Fails
  BY <1>0, <1>t, <1>5 DEF Fails, Retries, GivesUp, Raises
<1>6. CASE Wake
  BY <1>0, <1>t, <1>6 DEF Wake
<1>7. CASE TooLong
  BY <1>0, <1>t, <1>7 DEF TooLong, Raises
<1>8. CASE Recovers
  BY <1>0, <1>t, <1>8 DEF Recovers
<1>9. CASE StillTooLong \/ Refused \/ Cancel
  BY <1>0, <1>t, <1>9 DEF StillTooLong, Refused, Cancel, Abort, request
<1>10. CASE Reply
  BY <1>0, <1>t, <1>10 DEF Reply, request
<1>11. CASE Commit
  BY <1>0, <1>t, <1>11 DEF Commit, request
<1>12. CASE NextRequest
  BY <1>0, <1>t, <1>12 DEF NextRequest
<1>13. CASE Track
  BY <1>0, <1>t, <1>13 DEF Track, request
<1>14. CASE \E id \in ToolIds : StartTool(id) \/ EndTool(id)
  BY <1>0, <1>t, <1>14 DEF StartTool, EndTool, request
<1> QED
  BY <1>1, <1>2, <1>3, <1>4, <1>5, <1>6, <1>7, <1>8, <1>9, <1>10, <1>11, <1>12, <1>13, <1>14
  DEF Next, Step

(* What is shown.                                                          *)
LEMMA ScreenStep == IInv /\ Next => ScreenInv'
<1> SUFFICES ASSUME IInv, Next PROVE ScreenInv'
  OBVIOUS
<1> USE DEF ScreenInv
<1>0. ScreenInv /\ cfg \in Configs
  BY DEF IInv, TypeOK
<1>1. CASE Call
  BY <1>0, <1>1 DEF Call
<1>2. CASE Chunk
  BY <1>0, <1>2 DEF Chunk
<1>3. CASE MessageComplete
  BY <1>0, <1>3 DEF MessageComplete
<1>4. CASE TimesOut
  BY <1>0, <1>4 DEF TimesOut, Retries, GivesUp, Raises, SignalStreamRestart
<1>5. CASE Fails
  BY <1>0, <1>5 DEF Fails, Retries, GivesUp, Raises, SignalStreamRestart
<1>6. CASE Wake
  BY <1>0, <1>6 DEF Wake, shown
<1>7. CASE TooLong
  BY <1>0, <1>7 DEF TooLong, Raises
<1>8. CASE Recovers
  BY <1>0, <1>8 DEF Recovers, SignalStreamRestart
<1>9. CASE StillTooLong \/ Refused \/ Cancel
  BY <1>0, <1>9 DEF StillTooLong, Refused, Cancel, Abort, shown
<1>10. CASE Reply
  BY <1>0, <1>10 DEF Reply, shown
<1>11. CASE Commit
  BY <1>0, <1>11 DEF Commit, shown
<1>12. CASE NextRequest
  BY <1>0, <1>12 DEF NextRequest
<1>13. CASE Track
  BY <1>0, <1>13 DEF Track, shown
<1>14. CASE \E id \in ToolIds : StartTool(id) \/ EndTool(id)
  BY <1>0, <1>14 DEF StartTool, EndTool, shown
<1> QED
  BY <1>1, <1>2, <1>3, <1>4, <1>5, <1>6, <1>7, <1>8, <1>9, <1>10, <1>11, <1>12, <1>13, <1>14
  DEF Next, Step

(* What is billed.  An execution ends in Abort or Raises, which bill what  *)
(* is consumed, or in Track, which bills the reply in hand as well.        *)
LEMMA LedgerStep == IInv /\ Next => LedgerInv'
<1> SUFFICES ASSUME IInv, Next PROVE LedgerInv'
  OBVIOUS
<1> USE ModelCallAssumption DEF LedgerInv, Asking
<1>0. LedgerInv /\ TypeOK
  BY DEF IInv
<1>t. /\ replies \in Nat /\ rounds \in Nat /\ replies <= MaxInner + 1
      /\ consumed \subseteq Replies /\ billed \in [Replies -> 0..2]
  BY <1>0 DEF TypeOK
<1>b. ASSUME UNCHANGED <<billed, consumed, replies>>, at' = at \/ at' \in Asking \cup {"relief", "returned"},
             at \notin {"tracked", "failed"}
      PROVE BilledOnce'
  BY <1>0, <1>b DEF BilledOnce
<1>f. ASSUME at \notin {"tracked", "failed"}, at' = "failed", Bill(consumed),
             UNCHANGED <<replies, consumed, rounds>>
      PROVE LedgerInv'
  <2>1. \A i \in Replies : billed'[i] = IF i \in consumed THEN 1 ELSE 0
    BY <1>0, <1>t, <1>f DEF Bill
  <2>2. consumed = 1..replies \/ consumed = 1..(replies - 1)
    BY <1>0, <1>f, <1>t DEF TypeOK
  <2>3. \A i \in 1..replies : i \in Replies /\ (i \in consumed \/ i = replies)
    BY <2>2, <1>t DEF Replies
  <2>4. BilledOnce'
    BY <2>1, <2>3, <1>f DEF BilledOnce
  <2> QED
    BY <2>4, <1>f
<1>1. CASE Call
  BY <1>0, <1>1, <1>b DEF Call, ledger, loop
<1>2. CASE Chunk \/ MessageComplete
  BY <1>0, <1>2, <1>b DEF Chunk, MessageComplete, ledger, loop
<1>3. CASE TimesOut
  <2>1. CASE at' = "sleep" /\ UNCHANGED billed
    BY <1>0, <1>3, <1>b, <2>1 DEF TimesOut, loop
  <2>2. CASE Raises
    BY <1>0, <1>3, <1>f, <2>2 DEF TimesOut, Raises, loop
  <2> QED
    BY <1>3, <2>1, <2>2 DEF TimesOut, Retries, GivesUp
<1>4. CASE Fails
  <2>1. CASE Retries(TRUE)
    BY <1>0, <1>4, <1>b, <2>1 DEF Fails, Retries, loop
  <2>2. CASE GivesUp(TRUE) \/ GivesUp(FALSE)
    BY <1>0, <1>4, <1>f, <2>2 DEF Fails, GivesUp, Raises, loop
  <2> QED
    BY <1>4, <2>1, <2>2 DEF Fails
<1>5. CASE Wake
  BY <1>0, <1>5, <1>b DEF Wake, ledger, loop
<1>6. CASE TooLong
  <2>1. CASE recovered
    BY <1>0, <1>6, <1>f, <2>1 DEF TooLong, Raises, loop
  <2>2. CASE ~recovered
    BY <1>0, <1>6, <1>b, <2>2 DEF TooLong, loop
  <2> QED
    BY <2>1, <2>2
<1>7. CASE Recovers
  BY <1>0, <1>7, <1>b DEF Recovers, ledger, loop
<1>8. CASE StillTooLong \/ Refused \/ Cancel
  <2>1. at \notin {"tracked", "failed"} /\ Abort
    BY <1>8 DEF StillTooLong, Refused, Cancel
  <2> QED
    BY <2>1, <1>f DEF Abort
<1>9. CASE Reply
  <2>1. at = "open" /\ replies' = replies + 1 /\ UNCHANGED <<rounds, consumed, billed>>
    BY <1>9 DEF Reply, ledger
  <2>2. (at' = "round" /\ rounds < MaxInner) \/ at' = "returned"
    BY <1>9 DEF Reply
  <2>3. consumed = 1..replies /\ rounds = replies
    BY <1>0, <2>1
  <2>4. consumed' = 1..(replies' - 1) /\ replies' = rounds' + 1
    BY <2>1, <2>3, <1>t
  <2>5. BilledOnce'
    BY <1>0, <2>1, <2>2 DEF BilledOnce
  <2> QED
    BY <1>0, <2>1, <2>2, <2>4, <2>5
<1>10. CASE Commit
  <2>1. consumed = 1..(replies - 1) /\ replies = rounds + 1 /\ rounds' = rounds + 1
    BY <1>0, <1>10 DEF Commit
  <2>2. consumed' = 1..replies' /\ rounds' = replies'
    BY <2>1, <1>t, <1>10 DEF Commit
  <2>3. at' = "relief" /\ at = "round" /\ billed' = billed
    BY <1>10 DEF Commit
  <2>4. BilledOnce'
    BY <1>0, <2>3 DEF BilledOnce
  <2> QED
    BY <1>0, <2>2, <2>3, <2>4
<1>11. CASE NextRequest
  BY <1>0, <1>11, <1>b DEF NextRequest, ledger
<1>12. CASE Track
  <2>1. /\ at = "returned" /\ at' = "tracked" /\ UNCHANGED <<replies, consumed, rounds>>
        /\ Bill(consumed \cup {replies})
    BY <1>12 DEF Track, ledger, loop
  <2>2. consumed = 1..(replies - 1) /\ replies >= 1
    BY <1>0, <2>1, <1>t
  <2>3. consumed \cup {replies} = 1..replies
    BY <2>2, <1>t
  <2>4. \A i \in Replies : billed'[i] = IF i \in 1..replies THEN 1 ELSE 0
    BY <1>0, <1>t, <2>1, <2>3 DEF Bill
  <2>5. \A i \in 1..replies : i \in Replies
    BY <1>t DEF Replies
  <2>6. BilledOnce'
    BY <2>1, <2>4, <2>5 DEF BilledOnce
  <2> QED
    BY <2>1, <2>6
<1>13. CASE \E id \in ToolIds : StartTool(id) \/ EndTool(id)
  BY <1>0, <1>13, <1>b DEF StartTool, EndTool, ledger
<1> QED
  BY <1>1, <1>2, <1>3, <1>4, <1>5, <1>6, <1>7, <1>8, <1>9, <1>10, <1>11, <1>12, <1>13
  DEF Next, Step

(* What is run.  Only a round starts tools, those of its reply, each once; *)
(* a reply is left for the next with its round recorded.                   *)
LEMMA ToolStep == IInv /\ Next => ToolInv'
<1> SUFFICES ASSUME IInv, Next PROVE ToolInv'
  OBVIOUS
<1> USE ModelCallAssumption DEF ToolInv, Asking, WorkKept
<1>0. ToolInv /\ TypeOK /\ LedgerInv
  BY DEF IInv
<1>t. /\ replies \in Nat /\ rounds \in 0..MaxInner /\ ran \in [ToolIds -> 0..2]
      /\ wanted \subseteq ToolIds /\ todo \subseteq wanted
  BY <1>0 DEF TypeOK
<1>p. \A id \in ToolIds : id[1] \in Nat /\ id \in ToolIds
  BY DEF ToolIds, Replies
<1>s. ASSUME UNCHANGED <<ran, kept, replies, wanted, todo, running>>, at \in Asking \cup {"relief"},
             at' \in Asking \cup {"failed"} \/ at' = at
      PROVE ToolInv'
  BY <1>0, <1>s
<1>1. CASE Call
  BY <1>1, <1>s DEF Call, ledger, loop
<1>2. CASE Chunk \/ MessageComplete
  BY <1>2, <1>s DEF Chunk, MessageComplete, ledger, loop
<1>3. CASE TimesOut
  BY <1>3, <1>s DEF TimesOut, Retries, GivesUp, Raises, loop
<1>4. CASE Fails
  BY <1>4, <1>s DEF Fails, Retries, GivesUp, Raises, loop
<1>5. CASE Wake
  BY <1>5, <1>s DEF Wake, ledger, loop
<1>6. CASE TooLong
  BY <1>6, <1>s DEF TooLong, Raises, loop
<1>7. CASE Recovers
  BY <1>7, <1>s DEF Recovers, ledger, loop
<1>8. CASE StillTooLong \/ Refused \/ Cancel
  <2>1. at \in Asking \cup {"relief", "round"} /\ Abort
    BY <1>8 DEF StillTooLong, Refused, Cancel
  <2>2. at' = "failed" /\ UNCHANGED <<ran, kept, replies, wanted>>
    BY <2>1 DEF Abort
  <2> QED
    BY <1>0, <2>1, <2>2
<1>9. CASE Reply
  <2>1. /\ at = "open" /\ replies' = replies + 1 /\ UNCHANGED <<ran, kept>>
        /\ at' \in {"round", "returned"}
    BY <1>9 DEF Reply, ledger
  <2>2. PICK k \in 0..MaxTools : wanted' = {replies'} \X (1..k)
    BY <1>9 DEF Reply
  <2>3. todo' \subseteq wanted'
    BY <1>9 DEF Reply
  <2>4. \A id \in wanted' : id[1] = replies'
    BY <2>2
  <2>5. \A id \in ToolIds : id[1] > replies' => ran'[id] = 0
    BY <1>0, <1>t, <1>p, <2>1
  <2>6. \A id \in ToolIds : id[1] = replies' => ran'[id] = 0
    BY <1>0, <1>t, <1>p, <2>1
  <2>7. wanted' \subseteq ToolIds
    <3>1. replies = rounds
      BY <1>0, <2>1 DEF LedgerInv
    <3>2. replies' \in Replies
      BY <3>1, <1>t, <2>1 DEF Replies
    <3>3. {replies'} \X (1..k) \subseteq ToolIds
      BY <3>2, ReplyTools
    <3> QED
      BY <3>3, <2>2, Zenon
  <2>8. \A id \in wanted' : ran'[id] = 0
    BY <2>4, <2>6, <2>7
  <2>9. \A id \in ToolIds : ran'[id] = 1 => id \in kept'
    BY <1>0, <2>1
  <2> QED
    BY <1>0, <2>1, <2>3, <2>4, <2>5, <2>8, <2>9
<1>10. CASE Commit
  <2>1. /\ at = "round" /\ at' = "relief" /\ kept' = kept \cup wanted
        /\ todo = {} /\ running = {} /\ UNCHANGED <<ran, replies, wanted, todo, running>>
    BY <1>10 DEF Commit
  <2> QED
    BY <1>0, <2>1
<1>11. CASE NextRequest
  BY <1>0, <1>11 DEF NextRequest, ledger
<1>12. CASE Track
  BY <1>0, <1>12 DEF Track, loop
<1>13. ASSUME NEW id \in ToolIds, StartTool(id) PROVE ToolInv'
  <2>1. /\ at = "round" /\ at' = "round" /\ id \in todo /\ todo' = todo \ {id}
        /\ ran' = [ran EXCEPT ![id] = @ + 1] /\ UNCHANGED <<replies, wanted, kept>>
    BY <1>13 DEF StartTool
  <2>2. ran[id] = 0 /\ id \in wanted /\ id[1] = replies
    BY <1>0, <1>t, <2>1
  <2>3. \A other \in ToolIds : ran'[other] = IF other = id THEN 1 ELSE ran[other]
    BY <1>t, <2>1, <2>2
  <2>4. \A other \in ToolIds : other[1] > replies' => ran'[other] = 0
    BY <1>0, <1>t, <1>p, <2>1, <2>2, <2>3
  <2>5. \A other \in todo' : ran'[other] = 0
    BY <1>0, <1>t, <2>1, <2>3
  <2>6. \A other \in ToolIds : ran'[other] = 1 => other \in kept' \/ other \in wanted'
    BY <1>0, <2>1, <2>2, <2>3
  <2>7. WorkKept'
    BY <1>0, <1>t, <2>1, <2>2, <2>3
  <2> QED
    BY <1>0, <2>1, <2>4, <2>5, <2>6, <2>7
<1>14. ASSUME NEW id \in ToolIds, EndTool(id) PROVE ToolInv'
  BY <1>0, <1>14 DEF EndTool, ledger
<1> QED
  BY <1>1, <1>2, <1>3, <1>4, <1>5, <1>6, <1>7, <1>8, <1>9, <1>10, <1>11, <1>12, <1>13, <1>14
  DEF Next, Step

(* The types.  The bounds of attempt, timeouts, rounds and the counts are  *)
(* facts of the other parts.                                               *)
LEMMA TypeStep == IInv /\ Next => TypeOK'
<1> SUFFICES ASSUME IInv, Next PROVE TypeOK'
  OBVIOUS
<1> USE ModelCallAssumption
<1>0. TypeOK /\ RetryInv /\ LedgerInv /\ ToolInv
  BY DEF IInv
<1>n. /\ replies \in Nat /\ rounds \in 0..MaxInner /\ attempt \in 0..MaxRetries
      /\ timeouts \in 0..(TimeoutRetries + 1) /\ calls \in Nat /\ waited \in Nat
      /\ consumed \subseteq Replies
  BY <1>0 DEF TypeOK
<1>1. billed' \in [Replies -> 0..2]
  <2>1. CASE UNCHANGED billed
    BY <1>0, <2>1 DEF TypeOK
  <2>2. ASSUME at \notin {"tracked", "failed"}, NEW some, Bill(some) PROVE billed' \in [Replies -> 0..2]
    BY <1>0, <2>2 DEF Bill, LedgerInv
  <2> QED
    BY <2>1, <2>2 DEF Next, Step, Call, Chunk, MessageComplete, TimesOut, Fails, Wake, TooLong,
       Recovers, StillTooLong, Refused, Cancel, Abort, Raises, Retries, GivesUp, Reply, Commit,
       NextRequest, Track, StartTool, EndTool, ledger
<1>2. ran' \in [ToolIds -> 0..2]
  <2>1. CASE UNCHANGED ran
    BY <1>0, <2>1 DEF TypeOK
  <2>2. ASSUME NEW id \in ToolIds, StartTool(id) PROVE ran' \in [ToolIds -> 0..2]
    <3>1. ran[id] = 0 /\ ran' = [ran EXCEPT ![id] = @ + 1]
      BY <1>0, <2>2 DEF StartTool, ToolInv
    <3> QED
      BY <1>0, <3>1 DEF TypeOK
  <2> QED
    BY <2>1, <2>2 DEF Next, Step, Call, Chunk, MessageComplete, TimesOut, Fails, Wake, TooLong,
       Recovers, StillTooLong, Refused, Cancel, Abort, Reply, Commit, NextRequest, Track, EndTool,
       ledger
<1>3. /\ attempt' \in 0..MaxRetries /\ timeouts' \in 0..(TimeoutRetries + 1)
      /\ calls' \in Nat /\ waited' \in Nat
  <2>1. CASE UNCHANGED <<attempt, timeouts, calls, waited>>
    BY <1>n, <2>1
  <2>2. CASE Call
    BY <1>n, <2>2 DEF Call
  <2>3. CASE TimesOut
    <3>1. at = "open" /\ timeouts' = timeouts + 1 /\ waited' = waited + 1 /\ UNCHANGED <<attempt, calls>>
      BY <2>3 DEF TimesOut, Retries, GivesUp, Raises
    <3>2. timeouts <= TimeoutRetries
      BY <1>0, <3>1 DEF RetryInv, Asking
    <3> QED
      BY <1>n, <3>1, <3>2
  <2>4. CASE Wake
    <3>1. attempt < MaxRetries
      BY <1>0, <2>4 DEF RetryInv, Wake
    <3> QED
      BY <1>n, <2>4, <3>1 DEF Wake
  <2>5. CASE Recovers \/ NextRequest
    BY <1>n, <2>5 DEF Recovers, NextRequest
  <2> QED
    BY <2>1, <2>2, <2>3, <2>4, <2>5 DEF Next, Step, Chunk, MessageComplete, Fails, TooLong,
       StillTooLong, Refused, Cancel, Abort, Raises, Retries, GivesUp, Reply, Commit, Track,
       StartTool, EndTool, request
<1>4. replies' \in 0..(MaxInner + 1) /\ rounds' \in 0..MaxInner /\ consumed' \subseteq Replies
  <2>1. CASE UNCHANGED <<replies, rounds, consumed>>
    BY <1>0, <2>1 DEF TypeOK
  <2>2. CASE Reply
    <3>1. replies = rounds /\ replies' = replies + 1 /\ UNCHANGED <<rounds, consumed>>
      BY <1>0, <2>2 DEF Reply, LedgerInv, Asking, ledger
    <3> QED
      BY <1>n, <3>1
  <2>3. CASE Commit
    <3>1. /\ rounds < MaxInner /\ rounds' = rounds + 1 /\ replies = rounds + 1
          /\ replies' = replies /\ consumed' = consumed \cup {replies}
      BY <1>0, <2>3 DEF Commit, LedgerInv
    <3> QED
      BY <1>n, <3>1 DEF Replies
  <2> QED
    BY <2>1, <2>2, <2>3 DEF Next, Step, Call, Chunk, MessageComplete, TimesOut, Fails, Wake,
       TooLong, Recovers, StillTooLong, Refused, Cancel, Abort, NextRequest, Track, StartTool,
       EndTool, ledger, loop
<1>5. /\ cfg' \in Configs /\ recovered' \in BOOLEAN /\ latch' \in BOOLEAN /\ whole' \in BOOLEAN
      /\ at' \in {"boundary", "open", "sleep", "overflow", "round", "relief",
                  "returned", "tracked", "failed"}
  BY <1>0 DEF TypeOK, Next, Step, Call, Chunk, MessageComplete, TimesOut, Fails, Wake, TooLong,
     Recovers, StillTooLong, Refused, Cancel, Abort, Raises, Retries, GivesUp, Reply, Commit,
     NextRequest, Track, StartTool, EndTool, SignalStreamRestart, request, shown
<1>6. screen' \subseteq Pieces /\ said' \subseteq Pieces
  <2>1. ASSUME NEW kind \in {"text", "tool"} PROVE <<calls, kind>> \in Pieces
    BY <1>n DEF Pieces
  <2>2. CASE Chunk
    BY <1>0, <2>1, <2>2 DEF Chunk, TypeOK
  <2> QED
    BY <1>0, <2>2 DEF TypeOK, Next, Step, Call, MessageComplete, TimesOut, Fails, Wake, TooLong,
     Recovers, StillTooLong, Refused, Cancel, Abort, Raises, Retries, GivesUp, Reply, Commit,
     NextRequest, Track, StartTool, EndTool, SignalStreamRestart, shown
<1>7. /\ wanted' \subseteq ToolIds /\ todo' \subseteq wanted' /\ running' \subseteq wanted'
      /\ kept' \subseteq ToolIds
  <2>1. CASE UNCHANGED <<loop, kept>>
    BY <1>0, <2>1 DEF TypeOK, loop
  <2>2. CASE Abort
    BY <1>0, <2>2 DEF TypeOK, Abort
  <2>3. CASE Reply
    <3>1. replies = rounds /\ replies' = replies + 1 /\ UNCHANGED <<running, kept>>
      BY <1>0, <2>3 DEF Reply, LedgerInv, Asking, ledger
    <3>2. PICK k \in 0..MaxTools : wanted' = {replies'} \X (1..k)
      BY <2>3 DEF Reply
    <3>3. todo' \subseteq wanted'
      BY <2>3 DEF Reply
    <3>4. replies' \in Replies
      BY <1>n, <3>1 DEF Replies
    <3>8. {replies'} \X (1..k) \subseteq ToolIds
      BY <3>4, ReplyTools
    <3>5. wanted' \subseteq ToolIds
      BY <3>2, <3>8, Zenon
    <3>6. running = {}
      BY <1>0, <2>3 DEF Reply, ToolInv, Asking
    <3>7. kept \subseteq ToolIds
      BY <1>0 DEF TypeOK
    <3> QED
      BY <3>1, <3>3, <3>5, <3>6, <3>7
  <2>4. CASE Commit \/ NextRequest
    <3>1. at \in {"round", "relief"}
      BY <2>4 DEF Commit, NextRequest
    <3>2. todo = {} /\ running = {}
      BY <1>0, <2>4 DEF Commit, NextRequest, ToolInv, Asking
    <3> QED
      BY <1>0, <2>4, <3>2 DEF TypeOK, Commit, NextRequest, ledger
  <2>5. CASE \E id \in ToolIds : StartTool(id) \/ EndTool(id)
    BY <1>0, <2>5 DEF TypeOK, StartTool, EndTool, ledger
  <2> QED
    BY <2>1, <2>2, <2>3, <2>4, <2>5 DEF Next, Step, Call, Chunk, MessageComplete, TimesOut, Fails,
       Wake, TooLong, Recovers, StillTooLong, Refused, Cancel, Track, ledger
<1> QED
  BY <1>1, <1>2, <1>3, <1>4, <1>5, <1>6, <1>7 DEF TypeOK

(* A step that changes nothing, and the induction.                         *)
LEMMA Stutter == IInv /\ UNCHANGED vars => IInv'
<1> SUFFICES ASSUME IInv, UNCHANGED vars PROVE IInv'
  OBVIOUS
<1> USE DEF vars, request, shown, loop, ledger
<1>1. TypeOK'
  BY DEF IInv, TypeOK
<1>2. RetryInv' /\ ScreenInv'
  BY DEF IInv, RetryInv, ScreenInv, Base, WBase
<1>3. LedgerInv'
  BY DEF IInv, LedgerInv, BilledOnce
<1>4. ToolInv'
  BY DEF IInv, ToolInv, WorkKept
<1> QED
  BY <1>1, <1>2, <1>3, <1>4 DEF IInv

LEMMA Inductive == Spec => []IInv
<1>1. IInv /\ [Next]_vars => IInv'
  BY RetryStep, ScreenStep, LedgerStep, ToolStep, TypeStep, Stutter DEF IInv
<1> QED
  BY <1>1, InitIInv, PTL DEF Spec

-----------------------------------------------------------------------------
(* Attempts, rounds, replies and counts stay within their bounds.          *)
THEOREM TypeCorrect == Spec => []TypeOK
<1>1. IInv => TypeOK
  BY DEF IInv
<1> QED
  BY <1>1, Inductive, PTL

(* Whatever fails, falls silent or is retried, a reply that is taken is    *)
(* exactly what a consumer that heeds api.stream_restart shows             *)
(* (APIStage._signal_stream_restart).                                      *)
THEOREM ShownIsRecordedAlways == Spec => []ShownIsRecorded
<1>1. IInv => ShownIsRecorded
  <2> SUFFICES ASSUME IInv PROVE ShownIsRecorded
    OBVIOUS
  <2> QED
    BY DEF IInv, ScreenInv, ShownIsRecorded
<1> QED
  BY <1>1, Inductive, PTL

(* Wherever the loop of the stage is interrupted, each reply's tokens are  *)
(* counted once, but for the one in hand (InternalAgenticLoop.run).        *)
THEOREM BilledOnceAlways == Spec => []BilledOnce
<1>1. IInv => BilledOnce
  BY DEF IInv, LedgerInv
<1> QED
  BY <1>1, Inductive, PTL

(* Wherever the loop of the stage is interrupted, no tool call has run     *)
(* twice, and none of an earlier reply is missing from the messages        *)
(* (InternalAgenticLoop.run).                                              *)
THEOREM WorkKeptAlways == Spec => []WorkKept
<1>1. IInv => WorkKept
  BY DEF IInv, ToolInv
<1> QED
  BY <1>1, Inductive, PTL

(* The provider is asked no more often than the strategy, the allowance    *)
(* for timeouts and the one recovery permit                                *)
(* (APIStage._call_streaming_with_retry, _recover_overflow).               *)
THEOREM AttemptsBoundedAlways == Spec => []AttemptsBounded
<1>1. IInv => AttemptsBounded
  <2> SUFFICES ASSUME IInv PROVE AttemptsBounded
    OBVIOUS
  <2>1. /\ calls \in Nat /\ waited \in Nat /\ timeouts \in Nat /\ timeouts <= TimeoutRetries + 1
        /\ calls <= Base + MaxRetries + 1 /\ waited <= WBase + timeouts
    BY ModelCallAssumption DEF IInv, TypeOK, RetryInv
  <2>2. CASE recovered
    BY <2>1, <2>2, ModelCallAssumption DEF AttemptsBounded, Base, WBase
  <2>3. CASE ~recovered
    BY <2>1, <2>3, ModelCallAssumption DEF AttemptsBounded, Base, WBase
  <2> QED
    BY <2>2, <2>3
<1> QED
  BY <1>1, Inductive, PTL

-----------------------------------------------------------------------------
(* The audit trail.  First the file: what it holds, from the disk to the   *)
(* lines that are pending.                                                 *)

Content(f) == f.disk \o f.buffer \o f.pending

Tidy(f) ==
    /\ f \in File
    /\ f.synced <= Len(f.disk)
    /\ ~f.open => f.buffer = <<>>
    /\ ~f.exists => f.disk = <<>> /\ ~f.open

Grows(f, g) ==
    /\ f.synced <= g.synced
    /\ \A i \in 1 .. f.synced : g.disk[i] = f.disk[i]

Clean(f) == f.pending = <<>> /\ f.buffer = <<>> /\ f.synced = Len(f.disk)

(* A file record by its fields, and with one of them replaced.             *)
LEMMA FileFields ==
  ASSUME NEW f \in File
  PROVE  f = [pending |-> f.pending, buffer |-> f.buffer, disk |-> f.disk,
              synced |-> f.synced, exists |-> f.exists, open |-> f.open]
BY DEF File

LEMMA EachField ==
  ASSUME NEW p, NEW b, NEW d, NEW s, NEW e, NEW o, NEW x, NEW f,
         f = [pending |-> p, buffer |-> b, disk |-> d, synced |-> s, exists |-> e, open |-> o]
  PROVE  /\ [f EXCEPT !.open = x] = [pending |-> p, buffer |-> b, disk |-> d, synced |-> s,
                                     exists |-> e, open |-> x]
         /\ [f EXCEPT !.buffer = x] = [pending |-> p, buffer |-> x, disk |-> d, synced |-> s,
                                       exists |-> e, open |-> o]
         /\ [f EXCEPT !.disk = x] = [pending |-> p, buffer |-> b, disk |-> x, synced |-> s,
                                     exists |-> e, open |-> o]
OBVIOUS

(* A file record with two of its fields replaced.                          *)
LEMMA SetOpen ==
  ASSUME NEW f \in File, NEW o, NEW e
  PROVE  [f EXCEPT !.open = o, !.exists = e]
           = [pending |-> f.pending, buffer |-> f.buffer, disk |-> f.disk,
              synced |-> f.synced, exists |-> e, open |-> o]
<1> DEFINE g == [f EXCEPT !.open = o]
<1>1. [f EXCEPT !.open = o, !.exists = e] = [g EXCEPT !.exists = e]
  BY Zenon
<1>2. g = [pending |-> f.pending, buffer |-> f.buffer, disk |-> f.disk,
           synced |-> f.synced, exists |-> f.exists, open |-> o]
  BY FileFields, EachField
<1> HIDE DEF g
<1> QED
  BY <1>1, <1>2

(* The same for the buffer and the pending lines...                        *)
LEMMA SetBuffer ==
  ASSUME NEW f \in File, NEW b, NEW p
  PROVE  [f EXCEPT !.buffer = b, !.pending = p]
           = [pending |-> p, buffer |-> b, disk |-> f.disk,
              synced |-> f.synced, exists |-> f.exists, open |-> f.open]
<1> DEFINE g == [f EXCEPT !.buffer = b]
<1>1. [f EXCEPT !.buffer = b, !.pending = p] = [g EXCEPT !.pending = p]
  BY Zenon
<1>2. g = [pending |-> f.pending, buffer |-> b, disk |-> f.disk,
           synced |-> f.synced, exists |-> f.exists, open |-> f.open]
  BY FileFields, EachField
<1> HIDE DEF g
<1> QED
  BY <1>1, <1>2

(* ... the disk and the buffer...                                          *)
LEMMA SetDisk ==
  ASSUME NEW f \in File, NEW d, NEW b
  PROVE  [f EXCEPT !.disk = d, !.buffer = b]
           = [pending |-> f.pending, buffer |-> b, disk |-> d,
              synced |-> f.synced, exists |-> f.exists, open |-> f.open]
<1> DEFINE g == [f EXCEPT !.disk = d]
<1>1. [f EXCEPT !.disk = d, !.buffer = b] = [g EXCEPT !.buffer = b]
  BY Zenon
<1>2. g = [pending |-> f.pending, buffer |-> f.buffer, disk |-> d,
           synced |-> f.synced, exists |-> f.exists, open |-> f.open]
  BY FileFields, EachField
<1> HIDE DEF g
<1> QED
  BY <1>1, <1>2

(* ... the buffer and the handle.                                          *)
LEMMA SetClosed ==
  ASSUME NEW f \in File, NEW b, NEW o
  PROVE  [f EXCEPT !.buffer = b, !.open = o]
           = [pending |-> f.pending, buffer |-> b, disk |-> f.disk,
              synced |-> f.synced, exists |-> f.exists, open |-> o]
<1> DEFINE g == [f EXCEPT !.buffer = b]
<1>1. [f EXCEPT !.buffer = b, !.open = o] = [g EXCEPT !.open = o]
  BY Zenon
<1>2. g = [pending |-> f.pending, buffer |-> b, disk |-> f.disk,
           synced |-> f.synced, exists |-> f.exists, open |-> f.open]
  BY FileFields, EachField
<1> HIDE DEF g
<1> QED
  BY <1>1, <1>2

(* The length and the front of two joined sequences.                       *)
LEMMA Joined ==
  ASSUME NEW S, NEW s \in Seq(S), NEW t \in Seq(S)
  PROVE  /\ s \o t \in Seq(S)
         /\ Len(s) \in Nat /\ Len(t) \in Nat /\ Len(s \o t) = Len(s) + Len(t)
         /\ \A i \in 1 .. Len(s) : (s \o t)[i] = s[i]
OBVIOUS

(* Moving the border between two places leaves the text as it is.          *)
LEMMA Rejoined ==
  ASSUME NEW S, NEW s \in Seq(S), NEW t \in Seq(S), NEW u \in Seq(S)
  PROVE  /\ s \o t \o u = s \o (t \o u) \o <<>>
         /\ s \o t \o u = s \o t \o <<>> \o u
<1>1. /\ s \o t \o u = s \o (t \o u) /\ s \o t \in Seq(S) /\ s \o (t \o u) \in Seq(S)
  OBVIOUS
<1> QED
  BY <1>1, ConcatEmptySeq

(* Handing the pending lines to the buffer moves them...                   *)
LEMMA BufferedKeeps ==
  ASSUME NEW f, Tidy(f)
  PROVE  /\ Tidy(Buffered(f)) /\ Content(Buffered(f)) = Content(f)
         /\ Grows(f, Buffered(f))
         /\ Buffered(f).pending = <<>> /\ Buffered(f).open
<1> DEFINE b == f.buffer \o f.pending
           o == Opened(f)
           g == Buffered(f)
<1>1. f \in File
  BY DEF Tidy
<1>2. /\ f.pending \in Seq(Records) /\ f.buffer \in Seq(Records) /\ f.disk \in Seq(Records)
      /\ f.synced \in Nat
  BY <1>1 DEF File
<1>3. b \in Seq(Records) /\ <<>> \in Seq(Records)
  BY <1>2, Joined, EmptySeq
<1>4. o = [pending |-> f.pending, buffer |-> f.buffer, disk |-> f.disk,
           synced |-> f.synced, exists |-> TRUE, open |-> TRUE]
  BY <1>1, SetOpen, Zenon DEF Opened
<1>5. g = [o EXCEPT !.buffer = o.buffer \o f.pending, !.pending = <<>>]
  BY Zenon DEF Buffered
<1>6. Content(f) = f.disk \o b \o <<>>
  <2>1. \A x, y, z \in Seq(Records) : x \o y \o z = x \o (y \o z) \o <<>>
    BY Rejoined
  <2>2. f.disk \o f.buffer \o f.pending = f.disk \o (f.buffer \o f.pending) \o <<>>
    BY <1>2, <2>1, Zenon
  <2> QED
    BY <2>2, Zenon DEF Content
<1> HIDE DEF o, g
<1>8. o \in File
  BY <1>2, <1>4 DEF File
<1>9. o.buffer = f.buffer /\ o.disk = f.disk /\ o.synced = f.synced /\ o.exists /\ o.open
  BY <1>4
<1>10. g = [o EXCEPT !.buffer = b, !.pending = <<>>]
  BY <1>5, <1>9, Zenon
<1> HIDE DEF b
<1>11. [o EXCEPT !.buffer = b, !.pending = <<>>]
         = [pending |-> <<>>, buffer |-> b, disk |-> o.disk,
            synced |-> o.synced, exists |-> o.exists, open |-> o.open]
  BY <1>8, SetBuffer, Zenon
<1>12. /\ g \in File
       /\ g.pending = <<>> /\ g.buffer = b /\ g.disk = f.disk /\ g.synced = f.synced
       /\ g.exists /\ g.open
  BY <1>2, <1>3, <1>8, <1>9, <1>10, <1>11 DEF File
<1>13. Tidy(g) /\ Grows(f, g)
  BY <1>12 DEF Tidy, Grows, File
<1>14. Content(g) = Content(f)
  BY <1>6, <1>12, Zenon DEF Content
<1> QED
  BY <1>12, <1>13, <1>14 DEF g

(* ... as a flush moves those of the buffer to the file.                   *)
LEMMA FlushedKeeps ==
  ASSUME NEW f, Tidy(f)
  PROVE  /\ Tidy(Flushed(f)) /\ Content(Flushed(f)) = Content(f)
         /\ Grows(f, Flushed(f))
         /\ Flushed(f).pending = f.pending /\ Flushed(f).buffer = <<>>
         /\ Flushed(f).open = f.open
<1> DEFINE d == f.disk \o f.buffer
           g == Flushed(f)
<1>1. f \in File /\ f.synced <= Len(f.disk)
  BY DEF Tidy
<1>2. /\ f.pending \in Seq(Records) /\ f.buffer \in Seq(Records) /\ f.disk \in Seq(Records)
      /\ f.synced \in Nat
  BY <1>1 DEF File
<1>3. /\ d \in Seq(Records) /\ <<>> \in Seq(Records)
      /\ Len(f.disk) \in Nat /\ Len(f.buffer) \in Nat /\ Len(d) = Len(f.disk) + Len(f.buffer)
      /\ \A i \in 1 .. Len(f.disk) : d[i] = f.disk[i]
  <2>1. <<>> \in Seq(Records)
    BY EmptySeq
  <2> QED
    BY <1>2, <2>1, Joined, Zenon
<1>4. ~f.exists => d = <<>>
  BY <1>2, ConcatEmptySeq DEF Tidy
<1>5. Content(f) = d \o <<>> \o f.pending
  BY <1>2, Rejoined DEF Content
<1>6. g = [f EXCEPT !.disk = d, !.buffer = <<>>]
  BY Zenon DEF Flushed
<1> HIDE DEF d, g
<1>7. g = [pending |-> f.pending, buffer |-> <<>>, disk |-> d,
           synced |-> f.synced, exists |-> f.exists, open |-> f.open]
  BY <1>1, <1>6, SetDisk, Zenon
<1>8. /\ g \in File
      /\ g.pending = f.pending /\ g.buffer = <<>> /\ g.disk = d /\ g.synced = f.synced
      /\ g.exists = f.exists /\ g.open = f.open
  BY <1>1, <1>2, <1>3, <1>7 DEF File
<1>9. f.synced <= Len(d) /\ \A i \in 1 .. f.synced : d[i] = f.disk[i]
  <2>1. f.synced <= Len(d)
    <3> DEFINE n == Len(f.disk)
               m == Len(f.buffer)
               k == Len(d)
               l == f.synced
    <3>1. l <= n /\ l \in Nat /\ n \in Nat /\ m \in Nat /\ k = n + m
      BY <1>1, <1>2, <1>3
    <3> HIDE DEF n, m, k, l
    <3>2. l <= k
      BY <3>1
    <3> QED
      BY <3>2 DEF k, l
  <2>2. ASSUME NEW i \in 1 .. f.synced PROVE d[i] = f.disk[i]
    <3>1. i \in 1 .. Len(f.disk)
      BY <1>1, <1>2, <1>3
    <3> QED
      BY <1>3, <3>1
  <2> QED
    BY <2>1, <2>2
<1>10. Tidy(g)
  BY <1>4, <1>8, <1>9 DEF Tidy
<1>11. Grows(f, g)
  BY <1>2, <1>8, <1>9 DEF Grows
<1>12. Content(g) = Content(f)
  BY <1>5, <1>8, Zenon DEF Content
<1> QED
  BY <1>8, <1>10, <1>11, <1>12 DEF g

(* An fsync moves none.                                                    *)
LEMMA SyncedKeeps ==
  ASSUME NEW f, Tidy(f)
  PROVE  /\ Tidy(Synced(f)) /\ Content(Synced(f)) = Content(f)
         /\ Grows(f, Synced(f))
         /\ Synced(f).pending = f.pending /\ Synced(f).buffer = f.buffer
         /\ Synced(f).synced = Len(Synced(f).disk)
<1>1. f \in File
  BY DEF Tidy
<1>2. f.disk \in Seq(Records) /\ f.synced \in Nat /\ Len(f.disk) \in Nat
  BY <1>1, LenProperties DEF File
<1>3. Synced(f) = [pending |-> f.pending, buffer |-> f.buffer, disk |-> f.disk,
                   synced |-> Len(f.disk), exists |-> f.exists, open |-> f.open]
  BY <1>1 DEF Synced, File
<1>4. Synced(f) \in File
  BY <1>1, <1>2, <1>3 DEF File
<1>5. Tidy(Synced(f)) /\ Grows(f, Synced(f))
  BY <1>2, <1>3, <1>4 DEF Tidy, Grows
<1>6. Synced(f).disk = f.disk /\ Synced(f).buffer = f.buffer /\ Synced(f).pending = f.pending
  BY <1>3
<1>7. Content(Synced(f)) = Content(f)
  BY <1>6, Zenon DEF Content
<1> QED
  BY <1>3, <1>5, <1>7

(* The fsynced prefix only grows.                                          *)
LEMMA GrowsOn ==
  ASSUME NEW f, NEW g, NEW h, Tidy(f), Tidy(g), Tidy(h), Grows(f, g), Grows(g, h)
  PROVE  Grows(f, h)
BY DEF Tidy, Grows, File

(* It may stay.                                                            *)
LEMMA GrowsSame ==
  ASSUME NEW f, Tidy(f)
  PROVE  Grows(f, f)
BY DEF Tidy, Grows, File

(* One attempt, whatever fails in it: no line is lost or repeated, and a   *)
(* success with fsync leaves nothing behind.                               *)
LEMMA AttemptKeeps ==
  ASSUME NEW f, Tidy(f), NEW durable \in BOOLEAN, NEW a \in Attempts(f, durable)
  PROVE  /\ a.ok \in BOOLEAN
         /\ Tidy(a.file) /\ Content(a.file) = Content(f) /\ Grows(f, a.file)
         /\ a.ok /\ durable => Clean(a.file)
<1>1. CASE Skipped(f, durable)
  <2>1. a = [file |-> f, ok |-> TRUE]
    BY <1>1 DEF Attempts
  <2>2. durable => f.disk = <<>> /\ f.buffer = <<>> /\ f.pending = <<>>
    BY <1>1 DEF Skipped, Tidy
  <2>3. durable => f.synced = Len(f.disk)
    <3>1. f.synced <= Len(f.disk) /\ f.synced \in Nat
      BY DEF Tidy, File
    <3>2. Len(<<>>) = 0
      OBVIOUS
    <3> QED
      BY <2>2, <3>1, <3>2
  <2> QED
    BY <2>1, <2>2, <2>3, GrowsSame DEF Clean
<1>2. CASE ~Skipped(f, durable)
  <2> DEFINE b == Buffered(f)
             c == Flushed(b)
             d == Synced(c)
  <2>1. Tidy(b) /\ Content(b) = Content(f) /\ Grows(f, b) /\ b.pending = <<>>
    BY BufferedKeeps
  <2>2. /\ Tidy(c) /\ Content(c) = Content(b) /\ Grows(b, c)
        /\ c.pending = <<>> /\ c.buffer = <<>>
    BY <2>1, FlushedKeeps
  <2>3. /\ Tidy(d) /\ Content(d) = Content(c) /\ Grows(c, d)
        /\ d.pending = <<>> /\ d.buffer = <<>> /\ d.synced = Len(d.disk)
    BY <2>2, SyncedKeeps
  <2>4. Grows(f, c)
    BY <2>1, <2>2, GrowsOn
  <2>5. Grows(f, d)
    BY <2>2, <2>3, <2>4, GrowsOn
  <2>6. \/ a = [file |-> d, ok |-> TRUE] /\ durable
        \/ a = [file |-> c, ok |-> TRUE] /\ ~durable
        \/ a = [file |-> b, ok |-> FALSE]
        \/ a = [file |-> f, ok |-> FALSE]
        \/ a = [file |-> c, ok |-> FALSE]
    BY <1>2 DEF Attempts
  <2> HIDE DEF b, c, d
  <2>7. CASE a = [file |-> d, ok |-> TRUE] /\ durable
    BY <2>1, <2>2, <2>3, <2>5, <2>7 DEF Clean
  <2>8. CASE a = [file |-> c, ok |-> TRUE] /\ ~durable
    BY <2>1, <2>2, <2>4, <2>8
  <2>9. CASE a = [file |-> b, ok |-> FALSE]
    BY <2>1, <2>9
  <2>10. CASE a = [file |-> f, ok |-> FALSE]
    BY <2>10, GrowsSame
  <2>11. CASE a = [file |-> c, ok |-> FALSE]
    BY <2>1, <2>2, <2>4, <2>11
  <2> QED
    BY <2>6, <2>7, <2>8, <2>9, <2>10, <2>11
<1> QED
  BY <1>1, <1>2

(* close() keeps what it can flush...                                      *)
LEMMA ClosedKeeps ==
  ASSUME NEW f, Tidy(f)
  PROVE  /\ Tidy(Closed(f)) /\ Content(Closed(f)) = Content(f) /\ Grows(f, Closed(f))
<1> DEFINE c == Flushed(f)
<1>1. /\ Tidy(c) /\ Content(c) = Content(f) /\ Grows(f, c) /\ c.buffer = <<>>
  BY FlushedKeeps
<1>2. Closed(f) = [c EXCEPT !.open = FALSE]
  BY DEF Closed
<1> HIDE DEF c
<1>3. c \in File
  BY <1>1 DEF Tidy
<1>4. Closed(f) = [pending |-> c.pending, buffer |-> c.buffer, disk |-> c.disk,
                   synced |-> c.synced, exists |-> c.exists, open |-> FALSE]
  BY <1>2, <1>3 DEF File
<1>5. Closed(f) \in File
  BY <1>3, <1>4 DEF File
<1>6. Tidy(Closed(f)) /\ Grows(f, Closed(f))
  BY <1>1, <1>4, <1>5 DEF Tidy, Grows
<1>7. Content(Closed(f)) = Content(f)
  <2>1. /\ Closed(f).disk = c.disk /\ Closed(f).buffer = c.buffer
        /\ Closed(f).pending = c.pending
    BY <1>4
  <2> QED
    BY <1>1, <2>1, Zenon DEF Content
<1> QED
  BY <1>6, <1>7

(* ... and loses what was in the buffer when it cannot.                    *)
LEMMA ClosedBadlyKeeps ==
  ASSUME NEW f, Tidy(f)
  PROVE  /\ Tidy(ClosedBadly(f)) /\ Grows(f, ClosedBadly(f))
         /\ f.buffer = <<>> => Content(ClosedBadly(f)) = Content(f)
<1>1. f \in File
  BY DEF Tidy
<1>2. ClosedBadly(f) = [pending |-> f.pending, buffer |-> <<>>, disk |-> f.disk,
                   synced |-> f.synced, exists |-> f.exists, open |-> FALSE]
  <2>1. ClosedBadly(f) = [f EXCEPT !.buffer = <<>>, !.open = FALSE]
    BY Zenon DEF ClosedBadly
  <2> QED
    BY <1>1, <2>1, SetClosed, Zenon
<1>3. <<>> \in Seq(Records)
  BY EmptySeq
<1>4. ClosedBadly(f) \in File
  BY <1>1, <1>2, <1>3 DEF File
<1>5. Tidy(ClosedBadly(f)) /\ Grows(f, ClosedBadly(f))
  BY <1>1, <1>2, <1>4 DEF Tidy, Grows, File
<1>6. /\ ClosedBadly(f).disk = f.disk /\ ClosedBadly(f).buffer = <<>>
      /\ ClosedBadly(f).pending = f.pending
  BY <1>2
<1> QED
  BY <1>5, <1>6, Zenon DEF Content

(* Both attempts of write_pending.                                         *)
LEMMA WriteKeeps ==
  ASSUME NEW f, Tidy(f), NEW durable \in BOOLEAN, NEW w \in Writes(f, durable)
  PROVE  /\ w.ok \in BOOLEAN /\ w.drops \in BOOLEAN /\ w.failed \in BOOLEAN
         /\ Tidy(w.file) /\ Grows(f, w.file)
         /\ ~w.drops => Content(w.file) = Content(f)
         /\ w.ok /\ durable => Clean(w.file)
<1> DEFINE first == Attempts(f, durable)
           bad   == {one \in first : ~one.ok}
           again == UNION {Attempts(Closed(one.file), durable) : one \in bad}
<1>1. \/ \E one \in first \ bad :
            w = [file |-> one.file, ok |-> TRUE, failed |-> FALSE, drops |-> FALSE]
      \/ \E one \in bad :
            w = [file |-> ClosedBadly(one.file), ok |-> FALSE, failed |-> TRUE,
                 drops |-> one.file.buffer # <<>>]
      \/ \E two \in again :
            w = [file |-> two.file, ok |-> two.ok, failed |-> TRUE, drops |-> FALSE]
  BY DEF Writes
<1>2. \A one \in first : /\ one.ok \in BOOLEAN
                         /\ Tidy(one.file) /\ Content(one.file) = Content(f)
                         /\ Grows(f, one.file)
                         /\ one.ok /\ durable => Clean(one.file)
  BY AttemptKeeps
<1>3. CASE \E one \in first \ bad :
            w = [file |-> one.file, ok |-> TRUE, failed |-> FALSE, drops |-> FALSE]
  BY <1>2, <1>3
<1>4. CASE \E one \in bad :
            w = [file |-> ClosedBadly(one.file), ok |-> FALSE, failed |-> TRUE,
                 drops |-> one.file.buffer # <<>>]
  <2>1. PICK one \in bad :
            w = [file |-> ClosedBadly(one.file), ok |-> FALSE, failed |-> TRUE,
                 drops |-> one.file.buffer # <<>>]
    BY <1>4
  <2> HIDE DEF first
  <2>2. Tidy(one.file) /\ Content(one.file) = Content(f) /\ Grows(f, one.file)
    BY <1>2
  <2>3. /\ Tidy(ClosedBadly(one.file)) /\ Grows(one.file, ClosedBadly(one.file))
        /\ one.file.buffer = <<>> => Content(ClosedBadly(one.file)) = Content(one.file)
    BY <2>2, ClosedBadlyKeeps
  <2>4. Grows(f, ClosedBadly(one.file))
    BY <2>2, <2>3, GrowsOn
  <2> QED
    BY <2>1, <2>2, <2>3, <2>4
<1>5. CASE \E two \in again :
            w = [file |-> two.file, ok |-> two.ok, failed |-> TRUE, drops |-> FALSE]
  <2>1. PICK two \in again :
            w = [file |-> two.file, ok |-> two.ok, failed |-> TRUE, drops |-> FALSE]
    BY <1>5
  <2>2. PICK one \in bad : two \in Attempts(Closed(one.file), durable)
    OBVIOUS
  <2> HIDE DEF first
  <2>3. Tidy(one.file) /\ Content(one.file) = Content(f) /\ Grows(f, one.file)
    BY <1>2
  <2>4. /\ Tidy(Closed(one.file)) /\ Content(Closed(one.file)) = Content(one.file)
        /\ Grows(one.file, Closed(one.file))
    BY <2>3, ClosedKeeps
  <2>5. /\ two.ok \in BOOLEAN
        /\ Tidy(two.file) /\ Content(two.file) = Content(Closed(one.file))
        /\ Grows(Closed(one.file), two.file)
        /\ two.ok /\ durable => Clean(two.file)
    BY <2>2, <2>4, AttemptKeeps
  <2>6. Grows(f, two.file)
    BY <2>3, <2>4, <2>5, GrowsOn
  <2> QED
    BY <2>1, <2>3, <2>4, <2>5, <2>6
<1> QED
  BY <1>1, <1>3, <1>4, <1>5

IsAdd(c, record) == c = [kind |-> "add", record |-> record]

(* The records of acc after the first n are those of wait, in order.       *)
Placing(n, acc, wait, place) ==
    /\ place \in [n + 1 .. Len(acc) -> DOMAIN wait]
    /\ \A i \in n + 1 .. Len(acc) : IsAdd(wait[place[i]], acc[i])
    /\ \A i, j \in n + 1 .. Len(acc) : i < j => place[i] < place[j]
    /\ \A p \in DOMAIN wait :
          wait[p].kind = "add" => \E i \in n + 1 .. Len(acc) : place[i] = p

Placed(n, acc, wait) == \E place : Placing(n, acc, wait, place)

(* A record goes to the end of both.                                       *)
LEMMA PlacedAccept ==
  ASSUME NEW acc \in Seq(Records), NEW wait \in Seq(Command),
         NEW n \in 0 .. Len(acc), NEW r \in Records, Placed(n, acc, wait)
  PROVE  Placed(n, Append(acc, r), Append(wait, [kind |-> "add", record |-> r]))
<1> DEFINE c == [kind |-> "add", record |-> r]
           a == Append(acc, r)
           w == Append(wait, c)
           l == Len(acc)
           m == Len(wait)
<1>1. /\ l \in Nat /\ m \in Nat /\ Len(a) = l + 1 /\ DOMAIN wait = 1 .. m /\ DOMAIN w = 1 .. m + 1
      /\ a[l + 1] = r /\ w[m + 1] = c
      /\ \A i \in 1 .. l : a[i] = acc[i]
      /\ \A i \in 1 .. m : w[i] = wait[i]
  OBVIOUS
<1>2. PICK place : Placing(n, acc, wait, place)
  BY DEF Placed
<1> DEFINE q == [i \in n + 1 .. l + 1 |-> IF i = l + 1 THEN m + 1 ELSE place[i]]
<1>3. n \in Nat /\ n <= l
  BY <1>1
<1>4. \A i \in n + 1 .. l : place[i] \in 1 .. m
  BY <1>1, <1>2 DEF Placing
<1>c. IsAdd(c, r)
  BY DEF IsAdd
<1> HIDE DEF c, a, w, l, m
<1>5. /\ DOMAIN q = n + 1 .. l + 1 /\ q[l + 1] = m + 1
      /\ \A i \in n + 1 .. l : q[i] = place[i]
  BY <1>1, <1>3
<1>6. q \in [n + 1 .. l + 1 -> 1 .. m + 1]
  BY <1>1, <1>3, <1>4
<1> HIDE DEF q
<1>7. ASSUME NEW i \in n + 1 .. l + 1 PROVE i = l + 1 \/ i \in n + 1 .. l
  BY <1>1, <1>3
<1>8. ASSUME NEW i \in n + 1 .. l + 1 PROVE IsAdd(w[q[i]], a[i])
  <2>1. CASE i = l + 1
    BY <1>1, <1>5, <1>c, <2>1
  <2>2. CASE i \in n + 1 .. l
    <3>1. IsAdd(wait[place[i]], acc[i])
      BY <1>2, <2>2 DEF Placing, l
    <3>2. i \in 1 .. l
      BY <1>1, <1>3, <2>2
    <3> QED
      BY <1>1, <1>4, <1>5, <2>2, <3>1, <3>2
  <2> QED
    BY <1>7, <2>1, <2>2
<1>9. ASSUME NEW i \in n + 1 .. l + 1, NEW j \in n + 1 .. l + 1, i < j PROVE q[i] < q[j]
  <2>1. i \in n + 1 .. l
    BY <1>1, <1>3, <1>9
  <2>2. CASE j = l + 1
    BY <1>1, <1>4, <1>5, <2>1, <2>2
  <2>3. CASE j \in n + 1 .. l
    <3>1. place[i] < place[j]
      BY <1>2, <1>9, <2>1, <2>3 DEF Placing, l
    <3> QED
      BY <1>5, <2>1, <2>3, <3>1
  <2> QED
    BY <1>7, <2>2, <2>3
<1>10. ASSUME NEW p \in 1 .. m + 1, w[p].kind = "add"
       PROVE \E i \in n + 1 .. l + 1 : q[i] = p
  <2>1. CASE p = m + 1
    <3>1. l + 1 \in n + 1 .. l + 1
      BY <1>1, <1>3
    <3> QED
      BY <1>5, <2>1, <3>1
  <2>2. CASE p # m + 1
    <3>1. p \in 1 .. m
      BY <1>1, <2>2
    <3>2. wait[p].kind = "add"
      BY <1>1, <1>10, <3>1
    <3>3. PICK i \in n + 1 .. l : place[i] = p
      BY <1>1, <1>2, <3>1, <3>2 DEF Placing, l
    <3>4. i \in n + 1 .. l + 1
      BY <1>1, <1>3
    <3> QED
      BY <1>5, <3>3, <3>4
  <2> QED
    BY <2>1, <2>2
<1>11. Placing(n, a, w, q)
  BY <1>1, <1>6, <1>8, <1>9, <1>10 DEF Placing
<1> QED
  BY <1>11 DEF Placed, a, w, c

(* Commands that add nothing may come at the end...                        *)
LEMMA PlacedPut ==
  ASSUME NEW acc \in Seq(Records), NEW wait \in Seq(Command),
         NEW n \in 0 .. Len(acc), NEW c \in Command, c.kind # "add", Placed(n, acc, wait)
  PROVE  Placed(n, acc, Append(wait, c))
<1> DEFINE w == Append(wait, c)
           m == Len(wait)
<1>1. /\ m \in Nat /\ DOMAIN wait = 1 .. m /\ DOMAIN w = 1 .. m + 1 /\ w[m + 1] = c
      /\ \A i \in 1 .. m : w[i] = wait[i]
  OBVIOUS
<1>2. PICK place : Placing(n, acc, wait, place)
  BY DEF Placed
<1> HIDE DEF w, m
<1>3. /\ place \in [n + 1 .. Len(acc) -> 1 .. m]
      /\ \A i \in n + 1 .. Len(acc) : place[i] \in 1 .. m
  BY <1>1, <1>2 DEF Placing
<1>4. 1 .. m \subseteq 1 .. m + 1
  BY <1>1
<1>5. place \in [n + 1 .. Len(acc) -> 1 .. m + 1]
  BY <1>3, <1>4
<1>6. \A i \in n + 1 .. Len(acc) : IsAdd(w[place[i]], acc[i])
  BY <1>1, <1>2, <1>3 DEF Placing
<1>7. ASSUME NEW p \in 1 .. m + 1, w[p].kind = "add"
      PROVE  \E i \in n + 1 .. Len(acc) : place[i] = p
  <2>1. p \in 1 .. m
    BY <1>1, <1>7
  <2> QED
    BY <1>1, <1>2, <1>7, <2>1 DEF Placing
<1>8. Placing(n, acc, w, place)
  BY <1>1, <1>2, <1>5, <1>6, <1>7 DEF Placing
<1> QED
  BY <1>8 DEF Placed, w

(* ... or change where they stand.                                         *)
LEMMA PlacedOrphan ==
  ASSUME NEW acc, NEW n, NEW wait, NEW w, Placed(n, acc, wait), DOMAIN w = DOMAIN wait,
         \A p \in DOMAIN wait :
            \/ w[p] = wait[p]
            \/ wait[p].kind # "add" /\ w[p].kind # "add"
  PROVE  Placed(n, acc, w)
<1>1. PICK place : Placing(n, acc, wait, place)
  BY DEF Placed
<1>2. ASSUME NEW i \in n + 1 .. Len(acc) PROVE IsAdd(w[place[i]], acc[i])
  <2>1. place[i] \in DOMAIN wait /\ IsAdd(wait[place[i]], acc[i])
    BY <1>1 DEF Placing
  <2>2. wait[place[i]].kind = "add"
    BY <2>1 DEF IsAdd
  <2> QED
    BY <2>1, <2>2
<1>3. ASSUME NEW p \in DOMAIN w, w[p].kind = "add"
      PROVE  \E i \in n + 1 .. Len(acc) : place[i] = p
  <2>1. wait[p].kind = "add"
    BY <1>3
  <2> QED
    BY <1>1, <2>1 DEF Placing
<1>4. Placing(n, acc, w, place)
  BY <1>1, <1>2, <1>3 DEF Placing
<1> QED
  BY <1>4 DEF Placed

(* The first command goes, and adds nothing...                             *)
LEMMA PlacedSkip ==
  ASSUME NEW acc \in Seq(Records), NEW wait \in Seq(Command), NEW w \in Seq(Command),
         NEW n \in 0 .. Len(acc), Placed(n, acc, wait),
         Len(wait) = Len(w) + 1, \A p \in 1 .. Len(w) : w[p] = wait[p + 1],
         wait[1].kind # "add"
  PROVE  Placed(n, acc, w)
<1> DEFINE m == Len(w)
           l == Len(acc)
<1>1. /\ m \in Nat /\ l \in Nat /\ DOMAIN wait = 1 .. m + 1 /\ DOMAIN w = 1 .. m
      /\ n \in Nat /\ n <= l
  OBVIOUS
<1>2. PICK place : Placing(n, acc, wait, place)
  BY DEF Placed
<1> DEFINE q == [i \in n + 1 .. l |-> place[i] - 1]
<1>3. ASSUME NEW i \in n + 1 .. l
      PROVE  /\ place[i] \in 2 .. m + 1 /\ q[i] = place[i] - 1
             /\ q[i] \in 1 .. m /\ place[i] = q[i] + 1
             /\ IsAdd(wait[place[i]], acc[i])
  <2>1. place[i] \in 1 .. m + 1 /\ IsAdd(wait[place[i]], acc[i])
    BY <1>1, <1>2 DEF Placing
  <2>2. place[i] # 1
    BY <2>1 DEF IsAdd
  <2>3. q[i] = place[i] - 1
    OBVIOUS
  <2> HIDE DEF q, m, l
  <2> QED
    BY <1>1, <2>1, <2>2, <2>3
<1>4. q \in [n + 1 .. l -> 1 .. m]
  BY <1>3
<1>5. \A p \in 1 .. m : w[p] = wait[p + 1]
  OBVIOUS
<1> HIDE DEF q, m
<1>6. ASSUME NEW i \in n + 1 .. l PROVE IsAdd(w[q[i]], acc[i])
  <2>1. w[q[i]] = wait[place[i]]
    BY <1>3, <1>5
  <2> QED
    BY <1>3, <2>1
<1>7. ASSUME NEW i \in n + 1 .. l, NEW j \in n + 1 .. l, i < j PROVE q[i] < q[j]
  <2>1. place[i] < place[j]
    BY <1>2, <1>7 DEF Placing
  <2>2. place[i] \in Int /\ place[j] \in Int /\ q[i] = place[i] - 1 /\ q[j] = place[j] - 1
    <3>1. place[i] \in 2 .. m + 1 /\ place[j] \in 2 .. m + 1
      BY <1>3
    <3> QED
      BY <1>1, <1>3, <3>1
  <2> QED
    BY <2>1, <2>2
<1>8. ASSUME NEW p \in 1 .. m, w[p].kind = "add"
      PROVE  \E i \in n + 1 .. l : q[i] = p
  <2>1. p + 1 \in 1 .. m + 1 /\ wait[p + 1].kind = "add"
    BY <1>1, <1>5, <1>8
  <2>2. PICK i \in n + 1 .. l : place[i] = p + 1
    BY <1>1, <1>2, <2>1 DEF Placing
  <2>3. q[i] = p
    BY <1>1, <1>3, <2>2
  <2> QED
    BY <2>3
<1>9. Placing(n, acc, w, q)
  BY <1>1, <1>4, <1>6, <1>7, <1>8 DEF Placing
<1> QED
  BY <1>9 DEF Placed

(* ... or the next record.                                                 *)
LEMMA PlacedWritten ==
  ASSUME NEW acc \in Seq(Records), NEW wait \in Seq(Command), NEW w \in Seq(Command),
         NEW n \in 0 .. Len(acc), Placed(n, acc, wait),
         Len(wait) = Len(w) + 1, \A p \in 1 .. Len(w) : w[p] = wait[p + 1],
         wait[1].kind = "add"
  PROVE  /\ n + 1 \in 1 .. Len(acc) /\ wait[1].record = acc[n + 1]
         /\ Placed(n + 1, acc, w)
<1> DEFINE m == Len(w)
           l == Len(acc)
<1>1. /\ m \in Nat /\ l \in Nat /\ DOMAIN wait = 1 .. m + 1 /\ DOMAIN w = 1 .. m
      /\ n \in Nat /\ n <= l
  OBVIOUS
<1>2. PICK place : Placing(n, acc, wait, place)
  BY DEF Placed
<1>3. 1 \in DOMAIN wait
  BY <1>1
<1>4. PICK k \in n + 1 .. l : place[k] = 1
  BY <1>2, <1>3 DEF Placing
<1>5. \A i \in n + 1 .. l : place[i] \in 1 .. m + 1 /\ IsAdd(wait[place[i]], acc[i])
  BY <1>1, <1>2 DEF Placing
<1>6. \A i, j \in n + 1 .. l : i < j => place[i] < place[j]
  BY <1>2 DEF Placing
<1>w. \A p \in 1 .. m : w[p] = wait[p + 1]
  OBVIOUS
<1> DEFINE q == [i \in n + 2 .. l |-> place[i] - 1]
<1>d. \A i \in n + 2 .. l : q[i] = place[i] - 1
  OBVIOUS
<1> HIDE DEF q, m, l
<1>7. n + 1 \in n + 1 .. l /\ n + 1 \in 1 .. l /\ n + 1 <= k /\ k \in Int
  BY <1>1, <1>4
<1>8. k = n + 1
  <2>1. place[n + 1] \in 1 .. m + 1
    BY <1>5, <1>7
  <2>2. ~(n + 1 < k)
    <3>1. n + 1 < k => place[n + 1] < 1
      BY <1>4, <1>6, <1>7
    <3> QED
      BY <1>1, <2>1, <3>1
  <2> QED
    BY <1>1, <1>7, <2>2
<1>9. IsAdd(wait[1], acc[n + 1])
  BY <1>4, <1>5, <1>7, <1>8
<1>10. wait[1].record = acc[n + 1]
  BY <1>9 DEF IsAdd
<1>11. ASSUME NEW i \in n + 2 .. l
       PROVE  /\ i \in n + 1 .. l /\ q[i] \in 1 .. m /\ place[i] = q[i] + 1
              /\ place[i] \in Int
  <2>1. i \in n + 1 .. l /\ n + 1 < i
    BY <1>1
  <2>2. place[n + 1] < place[i]
    BY <1>6, <1>7, <2>1
  <2>3. place[i] \in 1 .. m + 1
    BY <1>5, <2>1
  <2>4. place[n + 1] = 1
    BY <1>4, <1>8
  <2>5. q[i] = place[i] - 1
    BY <1>d
  <2>6. place[i] \in 2 .. m + 1
    BY <1>1, <2>2, <2>3, <2>4
  <2> QED
    BY <1>1, <2>1, <2>5, <2>6
<1>12. q \in [n + 2 .. l -> 1 .. m]
  BY <1>11 DEF q
<1>13. ASSUME NEW i \in n + 2 .. l PROVE IsAdd(w[q[i]], acc[i])
  <2>1. w[q[i]] = wait[place[i]]
    BY <1>11, <1>w
  <2> QED
    BY <1>5, <1>11, <2>1
<1>14. ASSUME NEW i \in n + 2 .. l, NEW j \in n + 2 .. l, i < j PROVE q[i] < q[j]
  <2>1. place[i] < place[j]
    BY <1>6, <1>11, <1>14
  <2>2. place[i] \in Int /\ place[j] \in Int /\ q[i] = place[i] - 1 /\ q[j] = place[j] - 1
    BY <1>11, <1>d
  <2> QED
    BY <2>1, <2>2
<1>15. ASSUME NEW p \in 1 .. m, w[p].kind = "add"
       PROVE  \E i \in n + 2 .. l : q[i] = p
  <2>1. p + 1 \in 1 .. m + 1 /\ wait[p + 1].kind = "add"
    BY <1>1, <1>w, <1>15
  <2>2. PICK i \in n + 1 .. l : place[i] = p + 1
    BY <1>1, <1>2, <2>1 DEF Placing, l
  <2>3. i # n + 1
    BY <1>1, <1>4, <1>8, <2>2
  <2>4. i \in n + 2 .. l
    BY <1>1, <2>2, <2>3
  <2>5. q[i] = place[i] - 1
    BY <1>d, <2>4
  <2>6. q[i] = p
    BY <1>1, <2>2, <2>5
  <2> QED
    BY <2>4, <2>6
<1>16. (n + 1) + 1 = n + 2
  BY <1>1
<1>17. Placing(n + 1, acc, w, q)
  BY <1>1, <1>12, <1>13, <1>14, <1>15, <1>16 DEF Placing, l
<1> QED
  BY <1>7, <1>10, <1>17 DEF Placed, l

(* Types.                                                                  *)

AckPlaces == {"none", "putting", "waiting", "ok", "failed"}

(* RolloutTypeOK, with what a file may be and room for the terminal event  *)
(* of a run that has not ended.                                            *)
Typed ==
    /\ queue \in Seq(Command) /\ Len(queue) <= QueueSize
    /\ command \in Command \cup {Nothing}
    /\ Tidy(file)
    /\ writer \in {"alive", "done"}
    /\ stopped \in BOOLEAN
    /\ ack \in [Callers -> AckPlaces]
    /\ accepted \in Seq(Records)
    /\ faults \in 0..MaxFaults
    /\ dropped \in BOOLEAN
    /\ pc \in [Runs -> Places]
    /\ emitted \in [Runs -> Nat]
    /\ \A r \in Runs : emitted[r] \in 0..(MaxEvents[r] + 1)
    /\ failure \subseteq Runs
    /\ published \in [Runs -> {"none", "complete", "error"}]
    /\ \A r \in Runs : pc[r] = "phases" => emitted[r] <= MaxEvents[r]

(* What a command is.                                                      *)
LEMMA CommandKinds ==
  /\ \A c \in Command : c # Nothing /\ c.kind \in {"add", "flush", "shutdown", "abandoned"}
  /\ \A c \in Command : c.kind = "add" => c.record \in Records
  /\ \A c \in Command : c.kind \in {"flush", "shutdown"} => c.by \in Callers
  /\ \A rec \in Records : [kind |-> "add", record |-> rec] \in Command
  /\ \A c \in Callers, k \in {"flush", "shutdown"} : [kind |-> k, by |-> c] \in Command
  /\ [kind |-> "abandoned"] \in Command
<1>1. ASSUME NEW c \in Command PROVE c.kind \in {"add", "flush", "shutdown", "abandoned"}
  BY DEF Command
<1>2. Nothing.kind = "nothing"
  BY DEF Nothing
<1>3. \A c \in Command : c.kind = "add" => c.record \in Records
  BY DEF Command
<1>4. \A c \in Command : c.kind \in {"flush", "shutdown"} => c.by \in Callers
  BY DEF Command
<1>5. \A rec \in Records : [kind |-> "add", record |-> rec] \in Command
  BY DEF Command
<1>6. \A c \in Callers, k \in {"flush", "shutdown"} : [kind |-> k, by |-> c] \in Command
  BY DEF Command
<1>7. [kind |-> "abandoned"] \in Command
  BY DEF Command
<1> QED
  BY <1>1, <1>2, <1>3, <1>4, <1>5, <1>6, <1>7

(* One event more.                                                         *)
LEMMA RecordTypes ==
  ASSUME Typed, NEW r \in Runs, emitted[r] <= MaxEvents[r], RecordEvent(r)
  PROVE  /\ queue' \in Seq(Command) /\ Len(queue') <= QueueSize
         /\ accepted' \in Seq(Records)
         /\ emitted' \in [Runs -> Nat]
         /\ \A s \in Runs : emitted'[s] \in 0..(MaxEvents[s] + 1)
         /\ emitted'[r] = emitted[r] + 1 /\ \A s \in Runs \ {r} : emitted'[s] = emitted[s]
         /\ failure' \subseteq Runs
         /\ <<r, emitted[r] + 1>> \in Records
<1>1. /\ queue \in Seq(Command) /\ Len(queue) <= QueueSize /\ accepted \in Seq(Records)
      /\ emitted \in [Runs -> Nat] /\ failure \subseteq Runs
      /\ \A s \in Runs : emitted[s] \in 0..(MaxEvents[s] + 1)
      /\ MaxEvents \in [Runs -> Nat] /\ QueueSize \in Nat
  BY RecorderAssumption DEF Typed
<1>2. emitted' = [emitted EXCEPT ![r] = @ + 1]
  BY DEF RecordEvent
<1>3. MaxEvents[r] \in Nat /\ emitted[r] \in Nat
  BY <1>1
<1>4. <<r, emitted[r] + 1>> \in Records
  <2>1. emitted[r] + 1 \in Nat /\ emitted[r] + 1 \in 1..(MaxEvents[r] + 1)
    BY <1>3
  <2> QED
    BY <2>1 DEF Records
<1>5. /\ emitted'[r] = emitted[r] + 1 /\ \A s \in Runs \ {r} : emitted'[s] = emitted[s]
      /\ emitted' \in [Runs -> Nat]
  BY <1>1, <1>2, <1>3
<1>6. \A s \in Runs : emitted'[s] \in 0..(MaxEvents[s] + 1)
  BY <1>1, <1>3, <1>5
<1>7. /\ queue' \in Seq(Command) /\ Len(queue') <= QueueSize
      /\ accepted' \in Seq(Records) /\ failure' \subseteq Runs
  <2>1. CASE r \notin failure /\ Accepts
    <3>1. /\ queue' = Append(queue, [kind |-> "add", record |-> <<r, emitted[r] + 1>>])
          /\ accepted' = Append(accepted, <<r, emitted[r] + 1>>) /\ failure' = failure
          /\ Len(queue) < QueueSize
      BY <2>1 DEF RecordEvent, Accept, Accepts, Room
    <3>2. [kind |-> "add", record |-> <<r, emitted[r] + 1>>] \in Command
      BY <1>4, CommandKinds
    <3>3. /\ queue' \in Seq(Command) /\ Len(queue') = Len(queue) + 1 /\ Len(queue) \in Nat
          /\ accepted' \in Seq(Records)
      BY <1>1, <1>4, <3>1, <3>2, AppendProperties, LenProperties
    <3> QED
      BY <1>1, <3>1, <3>3
  <2>2. CASE ~(r \notin failure /\ Accepts)
    BY <1>1, <2>2 DEF RecordEvent
  <2> QED
    BY <2>1, <2>2
<1> QED
  BY <1>4, <1>5, <1>6, <1>7

(* A caller who gives up leaves a queue of commands.                       *)
LEMMA GiveUpTypes ==
  ASSUME Typed, NEW c \in Callers, GiveUp(c)
  PROVE  /\ queue' \in Seq(Command) /\ Len(queue') = Len(queue)
         /\ command' \in Command \cup {Nothing}
         /\ command' = Nothing <=> command = Nothing
         /\ ack' \in [Callers -> AckPlaces]
<1> DEFINE orphan(q) == IF q.kind = "flush" /\ q.by = c THEN [kind |-> "abandoned"] ELSE q
<1>1. /\ queue \in Seq(Command) /\ command \in Command \cup {Nothing}
      /\ ack \in [Callers -> AckPlaces]
  BY DEF Typed
<1>2. /\ queue' = [i \in DOMAIN queue |-> orphan(queue[i])]
      /\ command' = IF command = Nothing THEN command ELSE orphan(command)
      /\ ack' = [ack EXCEPT ![c] = "none"]
  BY DEF GiveUp
<1>3. \A q \in Command : orphan(q) \in Command
  BY CommandKinds
<1> HIDE DEF orphan
<1>4. queue' \in Seq(Command) /\ Len(queue') = Len(queue)
  <2>1. DOMAIN queue = 1 .. Len(queue) /\ Len(queue) \in Nat
        /\ \A i \in 1 .. Len(queue) : queue[i] \in Command
    BY <1>1, LenProperties
  <2>2. queue' \in [1 .. Len(queue) -> Command]
    BY <1>2, <1>3, <2>1
  <2> QED
    BY <2>1, <2>2
<1>5. command' \in Command \cup {Nothing} /\ (command' = Nothing <=> command = Nothing)
  BY <1>1, <1>2, <1>3, CommandKinds
<1>6. ack' \in [Callers -> AckPlaces]
  BY <1>1, <1>2 DEF AckPlaces
<1> QED
  BY <1>4, <1>5, <1>6

(* A call begins, or is refused at once.                                   *)
LEMMA BarrierTypes ==
  ASSUME ack \in [Callers -> AckPlaces], NEW c \in Callers, Barrier(c)
  PROVE  /\ ack' \in [Callers -> AckPlaces]
         /\ ack'[c] \in {"putting", "failed"} /\ \A d \in Callers \ {c} : ack'[d] = ack[d]
BY DEF Barrier, AckPlaces

(* What the work on one command does to the file.                          *)
Adds == [file EXCEPT !.pending = Append(@, command.record)]

(* A record joins the pending lines.                                       *)
LEMMA AddsTidy ==
  ASSUME Tidy(file), command \in Command, command.kind = "add"
  PROVE  /\ Tidy(Adds) /\ Grows(file, Adds)
         /\ Content(Adds) = Append(Content(file), command.record)
<1> DEFINE p == Append(file.pending, command.record)
<1>1. /\ file \in File /\ file.pending \in Seq(Records) /\ file.buffer \in Seq(Records)
      /\ file.disk \in Seq(Records) /\ command.record \in Records /\ file.synced \in Nat
  BY CommandKinds DEF Tidy, File
<1>2. p \in Seq(Records)
  BY <1>1, AppendProperties
<1>3. Adds = [file EXCEPT !.pending = p]
  BY Zenon DEF Adds
<1>4. Content(file) = (file.disk \o file.buffer) \o file.pending
  BY DEF Content
<1>5. (file.disk \o file.buffer) \o p = Append(Content(file), command.record)
  <2>1. file.disk \o file.buffer \in Seq(Records)
    BY <1>1, Joined
  <2>2. \A s, t \in Seq(Records), x \in Records : s \o Append(t, x) = Append(s \o t, x)
    OBVIOUS
  <2> DEFINE front == file.disk \o file.buffer
             back  == file.pending
             x     == command.record
  <2> HIDE DEF front, back, x
  <2>3. front \in Seq(Records) /\ back \in Seq(Records) /\ x \in Records
    BY <1>1, <2>1 DEF front, back, x
  <2>4. front \o Append(back, x) = Append(front \o back, x)
    BY <2>2, <2>3
  <2> QED
    BY <1>4, <2>4, Zenon DEF front, back, x
<1> HIDE DEF p
<1>6. Adds = [pending |-> p, buffer |-> file.buffer, disk |-> file.disk,
              synced |-> file.synced, exists |-> file.exists, open |-> file.open]
  BY <1>1, <1>3 DEF File
<1>7. /\ Adds \in File
      /\ Adds.pending = p /\ Adds.buffer = file.buffer /\ Adds.disk = file.disk
      /\ Adds.synced = file.synced /\ Adds.exists = file.exists /\ Adds.open = file.open
  BY <1>1, <1>2, <1>6 DEF File
<1>8. Tidy(Adds) /\ Grows(file, Adds)
  BY <1>1, <1>7 DEF Tidy, Grows
<1>9. Content(Adds) = (file.disk \o file.buffer) \o p
  BY <1>7, Zenon DEF Content
<1> QED
  BY <1>5, <1>8, <1>9

(* The work on one command, as the rest of the proof uses it.              *)
LEMMA WorkDoes ==
  ASSUME Typed, Work
  PROVE  /\ command \in Command /\ command' = Nothing /\ queue' = queue
         /\ accepted' = accepted /\ stopped' = stopped /\ writer = "alive"
         /\ writer' \in {"alive", "done"}
         /\ Tidy(file') /\ Grows(file, file')
         /\ faults' \in 0 .. MaxFaults /\ dropped' \in BOOLEAN /\ (dropped => dropped')
         /\ ~dropped' => Content(file') = IF command.kind = "add"
                                          THEN Append(Content(file), command.record)
                                          ELSE Content(file)
         /\ ack' \in [Callers -> AckPlaces]
         /\ \A c \in Callers :
               \/ ack'[c] = ack[c] /\ (command.kind \in {"flush", "shutdown"} => command.by # c)
               \/ /\ command.kind \in {"flush", "shutdown"} /\ command.by = c
                  /\ ack'[c] \in {"ok", "failed"}
                  /\ ack'[c] = "ok" => Clean(file')
<1>1. /\ command \in Command \cup {Nothing} /\ faults \in 0 .. MaxFaults /\ dropped \in BOOLEAN
      /\ ack \in [Callers -> AckPlaces] /\ MaxFaults \in Nat
  BY RecorderAssumption DEF Typed
<1>2. /\ command' = Nothing /\ queue' = queue /\ accepted' = accepted /\ stopped' = stopped
      /\ writer = "alive" /\ Tidy(file)
  BY DEF Work, Typed
<1>3. ASSUME NEW f, NEW durable \in BOOLEAN, NEW w \in Writes(f, durable), Tidy(f), Outcome(w)
      PROVE  /\ file' = w.file /\ Tidy(file') /\ Grows(f, file') /\ w.ok \in BOOLEAN
             /\ faults' \in 0 .. MaxFaults /\ dropped' \in BOOLEAN /\ (dropped => dropped')
             /\ ~dropped' => Content(file') = Content(f)
             /\ w.ok /\ durable => Clean(file')
  <2>1. /\ w.ok \in BOOLEAN /\ w.drops \in BOOLEAN /\ w.failed \in BOOLEAN
        /\ Tidy(w.file) /\ Grows(f, w.file)
        /\ ~w.drops => Content(w.file) = Content(f)
        /\ w.ok /\ durable => Clean(w.file)
    BY <1>3, WriteKeeps
  <2>2. file' = w.file /\ dropped' = (dropped \/ w.drops)
    BY <1>3 DEF Outcome
  <2>3. faults' \in 0 .. MaxFaults
    <3>1. faults' = faults + (IF w.failed THEN 1 ELSE 0) /\ faults' <= MaxFaults
      BY <1>3 DEF Outcome
    <3>2. (IF w.failed THEN 1 ELSE 0) \in {0, 1}
      OBVIOUS
    <3> QED
      BY <1>1, <3>1, <3>2
  <2> QED
    BY <1>1, <2>1, <2>2, <2>3, Zenon
<1>4. CASE WorkAdd
  <2>1. command.kind = "add" /\ writer' = writer /\ ack' = ack
    BY <1>4 DEF WorkAdd
  <2>2. command \in Command
    BY <1>1, <2>1 DEF Nothing
  <2>3. /\ Tidy(Adds) /\ Grows(file, Adds)
        /\ Content(Adds) = Append(Content(file), command.record)
    BY <1>2, <2>1, <2>2, AddsTidy
  <2>4. \/ \E w \in Writes(Adds, FALSE) : Outcome(w)
        \/ file' = Adds /\ faults' = faults /\ dropped' = dropped
    BY <1>4 DEF WorkAdd, Adds
  <2>5. CASE \E w \in Writes(Adds, FALSE) : Outcome(w)
    <3>1. PICK w \in Writes(Adds, FALSE) : Outcome(w)
      BY <2>5
    <3>2. /\ Tidy(file') /\ Grows(Adds, file')
          /\ faults' \in 0 .. MaxFaults /\ dropped' \in BOOLEAN /\ (dropped => dropped')
          /\ ~dropped' => Content(file') = Content(Adds)
      BY <1>3, <2>3, <3>1
    <3>3. Grows(file, file')
      BY <1>2, <2>3, <3>2, GrowsOn
    <3> QED
      BY <1>1, <1>2, <2>1, <2>2, <2>3, <3>2, <3>3
  <2>6. CASE file' = Adds /\ faults' = faults /\ dropped' = dropped
    BY <1>1, <1>2, <2>1, <2>2, <2>3, <2>6
  <2> QED
    BY <2>4, <2>5, <2>6
<1>5. CASE WorkBarrier
  <2>1. command.kind \in {"flush", "shutdown", "abandoned"}
    BY <1>5 DEF WorkBarrier
  <2>2. command \in Command
    BY <1>1, <2>1 DEF Nothing
  <2>3. PICK w \in Writes(file, TRUE) :
          /\ Outcome(w)
          /\ ack' = [c \in Callers |->
                       IF command.kind # "abandoned" /\ command.by = c
                       THEN IF w.ok THEN "ok" ELSE "failed" ELSE ack[c]]
          /\ writer' = IF w.ok /\ command.kind = "shutdown" THEN "done"
                       ELSE "alive"
    BY <1>5 DEF WorkBarrier
  <2>4. /\ file' = w.file /\ Tidy(file') /\ Grows(file, file') /\ w.ok \in BOOLEAN
        /\ faults' \in 0 .. MaxFaults /\ dropped' \in BOOLEAN /\ (dropped => dropped')
        /\ ~dropped' => Content(file') = Content(file)
        /\ w.ok => Clean(file')
    BY <1>2, <1>3, <2>3
  <2>5. writer' \in {"alive", "done"}
    BY <2>3
  <2>6. ack' \in [Callers -> AckPlaces]
    BY <1>1, <2>3 DEF AckPlaces
  <2>7. ASSUME NEW c \in Callers
        PROVE  \/ ack'[c] = ack[c] /\ (command.kind \in {"flush", "shutdown"} => command.by # c)
               \/ /\ command.kind \in {"flush", "shutdown"} /\ command.by = c
                  /\ ack'[c] \in {"ok", "failed"}
                  /\ ack'[c] = "ok" => Clean(file')
    BY <2>1, <2>3, <2>4
  <2>8. command.kind # "add"
    BY <2>1
  <2> QED
    BY <1>2, <2>2, <2>4, <2>5, <2>6, <2>7, <2>8
<1> QED
  BY <1>4, <1>5 DEF Work

(* The invariant implies the model's type invariant.                       *)
LEMMA TypedIsTypeOK == Typed => RolloutTypeOK
<1>1. Tidy(file) => file \in File /\ file.synced <= Len(file.disk)
  BY DEF Tidy
<1> QED
  BY <1>1, Zenon DEF Typed, RolloutTypeOK, RecorderTypeOK, AckPlaces

(* It holds at first...                                                    *)
LEMMA TypedInit == RolloutInit => Typed
<1> SUFFICES ASSUME RolloutInit PROVE Typed
  OBVIOUS
<1>0. MaxEvents \in [Runs -> Nat] /\ QueueSize \in Nat /\ MaxFaults \in Nat
  BY RecorderAssumption
<1>i. RecorderInit
  BY DEF RolloutInit
<1>1. file \in File /\ file.synced = 0 /\ file.disk = <<>> /\ file.buffer = <<>> /\ ~file.open
  BY <1>i DEF File, RecorderInit
<1>2. Tidy(file)
  BY <1>1 DEF Tidy
<1>3. queue \in Seq(Command) /\ Len(queue) <= QueueSize /\ accepted \in Seq(Records)
  BY <1>0, <1>i, EmptySeq DEF RecorderInit
<1>4. ASSUME NEW r \in Runs
      PROVE emitted[r] \in 0..(MaxEvents[r] + 1) /\ emitted[r] <= MaxEvents[r]
  <2>1. emitted[r] = 0 /\ MaxEvents[r] \in Nat
    BY <1>0 DEF RolloutInit
  <2> QED
    BY <2>1
<1>n. ack \in [Callers -> AckPlaces]
  BY <1>i DEF AckPlaces, RecorderInit
<1>5. /\ dropped \in BOOLEAN /\ stopped \in BOOLEAN /\ writer \in {"alive", "done"}
      /\ command \in Command \cup {Nothing}
  BY <1>i, Zenon DEF RecorderInit
<1>f. faults \in 0..MaxFaults
  BY <1>0, <1>i DEF RecorderInit
<1>6. /\ pc \in [Runs -> Places] /\ emitted \in [Runs -> Nat]
      /\ published \in [Runs -> {"none", "complete", "error"}] /\ failure \subseteq Runs
  BY DEF RolloutInit, Places
<1> QED
  BY <1>2, <1>3, <1>4, <1>n, <1>5, <1>f, <1>6 DEF Typed

(* ... and after every step.                                               *)
LEMMA TypedStep == Typed /\ [RolloutNext]_rolloutVars => Typed'
<1> SUFFICES ASSUME Typed, [RolloutNext]_rolloutVars PROVE Typed'
  OBVIOUS
<1>t. /\ queue \in Seq(Command) /\ Len(queue) <= QueueSize
      /\ command \in Command \cup {Nothing}
      /\ Tidy(file)
      /\ writer \in {"alive", "done"}
      /\ stopped \in BOOLEAN
      /\ ack \in [Callers -> AckPlaces]
      /\ accepted \in Seq(Records)
      /\ faults \in 0..MaxFaults
      /\ dropped \in BOOLEAN
      /\ pc \in [Runs -> Places]
      /\ emitted \in [Runs -> Nat]
      /\ \A r \in Runs : emitted[r] \in 0..(MaxEvents[r] + 1)
      /\ failure \subseteq Runs
      /\ published \in [Runs -> {"none", "complete", "error"}]
      /\ \A r \in Runs : pc[r] = "phases" => emitted[r] <= MaxEvents[r]
  BY DEF Typed
<1>c. Runs \subseteq Callers /\ Host \in Callers
  BY DEF Callers
<1>m. MaxEvents \in [Runs -> Nat] /\ QueueSize \in Nat
  BY RecorderAssumption
<1>g. ASSUME NEW r \in Runs, NEW p \in Places, Goes(r, p)
      PROVE  /\ pc' \in [Runs -> Places] /\ pc'[r] = p
             /\ \A s \in Runs \ {r} : pc'[s] = pc[s]
  BY <1>t, <1>g DEF Goes
<1>a. ASSUME NEW r \in Runs, Answered(r)
      PROVE  /\ ack' \in [Callers -> AckPlaces]
             /\ UNCHANGED <<queue, accepted, command, file, writer, stopped, faults, dropped>>
  BY <1>t, <1>a, <1>c DEF Answered, Unrecorded, AckPlaces
<1>p. {"phases", "complete", "failing", "error", "ending", "final", "over"} = Places
  BY DEF Places
<1>1. ASSUME NEW r \in Runs, Emit(r) PROVE Typed'
  <2>1. pc[r] = "phases" /\ emitted[r] < MaxEvents[r] /\ RecordEvent(r)
        /\ UNCHANGED <<Unrecorded, ack, published>>
    BY <1>1 DEF Emit
  <2>2. emitted[r] <= MaxEvents[r] /\ emitted[r] + 1 <= MaxEvents[r]
    BY <1>t, <1>m, <2>1
  <2>3. /\ queue' \in Seq(Command) /\ Len(queue') <= QueueSize
        /\ accepted' \in Seq(Records)
        /\ emitted' \in [Runs -> Nat]
        /\ \A s \in Runs : emitted'[s] \in 0..(MaxEvents[s] + 1)
        /\ emitted'[r] = emitted[r] + 1 /\ \A s \in Runs \ {r} : emitted'[s] = emitted[s]
        /\ failure' \subseteq Runs
    BY <2>1, <2>2, RecordTypes
  <2>4. /\ pc' \in [Runs -> Places]
        /\ \A s \in Runs : pc'[s] = "phases" => pc[s] = "phases"
    <3>1. CASE UNCHANGED pc
      BY <1>t, <3>1
    <3>2. CASE Goes(r, "failing")
      BY <1>g, <1>p, <2>1, <3>2
    <3> QED
      BY <1>1, <3>1, <3>2 DEF Emit
  <2>5. \A s \in Runs : pc'[s] = "phases" => emitted'[s] <= MaxEvents[s]
    BY <1>t, <2>2, <2>3, <2>4
  <2> QED
    BY <1>t, <2>1, <2>3, <2>4, <2>5 DEF Typed, Unrecorded
<1>2. ASSUME NEW r \in Runs, Complete(r) PROVE Typed'
  <2>1. pc[r] = "phases" /\ RecordEvent(r) /\ UNCHANGED <<Unrecorded, published>>
    BY <1>2 DEF Complete
  <2>2. emitted[r] <= MaxEvents[r]
    BY <1>t, <2>1
  <2>3. /\ queue' \in Seq(Command) /\ Len(queue') <= QueueSize
        /\ accepted' \in Seq(Records)
        /\ emitted' \in [Runs -> Nat]
        /\ \A s \in Runs : emitted'[s] \in 0..(MaxEvents[s] + 1)
        /\ \A s \in Runs \ {r} : emitted'[s] = emitted[s]
        /\ failure' \subseteq Runs
    BY <2>1, <2>2, RecordTypes
  <2>4. /\ pc' \in [Runs -> Places] /\ ack' \in [Callers -> AckPlaces]
        /\ \A s \in Runs : pc'[s] = "phases" => s # r /\ pc[s] = "phases"
    <3>1. CASE Goes(r, "failing") /\ UNCHANGED ack
      BY <1>g, <1>p, <1>t, <3>1
    <3>2. CASE Goes(r, "complete") /\ Barrier(r)
      <4>1. ack' \in [Callers -> AckPlaces]
        BY <1>c, <1>t, <3>2, BarrierTypes
      <4> QED
        BY <1>g, <1>p, <3>2, <4>1
    <3> QED
      BY <1>2, <3>1, <3>2 DEF Complete
  <2>5. \A s \in Runs : pc'[s] = "phases" => emitted'[s] <= MaxEvents[s]
    BY <1>t, <2>3, <2>4
  <2> QED
    BY <1>t, <2>1, <2>3, <2>4, <2>5 DEF Typed, Unrecorded
<1>3. ASSUME NEW r \in Runs, Raise(r) PROVE Typed'
  <2>1. /\ Goes(r, "failing")
        /\ UNCHANGED <<recorderVars, emitted, failure, published>>
    BY <1>3 DEF Raise
  <2> QED
    BY <1>g, <1>p, <1>t, <2>1 DEF Typed, recorderVars
<1>4. ASSUME NEW r \in Runs, Publish(r) PROVE Typed'
  <2>1. Answered(r) /\ UNCHANGED emitted
    BY <1>4 DEF Publish
  <2>2. /\ published' \in [Runs -> {"none", "complete", "error"}]
        /\ failure' \subseteq Runs
        /\ Goes(r, "ending") \/ Goes(r, "failing")
    BY <1>4, <1>t DEF Publish
  <2> QED
    BY <1>a, <1>g, <1>p, <1>t, <2>1, <2>2 DEF Typed
<1>5. ASSUME NEW r \in Runs, Fail(r) PROVE Typed'
  <2>1. /\ Barrier(r) /\ Goes(r, "error") /\ UNCHANGED <<Unrecorded, published>>
    BY <1>5 DEF Fail
  <2>2. /\ queue' \in Seq(Command) /\ Len(queue') <= QueueSize
        /\ accepted' \in Seq(Records)
        /\ emitted' \in [Runs -> Nat]
        /\ \A s \in Runs : emitted'[s] \in 0..(MaxEvents[s] + 1)
        /\ \A s \in Runs \ {r} : emitted'[s] = emitted[s]
        /\ failure' \subseteq Runs
    <3>1. CASE emitted[r] <= MaxEvents[r]
      <4>1. RecordEvent(r)
        BY <1>5, <3>1 DEF Fail
      <4> QED
        BY <3>1, <4>1, RecordTypes
    <3>2. CASE ~(emitted[r] <= MaxEvents[r])
      BY <1>5, <1>t, <3>2 DEF Fail
    <3> QED
      BY <3>1, <3>2
  <2>3. ack' \in [Callers -> AckPlaces]
    BY <1>c, <1>t, <2>1, BarrierTypes
  <2>4. /\ pc' \in [Runs -> Places]
        /\ \A s \in Runs : pc'[s] = "phases" => s # r /\ pc[s] = "phases"
    BY <1>g, <1>p, <2>1
  <2>5. \A s \in Runs : pc'[s] = "phases" => emitted'[s] <= MaxEvents[s]
    BY <1>t, <2>2, <2>4
  <2> QED
    BY <1>t, <2>1, <2>2, <2>3, <2>4, <2>5 DEF Typed, Unrecorded
<1>6. ASSUME NEW r \in Runs, PublishError(r) PROVE Typed'
  <2>1. Answered(r) /\ UNCHANGED emitted /\ Goes(r, "ending")
    BY <1>6 DEF PublishError
  <2>2. /\ published' \in [Runs -> {"none", "complete", "error"}]
        /\ failure' \subseteq Runs
    BY <1>6, <1>t DEF PublishError
  <2> QED
    BY <1>a, <1>g, <1>p, <1>t, <2>1, <2>2 DEF Typed
<1>7. ASSUME NEW r \in Runs, FinalFlush(r) PROVE Typed'
  <2>1. /\ Barrier(r) /\ Goes(r, "final")
        /\ UNCHANGED <<Unrecorded, queue, accepted, emitted, failure, published>>
    BY <1>7 DEF FinalFlush
  <2>2. ack' \in [Callers -> AckPlaces]
    BY <1>c, <1>t, <2>1, BarrierTypes
  <2> QED
    BY <1>g, <1>p, <1>t, <2>1, <2>2 DEF Typed, Unrecorded
<1>8. ASSUME NEW r \in Runs, ReleaseRun(r) PROVE Typed'
  <2>1. Answered(r) /\ UNCHANGED <<emitted, published>> /\ Goes(r, "over")
        /\ failure' = failure \ {r}
    BY <1>8 DEF ReleaseRun
  <2> QED
    BY <1>a, <1>g, <1>p, <1>t, <2>1 DEF Typed
<1>9. ASSUME NEW r \in Runs, CancelRun(r) PROVE Typed'
  <2>1. /\ UNCHANGED <<emitted, failure, published>>
        /\ Goes(r, "ending") \/ Goes(r, "over")
        /\ UNCHANGED recorderVars \/ GiveUp(r)
    BY <1>9 DEF CancelRun
  <2>2. CASE UNCHANGED recorderVars
    BY <1>g, <1>p, <1>t, <2>1, <2>2 DEF Typed, recorderVars
  <2>3. CASE GiveUp(r)
    <3>1. UNCHANGED <<file, writer, stopped, accepted, faults, dropped>>
      BY <2>3 DEF GiveUp
    <3>2. /\ queue' \in Seq(Command) /\ Len(queue') = Len(queue)
          /\ command' \in Command \cup {Nothing}
          /\ ack' \in [Callers -> AckPlaces]
      BY <1>c, <2>3, GiveUpTypes
    <3> QED
      BY <1>g, <1>p, <1>t, <2>1, <3>1, <3>2 DEF Typed
  <2> QED
    BY <2>1, <2>2, <2>3
<1>10. ASSUME Take, UNCHANGED runVars PROVE Typed'
  <2>1. /\ queue # <<>> /\ command' = Head(queue) /\ queue' = Tail(queue)
        /\ UNCHANGED <<file, writer, stopped, ack, accepted, faults, dropped>>
    BY <1>10 DEF Take
  <2>2. queue' \in Seq(Command) /\ Len(queue') <= QueueSize /\ command' \in Command
    <3>1. /\ queue' \in Seq(Command) /\ Len(queue') = Len(queue) - 1 /\ command' \in Command
          /\ Len(queue) \in Nat
      BY <1>t, <2>1, HeadTailProperties, LenProperties
    <3> QED
      BY <1>m, <1>t, <3>1
  <2> QED
    BY <1>10, <1>t, <2>1, <2>2 DEF Typed, runVars
<1>11. ASSUME Work, UNCHANGED runVars PROVE Typed'
  <2>1. /\ command' = Nothing /\ queue' = queue
        /\ accepted' = accepted /\ stopped' = stopped
        /\ writer' \in {"alive", "done"} /\ Tidy(file')
        /\ faults' \in 0 .. MaxFaults /\ dropped' \in BOOLEAN
        /\ ack' \in [Callers -> AckPlaces]
    BY <1>11, WorkDoes
  <2> QED
    BY <1>11, <1>t, <2>1 DEF Typed, runVars
<1>12. ASSUME ShutdownEnds, UNCHANGED runVars PROVE Typed'
  BY <1>12, <1>t DEF ShutdownEnds, Typed, runVars
<1>13. ASSUME NEW c \in Callers, Put(c), UNCHANGED runVars PROVE Typed'
  <2>1. /\ Len(queue) < QueueSize
        /\ ack' = [ack EXCEPT ![c] = "waiting"]
        /\ queue' = Append(queue, [kind |-> IF c = Host THEN "shutdown" ELSE "flush", by |-> c])
        /\ UNCHANGED <<command, file, writer, stopped, accepted, faults, dropped>>
    BY <1>13 DEF Put, Room
  <2>2. [kind |-> IF c = Host THEN "shutdown" ELSE "flush", by |-> c] \in Command
    BY CommandKinds
  <2>3. queue' \in Seq(Command) /\ Len(queue') <= QueueSize
    <3>1. /\ queue' \in Seq(Command) /\ Len(queue') = Len(queue) + 1 /\ Len(queue) \in Nat
      BY <1>t, <2>1, <2>2, AppendProperties, LenProperties
    <3> QED
      BY <1>m, <2>1, <3>1
  <2>4. ack' \in [Callers -> AckPlaces]
    BY <1>t, <2>1 DEF AckPlaces
  <2> QED
    BY <1>13, <1>t, <2>1, <2>3, <2>4 DEF Typed, runVars
<1>14. ASSUME NEW c \in Callers, SeesWriterEnd(c), UNCHANGED runVars PROVE Typed'
  <2>1. ack' = [ack EXCEPT ![c] = "failed"]
        /\ UNCHANGED <<queue, command, file, writer, stopped, accepted, faults, dropped>>
    BY <1>14 DEF SeesWriterEnd
  <2>2. ack' \in [Callers -> AckPlaces]
    BY <1>t, <2>1 DEF AckPlaces
  <2> QED
    BY <1>14, <1>t, <2>1, <2>2 DEF Typed, runVars
<1>15. ASSUME Shutdown PROVE Typed'
  <2>1. Barrier(Host) /\ UNCHANGED <<queue, accepted, Unrecorded, runVars>>
    BY <1>15 DEF Shutdown
  <2>2. ack' \in [Callers -> AckPlaces]
    BY <1>c, <1>t, <2>1, BarrierTypes
  <2> QED
    BY <1>t, <2>1, <2>2 DEF Typed, runVars, Unrecorded
<1>16. CASE UNCHANGED rolloutVars
  BY <1>16, <1>t DEF Typed, rolloutVars, runVars, recorderVars
<1> QED
  BY <1>1, <1>2, <1>3, <1>4, <1>5, <1>6, <1>7, <1>8, <1>9, <1>10, <1>11, <1>12, <1>13,
     <1>14, <1>15, <1>16, CancellableAssumption
     DEF RolloutNext, RunStep, Background, RecorderStep, WriterStep, CallerStep

Recording(r) == r \notin failure /\ pc[r] # "over"

(* No record is accepted, and no recording run emits.                      *)
NothingRecorded ==
    /\ accepted' = accepted
    /\ \A r \in Runs : Recording(r)' => Recording(r) /\ emitted'[r] = emitted[r]

(* The five things a step may do to the trail.                             *)
LeavesTrail == /\ NothingRecorded
               /\ Waiting' = Waiting /\ file' = file /\ dropped' = dropped

AddsRecord(r) ==
    /\ r \notin failure /\ pc[r] \in {"phases", "failing"}
    /\ <<r, emitted[r] + 1>> \in Records
    /\ accepted' = Append(accepted, <<r, emitted[r] + 1>>)
    /\ Waiting' = Append(Waiting, [kind |-> "add", record |-> <<r, emitted[r] + 1>>])
    /\ emitted'[r] = emitted[r] + 1
    /\ \A s \in Runs \ {r} : emitted'[s] = emitted[s]
    /\ \A s \in Runs : Recording(s)' => Recording(s)
    /\ file' = file /\ dropped' = dropped

AddsCommand(c) ==
    /\ NothingRecorded
    /\ c \in Command /\ c.kind # "add"
    /\ Waiting' = Append(Waiting, c) /\ file' = file /\ dropped' = dropped

Orphan(c, q) == IF q.kind = "flush" /\ q.by = c THEN [kind |-> "abandoned"] ELSE q

Abandons(c) ==
    /\ NothingRecorded
    /\ DOMAIN Waiting' = DOMAIN Waiting
    /\ \A p \in DOMAIN Waiting : Waiting'[p] = Orphan(c, Waiting[p])
    /\ file' = file /\ dropped' = dropped

Works ==
    /\ NothingRecorded /\ Work
    /\ Len(Waiting) = Len(Waiting') + 1 /\ Waiting[1] = command
    /\ \A p \in 1 .. Len(Waiting') : Waiting'[p] = Waiting[p + 1]

(* The commands the writer has not finished are a sequence.                *)
LEMMA WaitingIsSeq ==
  ASSUME Typed
  PROVE  /\ Waiting \in Seq(Command) /\ Len(Waiting) \in Nat
         /\ DOMAIN Waiting = 1 .. Len(Waiting)
<1>1. queue \in Seq(Command) /\ command \in Command \cup {Nothing}
  BY DEF Typed
<1>2. \A c \in Command, q \in Seq(Command) : <<c>> \o q \in Seq(Command)
  OBVIOUS
<1>3. Waiting \in Seq(Command)
  BY <1>1, <1>2 DEF Waiting
<1> QED
  BY <1>3, LenProperties

(* A command put into the queue is the last of them...                     *)
LEMMA WaitAppend ==
  ASSUME Typed, NEW c \in Command, queue' = Append(queue, c), command' = command
  PROVE  Waiting' = Append(Waiting, c)
<1>1. queue \in Seq(Command) /\ command \in Command \cup {Nothing}
  BY DEF Typed
<1>2. CASE command = Nothing
  BY <1>2 DEF Waiting
<1>3. CASE command # Nothing
  <2>1. command \in Command
    BY <1>1, <1>3
  <2>2. \A d \in Command, q \in Seq(Command) : <<d>> \o Append(q, c) = Append(<<d>> \o q, c)
    OBVIOUS
  <2>3. Waiting = <<command>> \o queue /\ Waiting' = <<command>> \o Append(queue, c)
    BY <1>3 DEF Waiting
  <2> QED
    BY <1>1, <2>1, <2>2, <2>3
<1> QED
  BY <1>2, <1>3

(* ... taking one changes nothing...                                       *)
LEMMA WaitTake ==
  ASSUME Typed, Take
  PROVE  Waiting' = Waiting
<1>1. /\ queue \in Seq(Command) /\ queue # <<>>
      /\ command = Nothing /\ command' = Head(queue) /\ queue' = Tail(queue)
  BY DEF Typed, Take
<1>2. Head(queue) \in Command /\ <<Head(queue)>> \o Tail(queue) = queue
  BY <1>1
<1>3. command' # Nothing
  BY <1>1, <1>2, CommandKinds
<1> QED
  BY <1>1, <1>2, <1>3 DEF Waiting

(* ... the one worked on is the first and leaves...                        *)
LEMMA WaitWork ==
  ASSUME Typed, Work
  PROVE  /\ Waiting' = queue /\ Waiting[1] = command
         /\ Len(Waiting) = Len(Waiting') + 1
         /\ \A p \in 1 .. Len(Waiting') : Waiting'[p] = Waiting[p + 1]
<1>1. /\ command \in Command /\ command' = Nothing /\ queue' = queue
  BY WorkDoes
<1>2. queue \in Seq(Command) /\ command # Nothing
  BY <1>1, CommandKinds DEF Typed
<1>3. Waiting = <<command>> \o queue /\ Waiting' = queue
  BY <1>1, <1>2 DEF Waiting
<1>4. \A c \in Command, q \in Seq(Command) :
         /\ (<<c>> \o q)[1] = c /\ Len(<<c>> \o q) = Len(q) + 1
         /\ \A p \in 1 .. Len(q) : q[p] = (<<c>> \o q)[p + 1]
  OBVIOUS
<1> HIDE DEF Waiting
<1> QED
  BY <1>1, <1>2, <1>3, <1>4

(* ... and giving up only renames.                                         *)
LEMMA WaitGiveUp ==
  ASSUME Typed, NEW c \in Callers, GiveUp(c)
  PROVE  /\ DOMAIN Waiting' = DOMAIN Waiting
         /\ \A p \in DOMAIN Waiting : Waiting'[p] = Orphan(c, Waiting[p])
<1>1. /\ queue' = [i \in DOMAIN queue |-> Orphan(c, queue[i])]
      /\ command' = IF command = Nothing THEN command ELSE Orphan(c, command)
  BY DEF GiveUp, Orphan
<1>2. /\ queue' \in Seq(Command) /\ Len(queue') = Len(queue)
      /\ command' \in Command \cup {Nothing}
      /\ command' = Nothing <=> command = Nothing
  BY GiveUpTypes
<1>3. /\ queue \in Seq(Command) /\ command \in Command \cup {Nothing}
      /\ Len(queue) \in Nat /\ DOMAIN queue = 1 .. Len(queue)
  BY LenProperties DEF Typed
<1>4. CASE command = Nothing
  BY <1>1, <1>2, <1>3, <1>4 DEF Waiting
<1>5. CASE command # Nothing
  <2>1. /\ Waiting = <<command>> \o queue /\ Waiting' = <<command'>> \o queue'
        /\ command \in Command /\ command' \in Command
    BY <1>2, <1>3, <1>5 DEF Waiting
  <2>2. \A d \in Command, q \in Seq(Command) :
           /\ DOMAIN (<<d>> \o q) = 1 .. Len(q) + 1 /\ (<<d>> \o q)[1] = d
           /\ \A p \in 2 .. Len(q) + 1 : (<<d>> \o q)[p] = q[p - 1]
    OBVIOUS
  <2>3. /\ DOMAIN Waiting = 1 .. Len(queue) + 1 /\ DOMAIN Waiting' = 1 .. Len(queue) + 1
        /\ Waiting[1] = command /\ Waiting'[1] = command'
    BY <1>2, <1>3, <2>1, <2>2
  <2>4. /\ \A p \in 2 .. Len(queue) + 1 : Waiting[p] = queue[p - 1]
        /\ \A p \in 2 .. Len(queue) + 1 : Waiting'[p] = queue'[p - 1]
    BY <1>2, <1>3, <2>1, <2>2
  <2>5. ASSUME NEW p \in 1 .. Len(queue) + 1 PROVE Waiting'[p] = Orphan(c, Waiting[p])
    <3>1. CASE p = 1
      BY <1>1, <1>5, <2>3, <3>1
    <3>2. CASE p # 1
      <4>1. p \in 2 .. Len(queue) + 1 /\ p - 1 \in 1 .. Len(queue)
        BY <1>3, <3>2
      <4>2. queue'[p - 1] = Orphan(c, queue[p - 1])
        BY <1>1, <1>3, <4>1
      <4> QED
        BY <2>4, <4>1, <4>2
    <3> QED
      BY <3>1, <3>2
  <2> QED
    BY <2>3, <2>5
<1> QED
  BY <1>4, <1>5

(* An event is added to the history and the queue together, or to neither. *)
LEMMA RecordEffect ==
  ASSUME Typed, NEW r \in Runs, emitted[r] <= MaxEvents[r], RecordEvent(r),
         pc[r] \in {"phases", "failing"},
         UNCHANGED <<command, file, dropped>>,
         \A s \in Runs \ {r} : pc'[s] = pc[s]
  PROVE  AddsRecord(r) \/ LeavesTrail
<1>1. /\ <<r, emitted[r] + 1>> \in Records
      /\ emitted'[r] = emitted[r] + 1 /\ \A s \in Runs \ {r} : emitted'[s] = emitted[s]
  BY RecordTypes
<1>2. CASE r \notin failure /\ Accepts
  <2>1. /\ queue' = Append(queue, [kind |-> "add", record |-> <<r, emitted[r] + 1>>])
        /\ accepted' = Append(accepted, <<r, emitted[r] + 1>>) /\ failure' = failure
    BY <1>2 DEF RecordEvent, Accept
  <2>2. Waiting' = Append(Waiting, [kind |-> "add", record |-> <<r, emitted[r] + 1>>])
    BY <1>1, <2>1, WaitAppend, CommandKinds
  <2>3. \A s \in Runs : Recording(s)' => Recording(s)
    BY <1>2, <2>1 DEF Recording
  <2> QED
    BY <1>1, <1>2, <2>1, <2>2, <2>3 DEF AddsRecord
<1>3. CASE ~(r \notin failure /\ Accepts)
  <2>1. queue' = queue /\ accepted' = accepted /\ failure' = failure \cup {r}
    BY <1>3 DEF RecordEvent
  <2>2. NothingRecorded
    BY <1>1, <2>1 DEF NothingRecorded, Recording
  <2>3. Waiting' = Waiting
    BY <2>1 DEF Waiting
  <2> QED
    BY <2>2, <2>3 DEF LeavesTrail
<1> QED
  BY <1>2, <1>3

(* Every step does one of the five things.                                 *)
LEMMA TrailEffects ==
  ASSUME Typed, [RolloutNext]_rolloutVars
  PROVE  \/ LeavesTrail
         \/ \E r \in Runs : AddsRecord(r)
         \/ \E c \in Callers : Put(c) /\ AddsCommand([kind |-> IF c = Host THEN "shutdown" ELSE "flush", by |-> c])
         \/ \E r \in Runs : GiveUp(r) /\ Abandons(r)
         \/ Works
<1>c. Runs \subseteq Callers /\ Host \in Callers
  BY DEF Callers
<1>t. /\ pc \in [Runs -> Places] /\ emitted \in [Runs -> Nat] /\ MaxEvents \in [Runs -> Nat]
      /\ \A r \in Runs : pc[r] = "phases" => emitted[r] <= MaxEvents[r]
  BY RecorderAssumption DEF Typed
<1>g. ASSUME NEW r \in Runs, NEW p \in Places, Goes(r, p)
      PROVE  pc'[r] = p /\ \A s \in Runs \ {r} : pc'[s] = pc[s]
  BY <1>t, <1>g DEF Goes
<1>p. {"phases", "complete", "failing", "error", "ending", "final", "over"} = Places
  BY DEF Places
<1>q. ASSUME NEW r \in Runs, NEW p \in Places, Goes(r, p), UNCHANGED <<accepted, emitted>>,
             pc[r] # "over", failure \subseteq failure' \cup {r}, r \notin failure' => r \notin failure \/ p = "over"
      PROVE  NothingRecorded
  <2>1. pc'[r] = p /\ \A s \in Runs \ {r} : pc'[s] = pc[s]
    BY <1>g, <1>q
  <2>2. ASSUME NEW s \in Runs, Recording(s)' PROVE Recording(s)
    <3>1. s \notin failure' /\ pc'[s] # "over"
      BY <2>2 DEF Recording
    <3>2. CASE s = r
      BY <1>q, <2>1, <3>1, <3>2 DEF Recording
    <3>3. CASE s # r
      BY <1>q, <2>1, <3>1, <3>3 DEF Recording
    <3> QED
      BY <3>2, <3>3
  <2> QED
    BY <1>q, <2>2 DEF NothingRecorded
<1>w. ASSUME UNCHANGED <<queue, command>> PROVE Waiting' = Waiting
  BY <1>w DEF Waiting
<1>u. ASSUME UNCHANGED runVars, UNCHANGED accepted PROVE NothingRecorded
  BY <1>u DEF NothingRecorded, Recording, runVars
<1>1. ASSUME NEW r \in Runs, Emit(r) PROVE AddsRecord(r) \/ LeavesTrail
  <2>1. pc[r] = "phases" /\ RecordEvent(r) /\ UNCHANGED <<Unrecorded, ack, published>>
        /\ (UNCHANGED pc \/ Goes(r, "failing"))
    BY <1>1 DEF Emit
  <2>2. \A s \in Runs \ {r} : pc'[s] = pc[s]
    BY <1>g, <1>p, <2>1
  <2> QED
    BY <1>t, <2>1, <2>2, RecordEffect DEF Unrecorded
<1>2. ASSUME NEW r \in Runs, Complete(r) PROVE AddsRecord(r) \/ LeavesTrail
  <2>1. pc[r] = "phases" /\ RecordEvent(r) /\ UNCHANGED <<Unrecorded, published>>
        /\ (Goes(r, "complete") \/ Goes(r, "failing"))
    BY <1>2 DEF Complete
  <2>2. \A s \in Runs \ {r} : pc'[s] = pc[s]
    BY <1>g, <1>p, <2>1
  <2> QED
    BY <1>t, <2>1, <2>2, RecordEffect DEF Unrecorded
<1>3. ASSUME NEW r \in Runs, Raise(r) PROVE LeavesTrail
  <2>1. /\ Goes(r, "failing") /\ pc[r] = "phases"
        /\ UNCHANGED <<recorderVars, emitted, failure, published>>
    BY <1>3 DEF Raise
  <2>2. UNCHANGED <<queue, command, file, accepted, dropped>>
    BY <2>1 DEF recorderVars
  <2>3. NothingRecorded
    BY <1>p, <1>q, <2>1, <2>2
  <2> QED
    BY <1>w, <2>2, <2>3 DEF LeavesTrail
<1>4. ASSUME NEW r \in Runs, Publish(r) PROVE LeavesTrail
  <2>1. Answered(r) /\ UNCHANGED emitted /\ pc[r] = "complete"
        /\ (Goes(r, "ending") \/ Goes(r, "failing"))
        /\ (failure' = failure \/ failure' = failure \cup {r})
    BY <1>4 DEF Publish
  <2>2. UNCHANGED <<queue, command, file, accepted, dropped>>
    BY <2>1 DEF Answered, Unrecorded
  <2>3. NothingRecorded
    BY <1>p, <1>q, <2>1, <2>2
  <2> QED
    BY <1>w, <2>2, <2>3 DEF LeavesTrail
<1>5. ASSUME NEW r \in Runs, Fail(r) PROVE AddsRecord(r) \/ LeavesTrail
  <2>1. /\ Goes(r, "error") /\ UNCHANGED <<Unrecorded, published>> /\ pc[r] = "failing"
    BY <1>5 DEF Fail
  <2>2. \A s \in Runs \ {r} : pc'[s] = pc[s]
    BY <1>g, <1>p, <2>1
  <2>3. CASE emitted[r] <= MaxEvents[r]
    <3>1. RecordEvent(r)
      BY <1>5, <2>3 DEF Fail
    <3> QED
      BY <2>1, <2>2, <2>3, <3>1, RecordEffect DEF Unrecorded
  <2>4. CASE ~(emitted[r] <= MaxEvents[r])
    <3>1. UNCHANGED <<queue, accepted, emitted, failure>>
      BY <1>5, <2>4 DEF Fail
    <3>2. UNCHANGED <<queue, command, file, accepted, dropped>>
      BY <2>1, <3>1 DEF Unrecorded
    <3>3. NothingRecorded
      BY <1>p, <1>q, <2>1, <3>1
    <3> QED
      BY <1>w, <3>2, <3>3 DEF LeavesTrail
  <2> QED
    BY <2>3, <2>4
<1>6. ASSUME NEW r \in Runs, PublishError(r) PROVE LeavesTrail
  <2>1. Answered(r) /\ UNCHANGED emitted /\ Goes(r, "ending") /\ pc[r] = "error"
        /\ (failure' = failure \/ failure' = failure \cup {r})
    BY <1>6 DEF PublishError
  <2>2. UNCHANGED <<queue, command, file, accepted, dropped>>
    BY <2>1 DEF Answered, Unrecorded
  <2>3. NothingRecorded
    BY <1>p, <1>q, <2>1, <2>2
  <2> QED
    BY <1>w, <2>2, <2>3 DEF LeavesTrail
<1>7. ASSUME NEW r \in Runs, FinalFlush(r) PROVE LeavesTrail
  <2>1. /\ pc[r] = "ending" /\ Goes(r, "final")
        /\ UNCHANGED <<Unrecorded, queue, accepted, emitted, failure, published>>
    BY <1>7 DEF FinalFlush
  <2>2. UNCHANGED <<queue, command, file, accepted, dropped>>
    BY <2>1 DEF Unrecorded
  <2>3. NothingRecorded
    BY <1>p, <1>q, <2>1, <2>2
  <2> QED
    BY <1>w, <2>2, <2>3 DEF LeavesTrail
<1>8. ASSUME NEW r \in Runs, ReleaseRun(r) PROVE LeavesTrail
  <2>1. Answered(r) /\ UNCHANGED <<emitted, published>> /\ Goes(r, "over") /\ pc[r] = "final"
        /\ failure' = failure \ {r}
    BY <1>8 DEF ReleaseRun
  <2>2. UNCHANGED <<queue, command, file, accepted, dropped>>
    BY <2>1 DEF Answered, Unrecorded
  <2>3. NothingRecorded
    BY <1>p, <1>q, <2>1, <2>2
  <2> QED
    BY <1>w, <2>2, <2>3 DEF LeavesTrail
<1>9. ASSUME NEW r \in Runs, CancelRun(r) PROVE LeavesTrail \/ (GiveUp(r) /\ Abandons(r))
  <2>1. /\ UNCHANGED <<emitted, failure, published>> /\ pc[r] # "over"
        /\ Goes(r, "ending") \/ Goes(r, "over")
        /\ UNCHANGED recorderVars \/ GiveUp(r)
    BY <1>9 DEF CancelRun
  <2>2. UNCHANGED <<file, accepted, dropped>>
    BY <2>1 DEF recorderVars, GiveUp
  <2>3. NothingRecorded
    BY <1>p, <1>q, <2>1, <2>2
  <2>4. CASE UNCHANGED recorderVars
    BY <1>w, <2>2, <2>3, <2>4 DEF LeavesTrail, recorderVars
  <2>5. CASE GiveUp(r)
    BY <1>c, <2>2, <2>3, <2>5, WaitGiveUp DEF Abandons
  <2> QED
    BY <2>1, <2>4, <2>5
<1>10. ASSUME Take, UNCHANGED runVars PROVE LeavesTrail
  BY <1>10, <1>u, WaitTake DEF Take, LeavesTrail
<1>11. ASSUME Work, UNCHANGED runVars PROVE Works
  BY <1>11, <1>u, WaitWork, WorkDoes DEF Works
<1>12. ASSUME ShutdownEnds, UNCHANGED runVars PROVE LeavesTrail
  BY <1>12, <1>u, <1>w DEF ShutdownEnds, LeavesTrail
<1>13. ASSUME NEW c \in Callers, Put(c), UNCHANGED runVars
       PROVE  AddsCommand([kind |-> IF c = Host THEN "shutdown" ELSE "flush", by |-> c])
  <2> DEFINE d == [kind |-> IF c = Host THEN "shutdown" ELSE "flush", by |-> c]
  <2>1. /\ queue' = Append(queue, d)
        /\ UNCHANGED <<command, file, writer, stopped, accepted, faults, dropped>>
    BY <1>13 DEF Put
  <2>2. d \in Command /\ d.kind # "add"
    BY CommandKinds
  <2> HIDE DEF d
  <2>3. Waiting' = Append(Waiting, d)
    BY <2>1, <2>2, WaitAppend
  <2>4. AddsCommand(d)
    BY <1>13, <1>u, <2>1, <2>2, <2>3 DEF AddsCommand
  <2> QED
    BY <2>4 DEF d
<1>14. ASSUME NEW c \in Callers, SeesWriterEnd(c), UNCHANGED runVars PROVE LeavesTrail
  BY <1>14, <1>u, <1>w DEF SeesWriterEnd, LeavesTrail
<1>15. ASSUME Shutdown PROVE LeavesTrail
  BY <1>15, <1>u, <1>w DEF Shutdown, Unrecorded, LeavesTrail
<1>16. CASE UNCHANGED rolloutVars
  BY <1>16, <1>u, <1>w DEF LeavesTrail, rolloutVars, recorderVars
<1> QED
  BY <1>1, <1>2, <1>3, <1>4, <1>5, <1>6, <1>7, <1>8, <1>9, <1>10, <1>11, <1>12, <1>13,
     <1>14, <1>15, <1>16, CancellableAssumption
     DEF RolloutNext, RunStep, Background, RecorderStep, WriterStep, CallerStep

Marks(r) == {j \in DOMAIN accepted : accepted[j][1] = r}

(* A run that still records has recorded every event it has emitted.       *)
AllRecorded ==
    \A r \in Runs : Recording(r) =>
        /\ emitted[r] = Cardinality(Marks(r))
        /\ \A k \in 1 .. emitted[r] : \E i \in DOMAIN accepted : accepted[i] = <<r, k>>

InOrder == dropped \/ InOrderOfAcceptance

(* The statement of the model, in terms of its parameters.                 *)
LEMMA InOrderIsPlaced ==
  QueuedInOrder <=> Placed(Len(Written), accepted, Waiting)
BY DEF QueuedInOrder, Placed, Placing, IsAdd

(* What is written, from disk to pending.                                  *)
LEMMA WrittenIsSeq ==
  ASSUME Tidy(file)
  PROVE  Written \in Seq(Records) /\ Written = Content(file)
<1>1. /\ file.pending \in Seq(Records) /\ file.buffer \in Seq(Records)
      /\ file.disk \in Seq(Records)
  BY DEF Tidy, File
<1>2. \A x, y, z \in Seq(Records) : x \o y \o z \in Seq(Records)
  OBVIOUS
<1> QED
  BY <1>1, <1>2 DEF Written, Content

(* It is a part of the file.                                               *)
LEMMA SameWritten ==
  ASSUME file' = file
  PROVE  Written' = Written
BY DEF Written

(* What the accepting of a record changes in the history.                  *)
LEMMA AcceptedAfter ==
  ASSUME Typed, NEW r \in Runs, AddsRecord(r)
  PROVE  /\ accepted \in Seq(Records) /\ Len(accepted) \in Nat
         /\ DOMAIN accepted = 1 .. Len(accepted)
         /\ accepted' \in Seq(Records)
         /\ Len(accepted') = Len(accepted) + 1
         /\ DOMAIN accepted' = 1 .. Len(accepted) + 1
         /\ accepted'[Len(accepted) + 1] = <<r, emitted[r] + 1>>
         /\ \A i \in 1 .. Len(accepted) : accepted'[i] = accepted[i]
<1>1. accepted \in Seq(Records)
  BY DEF Typed
<1>2. /\ <<r, emitted[r] + 1>> \in Records
      /\ accepted' = Append(accepted, <<r, emitted[r] + 1>>)
  BY DEF AddsRecord
<1> DEFINE x == <<r, emitted[r] + 1>>
<1> HIDE DEF x
<1>3. \A s \in Seq(Records), e \in Records :
         /\ Len(s) \in Nat /\ DOMAIN s = 1 .. Len(s)
         /\ Append(s, e) \in Seq(Records) /\ Len(Append(s, e)) = Len(s) + 1
         /\ DOMAIN Append(s, e) = 1 .. Len(s) + 1
         /\ Append(s, e)[Len(s) + 1] = e
         /\ \A i \in 1 .. Len(s) : Append(s, e)[i] = s[i]
  OBVIOUS
<1>4. x \in Records /\ accepted' = Append(accepted, x)
  BY <1>2 DEF x
<1> QED
  BY <1>1, <1>3, <1>4 DEF x

(* The positions of a run in the history are finitely many...              *)
LEMMA MarksFinite ==
  ASSUME Typed, NEW r \in Runs
  PROVE  IsFiniteSet(Marks(r)) /\ Len(accepted) \in Nat
         /\ DOMAIN accepted = 1 .. Len(accepted)
         /\ Marks(r) \subseteq 1 .. Len(accepted)
<1>1. accepted \in Seq(Records)
  BY DEF Typed
<1>2. Len(accepted) \in Nat /\ DOMAIN accepted = 1 .. Len(accepted)
  BY <1>1, LenProperties
<1>3. Marks(r) \subseteq 1 .. Len(accepted)
  BY <1>2 DEF Marks
<1>4. IsFiniteSet(1 .. Len(accepted))
  BY <1>2, FS_Interval
<1> QED
  BY <1>2, <1>3, <1>4, FS_Subset

(* ... and an accepted event adds one.                                     *)
LEMMA MarksAfter ==
  ASSUME Typed, NEW r \in Runs, AddsRecord(r)
  PROVE  /\ Marks(r)' = Marks(r) \cup {Len(accepted) + 1}
         /\ Cardinality(Marks(r)') = Cardinality(Marks(r)) + 1
         /\ Cardinality(Marks(r)) \in Nat
         /\ \A s \in Runs \ {r} : Marks(s)' = Marks(s)
<1>1. /\ Len(accepted) \in Nat
      /\ DOMAIN accepted = 1 .. Len(accepted)
      /\ DOMAIN accepted' = 1 .. Len(accepted) + 1
      /\ accepted'[Len(accepted) + 1] = <<r, emitted[r] + 1>>
      /\ \A i \in 1 .. Len(accepted) : accepted'[i] = accepted[i]
  BY AcceptedAfter
<1> DEFINE l == Len(accepted)
<1>2. /\ l \in Nat /\ DOMAIN accepted = 1 .. l /\ DOMAIN accepted' = 1 .. l + 1
      /\ accepted'[l + 1][1] = r
      /\ \A i \in 1 .. l : accepted'[i] = accepted[i]
  BY <1>1
<1> HIDE DEF l
<1>3. \A i \in 1 .. l + 1 : i = l + 1 \/ i \in 1 .. l
  BY <1>2
<1>4. 1 .. l \subseteq 1 .. l + 1 /\ l + 1 \in 1 .. l + 1 /\ l + 1 \notin 1 .. l
  BY <1>2
<1>5. Marks(r)' = Marks(r) \cup {l + 1}
  BY <1>2, <1>3, <1>4 DEF Marks
<1>6. \A s \in Runs \ {r} : Marks(s)' = Marks(s)
  BY <1>2, <1>3, <1>4 DEF Marks
<1>7. IsFiniteSet(Marks(r)) /\ l + 1 \notin Marks(r)
  BY <1>2, <1>4, MarksFinite DEF Marks
<1>8. /\ Cardinality(Marks(r) \cup {l + 1}) = Cardinality(Marks(r)) + 1
      /\ Cardinality(Marks(r)) \in Nat
  BY <1>7, FS_AddElement, FS_CardinalityType
<1> QED
  BY <1>5, <1>6, <1>8 DEF l

(* A run that still records has no gap...                                  *)
LEMMA AllRecordedStep ==
  ASSUME Typed, AllRecorded, [RolloutNext]_rolloutVars
  PROVE  AllRecorded'
<1>1. ASSUME NothingRecorded PROVE AllRecorded'
  <2>1. accepted' = accepted /\ \A r \in Runs : Marks(r)' = Marks(r)
    BY <1>1 DEF NothingRecorded, Marks
  <2>2. ASSUME NEW r \in Runs, Recording(r)'
        PROVE  /\ emitted'[r] = Cardinality(Marks(r)')
               /\ \A k \in 1 .. emitted'[r] : \E i \in DOMAIN accepted' : accepted'[i] = <<r, k>>
    <3>1. Recording(r) /\ emitted'[r] = emitted[r]
      BY <1>1, <2>2 DEF NothingRecorded
    <3> QED
      BY <2>1, <3>1 DEF AllRecorded
  <2> QED
    BY <2>2 DEF AllRecorded
<1>2. ASSUME NEW r \in Runs, AddsRecord(r) PROVE AllRecorded'
  <2>1. ASSUME NEW s \in Runs, Recording(s)'
        PROVE  /\ emitted'[s] = Cardinality(Marks(s)')
               /\ \A k \in 1 .. emitted'[s] : \E i \in DOMAIN accepted' : accepted'[i] = <<s, k>>
    <3>1. Recording(s) /\ emitted'[r] = emitted[r] + 1
          /\ (s # r => emitted'[s] = emitted[s])
      BY <1>2, <2>1 DEF AddsRecord
    <3>2. /\ emitted[s] = Cardinality(Marks(s))
          /\ \A k \in 1 .. emitted[s] : \E i \in DOMAIN accepted : accepted[i] = <<s, k>>
      BY <3>1 DEF AllRecorded
    <3>3. /\ Len(accepted) \in Nat
          /\ DOMAIN accepted = 1 .. Len(accepted)
          /\ DOMAIN accepted' = 1 .. Len(accepted) + 1
          /\ accepted'[Len(accepted) + 1] = <<r, emitted[r] + 1>>
          /\ \A i \in 1 .. Len(accepted) : accepted'[i] = accepted[i]
      BY <1>2, AcceptedAfter
    <3>4. \A i \in DOMAIN accepted : i \in DOMAIN accepted' /\ accepted'[i] = accepted[i]
      BY <3>3
    <3>5. Len(accepted) + 1 \in DOMAIN accepted'
      BY <3>3
    <3>6. CASE s = r
      <4>1. emitted'[r] = Cardinality(Marks(r)')
        BY <1>2, <3>1, <3>2, <3>6, MarksAfter
      <4>2. emitted[r] \in Nat
        BY DEF Typed
      <4>3. ASSUME NEW k \in 1 .. emitted'[r]
            PROVE  \E i \in DOMAIN accepted' : accepted'[i] = <<r, k>>
        <5>1. k = emitted[r] + 1 \/ k \in 1 .. emitted[r]
          BY <3>1, <4>2
        <5>2. CASE k = emitted[r] + 1
          BY <3>3, <3>5, <5>2
        <5>3. CASE k \in 1 .. emitted[r]
          BY <3>2, <3>4, <3>6, <5>3
        <5> QED
          BY <5>1, <5>2, <5>3
      <4> QED
        BY <3>6, <4>1, <4>3
    <3>7. CASE s # r
      <4>1. Marks(s)' = Marks(s)
        BY <1>2, <3>7, MarksAfter
      <4> QED
        BY <3>1, <3>2, <3>4, <3>7, <4>1
    <3> QED
      BY <3>6, <3>7
  <2> QED
    BY <2>1 DEF AllRecorded
<1>3. (\E r \in Runs : AddsRecord(r)) \/ NothingRecorded
  BY TrailEffects DEF LeavesTrail, AddsCommand, Abandons, Works
<1> QED
  BY <1>1, <1>2, <1>3

(* ... and so its records are numbered from one.                           *)
LEMMA NoGapStep ==
  ASSUME Typed, AllRecorded, NoGap, [RolloutNext]_rolloutVars
  PROVE  NoGap'
<1>1. CASE NothingRecorded
  BY <1>1 DEF NothingRecorded, NoGap
<1>2. ASSUME NEW r \in Runs, AddsRecord(r) PROVE NoGap'
  <2> DEFINE l == Len(accepted)
  <2>1. /\ l \in Nat
        /\ DOMAIN accepted = 1 .. l
        /\ DOMAIN accepted' = 1 .. l + 1
        /\ accepted'[l + 1] = <<r, emitted[r] + 1>>
        /\ \A i \in 1 .. l : accepted'[i] = accepted[i]
    BY <1>2, AcceptedAfter
  <2>2. emitted[r] = Cardinality(Marks(r))
    BY <1>2 DEF AddsRecord, AllRecorded, Recording
  <2>3. Marks(r)' = {j \in 1 .. l + 1 : accepted'[j][1] = r}
    BY <2>1 DEF Marks
  <2>4. Cardinality(Marks(r)') = emitted[r] + 1
    BY <1>2, <2>2, MarksAfter
  <2> HIDE DEF l
  <2>5. ASSUME NEW i \in 1 .. l + 1
        PROVE  accepted'[i][2]
                 = Cardinality({j \in 1 .. i : accepted'[j][1] = accepted'[i][1]})
    <3>1. CASE i = l + 1
      <4>1. accepted'[i][1] = r /\ accepted'[i][2] = emitted[r] + 1
        BY <2>1, <3>1
      <4> QED
        BY <2>3, <2>4, <3>1, <4>1
    <3>2. CASE i # l + 1
      <4>1. i \in 1 .. l /\ 1 .. i \subseteq 1 .. l
        BY <2>1, <3>2
      <4>2. \A j \in 1 .. i : accepted'[j] = accepted[j]
        BY <2>1, <4>1
      <4>3. accepted'[i] = accepted[i]
        BY <2>1, <4>1
      <4>4. {j \in 1 .. i : accepted'[j][1] = accepted'[i][1]}
              = {j \in 1 .. i : accepted[j][1] = accepted[i][1]}
        BY <4>2, <4>3
      <4> QED
        BY <2>1, <4>1, <4>3, <4>4 DEF NoGap
    <3> QED
      BY <3>1, <3>2
  <2> QED
    BY <2>1, <2>5 DEF NoGap
<1>3. (\E r \in Runs : AddsRecord(r)) \/ NothingRecorded
  BY TrailEffects DEF LeavesTrail, AddsCommand, Abandons, Works
<1> QED
  BY <1>1, <1>2, <1>3

(* Every accepted record is written or waits, in order.                    *)
LEMMA InOrderStep ==
  ASSUME Typed, InOrder, [RolloutNext]_rolloutVars, Typed'
  PROVE  InOrder'
<1>1. Tidy(file) /\ accepted \in Seq(Records) /\ dropped \in BOOLEAN
  BY DEF Typed
<1>2. /\ Written \in Seq(Records) /\ Waiting \in Seq(Command)
      /\ Len(Written) \in Nat /\ Len(accepted) \in Nat
      /\ DOMAIN Written = 1 .. Len(Written)
      /\ DOMAIN accepted = 1 .. Len(accepted)
      /\ Waiting' \in Seq(Command)
  <2>1. Waiting' \in Seq(Command)
    <3>1. queue' \in Seq(Command) /\ command' \in Command \cup {Nothing}
      BY DEF Typed
    <3>2. \A c \in Command, q \in Seq(Command) : <<c>> \o q \in Seq(Command)
      OBVIOUS
    <3> QED
      BY <3>1, <3>2 DEF Waiting
  <2> QED
    BY <1>1, <2>1, WrittenIsSeq, WaitingIsSeq, LenProperties
<1>3. SUFFICES ASSUME ~dropped' PROVE InOrderOfAcceptance'
  BY DEF InOrder
<1>4. dropped' = dropped \/ Works
  BY TrailEffects DEF LeavesTrail, AddsRecord, AddsCommand, Abandons
<1>5. Works => (dropped => dropped')
  BY WorkDoes DEF Works
<1>6. /\ Len(Written) <= Len(accepted)
      /\ \A i \in DOMAIN Written : Written[i] = accepted[i]
      /\ Placed(Len(Written), accepted, Waiting)
  BY <1>3, <1>4, <1>5, InOrderIsPlaced DEF InOrder, InOrderOfAcceptance
<1>7. Len(Written) \in 0 .. Len(accepted)
  BY <1>2, <1>6
<1>8. SUFFICES /\ Len(Written') <= Len(accepted')
               /\ \A i \in DOMAIN Written' : Written'[i] = accepted'[i]
               /\ Placed(Len(Written'), accepted', Waiting')
  BY DEF QueuedInOrder, Placed, Placing, IsAdd, InOrderOfAcceptance
<1>9. CASE LeavesTrail
  <2>1. Written' = Written /\ accepted' = accepted /\ Waiting' = Waiting
    BY <1>9, SameWritten DEF LeavesTrail, NothingRecorded
  <2> QED
    BY <1>6, <2>1
<1>10. ASSUME NEW r \in Runs, AddsRecord(r)
       PROVE  /\ Len(Written') <= Len(accepted')
              /\ \A i \in DOMAIN Written' : Written'[i] = accepted'[i]
              /\ Placed(Len(Written'), accepted', Waiting')
  <2> DEFINE x == <<r, emitted[r] + 1>>
  <2>1. /\ x \in Records /\ accepted' = Append(accepted, x)
        /\ Waiting' = Append(Waiting, [kind |-> "add", record |-> x])
        /\ file' = file
    BY <1>10 DEF AddsRecord
  <2> HIDE DEF x
  <2>2. Placed(Len(Written), Append(accepted, x), Append(Waiting, [kind |-> "add", record |-> x]))
    BY <1>1, <1>2, <1>6, <1>7, <2>1, PlacedAccept
  <2>3. Written' = Written
    BY <2>1, SameWritten
  <2>4. Len(accepted') = Len(accepted) + 1 /\ \A i \in 1 .. Len(accepted) : accepted'[i] = accepted[i]
    BY <1>10, AcceptedAfter
  <2>5. Len(Written) <= Len(accepted) + 1
    BY <1>2, <1>6
  <2>6. ASSUME NEW i \in DOMAIN Written PROVE Written[i] = accepted'[i]
    <3>1. i \in 1 .. Len(accepted)
      BY <1>2, <1>6
    <3> QED
      BY <1>6, <2>4, <3>1
  <2> QED
    BY <2>1, <2>2, <2>3, <2>4, <2>5, <2>6
<1>11. ASSUME NEW c, AddsCommand(c)
       PROVE  /\ Len(Written') <= Len(accepted')
              /\ \A i \in DOMAIN Written' : Written'[i] = accepted'[i]
              /\ Placed(Len(Written'), accepted', Waiting')
  <2>1. /\ Written' = Written /\ accepted' = accepted
        /\ Waiting' = Append(Waiting, c) /\ c \in Command /\ c.kind # "add"
    BY <1>11, SameWritten DEF AddsCommand, NothingRecorded
  <2>2. Placed(Len(Written), accepted, Append(Waiting, c))
    BY <1>1, <1>2, <1>6, <1>7, <2>1, PlacedPut
  <2> QED
    BY <1>6, <2>1, <2>2
<1>12. ASSUME NEW c, Abandons(c)
       PROVE  /\ Len(Written') <= Len(accepted')
              /\ \A i \in DOMAIN Written' : Written'[i] = accepted'[i]
              /\ Placed(Len(Written'), accepted', Waiting')
  <2>1. /\ Written' = Written /\ accepted' = accepted
        /\ DOMAIN Waiting' = DOMAIN Waiting
        /\ \A p \in DOMAIN Waiting : Waiting'[p] = Orphan(c, Waiting[p])
    BY <1>12, SameWritten DEF Abandons, NothingRecorded
  <2>2. \A p \in DOMAIN Waiting :
            \/ Waiting'[p] = Waiting[p]
            \/ Waiting[p].kind # "add" /\ Waiting'[p].kind # "add"
    BY <2>1 DEF Orphan
  <2>3. Placed(Len(Written), accepted, Waiting')
    BY <1>6, <2>1, <2>2, PlacedOrphan
  <2> QED
    BY <1>6, <2>1, <2>3
<1>13. ASSUME Works
       PROVE  /\ Len(Written') <= Len(accepted')
              /\ \A i \in DOMAIN Written' : Written'[i] = accepted'[i]
              /\ Placed(Len(Written'), accepted', Waiting')
  <2>1. /\ Work /\ accepted' = accepted
        /\ Len(Waiting) = Len(Waiting') + 1 /\ Waiting[1] = command
        /\ \A p \in 1 .. Len(Waiting') : Waiting'[p] = Waiting[p + 1]
    BY <1>13 DEF Works, NothingRecorded
  <2>2. /\ Tidy(file')
        /\ Content(file') = IF command.kind = "add"
                            THEN Append(Content(file), command.record)
                            ELSE Content(file)
    BY <1>3, <2>1, WorkDoes
  <2>3. Written = Content(file) /\ Written' = Content(file')
    BY DEF Written, Content
  <2>4. CASE command.kind = "add"
    <3> DEFINE n == Len(Written)
               x == command.record
    <3>1. /\ n + 1 \in 1 .. Len(accepted) /\ x = accepted[n + 1]
          /\ Placed(n + 1, accepted, Waiting')
      <4>1. Waiting[1].kind = "add" /\ Waiting[1].record = x
        BY <2>1, <2>4
      <4> QED
        BY <1>1, <1>2, <1>6, <1>7, <2>1, <4>1, PlacedWritten
    <3>2. Written' = Append(Written, x)
      BY <2>2, <2>3, <2>4
    <3> HIDE DEF x
    <3>3. x \in Records
      BY <1>1, <1>2, <3>1
    <3>4. /\ Len(Written') = n + 1 /\ DOMAIN Written' = 1 .. n + 1
          /\ Written'[n + 1] = x /\ \A i \in 1 .. n : Written'[i] = Written[i]
      <4>1. \A s \in Seq(Records), e \in Records :
               /\ Len(Append(s, e)) = Len(s) + 1
               /\ DOMAIN Append(s, e) = 1 .. Len(s) + 1
               /\ Append(s, e)[Len(s) + 1] = e
               /\ \A i \in 1 .. Len(s) : Append(s, e)[i] = s[i]
        OBVIOUS
      <4> QED
        BY <1>2, <3>2, <3>3, <4>1
    <3>5. n \in Nat /\ \A i \in 1 .. n : Written[i] = accepted[i]
      BY <1>2, <1>6
    <3> HIDE DEF n
    <3>6. ASSUME NEW i \in 1 .. n + 1 PROVE Written'[i] = accepted[i]
      <4>1. i = n + 1 \/ i \in 1 .. n
        BY <3>5
      <4> QED
        BY <3>1, <3>4, <3>5, <4>1
    <3>7. n + 1 <= Len(accepted)
      BY <1>2, <3>1, <3>5
    <3> QED
      BY <2>1, <3>1, <3>4, <3>6, <3>7
  <2>5. CASE command.kind # "add"
    <3>1. Written' = Written
      BY <2>2, <2>3, <2>5
    <3>2. Placed(Len(Written), accepted, Waiting')
      <4>1. Waiting[1].kind # "add"
        BY <2>1, <2>5
      <4> QED
        BY <1>1, <1>2, <1>6, <1>7, <2>1, <4>1, PlacedSkip
    <3> QED
      BY <1>6, <2>1, <3>1, <3>2
  <2> QED
    BY <2>4, <2>5
<1> QED
  BY <1>9, <1>10, <1>11, <1>12, <1>13, TrailEffects

Flushing == {"complete", "error", "final"}
Ended    == {"ending", "final", "over"}

FlushOf(r) == {p \in DOMAIN Waiting : Waiting[p].kind = "flush" /\ Waiting[p].by = r}
AddsOf(r)  == {p \in DOMAIN Waiting : Waiting[p].kind = "add" /\ Waiting[p].record[1] = r}

(* A run waits for a flush in three places only.                           *)
CallsInPlace == \A r \in Runs : ack[r] # "none" => pc[r] \in Flushing

HostShutsDown == \A p \in DOMAIN Waiting : Waiting[p].kind = "shutdown" => Waiting[p].by = Host

(* A flush command that waits is that of a caller who waits.               *)
OneFlush ==
    writer = "alive" =>
        \A r \in Runs : \A p, q \in FlushOf(r) : p = q /\ ack[r] = "waiting"

(* Nothing of a run is behind its flush.                                   *)
Behind ==
    \A r \in Runs :
        pc[r] = "complete" /\ ack[r] = "waiting" =>
            \A p \in FlushOf(r), i \in AddsOf(r) : i < p

(* What a step does to one run.                                            *)
Idles(r) ==
    /\ pc'[r] = pc[r] /\ published'[r] = published[r] /\ ack'[r] = ack[r]
    /\ pc[r] # "phases" => emitted'[r] = emitted[r] /\ (r \in failure' <=> r \in failure)

Asks(r) ==
    /\ pc[r] \in {"phases", "failing", "ending"} /\ pc'[r] \in Flushing
    /\ pc[r] = "ending" => pc'[r] = "final" /\ emitted'[r] = emitted[r]
    /\ ack'[r] \in {"putting", "failed"}
    /\ published'[r] = published[r]

Leaves(r) ==
    /\ pc'[r] \in {"failing", "ending", "over"}
    /\ pc[r] \in Ended => pc'[r] \in Ended
    /\ pc[r] # "phases" => emitted'[r] = emitted[r]
    /\ ack'[r] = "none"
    /\ ack[r] # "waiting" \/ GiveUp(r)
    /\ \/ published'[r] = published[r] \/ published'[r] = "error"
       \/ /\ pc[r] = "complete" /\ ack[r] = "ok" /\ r \notin failure
          /\ published'[r] = "complete" /\ pc'[r] = "ending"

Awaits(r) ==
    /\ pc'[r] = pc[r] /\ published'[r] = published[r] /\ emitted'[r] = emitted[r]
    /\ r \in failure' <=> r \in failure
    /\ Put(r) \/ SeesWriterEnd(r) \/ Work

(* A step makes a run idle, ask, leave or await.                           *)
LEMMA RunEffects ==
  ASSUME Typed, CallsInPlace, [RolloutNext]_rolloutVars, NEW s \in Runs
  PROVE  Idles(s) \/ Asks(s) \/ Leaves(s) \/ Awaits(s)
<1>c. Runs \subseteq Callers /\ Host \in Callers /\ Host \notin Runs
  BY RecorderAssumption DEF Callers
<1>t. /\ pc \in [Runs -> Places] /\ emitted \in [Runs -> Nat] /\ MaxEvents \in [Runs -> Nat]
      /\ ack \in [Callers -> AckPlaces]
      /\ published \in [Runs -> {"none", "complete", "error"}]
      /\ \A r \in Runs : pc[r] = "phases" => emitted[r] <= MaxEvents[r]
  BY RecorderAssumption DEF Typed
<1>g. ASSUME NEW r \in Runs, NEW p, Goes(r, p)
      PROVE  pc'[r] = p /\ \A q \in Runs \ {r} : pc'[q] = pc[q]
  BY <1>t, <1>g DEF Goes
<1>n. ASSUME NEW r \in Runs, pc[r] \notin Flushing PROVE ack[r] = "none"
  BY <1>n DEF CallsInPlace
<1>b. ASSUME NEW c \in Callers, Barrier(c)
      PROVE  ack'[c] \in {"putting", "failed"} /\ \A d \in Callers \ {c} : ack'[d] = ack[d]
  BY <1>b, <1>t, BarrierTypes
<1>a. ASSUME NEW r \in Runs, Answered(r)
      PROVE  ack'[r] = "none" /\ \A d \in Callers \ {r} : ack'[d] = ack[d]
  BY <1>a, <1>t, <1>c DEF Answered
<1>e. ASSUME NEW r \in Runs, RecordEvent(r)
      PROVE  \A q \in Runs \ {r} : emitted'[q] = emitted[q] /\ (q \in failure' <=> q \in failure)
  BY <1>e, <1>t DEF RecordEvent
<1>1. ASSUME NEW r \in Runs, Emit(r) PROVE Idles(s) \/ Leaves(s)
  <2>1. /\ pc[r] = "phases" /\ RecordEvent(r) /\ ack' = ack /\ published' = published
        /\ (UNCHANGED pc \/ Goes(r, "failing"))
    BY <1>1 DEF Emit
  <2>2. ack[r] = "none"
    BY <1>n, <2>1 DEF Flushing
  <2>3. CASE s # r
    BY <1>e, <1>g, <2>1, <2>3 DEF Idles
  <2>4. CASE s = r
    BY <1>g, <2>1, <2>2, <2>4 DEF Idles, Leaves, Ended
  <2> QED
    BY <2>3, <2>4
<1>2. ASSUME NEW r \in Runs, Complete(r) PROVE Idles(s) \/ Asks(s) \/ Leaves(s)
  <2>1. /\ pc[r] = "phases" /\ RecordEvent(r) /\ published' = published
        /\ \/ Goes(r, "failing") /\ ack' = ack
           \/ Goes(r, "complete") /\ Barrier(r)
    BY <1>2 DEF Complete
  <2>2. ack[r] = "none"
    BY <1>n, <2>1 DEF Flushing
  <2>3. CASE Goes(r, "failing") /\ ack' = ack
    <3>1. CASE s # r
      BY <1>e, <1>g, <2>1, <2>3, <3>1 DEF Idles
    <3>2. CASE s = r
      BY <1>g, <2>1, <2>2, <2>3, <3>2 DEF Leaves, Ended
    <3> QED
      BY <3>1, <3>2
  <2>4. CASE Goes(r, "complete") /\ Barrier(r)
    <3>1. CASE s # r
      BY <1>b, <1>c, <1>e, <1>g, <2>1, <2>4, <3>1 DEF Idles
    <3>2. CASE s = r
      BY <1>b, <1>c, <1>g, <2>1, <2>4, <3>2 DEF Asks, Flushing
    <3> QED
      BY <3>1, <3>2
  <2> QED
    BY <2>1, <2>3, <2>4
<1>3. ASSUME NEW r \in Runs, Raise(r) PROVE Idles(s) \/ Leaves(s)
  <2>1. /\ Goes(r, "failing") /\ pc[r] = "phases" /\ ack' = ack
        /\ UNCHANGED <<emitted, failure, published>>
    BY <1>3 DEF Raise, recorderVars
  <2>2. ack[r] = "none"
    BY <1>n, <2>1 DEF Flushing
  <2> QED
    BY <1>g, <2>1, <2>2 DEF Idles, Leaves, Ended
<1>4. ASSUME NEW r \in Runs, Publish(r) PROVE Idles(s) \/ Leaves(s)
  <2>1. /\ Answered(r) /\ emitted' = emitted /\ pc[r] = "complete" /\ ack[r] \in {"ok", "failed"}
        /\ \/ /\ ack[r] = "ok" /\ r \notin failure
              /\ published' = [published EXCEPT ![r] = "complete"]
              /\ Goes(r, "ending") /\ failure' = failure
           \/ failure' = failure \cup {r} /\ Goes(r, "failing") /\ published' = published
    BY <1>4 DEF Publish
  <2>2. CASE s # r
    BY <1>a, <1>c, <1>g, <1>t, <2>1, <2>2 DEF Idles
  <2>3. CASE s = r
    BY <1>a, <1>g, <1>t, <2>1, <2>3 DEF Leaves, Ended
  <2> QED
    BY <2>2, <2>3
<1>5. ASSUME NEW r \in Runs, Fail(r) PROVE Idles(s) \/ Asks(s)
  <2>1. /\ Goes(r, "error") /\ published' = published /\ pc[r] = "failing" /\ Barrier(r)
    BY <1>5 DEF Fail
  <2>2. \A q \in Runs \ {r} : emitted'[q] = emitted[q] /\ (q \in failure' <=> q \in failure)
    BY <1>5, <1>e DEF Fail
  <2>3. CASE s # r
    BY <1>b, <1>c, <1>g, <2>1, <2>2, <2>3 DEF Idles
  <2>4. CASE s = r
    BY <1>b, <1>c, <1>g, <2>1, <2>4 DEF Asks, Flushing
  <2> QED
    BY <2>3, <2>4
<1>6. ASSUME NEW r \in Runs, PublishError(r) PROVE Idles(s) \/ Leaves(s)
  <2>1. /\ Answered(r) /\ emitted' = emitted /\ Goes(r, "ending") /\ pc[r] = "error"
        /\ ack[r] \in {"ok", "failed"}
        /\ published' = [published EXCEPT ![r] = "error"]
        /\ (failure' = failure \/ failure' = failure \cup {r})
    BY <1>6 DEF PublishError
  <2>2. CASE s # r
    BY <1>a, <1>c, <1>g, <1>t, <2>1, <2>2 DEF Idles
  <2>3. CASE s = r
    BY <1>a, <1>g, <1>t, <2>1, <2>3 DEF Leaves, Ended
  <2> QED
    BY <2>2, <2>3
<1>7. ASSUME NEW r \in Runs, FinalFlush(r) PROVE Idles(s) \/ Asks(s)
  <2>1. /\ pc[r] = "ending" /\ Goes(r, "final") /\ Barrier(r)
        /\ UNCHANGED <<emitted, failure, published>>
    BY <1>7 DEF FinalFlush
  <2>2. CASE s # r
    BY <1>b, <1>c, <1>g, <2>1, <2>2 DEF Idles
  <2>3. CASE s = r
    BY <1>b, <1>c, <1>g, <2>1, <2>3 DEF Asks, Flushing
  <2> QED
    BY <2>2, <2>3
<1>8. ASSUME NEW r \in Runs, ReleaseRun(r) PROVE Idles(s) \/ Leaves(s)
  <2>1. /\ Answered(r) /\ UNCHANGED <<emitted, published>> /\ Goes(r, "over") /\ pc[r] = "final"
        /\ ack[r] \in {"ok", "failed"} /\ failure' = failure \ {r}
    BY <1>8 DEF ReleaseRun
  <2>2. CASE s # r
    BY <1>a, <1>c, <1>g, <2>1, <2>2 DEF Idles
  <2>3. CASE s = r
    BY <1>a, <1>g, <2>1, <2>3 DEF Leaves, Ended
  <2> QED
    BY <2>2, <2>3
<1>9. ASSUME NEW r \in Runs, CancelRun(r) PROVE Idles(s) \/ Leaves(s)
  <2>1. UNCHANGED <<emitted, failure, published>>
    BY <1>9 DEF CancelRun
  <2>2. CASE pc[r] = "phases" /\ Goes(r, "ending") /\ UNCHANGED recorderVars
    <3>1. ack' = ack /\ ack[r] = "none"
      BY <1>n, <2>2 DEF recorderVars, Flushing
    <3> QED
      BY <1>g, <2>1, <2>2, <3>1 DEF Idles, Leaves, Ended
  <2>3. ASSUME GiveUp(r), \/ pc[r] \in {"complete", "error"} /\ Goes(r, "ending")
                          \/ pc[r] = "final" /\ Goes(r, "over")
        PROVE  Idles(s) \/ Leaves(s)
    <3>1. ack'[r] = "none" /\ \A d \in Callers \ {r} : ack'[d] = ack[d]
      BY <1>c, <1>t, <2>3 DEF GiveUp
    <3>2. CASE s # r
      BY <1>c, <1>g, <2>1, <2>3, <3>1, <3>2 DEF Idles
    <3>3. CASE s = r
      BY <1>g, <2>1, <2>3, <3>1, <3>3 DEF Leaves, Ended
    <3> QED
      BY <3>2, <3>3
  <2> QED
    BY <1>9, <2>2, <2>3 DEF CancelRun
<1>10. ASSUME Take \/ ShutdownEnds, UNCHANGED runVars PROVE Idles(s)
  BY <1>10 DEF Take, ShutdownEnds, Idles, runVars
<1>11. ASSUME Work, UNCHANGED runVars PROVE Awaits(s)
  BY <1>11 DEF Awaits, runVars
<1>12. ASSUME NEW c \in Callers, Put(c) \/ SeesWriterEnd(c), UNCHANGED runVars
       PROVE  Idles(s) \/ Awaits(s)
  <2>1. CASE c = s
    BY <1>12, <2>1 DEF Awaits, runVars
  <2>2. CASE c # s
    <3>1. ack'[s] = ack[s]
      BY <1>c, <1>t, <1>12, <2>2 DEF Put, SeesWriterEnd
    <3> QED
      BY <1>12, <3>1 DEF Idles, runVars
  <2> QED
    BY <2>1, <2>2
<1>13. ASSUME Shutdown PROVE Idles(s)
  <2>1. Barrier(Host) /\ UNCHANGED runVars
    BY <1>13 DEF Shutdown
  <2>2. ack'[s] = ack[s]
    BY <1>b, <1>c, <2>1
  <2> QED
    BY <2>1, <2>2 DEF Idles, runVars
<1>14. CASE UNCHANGED rolloutVars
  BY <1>14 DEF Idles, rolloutVars, recorderVars, runVars
<1> QED
  BY <1>1, <1>2, <1>3, <1>4, <1>5, <1>6, <1>7, <1>8, <1>9, <1>10, <1>11, <1>12, <1>13,
     <1>14, CancellableAssumption
     DEF RolloutNext, RunStep, Background, RecorderStep, WriterStep, CallerStep

(* The completion of a run is on the bus, or about to be.                  *)
Completes(r) ==
    \/ pc[r] = "complete" /\ ack[r] = "ok" /\ r \notin failure
    \/ published[r] = "complete"

OnDisk == ~dropped => \A r \in Runs : Completes(r) => EventsOf(r) \subseteq Durable

PublishedLast == \A r \in Runs : published[r] = "complete" => pc[r] \in Ended

BarrierInv == CallsInPlace /\ HostShutsDown /\ OneFlush /\ Behind

TrailInv == Typed /\ AllRecorded /\ NoGap /\ InOrder /\ BarrierInv /\ PublishedLast /\ OnDisk

(* The writer answers a run that waits.                                    *)
LEMMA AnswersWaiting ==
  ASSUME Typed, BarrierInv, Work, NEW r \in Runs,
         command.kind \in {"flush", "shutdown"}, command.by = r
  PROVE  command.kind = "flush" /\ 1 \in FlushOf(r) /\ ack[r] = "waiting"
<1>1. Waiting[1] = command /\ Len(Waiting) = Len(Waiting') + 1 /\ Waiting' = queue
  BY WaitWork
<1>2. 1 \in DOMAIN Waiting
  <2>1. Len(queue) \in Nat
    BY LenProperties DEF Typed
  <2> QED
    BY <1>1, <2>1, WaitingIsSeq
<1>3. r # Host
  BY RecorderAssumption
<1>4. command.kind = "flush"
  BY <1>1, <1>2, <1>3 DEF BarrierInv, HostShutsDown
<1>5. 1 \in FlushOf(r)
  BY <1>1, <1>2, <1>4 DEF FlushOf
<1> QED
  BY <1>4, <1>5 DEF BarrierInv, OneFlush, Work

(* A run waits for a flush in three places only: kept.                     *)
LEMMA CallsInPlaceStep ==
  ASSUME Typed, BarrierInv, [RolloutNext]_rolloutVars
  PROVE  CallsInPlace'
<1>0. CallsInPlace
  BY DEF BarrierInv
<1> SUFFICES ASSUME NEW r \in Runs, ack'[r] # "none" PROVE pc'[r] \in Flushing
  BY DEF CallsInPlace
<1>1. CASE Idles(r)
  BY <1>0, <1>1 DEF Idles, CallsInPlace
<1>2. CASE Asks(r)
  BY <1>2 DEF Asks
<1>3. CASE Leaves(r)
  BY <1>3 DEF Leaves
<1>4. CASE Awaits(r)
  <2>1. ack[r] # "none"
    <3>1. CASE Put(r) \/ SeesWriterEnd(r)
      BY <3>1 DEF Put, SeesWriterEnd
    <3>2. CASE Work
      <4>1. r \in Callers
        BY DEF Callers
      <4>2. CASE ack'[r] = ack[r]
        BY <4>2
      <4>3. CASE command.kind \in {"flush", "shutdown"} /\ command.by = r
        BY <3>2, <4>3, AnswersWaiting
      <4> QED
        BY <3>2, <4>1, <4>2, <4>3, WorkDoes
    <3> QED
      BY <1>4, <3>1, <3>2 DEF Awaits
  <2> QED
    BY <1>0, <1>4, <2>1 DEF Awaits, CallsInPlace
<1> QED
  BY <1>0, <1>1, <1>2, <1>3, <1>4, RunEffects

(* Where the commands that wait after a step come from.                    *)
LEMMA Origins ==
  ASSUME Typed, [RolloutNext]_rolloutVars, NEW p \in DOMAIN Waiting'
  PROVE  \/ p \in DOMAIN Waiting /\ Waiting'[p] = Waiting[p] /\ ~Work
         \/ Work /\ p + 1 \in DOMAIN Waiting /\ Waiting'[p] = Waiting[p + 1]
         \/ \E r \in Runs :
               /\ AddsRecord(r) /\ p = Len(Waiting) + 1
               /\ Waiting'[p] = [kind |-> "add", record |-> <<r, emitted[r] + 1>>]
         \/ \E c \in Callers :
               /\ Put(c) /\ p = Len(Waiting) + 1
               /\ Waiting'[p] = [kind |-> IF c = Host THEN "shutdown" ELSE "flush", by |-> c]
         \/ \E r \in Runs :
               /\ GiveUp(r) /\ p \in DOMAIN Waiting
               /\ Waiting'[p] = Orphan(r, Waiting[p])
<1>1. /\ Waiting \in Seq(Command) /\ Len(Waiting) \in Nat
      /\ DOMAIN Waiting = 1 .. Len(Waiting)
  BY WaitingIsSeq
<1>a. ASSUME NEW c \in Command, Waiting' = Append(Waiting, c)
      PROVE  \/ p \in DOMAIN Waiting /\ Waiting'[p] = Waiting[p]
             \/ p = Len(Waiting) + 1 /\ Waiting'[p] = c
  <2>1. \A s \in Seq(Command) :
           /\ DOMAIN Append(s, c) = 1 .. Len(s) + 1 /\ DOMAIN s = 1 .. Len(s) /\ Len(s) \in Nat
           /\ Append(s, c)[Len(s) + 1] = c
           /\ \A i \in 1 .. Len(s) : Append(s, c)[i] = s[i]
    OBVIOUS
  <2>2. /\ DOMAIN Waiting' = 1 .. Len(Waiting) + 1
        /\ Waiting'[Len(Waiting) + 1] = c
        /\ \A i \in 1 .. Len(Waiting) : Waiting'[i] = Waiting[i]
    BY <1>1, <1>a, <2>1
  <2> DEFINE n == Len(Waiting)
  <2>3. p = n + 1 \/ p \in 1 .. n
    <3>1. n \in Nat /\ p \in 1 .. n + 1
      BY <1>1, <2>2
    <3> HIDE DEF n
    <3> QED
      BY <3>1
  <2> QED
    BY <1>1, <2>2, <2>3
<1>2. CASE Work
  <2>1. /\ Len(Waiting) = Len(Waiting') + 1 /\ Waiting' = queue
        /\ \A q \in 1 .. Len(Waiting') : Waiting'[q] = Waiting[q + 1]
    BY <1>2, WaitWork
  <2>2. DOMAIN Waiting' = 1 .. Len(Waiting') /\ Len(Waiting') \in Nat
    BY <2>1, LenProperties DEF Typed
  <2> DEFINE n == Len(Waiting')
  <2>3. p \in 1 .. n /\ n \in Nat /\ Len(Waiting) = n + 1
    BY <2>1, <2>2
  <2>4. Waiting'[p] = Waiting[p + 1]
    BY <2>1, <2>3
  <2> HIDE DEF n
  <2>5. p + 1 \in 1 .. Len(Waiting)
    BY <2>3
  <2> QED
    BY <1>1, <1>2, <2>4, <2>5
<1>3. CASE ~Work
  <2>1. CASE LeavesTrail
    BY <1>3, <2>1 DEF LeavesTrail
  <2>2. ASSUME NEW r \in Runs, AddsRecord(r)
        PROVE  \/ p \in DOMAIN Waiting /\ Waiting'[p] = Waiting[p]
               \/ /\ AddsRecord(r) /\ p = Len(Waiting) + 1
                  /\ Waiting'[p] = [kind |-> "add", record |-> <<r, emitted[r] + 1>>]
    <3>1. Waiting' = Append(Waiting, [kind |-> "add", record |-> <<r, emitted[r] + 1>>])
          /\ <<r, emitted[r] + 1>> \in Records
      BY <2>2 DEF AddsRecord
    <3> QED
      BY <1>a, <2>2, <3>1, CommandKinds
  <2>3. ASSUME NEW c \in Callers, Put(c),
               AddsCommand([kind |-> IF c = Host THEN "shutdown" ELSE "flush", by |-> c])
        PROVE  \/ p \in DOMAIN Waiting /\ Waiting'[p] = Waiting[p]
               \/ /\ Put(c) /\ p = Len(Waiting) + 1
                  /\ Waiting'[p] = [kind |-> IF c = Host THEN "shutdown" ELSE "flush", by |-> c]
    <3> DEFINE d == [kind |-> IF c = Host THEN "shutdown" ELSE "flush", by |-> c]
    <3>1. d \in Command /\ Waiting' = Append(Waiting, d)
      BY <2>3 DEF AddsCommand
    <3> HIDE DEF d
    <3>2. \/ p \in DOMAIN Waiting /\ Waiting'[p] = Waiting[p]
          \/ p = Len(Waiting) + 1 /\ Waiting'[p] = d
      BY <1>a, <3>1
    <3> QED
      BY <2>3, <3>2 DEF d
  <2>4. ASSUME NEW r \in Runs, GiveUp(r), Abandons(r)
        PROVE  GiveUp(r) /\ p \in DOMAIN Waiting /\ Waiting'[p] = Orphan(r, Waiting[p])
    BY <2>4 DEF Abandons
  <2>5. ~Works
    BY <1>3 DEF Works
  <2> QED
    BY <1>3, <2>1, <2>2, <2>3, <2>4, <2>5, TrailEffects
<1> QED
  BY <1>2, <1>3

(* Only the host puts a shutdown: kept.                                    *)
LEMMA HostShutsDownStep ==
  ASSUME Typed, HostShutsDown, [RolloutNext]_rolloutVars
  PROVE  HostShutsDown'
<1> SUFFICES ASSUME NEW p \in DOMAIN Waiting', Waiting'[p].kind = "shutdown"
             PROVE  Waiting'[p].by = Host
  BY DEF HostShutsDown
<1>1. ASSUME NEW c \in Callers,
             Waiting'[p] = [kind |-> IF c = Host THEN "shutdown" ELSE "flush", by |-> c]
      PROVE  Waiting'[p].by = Host
  BY <1>1
<1>2. ASSUME NEW r \in Runs, p \in DOMAIN Waiting, Waiting'[p] = Orphan(r, Waiting[p])
      PROVE  Waiting'[p].by = Host
  <2>1. Waiting'[p] = Waiting[p]
    BY <1>2 DEF Orphan
  <2> QED
    BY <1>2, <2>1 DEF HostShutsDown
<1>3. ~\E r \in Runs : Waiting'[p] = [kind |-> "add", record |-> <<r, emitted[r] + 1>>]
  OBVIOUS
<1> QED
  BY <1>1, <1>2, <1>3, Origins DEF HostShutsDown

(* A step neither revives the writer nor lets two things happen at once.   *)
LEMMA WriterStays ==
  ASSUME Typed, [RolloutNext]_rolloutVars
  PROVE  /\ writer' = "alive" => writer = "alive"
         /\ \A c \in Callers : Put(c) => ~Work /\ Waiting' # Waiting /\ ack'[c] = "waiting"
<1>1. writer' = "alive" => writer = "alive"
  <2>1. writer \in {"alive", "done"}
    BY DEF Typed
  <2>2. Work => writer = "alive"
    BY DEF Work
  <2>3. RecorderStep => (writer' = "alive" => writer = "alive")
    BY <2>1, <2>2 DEF RecorderStep, WriterStep, CallerStep, Take, ShutdownEnds, Put, SeesWriterEnd
  <2>4. ASSUME NEW r \in Runs, RunStep(r) PROVE writer' = writer
    BY <2>4 DEF RunStep, Emit, Complete, Raise, Publish, Fail, PublishError, FinalFlush,
                ReleaseRun, Answered, Unrecorded, recorderVars
  <2>5. ASSUME NEW r \in Runs, CancelRun(r) PROVE writer' = writer
    BY <2>5 DEF CancelRun, GiveUp, recorderVars
  <2>6. Shutdown => writer' = writer
    BY DEF Shutdown, Unrecorded
  <2>7. UNCHANGED rolloutVars => writer' = writer
    BY DEF rolloutVars, recorderVars
  <2> QED
    BY <2>3, <2>4, <2>5, <2>6, <2>7, CancellableAssumption DEF RolloutNext, Background
<1>2. ASSUME NEW c \in Callers, Put(c)
      PROVE  ~Work /\ Waiting' # Waiting /\ ack'[c] = "waiting"
  <2> DEFINE d == [kind |-> IF c = Host THEN "shutdown" ELSE "flush", by |-> c]
  <2>1. /\ queue' = Append(queue, d) /\ command' = command
        /\ ack' = [ack EXCEPT ![c] = "waiting"]
    BY <1>2 DEF Put
  <2>2. d \in Command
    BY CommandKinds
  <2> HIDE DEF d
  <2>3. Waiting' = Append(Waiting, d)
    BY <2>1, <2>2, WaitAppend
  <2>4. \A s \in Seq(Command) : Append(s, d) # s
    <3>1. ASSUME NEW s \in Seq(Command) PROVE Append(s, d) # s
      <4>1. Len(Append(s, d)) = Len(s) + 1 /\ Len(s) \in Nat
        BY <2>2, AppendProperties, LenProperties
      <4> QED
        BY <4>1
    <3> QED
      BY <3>1
  <2>5. Waiting' # Waiting /\ queue' # queue
    BY <2>1, <2>3, <2>4, WaitingIsSeq DEF Typed
  <2>6. ~Work
    BY <2>5 DEF Work
  <2>7. ack'[c] = "waiting"
    BY <2>1 DEF Typed
  <2> QED
    BY <2>5, <2>6, <2>7
<1> QED
  BY <1>1, <1>2

(* Nor do a worked and an abandoned command come together.                 *)
LEMMA WorksOrGivesUp ==
  ASSUME Typed, NEW r \in Runs, GiveUp(r)
  PROVE  ~Work
<1>1. DOMAIN Waiting' = DOMAIN Waiting
  BY WaitGiveUp DEF Callers
<1>2. SUFFICES ASSUME Work PROVE FALSE
  OBVIOUS
<1>3. Len(Waiting) = Len(Waiting') + 1 /\ Waiting' = queue
  BY <1>2, WaitWork
<1>4. DOMAIN Waiting' = 1 .. Len(Waiting') /\ Len(Waiting') \in Nat
  BY <1>3, LenProperties DEF Typed
<1>5. Len(Waiting) \in DOMAIN Waiting /\ Len(Waiting) \notin DOMAIN Waiting'
  BY <1>3, <1>4, WaitingIsSeq
<1> QED
  BY <1>1, <1>5

(* A flush or a record of a run that waits after a step...                 *)
LEMMA FlushOrigin ==
  ASSUME Typed, [RolloutNext]_rolloutVars, NEW r \in Runs, NEW p \in FlushOf(r)'
  PROVE  \/ p \in FlushOf(r) /\ ~Work /\ ~GiveUp(r)
         \/ Work /\ p + 1 \in FlushOf(r)
         \/ Put(r) /\ p = Len(Waiting) + 1
<1>1. p \in DOMAIN Waiting' /\ Waiting'[p].kind = "flush" /\ Waiting'[p].by = r
  BY DEF FlushOf
<1>2. CASE p \in DOMAIN Waiting /\ Waiting'[p] = Waiting[p] /\ ~Work
  <2>1. p \in FlushOf(r)
    BY <1>1, <1>2 DEF FlushOf
  <2>2. ~GiveUp(r)
    <3>1. SUFFICES ASSUME GiveUp(r) PROVE FALSE
      OBVIOUS
    <3>2. Waiting'[p] = Orphan(r, Waiting[p])
      BY <1>2, <3>1, WaitGiveUp DEF Callers
    <3>3. Waiting'[p].kind = "abandoned"
      BY <1>1, <1>2, <3>2 DEF Orphan
    <3> QED
      BY <1>1, <3>3
  <2> QED
    BY <1>2, <2>1, <2>2
<1>3. CASE Work /\ p + 1 \in DOMAIN Waiting /\ Waiting'[p] = Waiting[p + 1]
  BY <1>1, <1>3 DEF FlushOf
<1>4. ASSUME NEW c \in Callers, Put(c), p = Len(Waiting) + 1,
             Waiting'[p] = [kind |-> IF c = Host THEN "shutdown" ELSE "flush", by |-> c]
      PROVE  Put(r)
  <2>1. c = r
    BY <1>1, <1>4
  <2> QED
    BY <1>4, <2>1
<1>5. ASSUME NEW s \in Runs, GiveUp(s), p \in DOMAIN Waiting, Waiting'[p] = Orphan(s, Waiting[p])
      PROVE  p \in FlushOf(r) /\ ~Work /\ ~GiveUp(r)
  <2>1. Waiting'[p] = Waiting[p]
    BY <1>1, <1>5 DEF Orphan
  <2>2. p \in FlushOf(r)
    BY <1>1, <1>5, <2>1 DEF FlushOf
  <2>3. ~GiveUp(r)
    <3>1. SUFFICES ASSUME GiveUp(r) PROVE FALSE
      OBVIOUS
    <3>2. Waiting'[p] = Orphan(r, Waiting[p])
      BY <1>5, <3>1, WaitGiveUp DEF Callers
    <3>3. Waiting'[p].kind = "abandoned"
      BY <1>1, <2>1, <3>2 DEF Orphan
    <3> QED
      BY <1>1, <3>3
  <2>4. ~Work
    BY <1>5, WorksOrGivesUp
  <2> QED
    BY <2>2, <2>3, <2>4
<1>6. ~\E s \in Runs : Waiting'[p] = [kind |-> "add", record |-> <<s, emitted[s] + 1>>]
  BY <1>1
<1> QED
  BY <1>1, <1>2, <1>3, <1>4, <1>5, <1>6, Origins

(* ... or a record of it, was there before, or has just been put.          *)
LEMMA AddOrigin ==
  ASSUME Typed, [RolloutNext]_rolloutVars, NEW r \in Runs, NEW p \in AddsOf(r)'
  PROVE  \/ p \in AddsOf(r) /\ ~Work
         \/ Work /\ p + 1 \in AddsOf(r)
         \/ AddsRecord(r)
<1>1. p \in DOMAIN Waiting' /\ Waiting'[p].kind = "add" /\ Waiting'[p].record[1] = r
  BY DEF AddsOf
<1>2. CASE p \in DOMAIN Waiting /\ Waiting'[p] = Waiting[p] /\ ~Work
  BY <1>1, <1>2 DEF AddsOf
<1>3. CASE Work /\ p + 1 \in DOMAIN Waiting /\ Waiting'[p] = Waiting[p + 1]
  BY <1>1, <1>3 DEF AddsOf
<1>4. ASSUME NEW s \in Runs, AddsRecord(s),
             Waiting'[p] = [kind |-> "add", record |-> <<s, emitted[s] + 1>>]
      PROVE  AddsRecord(r)
  <2>1. s = r
    BY <1>1, <1>4
  <2> QED
    BY <1>4, <2>1
<1>5. ASSUME NEW s \in Runs, GiveUp(s), p \in DOMAIN Waiting, Waiting'[p] = Orphan(s, Waiting[p])
      PROVE  p \in AddsOf(r) /\ ~Work
  <2>1. Waiting'[p] = Waiting[p]
    BY <1>1, <1>5 DEF Orphan
  <2> QED
    BY <1>1, <1>5, <2>1, WorksOrGivesUp DEF AddsOf
<1>6. ~\E c \in Callers :
         Waiting'[p] = [kind |-> IF c = Host THEN "shutdown" ELSE "flush", by |-> c]
  BY <1>1
<1> QED
  BY <1>1, <1>2, <1>3, <1>4, <1>5, <1>6, Origins

(* One flush of a run waits: kept.                                         *)
LEMMA OneFlushStep ==
  ASSUME Typed, BarrierInv, [RolloutNext]_rolloutVars
  PROVE  OneFlush'
<1>0. CallsInPlace /\ OneFlush
  BY DEF BarrierInv
<1> SUFFICES ASSUME writer' = "alive",
                    NEW r \in Runs, NEW p \in FlushOf(r)', NEW q \in FlushOf(r)'
             PROVE  p = q /\ ack'[r] = "waiting"
  BY DEF OneFlush
<1>1. writer = "alive" /\ r \in Callers
  BY WriterStays DEF Callers
<1>2. \A i, j \in FlushOf(r) : i = j /\ ack[r] = "waiting"
  BY <1>0, <1>1 DEF OneFlush
<1>3. CASE Put(r)
  <2>1. FlushOf(r) = {} /\ ~Work /\ ack'[r] = "waiting"
    <3>1. ack[r] = "putting"
      BY <1>3 DEF Put
    <3> QED
      BY <1>1, <1>2, <1>3, <3>1, WriterStays
  <2>2. p = Len(Waiting) + 1 /\ q = Len(Waiting) + 1
    BY <2>1, FlushOrigin
  <2> QED
    BY <2>1, <2>2
<1>4. CASE ~Put(r) /\ ~Work
  <2>1. p \in FlushOf(r) /\ q \in FlushOf(r) /\ ~GiveUp(r)
    BY <1>4, FlushOrigin
  <2>2. p = q /\ ack[r] = "waiting"
    BY <1>2, <2>1
  <2>3. ~Asks(r)
    <3>1. pc[r] \in Flushing
      BY <1>0, <2>2 DEF CallsInPlace
    <3> QED
      BY <3>1 DEF Asks, Flushing
  <2>4. ~Leaves(r)
    BY <2>1, <2>2 DEF Leaves
  <2>5. ~Awaits(r)
    BY <1>1, <1>4 DEF Awaits, SeesWriterEnd
  <2>6. Idles(r)
    BY <1>0, <2>3, <2>4, <2>5, RunEffects
  <2> QED
    BY <2>2, <2>6 DEF Idles
<1>5. CASE ~Put(r) /\ Work
  <2>1. p + 1 \in FlushOf(r) /\ q + 1 \in FlushOf(r)
    BY <1>5, FlushOrigin
  <2>2. p + 1 = q + 1 /\ ack[r] = "waiting"
    BY <1>2, <2>1
  <2>3. p \in Nat \ {0} /\ q \in Nat \ {0}
    <3>1. Waiting' = queue
      BY <1>5, WaitWork
    <3>2. DOMAIN Waiting' = 1 .. Len(queue) /\ Len(queue) \in Nat
      BY <3>1, LenProperties DEF Typed
    <3>3. p \in 1 .. Len(queue) /\ q \in 1 .. Len(queue)
      BY <3>2 DEF FlushOf
    <3> QED
      BY <3>2, <3>3
  <2>4. p = q
    BY <2>2, <2>3
  <2>5. ~(command.kind \in {"flush", "shutdown"} /\ command.by = r)
    <3>1. SUFFICES ASSUME command.kind \in {"flush", "shutdown"}, command.by = r PROVE FALSE
      OBVIOUS
    <3>2. 1 \in FlushOf(r)
      BY <1>5, <3>1, AnswersWaiting
    <3>3. p + 1 = 1
      BY <1>2, <2>1, <3>2
    <3> QED
      BY <2>3, <3>3
  <2>6. ack'[r] = ack[r]
    BY <1>1, <1>5, <2>5, WorkDoes
  <2> QED
    BY <2>2, <2>4, <2>6
<1> QED
  BY <1>3, <1>4, <1>5

(* Nothing of a run is behind its flush: kept.                             *)
LEMMA BehindStep ==
  ASSUME Typed, BarrierInv, [RolloutNext]_rolloutVars
  PROVE  Behind'
<1>0. CallsInPlace /\ OneFlush /\ Behind
  BY DEF BarrierInv
<1> SUFFICES ASSUME NEW r \in Runs, pc'[r] = "complete", ack'[r] = "waiting",
                    NEW p \in FlushOf(r)', NEW i \in AddsOf(r)'
             PROVE  i < p
  BY DEF Behind
<1>1. r \in Callers
  BY DEF Callers
<1>2. Len(Waiting) \in Nat /\ DOMAIN Waiting = 1 .. Len(Waiting)
  BY WaitingIsSeq
<1>3. (Idles(r) /\ ack[r] = "waiting") \/ Awaits(r)
  <2>1. ~Asks(r) /\ ~Leaves(r)
    BY DEF Asks, Leaves
  <2>2. Idles(r) => ack[r] = "waiting"
    BY DEF Idles
  <2> QED
    BY <1>0, <2>1, <2>2, RunEffects
<1>4. pc[r] = "complete"
  BY <1>3 DEF Idles, Awaits
<1>5. ~AddsRecord(r)
  BY <1>4 DEF AddsRecord
<1>6. (i \in AddsOf(r) /\ ~Work) \/ (Work /\ i + 1 \in AddsOf(r))
  BY <1>5, AddOrigin
<1>7. CASE Put(r)
  <2>1. FlushOf(r) = {} /\ ~Work
    <3>1. ack[r] = "putting" /\ writer = "alive"
      BY <1>7 DEF Put
    <3> QED
      BY <1>0, <1>1, <1>7, <3>1, WriterStays DEF OneFlush
  <2>2. p = Len(Waiting) + 1
    BY <2>1, FlushOrigin
  <2>3. i \in 1 .. Len(Waiting)
    BY <1>2, <1>6, <2>1 DEF AddsOf
  <2> QED
    BY <1>2, <2>2, <2>3
<1>8. CASE ~Put(r) /\ ~Work
  <2>1. p \in FlushOf(r) /\ i \in AddsOf(r)
    BY <1>6, <1>8, FlushOrigin
  <2>2. ack[r] = "waiting"
    <3>1. ~SeesWriterEnd(r)
      <4>1. ack \in [Callers -> AckPlaces]
        BY DEF Typed
      <4> QED
        BY <1>1, <4>1 DEF SeesWriterEnd
    <3> QED
      BY <1>3, <1>8, <3>1 DEF Awaits
  <2> QED
    BY <1>0, <1>4, <2>1, <2>2 DEF Behind
<1>9. CASE ~Put(r) /\ Work
  <2>1. p + 1 \in FlushOf(r)
    BY <1>9, FlushOrigin
  <2>2. ack[r] = "waiting"
    BY <1>1, <1>9, WorkDoes
  <2>3. i \in Nat /\ p \in Nat
    <3>1. Waiting' = queue
      BY <1>9, WaitWork
    <3>2. DOMAIN Waiting' = 1 .. Len(queue) /\ Len(queue) \in Nat
      BY <3>1, LenProperties DEF Typed
    <3>3. p \in 1 .. Len(queue) /\ i \in 1 .. Len(queue)
      BY <3>2 DEF FlushOf, AddsOf
    <3> QED
      BY <3>2, <3>3
  <2>4. CASE i + 1 \in AddsOf(r)
    <3>1. i + 1 < p + 1
      BY <1>0, <1>4, <2>1, <2>2, <2>4 DEF Behind
    <3> QED
      BY <2>3, <3>1
  <2> QED
    BY <1>6, <1>9, <2>4
<1> QED
  BY <1>7, <1>8, <1>9

(* A completion on the bus is the last of a run: kept.                     *)
LEMMA PublishedLastStep ==
  ASSUME Typed, CallsInPlace, PublishedLast, [RolloutNext]_rolloutVars
  PROVE  PublishedLast'
<1> SUFFICES ASSUME NEW r \in Runs, published'[r] = "complete" PROVE pc'[r] \in Ended
  BY DEF PublishedLast
<1>1. CASE Idles(r)
  BY <1>1 DEF Idles, PublishedLast
<1>2. CASE Asks(r)
  BY <1>2 DEF Asks, PublishedLast, Ended
<1>3. CASE Leaves(r)
  BY <1>3 DEF Leaves, PublishedLast, Ended
<1>4. CASE Awaits(r)
  BY <1>4 DEF Awaits, PublishedLast
<1> QED
  BY <1>1, <1>2, <1>3, <1>4, RunEffects

(* What is on the disk stays there.                                        *)
LEMMA DurableGrows ==
  ASSUME Typed, [RolloutNext]_rolloutVars
  PROVE  Durable \subseteq Durable' /\ (dropped => dropped')
<1>1. /\ file' = file \/ Grows(file, file')
      /\ dropped => dropped'
  <2>1. (file' = file /\ dropped' = dropped) \/ Work
    BY TrailEffects DEF LeavesTrail, AddsRecord, AddsCommand, Abandons, Works
  <2>2. Work => Grows(file, file') /\ (dropped => dropped')
    BY WorkDoes
  <2> QED
    BY <2>1, <2>2
<1>2. CASE file' = file
  BY <1>1, <1>2 DEF Durable
<1>3. CASE Grows(file, file')
  <2>1. /\ file.synced \in Nat /\ file.synced <= file'.synced
        /\ \A i \in 1 .. file.synced : file'.disk[i] = file.disk[i]
    BY <1>3 DEF Grows, Typed, Tidy, File
  <2>2. file'.synced \in Nat
    <3>1. CASE file' = file
      BY <2>1, <3>1
    <3>2. CASE Work
      <4>1. file' \in File
        BY <3>2, WorkDoes DEF Tidy
      <4> QED
        BY <4>1 DEF File
    <3> QED
      BY <3>1, <3>2, TrailEffects DEF LeavesTrail, AddsRecord, AddsCommand, Abandons, Works
  <2> DEFINE n == file.synced
             m == file'.synced
  <2>3. n \in Nat /\ m \in Nat /\ n <= m
    BY <2>1, <2>2
  <2> HIDE DEF n, m
  <2>4. 1 .. n \subseteq 1 .. m
    BY <2>3
  <2>5. ASSUME NEW i \in 1 .. n PROVE i \in 1 .. m /\ file.disk[i] = file'.disk[i]
    BY <2>1, <2>4 DEF n
  <2> QED
    BY <1>1, <2>5 DEF Durable, n, m
<1> QED
  BY <1>1, <1>2, <1>3

(* A flush that succeeds has written every record of its run.              *)
LEMMA FlushSays ==
  ASSUME Typed, AllRecorded, InOrder, BarrierInv, Work, ~dropped', NEW r \in Runs,
         command.kind \in {"flush", "shutdown"}, command.by = r, ack'[r] = "ok",
         pc[r] = "complete", r \notin failure
  PROVE  EventsOf(r) \subseteq Durable'
<1>1. command.kind = "flush" /\ 1 \in FlushOf(r) /\ ack[r] = "waiting"
  BY AnswersWaiting
<1>2. /\ Tidy(file') /\ Content(file') = Content(file) /\ ~dropped /\ Clean(file')
  <2>1. r \in Callers
    BY DEF Callers
  <2>2. ~(ack'[r] = ack[r])
    BY <1>1
  <2> QED
    BY <1>1, <2>1, <2>2, WorkDoes
<1>3. /\ Written \in Seq(Records) /\ Written = Content(file)
      /\ Len(Written) \in Nat /\ DOMAIN Written = 1 .. Len(Written)
  BY WrittenIsSeq, LenProperties DEF Typed
<1>4. Written = file'.disk /\ file'.synced = Len(Written)
  <2>1. file'.disk \in Seq(Records) /\ file'.pending = <<>> /\ file'.buffer = <<>>
        /\ file'.synced = Len(file'.disk)
    BY <1>2 DEF Tidy, Clean, File
  <2>2. file'.disk \o <<>> = file'.disk
    BY <2>1, ConcatEmptySeq
  <2>3. Content(file') = file'.disk
    BY <2>1, <2>2, Zenon DEF Content
  <2> QED
    BY <1>2, <1>3, <2>1, <2>3
<1>5. /\ Len(Written) <= Len(accepted) /\ Len(accepted) \in Nat
      /\ DOMAIN accepted = 1 .. Len(accepted)
      /\ \A i \in DOMAIN Written : Written[i] = accepted[i]
      /\ Placed(Len(Written), accepted, Waiting)
  BY <1>2, InOrderIsPlaced, LenProperties DEF InOrder, InOrderOfAcceptance, Typed
<1>6. SUFFICES ASSUME NEW k \in 1 .. emitted[r] PROVE <<r, k>> \in Durable'
  BY DEF EventsOf
<1>7. PICK i \in DOMAIN accepted : accepted[i] = <<r, k>>
  BY DEF AllRecorded, Recording
<1>8. CASE i \in 1 .. Len(Written)
  <2>1. Written[i] = <<r, k>>
    BY <1>3, <1>5, <1>7, <1>8
  <2> QED
    BY <1>4, <1>8, <2>1 DEF Durable
<1>9. CASE i \notin 1 .. Len(Written)
  <2> DEFINE n == Len(Written)
             l == Len(accepted)
  <2>1. i \in n + 1 .. l
    <3>1. n \in Nat /\ l \in Nat /\ i \in 1 .. l /\ i \notin 1 .. n
      BY <1>3, <1>5, <1>9
    <3> HIDE DEF n, l
    <3> QED
      BY <3>1
  <2>2. PICK place : Placing(n, accepted, Waiting, place)
    BY <1>5 DEF Placed
  <2>3. place[i] \in DOMAIN Waiting /\ IsAdd(Waiting[place[i]], <<r, k>>)
    BY <1>7, <2>1, <2>2 DEF Placing
  <2>4. place[i] \in AddsOf(r)
    BY <2>3 DEF AddsOf, IsAdd
  <2>5. place[i] < 1
    BY <1>1, <2>4 DEF BarrierInv, Behind
  <2>6. place[i] \in 1 .. Len(Waiting) /\ Len(Waiting) \in Nat
    BY <2>3, WaitingIsSeq
  <2> QED
    BY <2>5, <2>6
<1> QED
  BY <1>8, <1>9

(* A completion finds its events on the disk: kept.                        *)
LEMMA OnDiskStep ==
  ASSUME TrailInv, [RolloutNext]_rolloutVars
  PROVE  OnDisk'
<1>0. /\ Typed /\ AllRecorded /\ InOrder /\ BarrierInv /\ CallsInPlace /\ PublishedLast /\ OnDisk
  BY DEF TrailInv, BarrierInv
<1> SUFFICES ASSUME ~dropped', NEW r \in Runs, Completes(r)'
             PROVE  EventsOf(r)' \subseteq Durable'
  BY DEF OnDisk
<1>1. Durable \subseteq Durable' /\ ~dropped
  BY <1>0, DurableGrows
<1>2. ASSUME Completes(r), emitted'[r] = emitted[r] PROVE EventsOf(r)' \subseteq Durable'
  <2>1. EventsOf(r)' = EventsOf(r)
    BY <1>2 DEF EventsOf
  <2> QED
    BY <1>0, <1>1, <1>2, <2>1 DEF OnDisk
<1>3. CASE Idles(r)
  <2>1. pc[r] # "phases"
    BY <1>0, <1>3 DEF Idles, Completes, PublishedLast, Ended
  <2>2. Completes(r) /\ emitted'[r] = emitted[r]
    BY <1>3, <2>1 DEF Idles, Completes
  <2> QED
    BY <1>2, <2>2
<1>4. CASE Asks(r)
  <2>1. published[r] = "complete" /\ pc[r] = "ending"
    BY <1>0, <1>4 DEF Asks, Completes, PublishedLast, Ended
  <2> QED
    BY <1>2, <1>4, <2>1 DEF Asks, Completes
<1>5. CASE Leaves(r)
  <2>1. published'[r] = "complete"
    BY <1>5 DEF Leaves, Completes
  <2>2. Completes(r) /\ pc[r] # "phases"
    BY <1>0, <1>5, <2>1 DEF Leaves, Completes, PublishedLast, Ended
  <2> QED
    BY <1>2, <1>5, <2>2 DEF Leaves
<1>6. CASE Awaits(r)
  <2>1. /\ pc'[r] = pc[r] /\ published'[r] = published[r] /\ emitted'[r] = emitted[r]
        /\ r \in failure' <=> r \in failure
    BY <1>6 DEF Awaits
  <2>2. CASE Completes(r)
    BY <1>2, <2>1, <2>2
  <2>3. CASE ~Completes(r)
    <3>1. pc[r] = "complete" /\ ack'[r] = "ok" /\ r \notin failure /\ ack[r] # "ok"
      BY <2>1, <2>3 DEF Completes
    <3>2. r \in Callers /\ ack \in [Callers -> AckPlaces]
      BY <1>0 DEF Callers, Typed
    <3>3. Work
      BY <1>6, <3>1, <3>2 DEF Awaits, Put, SeesWriterEnd
    <3>4. command.kind \in {"flush", "shutdown"} /\ command.by = r
      BY <1>0, <3>1, <3>2, <3>3, WorkDoes
    <3>5. EventsOf(r) \subseteq Durable'
      BY <1>0, <3>1, <3>3, <3>4, FlushSays
    <3> QED
      BY <2>1, <3>5 DEF EventsOf
  <2> QED
    BY <2>2, <2>3
<1> QED
  BY <1>0, <1>3, <1>4, <1>5, <1>6, RunEffects

(* The invariant holds at first...                                         *)
LEMMA TrailInit == RolloutInit => TrailInv
<1> SUFFICES ASSUME RolloutInit PROVE TrailInv
  OBVIOUS
<1>1. Typed
  BY TypedInit
<1>2. /\ queue = <<>> /\ command = Nothing /\ accepted = <<>> /\ dropped = FALSE
      /\ file.disk = <<>> /\ file.buffer = <<>> /\ file.pending = <<>>
      /\ ack = [c \in Callers |-> "none"]
      /\ pc = [r \in Runs |-> "phases"] /\ emitted = [r \in Runs |-> 0]
      /\ published = [r \in Runs |-> "none"]
  BY DEF RolloutInit, RecorderInit
<1>3. Waiting = <<>> /\ DOMAIN Waiting = {}
  BY <1>2 DEF Waiting
<1>4. Written = <<>> /\ Len(Written) = 0
  BY <1>2 DEF Written
<1>5. Len(accepted) = 0 /\ DOMAIN accepted = {}
  BY <1>2
<1>6. AllRecorded
  <2>1. ASSUME NEW r \in Runs
        PROVE  /\ emitted[r] = Cardinality(Marks(r))
               /\ \A k \in 1 .. emitted[r] : \E i \in DOMAIN accepted : accepted[i] = <<r, k>>
    <3>1. Marks(r) = {} /\ emitted[r] = 0
      BY <1>2, <1>5 DEF Marks
    <3> QED
      BY <3>1, FS_EmptySet
  <2> QED
    BY <2>1 DEF AllRecorded
<1>7. NoGap
  BY <1>5 DEF NoGap
<1>8. InOrder
  <2>1. Placed(0, accepted, Waiting)
    <3> DEFINE q == [i \in 1 .. 0 |-> i]
    <3>1. Placing(0, accepted, Waiting, q)
      BY <1>3, <1>5 DEF Placing
    <3> QED
      BY <3>1 DEF Placed
  <2> QED
    BY <1>4, <1>5, <2>1, InOrderIsPlaced DEF InOrder, InOrderOfAcceptance
<1>9. BarrierInv
  <2>1. CallsInPlace
    BY <1>2 DEF CallsInPlace, Callers
  <2> QED
    BY <1>3, <2>1 DEF BarrierInv, HostShutsDown, OneFlush, Behind, FlushOf, AddsOf
<1>10. PublishedLast /\ OnDisk
  BY <1>2 DEF PublishedLast, OnDisk, Completes
<1> QED
  BY <1>1, <1>6, <1>7, <1>8, <1>9, <1>10 DEF TrailInv

(* ... and after every step.                                               *)
LEMMA TrailStep == TrailInv /\ [RolloutNext]_rolloutVars => TrailInv'
<1> SUFFICES ASSUME TrailInv, [RolloutNext]_rolloutVars PROVE TrailInv'
  OBVIOUS
<1>0. /\ Typed /\ AllRecorded /\ NoGap /\ InOrder /\ BarrierInv /\ PublishedLast
      /\ CallsInPlace /\ HostShutsDown
  BY DEF TrailInv, BarrierInv
<1>1. Typed'
  BY <1>0, TypedStep
<1>2. AllRecorded' /\ NoGap'
  BY <1>0, AllRecordedStep, NoGapStep
<1>3. InOrder'
  BY <1>0, <1>1, InOrderStep
<1>4. BarrierInv'
  BY <1>0, CallsInPlaceStep, HostShutsDownStep, OneFlushStep, BehindStep DEF BarrierInv
<1>5. PublishedLast' /\ OnDisk'
  BY <1>0, PublishedLastStep, OnDiskStep
<1> QED
  BY <1>1, <1>2, <1>3, <1>4, <1>5 DEF TrailInv

(* The inductive invariant of the runs and their recorder.                 *)
THEOREM TrailInvariant == RolloutSpec => []TrailInv
BY TrailInit, TrailStep, PTL DEF RolloutSpec

(* The type invariant of the recorder and its runs.  (RolloutRecorder)     *)
THEOREM RecorderTyped == RolloutSpec => []RolloutTypeOK
<1>1. TrailInv => RolloutTypeOK
  BY TypedIsTypeOK DEF TrailInv
<1> QED
  BY <1>1, TrailInvariant, PTL

(* However the operations of the writer fail, whoever gives up and whenever *)
(* the host shuts the recorder down, the trail has no gap and no duplicate *)
(* (unless a close() dropped lines).  (_record_event, _write_pending_once) *)
THEOREM TrailAlwaysIntact == RolloutSpec => []TrailIntact
<1>1. TrailInv => TrailIntact
  BY DEF TrailInv, InOrder, TrailIntact
<1> QED
  BY <1>1, TrailInvariant, PTL

(* A run whose completion is on the bus has all its events on the disk,    *)
(* unless a close() dropped lines.  (_emit_rollout_terminal, flush)        *)
THEOREM PublishedAlwaysDurable == RolloutSpec => []PublishedIsDurable
<1>1. TrailInv => PublishedIsDurable
  BY DEF TrailInv, OnDisk, Completes, PublishedIsDurable
<1> QED
  BY <1>1, TrailInvariant, PTL
=============================================================================
