------------------------- MODULE ToolDispatchProofs -------------------------
(***************************************************************************)
(* What ToolDispatch promises for any number of calls, any limits, and     *)
(* each of the four executors.                                             *)
(***************************************************************************)
EXTENDS ToolDispatch, FiniteSetTheorems, TLAPS

Unsafe == Calls \ Safe

(* A call whose result was looked at, or that is being run.                *)
Begins(c) == at[c] \notin {"waiting", "dead"}

(* The executors that look at the answers before they begin a call.        *)
Blockers(c) == IF executor = "sequential" THEN Earlier(c) ELSE Safe \cup Earlier(c)
Blockable(c) == executor = "sequential" \/ (executor = "partition" /\ ~safe[c])

TurnInv == \A c \in Calls : Blockable(c) /\ Begins(c) => Answered(Blockers(c))

(* The streaming executor: what its tasks, its queues and the barrier have *)
(* to do with each other.                                                  *)
Queued(c) == \/ \E i \in DOMAIN unsafeQueue : unsafeQueue[i] = c
             \/ \E i \in DOMAIN safeQueue : safeQueue[i] = c

Placed == /\ \A c \in Calls : at[c] \in InFlight => c \in tasks
          /\ \A c \in 1..added : at[c] \in Ended \/ c \in tasks \/ Queued(c)

UnsafeOver(c) == \A d \in Unsafe : d < c => at[d] \in Ended

AtWork == \A c \in tasks \cap Unsafe : at[c] \notin Ended =>
              barrier /\ tasks = {c} /\ UnsafeOver(c)

InOrder == \A c \in Unsafe : at[c] # "waiting" => UnsafeOver(c)

Queues == /\ unsafeQueue # <<>> => barrier /\ tasks # {}
          /\ \A i \in DOMAIN unsafeQueue : unsafeQueue[i] \in Unsafe \cap (1..added)
          /\ \A i, j \in DOMAIN unsafeQueue : i < j => unsafeQueue[i] < unsafeQueue[j]
          /\ \A i \in DOMAIN safeQueue : safeQueue[i] \in Safe

NoneStopped == stopping = {} /\ \A c \in Calls : at[c] # "dead"

StreamInv == Streaming => Placed /\ AtWork /\ InOrder /\ Queues /\ NoneStopped

(* A cancelled batch: whatever is at work is being cancelled, and what     *)
(* waits cannot begin, because something it waits for never answers.       *)
Hit(c) == c \in stopping \/ at[c] = "dead"

StopInv ==
    /\ \A c \in stopping : at[c] \notin Ended
    /\ (\E c \in Calls : Hit(c)) =>
          \A c \in Calls :
             /\ at[c] \in InFlight => c \in stopping
             /\ at[c] = "waiting" /\ c \notin stopping =>
                   Blockable(c) /\ \E d \in Blockers(c) : Hit(d)

(* What a batch that is over leaves.                                       *)
Left == IF Streaming THEN tasks = {} /\ safeQueue = <<>> /\ unsafeQueue = <<>>
                     ELSE Answered(Calls)

OverInv ==
    /\ batch = "returned" => Left
    /\ (batch = "raised" /\ ~Streaming /\ \A c \in Calls : at[c] # "raised") =>
          \A c \in Calls : /\ at[c] \notin InFlight
                           /\ at[c] = "waiting" => Blockable(c)
    /\ batch = "open" => Streaming

Inv == TypeOK /\ BudgetExact /\ TurnInv /\ StreamInv /\ StopInv /\ OverInv

-----------------------------------------------------------------------------
(* Facts about the helpers.                                                *)

LEMMA BusyFinite ==
    ASSUME TypeOK
    PROVE  IsFiniteSet(Busy) /\ Cardinality(Busy) \in Nat
<1>1. Busy \subseteq 1..N
  BY DEF Busy, Calls
<1>2. IsFiniteSet(1..N)
  BY BoundsAssumption, FS_Interval
<1> QED BY <1>1, <1>2, FS_Subset, FS_CardinalityType

(* What a call that may begin has behind it.                               *)
LEMMA TurnFacts ==
    ASSUME TypeOK, NEW c \in Calls, Turn(c)
    PROVE  /\ Blockable(c) => batch = "running" /\ Answered(Blockers(c))
           /\ Streaming => c \in tasks
<1>1. CASE executor = "sequential"
  BY <1>1 DEF Turn, Blockable, Blockers, Streaming
<1>2. CASE executor = "parallel"
  BY <1>2 DEF Turn, Blockable, Streaming
<1>3. CASE executor = "partition"
  BY <1>3 DEF Turn, Blockable, Blockers, Streaming
<1>4. CASE executor = "streaming"
  BY <1>4 DEF Turn, Blockable, Streaming
<1> QED BY <1>1, <1>2, <1>3, <1>4 DEF TypeOK, Executors

LEMMA InitInv == Init => Inv
<1> SUFFICES ASSUME Init PROVE Inv
  OBVIOUS
<1>1. \A c \in Calls : at[c] = "waiting"
  BY DEF Init
<1>2. TypeOK
  <2>1. executor \in Executors /\ safe \in [Calls -> BOOLEAN] /\ scoped \in BOOLEAN
    BY DEF Init
  <2>2. at \in [Calls -> {"waiting"} \cup InFlight \cup Ended]
    BY DEF Init
  <2>3. /\ active \in Nat /\ calls \in Nat /\ hostSays \in BOOLEAN
        /\ cancelled \in BOOLEAN /\ barrier \in BOOLEAN
    BY DEF Init
  <2>4. batch \in {"open", "running", "returned", "raised"} /\ added \in 0..N
    BY BoundsAssumption DEF Init
  <2>5. /\ tasks \subseteq Calls /\ stopping \subseteq Calls
        /\ safeQueue \in Seq(Calls) /\ unsafeQueue \in Seq(Calls)
    BY DEF Init
  <2> QED BY <2>1, <2>2, <2>3, <2>4, <2>5, Zenon DEF TypeOK
<1>3. BudgetExact
  <2>1. Busy = {}
    BY <1>1 DEF Busy, InFlight
  <2> QED BY <2>1, FS_EmptySet, BoundsAssumption DEF Init, BudgetExact
<1>4. TurnInv
  BY <1>1 DEF TurnInv, Begins
<1>5. StreamInv
  <2> SUFFICES ASSUME Streaming
               PROVE  Placed /\ AtWork /\ InOrder /\ Queues /\ NoneStopped
    BY DEF StreamInv
  <2>1. Placed
    BY <1>1, BoundsAssumption DEF Init, Placed, InFlight
  <2>2. AtWork /\ InOrder
    BY <1>1 DEF Init, AtWork, InOrder, Unsafe
  <2>3. Queues
    BY DEF Init, Queues
  <2>4. NoneStopped
    BY <1>1 DEF Init, NoneStopped
  <2> QED BY <2>1, <2>2, <2>3, <2>4
<1>6. StopInv
  BY <1>1 DEF Init, StopInv, Hit
<1>7. OverInv
  BY <1>1 DEF Init, OverInv, Left
<1> QED BY <1>2, <1>3, <1>4, <1>5, <1>6, <1>7 DEF Inv

-----------------------------------------------------------------------------
(* One call moves.                                                         *)

(* A step of a call that has not ended: it begins in its turn, dies only   *)
(* when it was cancelled, and takes the barrier down as `Ends' says.       *)
Moves(c, v) ==
    /\ at[c] \notin Ended
    /\ at' = [at EXCEPT ![c] = v]
    /\ UNCHANGED <<given, batch, online>>
    /\ IF c \in stopping THEN v = "dead" /\ stopping' = stopping \ {c}
                         ELSE v # "dead" /\ stopping' = stopping
    /\ barrier' = (barrier /\ ~(v \in Ended /\ Streaming /\ ~safe[c] /\ unsafeQueue = <<>>))
    /\ at[c] = "waiting" /\ c \notin stopping => Turn(c)

LEMMA MoveFacts ==
    ASSUME Inv, NEW c \in Calls, NEW v \in InFlight \cup Ended, Moves(c, v)
    PROVE  /\ \A d \in Calls : at'[d] = IF d = c THEN v ELSE at[d]
           /\ \A S \in SUBSET Calls : Answered(S) => Answered(S)'
           /\ \A d \in Calls : at[d] \in Ended => at'[d] = at[d]
           /\ \A d \in Calls : UnsafeOver(d) => UnsafeOver(d)'
           /\ Safe' = Safe /\ Unsafe' = Unsafe /\ Streaming' = Streaming
           /\ \A d \in Calls : /\ Blockable(d)' = Blockable(d)
                               /\ Blockers(d)' = Blockers(d)
                               /\ Blockers(d) \subseteq Calls
           /\ at[c] = "waiting" \/ at[c] \in InFlight
<1>1. \A d \in Calls : at'[d] = IF d = c THEN v ELSE at[d]
  BY DEF Moves, Inv, TypeOK
<1>2. at[c] = "waiting" \/ at[c] \in InFlight
  BY DEF Moves, Inv, TypeOK
<1>3. \A d \in Calls : at[d] \in Ended => at'[d] = at[d]
  BY <1>1 DEF Moves
<1>4. \A S \in SUBSET Calls : Answered(S) => Answered(S)'
  BY <1>3 DEF Answered, Ended
<1>5. Safe' = Safe /\ Unsafe' = Unsafe /\ Streaming' = Streaming
  BY DEF Moves, given, Safe, Unsafe, Streaming
<1>6. \A d \in Calls : UnsafeOver(d) => UnsafeOver(d)'
  BY <1>3, <1>5 DEF UnsafeOver, Unsafe
<1>7. \A d \in Calls : /\ Blockable(d)' = Blockable(d)
                       /\ Blockers(d)' = Blockers(d)
                       /\ Blockers(d) \subseteq Calls
  <2> TAKE d \in Calls
  <2>1. Blockable(d)' = Blockable(d) /\ Blockers(d)' = Blockers(d)
    BY <1>5 DEF Moves, given, Blockable, Blockers
  <2>2. Earlier(d) \subseteq Calls /\ Safe \subseteq Calls
    BY BoundsAssumption DEF Earlier, Calls, Safe
  <2> QED BY <2>1, <2>2 DEF Blockers
<1> QED BY <1>1, <1>2, <1>3, <1>4, <1>5, <1>6, <1>7

LEMMA MoveTurn ==
    ASSUME Inv, NEW c \in Calls, NEW v \in InFlight \cup Ended, Moves(c, v)
    PROVE  TurnInv'
<1> SUFFICES ASSUME NEW d \in Calls, Blockable(d)', Begins(d)'
             PROVE  Answered(Blockers(d))'
  BY DEF TurnInv
<1>1. Blockable(d) /\ Blockers(d)' = Blockers(d) /\ Blockers(d) \in SUBSET Calls
  BY MoveFacts
<1>2. Answered(Blockers(d))
  <2>1. CASE d = c /\ at[c] = "waiting"
    <3>1. c \notin stopping
      BY <2>1, MoveFacts DEF Begins, Moves
    <3> QED BY <3>1, <2>1, <1>1, TurnFacts DEF Moves, Inv
  <2>2. CASE ~(d = c /\ at[c] = "waiting")
    <3>1. Begins(d)
      BY <2>2, MoveFacts DEF Begins, Moves, Ended, InFlight
    <3> QED BY <3>1, <1>1 DEF Inv, TurnInv
  <2> QED BY <2>1, <2>2
<1>3. Answered(Blockers(d))' <=> \A e \in Blockers(d) : at'[e] = "answered"
  BY <1>1 DEF Answered
<1> QED BY <1>1, <1>2, <1>3, MoveFacts DEF Answered

LEMMA MoveStream ==
    ASSUME Inv, NEW c \in Calls, NEW v \in InFlight \cup Ended, Moves(c, v)
    PROVE  StreamInv'
<1> SUFFICES ASSUME Streaming
             PROVE  Placed' /\ AtWork' /\ InOrder' /\ Queues' /\ NoneStopped'
  BY MoveFacts DEF StreamInv
<1>s. Placed /\ AtWork /\ InOrder /\ Queues /\ NoneStopped
  BY DEF Inv, StreamInv
<1>v. v # "dead" /\ stopping' = {}
  BY <1>s DEF NoneStopped, Moves
<1>f. /\ tasks' = tasks /\ safeQueue' = safeQueue /\ unsafeQueue' = unsafeQueue
      /\ added' = added
  BY DEF Moves, online
<1>t. c \in tasks
  <2>1. CASE at[c] = "waiting"
    BY <2>1, <1>s, TurnFacts DEF Moves, Inv, NoneStopped
  <2>2. CASE at[c] \in InFlight
    BY <2>2, <1>s DEF Placed
  <2> QED BY <2>1, <2>2, MoveFacts
<1>1. Placed'
  <2>1. \A d \in Calls : at'[d] \in InFlight => d \in tasks
    BY <1>s, <1>t, MoveFacts DEF Placed
  <2>2. \A d \in 1..added : at'[d] \in Ended \/ d \in tasks \/ Queued(d)
    <3>1. 1..added \subseteq Calls
      BY BoundsAssumption DEF Inv, TypeOK, Calls
    <3> QED BY <3>1, <1>s, MoveFacts DEF Placed
  <2>3. \A d : Queued(d)' = Queued(d)
    BY <1>f DEF Queued
  <2> QED BY <2>1, <2>2, <2>3, <1>f DEF Placed
<1>2. AtWork'
  <2> SUFFICES ASSUME NEW d \in tasks \cap Unsafe, at'[d] \notin Ended
               PROVE  barrier' /\ tasks = {d} /\ UnsafeOver(d)'
    BY <1>f, MoveFacts DEF AtWork
  <2>1. at[d] \notin Ended /\ d \in Calls
    BY MoveFacts DEF Unsafe, Moves
  <2>2. barrier /\ tasks = {d} /\ UnsafeOver(d)
    BY <2>1, <1>s DEF AtWork
  <2>3. v \notin Ended
    <3>1. c = d
      BY <2>2, <1>t
    <3>2. at'[c] = v
      BY MoveFacts
    <3> QED BY <3>1, <3>2
  <2> QED BY <2>1, <2>2, <2>3, MoveFacts DEF Moves
<1>3. InOrder'
  <2> SUFFICES ASSUME NEW d \in Unsafe, at'[d] # "waiting"
               PROVE  UnsafeOver(d)'
    BY MoveFacts DEF InOrder
  <2>1. CASE d = c /\ at[c] = "waiting"
    <3>1. UnsafeOver(c)
      BY <2>1, <1>s, <1>t DEF AtWork, Ended
    <3> QED BY <3>1, <2>1, MoveFacts
  <2>2. CASE ~(d = c /\ at[c] = "waiting")
    <3>1. at[d] # "waiting" /\ d \in Calls
      BY <2>2, MoveFacts DEF Unsafe
    <3>2. UnsafeOver(d)
      BY <3>1, <1>s DEF InOrder
    <3> QED BY <3>1, <3>2, MoveFacts
  <2> QED BY <2>1, <2>2
<1>4. Queues'
  <2>1. unsafeQueue # <<>> => barrier'
    BY <1>s DEF Queues, Moves
  <2> QED BY <2>1, <1>s, <1>f, MoveFacts DEF Queues
<1>5. NoneStopped'
  BY <1>s, <1>v, MoveFacts DEF NoneStopped
<1> QED BY <1>1, <1>2, <1>3, <1>4, <1>5

LEMMA MoveStop ==
    ASSUME Inv, NEW c \in Calls, NEW v \in InFlight \cup Ended, Moves(c, v)
    PROVE  StopInv'
<1>1. \A d \in stopping' : at'[d] \notin Ended
  <2> TAKE d \in stopping'
  <2>1. d \in stopping /\ d # c /\ d \in Calls
    BY DEF Moves, Inv, TypeOK
  <2> QED BY <2>1, MoveFacts DEF Inv, StopInv
<1> SUFFICES ASSUME NEW h \in Calls, Hit(h)', NEW d \in Calls
             PROVE  /\ at'[d] \in InFlight => d \in stopping'
                    /\ at'[d] = "waiting" /\ d \notin stopping' =>
                          Blockable(d)' /\ (\E e \in Blockers(d) : Hit(e))'
  BY <1>1 DEF StopInv
<1>2. Hit(h)
  BY MoveFacts DEF Hit, Moves
<1>3. \A e \in Calls : Hit(e) => Hit(e)'
  <2> TAKE e \in Calls
  <2>1. at[e] = "dead" => at'[e] = "dead"
    BY MoveFacts DEF Ended
  <2>2. e \in stopping => e \in stopping' \/ at'[e] = "dead"
    <3>1. CASE e = c
      <4>1. at'[e] = v
        BY <3>1, MoveFacts
      <4>2. c \in stopping => v = "dead"
        BY DEF Moves
      <4> QED BY <3>1, <4>1, <4>2
    <3>2. CASE e # c
      BY <3>2 DEF Moves
    <3> QED BY <3>1, <3>2
  <2> QED BY <2>1, <2>2 DEF Hit
<1>4. \A e \in Calls : /\ at[e] \in InFlight => e \in stopping
                       /\ at[e] = "waiting" /\ e \notin stopping =>
                             Blockable(e) /\ \E g \in Blockers(e) : Hit(g)
  BY <1>2 DEF Inv, StopInv
<1>5. c \in stopping
  <2> SUFFICES ASSUME c \notin stopping PROVE FALSE
    OBVIOUS
  <2>1. at[c] = "waiting" /\ Blockable(c) /\ Turn(c)
    BY <1>4, MoveFacts DEF Moves
  <2>2. PICK g \in Blockers(c) : Hit(g)
    BY <2>1, <1>4
  <2>3. Answered(Blockers(c))
    BY <2>1, TurnFacts DEF Inv
  <2> QED BY <2>2, <2>3 DEF Answered, Hit, Inv, StopInv, Ended
<1>6. v = "dead" /\ stopping' = stopping \ {c}
  BY <1>5 DEF Moves
<1>7. CASE d = c
  BY <1>6, <1>7, MoveFacts DEF InFlight
<1>8. CASE d # c
  <2>1. at'[d] = at[d] /\ (d \in stopping' <=> d \in stopping)
    BY <1>6, <1>8, MoveFacts
  <2>2. /\ Blockable(d)' = Blockable(d) /\ Blockers(d)' = Blockers(d)
        /\ Blockers(d) \subseteq Calls
    BY MoveFacts
  <2> QED BY <2>1, <2>2, <1>3, <1>4
<1> QED BY <1>7, <1>8

LEMMA MoveOver ==
    ASSUME Inv, NEW c \in Calls, NEW v \in InFlight \cup Ended, Moves(c, v)
    PROVE  OverInv'
<1>1. batch' = "returned" => Left'
  <2>1. batch' = "returned" => Left
    BY DEF Inv, OverInv, Moves
  <2>2. Answered(Calls) => \A d \in Calls : at'[d] = "answered"
    BY MoveFacts DEF Answered
  <2>3. Calls' = Calls /\ Streaming' = Streaming
    BY MoveFacts DEF Calls
  <2>4. /\ tasks' = tasks /\ safeQueue' = safeQueue /\ unsafeQueue' = unsafeQueue
    BY DEF Moves, online
  <2>5. CASE Streaming
    BY <2>1, <2>3, <2>4, <2>5 DEF Left
  <2>6. CASE ~Streaming
    <3>1. Left' <=> \A d \in Calls : at'[d] = "answered"
      BY <2>3, <2>6 DEF Left, Answered
    <3> QED BY <3>1, <2>1, <2>2, <2>6 DEF Left
  <2> QED BY <2>5, <2>6
<1>2. ASSUME batch' = "raised", ~Streaming', \A d \in Calls : at'[d] # "raised",
             NEW d \in Calls
      PROVE  at'[d] \notin InFlight /\ (at'[d] = "waiting" => Blockable(d)')
  <2>1. batch = "raised" /\ ~Streaming /\ \A e \in Calls : at[e] # "raised"
    BY <1>2, MoveFacts DEF Moves, Ended
  <2>2. \A e \in Calls : at[e] \notin InFlight /\ (at[e] = "waiting" => Blockable(e))
    BY <2>1 DEF Inv, OverInv
  <2>3. c \in stopping
    <3>1. at[c] = "waiting" /\ Blockable(c)
      BY <2>2, MoveFacts
    <3> QED BY <3>1, <2>1, TurnFacts DEF Moves, Inv
  <2>4. v = "dead"
    BY <2>3 DEF Moves
  <2> QED BY <2>2, <2>4, MoveFacts DEF InFlight
<1>3. batch' = "open" => Streaming'
  BY MoveFacts DEF Inv, OverInv, Moves
<1> QED BY <1>1, <1>2, <1>3 DEF OverInv

LEMMA MoveOrders ==
    ASSUME Inv, NEW c \in Calls, NEW v \in InFlight \cup Ended, Moves(c, v)
    PROVE  TurnInv' /\ StreamInv' /\ StopInv' /\ OverInv'
BY MoveTurn, MoveStream, MoveStop, MoveOver

(* Types of a step of one call, whose other variables are typed by it.     *)
LEMMA MoveTypes ==
    ASSUME Inv, NEW c \in Calls, NEW v \in InFlight \cup Ended, Moves(c, v),
           active' \in Nat, calls' \in Nat, cancelled' \in BOOLEAN,
           hostSays' = hostSays
    PROVE  TypeOK'
<1>1. at' \in [Calls -> {"waiting"} \cup InFlight \cup Ended]
  BY DEF Moves, Inv, TypeOK
<1>2. /\ executor' \in Executors /\ safe' \in [Calls -> BOOLEAN] /\ scoped' \in BOOLEAN
      /\ hostSays' \in BOOLEAN
      /\ batch' \in {"open", "running", "returned", "raised"} /\ added' \in 0..N
      /\ tasks' \subseteq Calls
      /\ safeQueue' \in Seq(Calls) /\ unsafeQueue' \in Seq(Calls)
  BY DEF Moves, given, online, Inv, TypeOK
<1>3. stopping' \subseteq Calls
  BY DEF Moves, Inv, TypeOK
<1>4. barrier' \in BOOLEAN
  BY Zenon DEF Moves
<1> QED BY <1>1, <1>2, <1>3, <1>4, Zenon DEF TypeOK

(* The calls in flight and the budget.                                     *)
LEMMA MoveBusy ==
    ASSUME Inv, NEW c \in Calls, NEW v \in InFlight \cup Ended, Moves(c, v)
    PROVE  /\ c \in Busy <=> at[c] \in InFlight
           /\ Busy' = IF v \in InFlight THEN Busy \cup {c} ELSE Busy \ {c}
           /\ Cardinality(Busy \cup {c}) =
                IF c \in Busy THEN Cardinality(Busy) ELSE Cardinality(Busy) + 1
           /\ Cardinality(Busy \ {c}) =
                IF c \in Busy THEN Cardinality(Busy) - 1 ELSE Cardinality(Busy)
<1>1. c \in Busy <=> at[c] \in InFlight
  BY DEF Busy
<1>2. v \in Ended => v \notin InFlight
  BY DEF Ended, InFlight
<1>3. Busy' = IF v \in InFlight THEN Busy \cup {c} ELSE Busy \ {c}
  <2>1. Busy' = {d \in Calls : at'[d] \in InFlight}
    BY DEF Busy
  <2> QED BY <2>1, MoveFacts DEF Busy
<1>4. IsFiniteSet(Busy) /\ Cardinality(Busy) \in Nat
  BY BusyFinite DEF Inv
<1>5. CASE c \in Busy
  <2>1. Busy \cup {c} = Busy
    BY <1>5
  <2> QED BY <2>1, <1>1, <1>3, <1>4, <1>5, FS_RemoveElement
<1>6. CASE c \notin Busy
  <2>1. Busy \ {c} = Busy
    BY <1>6
  <2> QED BY <2>1, <1>1, <1>3, <1>4, <1>6, FS_AddElement
<1> QED BY <1>5, <1>6

LEMMA CheckTypes ==
    ASSUME Inv PROVE (Stopped \in BOOLEAN) /\ (CheckSees => cancelled' \in BOOLEAN)
BY Zenon DEF Inv, TypeOK, Stopped, CheckSees

(* `Ends' and the barrier.                                                 *)
LEMMA EndsMoves ==
    ASSUME Inv, NEW c \in Calls, NEW v \in Ended, Ends(c, v), at[c] \notin Ended,
           UNCHANGED <<given, batch, online>>,
           IF c \in stopping THEN v = "dead" /\ stopping' = stopping \ {c}
                             ELSE v # "dead" /\ stopping' = stopping,
           at[c] = "waiting" /\ c \notin stopping => Turn(c)
    PROVE  Moves(c, v)
BY DEF Ends, Moves

LEMMA OnMoves ==
    ASSUME Inv, NEW c \in Calls, NEW v \in InFlight, at[c] \notin Ended,
           at' = [at EXCEPT ![c] = v], c \notin stopping,
           at[c] = "waiting" => Turn(c),
           UNCHANGED <<given, batch, online, barrier, stopping>>
    PROVE  Moves(c, v)
<1>1. v \notin Ended /\ v # "dead"
  BY DEF InFlight, Ended
<1>2. barrier' = (barrier /\ ~(v \in Ended /\ Streaming /\ ~safe[c] /\ unsafeQueue = <<>>))
  BY <1>1 DEF Inv, TypeOK
<1> QED BY <1>1, <1>2 DEF Moves

-----------------------------------------------------------------------------
(* The actions of a call.                                                  *)

LEMMA InvBegin ==
    ASSUME Inv, NEW c \in Calls, Begin(c)
    PROVE  Inv'
<1>a. /\ at[c] = "waiting" /\ c \notin stopping /\ Turn(c) /\ at[c] \notin Ended
      /\ UNCHANGED <<given, batch, online, stopping, hostSays>> /\ CheckSees
  BY DEF Begin, Ended
<1>b. at[c] \notin InFlight
  BY <1>a DEF InFlight
<1>c. /\ active \in Nat /\ calls \in Nat /\ cancelled' \in BOOLEAN
      /\ active = Cardinality(Busy) /\ active <= MaxActive /\ calls <= MaxCalls
  BY <1>a, CheckTypes DEF Inv, TypeOK, BudgetExact
<1>1. ASSUME NEW v \in {"raised", "answered"}, Ends(c, v), UNCHANGED budget
      PROVE  Inv'
  <2>1. v \in Ended /\ v \notin InFlight /\ v # "dead"
    BY DEF Ended, InFlight
  <2>2. Moves(c, v)
    BY <2>1, <1>1, <1>a, EndsMoves
  <2>3. TypeOK'
    BY <2>1, <2>2, <1>1, <1>a, <1>c, MoveTypes DEF budget
  <2>4. BudgetExact'
    BY <2>1, <2>2, <1>1, <1>b, <1>c, MoveBusy DEF budget, BudgetExact
  <2> QED BY <2>1, <2>2, <2>3, <2>4, MoveOrders DEF Inv
<1>2. ASSUME calls < MaxCalls, active < MaxActive, active' = active + 1,
             calls' = calls + 1, at' = [at EXCEPT ![c] = "asking"], UNCHANGED barrier
      PROVE  Inv'
  <2>1. "asking" \in InFlight
    BY DEF InFlight
  <2>2. Moves(c, "asking")
    BY <2>1, <1>2, <1>a, OnMoves
  <2>3. TypeOK'
    BY <2>1, <2>2, <1>2, <1>a, <1>c, MoveTypes
  <2>4. BudgetExact'
    <3>1. MaxActive \in Nat /\ MaxCalls \in Nat
      BY BoundsAssumption
    <3>2. Busy' = Busy \cup {c} /\ Cardinality(Busy \cup {c}) = active + 1
      BY <2>1, <2>2, <1>b, <1>c, MoveBusy
    <3>3. active + 1 <= MaxActive /\ calls + 1 <= MaxCalls
      BY <3>1, <1>2, <1>c
    <3> QED BY <3>2, <3>3, <1>2 DEF BudgetExact
  <2> QED BY <2>1, <2>2, <2>3, <2>4, MoveOrders DEF Inv
<1> QED BY <1>1, <1>2 DEF Begin

(* A call in flight goes on: nothing is counted.                           *)
LEMMA InvGoesOn ==
    ASSUME Inv, NEW c \in Calls, Execute(c) \/ ToolReturns(c) \/ ToolFails(c) \/ ToolStopped(c)
    PROVE  Inv'
<1>1. PICK v \in InFlight : at' = [at EXCEPT ![c] = v]
  BY DEF Execute, ToolReturns, ToolFails, ToolStopped, InFlight
<1>2. /\ at[c] \in InFlight /\ at[c] \notin Ended /\ at[c] # "waiting" /\ c \notin stopping
      /\ UNCHANGED <<given, batch, online, barrier, stopping, budget, hostSays>>
  BY DEF Execute, ToolReturns, ToolFails, ToolStopped, InFlight, Ended, scope
<1>3. cancelled' \in BOOLEAN
  <2>1. cancelled \in BOOLEAN /\ scoped \in BOOLEAN
    BY DEF Inv, TypeOK
  <2>2. cancelled' = cancelled \/ cancelled' = (cancelled \/ scoped) \/ cancelled' = TRUE
    BY DEF Execute, ToolReturns, ToolFails, ToolStopped, scope
  <2> QED BY <2>1, <2>2, Zenon
<1>4. Moves(c, v)
  BY <1>1, <1>2, OnMoves
<1>5. TypeOK'
  BY <1>2, <1>3, <1>4, MoveTypes DEF budget, Inv, TypeOK
<1>6. BudgetExact'
  <2>1. c \in Busy /\ Busy' = Busy \cup {c}
    BY <1>2, <1>4, MoveBusy
  <2>2. Busy' = Busy
    BY <2>1
  <2> QED BY <2>2, <1>2 DEF Inv, BudgetExact, budget
<1> QED BY <1>4, <1>5, <1>6, MoveOrders DEF Inv

(* A call in flight ends and gives its place back.                         *)
LEMMA InvReleases ==
    ASSUME Inv, NEW c \in Calls, NEW v \in Ended, Moves(c, v), at[c] \in InFlight,
           Release, cancelled' \in BOOLEAN, hostSays' = hostSays
    PROVE  Inv'
<1>1. active = Cardinality(Busy) /\ active <= MaxActive /\ calls <= MaxCalls
  BY DEF Inv, BudgetExact
<1>2. v \notin InFlight
  BY DEF InFlight, Ended
<1>3. Busy' = Busy \ {c} /\ Cardinality(Busy \ {c}) = Cardinality(Busy) - 1
  BY <1>2, MoveBusy
<1>4. Cardinality(Busy \ {c}) \in Nat
  <2>1. IsFiniteSet(Busy \ {c})
    BY BusyFinite, FS_Subset DEF Inv
  <2> QED BY <2>1, FS_CardinalityType
<1>5. active' \in Nat /\ calls' \in Nat
  BY <1>1, <1>3, <1>4 DEF Release, Inv, TypeOK
<1>6. TypeOK'
  BY <1>5, MoveTypes
<1>7. BudgetExact'
  BY <1>1, <1>3, <1>5, BoundsAssumption DEF Release, BudgetExact, Inv, TypeOK
<1> QED BY <1>6, <1>7, MoveOrders DEF Inv

LEMMA InvAnswers ==
    ASSUME Inv, NEW c \in Calls, Refused(c) \/ Finish(c)
    PROVE  Inv'
<1>1. PICK v \in {"raised", "answered"} : Ends(c, v)
  BY DEF Refused, Finish, Answers
<1>2. /\ at[c] \in InFlight /\ at[c] \notin Ended /\ at[c] # "waiting" /\ c \notin stopping
      /\ UNCHANGED <<given, batch, online, stopping, hostSays>> /\ Release /\ CheckSees
  BY DEF Refused, Finish, InFlight, Ended
<1>3. v \in Ended /\ v # "dead"
  BY DEF Ended
<1>4. Moves(c, v)
  BY <1>1, <1>2, <1>3, EndsMoves
<1> QED BY <1>2, <1>3, <1>4, CheckTypes, InvReleases

LEMMA InvCancelled ==
    ASSUME Inv, NEW c \in Calls, Cancelled(c)
    PROVE  Inv'
<1>1. /\ at[c] \in {"waiting"} \cup InFlight /\ at[c] \notin Ended /\ c \in stopping
      /\ stopping' = stopping \ {c} /\ Ends(c, "dead") /\ "dead" \in Ended
      /\ UNCHANGED <<given, hostSays, batch, online>>
  BY DEF Cancelled, Ended, InFlight
<1>2. cancelled' \in BOOLEAN
  <2>1. cancelled' = (cancelled \/ (scoped /\ at[c] = "running"))
    BY DEF Cancelled
  <2> QED BY <2>1, Zenon
<1>3. Moves(c, "dead")
  BY <1>1, EndsMoves
<1>4. CASE at[c] = "waiting"
  <2>1. UNCHANGED budget
    BY <1>4 DEF Cancelled
  <2>2. "dead" \notin InFlight /\ at[c] \notin InFlight
    BY <1>4 DEF InFlight
  <2>3. TypeOK'
    BY <2>1, <1>1, <1>2, <1>3, MoveTypes DEF budget, Inv, TypeOK
  <2>4. Busy' = Busy
    BY <2>2, <1>1, <1>3, MoveBusy
  <2>5. BudgetExact'
    BY <2>1, <2>4 DEF budget, Inv, BudgetExact
  <2> QED BY <2>3, <2>5, <1>1, <1>3, MoveOrders DEF Inv
<1>5. CASE at[c] # "waiting"
  <2>1. at[c] \in InFlight /\ Release
    BY <1>1, <1>5 DEF Cancelled
  <2> QED BY <2>1, <1>1, <1>2, <1>3, InvReleases
<1> QED BY <1>4, <1>5

LEMMA InvCall ==
    ASSUME Inv, NEW c \in Calls, CallStep(c)
    PROVE  Inv'
BY InvBegin, InvGoesOn, InvAnswers, InvCancelled DEF CallStep

-----------------------------------------------------------------------------
(* The actions of the batch: no call moves.                                *)

LEMMA StandStill ==
    ASSUME Inv, UNCHANGED <<given, at, budget>>
    PROVE  BudgetExact' /\ TurnInv'
<1>1. Busy' = Busy
  BY DEF Busy
<1>2. BudgetExact'
  BY <1>1 DEF Inv, BudgetExact, budget
<1>3. TurnInv'
  BY DEF Inv, TurnInv, Blockable, Blockers, Begins, Answered, Safe, Earlier, given
<1> QED BY <1>2, <1>3

LEMMA StreamKept ==
    ASSUME Inv, UNCHANGED <<given, at, online, barrier, stopping>>
    PROVE  StreamInv' /\ (Left <=> Left')
BY DEF Inv, StreamInv, Streaming, Placed, Queued, AtWork, UnsafeOver, Unsafe, Safe, InOrder,
       Queues, NoneStopped, Left, Answered, given, online

LEMMA StopKept ==
    ASSUME Inv, UNCHANGED <<given, at, stopping>>
    PROVE  StopInv'
BY DEF Inv, StopInv, Hit, Blockable, Blockers, Safe, Earlier, given

LEMMA TypesKept ==
    ASSUME Inv, UNCHANGED <<given, at, budget, cancelled, online, barrier>>,
           batch' \in {"open", "running", "returned", "raised"},
           hostSays' \in BOOLEAN, stopping' \subseteq Calls
    PROVE  TypeOK'
<1>1. /\ executor' \in Executors /\ safe' \in [Calls -> BOOLEAN] /\ scoped' \in BOOLEAN
      /\ at' \in [Calls -> {"waiting"} \cup InFlight \cup Ended]
      /\ active' \in Nat /\ calls' \in Nat
  BY DEF Inv, TypeOK, given, budget
<1>2. /\ cancelled' \in BOOLEAN /\ added' \in 0..N /\ tasks' \subseteq Calls
      /\ safeQueue' \in Seq(Calls) /\ unsafeQueue' \in Seq(Calls) /\ barrier' \in BOOLEAN
  BY DEF Inv, TypeOK, online
<1> QED BY <1>1, <1>2, Zenon DEF TypeOK

LEMMA InvHostStops == ASSUME Inv, HostStops PROVE Inv'
<1>1. OverInv'
  BY StreamKept DEF HostStops, Inv, OverInv, Streaming, Blockable, given
<1>2. TypeOK'
  BY TypesKept DEF HostStops, Inv, TypeOK
<1> QED BY <1>1, <1>2, StandStill, StreamKept, StopKept DEF HostStops, Inv

LEMMA InvDrain == ASSUME Inv, Drain PROVE Inv'
<1>1. batch' = "running"
  BY DEF Drain
<1>2. OverInv'
  BY <1>1 DEF OverInv
<1>3. TypeOK'
  BY <1>1, TypesKept DEF Drain, scope, Inv, TypeOK
<1> QED BY <1>2, <1>3, StandStill, StreamKept, StopKept DEF Drain, Inv

LEMMA InvReturns == ASSUME Inv, BatchReturns PROVE Inv'
<1>1. batch' = "returned"
  BY DEF BatchReturns
<1>2. Left
  BY DEF BatchReturns, Left
<1>3. OverInv'
  BY <1>1, <1>2, StreamKept DEF OverInv, BatchReturns
<1>4. TypeOK'
  BY <1>1, TypesKept DEF BatchReturns, scope, Inv, TypeOK
<1> QED BY <1>3, <1>4, StandStill, StreamKept, StopKept DEF BatchReturns, Inv

LEMMA InvRaises == ASSUME Inv, BatchRaises PROVE Inv'
<1>1. batch' = "raised"
  BY DEF BatchRaises
<1>2. OverInv'
  <2> SUFFICES ASSUME \A c \in Calls : at[c] # "raised", NEW c \in Calls
               PROVE  at[c] \notin InFlight /\ (at[c] = "waiting" => Blockable(c))
    BY <1>1 DEF OverInv, BatchRaises, Blockable, given
  <2>1. stopping = {} /\ \E d \in Calls : Hit(d)
    BY DEF BatchRaises, Hit
  <2> QED BY <2>1 DEF Inv, StopInv
<1>3. TypeOK'
  BY <1>1, TypesKept DEF BatchRaises, scope, Inv, TypeOK
<1> QED BY <1>2, <1>3, StandStill, StreamKept, StopKept DEF BatchRaises, Inv

(* The host cancels the run: what was made is hit, and what was not waits  *)
(* for something that is.                                                  *)
LEMMA InvHostCancels == ASSUME Inv, HostCancels PROVE Inv'
<1>f. /\ UNCHANGED <<given, at, budget, cancelled, online, barrier, hostSays>>
      /\ batch \in {"open", "running"} /\ stopping = {}
      /\ \A c \in Calls : at[c] # "dead"
  BY DEF HostCancels, scope
<1>m. Made \subseteq Calls
  BY DEF Made, Begun
<1>1. CASE Streaming \/ Made = {}
  <2>1. batch' = "raised" /\ UNCHANGED stopping
    BY <1>1 DEF HostCancels
  <2>2. OverInv'
    <3> SUFFICES ASSUME ~Streaming, NEW c \in Calls
                 PROVE  at[c] \notin InFlight /\ (at[c] = "waiting" => Blockable(c))
      BY <2>1, <1>f DEF OverInv, Streaming, Blockable, given
    <3>1. c \notin Made
      BY <1>1
    <3>2. executor \in {"sequential", "parallel", "partition"}
      BY DEF Streaming, Inv, TypeOK, Executors
    <3> QED BY <3>1, <3>2 DEF Made, Begun, Blockable, InFlight, Ended
  <2>3. TypeOK'
    BY <2>1, <1>f, TypesKept DEF Inv, TypeOK
  <2> QED BY <1>f, <2>1, <2>2, <2>3, StandStill, StreamKept, StopKept DEF Inv
<1>2. CASE ~Streaming /\ Made # {}
  <2>1. stopping' = Made /\ UNCHANGED batch
    BY <1>2 DEF HostCancels
  <2>2. executor \in {"sequential", "parallel", "partition"}
    BY <1>2 DEF Streaming, Inv, TypeOK, Executors
  <2>3. \A c \in Made : at[c] \notin Ended
    BY DEF Made, Begun, InFlight, Ended
  <2>4. \A c \in Calls : at[c] \in InFlight => c \in Made
    BY <2>2 DEF Made, Begun, InFlight, Ended
  <2>5. ASSUME NEW c \in Calls, at[c] = "waiting", c \notin Made
        PROVE  Blockable(c) /\ \E d \in Blockers(c) : d \in Made
    <3>1. Blockable(c) /\ (executor = "sequential" \/ c \in Unsafe)
      BY <2>2, <2>5 DEF Blockable, Made, Begun, Ended, Unsafe, Safe
    <3>2. PICK d \in Made : TRUE
      BY <1>2
    <3>3. d \in Calls /\ d # c
      BY <1>m, <2>5
    <3>4. CASE d \in Blockers(c)
      BY <3>1, <3>4
    <3>5. CASE d \notin Blockers(c)
      <4>1. ~(d < c)
        BY <3>3, <3>5, BoundsAssumption DEF Blockers, Earlier, Calls
      <4>2. c < d
        BY <4>1, <3>3, BoundsAssumption DEF Calls
      <4>3. at[d] \in InFlight /\ Blockable(d)
        BY <2>2, <3>1, <3>2, <3>3, <3>5 DEF Made, Begun, Blockable, Blockers, Safe
      <4>4. Answered(Blockers(d))
        BY <4>3, <3>3 DEF Inv, TurnInv, Begins, InFlight
      <4>5. c \in Blockers(d)
        BY <4>2, <3>3, BoundsAssumption DEF Blockers, Earlier, Calls
      <4> QED BY <4>4, <4>5, <2>5 DEF Answered
    <3> QED BY <3>4, <3>5
  <2>6. StopInv'
    <3>1. \A c \in Calls : /\ Blockable(c)' = Blockable(c) /\ Blockers(c)' = Blockers(c)
                           /\ Blockers(c) \subseteq Calls
      BY <1>f, BoundsAssumption DEF Blockable, Blockers, Safe, Earlier, given, Calls
    <3>2. \A c \in Made : Hit(c)'
      BY <2>1 DEF Hit
    <3>3. \A c \in stopping' : at'[c] \notin Ended
      BY <1>f, <2>1, <2>3
    <3>4. \A c \in Calls :
             /\ at'[c] \in InFlight => c \in stopping'
             /\ at'[c] = "waiting" /\ c \notin stopping' =>
                   Blockable(c)' /\ (\E d \in Blockers(c) : Hit(d))'
      BY <1>f, <2>1, <2>4, <2>5, <3>1, <3>2
    <3> QED BY <3>3, <3>4 DEF StopInv
  <2>7. OverInv'
    BY <1>f, <1>2, <2>1 DEF OverInv, Inv, Streaming, given
  <2>8. StreamInv'
    BY <1>2, <1>f DEF StreamInv, Streaming, given
  <2>9. TypeOK'
    BY <1>f, <1>m, <2>1, TypesKept DEF Inv, TypeOK
  <2> QED BY <1>f, <2>6, <2>7, <2>8, <2>9, StandStill DEF Inv
<1> QED BY <1>1, <1>2

-----------------------------------------------------------------------------
(* The queues of the streaming executor.                                   *)

LEMMA Appended ==
    ASSUME NEW q \in Seq(Calls), NEW c \in Calls
    PROVE  /\ Append(q, c) \in Seq(Calls) /\ Append(q, c) # <<>>
           /\ DOMAIN q = 1..Len(q) /\ Len(q) \in Nat
           /\ DOMAIN Append(q, c) = 1..(Len(q) + 1)
           /\ Append(q, c)[Len(q) + 1] = c
           /\ \A i \in DOMAIN q : i \in DOMAIN Append(q, c) /\ Append(q, c)[i] = q[i]
OBVIOUS

LEMMA Shifted ==
    ASSUME NEW q \in Seq(Calls), q # <<>>
    PROVE  /\ Head(q) \in Calls /\ Tail(q) \in Seq(Calls)
           /\ DOMAIN q = 1..Len(q) /\ Len(q) \in Nat \ {0}
           /\ 1 \in DOMAIN q /\ Head(q) = q[1]
           /\ DOMAIN Tail(q) = 1..(Len(q) - 1)
           /\ \A i \in DOMAIN Tail(q) : i + 1 \in DOMAIN q /\ Tail(q)[i] = q[i + 1]
OBVIOUS

(* What of a step of the queues does not depend on how it moves them.      *)
LEMMA QueueSteps ==
    ASSUME Inv, Streaming, UNCHANGED <<given, at, budget, scope, batch, stopping>>,
           batch # "returned",
           added' \in 0..N, tasks' \subseteq Calls, barrier' \in BOOLEAN,
           safeQueue' \in Seq(Calls), unsafeQueue' \in Seq(Calls),
           Placed', AtWork', Queues'
    PROVE  Inv'
<1>1. TypeOK'
  <2>1. /\ executor' \in Executors /\ safe' \in [Calls -> BOOLEAN] /\ scoped' \in BOOLEAN
        /\ at' \in [Calls -> {"waiting"} \cup InFlight \cup Ended]
        /\ active' \in Nat /\ calls' \in Nat
    BY DEF Inv, TypeOK, given, budget
  <2>2. /\ hostSays' \in BOOLEAN /\ cancelled' \in BOOLEAN /\ stopping' \subseteq Calls
        /\ batch' \in {"open", "running", "returned", "raised"}
    BY DEF Inv, TypeOK, scope
  <2> QED BY <2>1, <2>2, Zenon DEF TypeOK
<1>2. InOrder' /\ NoneStopped'
  BY DEF Inv, StreamInv, InOrder, NoneStopped, Unsafe, UnsafeOver, Safe, given
<1>3. StreamInv'
  BY <1>2 DEF StreamInv
<1>4. OverInv'
  BY DEF OverInv, Inv, Streaming, given
<1> QED BY <1>1, <1>3, <1>4, StandStill, StopKept DEF Inv

LEMMA InvAdd == ASSUME Inv, Add PROVE Inv'
<1>m. PICK n \in Nat : n = added + 1
  BY DEF Inv, TypeOK
<1>f. /\ Streaming /\ batch = "open" /\ added < N /\ added' = n
      /\ UNCHANGED <<given, at, budget, scope, batch, stopping>>
  BY <1>m DEF Add, Inv, OverInv
<1>s. Placed /\ AtWork /\ InOrder /\ Queues
  BY <1>f DEF Inv, StreamInv
<1>n. /\ n \in Calls /\ n \in 0..N /\ added \in Nat /\ 1..n = (1..added) \cup {n}
      /\ \A c \in Calls : c < n => c \in 1..added
  BY <1>m, <1>f, BoundsAssumption DEF Inv, TypeOK, Calls
<1>q. safeQueue \in Seq(Calls) /\ unsafeQueue \in Seq(Calls) /\ tasks \subseteq Calls
  BY DEF Inv, TypeOK
<1>u. Unsafe' = Unsafe /\ Safe' = Safe /\ (n \in Unsafe <=> ~safe[n])
  BY <1>f, <1>n DEF Unsafe, Safe, given
<1>0. \A c : UnsafeOver(c)' = UnsafeOver(c)
  BY <1>f, <1>u DEF UnsafeOver
<1>1. CASE safe[n] /\ barrier
  <2>1. /\ safeQueue' = Append(safeQueue, n)
        /\ tasks' = tasks /\ unsafeQueue' = unsafeQueue /\ barrier' = barrier
    BY <1>1, <1>m DEF Add
  <2>2. \A c \in Calls : (Queued(c) => Queued(c)') /\ Queued(n)'
    BY <2>1, <1>q, <1>n, Appended DEF Queued
  <2>3. Placed'
    BY <1>f, <1>s, <1>n, <2>1, <2>2, BoundsAssumption DEF Placed, Calls
  <2>4. AtWork'
    BY <1>f, <1>s, <1>u, <1>0, <2>1 DEF AtWork
  <2>5. Queues'
    <3>1. \A i \in DOMAIN safeQueue' : safeQueue'[i] \in Safe
      BY <1>1, <1>s, <1>n, <1>q, <2>1, Appended DEF Queues, Safe
    <3>2. \A i \in DOMAIN unsafeQueue : unsafeQueue[i] \in Unsafe \cap (1..n)
      BY <1>s, <1>n DEF Queues
    <3> QED BY <3>1, <3>2, <1>f, <1>s, <1>u, <2>1 DEF Queues
  <2> QED BY <1>f, <1>n, <1>q, <2>1, <2>3, <2>4, <2>5, Appended, QueueSteps DEF Inv, TypeOK
<1>2. CASE safe[n] /\ ~barrier
  <2>1. /\ tasks' = tasks \cup {n}
        /\ safeQueue' = safeQueue /\ unsafeQueue' = unsafeQueue /\ barrier' = barrier
    BY <1>2, <1>m DEF Add
  <2>2. \A c : Queued(c)' = Queued(c)
    BY <2>1 DEF Queued
  <2>3. Placed'
    BY <1>f, <1>s, <1>n, <2>1, <2>2 DEF Placed
  <2>4. AtWork'
    BY <1>2, <1>f, <1>s, <1>u, <2>1 DEF AtWork
  <2>5. Queues'
    BY <1>2, <1>s, <1>u, <2>1 DEF Queues
  <2> QED BY <1>f, <1>n, <1>q, <2>1, <2>3, <2>4, <2>5, QueueSteps DEF Inv, TypeOK
<1>3. CASE ~safe[n] /\ tasks = {}
  <2>1. unsafeQueue = <<>>
    BY <1>3, <1>s DEF Queues
  <2>2. /\ tasks' = {n} /\ unsafeQueue' = <<>> /\ safeQueue' = safeQueue /\ barrier' = TRUE
    <3>1. /\ barrier' = TRUE /\ safeQueue' = safeQueue
          /\ tasks' = {Head(Append(unsafeQueue, n))}
          /\ unsafeQueue' = Tail(Append(unsafeQueue, n))
      BY <1>3, <1>m DEF Add
    <3> QED BY <3>1, <2>1, <1>n
  <2>3. \A c : Queued(c)' = Queued(c)
    BY <2>1, <2>2 DEF Queued
  <2>4. Placed'
    BY <1>3, <1>f, <1>s, <1>n, <2>2, <2>3 DEF Placed
  <2>5. UnsafeOver(n)
    <3> SUFFICES ASSUME NEW d \in Unsafe, d < n PROVE at[d] \in Ended
      BY DEF UnsafeOver
    <3>1. d \in 1..added /\ d \in Unsafe
      BY <1>n DEF Unsafe
    <3>2. ~Queued(d)
      BY <2>1, <1>s DEF Queued, Queues, Unsafe
    <3> QED BY <3>1, <3>2, <1>3, <1>s DEF Placed
  <2>6. AtWork'
    BY <2>2, <2>5, <1>f, <1>0, <1>u DEF AtWork
  <2>7. Queues'
    BY <2>2, <1>s, <1>u DEF Queues
  <2> QED BY <1>f, <1>n, <1>q, <2>2, <2>4, <2>6, <2>7, QueueSteps
<1>4. CASE ~safe[n] /\ tasks # {}
  <2>1. /\ unsafeQueue' = Append(unsafeQueue, n)
        /\ tasks' = tasks /\ safeQueue' = safeQueue /\ barrier' = TRUE
    BY <1>4, <1>m DEF Add
  <2>2. \A c \in Calls : (Queued(c) => Queued(c)') /\ Queued(n)'
    BY <2>1, <1>q, <1>n, Appended DEF Queued
  <2>3. Placed'
    BY <1>f, <1>s, <1>n, <2>1, <2>2, BoundsAssumption DEF Placed, Calls
  <2>4. AtWork'
    BY <1>f, <1>s, <1>u, <1>0, <2>1 DEF AtWork
  <2>5. Queues'
    <3>1. \A i \in DOMAIN unsafeQueue' : unsafeQueue'[i] \in Unsafe \cap (1..n)
      BY <1>4, <1>s, <1>n, <1>q, <1>u, <2>1, Appended DEF Queues
    <3>2. ASSUME NEW i \in DOMAIN unsafeQueue', NEW j \in DOMAIN unsafeQueue', i < j
          PROVE  unsafeQueue'[i] < unsafeQueue'[j]
      <4>1. i \in DOMAIN unsafeQueue /\ unsafeQueue'[i] = unsafeQueue[i]
        BY <3>2, <2>1, <1>q, <1>n, Appended
      <4>2. CASE j = Len(unsafeQueue) + 1
        <5>1. unsafeQueue'[j] = n
          BY <4>2, <2>1, <1>q, <1>n, Appended
        <5>2. unsafeQueue[i] \in 1..added
          BY <4>1, <1>s DEF Queues
        <5> QED BY <5>1, <5>2, <4>1, <1>n, <1>m
      <4>3. CASE j # Len(unsafeQueue) + 1
        <5>1. j \in DOMAIN unsafeQueue /\ unsafeQueue'[j] = unsafeQueue[j]
          BY <4>3, <2>1, <1>q, <1>n, Appended
        <5> QED BY <5>1, <4>1, <3>2, <1>s DEF Queues
      <4> QED BY <4>2, <4>3
    <3> QED BY <3>1, <3>2, <1>4, <1>f, <1>s, <1>u, <2>1 DEF Queues
  <2> QED BY <1>f, <1>n, <1>q, <2>1, <2>3, <2>4, <2>5, Appended, QueueSteps
<1> QED BY <1>1, <1>2, <1>3, <1>4

LEMMA InvReap == ASSUME Inv, Reap PROVE Inv'
<1> DEFINE done == {c \in tasks : at[c] \in Ended}
           left == tasks \ done
<1>f. /\ Streaming /\ batch = "running" /\ Advance(left)
      /\ added' = added /\ barrier' = barrier
      /\ UNCHANGED <<given, at, budget, scope, batch, stopping>>
  BY DEF Reap
<1>s. Placed /\ AtWork /\ InOrder /\ Queues
  BY <1>f DEF Inv, StreamInv
<1>q. /\ safeQueue \in Seq(Calls) /\ unsafeQueue \in Seq(Calls) /\ tasks \subseteq Calls
      /\ added \in 0..N /\ barrier \in BOOLEAN
  BY DEF Inv, TypeOK
<1>u. Unsafe' = Unsafe /\ Safe' = Safe /\ Safe \subseteq Calls
  BY <1>f DEF Unsafe, Safe, given
<1>l. /\ left \subseteq Calls
      /\ \A c \in tasks : c \in left \/ at[c] \in Ended
      /\ \A c \in left : c \in tasks /\ at[c] \notin Ended
      /\ \A c : at[c] \in InFlight => at[c] \notin Ended
  BY <1>q DEF InFlight, Ended
<1> HIDE DEF done, left
<1>0. \A c : UnsafeOver(c)' = UnsafeOver(c)
  BY <1>f, <1>u DEF UnsafeOver
<1>1. CASE left = {} /\ unsafeQueue # <<>>
  <2>1. /\ tasks' = {Head(unsafeQueue)} /\ unsafeQueue' = Tail(unsafeQueue)
        /\ safeQueue' = safeQueue
    BY <1>1, <1>f DEF Advance
  <2>2. \A c : Queued(c) => Queued(c)' \/ c = Head(unsafeQueue)
    <3> SUFFICES ASSUME NEW i \in DOMAIN unsafeQueue
                 PROVE  (\E j \in DOMAIN unsafeQueue' : unsafeQueue'[j] = unsafeQueue[i])
                        \/ unsafeQueue[i] = Head(unsafeQueue)
      BY <2>1 DEF Queued
    <3>1. CASE i = 1
      BY <3>1, <1>1, <1>q, Shifted
    <3>2. CASE i # 1
      <4>1. i - 1 \in DOMAIN Tail(unsafeQueue) /\ (i - 1) + 1 = i
        BY <3>2, <1>1, <1>q, Shifted
      <4>2. Tail(unsafeQueue)[i - 1] = unsafeQueue[i]
        BY <4>1, <1>1, <1>q, Shifted
      <4> QED BY <4>1, <4>2, <2>1
    <3> QED BY <3>1, <3>2
  <2>3. Placed'
    BY <1>1, <1>f, <1>l, <1>s, <2>1, <2>2 DEF Placed
  <2>4. Head(unsafeQueue) \in Unsafe \cap (1..added)
    BY <1>1, <1>q, <1>s, Shifted DEF Queues
  <2>5. UnsafeOver(Head(unsafeQueue))
    <3> SUFFICES ASSUME NEW d \in Unsafe, d < Head(unsafeQueue) PROVE at[d] \in Ended
      BY DEF UnsafeOver
    <3>1. d \in 1..added
      BY <2>4, <1>q, BoundsAssumption DEF Unsafe, Calls
    <3>2. ~Queued(d)
      <4>1. \A i \in DOMAIN unsafeQueue : unsafeQueue[i] # d
        <5> SUFFICES ASSUME NEW i \in DOMAIN unsafeQueue, unsafeQueue[i] = d PROVE FALSE
          OBVIOUS
        <5>1. 1 \in DOMAIN unsafeQueue /\ unsafeQueue[1] = Head(unsafeQueue) /\ i \in Nat /\ i >= 1
          BY <1>1, <1>q, Shifted
        <5>2. i # 1 /\ 1 < i
          BY <5>1, <2>4, <1>q
        <5>3. unsafeQueue[1] < unsafeQueue[i]
          BY <5>1, <5>2, <1>s DEF Queues
        <5> QED BY <5>1, <5>3, <2>4, <3>1, <1>q
      <4>2. \A i \in DOMAIN safeQueue : safeQueue[i] # d
        BY <1>s DEF Queues, Unsafe
      <4> QED BY <4>1, <4>2 DEF Queued
    <3> QED BY <3>1, <3>2, <1>1, <1>l, <1>s DEF Placed
  <2>6. barrier
    BY <1>1, <1>s DEF Queues
  <2>7. AtWork'
    BY <1>f, <1>u, <1>0, <2>1, <2>5, <2>6 DEF AtWork
  <2>8. Queues'
    <3>1. \A i \in DOMAIN unsafeQueue' : unsafeQueue'[i] \in Unsafe \cap (1..added)
      BY <1>1, <1>q, <1>s, <2>1, Shifted DEF Queues
    <3>2. ASSUME NEW i \in DOMAIN unsafeQueue', NEW j \in DOMAIN unsafeQueue', i < j
          PROVE  unsafeQueue'[i] < unsafeQueue'[j]
      <4>1. /\ i + 1 \in DOMAIN unsafeQueue /\ j + 1 \in DOMAIN unsafeQueue
            /\ unsafeQueue'[i] = unsafeQueue[i + 1] /\ unsafeQueue'[j] = unsafeQueue[j + 1]
            /\ i + 1 < j + 1
        BY <1>1, <1>q, <2>1, <3>2, Shifted
      <4> QED BY <4>1, <1>s DEF Queues
    <3> QED BY <3>1, <3>2, <2>1, <2>6, <1>f, <1>s, <1>u DEF Queues
  <2> QED BY <1>1, <1>f, <1>q, <2>1, <2>3, <2>7, <2>8, Shifted, QueueSteps
<1>2. CASE ~(left = {} /\ unsafeQueue # <<>>) /\ ~barrier
  <2>1. /\ tasks' = left \cup {safeQueue[i] : i \in DOMAIN safeQueue}
        /\ safeQueue' = <<>> /\ unsafeQueue' = unsafeQueue
    BY <1>2, <1>f DEF Advance
  <2>2. unsafeQueue = <<>>
    BY <1>2, <1>s DEF Queues
  <2>3. Placed'
    BY <1>f, <1>l, <1>s, <2>1, <2>2 DEF Placed, Queued
  <2>4. tasks' \subseteq Calls /\ \A c \in tasks' \cap Unsafe : c \in left
    BY <1>l, <1>s, <1>u, <2>1 DEF Queues, Unsafe
  <2>5. AtWork'
    BY <1>2, <1>f, <1>l, <1>s, <1>u, <2>4 DEF AtWork
  <2>6. Queues'
    BY <2>1, <2>2 DEF Queues
  <2> QED BY <1>f, <1>q, <2>1, <2>2, <2>3, <2>4, <2>5, <2>6, QueueSteps
<1>3. CASE ~(left = {} /\ unsafeQueue # <<>>) /\ barrier
  <2>1. tasks' = left /\ safeQueue' = safeQueue /\ unsafeQueue' = unsafeQueue
    BY <1>3, <1>f DEF Advance
  <2>2. Placed'
    <3>1. \A c : Queued(c)' = Queued(c)
      BY <2>1 DEF Queued
    <3> QED BY <3>1, <1>f, <1>l, <1>s, <2>1 DEF Placed
  <2>3. AtWork'
    <3> SUFFICES ASSUME NEW c \in left \cap Unsafe
                 PROVE  barrier /\ left = {c} /\ UnsafeOver(c)
      BY <1>f, <1>u, <1>0, <2>1 DEF AtWork
    <3>1. barrier /\ tasks = {c} /\ UnsafeOver(c)
      BY <1>l, <1>s DEF AtWork
    <3> QED BY <3>1, <1>l
  <2>4. Queues'
    BY <1>3, <1>f, <1>s, <1>u, <2>1 DEF Queues
  <2> QED BY <1>f, <1>l, <1>q, <2>1, <2>2, <2>3, <2>4, QueueSteps
<1> QED BY <1>1, <1>2, <1>3

-----------------------------------------------------------------------------
(* The theorems.                                                           *)

LEMMA InvStep == Inv /\ [Next]_vars => Inv'
<1> SUFFICES ASSUME Inv, [Next]_vars PROVE Inv'
  OBVIOUS
<1>1. ASSUME NEW c \in Calls, CallStep(c) PROVE Inv'
  BY <1>1, InvCall
<1>2. CASE BatchStep
  BY <1>2, InvAdd, InvDrain, InvReap, InvReturns, InvRaises DEF BatchStep
<1>3. CASE HostCancels \/ HostStops
  BY <1>3, InvHostCancels, InvHostStops
<1>4. CASE UNCHANGED vars
  <2>1. UNCHANGED <<given, at, budget, scope, batch, online, barrier, stopping>>
    BY <1>4 DEF vars
  <2>2. TypeOK'
    BY <2>1, TypesKept DEF Inv, TypeOK, scope
  <2>3. OverInv'
    BY <2>1, StreamKept DEF Inv, OverInv, Streaming, Blockable, given
  <2> QED BY <2>1, <2>2, <2>3, StandStill, StreamKept, StopKept DEF Inv
<1> QED BY <1>1, <1>2, <1>3, <1>4 DEF Next

THEOREM Invariance == Spec => []Inv
BY InitInv, InvStep, PTL DEF Spec

(* Every variable keeps its type, whatever the four executors do.          *)
THEOREM TypeCorrect == Spec => []TypeOK
BY Invariance, PTL DEF Inv

(* RunBudget counts the calls in flight and is never overdrawn.            *)
THEOREM BudgetExactAlways == Spec => []BudgetExact
BY Invariance, PTL DEF Inv

LEMMA AloneFromInv == Inv => UnsafeRunsAlone
<1> SUFFICES ASSUME Inv, executor # "parallel", NEW c \in Busy, NEW d \in Busy, ~safe[c]
             PROVE  c = d
  BY DEF UnsafeRunsAlone
<1>1. /\ c \in Calls /\ d \in Calls /\ c \in Unsafe
      /\ at[c] \in InFlight /\ at[d] \in InFlight /\ Begins(c) /\ Begins(d)
      /\ at[c] # "answered" /\ at[d] # "answered"
      /\ at[c] \notin Ended
  BY DEF Busy, Unsafe, Safe, Begins, InFlight, Ended
<1>2. CASE Streaming
  BY <1>1, <1>2 DEF Inv, StreamInv, Placed, AtWork
<1>3. CASE ~Streaming
  <2>1. Blockable(c) /\ (executor = "sequential" \/ executor = "partition")
    BY <1>1, <1>3 DEF Blockable, Streaming, Inv, TypeOK, Executors, Unsafe, Safe
  <2>2. d \notin Blockers(c)
    BY <1>1, <2>1 DEF Inv, TurnInv, Answered
  <2>3. ~(d < c) /\ (executor = "partition" => ~safe[d])
    BY <1>1, <2>2, BoundsAssumption DEF Blockers, Earlier, Calls, Safe
  <2>4. Blockable(d)
    BY <2>1, <2>3 DEF Blockable
  <2>5. ~(c < d)
    BY <1>1, <2>4, BoundsAssumption DEF Inv, TurnInv, Answered, Blockers, Earlier, Calls
  <2> QED BY <1>1, <2>3, <2>5, BoundsAssumption DEF Calls
<1> QED BY <1>2, <1>3

LEMMA OrderFromInv == Inv => UnsafeInOrder
<1> SUFFICES ASSUME Inv, executor # "parallel", NEW c \in Unsafe, NEW d \in Unsafe,
                    c < d, at[d] \notin {"waiting", "dead"}
             PROVE  at[c] \in Ended
  BY DEF UnsafeInOrder, Unsafe
<1>1. CASE Streaming
  BY <1>1 DEF Inv, StreamInv, InOrder, UnsafeOver
<1>2. CASE ~Streaming
  <2>1. Blockable(d) /\ c \in Calls /\ d \in Calls
    BY <1>2 DEF Blockable, Streaming, Inv, TypeOK, Executors, Unsafe, Safe
  <2>2. Answered(Blockers(d))
    BY <2>1 DEF Inv, TurnInv, Begins
  <2>3. c \in Blockers(d)
    BY <2>1, BoundsAssumption DEF Blockers, Earlier, Calls
  <2> QED BY <2>2, <2>3 DEF Answered, Ended
<1> QED BY <1>1, <1>2

(* A tool that is not concurrency safe has the run to itself and its turn, *)
(* in the sequential, the partitioning and the streaming executor.         *)
THEOREM UnsafeInTurnAlways == Spec => []UnsafeInTurn
BY Invariance, AloneFromInv, OrderFromInv, PTL DEF UnsafeInTurn

LEMMA WholeFromInv == Inv => BatchWhole
<1> SUFFICES ASSUME Inv PROVE EveryCallAnswered /\ NothingLeftRunning
  BY DEF BatchWhole
<1>1. ASSUME batch = "returned", NEW c \in Calls
      PROVE  /\ at[c] \notin InFlight
             /\ c \in 1..added => at[c] = "answered" \/ (Streaming /\ at[c] = "raised")
  <2>1. Left
    BY <1>1 DEF Inv, OverInv
  <2>2. CASE Streaming
    <3>1. Placed /\ NoneStopped /\ tasks = {} /\ ~Queued(c)
      BY <2>1, <2>2 DEF Inv, StreamInv, Left, Queued
    <3> QED BY <3>1, <2>2 DEF Placed, NoneStopped, Ended
  <2>3. CASE ~Streaming
    BY <2>1, <2>3 DEF Left, Answered, InFlight
  <2> QED BY <2>2, <2>3
<1>2. EveryCallAnswered
  <2>1. 1..added \subseteq Calls
    BY BoundsAssumption DEF Inv, TypeOK, Calls
  <2> QED BY <1>1, <2>1 DEF EveryCallAnswered
<1>3. NothingLeftRunning
  BY <1>1 DEF NothingLeftRunning, Busy, Inv, OverInv
<1> QED BY <1>2, <1>3

(* A batch that is over has an answer for each call and leaves none at     *)
(* work, but for the cases `BatchWhole' names.                             *)
THEOREM BatchWholeAlways == Spec => []BatchWhole
BY Invariance, WholeFromInv, PTL
=============================================================================
