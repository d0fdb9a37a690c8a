-------------------------- MODULE RunLifecycleProofs --------------------------
(***************************************************************************)
(* What RunLifecycle promises for every finite set of runs and every set   *)
(* of states, with early and cut-short teardowns included.                 *)
(***************************************************************************)
EXTENDS RunLifecycle, FiniteSetTheorems, TLAPS

(* The runs that hold their state and a place in the count: those under    *)
(* way and those whose task was cancelled before it began.                 *)
Holders == {r \in Runs : pc[r] \in Live \cup {"lost"}}

Counted == inFlight = Cardinality(Holders)

(* A state is in a turn exactly when one run holds it.                     *)
Owned == /\ inTurn = {st[r] : r \in Holders}
         /\ \A q, r \in Holders : st[q] = st[r] => q = r

SameClient == \A r \in Holders : client[r] = generation

(* aclose() has its eyes on every run that may still use the resources.    *)
Watched ==
    /\ ~closed => closer = Nobody
    /\ \A r \in Runs : pc[r] \in Live => r \in active
    /\ closer # Nobody => \A r \in Runs : pc[r] \in Live => r \in reaping \cup {closer}
    /\ closer \in Runs => pc[closer] = "stages"

Inv == TypeOK /\ Counted /\ Owned /\ SameClient /\ Watched

LEMMA HoldersFinite ==
    ASSUME NEW S \in SUBSET Runs
    PROVE  IsFiniteSet(S) /\ Cardinality(S) \in Nat
BY RunsAssumption, FS_Subset, FS_CardinalityType

LEMMA InvInit == Init => Inv
<1> SUFFICES ASSUME Init PROVE Inv
  OBVIOUS
<1>1. Holders = {}
  <2>1. \A r \in Runs : pc[r] = "none"
    BY DEF Init
  <2>2. "none" \notin Live \cup {"lost"}
    BY DEF Live
  <2> QED BY <2>1, <2>2 DEF Holders
<1>2. TypeOK
  <2>1. pc \in [Runs -> Phases] /\ client \in [Runs -> 0..MaxGeneration]
    BY RunsAssumption DEF Init, Phases
  <2>2. consumer \in [Runs -> {"reading", "sentinel", "ended"}]
    BY DEF Init
  <2>3. /\ inFlight \in Nat /\ generation \in 0..MaxGeneration
        /\ active \subseteq Runs /\ inTurn \subseteq States
        /\ cancelled \subseteq Runs /\ reaping \subseteq Runs
        /\ resources \in {"up", "down"}
        /\ closer \in Runs \cup {Nobody, Host, Tool}
    BY RunsAssumption DEF Init
  <2>4. closed \in BOOLEAN
    BY DEF Init
  <2>5. kind \in [Runs -> {"run", "stream"}] /\ st \in [Runs -> States]
    BY DEF Init
  <2> QED BY <2>1, <2>2, <2>3, <2>4, <2>5, Zenon DEF TypeOK
<1>3. Counted
  BY <1>1, FS_EmptySet DEF Init, Counted
<1>4. Owned /\ SameClient
  BY <1>1 DEF Init, Owned, SameClient
<1>5. Watched
  BY RunsAssumption DEF Init, Watched, Live, Nobody
<1> QED BY <1>2, <1>3, <1>4, <1>5 DEF Inv

(* A run that moves among the phases in which it holds its state changes   *)
(* nothing of what is held.                                                *)
LEMMA MovesOn ==
    ASSUME Inv, NEW r \in Runs, NEW p \in Live \cup {"lost"},
           pc[r] \in Live, Goes(r, p),
           UNCHANGED <<lock, given, client, generation>>
    PROVE  Counted' /\ Owned' /\ SameClient'
<1>1. Holders' = Holders
  BY DEF Inv, TypeOK, Goes, Holders, lock, given
<1> QED BY <1>1 DEF Inv, Counted, Owned, SameClient, lock, given

LEMMA SameHolders ==
    ASSUME Inv, Holders' = Holders,
           UNCHANGED <<inFlight, inTurn, given, client, generation>>
    PROVE  Counted' /\ Owned' /\ SameClient'
BY DEF Inv, Counted, Owned, SameClient, given

LEMMA InvStart ==
    ASSUME Inv, NEW r \in Runs, Start(r)
    PROVE  Inv'
<1> USE DEF Start, Begin, Goes, pipeline, given
<1>1. pc[r] = "none" /\ pc' = [pc EXCEPT ![r] = "emit"]
  OBVIOUS
<1>2. r \notin Holders /\ Holders' = Holders \cup {r}
  BY <1>1 DEF Inv, TypeOK, Holders, Live
<1>3. Holders \in SUBSET Runs
  BY DEF Holders
<1>4. Counted'
  <2>1. Cardinality(Holders \cup {r}) = Cardinality(Holders) + 1
    BY <1>2, <1>3, HoldersFinite, FS_AddElement
  <2> QED BY <1>2, <2>1 DEF Inv, Counted
<1>5. Owned'
  <2>1. \A q \in Holders : st[q] # st[r]
    BY DEF Inv, Owned
  <2> QED BY <1>2, <2>1 DEF Inv, Owned
<1>6. SameClient'
  BY <1>2, <1>3 DEF Inv, TypeOK, SameClient
<1>7. TypeOK'
  <2>1. pc' \in [Runs -> Phases]
    BY <1>1 DEF Inv, TypeOK, Phases, Live
  <2>2. client' \in [Runs -> 0..MaxGeneration] /\ generation' \in 0..MaxGeneration
    BY DEF Inv, TypeOK
  <2>3. inTurn' \subseteq States /\ active' \subseteq Runs
    BY DEF Inv, TypeOK
  <2>4. inFlight' \in Nat
    BY DEF Inv, TypeOK
  <2>5. /\ closed' \in BOOLEAN /\ resources' \in {"up", "down"}
        /\ closer' \in Runs \cup {Nobody, Host, Tool} /\ reaping' \subseteq Runs
        /\ kind' \in [Runs -> {"run", "stream"}] /\ st' \in [Runs -> States]
        /\ cancelled' \subseteq Runs
        /\ consumer' \in [Runs -> {"reading", "sentinel", "ended"}]
    BY DEF Inv, TypeOK
  <2> QED BY <2>1, <2>2, <2>3, <2>4, <2>5, Zenon DEF TypeOK
<1>8. Watched'
  BY <1>1, RunsAssumption DEF Inv, TypeOK, Watched, Live, Nobody
<1> QED BY <1>4, <1>5, <1>6, <1>7, <1>8 DEF Inv

(* The frame of most steps of a run.                                       *)
LEMMA TypeMoves ==
    ASSUME Inv, NEW r \in Runs, NEW p \in Phases, Goes(r, p),
           UNCHANGED <<pipeline, lock, given, client>>,
           cancelled' \subseteq Runs,
           consumer' \in [Runs -> {"reading", "sentinel", "ended"}]
    PROVE  TypeOK'
<1>1. pc' \in [Runs -> Phases]
  BY DEF Inv, TypeOK, Goes
<1> QED BY <1>1 DEF Inv, TypeOK, pipeline, lock, given

LEMMA InvMoves ==
    ASSUME Inv, NEW r \in Runs,
           Emitted(r) \/ EmitFails(r) \/ TaskStarts(r) \/ TaskNeverStarts(r)
             \/ StagesEnd(r)
    PROVE  Inv'
<1>1. PICK p \in Live \cup {"lost"} : Goes(r, p)
  BY DEF Emitted, EmitFails, TaskStarts, TaskNeverStarts, StagesEnd, Live
<1>2. /\ pc[r] \in Live
      /\ UNCHANGED <<pipeline, lock, given, client, consumer>>
      /\ cancelled' \subseteq cancelled
      /\ closer # r
  BY DEF Emitted, EmitFails, TaskStarts, TaskNeverStarts, StagesEnd, Live,
         Inv, Watched
<1>3. Counted' /\ Owned' /\ SameClient'
  BY <1>1, <1>2, MovesOn DEF pipeline
<1>4. TypeOK'
  BY <1>1, <1>2, TypeMoves DEF Inv, TypeOK, Phases, Live
<1>5. Watched'
  BY <1>1, <1>2 DEF Inv, TypeOK, Watched, Goes, pipeline, lock
<1> QED BY <1>3, <1>4, <1>5 DEF Inv

LEMMA InvFinish ==
    ASSUME Inv, NEW r \in Runs, Finish(r)
    PROVE  Inv'
<1> USE DEF Finish, Release, Over
<1>1. pc[r] \in Live /\ pc' = [pc EXCEPT ![r] = "tail"] /\ closer # r
  BY DEF Goes, Live
<1>2. r \in Holders /\ Holders' = Holders \ {r}
  BY <1>1 DEF Inv, TypeOK, Holders, Live
<1>3. Holders \in SUBSET Runs
  BY DEF Holders
<1>4. /\ Cardinality(Holders') = Cardinality(Holders) - 1
      /\ Cardinality(Holders) \in Nat /\ Cardinality(Holders') \in Nat
  <2>1. IsFiniteSet(Holders) /\ Cardinality(Holders) \in Nat
    BY <1>3, HoldersFinite
  <2>2. Cardinality(Holders \ {r}) = Cardinality(Holders) - 1
    BY <1>2, <2>1, FS_RemoveElement
  <2>3. Holders \ {r} \in SUBSET Runs
    BY <1>3
  <2> QED BY <1>2, <2>1, <2>2, <2>3, HoldersFinite
<1>5. Counted' /\ inFlight' \in Nat
  BY <1>4 DEF Inv, Counted
<1>6. Owned'
  <2>1. \A q \in Holders : st[q] = st[r] => q = r
    BY <1>2 DEF Inv, Owned
  <2> QED BY <1>2, <2>1 DEF Inv, Owned, given
<1>7. SameClient'
  BY <1>2 DEF Inv, SameClient, pipeline
<1>8. TypeOK'
  <2>1. pc' \in [Runs -> Phases]
    BY <1>1 DEF Inv, TypeOK, Phases
  <2>2. consumer' \in [Runs -> {"reading", "sentinel", "ended"}]
    BY DEF Inv, TypeOK
  <2> QED BY <1>5, <2>1, <2>2 DEF Inv, TypeOK, pipeline, given
<1>9. Watched'
  BY <1>1 DEF Inv, TypeOK, Watched, Live, pipeline
<1> QED BY <1>5, <1>6, <1>7, <1>8, <1>9 DEF Inv

LEMMA InvTailEnds ==
    ASSUME Inv, NEW r \in Runs, TailEnds(r)
    PROVE  Inv'
<1>1. pc[r] = "tail" /\ pc' = [pc EXCEPT ![r] = "done"]
  BY DEF TailEnds, Goes
<1>2. Holders' = Holders
  BY <1>1 DEF Inv, TypeOK, Holders, Live
<1>3. /\ UNCHANGED <<pipeline, lock, given, client>>
      /\ cancelled' \subseteq cancelled
      /\ Goes(r, "done")
  BY DEF TailEnds
<1>4. Counted' /\ Owned' /\ SameClient'
  BY <1>2, <1>3, SameHolders DEF lock, pipeline
<1>5. consumer' \in [Runs -> {"reading", "sentinel", "ended"}]
  BY DEF TailEnds, Inv, TypeOK
<1>6. TypeOK'
  BY <1>3, <1>5, TypeMoves DEF Inv, TypeOK, Phases
<1>7. Watched'
  BY <1>1, <1>3 DEF Inv, TypeOK, Watched, Live, pipeline, lock
<1> QED BY <1>4, <1>6, <1>7 DEF Inv

LEMMA InvConsumer ==
    ASSUME Inv, NEW r \in Runs, StreamEnds(r) \/ Abandon(r) \/ HostCancels(r)
    PROVE  Inv'
<1>1. /\ UNCHANGED <<pipeline, lock, given, client, pc>>
      /\ cancelled' \subseteq Runs
      /\ consumer' \in [Runs -> {"reading", "sentinel", "ended"}]
  BY DEF StreamEnds, Abandon, HostCancels, Inv, TypeOK
<1>2. Holders' = Holders
  BY <1>1 DEF Holders
<1>3. Counted' /\ Owned' /\ SameClient'
  BY <1>1, <1>2, SameHolders DEF lock, pipeline
<1>4. TypeOK'
  BY <1>1 DEF Inv, TypeOK, pipeline, lock, given
<1>5. Watched'
  BY <1>1 DEF Inv, Watched, pipeline, lock
<1> QED BY <1>3, <1>4, <1>5 DEF Inv

LEMMA InvSwapClient == Inv /\ SwapClient => Inv'
<1> SUFFICES ASSUME Inv, SwapClient PROVE Inv'
  OBVIOUS
<1> USE DEF SwapClient
<1>1. Holders = {}
  <2>1. IsFiniteSet(Holders)
    BY HoldersFinite DEF Holders
  <2>2. Cardinality(Holders) = 0
    BY DEF Inv, Counted
  <2> QED BY <2>1, <2>2, FS_EmptySet
<1>2. Holders' = Holders
  BY DEF Holders
<1>3. Counted' /\ Owned' /\ SameClient'
  BY <1>1, <1>2 DEF Inv, Counted, Owned, SameClient, lock, given
<1>4. TypeOK'
  <2>1. generation' \in 0..MaxGeneration
    BY RunsAssumption DEF Inv, TypeOK
  <2> QED BY <2>1 DEF Inv, TypeOK, lock, given
<1>5. Watched'
  BY DEF Inv, Watched, lock
<1> QED BY <1>3, <1>4, <1>5 DEF Inv

LEMMA InvClose ==
    ASSUME Inv, NEW c \in Runs \cup {Host, Tool}, NEW spared \in SUBSET {c},
           c \in Runs => pc[c] = "stages", CloseBy(c, spared)
    PROVE  Inv'
<1> USE DEF CloseBy
<1>1. Holders' = Holders
  BY DEF Holders
<1>2. Counted' /\ Owned' /\ SameClient'
  BY <1>1, SameHolders DEF lock
<1>3. TypeOK'
  <2>1. cancelled' \subseteq Runs /\ reaping' \subseteq Runs
    BY DEF Inv, TypeOK
  <2>2. closer' \in Runs \cup {Nobody, Host, Tool} /\ closed' \in BOOLEAN
    OBVIOUS
  <2> QED BY <2>1, <2>2 DEF Inv, TypeOK, lock, given
<1>4. Watched'
  BY DEF Inv, Watched, lock
<1> QED BY <1>2, <1>3, <1>4 DEF Inv

LEMMA InvCloseCutShort == Inv /\ CloseCutShort => Inv'
<1> SUFFICES ASSUME Inv, CloseCutShort PROVE Inv'
  OBVIOUS
<1> USE DEF CloseCutShort
<1>1. Holders' = Holders
  BY DEF Holders
<1>2. Counted' /\ Owned' /\ SameClient'
  BY <1>1, SameHolders DEF lock
<1>3. TypeOK'
  BY DEF Inv, TypeOK, lock, given
<1>4. Watched'
  BY RunsAssumption DEF Inv, Watched, lock, Nobody
<1> QED BY <1>2, <1>3, <1>4 DEF Inv

LEMMA InvTearDown ==
    ASSUME Inv, TearDown
    PROVE  Inv' /\ \A r \in Runs : pc[r] \in Live => r = closer
<1> USE DEF TearDown, Disconnect
<1>1. \A r \in Runs : pc[r] \in Live => r = closer /\ r \notin reaping
  BY DEF Inv, Watched, Live
<1>2. Holders' = Holders
  BY DEF Holders
<1>3. Counted' /\ Owned' /\ SameClient'
  BY <1>2, SameHolders
<1>4. TypeOK'
  BY DEF Inv, TypeOK, given
<1>5. Watched'
  BY <1>1, RunsAssumption DEF Inv, Watched, Nobody
<1> QED BY <1>1, <1>3, <1>4, <1>5 DEF Inv

LEMMA InvStutter == Inv /\ UNCHANGED vars => Inv'
<1> SUFFICES ASSUME Inv, UNCHANGED vars PROVE Inv'
  OBVIOUS
<1>1. Holders' = Holders
  BY DEF Holders, vars
<1>2. UNCHANGED <<inFlight, inTurn, given, client, generation>>
  BY DEF vars, lock, pipeline
<1>3. TypeOK' /\ Watched'
  BY DEF vars, pipeline, lock, given, Inv, TypeOK, Watched
<1> QED BY <1>1, <1>2, <1>3, SameHolders DEF Inv

LEMMA InvNext == Inv /\ [Next]_vars => Inv'
<1> SUFFICES ASSUME Inv, [Next]_vars PROVE Inv'
  OBVIOUS
<1>1. ASSUME NEW r \in Runs, RunCloses(r) PROVE Inv'
  BY <1>1, InvClose DEF RunCloses
<1>2. ASSUME HostCloses PROVE Inv'
  BY <1>2, InvClose, RunsAssumption DEF HostCloses, Host
<1>3. ASSUME NEW r \in Runs, ToolCloses(r) PROVE Inv'
  BY <1>3, InvClose, RunsAssumption DEF ToolCloses, Tool
<1> QED BY <1>1, <1>2, <1>3, InvStart, InvMoves, InvFinish, InvTailEnds,
           InvConsumer, InvSwapClient, InvCloseCutShort, InvTearDown,
           InvStutter
        DEF Next, RunStep

LEMMA InvInvariant == Spec => []Inv
BY InvInit, InvNext, PTL DEF Spec

-----------------------------------------------------------------------------
(* The variables keep their types; the run count never goes below zero.    *)
THEOREM LifecycleTypes == Spec => []TypeOK
<1>1. Inv => TypeOK
  BY DEF Inv
<1> QED BY <1>1, InvInvariant, PTL

(* No two runs under way work on one state, whatever is cancelled when.    *)
THEOREM StateOwnedOnce == Spec => []OneRunPerState
<1>1. Inv => OneRunPerState
  BY DEF Inv, Owned, Holders, OneRunPerState
<1> QED BY <1>1, InvInvariant, PTL

(* A run keeps the client it started with: no swap falls into a turn.      *)
THEOREM NoSwapInTurn == Spec => []OneClientPerTurn
<1>1. Inv => OneClientPerTurn
  BY DEF Inv, SameClient, Holders, OneClientPerTurn
<1> QED BY <1>1, InvInvariant, PTL

(* Both at once: a run has its state and its client to itself.             *)
THEOREM RunsIsolatedAlways == Spec => []RunsIsolated
<1>1. OneRunPerState /\ OneClientPerTurn => RunsIsolated
  BY DEF RunsIsolated
<1> QED BY <1>1, StateOwnedOnce, NoSwapInTurn, PTL

(* A quiet pipeline holds a place and a state for each stream whose task   *)
(* was cancelled before its first step, and nothing else.  (_end_turn)     *)
THEOREM HeldForLostOnlyAlways == Spec => []HeldForLostOnly
<1>1. Inv /\ Quiet => Holders = Lost
  BY DEF Quiet, Holders, Lost
<1>2. Inv => HeldForLostOnly
  BY <1>1 DEF Inv, Counted, Owned, HeldForLostOnly
<1> QED BY <1>2, InvInvariant, PTL

(* The resources go down only when no stage, but those of the run that     *)
(* closes the pipeline, is left to use them.                               *)
THEOREM TearDownIsLast == Spec => ResourcesOutliveStages
<1>1. Inv /\ [Next]_vars =>
        (resources' = "down" /\ resources = "up" =>
           \A r \in Runs : pc[r] \in Live => r = closer)
  <2> SUFFICES ASSUME Inv, [Next]_vars, resources' = "down", resources = "up"
               PROVE  \A r \in Runs : pc[r] \in Live => r = closer
    OBVIOUS
  <2>1. TearDown
    BY DEF Next, RunStep, Start, Begin, Emitted, EmitFails, TaskStarts,
           TaskNeverStarts, StagesEnd, Finish, Release, TailEnds, StreamEnds,
           Abandon, HostCancels, RunCloses, ToolCloses, SwapClient, HostCloses,
           CloseBy, CloseCutShort, vars, pipeline
  <2> QED BY <2>1, InvTearDown
<1> QED BY <1>1, InvInvariant, PTL DEF Spec, ResourcesOutliveStages
=============================================================================
