------------------------- MODULE ConversationProofs -------------------------
(***************************************************************************)
(* Proofs about the two ends of a conversation: what enters it while a     *)
(* turn runs (SteerInbox, for any set of messages), and what becomes of it *)
(* when it is compacted and recorded (Compaction, for any bounds).  The    *)
(* two share no variable; each theorem is about one of them.               *)
(***************************************************************************)
EXTENDS SteerInbox, Compaction, FiniteSetTheorems, SequenceTheorems,
        WellFoundedInduction, TLAPS

-----------------------------------------------------------------------------
(* Facts about the elements of a sequence.                                 *)

LEMMA ElementsType ==
    ASSUME NEW S, NEW s \in Seq(S)
    PROVE  Elements(s) \subseteq S
BY DEF Elements

LEMMA ElementsEmpty == Elements(<<>>) = {}
BY DEF Elements

LEMMA ElementsAppend ==
    ASSUME NEW S, NEW s \in Seq(S), NEW x \in S
    PROVE  Elements(Append(s, x)) = Elements(s) \cup {x}
<1>1. DOMAIN Append(s, x) = DOMAIN s \cup {Len(s) + 1}
    OBVIOUS
<1>2. \A i \in DOMAIN s : Append(s, x)[i] = s[i]
    OBVIOUS
<1>3. Append(s, x)[Len(s) + 1] = x
    OBVIOUS
<1>. QED BY <1>1, <1>2, <1>3 DEF Elements

(* A message is in a sequence once.                                        *)
Once(s) == \A i, j \in DOMAIN s : s[i] = s[j] => i = j

LEMMA OnceAppend ==
    ASSUME NEW S, NEW s \in Seq(S), NEW x \in S, Once(s), x \notin Elements(s)
    PROVE  Once(Append(s, x))
<1>1. DOMAIN Append(s, x) = DOMAIN s \cup {Len(s) + 1}
    OBVIOUS
<1>2. \A i \in DOMAIN s : Append(s, x)[i] = s[i] /\ s[i] # x
    BY DEF Elements
<1>3. Append(s, x)[Len(s) + 1] = x
    OBVIOUS
<1>. QED BY <1>1, <1>2, <1>3 DEF Once

(* Taking the head off a sequence without repetitions takes exactly that   *)
(* element out.                                                            *)
LEMMA HeadTail ==
    ASSUME NEW S, NEW s \in Seq(S), s # <<>>, Once(s)
    PROVE  /\ Head(s) \in S
           /\ Tail(s) \in Seq(S)
           /\ Elements(Tail(s)) = Elements(s) \ {Head(s)}
           /\ Head(s) \in Elements(s)
           /\ Once(Tail(s))
<1>1. /\ Len(s) \in Nat \ {0}
      /\ DOMAIN s = 1 .. Len(s)
      /\ Head(s) = s[1]
      /\ DOMAIN Tail(s) = 1 .. (Len(s) - 1)
      /\ \A i \in 1 .. (Len(s) - 1) : Tail(s)[i] = s[i + 1]
    OBVIOUS
<1>2. Elements(Tail(s)) = {s[i] : i \in 2 .. Len(s)}
  <2>1. ASSUME NEW i \in 2 .. Len(s) PROVE s[i] \in Elements(Tail(s))
    <3>1. i - 1 \in DOMAIN Tail(s) /\ Tail(s)[i - 1] = s[i]
        BY <1>1
    <3>. QED BY <3>1 DEF Elements
  <2>2. ASSUME NEW i \in DOMAIN Tail(s)
        PROVE  Tail(s)[i] \in {s[j] : j \in 2 .. Len(s)}
    <3>1. i + 1 \in 2 .. Len(s) /\ Tail(s)[i] = s[i + 1]
        BY <1>1
    <3>. QED BY <3>1
  <2>. QED BY <2>1, <2>2 DEF Elements
<1>3. \A i \in 2 .. Len(s) : s[i] # s[1]
    BY <1>1 DEF Once
<1>4. Elements(s) = {s[1]} \cup {s[i] : i \in 2 .. Len(s)}
    BY <1>1 DEF Elements
<1>5. Once(Tail(s))
    BY <1>1 DEF Once
<1>. QED BY <1>1, <1>2, <1>3, <1>4, <1>5

-----------------------------------------------------------------------------
LEMMA EmptyIsSeq == <<>> \in Seq(Msgs)
OBVIOUS

LEMMA ResolveType ==
    ASSUME TypeOK, NEW m \in Msgs, NEW o \in Outcomes, Resolve(m, o)
    PROVE  outcome' \in [Msgs -> Outcomes] /\ notified' \in [Msgs -> Nat]
<1>1. CASE outcome[m] = "none"
  <2>1. /\ outcome' = [outcome EXCEPT ![m] = o]
        /\ notified' = [notified EXCEPT ![m] = @ + 1]
    BY <1>1 DEF Resolve
  <2>2. outcome' \in [Msgs -> Outcomes]
    BY <2>1 DEF TypeOK
  <2>3. notified[m] + 1 \in Nat
    BY DEF TypeOK
  <2>. QED BY <2>1, <2>2, <2>3 DEF TypeOK
<1>2. CASE outcome[m] # "none"
  BY <1>2 DEF TypeOK, Resolve
<1>. QED BY <1>1, <1>2

LEMMA JoinType ==
    ASSUME TypeOK PROVE convo \o queue \in Seq(Msgs)
BY DEF TypeOK

-----------------------------------------------------------------------------
(* Every step keeps each variable in its type, whatever the number of      *)
(* messages and the interleaving.  (every operation of SteerInbox, and     *)
(* _take_steer)                                                            *)
LEMMA TypeStep == TypeOK /\ [Next]_vars => TypeOK'
<1>. SUFFICES ASSUME TypeOK, [Next]_vars PROVE TypeOK'
  OBVIOUS
<1>. USE EmptyIsSeq DEF Decisions, Places, inboxVars, turnVars, given, vars
<1>1. CASE Pass
  BY <1>1 DEF Pass, TypeOK
<1>2. CASE Abort
  BY <1>2 DEF Abort, TypeOK
<1>3. CASE AtBoundary
  <2>1. CASE singlePass \/ stop
    BY <1>3, <2>1 DEF AtBoundary, CloseInbox, TypeOK
  <2>2. CASE ~(singlePass \/ stop)
    BY <1>3, <2>2 DEF AtBoundary, TypeOK
  <2>. QED BY <2>1, <2>2
<1>4. CASE TakeQueued
  BY <1>4, JoinType DEF TakeQueued, Join, TypeOK
<1>5. CASE TakeOrClose
  <2>1. CASE queue # <<>>
    BY <1>5, <2>1, JoinType DEF TakeOrClose, Join, TypeOK
  <2>2. CASE queue = <<>>
    BY <1>5, <2>2 DEF TakeOrClose, TypeOK
  <2>. QED BY <2>1, <2>2
<1>6. CASE LeaveQueued
  BY <1>6 DEF LeaveQueued, TypeOK
<1>7. CASE DeliverOne
  <2>1. Head(held) \in Msgs /\ Tail(held) \in Seq(Msgs)
    BY <1>7 DEF DeliverOne, TypeOK
  <2>2. outcome' \in [Msgs -> Outcomes] /\ notified' \in [Msgs -> Nat]
    BY <1>7, <2>1, ResolveType DEF DeliverOne, Outcomes
  <2>. QED BY <1>7, <2>1, <2>2 DEF DeliverOne, TypeOK
<1>8. CASE DeliverRaises
  BY <1>8 DEF DeliverRaises, TypeOK
<1>9. CASE RejectOne
  <2>1. Head(left) \in Msgs /\ Tail(left) \in Seq(Msgs)
    BY <1>9 DEF RejectOne, TypeOK
  <2>2. outcome' \in [Msgs -> Outcomes] /\ notified' \in [Msgs -> Nat]
    BY <1>9, <2>1, ResolveType DEF RejectOne, Outcomes
  <2>. QED BY <1>9, <2>1, <2>2 DEF RejectOne, TypeOK
<1>10. CASE CloseReturns
  BY <1>10 DEF CloseReturns, TypeOK
<1>11. CASE NextPass
  BY <1>11 DEF NextPass, TypeOK
<1>12. CASE SliceEnds
  BY <1>12 DEF SliceEnds, TypeOK
<1>13. CASE HostCloses
  BY <1>13 DEF HostCloses, CloseInbox, TypeOK
<1>14. CASE RequestStop
  BY <1>14 DEF RequestStop, TypeOK
<1>15. ASSUME NEW m \in Msgs, Offer(m) PROVE TypeOK'
  BY <1>15 DEF Offer, TypeOK
<1>16. CASE UNCHANGED vars
  BY <1>16 DEF TypeOK
<1>. QED BY <1>1, <1>2, <1>3, <1>4, <1>5, <1>6, <1>7, <1>8, <1>9, <1>10,
            <1>11, <1>12, <1>13, <1>14, <1>15, <1>16 DEF Next, Turn

LEMMA TypeInit == Init => TypeOK
<1>. SUFFICES ASSUME Init PROVE TypeOK
  OBVIOUS
<1>1. outcome \in [Msgs -> Outcomes] /\ notified \in [Msgs -> Nat]
  BY DEF Init, Outcomes
<1>. QED BY <1>1, EmptyIsSeq DEF Init, TypeOK, Decisions, Places

THEOREM TypeCorrect == Spec => []TypeOK
BY TypeInit, TypeStep, PTL DEF Spec

-----------------------------------------------------------------------------
(* The inductive invariant.  NothingLost says where an unanswered message  *)
(* is; to be kept by every step it needs to know that the three lists are  *)
(* disjoint and free of repetitions (else answering one occurrence would   *)
(* answer another that is still listed), and which lists can be nonempty   *)
(* where.                                                                  *)

Pending == Elements(queue) \cup Elements(held) \cup Elements(left)

PlaceInv ==
    /\ pc \notin {"reject", "rejectAtEnd"} => left = <<>>
    /\ pc # "resolve" => held = <<>>
    /\ ~open => queue = <<>>
    /\ pc \in {"reject", "rejectAtEnd", "end"} => ~open

ListInv ==
    /\ Once(queue)
    /\ Once(held)
    /\ Once(left)
    /\ Elements(queue) \cap Elements(held) = {}
    /\ Pending \subseteq Elements(accepted)

AnswerInv ==
    \A m \in Msgs : outcome[m] # "none" => m \in Elements(accepted) \ Pending

NotifyInv ==
    \A m \in Msgs : notified[m] = (IF outcome[m] = "none" THEN 0 ELSE 1)

IndInv == TypeOK /\ PlaceInv /\ ListInv /\ AnswerInv /\ NotifyInv

(* Holds when no host listener raises.                                     *)
NoneForgotten ==
    \A m \in Elements(accepted) : outcome[m] = "none" => m \in Pending

(* The lists and outcomes unchanged, only the places have to be checked.   *)
inboxAndLists == <<queue, outcome, notified, accepted, held, left>>

LEMMA ListsUnchanged ==
    ASSUME ListInv, AnswerInv, NotifyInv, UNCHANGED inboxAndLists
    PROVE  ListInv' /\ AnswerInv' /\ NotifyInv' /\ (NoneForgotten => NoneForgotten')
BY DEF ListInv, AnswerInv, NotifyInv, NoneForgotten, Pending, Once, Elements,
       inboxAndLists

(* Answering the head of a list.                                           *)
LEMMA AnswerHead ==
    ASSUME IndInv, NEW s \in Seq(Msgs), s # <<>>, Once(s),
           NEW o \in Outcomes \ {"none"},
           Resolve(Head(s), o),
           NEW rest,
           Pending = Elements(s) \cup rest,
           Pending' = Elements(Tail(s)) \cup rest,
           Elements(s) \cap rest = {},
           accepted' = accepted
    PROVE  AnswerInv' /\ NotifyInv' /\ (NoneForgotten => NoneForgotten')
<1>1. /\ Head(s) \in Msgs
      /\ Elements(Tail(s)) = Elements(s) \ {Head(s)}
      /\ Head(s) \in Elements(s)
  BY HeadTail
<1>2. outcome[Head(s)] = "none"
  BY <1>1 DEF IndInv, AnswerInv
<1>3. /\ outcome' = [outcome EXCEPT ![Head(s)] = o]
      /\ notified' = [notified EXCEPT ![Head(s)] = @ + 1]
  BY <1>2 DEF Resolve
<1>4. \A m \in Msgs : outcome'[m] = IF m = Head(s) THEN o ELSE outcome[m]
  BY <1>1, <1>3 DEF IndInv, TypeOK
<1>5. \A m \in Msgs : notified'[m] = IF m = Head(s) THEN 1 ELSE notified[m]
  BY <1>1, <1>2, <1>3 DEF IndInv, TypeOK, NotifyInv
<1>6. Pending' = Pending \ {Head(s)}
  BY <1>1
<1>7. Elements(accepted') = Elements(accepted) /\ Elements(accepted) \subseteq Msgs
  BY ElementsType DEF IndInv, TypeOK
<1>8. AnswerInv'
  BY <1>1, <1>4, <1>6, <1>7 DEF AnswerInv, IndInv, ListInv
<1>9. NotifyInv'
  BY <1>4, <1>5 DEF NotifyInv, IndInv
<1>10. NoneForgotten => NoneForgotten'
  BY <1>4, <1>6, <1>7 DEF NoneForgotten
<1>. QED BY <1>8, <1>9, <1>10

LEMMA IndInvInit == Init => IndInv /\ NoneForgotten
<1>. SUFFICES ASSUME Init PROVE IndInv /\ NoneForgotten
  OBVIOUS
<1>1. PlaceInv /\ ListInv
  BY ElementsEmpty DEF Init, PlaceInv, ListInv, Pending, Once
<1>2. AnswerInv /\ NotifyInv /\ NoneForgotten
  BY ElementsEmpty DEF Init, AnswerInv, NotifyInv, NoneForgotten
<1>. QED BY <1>1, <1>2, TypeInit DEF IndInv

(* Moving the whole queue into an empty list leaves Pending as it was.     *)
LEMMA QueueMoves ==
    ASSUME IndInv, UNCHANGED <<outcome, notified, accepted>>,
           queue' = <<>>,
           \/ held = <<>> /\ held' = queue /\ left' = left /\ left = <<>>
           \/ left = <<>> /\ left' = queue /\ held' = held /\ held = <<>>
    PROVE  ListInv' /\ AnswerInv' /\ NotifyInv' /\ (NoneForgotten => NoneForgotten')
<1>1. Elements(queue') = {} /\ Once(queue')
  BY ElementsEmpty DEF Once
<1>2. Pending' = Pending
  BY <1>1, ElementsEmpty DEF Pending
<1>3. Once(held') /\ Once(left') /\ Elements(queue') \cap Elements(held') = {}
  BY <1>1 DEF IndInv, ListInv
<1>4. Elements(accepted') = Elements(accepted)
  OBVIOUS
<1>. QED BY <1>1, <1>2, <1>3, <1>4
         DEF IndInv, ListInv, AnswerInv, NotifyInv, NoneForgotten

LEMMA IndInvStep ==
    ASSUME IndInv, [Next]_vars
    PROVE  IndInv' /\ (~raises /\ NoneForgotten => NoneForgotten')
<1>. DEFINE Preserved == /\ PlaceInv' /\ ListInv' /\ AnswerInv' /\ NotifyInv'
                    /\ (~raises /\ NoneForgotten => NoneForgotten')
<1>1. TypeOK /\ PlaceInv /\ ListInv /\ AnswerInv /\ NotifyInv
  BY DEF IndInv
<1>2. ASSUME UNCHANGED inboxAndLists, PlaceInv'
      PROVE  Preserved
  BY <1>1, <1>2, ListsUnchanged
<1>3. ASSUME Pass \/ Abort \/ LeaveQueued \/ CloseReturns \/ NextPass
             \/ SliceEnds \/ RequestStop \/ UNCHANGED vars
      PROVE  Preserved
  <2>1. UNCHANGED inboxAndLists
    BY <1>3 DEF Pass, Abort, LeaveQueued, CloseReturns, NextPass, SliceEnds,
                RequestStop, vars, inboxVars, turnVars, given, inboxAndLists
  <2>2. PlaceInv'
    BY <1>3, <1>1 DEF Pass, Abort, LeaveQueued, CloseReturns, NextPass,
                SliceEnds, RequestStop, vars, inboxVars, turnVars, given, PlaceInv
  <2>. QED BY <2>1, <2>2, <1>2
<1>4. ASSUME AtBoundary PROVE Preserved
  <2>1. CASE singlePass \/ stop
    <3>1. CloseInbox /\ pc' = "reject" /\ held' = held /\ pc = "boundary"
      BY <1>4, <2>1 DEF AtBoundary
    <3>2. PlaceInv'
      BY <3>1, <1>1 DEF CloseInbox, PlaceInv
    <3>3. left = <<>> /\ held = <<>>
      BY <3>1, <1>1 DEF PlaceInv
    <3>. QED BY <3>1, <3>2, <3>3, QueueMoves DEF CloseInbox
  <2>2. CASE ~(singlePass \/ stop)
    BY <1>4, <2>2, <1>1, <1>2
    DEF AtBoundary, PlaceInv, inboxVars, inboxAndLists
  <2>. QED BY <2>1, <2>2
<1>5. ASSUME TakeQueued PROVE Preserved
  <2>1. left = <<>> /\ held = <<>>
    BY <1>5, <1>1 DEF TakeQueued, PlaceInv
  <2>2. PlaceInv'
    BY <1>5, <1>1 DEF TakeQueued, Join, PlaceInv
  <2>. QED BY <1>5, <2>1, <2>2, QueueMoves DEF TakeQueued, Join
<1>6. ASSUME TakeOrClose PROVE Preserved
  <2>1. left = <<>> /\ held = <<>>
    BY <1>6, <1>1 DEF TakeOrClose, PlaceInv
  <2>2. PlaceInv'
    BY <1>6, <1>1 DEF TakeOrClose, Join, PlaceInv
  <2>3. CASE queue # <<>>
    BY <1>6, <2>1, <2>2, <2>3, QueueMoves DEF TakeOrClose, Join
  <2>4. CASE queue = <<>>
    BY <1>6, <2>2, <2>4, <1>2 DEF TakeOrClose, inboxAndLists
  <2>. QED BY <2>3, <2>4
<1>7. ASSUME DeliverOne PROVE Preserved
  <2>1. /\ pc = "resolve" /\ held # <<>> /\ left = <<>>
        /\ held' = Tail(held) /\ Resolve(Head(held), "delivered")
        /\ UNCHANGED <<open, queue, accepted, left>>
    BY <1>7, <1>1 DEF DeliverOne, PlaceInv
  <2>2. /\ held \in Seq(Msgs) /\ Once(held)
        /\ Elements(held) \cap Elements(queue) = {}
    BY <1>1 DEF TypeOK, ListInv
  <2>3. /\ Elements(held') = Elements(held) \ {Head(held)}
        /\ Once(held')
    BY <2>1, <2>2, HeadTail
  <2>4. PlaceInv'
    <3>1. pc' # "resolve" => held' = <<>>
      BY <1>7, <2>1, <2>2 DEF DeliverOne
    <3>. QED BY <1>7, <2>1, <3>1, <1>1 DEF DeliverOne, PlaceInv
  <2>5. /\ Pending = Elements(held) \cup Elements(queue)
        /\ Pending' = Elements(Tail(held)) \cup Elements(queue)
    BY <2>1, ElementsEmpty DEF Pending
  <2>6. AnswerInv' /\ NotifyInv' /\ (NoneForgotten => NoneForgotten')
    BY <2>1, <2>2, <2>5, AnswerHead DEF Outcomes
  <2>7. ListInv'
    BY <2>1, <2>3, <2>5, <1>1 DEF ListInv
  <2>. QED BY <2>4, <2>6, <2>7
<1>8. ASSUME DeliverRaises PROVE Preserved
  <2>1. /\ raises /\ held' = <<>>
        /\ UNCHANGED <<open, queue, outcome, notified, accepted, left>>
    BY <1>8 DEF DeliverRaises, inboxVars
  <2>2. PlaceInv'
    BY <1>8, <1>1, <2>1 DEF DeliverRaises, PlaceInv
  <2>3. Pending' \subseteq Pending /\ Elements(held') = {} /\ Once(held')
    BY <2>1, ElementsEmpty DEF Pending, Once
  <2>. QED BY <2>1, <2>2, <2>3, <1>1 DEF ListInv, AnswerInv, NotifyInv
<1>9. ASSUME RejectOne PROVE Preserved
  <2>1. /\ pc \in {"reject", "rejectAtEnd"} /\ left # <<>> /\ held = <<>>
        /\ left' = Tail(left) /\ Resolve(Head(left), "rejected")
        /\ queue = <<>>
        /\ UNCHANGED <<open, queue, accepted, held, pc>>
    BY <1>9, <1>1 DEF RejectOne, PlaceInv
  <2>2. left \in Seq(Msgs) /\ Once(left)
    BY <1>1 DEF TypeOK, ListInv
  <2>3. Elements(left') = Elements(left) \ {Head(left)} /\ Once(left')
    BY <2>1, <2>2, HeadTail
  <2>4. PlaceInv'
    BY <2>1, <1>1 DEF PlaceInv
  <2>5. /\ Pending = Elements(left) \cup Elements(queue)
        /\ Pending' = Elements(Tail(left)) \cup Elements(queue)
        /\ Elements(left) \cap Elements(queue) = {}
    BY <2>1, ElementsEmpty DEF Pending
  <2>6. AnswerInv' /\ NotifyInv' /\ (NoneForgotten => NoneForgotten')
    BY <2>1, <2>2, <2>5, AnswerHead DEF Outcomes
  <2>7. ListInv'
    BY <2>1, <2>3, <2>5, <1>1 DEF ListInv
  <2>. QED BY <2>4, <2>6, <2>7
<1>10. ASSUME HostCloses PROVE Preserved
  <2>1. left = <<>> /\ held = <<>>
    BY <1>10, <1>1 DEF HostCloses, PlaceInv
  <2>2. PlaceInv'
    BY <1>10, <1>1 DEF HostCloses, CloseInbox, PlaceInv
  <2>. QED BY <1>10, <2>1, <2>2, QueueMoves DEF HostCloses, CloseInbox
<1>11. ASSUME NEW m \in Msgs, Offer(m) PROVE Preserved
  <2>1. /\ open /\ m \notin Elements(accepted)
        /\ queue' = Append(queue, m) /\ accepted' = Append(accepted, m)
        /\ UNCHANGED <<open, outcome, notified, held, left, pc>>
    BY <1>11 DEF Offer, turnVars, given
  <2>2. /\ Elements(queue') = Elements(queue) \cup {m}
        /\ Elements(accepted') = Elements(accepted) \cup {m}
        /\ m \notin Pending
    BY <2>1, <1>1, ElementsAppend DEF TypeOK, ListInv
  <2>3. Once(queue')
    BY <2>1, <2>2, <1>1, OnceAppend DEF TypeOK, ListInv, Pending
  <2>4. Pending' = Pending \cup {m}
    BY <2>1, <2>2 DEF Pending
  <2>5. PlaceInv'
    BY <2>1, <1>1 DEF PlaceInv
  <2>6. outcome[m] = "none"
    BY <2>1, <1>1 DEF AnswerInv
  <2>7. ListInv'
    BY <2>1, <2>2, <2>3, <2>4, <1>1 DEF ListInv, Pending
  <2>8. AnswerInv' /\ NotifyInv' /\ (NoneForgotten => NoneForgotten')
    BY <2>1, <2>2, <2>4, <2>6, <1>1
    DEF AnswerInv, NotifyInv, NoneForgotten
  <2>. QED BY <2>5, <2>7, <2>8
<1>12. Preserved
  BY <1>3, <1>4, <1>5, <1>6, <1>7, <1>8, <1>9, <1>10, <1>11 DEF Next, Turn
<1>. QED BY <1>1, <1>12, TypeStep DEF IndInv

(* Whether the host's listener raises is a fact about the host.            *)
LEMMA RaisesFixed == [Next]_vars => raises' = raises
<1>1. ASSUME NEW m \in Msgs, Offer(m) PROVE given' = given
  BY <1>1 DEF Offer, turnVars
<1>2. CASE RequestStop
  BY <1>2 DEF RequestStop, turnVars, given
<1>3. CASE Turn
  BY <1>3 DEF Turn, Pass, Abort, AtBoundary, TakeQueued, TakeOrClose,
       LeaveQueued, DeliverOne, DeliverRaises, RejectOne, CloseReturns,
       NextPass, SliceEnds, HostCloses, turnVars, given
<1>4. CASE UNCHANGED vars
  BY <1>4 DEF vars, turnVars, given
<1>. QED BY <1>1, <1>2, <1>3, <1>4 DEF Next, given

SafeInv == IndInv /\ (~raises => NoneForgotten)

LEMMA SafeAlways == Spec => []SafeInv
<1>1. Init => SafeInv
  BY IndInvInit DEF SafeInv
<1>2. SafeInv /\ [Next]_vars => SafeInv'
  BY IndInvStep, RaisesFixed DEF SafeInv
<1>. QED BY <1>1, <1>2, PTL DEF Spec

(* Every accepted message has, once the host closed the inbox, exactly one *)
(* outcome of which the host was told exactly once: for any number of      *)
(* messages, offered at any point of the turn.  (contract of core/steer.py)*)
THEOREM OneOutcome == Spec => []OneOutcomeEach
<1>1. SafeInv => OneOutcomeEach
  <2>1. ASSUME IndInv, NoneForgotten, pc = "end", NEW m \in Elements(accepted)
        PROVE  outcome[m] # "none" /\ notified[m] = 1
    <3>1. Pending = {}
      BY <2>1, ElementsEmpty DEF IndInv, PlaceInv, Pending
    <3>2. m \in Msgs
      BY <2>1, ElementsType DEF IndInv, TypeOK
    <3>. QED BY <2>1, <3>1, <3>2 DEF IndInv, NoneForgotten, NotifyInv
  <2>. QED BY <2>1 DEF SafeInv, OneOutcomeEach
<1>. QED BY <1>1, SafeAlways, PTL

(* Until it is answered, an accepted message is always where the turn's    *)
(* thread will still look.  (offer, take, take_or_close, close, resolve)   *)
THEOREM Conservation == Spec => []NothingLost
<1>1. SafeInv => NothingLost
  BY ElementsType
  DEF SafeInv, IndInv, TypeOK, AnswerInv, NoneForgotten, NothingLost, Pending
<1>. QED BY <1>1, SafeAlways, PTL

(* The inbox never reopens and an outcome never changes, even when a host  *)
(* listener raises.  (resolve, close)                                      *)
THEOREM FinalOutcomes == Spec => OutcomesAreFinal
<1>1. ASSUME IndInv, [Next]_vars
      PROVE  /\ ~open => ~open'
             /\ \A m \in Msgs : outcome[m] # "none" => outcome'[m] = outcome[m]
  <2>. USE DEF IndInv, TypeOK, inboxVars, turnVars, given, vars
  <2>1. ASSUME NEW m \in Msgs, NEW o, NEW x \in Msgs, Resolve(x, o),
               outcome[m] # "none"
        PROVE  outcome'[m] = outcome[m]
    <3>1. CASE outcome[x] = "none"
      BY <1>1, <2>1, <3>1 DEF Resolve
    <3>2. CASE outcome[x] # "none"
      BY <2>1, <3>2 DEF Resolve
    <3>. QED BY <3>1, <3>2
  <2>2. CASE DeliverOne
    <3>1. Head(held) \in Msgs
      BY <1>1, <2>2 DEF DeliverOne
    <3>. QED BY <2>1, <2>2, <3>1 DEF DeliverOne
  <2>3. CASE RejectOne
    <3>1. Head(left) \in Msgs
      BY <1>1, <2>3 DEF RejectOne
    <3>. QED BY <2>1, <2>3, <3>1 DEF RejectOne
  <2>4. CASE AtBoundary \/ TakeOrClose \/ HostCloses
    BY <2>4 DEF AtBoundary, TakeOrClose, HostCloses, CloseInbox
  <2>5. CASE \/ Pass \/ Abort \/ TakeQueued \/ LeaveQueued \/ DeliverRaises
             \/ CloseReturns \/ NextPass \/ SliceEnds \/ RequestStop
             \/ UNCHANGED vars \/ \E m \in Msgs : Offer(m)
    BY <2>5 DEF Pass, Abort, TakeQueued, LeaveQueued, DeliverRaises,
                CloseReturns, NextPass, SliceEnds, RequestStop, Offer
  <2>. QED BY <1>1, <2>2, <2>3, <2>4, <2>5 DEF Next, Turn
<1>2. Init => IndInv
  BY IndInvInit
<1>3. IndInv /\ [Next]_vars => IndInv'
  BY IndInvStep
<1>. QED BY <1>1, <1>2, <1>3, PTL DEF Spec, OutcomesAreFinal

-----------------------------------------------------------------------------
(* The conversation and the queue, end to end, are what was accepted, as   *)
(* long as the inbox is open; a closed one has nothing queued.             *)
OrderInv ==
    /\ Len(convo) + Len(queue) <= Len(accepted)
    /\ open => Len(convo) + Len(queue) = Len(accepted)
    /\ ~open => queue = <<>>
    /\ \A i \in DOMAIN convo : convo[i] = accepted[i]
    /\ \A i \in DOMAIN queue : queue[i] = accepted[Len(convo) + i]

LEMMA OrderJoin ==
    ASSUME TypeOK, OrderInv, queue' = <<>>, convo' = convo \o queue,
           UNCHANGED <<open, accepted>>
    PROVE  OrderInv'
<1>1. /\ Len(convo') = Len(convo) + Len(queue)
      /\ \A i \in 1 .. Len(convo) + Len(queue) :
            convo'[i] = IF i <= Len(convo) THEN convo[i]
                        ELSE queue[i - Len(convo)]
      /\ DOMAIN convo' = 1 .. Len(convo) + Len(queue)
      /\ DOMAIN convo = 1 .. Len(convo)
      /\ DOMAIN queue = 1 .. Len(queue)
      /\ Len(convo) \in Nat /\ Len(queue) \in Nat
  BY DEF TypeOK
<1>2. \A i \in DOMAIN convo' : convo'[i] = accepted[i]
  <2>. SUFFICES ASSUME NEW i \in DOMAIN convo' PROVE convo'[i] = accepted[i]
    OBVIOUS
  <2>1. CASE i <= Len(convo)
    BY <1>1, <2>1 DEF OrderInv
  <2>2. CASE i > Len(convo)
    <3>1. /\ i - Len(convo) \in DOMAIN queue
          /\ Len(convo) + (i - Len(convo)) = i
          /\ convo'[i] = queue[i - Len(convo)]
      BY <1>1, <2>2
    <3>. QED BY <3>1 DEF OrderInv
  <2>. QED BY <1>1, <2>1, <2>2
<1>3. Len(queue') = 0 /\ DOMAIN queue' = {}
  OBVIOUS
<1>. QED BY <1>1, <1>2, <1>3 DEF OrderInv

LEMMA OrderStep ==
    ASSUME TypeOK, OrderInv, [Next]_vars PROVE OrderInv'
<1>. USE DEF inboxVars, turnVars, given, vars
<1>1. ASSUME UNCHANGED <<open, queue, accepted, convo>> PROVE OrderInv'
  BY <1>1 DEF OrderInv
<1>2. CASE TakeQueued
  BY <1>2, OrderJoin DEF TakeQueued, Join
<1>3. CASE TakeOrClose
  <2>1. CASE queue # <<>>
    BY <1>3, <2>1, OrderJoin DEF TakeOrClose, Join
  <2>2. CASE queue = <<>>
    BY <1>3, <2>2 DEF TakeOrClose, OrderInv
  <2>. QED BY <2>1, <2>2
<1>4. ASSUME CloseInbox, convo' = convo PROVE OrderInv'
  <2>1. /\ open' = FALSE /\ queue' = <<>> /\ accepted' = accepted
        /\ Len(convo') + Len(queue') = Len(convo)
        /\ Len(convo) <= Len(accepted)
    BY <1>4 DEF CloseInbox, TypeOK, OrderInv
  <2>2. DOMAIN queue' = {}
    BY <2>1
  <2>. QED BY <1>4, <2>1, <2>2 DEF OrderInv
<1>5. ASSUME NEW m \in Msgs, Offer(m) PROVE OrderInv'
  <2>1. /\ open /\ open' = open /\ convo' = convo
        /\ queue' = Append(queue, m) /\ accepted' = Append(accepted, m)
    BY <1>5 DEF Offer
  <2>2. /\ Len(queue') = Len(queue) + 1
        /\ Len(accepted') = Len(accepted) + 1
        /\ Len(accepted) = Len(convo) + Len(queue)
        /\ DOMAIN queue' = 1 .. Len(queue) + 1
        /\ DOMAIN queue = 1 .. Len(queue)
        /\ DOMAIN convo = 1 .. Len(convo)
        /\ \A i \in 1 .. Len(queue) : queue'[i] = queue[i]
        /\ queue'[Len(queue) + 1] = m
        /\ \A i \in 1 .. Len(accepted) : accepted'[i] = accepted[i]
        /\ accepted'[Len(accepted) + 1] = m
        /\ Len(queue) \in Nat /\ Len(convo) \in Nat
    BY <2>1 DEF TypeOK, OrderInv
  <2>3. \A i \in DOMAIN convo : convo[i] = accepted'[i]
    BY <2>2 DEF OrderInv
  <2>4. \A i \in DOMAIN queue' : queue'[i] = accepted'[Len(convo) + i]
    <3>. SUFFICES ASSUME NEW i \in 1 .. Len(queue) + 1
                  PROVE  queue'[i] = accepted'[Len(convo) + i]
      BY <2>2
    <3>1. CASE i = Len(queue) + 1
      BY <2>2, <3>1
    <3>2. CASE i \in 1 .. Len(queue)
      <4>1. Len(convo) + i \in 1 .. Len(accepted)
        BY <2>2, <3>2
      <4>. QED BY <2>2, <3>2, <4>1 DEF OrderInv
    <3>. QED BY <2>2, <3>1, <3>2
  <2>5. Len(convo) + Len(queue') = Len(accepted')
    BY <2>2
  <2>6. Len(convo) + Len(queue') <= Len(accepted')
    BY <2>2
  <2>. QED BY ONLY <2>1, <2>3, <2>4, <2>5, <2>6 DEF OrderInv
<1>6. CASE AtBoundary
  BY <1>6, <1>1, <1>4 DEF AtBoundary
<1>7. CASE HostCloses
  BY <1>7, <1>4 DEF HostCloses
<1>8. CASE \/ Pass \/ Abort \/ LeaveQueued \/ DeliverOne \/ DeliverRaises
           \/ RejectOne \/ CloseReturns \/ NextPass \/ SliceEnds
           \/ RequestStop \/ UNCHANGED vars
  BY <1>8, <1>1 DEF Pass, Abort, LeaveQueued, DeliverOne, DeliverRaises,
                    RejectOne, CloseReturns, NextPass, SliceEnds, RequestStop
<1>. QED BY <1>2, <1>3, <1>5, <1>6, <1>7, <1>8 DEF Next, Turn

(* The user's messages join the conversation in the order they were        *)
(* accepted, none left out before a later one, even when a listener        *)
(* raises.  (offer, take, take_or_close, append_steer)                     *)
THEOREM InOrder == Spec => []ConvoIsAcceptedPrefix
<1>1. Init => OrderInv
  BY DEF Init, OrderInv
<1>2. (TypeOK /\ OrderInv) /\ [Next]_vars => (TypeOK /\ OrderInv)'
  BY OrderStep, TypeStep
<1>3. TypeOK /\ OrderInv => ConvoIsAcceptedPrefix
  BY DEF TypeOK, OrderInv, ConvoIsAcceptedPrefix
<1>. QED BY <1>1, <1>2, <1>3, TypeInit, PTL DEF Spec

-----------------------------------------------------------------------------
(* What each message has become, by its place in the order of acceptance:  *)
(* the conversation has the first Len(convo) messages, of which the turn's *)
(* thread holds the last ones without an outcome; of the others, those     *)
(* that close() took are the last ones.                                    *)
Turning == pc \in {"stages", "boundary", "take", "resolve", "verdict", "reject"}

OutcomeAt(i) ==
    /\ i <= Len(convo) => outcome[accepted[i]] # "rejected"
    /\ i > Len(convo)  => outcome[accepted[i]] # "delivered"
    /\ i > Len(convo) /\ open => outcome[accepted[i]] = "none"
    /\ i <= Len(convo) - Len(held) /\ Turning => outcome[accepted[i]] = "delivered"

HeldInv ==
    /\ Len(held) <= Len(convo)
    /\ \A i \in DOMAIN held : held[i] = accepted[Len(convo) - Len(held) + i]

LeftInv ==
    /\ Len(convo) + Len(left) <= Len(accepted)
    /\ \A i \in DOMAIN left : left[i] = accepted[Len(accepted) - Len(left) + i]

PositionInv ==
    /\ Once(accepted)
    /\ \A i \in DOMAIN accepted : OutcomeAt(i)
    /\ pc = "resolve" => open
    /\ HeldInv
    /\ LeftInv

FullInv == IndInv /\ OrderInv /\ PositionInv

LEMMA FullFacts ==
    ASSUME FullInv
    PROVE  /\ TypeOK /\ PlaceInv /\ ListInv /\ AnswerInv /\ OrderInv /\ PositionInv
           /\ DOMAIN accepted = 1 .. Len(accepted) /\ Len(accepted) \in Nat
           /\ DOMAIN convo = 1 .. Len(convo) /\ Len(convo) \in Nat
           /\ DOMAIN queue = 1 .. Len(queue) /\ Len(queue) \in Nat
           /\ DOMAIN held = 1 .. Len(held) /\ Len(held) \in Nat
           /\ DOMAIN left = 1 .. Len(left) /\ Len(left) \in Nat
           /\ Len(convo) <= Len(accepted)
<1>1. TypeOK /\ PlaceInv /\ ListInv /\ AnswerInv /\ OrderInv /\ PositionInv
  BY DEF FullInv, IndInv
<1>2. /\ accepted \in Seq(Msgs) /\ convo \in Seq(Msgs) /\ queue \in Seq(Msgs)
      /\ held \in Seq(Msgs) /\ left \in Seq(Msgs)
  BY <1>1 DEF TypeOK
<1>3. Len(convo) <= Len(accepted)
  BY <1>1 DEF OrderInv
<1> QED BY <1>1, <1>2, <1>3

(* The head of what the turn's thread holds is the oldest message of the   *)
(* conversation without an outcome.                                        *)
LEMMA HeadHeld ==
    ASSUME FullInv, pc = "resolve", held # <<>>
    PROVE  \E i \in DOMAIN accepted :
              /\ i = Len(convo) - Len(held) + 1
              /\ accepted[i] = Head(held) /\ Head(held) \in Msgs
              /\ \A k \in DOMAIN accepted :
                    outcome[accepted[k]] = IF k < i THEN "delivered" ELSE "none"
<1> DEFINE i == Len(convo) - Len(held) + 1
<1>1. Len(held) > 0 /\ 1 \in DOMAIN held /\ Head(held) = held[1]
  BY FullFacts DEF TypeOK
<1>2. i \in DOMAIN accepted /\ accepted[i] = Head(held) /\ Head(held) \in Msgs
  <2>1. Len(held) <= Len(convo)
    BY FullFacts DEF PositionInv, HeldInv
  <2>2. i \in DOMAIN accepted
    BY <1>1, <2>1, FullFacts
  <2>3. held[1] = accepted[i]
    BY <1>1, FullFacts DEF PositionInv, HeldInv
  <2>4. accepted[i] \in Msgs
    BY <2>2, FullFacts DEF TypeOK
  <2> QED BY <1>1, <2>2, <2>3, <2>4
<1>3. ASSUME NEW k \in DOMAIN accepted
      PROVE  outcome[accepted[k]] = IF k < i THEN "delivered" ELSE "none"
  <2>1. CASE k < i
    <3>1. k <= Len(convo) - Len(held) /\ Turning
      BY <2>1, FullFacts DEF Turning
    <3> QED BY <2>1, <3>1, FullFacts DEF PositionInv, OutcomeAt
  <2>2. CASE k >= i /\ k <= Len(convo)
    <3>1. /\ k - i + 1 \in DOMAIN held
          /\ accepted[k] = held[k - i + 1]
      BY <2>2, FullFacts DEF PositionInv, HeldInv
    <3>2. accepted[k] \in Pending
      BY <3>1 DEF Pending, Elements
    <3>3. accepted[k] \in Msgs
      BY FullFacts DEF TypeOK
    <3> QED BY <2>2, <3>2, <3>3, FullFacts DEF AnswerInv
  <2>3. CASE k > Len(convo)
    <3>1. ~(k < i)
      BY <2>3, <1>1, FullFacts
    <3> QED BY <2>3, <3>1, FullFacts DEF PositionInv, OutcomeAt
  <2> QED BY <2>1, <2>2, <2>3, FullFacts
<1> QED BY <1>2, <1>3

(* The head of what close() took is the oldest message of that rest.       *)
LEMMA HeadLeft ==
    ASSUME FullInv, left # <<>>
    PROVE  \E i \in DOMAIN accepted :
              /\ i = Len(accepted) - Len(left) + 1 /\ i > Len(convo)
              /\ accepted[i] = Head(left) /\ Head(left) \in Msgs
              /\ \A k \in DOMAIN accepted : k >= i => outcome[accepted[k]] = "none"
<1> DEFINE i == Len(accepted) - Len(left) + 1
<1>1. Len(left) > 0 /\ 1 \in DOMAIN left /\ Head(left) = left[1]
  BY FullFacts DEF TypeOK
<1>2. /\ i \in DOMAIN accepted /\ i > Len(convo)
      /\ accepted[i] = Head(left) /\ Head(left) \in Msgs
  <2>1. Len(convo) + Len(left) <= Len(accepted)
    BY FullFacts DEF PositionInv, LeftInv
  <2>2. i \in DOMAIN accepted /\ i > Len(convo)
    BY <1>1, <2>1, FullFacts
  <2>3. left[1] = accepted[i]
    BY <1>1, FullFacts DEF PositionInv, LeftInv
  <2>4. accepted[i] \in Msgs
    BY <2>2, FullFacts DEF TypeOK
  <2> QED BY <1>1, <2>2, <2>3, <2>4
<1>3. ASSUME NEW k \in DOMAIN accepted, k >= i PROVE outcome[accepted[k]] = "none"
  <2>1. k - i + 1 \in DOMAIN left /\ accepted[k] = left[k - i + 1]
    <3>1. Len(accepted) - Len(left) + (k - i + 1) = k /\ k - i + 1 \in DOMAIN left
      BY <1>3, FullFacts
    <3>2. \A j \in DOMAIN left : left[j] = accepted[Len(accepted) - Len(left) + j]
      BY FullFacts DEF PositionInv, LeftInv
    <3> QED BY ONLY <3>1, <3>2
  <2>2. accepted[k] \in Pending
    BY <2>1 DEF Pending, Elements
  <2>3. accepted[k] \in Msgs
    BY FullFacts DEF TypeOK
  <2> QED BY <2>2, <2>3, FullFacts DEF AnswerInv
<1> QED BY <1>2, <1>3

LEMMA PositionInit == Init => PositionInv
BY DEF Init, PositionInv, OutcomeAt, HeldInv, LeftInv, Once

(* Steps that move no message.                                             *)
LEMMA PositionFrame ==
    ASSUME PositionInv, UNCHANGED <<outcome, accepted, convo, held, left>>,
           open' => open, pc' = "resolve" => open', Turning' => Turning
    PROVE  PositionInv'
<1>1. ASSUME NEW i \in DOMAIN accepted PROVE OutcomeAt(i)'
  BY DEF PositionInv, OutcomeAt
<1>2. HeldInv' /\ LeftInv' /\ Once(accepted')
  BY DEF PositionInv, HeldInv, LeftInv
<1> QED BY <1>1, <1>2 DEF PositionInv

LEMMA PositionClose ==
    ASSUME FullInv, CloseInbox, UNCHANGED <<convo, held>>,
           pc' # "resolve", Turning' => Turning
    PROVE  PositionInv'
<1> USE FullFacts DEF CloseInbox
<1>1. ASSUME NEW i \in DOMAIN accepted PROVE OutcomeAt(i)'
  BY DEF PositionInv, OutcomeAt
<1>2. HeldInv' /\ Once(accepted')
  BY DEF PositionInv, HeldInv
<1>3. LeftInv'
  <2>1. CASE queue = <<>>
    BY <2>1 DEF LeftInv
  <2>2. CASE queue # <<>>
    <3>1. Len(convo) + Len(queue) = Len(accepted)
      BY <2>2, Zenon DEF OrderInv
    <3>2. Len(accepted) - Len(queue) = Len(convo)
      BY ONLY <3>1, FullInv, FullFacts
    <3>3. Len(convo) + Len(queue) <= Len(accepted)
      BY ONLY <3>1, FullInv, FullFacts
    <3>4. \A i \in DOMAIN queue : queue[i] = accepted[Len(accepted) - Len(queue) + i]
      BY <3>2 DEF OrderInv
    <3> QED BY <3>3, <3>4 DEF LeftInv
  <2> QED BY <2>1, <2>2
<1> QED BY <1>1, <1>2, <1>3 DEF PositionInv

LEMMA PositionTake ==
    ASSUME FullInv, pc = "take", Join(queue), pc' = "resolve" => queue # <<>>,
           UNCHANGED <<open, outcome, accepted, left>>
    PROVE  PositionInv'
<1> USE FullFacts
<1>1. /\ held = <<>> /\ left = <<>> /\ held' = queue /\ convo' = convo \o queue
      /\ Len(convo') = Len(convo) + Len(queue)
  BY DEF Join, PlaceInv, TypeOK
<1>2. queue # <<>> => open
  BY DEF PlaceInv
<1>3. ASSUME NEW i \in DOMAIN accepted PROVE OutcomeAt(i)'
  <2>1. Len(convo') - Len(held') = Len(convo) - Len(held)
    BY <1>1
  <2>2. CASE i <= Len(convo) \/ i > Len(convo')
    BY <1>1, <2>1, <2>2 DEF PositionInv, OutcomeAt, Turning
  <2>3. CASE i > Len(convo) /\ i <= Len(convo')
    <3>1. queue # <<>> /\ i > Len(convo') - Len(held')
      BY <1>1, <2>3
    <3>2. outcome[accepted[i]] = "none"
      BY <1>2, <2>3, <3>1 DEF PositionInv, OutcomeAt
    <3> QED BY <1>1, <2>3, <3>1, <3>2 DEF OutcomeAt
  <2> QED BY <1>1, <2>2, <2>3
<1>4. HeldInv'
  <2>1. Len(convo') - Len(held') = Len(convo) /\ Len(held') <= Len(convo')
    BY <1>1
  <2>2. \A i \in DOMAIN held' : held'[i] = accepted[Len(convo') - Len(held') + i]
    BY <1>1, <2>1 DEF OrderInv
  <2> QED BY <2>1, <2>2 DEF HeldInv
<1>5. LeftInv'
  <2>1. Len(convo) + Len(queue) <= Len(accepted)
    BY DEF OrderInv
  <2>2. left' = <<>> /\ Len(left') = 0 /\ DOMAIN left' = {}
    BY <1>1
  <2>3. Len(convo') + Len(left') <= Len(accepted')
    BY <1>1, <2>1, <2>2
  <2> QED BY <2>2, <2>3 DEF LeftInv
<1>6. Once(accepted')
  BY DEF PositionInv
<1> QED BY <1>2, <1>3, <1>4, <1>5, <1>6 DEF PositionInv

LEMMA PositionDeliver ==
    ASSUME FullInv, DeliverOne PROVE PositionInv'
<1> USE FullFacts
<1>1. PICK i \in DOMAIN accepted :
          /\ i = Len(convo) - Len(held) + 1
          /\ accepted[i] = Head(held) /\ Head(held) \in Msgs
          /\ \A k \in DOMAIN accepted :
                outcome[accepted[k]] = IF k < i THEN "delivered" ELSE "none"
  BY HeadHeld DEF DeliverOne
<1>2. /\ held' = Tail(held) /\ held # <<>> /\ Len(held') = Len(held) - 1
      /\ pc = "resolve" /\ pc' \in {"resolve", "verdict"} /\ open
      /\ \A k \in 1 .. Len(held) - 1 : held'[k] = held[k + 1]
      /\ UNCHANGED <<open, accepted, convo, left>>
  BY DEF DeliverOne, TypeOK, PositionInv
<1>3. outcome' = [outcome EXCEPT ![accepted[i]] = "delivered"]
  <2>1. outcome[accepted[i]] = "none"
    <3>1. ~ (i < i)
      BY <1>1
    <3> QED BY <1>1, <3>1
  <2> QED BY <1>1, <2>1 DEF DeliverOne, Resolve
<1>4. \A k \in DOMAIN accepted :
         outcome'[accepted[k]] = IF k <= i THEN "delivered" ELSE "none"
  <2>1. \A k \in DOMAIN accepted : accepted[k] \in Msgs
    BY DEF TypeOK
  <2>2. \A k \in DOMAIN accepted : k # i => accepted[k] # accepted[i]
    BY DEF PositionInv, Once
  <2>3. \A k \in DOMAIN accepted :
           outcome'[accepted[k]] = IF k = i THEN "delivered" ELSE outcome[accepted[k]]
    BY <1>3, <2>1, <2>2 DEF TypeOK
  <2> QED BY <1>1, <2>3
<1>5. i <= Len(convo) /\ i = Len(convo) - Len(held')
  BY <1>1, <1>2
<1>6. ASSUME NEW k \in DOMAIN accepted PROVE OutcomeAt(k)'
  BY <1>2, <1>4, <1>5 DEF OutcomeAt
<1>7. HeldInv'
  <2>1. Len(held') <= Len(convo')
    BY <1>2 DEF PositionInv, HeldInv
  <2>2. DOMAIN held' = 1 .. Len(held) - 1
    BY <1>2 DEF TypeOK
  <2>3. ASSUME NEW k \in 1 .. Len(held) - 1
        PROVE  held'[k] = accepted[Len(convo) - Len(held') + k]
    <3>0. k + 1 \in DOMAIN held
      OBVIOUS
    <3>1. held[k + 1] = accepted[Len(convo) - Len(held) + (k + 1)]
      BY <3>0 DEF PositionInv, HeldInv
    <3>2. Len(convo) - Len(held) + (k + 1) = Len(convo) - Len(held') + k
      BY <1>2
    <3> QED BY <1>2, <3>1, <3>2
  <2> QED BY <1>2, <2>1, <2>2, <2>3 DEF HeldInv
<1>8. LeftInv' /\ Once(accepted')
  BY <1>2 DEF PositionInv, LeftInv
<1> QED BY <1>2, <1>6, <1>7, <1>8 DEF PositionInv

LEMMA PositionReject ==
    ASSUME FullInv, RejectOne PROVE PositionInv'
<1> USE FullFacts
<1>1. PICK i \in DOMAIN accepted :
          /\ i = Len(accepted) - Len(left) + 1 /\ i > Len(convo)
          /\ accepted[i] = Head(left) /\ Head(left) \in Msgs
          /\ \A k \in DOMAIN accepted : k >= i => outcome[accepted[k]] = "none"
  BY HeadLeft DEF RejectOne
<1>2. /\ left' = Tail(left) /\ left # <<>> /\ Len(left') = Len(left) - 1
      /\ ~open /\ pc' = pc /\ pc # "resolve"
      /\ \A k \in 1 .. Len(left) - 1 : left'[k] = left[k + 1]
      /\ UNCHANGED <<open, accepted, convo, held>>
  BY DEF RejectOne, TypeOK, PlaceInv
<1>3. outcome' = [outcome EXCEPT ![accepted[i]] = "rejected"]
  BY <1>1 DEF RejectOne, Resolve
<1>4. \A k \in DOMAIN accepted :
         outcome'[accepted[k]] = IF k = i THEN "rejected" ELSE outcome[accepted[k]]
  <2>1. \A k \in DOMAIN accepted : accepted[k] \in Msgs
    BY DEF TypeOK
  <2>2. \A k \in DOMAIN accepted : k # i => accepted[k] # accepted[i]
    BY DEF PositionInv, Once
  <2> QED BY <1>3, <2>1, <2>2 DEF TypeOK
<1>5. ASSUME NEW k \in DOMAIN accepted PROVE OutcomeAt(k)'
  BY <1>1, <1>2, <1>4 DEF OutcomeAt, PositionInv, Turning
<1>6. LeftInv'
  <2>1. Len(convo') + Len(left') <= Len(accepted')
    BY <1>2 DEF PositionInv, LeftInv
  <2>2. DOMAIN left' = 1 .. Len(left) - 1
    BY <1>2 DEF TypeOK
  <2>3. ASSUME NEW k \in 1 .. Len(left) - 1
        PROVE  left'[k] = accepted[Len(accepted) - Len(left') + k]
    <3>0. k + 1 \in DOMAIN left
      OBVIOUS
    <3>1. left[k + 1] = accepted[Len(accepted) - Len(left) + (k + 1)]
      BY <3>0 DEF PositionInv, LeftInv
    <3>2. Len(accepted) - Len(left) + (k + 1) = Len(accepted) - Len(left') + k
      BY <1>2
    <3> QED BY <1>2, <3>1, <3>2
  <2> QED BY <1>2, <2>1, <2>2, <2>3 DEF LeftInv
<1>7. HeldInv' /\ Once(accepted')
  BY <1>2 DEF PositionInv, HeldInv
<1> QED BY <1>2, <1>5, <1>6, <1>7 DEF PositionInv

LEMMA PositionOffer ==
    ASSUME FullInv, NEW m \in Msgs, Offer(m) PROVE PositionInv'
<1> USE FullFacts
<1>1. /\ open /\ m \notin Elements(accepted) /\ accepted' = Append(accepted, m)
      /\ UNCHANGED <<open, outcome, convo, held, left, pc>>
      /\ left = <<>>
  BY DEF Offer, turnVars, PlaceInv
<1>2. /\ DOMAIN accepted' = 1 .. Len(accepted) + 1
      /\ Len(accepted') = Len(accepted) + 1
      /\ \A i \in DOMAIN accepted : accepted'[i] = accepted[i]
      /\ accepted'[Len(accepted) + 1] = m
  BY <1>1 DEF TypeOK
<1>3. outcome[m] = "none"
  BY <1>1 DEF AnswerInv
<1>4. Once(accepted')
  BY <1>1, OnceAppend DEF PositionInv, TypeOK
<1>5. ASSUME NEW i \in DOMAIN accepted' PROVE OutcomeAt(i)'
  <2>1. CASE i \in DOMAIN accepted
    BY <1>1, <1>2, <2>1 DEF PositionInv, OutcomeAt, Turning
  <2>2. CASE i = Len(accepted) + 1
    <3>1. ~(i <= Len(convo)) /\ ~(i <= Len(convo) - Len(held))
      BY <2>2
    <3> QED BY <1>1, <1>2, <1>3, <2>2, <3>1 DEF OutcomeAt
  <2> QED BY <1>2, <2>1, <2>2
<1>6. HeldInv'
  <2>1. \A i \in DOMAIN held : Len(convo) - Len(held) + i \in DOMAIN accepted
    BY DEF PositionInv, HeldInv
  <2> QED BY <1>1, <1>2, <2>1 DEF PositionInv, HeldInv
<1>7. LeftInv'
  BY <1>1, <1>2 DEF LeftInv
<1> QED BY <1>1, <1>4, <1>5, <1>6, <1>7 DEF PositionInv

LEMMA PositionStep == FullInv /\ [Next]_vars => PositionInv'
<1> SUFFICES ASSUME FullInv, [Next]_vars PROVE PositionInv'
  OBVIOUS
<1> USE FullFacts DEF inboxVars, turnVars, given, vars
<1>1. CASE \/ Pass \/ Abort \/ LeaveQueued \/ CloseReturns \/ NextPass
           \/ SliceEnds \/ RequestStop \/ UNCHANGED vars
  <2>1. /\ UNCHANGED <<open, outcome, accepted, convo, held, left>>
        /\ \/ pc' = pc
           \/ pc' # "resolve" /\ (Turning' => Turning)
    BY <1>1 DEF Pass, Abort, LeaveQueued, CloseReturns, NextPass, SliceEnds,
                RequestStop, Turning
  <2>2. Turning' => Turning
    BY <2>1 DEF Turning
  <2> QED BY <2>1, <2>2, PositionFrame DEF PositionInv
<1>2. CASE AtBoundary
  <2>1. CASE singlePass \/ stop
    BY <1>2, <2>1, PositionClose DEF AtBoundary, Turning
  <2>2. CASE ~(singlePass \/ stop)
    BY <1>2, <2>2, PositionFrame DEF AtBoundary, Turning
  <2> QED BY <2>1, <2>2
<1>3. CASE TakeQueued
  BY <1>3, PositionTake DEF TakeQueued
<1>4. CASE TakeOrClose
  <2>1. CASE queue # <<>>
    BY <1>4, <2>1, PositionTake DEF TakeOrClose
  <2>2. CASE queue = <<>>
    BY <1>4, <2>2, PositionFrame DEF TakeOrClose, Turning
  <2> QED BY <2>1, <2>2
<1>5. CASE DeliverRaises
  <2>1. /\ UNCHANGED <<open, outcome, accepted, convo, left>>
        /\ held' = <<>> /\ pc' = "over" /\ ~Turning'
    BY <1>5 DEF DeliverRaises, Turning
  <2>2. \A i \in DOMAIN accepted : OutcomeAt(i)'
    BY <2>1 DEF PositionInv, OutcomeAt
  <2>3. HeldInv' /\ LeftInv' /\ Once(accepted')
    BY <2>1 DEF PositionInv, HeldInv, LeftInv
  <2> QED BY <2>1, <2>2, <2>3 DEF PositionInv
<1>6. CASE HostCloses
  BY <1>6, PositionClose DEF HostCloses, Turning
<1> QED BY <1>1, <1>2, <1>3, <1>4, <1>5, <1>6, PositionDeliver, PositionReject,
           PositionOffer DEF Next, Turn

LEMMA FullAlways == Spec => []FullInv
<1>1. Init => FullInv
  <2>1. Init => OrderInv
    BY DEF Init, OrderInv
  <2> QED BY <2>1, IndInvInit, PositionInit DEF FullInv
<1>2. FullInv /\ [Next]_vars => FullInv'
  <2> SUFFICES ASSUME FullInv, [Next]_vars PROVE FullInv'
    OBVIOUS
  <2>1. IndInv'
    BY IndInvStep DEF FullInv
  <2>2. OrderInv'
    BY OrderStep, FullFacts
  <2> QED BY <2>1, <2>2, PositionStep DEF FullInv
<1> QED BY <1>1, <1>2, PTL DEF Spec

(* "delivered" is told only of messages the conversation has, "rejected"   *)
(* only of others, even when a listener raises: a host that sends a        *)
(* rejected message again never makes the model read it twice.             *)
(* (_take_steer, close)                                                    *)
THEOREM OutcomesAreTrue == Spec => []OutcomeTellsTheTruth
<1>1. FullInv => OutcomeTellsTheTruth
  <2> SUFFICES ASSUME FullInv, NEW m \in Elements(accepted)
               PROVE  /\ outcome[m] = "delivered" => m \in Elements(convo)
                      /\ outcome[m] = "rejected"  => m \notin Elements(convo)
    BY DEF OutcomeTellsTheTruth
  <2> USE FullFacts
  <2>1. PICK i \in DOMAIN accepted : accepted[i] = m
    BY DEF Elements
  <2>2. CASE i <= Len(convo)
    <3>0. i \in DOMAIN convo
      BY <2>2
    <3>1. i \in DOMAIN convo /\ convo[i] = m
      BY <2>1, <3>0 DEF OrderInv
    <3>2. m \in Elements(convo)
      BY <3>1 DEF Elements
    <3> QED BY <2>1, <2>2, <3>2 DEF PositionInv, OutcomeAt
  <2>3. CASE i > Len(convo)
    <3>1. ASSUME NEW k \in DOMAIN convo PROVE convo[k] # m
      <4>1. convo[k] = accepted[k]
        BY DEF OrderInv
      <4>2. k \in DOMAIN accepted /\ k # i
        BY <2>3
      <4>3. Once(accepted)
        BY DEF PositionInv
      <4> QED BY <2>1, <4>1, <4>2, <4>3 DEF Once
    <3>2. m \notin Elements(convo)
      BY <3>1 DEF Elements
    <3> QED BY <2>1, <2>3, <3>2 DEF PositionInv, OutcomeAt
  <2> QED BY <2>2, <2>3
<1> QED BY <1>1, FullAlways, PTL

-----------------------------------------------------------------------------
(* The inbox implements its contract.                                      *)

LEMMA ContractInit == Init => Contract!Init
BY DEF Init, Contract!Init

LEMMA ContractStep ==
    FullInv /\ [Next]_vars => [Contract!Next]_(Contract!contractVars)
<1> SUFFICES ASSUME FullInv, [Next]_vars
             PROVE  Contract!Next \/ UNCHANGED Contract!contractVars
  OBVIOUS
<1> USE FullFacts DEF inboxVars, turnVars, given, vars, Contract!contractVars
<1>1. CASE \/ Pass \/ Abort \/ LeaveQueued \/ CloseReturns \/ NextPass
           \/ SliceEnds \/ RequestStop \/ TakeQueued \/ DeliverRaises
           \/ UNCHANGED vars
  BY <1>1 DEF Pass, Abort, LeaveQueued, CloseReturns, NextPass, SliceEnds,
              RequestStop, TakeQueued, DeliverRaises
<1>2. ASSUME open' = FALSE \/ open' = open, UNCHANGED <<outcome, accepted>>
      PROVE  Contract!Shut \/ UNCHANGED Contract!contractVars
  BY <1>2 DEF Contract!Shut, TypeOK
<1>3. CASE AtBoundary \/ TakeOrClose \/ HostCloses
  BY <1>2, <1>3 DEF AtBoundary, TakeOrClose, HostCloses, CloseInbox, Contract!Next
<1>4. CASE DeliverOne
  <2>1. PICK i \in DOMAIN accepted :
            /\ accepted[i] = Head(held) /\ Head(held) \in Msgs
            /\ \A k \in DOMAIN accepted :
                  outcome[accepted[k]] = IF k < i THEN "delivered" ELSE "none"
    BY <1>4, HeadHeld DEF DeliverOne
  <2>2. outcome' = [outcome EXCEPT ![accepted[i]] = "delivered"]
    <3>1. outcome[accepted[i]] = "none"
      BY <2>1
    <3> QED BY <1>4, <2>1, <3>1 DEF DeliverOne, Resolve
  <2>3. Contract!Deliver(i)
    BY <1>4, <2>1, <2>2 DEF DeliverOne, Contract!Deliver
  <2> QED BY <2>1, <2>3 DEF Contract!Next
<1>5. CASE RejectOne
  <2>1. PICK i \in DOMAIN accepted :
            /\ accepted[i] = Head(left) /\ Head(left) \in Msgs
            /\ \A k \in DOMAIN accepted : k >= i => outcome[accepted[k]] = "none"
    BY <1>5, HeadLeft DEF RejectOne
  <2>2. outcome' = [outcome EXCEPT ![accepted[i]] = "rejected"]
    <3>1. outcome[accepted[i]] = "none"
      BY <2>1
    <3> QED BY <1>5, <2>1, <3>1 DEF RejectOne, Resolve
  <2>3. Contract!Reject(i)
    BY <1>5, <2>1, <2>2 DEF RejectOne, PlaceInv, Contract!Reject
  <2> QED BY <2>1, <2>3 DEF Contract!Next
<1>6. ASSUME NEW m \in Msgs, Offer(m) PROVE Contract!Next
  <2>1. Contract!Accept(m)
    BY <1>6 DEF Offer, Elements, Contract!Accept, Contract!Accepted
  <2> QED BY <2>1 DEF Contract!Next
<1> QED BY <1>1, <1>3, <1>4, <1>5, <1>6 DEF Next, Turn

(* Whatever the threads do, and whether or not a listener raises, every    *)
(* step of the inbox is a step of the contract, or none that it can see.   *)
(* (offer, take, take_or_close, close, resolve)                            *)
THEOREM KeepsContract == Spec => ContractSpec
BY ContractInit, ContractStep, FullAlways, PTL DEF Spec, ContractSpec, Contract!Spec

-----------------------------------------------------------------------------
(* Compaction.  The places of a part of a sequence.                        *)

(* A nonempty set of numbers has a least one: the sets 1..n, n in the set, *)
(* are finite, and strict inclusion of finite sets is well-founded.        *)
LEMMA LeastOf ==
    ASSUME NEW T \in SUBSET Nat, T # {}
    PROVE  \E x \in T : \A y \in T : x <= y
<1> DEFINE U == {1 .. x : x \in T}
<1>1. U \subseteq FiniteSubsetsOf(Nat) /\ U # {}
  <2>1. ASSUME NEW x \in T PROVE IsFiniteSet(1 .. x) /\ 1 .. x \subseteq Nat
    BY FS_Interval
  <2> QED BY <2>1 DEF FiniteSubsetsOf
<1> HIDE DEF U
<1>2. PICK u \in U : \A v \in U : ~ (<<v, u>> \in StrictSubsetOrdering(Nat))
  BY ONLY <1>1, FS_StrictSubsetOrderingWellFounded, WFMin
<1>3. PICK x \in T : u = 1 .. x
  BY DEF U
<1>4. ASSUME NEW y \in T, y < x PROVE FALSE
  <2>1. 1 .. y \in U /\ 1 .. y \in SUBSET Nat /\ 1 .. x \in SUBSET Nat
    BY DEF U
  <2>2. 1 .. y \subseteq 1 .. x /\ x \notin 1 .. y /\ x \in 1 .. x
    BY <1>4
  <2> QED BY <1>2, <1>3, <2>1, <2>2 DEF StrictSubsetOrdering
<1> QED BY <1>4

(* Places in a sequence: the rank of a place, and the place of a rank.     *)
Rank(P, p) == Cardinality({q \in P : q <= p})

LEMMA RankBounds ==
    ASSUME NEW n \in Nat, NEW P \in SUBSET (1 .. n)
    PROVE  /\ IsFiniteSet(P) /\ Cardinality(P) \in Nat
           /\ \A p \in Nat : /\ IsFiniteSet({q \in P : q <= p})
                             /\ Rank(P, p) \in 0 .. Cardinality(P)
           /\ Rank(P, n) = Cardinality(P)
           /\ Rank(P, 0) = 0
<1>1. IsFiniteSet(1 .. n)
  BY FS_Interval
<1>2. IsFiniteSet(P) /\ Cardinality(P) \in Nat
  BY <1>1, FS_Subset, FS_CardinalityType
<1>3. ASSUME NEW p \in Nat
      PROVE  /\ IsFiniteSet({q \in P : q <= p})
             /\ Rank(P, p) \in 0 .. Cardinality(P)
  <2>1. {q \in P : q <= p} \subseteq P
    OBVIOUS
  <2>2. /\ IsFiniteSet({q \in P : q <= p})
        /\ Cardinality({q \in P : q <= p}) \in Nat
        /\ Cardinality({q \in P : q <= p}) <= Cardinality(P)
    BY <1>2, <2>1, FS_Subset, FS_CardinalityType
  <2> QED BY <1>2, <2>2 DEF Rank
<1>4. {q \in P : q <= n} = P /\ {q \in P : q <= 0} = {}
  <2>1. \A q \in P : q \in Nat /\ q <= n /\ ~ (q <= 0)
    OBVIOUS
  <2> QED BY <2>1
<1>5. Cardinality({}) = 0
  BY FS_EmptySet
<1> QED BY <1>2, <1>3, <1>4, <1>5 DEF Rank

LEMMA RankGrows ==
    ASSUME NEW n \in Nat, NEW P \in SUBSET (1 .. n),
           NEW p \in Nat, NEW q \in Nat, p <= q
    PROVE  /\ Rank(P, p) <= Rank(P, q)
           /\ q \in P /\ p < q => Rank(P, p) < Rank(P, q)
<1> DEFINE A == {x \in P : x <= p}  B == {x \in P : x <= q}
<1>0. P \subseteq Nat
  OBVIOUS
<1>1. IsFiniteSet(A) /\ IsFiniteSet(B) /\ A \subseteq B
  <2>1. IsFiniteSet(A) /\ IsFiniteSet(B)
    BY RankBounds
  <2>2. \A x \in P : x <= p => x <= q
    BY <1>0
  <2> QED BY <2>1, <2>2
<1>2. q \in P /\ p < q => q \in B /\ q \notin A
  BY <1>0
<1> HIDE DEF A, B
<1>3. /\ Cardinality(A) \in Nat /\ Cardinality(B) \in Nat
      /\ Cardinality(A) <= Cardinality(B)
      /\ Cardinality(A) = Cardinality(B) => A = B
  BY <1>1, FS_Subset, FS_CardinalityType
<1> QED BY <1>2, <1>3 DEF Rank, A, B

LEMMA RankStep ==
    ASSUME NEW n \in Nat, NEW P \in SUBSET (1 .. n), NEW x \in Nat \ {0}
    PROVE  Rank(P, x) = IF x \in P THEN Rank(P, x - 1) + 1 ELSE Rank(P, x - 1)
<1> DEFINE A == {q \in P : q <= x - 1}
<1>1. IsFiniteSet(A) /\ x \notin A
  <2>1. x - 1 \in Nat
    OBVIOUS
  <2> QED BY <2>1, RankBounds
<1>0. \A q \in P : q <= x <=> q <= x - 1 \/ q = x
  <2>1. \A q \in P : q \in Nat
    OBVIOUS
  <2> QED BY <2>1
<1>2. x \in P => {q \in P : q <= x} = A \cup {x}
  BY <1>0
<1>3. x \notin P => {q \in P : q <= x} = A
  BY <1>0
<1> HIDE DEF A
<1>4. Cardinality(A \cup {x}) = Cardinality(A) + 1
  BY <1>1, FS_AddElement
<1> QED BY <1>2, <1>3, <1>4 DEF Rank, A

LEMMA NthPlace ==
    ASSUME NEW n \in Nat, NEW P \in SUBSET (1 .. n), NEW i \in 1 .. Cardinality(P)
    PROVE  Nth(P, i) \in P /\ Rank(P, Nth(P, i)) = i
<1> DEFINE T == {x \in Nat : Rank(P, x) >= i}
<1>1. n \in T /\ 0 \notin T
  BY RankBounds
<1>2. PICK x \in T : \A y \in T : x <= y
  BY <1>1, LeastOf
<1>3. x \in Nat \ {0} /\ x - 1 \in Nat /\ x - 1 \notin T
  BY <1>1, <1>2
<1>4. Rank(P, x - 1) \in Nat /\ Rank(P, x - 1) < i /\ Rank(P, x) >= i
  <2>1. Cardinality(P) \in Nat /\ i \in Nat
    BY RankBounds
  <2>3. Rank(P, x - 1) \in 0 .. Cardinality(P)
    BY <1>3, RankBounds
  <2>2. ~ (Rank(P, x - 1) >= i) /\ Rank(P, x) >= i
    BY <1>2, <1>3
  <2> QED BY <2>1, <2>2, <2>3
<1>5. x \in P /\ Rank(P, x) = i
  <2>1. Rank(P, x) = IF x \in P THEN Rank(P, x - 1) + 1 ELSE Rank(P, x - 1)
    BY <1>3, RankStep
  <2>2. i \in Nat
    BY RankBounds
  <2> QED BY <1>4, <2>1, <2>2
<1> QED BY <1>5 DEF Nth, Rank

(* What a sequence has at some of its places: in order, and all of it.     *)
LEMMA PartOf ==
    ASSUME NEW S, NEW s \in Seq(S), NEW P \in SUBSET DOMAIN s
    PROVE  /\ Part(s, P) \in Seq(S)
           /\ \A i \in DOMAIN Part(s, P) : Nth(P, i) \in P /\ Part(s, P)[i] = s[Nth(P, i)]
           /\ \A i, j \in DOMAIN Part(s, P) : i < j => Nth(P, i) < Nth(P, j)
           /\ \A p \in P : \E i \in DOMAIN Part(s, P) : Part(s, P)[i] = s[p]
<1> DEFINE n == Len(s)  c == Cardinality(P)
<1>1. n \in Nat /\ DOMAIN s = 1 .. n /\ P \in SUBSET (1 .. n)
  OBVIOUS
<1>2. c \in Nat /\ DOMAIN Part(s, P) = 1 .. c
  BY <1>1, RankBounds DEF Part
<1> HIDE DEF n, c
<1>3. \A i \in 1 .. c : Nth(P, i) \in P /\ Rank(P, Nth(P, i)) = i
  BY <1>1, NthPlace DEF c
<1>4. \A i \in 1 .. c : Part(s, P)[i] = s[Nth(P, i)] /\ s[Nth(P, i)] \in S
  BY <1>1, <1>3 DEF Part, c
<1>5. Part(s, P) \in Seq(S)
  <2>1. Part(s, P) = [i \in 1 .. c |-> s[Nth(P, i)]]
    BY DEF Part, c
  <2> QED BY <1>2, <1>4, <2>1
<1>6. ASSUME NEW i \in 1 .. c, NEW j \in 1 .. c, i < j PROVE Nth(P, i) < Nth(P, j)
  <2>1. Nth(P, i) \in Nat /\ Nth(P, j) \in Nat
    BY <1>1, <1>3
  <2>2. Nth(P, j) <= Nth(P, i) => Rank(P, Nth(P, j)) <= Rank(P, Nth(P, i))
    BY <1>1, <2>1, RankGrows
  <2> QED BY <1>2, <1>3, <1>6, <2>1, <2>2
<1>7. ASSUME NEW p \in P PROVE \E i \in 1 .. c : Nth(P, i) = p
  <2>1. p \in Nat \ {0} /\ p - 1 \in Nat
    BY <1>1
  <2>2. Rank(P, p) \in 1 .. c
    <3>1. Rank(P, p) \in 0 .. c /\ Rank(P, p - 1) \in 0 .. c
      BY <1>1, <2>1, RankBounds DEF c
    <3>2. Rank(P, p) = Rank(P, p - 1) + 1
      BY <1>1, <2>1, RankStep
    <3> QED BY <1>2, <3>1, <3>2
  <2> DEFINE q == Nth(P, Rank(P, p))
  <2>3. q \in P /\ Rank(P, q) = Rank(P, p)
    BY <1>3, <2>2
  <2>4. q \in Nat
    BY <1>1, <2>3
  <2> HIDE DEF q
  <2>5. p < q => Rank(P, p) < Rank(P, q)
    <3>1. p < q => p <= q
      BY <2>1, <2>4
    <3> QED BY <1>1, <2>1, <2>3, <2>4, <3>1, RankGrows
  <2>6. q < p => Rank(P, q) < Rank(P, p)
    <3>1. q < p => q <= p
      BY <2>1, <2>4
    <3> QED BY <1>1, <2>1, <2>4, <3>1, RankGrows
  <2>7. Rank(P, p) \in Nat
    BY <1>2, <2>2
  <2>8. q = p
    BY <2>1, <2>3, <2>4, <2>5, <2>6, <2>7
  <2> QED BY <2>2, <2>8 DEF q
<1> QED BY <1>2, <1>3, <1>4, <1>5, <1>6, <1>7

-----------------------------------------------------------------------------
(* Suffixes of a sequence, and sequences a stretch was taken out of.       *)

(* The rest of a sequence from a place on, and its newest elements.        *)
LEMMA FromOf ==
    ASSUME NEW S, NEW s \in Seq(S), NEW i \in Nat
    PROVE  /\ From(s, i + 1) \in Seq(S)
           /\ Len(From(s, i + 1)) = IF i <= Len(s) THEN Len(s) - i ELSE 0
           /\ \A k \in 1 .. Len(From(s, i + 1)) :
                 i + k \in 1 .. Len(s) /\ From(s, i + 1)[k] = s[i + k]
<1> DEFINE n == Len(s)
<1>1. n \in Nat
  OBVIOUS
<1>2. CASE i <= n
  <2>1. \A k \in (i + 1) .. n : s[k] \in S
    BY <1>1
  <2>2. From(s, i + 1) = [k \in 1 .. (n - i) |-> s[k + (i + 1) - 1]]
    BY <1>1, <1>2 DEF From
  <2>3. \A k \in 1 .. (n - i) : k + (i + 1) - 1 = i + k /\ i + k \in 1 .. n
    BY <1>1, <1>2
  <2>4. n - i \in Nat
    BY <1>1, <1>2
  <2>5. \A k \in 1 .. (n - i) : From(s, i + 1)[k] = s[i + k] /\ s[i + k] \in S
    BY <2>2, <2>3
  <2>6. From(s, i + 1) \in Seq(S) /\ Len(From(s, i + 1)) = n - i
    <3> DEFINE g == [k \in 1 .. (n - i) |-> s[k + (i + 1) - 1]]
    <3>1. \A k \in 1 .. (n - i) : s[k + (i + 1) - 1] \in S
      BY <2>2, <2>3, <2>5
    <3>2. g \in [1 .. (n - i) -> S] /\ DOMAIN g = 1 .. (n - i)
      BY <3>1
    <3> HIDE DEF g
    <3>3. g \in Seq(S) /\ Len(g) = n - i
      BY <2>4, <3>2
    <3> QED BY <2>2, <3>3 DEF g
  <2>7. /\ Len(From(s, i + 1)) = n - i
        /\ \A k \in 1 .. Len(From(s, i + 1)) :
              i + k \in 1 .. n /\ From(s, i + 1)[k] = s[i + k]
    BY ONLY <2>3, <2>5, <2>6
  <2> QED BY ONLY <1>2, <2>6, <2>7
<1>3. CASE ~ (i <= n)
  <2>1. From(s, i + 1) = <<>>
    BY <1>1, <1>3 DEF From
  <2>2. /\ Len(<<>>) = 0 /\ <<>> \in Seq(S)
        /\ Len(From(s, i + 1)) = 0
        /\ \A k \in 1 .. 0 : FALSE
    BY <2>1
  <2> QED BY ONLY <1>3, <2>1, <2>2
<1> QED BY <1>2, <1>3

LEMMA NewestOf ==
    ASSUME NEW S, NEW s \in Seq(S), NEW n \in Nat
    PROVE  \E d \in 0 .. Len(s) :
              /\ Newest(s, n) \in Seq(S)
              /\ Len(Newest(s, n)) = Len(s) - d
              /\ \A k \in 1 .. (Len(s) - d) : Newest(s, n)[k] = s[d + k]
              /\ Len(s) - d <= n
              /\ Newest(s, n) = From(s, d + 1)
<1>1. CASE Len(s) <= n
  <2>1. Newest(s, n) = s
    BY <1>1 DEF Newest
  <2>2. Len(s) \in Nat /\ 0 + 1 = 1
    OBVIOUS
  <2>3. From(s, 1) = s
    BY <2>2 DEF From
  <2>4. /\ Len(s) = Len(s) - 0 /\ 0 \in 0 .. Len(s)
        /\ \A k \in 1 .. (Len(s) - 0) : s[k] = s[0 + k]
    BY <2>2
  <2> QED BY <1>1, <2>1, <2>2, <2>3, <2>4
<1>2. CASE ~ (Len(s) <= n)
  <2> DEFINE d == Len(s) - n
  <2>1. Len(s) \in Nat /\ d \in 0 .. Len(s) /\ d \in Nat /\ Len(s) - d = n
    BY <1>2
  <2>2. Newest(s, n) = From(s, d + 1)
    BY <1>2 DEF Newest
  <2>3. d <= Len(s)
    BY <2>1
  <2> HIDE DEF d
  <2>4. /\ From(s, d + 1) \in Seq(S) /\ Len(From(s, d + 1)) = Len(s) - d
        /\ \A k \in 1 .. (Len(s) - d) : From(s, d + 1)[k] = s[d + k]
    BY <2>1, <2>3, FromOf
  <2>5. /\ Newest(s, n) \in Seq(S)
        /\ Len(Newest(s, n)) = Len(s) - d
        /\ \A k \in 1 .. (Len(s) - d) : Newest(s, n)[k] = s[d + k]
    BY <2>2, <2>4
  <2>6. Len(s) - d <= n
    BY <2>1
  <2> QED BY ONLY <2>1, <2>2, <2>5, <2>6
<1> QED BY <1>1, <1>2

(* The longest common suffix exists.                                       *)
LEMMA KeptSuffixIs ==
    ASSUME NEW S, NEW b \in Seq(S), NEW a \in Seq(S)
    PROVE  /\ KeptSuffix(b, a) \in Nat
           /\ KeptSuffix(b, a) <= Len(a) /\ KeptSuffix(b, a) <= Len(b)
           /\ From(b, Len(b) - KeptSuffix(b, a) + 1) = From(a, Len(a) - KeptSuffix(b, a) + 1)
<1> DEFINE K == {k \in 0 .. Len(a) : k <= Len(b)
                   /\ From(b, Len(b) - k + 1) = From(a, Len(a) - k + 1)}
           T == {Len(a) - k : k \in K}
<1>1. Len(a) \in Nat /\ Len(b) \in Nat
  OBVIOUS
<1>2. 0 \in K
  <2>1. Len(b) - 0 + 1 = Len(b) + 1 /\ Len(a) - 0 + 1 = Len(a) + 1
    BY <1>1
  <2>2. From(b, Len(b) + 1) = <<>> /\ From(a, Len(a) + 1) = <<>>
    BY <1>1 DEF From
  <2> QED BY <1>1, <2>1, <2>2
<1>3. T \in SUBSET Nat /\ T # {}
  BY <1>1, <1>2
<1>4. PICK x \in T : \A y \in T : x <= y
  BY ONLY <1>3, LeastOf
<1>5. PICK k \in K : x = Len(a) - k
  BY <1>4
<1>6. \A l \in K : k >= l
  <2> TAKE l \in K
  <2>1. Len(a) - l \in T
    OBVIOUS
  <2>2. Len(a) - k <= Len(a) - l
    BY <1>4, <1>5, <2>1
  <2>3. k \in Nat /\ l \in Nat
    BY <1>1
  <2> QED BY <1>1, <2>2, <2>3
<1>7. KeptSuffix(b, a) = Max(K)
  BY DEF KeptSuffix
<1> HIDE DEF K, T
<1>8. KeptSuffix(b, a) \in K
  BY <1>6, <1>7 DEF Max
<1> QED BY <1>1, <1>8 DEF K

(* A sequence out of which a stretch was taken.                            *)
Thinned(s, t) ==
    \E i, j \in 0 .. Len(s) :
       /\ i <= j
       /\ Len(t) = Len(s) - (j - i)
       /\ \A k \in 1 .. Len(t) : t[k] = IF k <= i THEN s[k] ELSE s[k + (j - i)]

Within(s, n) == \A i \in DOMAIN s : s[i].id \in (Preloaded + 1) .. n
Ordered(s)   == \A i, j \in DOMAIN s : i < j => s[i].id < s[j].id
Before(s, t) == \A i \in DOMAIN s : \A j \in DOMAIN t : s[i].id < t[j].id

LEMMA ThinnedKeeps ==
    ASSUME NEW S, NEW s \in Seq(S), NEW t \in Seq(S), Thinned(s, t)
    PROVE  /\ \A k \in DOMAIN t : \E l \in DOMAIN s : t[k] = s[l]
           /\ Ordered(s) => Ordered(t)
<1>1. PICK i \in 0 .. Len(s), j \in 0 .. Len(s) :
         /\ i <= j
         /\ Len(t) = Len(s) - (j - i)
         /\ \A k \in 1 .. Len(t) : t[k] = IF k <= i THEN s[k] ELSE s[k + (j - i)]
  BY DEF Thinned
<1> DEFINE n == Len(s)  m == Len(t)
<1>2. /\ n \in Nat /\ m \in Nat /\ i \in Nat /\ j \in Nat
      /\ DOMAIN s = 1 .. n /\ DOMAIN t = 1 .. m
      /\ i <= n /\ j <= n /\ i <= j /\ m = n - (j - i)
  BY <1>1
<1>3. \A k \in 1 .. m : t[k] = IF k <= i THEN s[k] ELSE s[k + (j - i)]
  BY <1>1
<1> HIDE DEF n, m
<1> DEFINE at(k) == IF k <= i THEN k ELSE k + (j - i)
<1>4. \A k \in 1 .. m : at(k) \in 1 .. n
  BY <1>2
<1>5. \A k, l \in 1 .. m : k < l => at(k) < at(l)
  BY <1>2
<1>6. \A k \in 1 .. m : t[k] = s[at(k)]
  BY <1>3
<1> HIDE DEF at
<1> QED BY <1>2, <1>4, <1>5, <1>6 DEF Ordered

LEMMA Concat ==
    ASSUME NEW S, NEW s \in Seq(S), NEW t \in Seq(S)
    PROVE  /\ s \o t \in Seq(S) /\ Len(s \o t) = Len(s) + Len(t)
           /\ \A k \in 1 .. (Len(s) + Len(t)) :
                 (s \o t)[k] = IF k <= Len(s) THEN s[k] ELSE t[k - Len(s)]
OBVIOUS

LEMMA SameThinned ==
    ASSUME NEW S, NEW s \in Seq(S)
    PROVE  Thinned(s, s)
<1>1. Len(s) \in Nat /\ 0 \in 0 .. Len(s) /\ 0 <= 0 /\ Len(s) = Len(s) - (0 - 0)
  OBVIOUS
<1>2. \A k \in 1 .. Len(s) : k + (0 - 0) = k
  OBVIOUS
<1> QED BY <1>1, <1>2 DEF Thinned

(* Cut at its front, or behind its front.                                  *)
LEMMA FrontThinned ==
    ASSUME NEW S, NEW o \in Seq(S), NEW x \in Seq(S), NEW d \in 0 .. Len(o)
    PROVE  Thinned(o \o x, From(o, d + 1) \o x)
<1> DEFINE n == Len(o)  m == Len(x)  f == From(o, d + 1)
<1>1. n \in Nat /\ m \in Nat /\ d \in Nat /\ d <= n
  OBVIOUS
<1>2. /\ f \in Seq(S) /\ Len(f) = n - d
      /\ \A k \in 1 .. (n - d) : f[k] = o[d + k]
  BY <1>1, FromOf
<1> HIDE DEF f
<1>3. /\ Len(o \o x) = n + m /\ Len(f \o x) = (n - d) + m
      /\ \A k \in 1 .. (n + m) : (o \o x)[k] = IF k <= n THEN o[k] ELSE x[k - n]
      /\ \A k \in 1 .. ((n - d) + m) :
            (f \o x)[k] = IF k <= n - d THEN f[k] ELSE x[k - (n - d)]
  <2>1. /\ Len(o \o x) = n + m
        /\ \A k \in 1 .. (n + m) : (o \o x)[k] = IF k <= n THEN o[k] ELSE x[k - n]
    BY Concat
  <2>2. /\ Len(f \o x) = Len(f) + m
        /\ \A k \in 1 .. (Len(f) + m) :
              (f \o x)[k] = IF k <= Len(f) THEN f[k] ELSE x[k - Len(f)]
    BY <1>2, Concat
  <2> QED BY ONLY <1>2, <2>1, <2>2
<1> DEFINE b == o \o x  c == f \o x
<1> HIDE DEF n, m, b, c
<1>b. \A i \in 1 .. (n + m) : b[i] = IF i <= n THEN o[i] ELSE x[i - n]
  BY ONLY <1>3 DEF b
<1>4. \A k \in 1 .. ((n - d) + m) : c[k] = b[k + (d - 0)]
  <2> TAKE k \in 1 .. ((n - d) + m)
  <2>1. k \in Nat /\ k + (d - 0) = d + k /\ d + k \in 1 .. (n + m)
    BY <1>1
  <2>2. c[k] = IF k <= n - d THEN f[k] ELSE x[k - (n - d)]
    BY <1>3 DEF c
  <2>3. b[d + k] = IF d + k <= n THEN o[d + k] ELSE x[d + k - n]
    BY <1>1, <1>b, <2>1
  <2>4. CASE k <= n - d
    <3>1. d + k <= n /\ k \in 1 .. (n - d)
      BY <1>1, <2>1, <2>4
    <3> QED BY <1>2, <2>1, <2>2, <2>3, <2>4, <3>1
  <2>5. CASE ~ (k <= n - d)
    <3>1. ~ (d + k <= n) /\ d + k - n = k - (n - d)
      BY <1>1, <2>1, <2>5
    <3> QED BY <2>1, <2>2, <2>3, <2>5, <3>1
  <2> QED BY <2>4, <2>5
<1>5. /\ 0 \in 0 .. (n + m) /\ d \in 0 .. (n + m) /\ 0 <= d
      /\ (n - d) + m = (n + m) - (d - 0)
      /\ \A k \in 1 .. ((n - d) + m) : ~ (k <= 0)
  BY <1>1
<1>6. Len(b) = n + m /\ Len(c) = (n - d) + m
  BY <1>3 DEF b, c
<1>7. Thinned(b, c)
  BY <1>4, <1>5, <1>6 DEF Thinned
<1> QED BY <1>7 DEF b, c, f

LEMMA BackThinned ==
    ASSUME NEW S, NEW o \in Seq(S), NEW x \in Seq(S), NEW d \in 0 .. Len(x)
    PROVE  Thinned(o \o x, o \o From(x, d + 1))
<1> DEFINE n == Len(o)  m == Len(x)  f == From(x, d + 1)
<1>1. n \in Nat /\ m \in Nat /\ d \in Nat /\ d <= m
  OBVIOUS
<1>2. /\ f \in Seq(S) /\ Len(f) = m - d
      /\ \A k \in 1 .. (m - d) : f[k] = x[d + k]
  BY <1>1, FromOf
<1> HIDE DEF f
<1>3. /\ Len(o \o x) = n + m /\ Len(o \o f) = n + (m - d)
      /\ \A k \in 1 .. (n + m) : (o \o x)[k] = IF k <= n THEN o[k] ELSE x[k - n]
      /\ \A k \in 1 .. (n + (m - d)) :
            (o \o f)[k] = IF k <= n THEN o[k] ELSE f[k - n]
  <2>1. /\ Len(o \o x) = n + m
        /\ \A k \in 1 .. (n + m) : (o \o x)[k] = IF k <= n THEN o[k] ELSE x[k - n]
    BY Concat
  <2>2. /\ Len(o \o f) = n + Len(f)
        /\ \A k \in 1 .. (n + Len(f)) :
              (o \o f)[k] = IF k <= n THEN o[k] ELSE f[k - n]
    BY <1>2, Concat
  <2> QED BY ONLY <1>2, <2>1, <2>2
<1> DEFINE b == o \o x  c == o \o f  e == n + d
<1> HIDE DEF n, m, b, c
<1>b. \A i \in 1 .. (n + m) : b[i] = IF i <= n THEN o[i] ELSE x[i - n]
  BY ONLY <1>3 DEF b
<1>4. \A k \in 1 .. (n + (m - d)) : c[k] = IF k <= n THEN b[k] ELSE b[k + (e - n)]
  <2> TAKE k \in 1 .. (n + (m - d))
  <2>1. /\ k \in Nat /\ k + (e - n) = k + d
        /\ k \in 1 .. (n + m) /\ k + d \in 1 .. (n + m)
    BY <1>1
  <2>2. c[k] = IF k <= n THEN o[k] ELSE f[k - n]
    BY <1>3 DEF c
  <2>3. /\ b[k] = IF k <= n THEN o[k] ELSE x[k - n]
        /\ b[k + d] = IF k + d <= n THEN o[k + d] ELSE x[k + d - n]
    BY <1>1, <1>b, <2>1
  <2>4. CASE k <= n
    BY <2>2, <2>3, <2>4
  <2>5. CASE ~ (k <= n)
    <3>1. ~ (k + d <= n) /\ k + d - n = d + (k - n) /\ k - n \in 1 .. (m - d)
      BY <1>1, <2>1, <2>5
    <3> QED BY <1>2, <2>1, <2>2, <2>3, <2>5, <3>1
  <2> QED BY <2>4, <2>5
<1>5. /\ n \in 0 .. (n + m) /\ e \in 0 .. (n + m) /\ n <= e
      /\ n + (m - d) = (n + m) - (e - n)
  BY <1>1
<1> HIDE DEF e
<1>6. Len(b) = n + m /\ Len(c) = n + (m - d)
  BY <1>3 DEF b, c
<1>7. Thinned(b, c)
  BY <1>4, <1>5, <1>6 DEF Thinned
<1> QED BY <1>7 DEF b, c, f

-----------------------------------------------------------------------------
(* A rewriting of the history, and what a recorder has ahead of it.        *)

(* What a recorder has ahead of it, for a place m of the history h and the *)
(* records p put aside.                                                    *)
Ahead(p, h, m) == p \o From(h, m + 1)

MovedTo(b, a, m) ==
    LET k == KeptSuffix(b, a)
        t == Translate(m, Len(b) - k, Len(a) - k)
    IN  IF t <= Len(a) THEN t ELSE Len(a)

Owed(b, a, m, p) == p \o Unrecorded(b, m, Len(b) - KeptSuffix(b, a))

(* A history is split at any place.                                        *)
LEMMA SplitAt ==
    ASSUME NEW S, NEW s \in Seq(S), NEW m \in Nat, NEW n \in Nat, m <= n, n <= Len(s)
    PROVE  /\ SubSeq(s, m + 1, n) \in Seq(S)
           /\ From(s, m + 1) = SubSeq(s, m + 1, n) \o From(s, n + 1)
<1> DEFINE l == Len(s)  u == SubSeq(s, m + 1, n)  v == From(s, n + 1)  w == From(s, m + 1)
<1>1. l \in Nat /\ n <= l
  OBVIOUS
<1>2. w \in Seq(S) /\ Len(w) = l - m /\ \A k \in 1 .. (l - m) : w[k] = s[m + k]
  <2>1. m <= l
    BY <1>1
  <2> QED BY <2>1, FromOf
<1>3. v \in Seq(S) /\ Len(v) = l - n /\ \A k \in 1 .. (l - n) : v[k] = s[n + k]
  BY <1>1, FromOf
<1>4. u \in Seq(S) /\ Len(u) = n - m /\ \A k \in 1 .. (n - m) : u[k] = s[m + k]
  <2>1. \A k \in 1 .. (n - m) : k + (m + 1) - 1 = m + k /\ m + k \in 1 .. l
    BY <1>1
  <2>2. u = [k \in 1 .. (n - m) |-> s[k + (m + 1) - 1]]
    BY <1>1
  <2>3. n - m \in Nat
    BY <1>1
  <2>4. \A k \in 1 .. (n - m) : u[k] = s[m + k] /\ s[m + k] \in S
    BY <1>1, <2>1, <2>2
  <2>5. u \in Seq(S) /\ Len(u) = n - m
    BY <2>2, <2>3, <2>4
  <2> QED BY <2>4, <2>5
<1> HIDE DEF l, u, v, w
<1>5. /\ u \o v \in Seq(S) /\ Len(u \o v) = Len(u) + Len(v)
      /\ \A k \in 1 .. (Len(u) + Len(v)) :
            (u \o v)[k] = IF k <= Len(u) THEN u[k] ELSE v[k - Len(u)]
  BY <1>3, <1>4, Concat
<1>6. Len(u \o v) = l - m
  BY <1>1, <1>3, <1>4, <1>5
<1>7. \A k \in 1 .. (l - m) : (u \o v)[k] = w[k]
  <2> TAKE k \in 1 .. (l - m)
  <2>1. (u \o v)[k] = IF k <= n - m THEN u[k] ELSE v[k - (n - m)]
    BY <1>1, <1>3, <1>4, <1>5
  <2>2. CASE k <= n - m
    <3>1. k \in 1 .. (n - m)
      BY <1>1, <2>2
    <3> QED BY <1>2, <1>4, <2>1, <2>2, <3>1
  <2>3. CASE ~ (k <= n - m)
    <3>1. k - (n - m) \in 1 .. (l - n) /\ n + (k - (n - m)) = m + k
      BY <1>1, <2>3
    <3> QED BY <1>2, <1>3, <2>1, <2>3, <3>1
  <2> QED BY <2>2, <2>3
<1>8. w = u \o v
  <2>1. \A a \in Seq(S), b \in Seq(S) :
           Len(a) = Len(b) /\ (\A k \in 1 .. Len(a) : a[k] = b[k]) => a = b
    OBVIOUS
  <2>2. Len(w) = l - m
    BY <1>2
  <2> QED BY ONLY <1>2, <1>5, <1>6, <1>7, <2>1, <2>2
<1> QED BY <1>4, <1>8 DEF u, v, w

LEMMA ConcatAssoc ==
    ASSUME NEW S, NEW s \in Seq(S), NEW t \in Seq(S), NEW u \in Seq(S)
    PROVE  (s \o t) \o u = s \o (t \o u)
OBVIOUS

(* Whatever becomes of the history, a recorder has the same ahead of it as *)
(* before: in what is put aside, or behind its place in the new history.   *)
LEMMA ReconcileKeeps ==
    ASSUME NEW S, NEW b \in Seq(S), NEW a \in Seq(S), NEW m \in Nat, NEW p \in Seq(S)
    PROVE  /\ MovedTo(b, a, m) \in Nat /\ MovedTo(b, a, m) <= Len(a)
           /\ Owed(b, a, m, p) \in Seq(S)
           /\ From(a, MovedTo(b, a, m) + 1) \in Seq(S)
           /\ Ahead(p, b, m) = Owed(b, a, m, p) \o From(a, MovedTo(b, a, m) + 1)
<1> DEFINE k == KeptSuffix(b, a)  l == Len(b)  n == Len(a)
           start == l - k  head == n - k  t == MovedTo(b, a, m)
<1>1. /\ l \in Nat /\ n \in Nat /\ k \in Nat /\ k <= l /\ k <= n
      /\ From(b, start + 1) = From(a, head + 1)
  <2>1. l \in Nat /\ n \in Nat
    OBVIOUS
  <2>2. /\ k \in Nat /\ k <= n /\ k <= l
        /\ From(b, start + 1) = From(a, head + 1)
    BY ONLY KeptSuffixIs, b \in Seq(S), a \in Seq(S)
  <2> QED BY <2>1, <2>2
<1>2. t = IF m <= start THEN (IF head <= n THEN head ELSE n)
          ELSE IF head + (m - start) <= n THEN head + (m - start) ELSE n
  BY DEF MovedTo, Translate
<1>3. Owed(b, a, m, p) = p \o (IF m < start THEN SubSeq(b, m + 1, start) ELSE <<>>)
  BY DEF Owed, Unrecorded
<1> HIDE DEF k, l, n, t
<1>4. /\ start \in Nat /\ head \in Nat /\ head <= n /\ start <= l
      /\ t \in Nat /\ t <= n
  BY <1>1, <1>2
<1>5. /\ From(b, m + 1) \in Seq(S) /\ From(a, t + 1) \in Seq(S)
      /\ From(b, start + 1) \in Seq(S)
  BY <1>4, FromOf
<1>6. CASE m <= start
  <2>1. t = head
    BY <1>2, <1>4, <1>6
  <2>2. /\ SubSeq(b, m + 1, start) \in Seq(S)
        /\ From(b, m + 1) = SubSeq(b, m + 1, start) \o From(b, start + 1)
    BY <1>4, <1>6, SplitAt DEF l
  <2>3. Owed(b, a, m, p) = p \o SubSeq(b, m + 1, start)
    <3>1. CASE m < start
      BY <1>3, <3>1
    <3>2. CASE ~ (m < start)
      <4>1. m = start
        BY <1>4, <1>6, <3>2
      <4>2. SubSeq(b, m + 1, start) = <<>>
        BY <1>4, <4>1
      <4> QED BY <1>3, <3>2, <4>2
    <3> QED BY <3>1, <3>2
  <2>4. p \o SubSeq(b, m + 1, start) \in Seq(S)
    BY <2>2
  <2>5. (p \o SubSeq(b, m + 1, start)) \o From(b, start + 1)
           = p \o (SubSeq(b, m + 1, start) \o From(b, start + 1))
    <3> DEFINE u == SubSeq(b, m + 1, start)  v == From(b, start + 1)
    <3>1. u \in Seq(S) /\ v \in Seq(S)
      BY <1>5, <2>2
    <3> HIDE DEF u, v
    <3>2. (p \o u) \o v = p \o (u \o v)
      BY <3>1
    <3> QED BY <3>2 DEF u, v
  <2>6. Ahead(p, b, m) = Owed(b, a, m, p) \o From(a, t + 1)
    BY ONLY <1>1, <2>1, <2>2, <2>3, <2>5 DEF Ahead
  <2> QED BY <1>4, <1>5, <2>3, <2>4, <2>6 DEF t, n
<1>7. CASE ~ (m <= start)
  <2>1. Owed(b, a, m, p) = p
    <3>1. ~ (m < start)
      BY <1>4, <1>7
    <3>2. p \o <<>> = p
      OBVIOUS
    <3> QED BY <1>3, <3>1, <3>2
  <2>2. From(b, m + 1) = From(a, t + 1)
    <3>1. CASE m <= l
      <4> DEFINE e == m - start  x == From(b, start + 1)
      <4>1. e \in Nat /\ m = start + e /\ t = head + e /\ e <= k
        BY <1>1, <1>2, <1>4, <1>7, <3>1
      <4>2. /\ Len(From(b, m + 1)) = l - m
            /\ \A i \in 1 .. (l - m) : From(b, m + 1)[i] = b[m + i]
        BY <3>1, FromOf DEF l
      <4>3. /\ Len(From(a, t + 1)) = n - t
            /\ \A i \in 1 .. (n - t) : From(a, t + 1)[i] = a[t + i]
        BY <1>4, FromOf DEF n
      <4>4. Len(x) = k /\ \A i \in 1 .. k : x[i] = b[start + i]
        <5>1. /\ Len(x) = l - start
              /\ \A i \in 1 .. (l - start) : x[i] = b[start + i]
          BY <1>4, FromOf DEF l
        <5>2. l - start = k
          BY <1>1
        <5> QED BY ONLY <5>1, <5>2
      <4>5. \A i \in 1 .. k : x[i] = a[head + i]
        <5>1. /\ Len(From(a, head + 1)) = n - head
              /\ \A i \in 1 .. (n - head) : From(a, head + 1)[i] = a[head + i]
          BY <1>4, FromOf DEF n
        <5>2. n - head = k
          BY <1>1
        <5> QED BY ONLY <1>1, <5>1, <5>2
      <4>6. n - t = l - m /\ l - m \in Nat
        BY <1>1, <3>1, <4>1
      <4>7. \A i \in 1 .. (l - m) : b[m + i] = a[t + i]
        <5> TAKE i \in 1 .. (l - m)
        <5>1. /\ e + i \in 1 .. k /\ start + (e + i) = m + i
              /\ head + (e + i) = t + i
          BY <1>1, <1>4, <3>1, <4>1
        <5> QED BY <4>4, <4>5, <5>1
      <4>8. \A i \in 1 .. (l - m) : From(b, m + 1)[i] = From(a, t + 1)[i]
        BY <4>2, <4>3, <4>6, <4>7
      <4>9. Len(From(b, m + 1)) = Len(From(a, t + 1))
        BY <4>2, <4>3, <4>6
      <4> QED BY <1>5, <4>2, <4>8, <4>9
    <3>2. CASE ~ (m <= l)
      <4>1. t = n
        BY <1>1, <1>2, <1>4, <1>7, <3>2
      <4>2. From(b, m + 1) = <<>> /\ From(a, n + 1) = <<>>
        BY <1>1, <3>2 DEF From, l, n
      <4> QED BY <4>1, <4>2
    <3> QED BY <3>1, <3>2
  <2>3. Ahead(p, b, m) = Owed(b, a, m, p) \o From(a, t + 1)
    BY ONLY <2>1, <2>2 DEF Ahead
  <2> QED BY <1>4, <1>5, <2>1, <2>3 DEF t, n
<1> QED BY <1>4, <1>6, <1>7

LEMMA ToSetConcat ==
    ASSUME NEW S, NEW s \in Seq(S), NEW t \in Seq(S)
    PROVE  ToSet(s \o t) = ToSet(s) \cup ToSet(t)
<1> DEFINE c == s \o t  n == Len(s)  m == Len(t)
<1>1. /\ c \in Seq(S) /\ Len(c) = n + m
      /\ \A k \in 1 .. (n + m) : c[k] = IF k <= n THEN s[k] ELSE t[k - n]
  BY Concat
<1>2. /\ n \in Nat /\ m \in Nat
      /\ DOMAIN s = 1 .. n /\ DOMAIN t = 1 .. m
  OBVIOUS
<1>3. DOMAIN c = 1 .. (n + m)
  BY <1>1
<1> HIDE DEF c, n, m
<1>4. ASSUME NEW k \in 1 .. n PROVE k \in 1 .. (n + m) /\ c[k] = s[k]
  <2>1. k \in 1 .. (n + m) /\ k <= n
    BY <1>2
  <2> QED BY <1>1, <2>1
<1>5. ASSUME NEW k \in 1 .. m PROVE n + k \in 1 .. (n + m) /\ c[n + k] = t[k]
  <2>1. n + k \in 1 .. (n + m) /\ ~ (n + k <= n) /\ n + k - n = k
    BY <1>2
  <2> QED BY <1>1, <1>2, <2>1
<1>6. ASSUME NEW k \in 1 .. (n + m) PROVE c[k] \in ToSet(s) \cup ToSet(t)
  <2>1. CASE k <= n
    <3>1. k \in 1 .. n
      BY <1>2, <2>1
    <3> QED BY <1>2, <1>4, <3>1 DEF ToSet
  <2>2. CASE ~ (k <= n)
    <3>1. k - n \in 1 .. m /\ n + (k - n) = k
      BY <1>2, <2>2
    <3> QED BY <1>2, <1>5, <3>1 DEF ToSet
  <2> QED BY <2>1, <2>2
<1>7. ToSet(c) \subseteq ToSet(s) \cup ToSet(t)
  BY <1>3, <1>6 DEF ToSet
<1>8. ToSet(s) \cup ToSet(t) \subseteq ToSet(c)
  BY <1>2, <1>3, <1>4, <1>5 DEF ToSet
<1> QED BY <1>7, <1>8 DEF c

LEMMA RealsConcat ==
    ASSUME NEW S, NEW s \in Seq(S), NEW t \in Seq(S)
    PROVE  /\ Reals(s \o t) = Reals(s) \cup Reals(t)
           /\ Stands(s \o t) = Stands(s) \cup Stands(t)
BY ToSetConcat DEF Reals, Stands

(* What the cap drops of what is put aside is taken from the front of all  *)
(* that is ahead, and is the difference between the two.                   *)
LEMMA CappedAhead ==
    ASSUME NEW S, NEW o \in Seq(S), NEW x \in Seq(S), NEW n \in Nat
    PROVE  /\ Newest(o, n) \in Seq(S)
           /\ Thinned(o \o x, Newest(o, n) \o x)
           /\ Reals(o \o x) \subseteq
                 Reals(Newest(o, n) \o x) \cup (Reals(o) \ Reals(Newest(o, n)))
<1>1. PICK d \in 0 .. Len(o) : Newest(o, n) = From(o, d + 1)
  BY NewestOf
<1>2. Newest(o, n) \in Seq(S)
  BY NewestOf
<1>3. Thinned(o \o x, Newest(o, n) \o x)
  BY <1>1, FrontThinned
<1>4. /\ Reals(o \o x) = Reals(o) \cup Reals(x)
      /\ Reals(Newest(o, n) \o x) = Reals(Newest(o, n)) \cup Reals(x)
  BY <1>2, RealsConcat
<1> QED BY <1>2, <1>3, <1>4

-----------------------------------------------------------------------------
(* What messages stand for, and what a step does to the history.           *)

LEMMA AboutParts ==
    ASSUME NEW s \in Seq(Message)
    PROVE  Reals(s) \subseteq 1 .. MaxMessages /\ Stands(s) \subseteq 1 .. MaxMessages
<1>1. ToSet(s) \subseteq Message
  BY DEF ToSet
<1>2. \A m \in Message : m.id \in 0 .. MaxMessages /\ m.of \subseteq 1 .. MaxMessages
  BY DEF Message
<1>3. \A i \in 0 .. MaxMessages : i # 0 => i \in 1 .. MaxMessages
  BY CompactionAssumption
<1> QED BY <1>1, <1>2, <1>3 DEF Reals, Stands

LEMMA NewMessages ==
    /\ \A s \in SUBSET (1 .. MaxMessages) : Summary(s) \in Message
    /\ Ack \in Message
    /\ \A n \in 1 .. MaxMessages, by \in {"user", "assistant"} : Said(n, by) \in Message
<1>1. \A n \in 1 .. MaxMessages : n \in 0 .. MaxMessages /\ {n} \subseteq 1 .. MaxMessages
  BY CompactionAssumption
<1>2. 0 \in 0 .. MaxMessages /\ {} \subseteq 1 .. MaxMessages
  BY CompactionAssumption
<1> QED BY <1>1, <1>2 DEF Summary, Ack, Said, Message

LEMMA StandsOne ==
    ASSUME NEW m
    PROVE  ToSet(<<m>>) = {m} /\ Stands(<<m>>) = m.of /\ Reals(<<m>>) = {m.id} \ {0}
<1>1. ToSet(<<m>>) = {m}
  <2>1. DOMAIN <<m>> = 1 .. 1 /\ <<m>>[1] = m
    OBVIOUS
  <2> QED BY <2>1 DEF ToSet
<1> QED BY <1>1 DEF Stands, Reals

(* A checkpoint stands for all it replaces.                                *)
LEMMA CheckpointOf ==
    ASSUME NEW s \in Seq(Message), NEW cut \in Cuts(s)
    PROVE  /\ Checkpoint(s, cut) \in Seq(Message)
           /\ Stands(Checkpoint(s, cut)) = Stands(s)
<1> DEFINE u == SubSeq(s, 1, cut)  v == From(s, cut + 1)
           sum == Summary(Stands(u))
           ack == IF s[cut + 1].by # "assistant" THEN <<Ack>> ELSE <<>>
<1>1. cut \in Nat /\ cut <= Len(s) /\ 0 + 1 = 1 /\ 0 <= cut
  BY DEF Cuts
<1>2. u \in Seq(Message) /\ v \in Seq(Message) /\ From(s, 1) = u \o v
  <2>1. /\ SubSeq(s, 0 + 1, cut) \in Seq(Message)
        /\ From(s, 0 + 1) = SubSeq(s, 0 + 1, cut) \o From(s, cut + 1)
    BY <1>1, SplitAt
  <2> QED BY <1>1, <2>1, FromOf
<1>3. From(s, 1) = s
  BY DEF From
<1>4. sum \in Message /\ sum.of = Stands(u)
  BY <1>2, AboutParts, NewMessages DEF Summary
<1>5. ack \in Seq(Message) /\ Stands(ack) = {}
  <2>1. Stands(<<>>) = {}
    BY DEF Stands, ToSet
  <2>2. <<Ack>> \in Seq(Message)
    BY NewMessages
  <2>3. Stands(<<Ack>>) = {}
    BY StandsOne DEF Ack
  <2> QED BY <2>1, <2>2, <2>3
<1>6. Checkpoint(s, cut) = (<<sum>> \o ack) \o v
  BY DEF Checkpoint
<1>7. Stands(s) = Stands(u) \cup Stands(v)
  <2> HIDE DEF u, v
  <2>1. Stands(u \o v) = Stands(u) \cup Stands(v)
    BY <1>2, RealsConcat
  <2> QED BY ONLY <1>2, <1>3, <2>1
<1> HIDE DEF u, v, sum, ack
<1>8. <<sum>> \in Seq(Message) /\ Stands(<<sum>>) = Stands(u)
  BY <1>4, StandsOne
<1>9. <<sum>> \o ack \in Seq(Message) /\ Stands(<<sum>> \o ack) = Stands(u)
  <2>1. <<sum>> \o ack \in Seq(Message)
    BY <1>5, <1>8, Concat
  <2> DEFINE q == <<sum>>
  <2>3. q \in Seq(Message)
    BY <1>8
  <2> HIDE DEF q
  <2>4. Stands(q \o ack) = Stands(q) \cup Stands(ack)
    <3>1. \A x, y \in Seq(Message) : Stands(x \o y) = Stands(x) \cup Stands(y)
      BY RealsConcat
    <3> QED BY ONLY <1>5, <2>3, <3>1
  <2>2. Stands(<<sum>> \o ack) = Stands(<<sum>>) \cup Stands(ack)
    BY <2>4 DEF q
  <2> QED BY <1>5, <1>8, <2>1, <2>2
<1> DEFINE w == <<sum>> \o ack
<1> HIDE DEF w
<1>10. w \in Seq(Message) /\ Stands(w) = Stands(u)
  BY <1>9 DEF w
<1>11. w \o v \in Seq(Message) /\ Stands(w \o v) = Stands(u) \cup Stands(v)
  BY <1>2, <1>10, RealsConcat, Concat
<1> QED BY <1>6, <1>7, <1>11 DEF w

(* What a step does to the history and its records.                        *)
Rewrites == \E after \in Seq(Message) : Rewrite(after) /\ Stands(after) = Stands(messages)

Hears == (\E by \in {"user", "assistant"} : Says(by)) /\ UNCHANGED recording

Trims ==
    /\ strategy = "hybrid"
    /\ messages' = Newest(messages, MaxRecent)
    /\ UNCHANGED <<written, recording>>

Discloses ==
    /\ strategy = "progressive_disclosure"
    /\ messages' = Disclosed(messages)
    /\ UNCHANGED <<written, recording>>

Records(r) ==
    /\ UNCHANGED <<messages, written>>
    /\ \/ \E lost \in SUBSET DOMAIN Batch(r) : Committed(r, lost)
       \/ \E n \in 0 .. Len(Batch(r)) : Interrupted(r, n)

LEMMA SummarizedRewrites ==
    ASSUME HistoryTypeOK, NEW source, NEW asked, NEW person, NEW soft,
           Summarized(source, asked, person, soft)
    PROVE  Rewrites
<1>1. PICK cut \in Cuts(messages) : Rewrite(Checkpoint(messages, cut))
  BY DEF Summarized
<1>2. messages \in Seq(Message)
  BY DEF HistoryTypeOK
<1> QED BY <1>1, <1>2, CheckpointOf DEF Rewrites

LEMMA CompactionRewrites ==
    ASSUME HistoryTypeOK,
           \/ LeftAlone \/ SoftCompaction \/ HardCompaction
           \/ \E person \in BOOLEAN : Summarizes(person)
    PROVE  Kept \/ Rewrites
BY SummarizedRewrites
   DEF LeftAlone, SoftCompaction, HardCompaction, Summarizes, NoSummary

LEMMA BackgroundRewrites ==
    ASSUME HistoryTypeOK, bg \in Summaries,
           bg.state = "model" => Stands(bg.result) = Stands(bg.of),
           ApplyBackground
    PROVE  Kept \/ Rewrites
<1> SUFFICES ASSUME Fits(bg), Rewrite(bg.result \o From(messages, Len(bg.of) + 1))
             PROVE  Rewrites
  BY DEF ApplyBackground
<1> DEFINE n == Len(bg.of)  v == From(messages, n + 1)
<1>1. messages \in Seq(Message) /\ bg.of \in Seq(Message) /\ bg.result \in Seq(Message)
  BY DEF HistoryTypeOK, Summaries
<1>2. /\ bg.state = "model" /\ n <= Len(messages) /\ SubSeq(messages, 1, n) = bg.of
      /\ n \in Nat /\ 0 <= n /\ 0 + 1 = 1
  BY <1>1 DEF Fits
<1>3. v \in Seq(Message)
  BY <1>1, <1>2, FromOf
<1>4. messages = bg.of \o v
  <2> HIDE DEF n
  <2>1. From(messages, 0 + 1) = SubSeq(messages, 0 + 1, n) \o From(messages, n + 1)
    <3>1. 0 \in Nat
      OBVIOUS
    <3> QED BY <1>1, <1>2, <3>1, SplitAt
  <2>2. From(messages, 1) = messages
    BY <1>1 DEF From
  <2> QED BY <1>2, <2>1, <2>2
<1> HIDE DEF v
<1>5. Stands(messages) = Stands(bg.of) \cup Stands(v)
  <2>1. Stands(bg.of \o v) = Stands(bg.of) \cup Stands(v)
    BY <1>1, <1>3, RealsConcat
  <2> QED BY <1>4, <2>1
<1>6. /\ bg.result \o v \in Seq(Message)
      /\ Stands(bg.result \o v) = Stands(bg.result) \cup Stands(v)
  BY <1>1, <1>3, RealsConcat, Concat
<1> QED BY <1>2, <1>5, <1>6 DEF Rewrites, v

(* A summary made in the background stands for what it was made of.        *)
BackgroundInv ==
    bg # None => (bg.state = "model" => Stands(bg.result) = Stands(bg.of))

LEMMA StepEffects ==
    ASSUME HistoryTypeOK, BackgroundInv, [HistoryNext]_historyVars
    PROVE  /\ UNCHANGED strategy
           /\ \/ (Kept \/ Rewrites) /\ UNCHANGED written
              \/ Hears \/ Trims \/ Discloses
              \/ \E r \in Recorders : Records(r)
<1>1. CASE BeginTurn \/ Reply
  BY <1>1 DEF BeginTurn, Reply, Hears
<1>2. CASE Trim
  <2>1. strategy \in {"simple_load", "hybrid", "progressive_disclosure"}
    BY CompactionAssumption DEF HistoryTypeOK
  <2>2. /\ BuildContext(messages) # messages /\ messages' = BuildContext(messages)
        /\ UNCHANGED <<strategy, written, recording>>
    BY <1>2 DEF Trim, MustTrim
  <2>3. strategy # "simple_load"
    BY <2>2 DEF BuildContext
  <2>4. CASE strategy = "hybrid"
    <3>1. messages' = Newest(messages, MaxRecent)
      BY <2>2, <2>4 DEF BuildContext, Hybrid
    <3> QED BY <2>2, <2>4, <3>1 DEF Trims
  <2>5. CASE strategy = "progressive_disclosure"
    <3>1. messages' = Disclosed(messages)
      BY <2>2, <2>5 DEF BuildContext
    <3> QED BY <2>2, <2>5, <3>1 DEF Discloses
  <2> QED BY <2>1, <2>3, <2>4, <2>5
<1>3. CASE Collect
  <2>1. CASE Finished /\ ApplyBackground
    <3>1. bg # None /\ bg \in Summaries
      BY <2>1 DEF Finished, HistoryTypeOK
    <3> QED BY <1>3, <2>1, <3>1, BackgroundRewrites DEF BackgroundInv, Collect
  <2>2. CASE ~ (Finished /\ ApplyBackground)
    BY <1>3, <2>2 DEF Collect, Kept
  <2> QED BY <2>1, <2>2
<1>4. CASE Decide
  <2>1. Kept \/ Rewrites
    BY <1>4, CompactionRewrites DEF Decide
  <2> QED BY <1>4, <2>1 DEF Decide
<1>5. CASE Guard \/ Overflow \/ InnerRound
  <2>1. Kept \/ Rewrites
    BY <1>5, CompactionRewrites DEF Guard, Overflow, InnerRound
  <2> QED BY <1>5, <2>1 DEF Guard, Overflow, InnerRound
<1>6. CASE Fail \/ BackgroundEnds \/ BackgroundExpires
  BY <1>6 DEF Fail, BackgroundEnds, BackgroundExpires, Kept
<1>7. CASE RecordTurns
  BY <1>7 DEF RecordTurns, InMemory, Records, Recorders, Kept
<1>8. CASE Archive
  <2>1. {} \in SUBSET DOMAIN Batch("archive")
    OBVIOUS
  <2>2. Len(Batch("archive")) \in 0 .. Len(Batch("archive")) /\ 0 \in 0 .. Len(Batch("archive"))
    <3>1. Batch("archive") \in Seq(Message)
      BY FromOf, Concat DEF HistoryTypeOK, Batch, Recorders
    <3> QED BY <3>1
  <2> QED BY <1>8, <2>1, <2>2 DEF Archive, InMemory, Records, Recorders
<1>9. CASE DriveProvider
  <2>1. {} \in SUBSET DOMAIN Batch("stm")
    OBVIOUS
  <2> QED BY <1>9, <2>1 DEF DriveProvider, InMemory, Records, Recorders, Kept
<1>10. CASE UNCHANGED historyVars
  BY <1>10 DEF historyVars, recording, Kept
<1> QED BY <1>1, <1>2, <1>3, <1>4, <1>5, <1>6, <1>7, <1>8, <1>9, <1>10 DEF HistoryNext

-----------------------------------------------------------------------------
(* What each kind of step does to a recorder.                              *)

(* The state of the recorders and of the history, apart from the rest.     *)
RecordTypes ==
    /\ messages \in Seq(Message)
    /\ written \in 0 .. MaxMessages
    /\ mark \in [Recorders -> Nat]
    /\ pending \in [Recorders -> Seq(Message)]
    /\ log \in [Recorders -> Seq(Message)]
    /\ excused \in [Recorders -> SUBSET (1 .. MaxMessages)]
    /\ again \in [Recorders -> BOOLEAN]
    /\ faults \in 0 .. MaxFaults

LEMMA BatchIs ==
    ASSUME RecordTypes, NEW r \in Recorders
    PROVE  /\ Batch(r) = Ahead(pending[r], messages, mark[r])
           /\ Batch(r) \in Seq(Message)
           /\ DOMAIN Batch(r) = 1 .. Len(Batch(r)) /\ Len(Batch(r)) \in Nat
<1>1. Batch(r) = Ahead(pending[r], messages, mark[r])
  BY DEF Batch, Ahead
<1>2. pending[r] \in Seq(Message) /\ mark[r] \in Nat /\ messages \in Seq(Message)
  BY DEF RecordTypes
<1>3. From(messages, mark[r] + 1) \in Seq(Message)
  BY <1>2, FromOf
<1>4. Batch(r) \in Seq(Message)
  BY <1>2, <1>3, Concat DEF Batch
<1> QED BY <1>1, <1>4

LEMMA RewriteEffect ==
    ASSUME RecordTypes, NEW after \in Seq(Message), Rewrite(after)
    PROVE  /\ RecordTypes' \/ written' # written
           /\ \A r \in Recorders :
                 /\ mark'[r] <= Len(messages')
                 /\ Thinned(Batch(r), Batch(r)')
                 /\ Reals(Batch(r)) \subseteq Reals(Batch(r)') \cup excused'[r]
                 /\ excused[r] \subseteq excused'[r]
           /\ UNCHANGED <<log, again, faults>>
<1> DEFINE owed(r) == Owed(messages, after, mark[r], pending[r])
           kept(r) == Newest(owed(r), PendingCap)
           x(r) == From(after, mark'[r] + 1)
<1>1. messages \in Seq(Message) /\ PendingCap \in Nat
  BY CompactionAssumption DEF RecordTypes
<1>2. /\ messages' = after
      /\ mark' = [r \in Recorders |-> MovedTo(messages, after, mark[r])]
      /\ pending' = [r \in Recorders |-> kept(r)]
      /\ excused' = [r \in Recorders |->
                        excused[r] \cup (Reals(owed(r)) \ Reals(kept(r)))]
      /\ UNCHANGED <<log, again, faults>>
  <2>1. messages' = after /\ Reconcile(messages, after)
    BY DEF Rewrite
  <2> DEFINE k == KeptSuffix(messages, after)
             start == Len(messages) - k
             head == Len(after) - k
             o == [r \in Recorders |-> pending[r] \o Unrecorded(messages, mark[r], start)]
  <2>2. /\ mark' = [r \in Recorders |->
                     IF Translate(mark[r], start, head) <= Len(after)
                     THEN Translate(mark[r], start, head) ELSE Len(after)]
        /\ pending' = [r \in Recorders |-> Newest(o[r], PendingCap)]
        /\ excused' = [r \in Recorders |->
                        excused[r] \cup (Reals(o[r]) \ Reals(Newest(o[r], PendingCap)))]
        /\ UNCHANGED <<log, again, faults>>
    BY <2>1 DEF Reconcile
  <2>3. \A r \in Recorders : o[r] = owed(r)
    BY DEF Owed
  <2>4. mark' = [r \in Recorders |-> MovedTo(messages, after, mark[r])]
    BY <2>2 DEF MovedTo
  <2> HIDE DEF o, owed
  <2> QED BY <2>1, <2>2, <2>3, <2>4
<1>3. ASSUME NEW r \in Recorders
      PROVE  /\ mark'[r] \in Nat /\ mark'[r] <= Len(after)
             /\ owed(r) \in Seq(Message) /\ x(r) \in Seq(Message)
             /\ Batch(r) = owed(r) \o x(r)
  <2>1. mark[r] \in Nat /\ pending[r] \in Seq(Message)
    BY DEF RecordTypes
  <2>2. mark'[r] = MovedTo(messages, after, mark[r])
    BY <1>2
  <2>3. /\ MovedTo(messages, after, mark[r]) \in Nat
        /\ MovedTo(messages, after, mark[r]) <= Len(after)
        /\ owed(r) \in Seq(Message)
        /\ From(after, MovedTo(messages, after, mark[r]) + 1) \in Seq(Message)
        /\ Ahead(pending[r], messages, mark[r])
             = owed(r) \o From(after, MovedTo(messages, after, mark[r]) + 1)
    <3>1. \A m \in Nat, p \in Seq(Message) :
             /\ MovedTo(messages, after, m) \in Nat
             /\ MovedTo(messages, after, m) <= Len(after)
             /\ Owed(messages, after, m, p) \in Seq(Message)
             /\ From(after, MovedTo(messages, after, m) + 1) \in Seq(Message)
             /\ Ahead(p, messages, m) = Owed(messages, after, m, p)
                   \o From(after, MovedTo(messages, after, m) + 1)
      BY <1>1, ReconcileKeeps
    <3> QED BY ONLY <2>1, <3>1
  <2>4. Batch(r) = Ahead(pending[r], messages, mark[r])
    BY BatchIs
  <2> HIDE DEF owed
  <2> QED BY <2>2, <2>3, <2>4
<1> HIDE DEF owed
<1>4. ASSUME NEW r \in Recorders
      PROVE  /\ kept(r) \in Seq(Message)
             /\ Thinned(owed(r) \o x(r), kept(r) \o x(r))
             /\ Reals(owed(r) \o x(r)) \subseteq
                   Reals(kept(r) \o x(r)) \cup (Reals(owed(r)) \ Reals(kept(r)))
  <2> HIDE DEF x
  <2> QED BY <1>1, <1>3, CappedAhead
<1>5. \A r \in Recorders : Batch(r)' = kept(r) \o x(r)
  <2> TAKE r \in Recorders
  <2>1. Batch(r)' = pending'[r] \o From(messages', mark'[r] + 1)
    BY DEF Batch
  <2>2. pending'[r] = kept(r)
    BY <1>2
  <2> QED BY <1>2, <2>1, <2>2
<1>6. \A r \in Recorders : Reals(owed(r)) \subseteq 1 .. MaxMessages
  BY <1>3, AboutParts
<1>7. RecordTypes' \/ written' # written
  <2>1. mark' \in [Recorders -> Nat]
    BY <1>2, <1>3
  <2>2. pending' \in [Recorders -> Seq(Message)]
    BY <1>2, <1>4
  <2>3. excused' \in [Recorders -> SUBSET (1 .. MaxMessages)]
    <3>1. \A r \in Recorders : excused[r] \subseteq 1 .. MaxMessages
      BY DEF RecordTypes
    <3> QED BY <1>2, <1>6, <3>1
  <2>4. messages' \in Seq(Message)
    BY <1>2
  <2> QED BY <1>2, <2>1, <2>2, <2>3, <2>4 DEF RecordTypes
<1> HIDE DEF kept, x
<1>8. ASSUME NEW r \in Recorders
      PROVE  /\ mark'[r] <= Len(messages')
             /\ Thinned(Batch(r), Batch(r)')
             /\ Reals(Batch(r)) \subseteq Reals(Batch(r)') \cup excused'[r]
             /\ excused[r] \subseteq excused'[r]
  <2>1. excused'[r] = excused[r] \cup (Reals(owed(r)) \ Reals(kept(r)))
    BY <1>2
  <2> QED BY <1>2, <1>3, <1>4, <1>5, <2>1
<1> QED BY <1>2, <1>7, <1>8

LEMMA FromAppend ==
    ASSUME NEW S, NEW s \in Seq(S), NEW e \in S, NEW m \in Nat
    PROVE  From(Append(s, e), m + 1)
             = IF m <= Len(s) THEN Append(From(s, m + 1), e) ELSE From(s, m + 1)
<1> DEFINE a == Append(s, e)  n == Len(s)  x == From(a, m + 1)  y == From(s, m + 1)
<1>1. /\ n \in Nat /\ a \in Seq(S) /\ Len(a) = n + 1 /\ a[n + 1] = e
      /\ \A k \in 1 .. n : a[k] = s[k]
  OBVIOUS
<1>2. /\ x \in Seq(S)
      /\ Len(x) = IF m <= n + 1 THEN n + 1 - m ELSE 0
      /\ \A k \in 1 .. Len(x) : m + k \in 1 .. (n + 1) /\ x[k] = a[m + k]
  <2> HIDE DEF a
  <2>1. /\ x \in Seq(S)
        /\ Len(x) = IF m <= Len(a) THEN Len(a) - m ELSE 0
        /\ \A k \in 1 .. Len(x) : m + k \in 1 .. Len(a) /\ x[k] = a[m + k]
    <3>1. \A t \in Seq(S) :
             /\ From(t, m + 1) \in Seq(S)
             /\ Len(From(t, m + 1)) = IF m <= Len(t) THEN Len(t) - m ELSE 0
             /\ \A k \in 1 .. Len(From(t, m + 1)) :
                   m + k \in 1 .. Len(t) /\ From(t, m + 1)[k] = t[m + k]
      BY FromOf
    <3> QED BY ONLY <1>1, <3>1
  <2> QED BY ONLY <1>1, <2>1
<1>3. /\ y \in Seq(S)
      /\ Len(y) = IF m <= n THEN n - m ELSE 0
      /\ \A k \in 1 .. Len(y) : m + k \in 1 .. n /\ y[k] = s[m + k]
  BY <1>1, FromOf
<1> HIDE DEF a, n, x, y
<1>4. CASE m <= n
  <2> DEFINE z == Append(y, e)
  <2>1. Len(y) = n - m /\ n - m \in Nat /\ Len(x) = n - m + 1
    BY <1>1, <1>2, <1>3, <1>4
  <2>2. /\ z \in Seq(S) /\ Len(z) = n - m + 1 /\ z[n - m + 1] = e
        /\ \A k \in 1 .. (n - m) : z[k] = y[k]
    BY <1>3, <2>1
  <2> HIDE DEF z
  <2>3. \A k \in 1 .. (n - m + 1) : x[k] = z[k]
    <3> TAKE k \in 1 .. (n - m + 1)
    <3>1. CASE k = n - m + 1
      <4>1. m + k = n + 1 /\ k \in 1 .. Len(x)
        BY <1>1, <1>4, <2>1, <3>1
      <4> QED BY <1>1, <1>2, <2>2, <3>1, <4>1
    <3>2. CASE k # n - m + 1
      <4>1. k \in 1 .. (n - m) /\ k \in 1 .. Len(x) /\ k \in 1 .. Len(y)
        BY <1>1, <1>4, <2>1, <3>2
      <4> QED BY <1>1, <1>2, <1>3, <2>2, <4>1
    <3> QED BY <3>1, <3>2
  <2>4. x = z
    BY <1>2, <2>1, <2>2, <2>3
  <2> QED BY <1>4, <2>4 DEF x, y, z, a, n
<1>5. CASE ~ (m <= n)
  <2>1. Len(x) = 0 /\ Len(y) = 0
    BY <1>1, <1>2, <1>3, <1>5
  <2>2. x = <<>> /\ y = <<>>
    BY <1>2, <1>3, <2>1
  <2> QED BY <1>5, <2>2 DEF x, y, a, n
<1> QED BY <1>4, <1>5

(* t is what s ends with.                                                  *)
SuffixOf(t, s) == \E e \in 0 .. Len(s) : t = From(s, e + 1)

(* A trim leaves, from any place on, what the sequence from there ends     *)
(* with.                                                                   *)
LEMMA FromNewest ==
    ASSUME NEW S, NEW s \in Seq(S), NEW n \in Nat, NEW m \in Nat
    PROVE  SuffixOf(From(Newest(s, n), m + 1), From(s, m + 1))
<1> DEFINE l == Len(s)  t == Newest(s, n)  x == From(s, m + 1)  y == From(t, m + 1)
<1>0. PICK d \in 0 .. Len(s) :
         /\ Newest(s, n) \in Seq(S)
         /\ Len(Newest(s, n)) = Len(s) - d
         /\ \A k \in 1 .. (Len(s) - d) : Newest(s, n)[k] = s[d + k]
         /\ Len(s) - d <= n
         /\ Newest(s, n) = From(s, d + 1)
  BY NewestOf, Zenon
<1>1. /\ d \in 0 .. l
      /\ t \in Seq(S) /\ Len(t) = l - d
      /\ \A k \in 1 .. (l - d) : t[k] = s[d + k]
  BY <1>0
<1>2. l \in Nat /\ d \in Nat /\ d <= l
  OBVIOUS
<1>3. /\ x \in Seq(S) /\ Len(x) = IF m <= l THEN l - m ELSE 0
      /\ \A k \in 1 .. Len(x) : m + k \in 1 .. l /\ x[k] = s[m + k]
  BY FromOf
<1> HIDE DEF l, t
<1>4. /\ y \in Seq(S) /\ Len(y) = IF m <= l - d THEN l - d - m ELSE 0
      /\ \A k \in 1 .. Len(y) : m + k \in 1 .. (l - d) /\ y[k] = t[m + k]
  <2>1. /\ y \in Seq(S) /\ Len(y) = IF m <= Len(t) THEN Len(t) - m ELSE 0
        /\ \A k \in 1 .. Len(y) : m + k \in 1 .. Len(t) /\ y[k] = t[m + k]
    <3>1. \A u \in Seq(S) :
             /\ From(u, m + 1) \in Seq(S)
             /\ Len(From(u, m + 1)) = IF m <= Len(u) THEN Len(u) - m ELSE 0
             /\ \A k \in 1 .. Len(From(u, m + 1)) :
                   m + k \in 1 .. Len(u) /\ From(u, m + 1)[k] = u[m + k]
      BY FromOf
    <3> QED BY ONLY <1>1, <3>1
  <2> QED BY ONLY <1>1, <2>1
<1> DEFINE c == Len(x)
<1> HIDE DEF x, y
<1>5. c \in Nat
  BY <1>3
<1> DEFINE e == IF d <= c THEN d ELSE c  z == From(x, e + 1)
<1>6. e \in 0 .. c /\ e \in Nat /\ e <= c
  BY <1>2, <1>5
<1> HIDE DEF e
<1>7. /\ z \in Seq(S) /\ Len(z) = c - e
      /\ \A k \in 1 .. Len(z) : e + k \in 1 .. c /\ z[k] = x[e + k]
  BY <1>3, <1>6, FromOf
<1> HIDE DEF z, c
<1>8. Len(y) = c - e
  BY <1>2, <1>3, <1>4 DEF e, c
<1>9. \A k \in 1 .. (c - e) : y[k] = z[k]
  <2> TAKE k \in 1 .. (c - e)
  <2>1. e = d
    <3>1. CASE d <= c
      BY <3>1 DEF e
    <3>2. CASE ~ (d <= c)
      <4>1. e = c
        BY <3>2 DEF e
      <4> QED BY <1>5, <4>1
    <3> QED BY <3>1, <3>2
  <2>2. k \in Nat /\ k \in 1 .. Len(y) /\ k \in 1 .. Len(z)
    BY <1>5, <1>6, <1>7, <1>8
  <2>3. y[k] = t[m + k] /\ m + k \in 1 .. (l - d) /\ t[m + k] = s[d + (m + k)]
    BY <1>1, <1>4, <2>2
  <2>4. z[k] = x[d + k] /\ d + k \in 1 .. c /\ x[d + k] = s[m + (d + k)]
    BY <1>3, <1>7, <2>1, <2>2 DEF c
  <2>5. d + (m + k) = m + (d + k)
    BY <1>2, <2>2
  <2> QED BY <2>3, <2>4, <2>5
<1>10. y = z
  BY <1>4, <1>7, <1>8, <1>9
<1> QED BY <1>6, <1>10 DEF c, x, y, z, t, SuffixOf

(* A message is said behind all that is ahead, or, where a trim has left   *)
(* the mark beyond the history, unheard.                                   *)
LEMMA HearsEffect ==
    ASSUME RecordTypes, Hears
    PROVE  /\ RecordTypes'
           /\ written' = written + 1
           /\ \E by \in {"user", "assistant"} : messages' = Append(messages, Said(written', by))
           /\ \A r \in Recorders :
                 \/ \E by \in {"user", "assistant"} :
                       /\ mark[r] <= Len(messages)
                       /\ Batch(r)' = Append(Batch(r), Said(written', by))
                 \/ mark[r] > Len(messages) /\ Batch(r)' = Batch(r)
<1>1. PICK by \in {"user", "assistant"} :
         /\ written < MaxMessages /\ written' = written + 1
         /\ messages' = Append(messages, Said(written + 1, by))
  BY DEF Hears, Says
<1>2. written' \in 1 .. MaxMessages /\ written' \in 0 .. MaxMessages
  BY <1>1, CompactionAssumption DEF RecordTypes
<1> DEFINE m == Said(written', by)
<1>3. m \in Message
  BY <1>2, NewMessages
<1>4. messages' = Append(messages, m)
  BY <1>1
<1> HIDE DEF m
<1>5. messages \in Seq(Message) /\ messages' \in Seq(Message)
  BY <1>3, <1>4 DEF RecordTypes
<1>6. RecordTypes'
  BY <1>2, <1>5 DEF RecordTypes, Hears, recording
<1>7. ASSUME NEW r \in Recorders
      PROVE  \/ mark[r] <= Len(messages) /\ Batch(r)' = Append(Batch(r), m)
             \/ mark[r] > Len(messages) /\ Batch(r)' = Batch(r)
  <2>1. mark[r] \in Nat /\ pending[r] \in Seq(Message) /\ Len(messages) \in Nat
    BY <1>5 DEF RecordTypes
  <2>2. Batch(r)' = pending[r] \o From(Append(messages, m), mark[r] + 1)
    BY <1>4 DEF Batch, Hears, recording
  <2>3. From(Append(messages, m), mark[r] + 1)
          = IF mark[r] <= Len(messages) THEN Append(From(messages, mark[r] + 1), m)
            ELSE From(messages, mark[r] + 1)
    BY <1>3, <1>5, <2>1, FromAppend
  <2>4. From(messages, mark[r] + 1) \in Seq(Message)
    BY <1>5, <2>1, FromOf
  <2> DEFINE p == pending[r]  f == From(messages, mark[r] + 1)
  <2> HIDE DEF p, f
  <2>5. p \o Append(f, m) = Append(p \o f, m)
    <3>1. p \in Seq(Message) /\ f \in Seq(Message)
      BY <2>1, <2>4 DEF p, f
    <3> QED BY ONLY <1>3, <3>1
  <2>6. Batch(r) = p \o f
    BY DEF Batch, p, f
  <2>7. CASE mark[r] <= Len(messages)
    BY <2>2, <2>3, <2>5, <2>6, <2>7 DEF p, f
  <2>8. CASE ~ (mark[r] <= Len(messages))
    <3>1. mark[r] > Len(messages)
      BY <2>1, <2>8
    <3> QED BY <2>2, <2>3, <2>6, <2>8, <3>1, Zenon DEF p, f
  <2> QED BY <2>7, <2>8
<1> QED BY <1>1, <1>4, <1>6, <1>7 DEF m

LEMMA TrimsEffect ==
    ASSUME RecordTypes, Trims
    PROVE  /\ RecordTypes'
           /\ UNCHANGED <<written, log, again, excused, mark>>
           /\ \A r \in Recorders : Thinned(Batch(r), Batch(r)')
           /\ Stands(messages') \subseteq Stands(messages)
<1>1. messages \in Seq(Message) /\ MaxRecent \in Nat
  BY CompactionAssumption DEF RecordTypes
<1>2. PICK d \in 0 .. Len(messages) :
         /\ messages' \in Seq(Message)
         /\ Len(messages') = Len(messages) - d
         /\ \A k \in 1 .. (Len(messages) - d) : messages'[k] = messages[d + k]
  <2>1. \E d \in 0 .. Len(messages) :
           /\ Newest(messages, MaxRecent) \in Seq(Message)
           /\ Len(Newest(messages, MaxRecent)) = Len(messages) - d
           /\ \A k \in 1 .. (Len(messages) - d) :
                 Newest(messages, MaxRecent)[k] = messages[d + k]
           /\ Len(messages) - d <= MaxRecent
           /\ Newest(messages, MaxRecent) = From(messages, d + 1)
    BY <1>1, NewestOf, Zenon
  <2> QED BY <2>1, Zenon DEF Trims
<1>3. RecordTypes'
  BY <1>2 DEF RecordTypes, Trims, recording
<1>4. ASSUME NEW r \in Recorders PROVE Thinned(Batch(r), Batch(r)')
  <2>1. mark[r] \in Nat /\ pending[r] \in Seq(Message)
    BY DEF RecordTypes
  <2> DEFINE p == pending[r]  f == From(messages, mark[r] + 1)
  <2>2. PICK e \in 0 .. Len(f) : From(messages', mark[r] + 1) = From(f, e + 1)
    <3>1. SuffixOf(From(Newest(messages, MaxRecent), mark[r] + 1),
                   From(messages, mark[r] + 1))
      BY <1>1, <2>1, FromNewest
    <3> QED BY <3>1, Zenon DEF Trims, SuffixOf
  <2>3. f \in Seq(Message)
    BY <1>1, <2>1, FromOf
  <2>4. Batch(r)' = p \o From(messages', mark[r] + 1) /\ Batch(r) = p \o f
    BY DEF Batch, Trims, recording
  <2> HIDE DEF f
  <2>5. Thinned(p \o f, p \o From(f, e + 1))
    BY <2>1, <2>3, BackThinned
  <2> QED BY <2>2, <2>4, <2>5
<1>5. ToSet(messages') \subseteq ToSet(messages)
  <2>1. \A k \in 1 .. (Len(messages) - d) : d + k \in 1 .. Len(messages)
    BY <1>1
  <2>2. /\ DOMAIN messages' = 1 .. (Len(messages) - d)
        /\ DOMAIN messages = 1 .. Len(messages)
    BY <1>1, <1>2
  <2> QED BY <1>2, <2>1, <2>2 DEF ToSet
<1> QED BY <1>3, <1>4, <1>5 DEF Trims, recording, Stands

(* What is disclosed was in the history, but for the marker.               *)
LEMMA DisclosedOf ==
    ASSUME NEW s \in Seq(Message)
    PROVE  Disclosed(s) \in Seq(Message) /\ Stands(Disclosed(s)) \subseteq Stands(s)
<1>1. CASE Len(s) <= MaxRecent
  BY <1>1 DEF Disclosed
<1>2. CASE ~ (Len(s) <= MaxRecent)
  <2> DEFINE n == Newest(s, MaxRecent)  a == <<s[1]>>  b == <<Marker>>
  <2>1. MaxRecent \in Nat \ {0} /\ Len(s) \in Nat /\ 1 \in DOMAIN s
    BY <1>2, CompactionAssumption
  <2>2. n \in Seq(Message) /\ ToSet(n) \subseteq ToSet(s)
    <3>0. \E d \in 0 .. Len(s) :
             /\ Newest(s, MaxRecent) \in Seq(Message)
             /\ Len(Newest(s, MaxRecent)) = Len(s) - d
             /\ \A k \in 1 .. (Len(s) - d) : Newest(s, MaxRecent)[k] = s[d + k]
             /\ Len(s) - d <= MaxRecent
             /\ Newest(s, MaxRecent) = From(s, d + 1)
      <4>1. MaxRecent \in Nat
        BY <2>1
      <4> QED BY <4>1, NewestOf, Zenon
    <3>1. PICK d \in 0 .. Len(s) :
             /\ n \in Seq(Message) /\ Len(n) = Len(s) - d
             /\ \A k \in 1 .. (Len(s) - d) : n[k] = s[d + k]
      BY <3>0, Zenon
    <3>2. \A k \in 1 .. (Len(s) - d) : d + k \in 1 .. Len(s)
      OBVIOUS
    <3>3. DOMAIN n = 1 .. (Len(s) - d) /\ DOMAIN s = 1 .. Len(s)
      BY <3>1
    <3> HIDE DEF n
    <3> QED BY <3>1, <3>2, <3>3 DEF ToSet
  <2>3. a \in Seq(Message) /\ Stands(a) = s[1].of /\ s[1] \in ToSet(s)
    BY <2>1, StandsOne DEF ToSet
  <2>4. b \in Seq(Message) /\ Stands(b) = {}
    <3>1. 0 \in 0 .. MaxMessages
      BY CompactionAssumption
    <3> QED BY <3>1, StandsOne DEF Marker, Message
  <2>5. Disclosed(s) = (a \o b) \o n
    BY <1>2 DEF Disclosed
  <2> HIDE DEF n, a, b
  <2>6. a \o b \in Seq(Message) /\ Stands(a \o b) = s[1].of
    <3>1. \A x, y \in Seq(Message) :
             x \o y \in Seq(Message) /\ Stands(x \o y) = Stands(x) \cup Stands(y)
      BY Concat, RealsConcat
    <3>2. a \in Seq(Message) /\ b \in Seq(Message)
      BY <2>3, <2>4
    <3>3. a \o b \in Seq(Message) /\ Stands(a \o b) = Stands(a) \cup Stands(b)
      BY ONLY <3>1, <3>2
    <3> QED BY <2>3, <2>4, <3>3
  <2> DEFINE h == a \o b
  <2> HIDE DEF h
  <2>7. h \in Seq(Message) /\ Stands(h) = s[1].of
    BY <2>6 DEF h
  <2>8. h \o n \in Seq(Message) /\ Stands(h \o n) = s[1].of \cup Stands(n)
    <3>1. \A x, y \in Seq(Message) :
             x \o y \in Seq(Message) /\ Stands(x \o y) = Stands(x) \cup Stands(y)
      BY Concat, RealsConcat
    <3> QED BY ONLY <2>2, <2>7, <3>1
  <2>9. s[1].of \cup Stands(n) \subseteq Stands(s)
    BY <2>2, <2>3 DEF Stands
  <2> QED BY <2>5, <2>8, <2>9 DEF h
<1> QED BY <1>1, <1>2

(* What a recorder has stored and what it has ahead of it is what was      *)
(* said, in order, and the one before the other.                           *)
RecordsOf(r) ==
    /\ Within(log[r], written) /\ Within(Batch(r), written)
    /\ Ordered(Batch(r))
    /\ ~again[r] => Ordered(log[r]) /\ Before(log[r], Batch(r))

RecordsInv == \A r \in Recorders : RecordsOf(r)

LEMMA WithinGrows ==
    ASSUME NEW s \in Seq(Message), NEW m \in Nat, NEW n \in Nat, m <= n, Within(s, m)
    PROVE  Within(s, n)
<1>1. \A i \in DOMAIN s : s[i].id \in (Preloaded + 1) .. m
  BY DEF Within
<1>2. \A i \in (Preloaded + 1) .. m : i \in (Preloaded + 1) .. n
  BY CompactionAssumption
<1> QED BY <1>1, <1>2 DEF Within

LEMMA WithinConcat ==
    ASSUME NEW s \in Seq(Message), NEW t \in Seq(Message), NEW n,
           Within(s, n), Within(t, n)
    PROVE  Within(s \o t, n)
<1>1. ToSet(s \o t) = ToSet(s) \cup ToSet(t)
  BY ToSetConcat
<1>2. \A u : Within(u, n) <=> \A m \in ToSet(u) : m.id \in (Preloaded + 1) .. n
  BY DEF Within, ToSet
<1> QED BY <1>1, <1>2

LEMMA OrderedConcat ==
    ASSUME NEW s \in Seq(Message), NEW t \in Seq(Message),
           Ordered(s), Ordered(t), Before(s, t)
    PROVE  Ordered(s \o t)
<1> DEFINE c == s \o t  n == Len(s)  m == Len(t)
<1>1. /\ n \in Nat /\ m \in Nat /\ DOMAIN s = 1 .. n /\ DOMAIN t = 1 .. m
  OBVIOUS
<1>2. /\ c \in Seq(Message) /\ Len(c) = n + m
      /\ \A k \in 1 .. (n + m) : c[k] = IF k <= n THEN s[k] ELSE t[k - n]
  BY Concat
<1>3. DOMAIN c = 1 .. (n + m)
  BY <1>2
<1> HIDE DEF c, n, m
<1>4. ASSUME NEW i \in 1 .. (n + m), NEW j \in 1 .. (n + m), i < j
      PROVE  c[i].id < c[j].id
  <2>1. CASE j <= n
    <3>1. i \in 1 .. n /\ j \in 1 .. n /\ i <= n
      BY <1>1, <1>4, <2>1
    <3> QED BY <1>1, <1>2, <1>4, <2>1, <3>1 DEF Ordered
  <2>2. CASE ~ (j <= n) /\ i <= n
    <3>1. i \in 1 .. n /\ j - n \in 1 .. m
      BY <1>1, <2>2
    <3> QED BY <1>1, <1>2, <2>2, <3>1 DEF Before
  <2>3. CASE ~ (i <= n)
    <3>1. i - n \in 1 .. m /\ j - n \in 1 .. m /\ i - n < j - n /\ ~ (j <= n)
      BY <1>1, <1>4, <2>3
    <3> QED BY <1>1, <1>2, <2>3, <3>1 DEF Ordered
  <2> QED BY <2>1, <2>2, <2>3
<1> QED BY <1>3, <1>4 DEF Ordered, c

LEMMA ThinnedRecords ==
    ASSUME NEW s \in Seq(Message), NEW t \in Seq(Message), Thinned(s, t),
           NEW n, NEW l \in Seq(Message)
    PROVE  /\ Within(s, n) => Within(t, n)
           /\ Ordered(s) => Ordered(t)
           /\ Before(l, s) => Before(l, t)
BY ThinnedKeeps DEF Within, Before

(* A recorder that is not at work: its batch may lose a stretch.           *)
LEMMA ThinnedStep ==
    ASSUME RecordTypes, RecordTypes', NEW r \in Recorders,
           Thinned(Batch(r), Batch(r)'), RecordsOf(r),
           written' = written, log'[r] = log[r], again'[r] = again[r]
    PROVE  RecordsOf(r)'
<1> DEFINE b == Batch(r)  c == Batch(r)'  l == log[r]
<1>1. b \in Seq(Message) /\ c \in Seq(Message) /\ l \in Seq(Message)
  <2>1. c \in Seq(Message)
    <3>1. /\ pending'[r] \in Seq(Message) /\ mark'[r] \in Nat
          /\ messages' \in Seq(Message)
      BY DEF RecordTypes
    <3>2. From(messages', mark'[r] + 1) \in Seq(Message)
      BY <3>1, FromOf
    <3> QED BY <3>1, <3>2, Concat DEF Batch
  <2> QED BY <2>1, BatchIs DEF RecordTypes
<1>2. /\ Within(l, written) /\ Within(b, written) /\ Ordered(b)
      /\ ~again[r] => Ordered(l) /\ Before(l, b)
  BY DEF RecordsOf
<1> HIDE DEF b, c, l
<1>3. Thinned(b, c)
  BY DEF b, c
<1>4. /\ Within(c, written) /\ Ordered(c)
      /\ Before(l, b) => Before(l, c)
  BY <1>1, <1>2, <1>3, ThinnedRecords
<1>5. RecordsOf(r)' <=> /\ Within(log'[r], written') /\ Within(c, written')
                        /\ Ordered(c)
                        /\ ~again'[r] => Ordered(log'[r]) /\ Before(log'[r], c)
  BY DEF RecordsOf, c, Within, Ordered, Before
<1>6. log'[r] = l /\ written' = written /\ again'[r] = again[r]
  BY DEF l
<1> QED BY <1>2, <1>4, <1>5, <1>6

(* A recorder hears a message: it is later than all before it.             *)
LEMMA HeardStep ==
    ASSUME RecordTypes, RecordTypes', NEW r \in Recorders,
           NEW by \in {"user", "assistant"},
           Batch(r)' = Append(Batch(r), Said(written', by)), RecordsOf(r),
           written' = written + 1, log'[r] = log[r], again'[r] = again[r],
           Preloaded <= written
    PROVE  RecordsOf(r)'
<1> DEFINE b == Batch(r)  c == Batch(r)'  l == log[r]  m == Said(written', by)
<1>1. b \in Seq(Message) /\ l \in Seq(Message)
  BY BatchIs DEF RecordTypes
<1>2. /\ Within(l, written) /\ Within(b, written) /\ Ordered(b)
      /\ ~again[r] => Ordered(l) /\ Before(l, b)
  BY DEF RecordsOf
<1>3. /\ written \in Nat /\ written' \in Nat /\ written' = written + 1
      /\ written <= written' /\ Preloaded \in Nat /\ written' \in 1 .. MaxMessages
  BY CompactionAssumption DEF RecordTypes
<1>4. m \in Message /\ m.id = written'
  BY <1>3, NewMessages DEF Said
<1> HIDE DEF b, c, l, m
<1>5. c = b \o <<m>>
  <2>1. c = Append(b, m)
    BY DEF b, c, m
  <2> QED BY <1>1, <1>4, <2>1
<1>6. <<m>> \in Seq(Message) /\ DOMAIN <<m>> = 1 .. 1 /\ <<m>>[1] = m
  BY <1>4
<1>7. Within(<<m>>, written') /\ Ordered(<<m>>)
  <2>1. written' \in (Preloaded + 1) .. written'
    BY <1>3
  <2> QED BY <1>4, <1>6, <2>1 DEF Within, Ordered
<1>8. \A s : Within(s, written) => Before(s, <<m>>)
  <2>1. \A i \in (Preloaded + 1) .. written : i < written'
    BY <1>3
  <2> QED BY <1>4, <1>6, <2>1 DEF Within, Before
<1>9. Within(b, written') /\ Within(l, written')
  BY <1>1, <1>2, <1>3, WithinGrows
<1>10. Within(c, written') /\ Ordered(c)
  BY <1>1, <1>2, <1>5, <1>6, <1>7, <1>8, <1>9, WithinConcat, OrderedConcat
<1>11. Before(l, b) => Before(l, c)
  <2>1. ToSet(c) = ToSet(b) \cup ToSet(<<m>>)
    <3>1. \A s \in Seq(Message), t \in Seq(Message) :
             ToSet(s \o t) = ToSet(s) \cup ToSet(t)
      BY ONLY ToSetConcat
    <3> QED BY ONLY <1>1, <1>5, <1>6, <3>1
  <2>2. \A s, t : Before(s, t) <=> \A i \in DOMAIN s : \A e \in ToSet(t) : s[i].id < e.id
    BY DEF Before, ToSet
  <2> QED BY <1>2, <1>8, <2>1, <2>2
<1>12. RecordsOf(r)' <=> /\ Within(log'[r], written') /\ Within(c, written')
                         /\ Ordered(c)
                         /\ ~again'[r] => Ordered(log'[r]) /\ Before(log'[r], c)
  BY DEF RecordsOf, c, Within, Ordered, Before
<1>13. log'[r] = l /\ again'[r] = again[r]
  BY DEF l
<1> QED BY <1>2, <1>9, <1>10, <1>11, <1>12, <1>13

(* A recorder stores some of its batch: in order, and nothing else.        *)
LEMMA StoredPart ==
    ASSUME NEW l \in Seq(Message), NEW b \in Seq(Message), NEW n,
           NEW P \in SUBSET DOMAIN b, Within(l, n), Within(b, n)
    PROVE  /\ l \o Part(b, P) \in Seq(Message)
           /\ Within(l \o Part(b, P), n)
           /\ Ordered(l) /\ Before(l, b) /\ Ordered(b) => Ordered(l \o Part(b, P))
           /\ Reals(l) \subseteq Reals(l \o Part(b, P))
           /\ \A p \in P : b[p].id # 0 => b[p].id \in Reals(l \o Part(b, P))
<1> DEFINE t == Part(b, P)
<1>1. /\ t \in Seq(Message)
      /\ \A i \in DOMAIN t : Nth(P, i) \in P /\ t[i] = b[Nth(P, i)]
      /\ \A i, j \in DOMAIN t : i < j => Nth(P, i) < Nth(P, j)
      /\ \A p \in P : \E i \in DOMAIN t : t[i] = b[p]
  BY PartOf
<1> HIDE DEF t
<1>2. P \subseteq DOMAIN b
  OBVIOUS
<1>3. Within(t, n)
  BY <1>1, <1>2 DEF Within
<1>4. Ordered(b) => Ordered(t)
  BY <1>1, <1>2 DEF Ordered
<1>5. Before(l, b) => Before(l, t)
  BY <1>1, <1>2 DEF Before
<1>6. l \o t \in Seq(Message) /\ Within(l \o t, n)
  BY <1>1, <1>3, Concat, WithinConcat
<1>7. Ordered(l) /\ Before(l, b) /\ Ordered(b) => Ordered(l \o t)
  BY <1>1, <1>4, <1>5, OrderedConcat
<1>8. Reals(l \o t) = Reals(l) \cup Reals(t)
  BY <1>1, RealsConcat
<1>9. ASSUME NEW p \in P, b[p].id # 0 PROVE b[p].id \in Reals(t)
  <2>1. b[p] \in ToSet(t)
    BY <1>1 DEF ToSet
  <2> QED BY <1>9, <2>1 DEF Reals
<1> QED BY <1>6, <1>7, <1>8, <1>9 DEF t

LEMMA EmptyBatch ==
    ASSUME NEW l, NEW n
    PROVE  Within(<<>>, n) /\ Ordered(<<>>) /\ Before(l, <<>>)
BY DEF Within, Ordered, Before

(* Whatever the batch holds, the recorders keep their types.               *)
LEMMA CommittedTypes ==
    ASSUME RecordTypes, NEW r \in Recorders, UNCHANGED <<messages, written>>,
           NEW lost \in SUBSET DOMAIN Batch(r), Committed(r, lost)
    PROVE  RecordTypes'
<1> DEFINE b == Batch(r)  P == DOMAIN b \ lost
<1>1. /\ b \in Seq(Message) /\ DOMAIN b = 1 .. Len(b) /\ Len(b) \in Nat
      /\ log[r] \in Seq(Message) /\ messages \in Seq(Message)
  BY BatchIs DEF RecordTypes
<1>2. /\ faults' = faults + Cardinality(lost) /\ faults' <= MaxFaults
      /\ mark' = [mark EXCEPT ![r] = Len(messages)]
      /\ pending' = [pending EXCEPT ![r] = <<>>]
      /\ log' = [log EXCEPT ![r] = log[r] \o Part(b, P)]
      /\ excused' = [excused EXCEPT ![r] = excused[r] \cup ({b[i].id : i \in lost} \ {0})]
      /\ again' = again
  BY DEF Committed, Stored
<1>3. \A i \in DOMAIN b : b[i].id \in 0 .. MaxMessages
  <2>1. \A m \in Message : m.id \in 0 .. MaxMessages
    BY DEF Message
  <2> HIDE DEF b
  <2> QED BY <1>1, <2>1
<1> HIDE DEF b
<1>4. log[r] \o Part(b, P) \in Seq(Message)
  <2>1. P \in SUBSET DOMAIN b
    OBVIOUS
  <2> HIDE DEF P
  <2> QED BY <1>1, <2>1, PartOf, Concat
<1>5. Cardinality(lost) \in Nat
  <2>1. lost \subseteq 1 .. Len(b)
    BY <1>1 DEF b
  <2>2. IsFiniteSet(1 .. Len(b))
    BY <1>1, FS_Interval
  <2>3. IsFiniteSet(lost)
    BY <2>1, <2>2, FS_Subset
  <2> QED BY <2>3, FS_CardinalityType
<1>6. {b[i].id : i \in lost} \ {0} \subseteq 1 .. MaxMessages
  <2>1. \A i \in 0 .. MaxMessages : i # 0 => i \in 1 .. MaxMessages
    BY CompactionAssumption
  <2>2. lost \subseteq DOMAIN b
    BY DEF b
  <2> QED BY <1>3, <2>1, <2>2
<1>7. Len(messages) \in Nat /\ <<>> \in Seq(Message)
  BY <1>1
<1>8. mark' \in [Recorders -> Nat] /\ pending' \in [Recorders -> Seq(Message)]
  BY <1>2, <1>7 DEF RecordTypes
<1>9. log' \in [Recorders -> Seq(Message)]
  BY <1>2, <1>4 DEF RecordTypes
<1>10. excused' \in [Recorders -> SUBSET (1 .. MaxMessages)]
  BY <1>2, <1>6 DEF RecordTypes
<1>11. faults' \in 0 .. MaxFaults
  BY <1>2, <1>5, CompactionAssumption DEF RecordTypes
<1> QED BY <1>2, <1>8, <1>9, <1>10, <1>11 DEF RecordTypes

LEMMA CommittedStep ==
    ASSUME RecordTypes, NEW r \in Recorders, RecordsOf(r),
           UNCHANGED <<messages, written>>,
           NEW lost \in SUBSET DOMAIN Batch(r), Committed(r, lost)
    PROVE  /\ RecordTypes' /\ RecordsOf(r)'
           /\ mark'[r] = Len(messages)
           /\ excused[r] \subseteq excused'[r] /\ Reals(log[r]) \subseteq Reals(log'[r])
           /\ Reals(Batch(r)) \subseteq Reals(log'[r]) \cup excused'[r]
<1> DEFINE b == Batch(r)  P == DOMAIN b \ lost
<1>1. /\ b \in Seq(Message) /\ DOMAIN b = 1 .. Len(b) /\ Len(b) \in Nat
      /\ log[r] \in Seq(Message) /\ messages \in Seq(Message)
  BY BatchIs DEF RecordTypes
<1>2. Within(log[r], written) /\ Within(b, written) /\ Ordered(b)
  BY DEF RecordsOf
<1>4. /\ faults' = faults + Cardinality(lost) /\ faults' <= MaxFaults
      /\ mark' = [mark EXCEPT ![r] = Len(messages)]
      /\ pending' = [pending EXCEPT ![r] = <<>>]
      /\ log' = [log EXCEPT ![r] = log[r] \o Part(b, P)]
      /\ excused' = [excused EXCEPT ![r] = excused[r] \cup ({b[i].id : i \in lost} \ {0})]
      /\ again' = again
  BY DEF Committed, Stored
<1> HIDE DEF b
<1>5. /\ log[r] \o Part(b, P) \in Seq(Message)
      /\ Within(log[r] \o Part(b, P), written)
      /\ Ordered(log[r]) /\ Before(log[r], b) => Ordered(log[r] \o Part(b, P))
      /\ Reals(log[r]) \subseteq Reals(log[r] \o Part(b, P))
      /\ \A p \in P : b[p].id # 0 => b[p].id \in Reals(log[r] \o Part(b, P))
  <2>1. P \in SUBSET DOMAIN b
    OBVIOUS
  <2> HIDE DEF P
  <2> QED BY <1>1, <1>2, <2>1, StoredPart
<1>8. RecordTypes'
  BY CommittedTypes
<1>9. Batch(r)' = <<>>
  <2>1. pending'[r] = <<>> /\ mark'[r] = Len(messages) /\ messages' = messages
    BY <1>4 DEF RecordTypes
  <2>2. From(messages, Len(messages) + 1) = <<>>
    BY <1>1 DEF From
  <2> QED BY <2>1, <2>2 DEF Batch
<1>10. log'[r] = log[r] \o Part(b, P)
  BY <1>4 DEF RecordTypes
<1>11. RecordsOf(r)'
  <2> DEFINE c == Batch(r)'
  <2>1. RecordsOf(r)' <=> /\ Within(log'[r], written') /\ Within(c, written')
                          /\ Ordered(c)
                          /\ ~again'[r] => Ordered(log'[r]) /\ Before(log'[r], c)
    BY DEF RecordsOf, Within, Ordered, Before
  <2>2. ~again[r] => Ordered(log[r]) /\ Before(log[r], b)
    BY DEF RecordsOf, b
  <2> HIDE DEF c, P
  <2>3. c = <<>> /\ written' = written
    BY <1>9 DEF c
  <2> QED BY <1>4, <1>5, <1>10, <2>1, <2>2, <2>3, EmptyBatch
<1>12. Reals(b) \subseteq Reals(log'[r]) \cup excused'[r]
  <2>1. excused'[r] = excused[r] \cup ({b[i].id : i \in lost} \ {0})
    BY <1>4 DEF RecordTypes
  <2>2. ASSUME NEW i \in DOMAIN b, b[i].id # 0
        PROVE  b[i].id \in Reals(log'[r]) \cup excused'[r]
    BY <1>5, <1>10, <2>1, <2>2
  <2> QED BY <2>2 DEF Reals, ToSet
<1> QED BY <1>4, <1>5, <1>8, <1>10, <1>11, <1>12 DEF b, RecordTypes

(* The first n places.                                                     *)
LEMMA FirstPart ==
    ASSUME NEW b \in Seq(Message), NEW n \in 0 .. Len(b)
    PROVE  /\ SubSeq(b, 1, n) \in Seq(Message) /\ Len(SubSeq(b, 1, n)) = n
           /\ \A k \in 1 .. n : SubSeq(b, 1, n)[k] = b[k]
<1>1. Len(b) \in Nat /\ n \in Nat /\ n <= Len(b)
  OBVIOUS
<1>2. \A k \in 1 .. n : b[k] \in Message
  BY <1>1
<1>3. SubSeq(b, 1, n) = [k \in 1 .. n |-> b[k]]
  BY <1>1
<1> QED BY <1>1, <1>2, <1>3

LEMMA InterruptedTypes ==
    ASSUME RecordTypes, NEW r \in Recorders, UNCHANGED <<messages, written>>,
           NEW n \in 0 .. Len(Batch(r)), Interrupted(r, n)
    PROVE  RecordTypes'
<1> DEFINE b == Batch(r)  t == SubSeq(b, 1, n)
<1>1. /\ b \in Seq(Message) /\ log[r] \in Seq(Message)
  BY BatchIs DEF RecordTypes
<1>2. /\ faults' = faults + 1 /\ faults < MaxFaults
      /\ log' = [log EXCEPT ![r] = log[r] \o t]
      /\ again' = [again EXCEPT ![r] = again[r] \/ n > 0]
      /\ UNCHANGED <<mark, pending, excused>>
  BY DEF Interrupted, Stored
<1>3. n \in 0 .. Len(b)
  OBVIOUS
<1> HIDE DEF b
<1>4. t \in Seq(Message)
  BY <1>1, <1>3, FirstPart
<1> HIDE DEF t
<1>5. log[r] \o t \in Seq(Message)
  BY <1>1, <1>4, Concat
<1>6. log' \in [Recorders -> Seq(Message)]
  BY <1>2, <1>5 DEF RecordTypes
<1>7. again' \in [Recorders -> BOOLEAN]
  BY <1>2 DEF RecordTypes
<1>8. faults' \in 0 .. MaxFaults
  BY <1>2, CompactionAssumption DEF RecordTypes
<1> QED BY <1>2, <1>6, <1>7, <1>8 DEF RecordTypes

LEMMA InterruptedStep ==
    ASSUME RecordTypes, NEW r \in Recorders, RecordsOf(r),
           UNCHANGED <<messages, written>>,
           NEW n \in 0 .. Len(Batch(r)), Interrupted(r, n)
    PROVE  /\ RecordTypes' /\ RecordsOf(r)'
           /\ UNCHANGED <<mark, pending, excused>>
           /\ Batch(r)' = Batch(r)
           /\ Reals(log[r]) \subseteq Reals(log'[r])
<1> DEFINE b == Batch(r)  t == SubSeq(b, 1, n)
<1>1. /\ b \in Seq(Message) /\ log[r] \in Seq(Message)
  BY BatchIs DEF RecordTypes
<1>2. Within(log[r], written) /\ Within(b, written) /\ Ordered(b)
  BY DEF RecordsOf
<1>3. /\ faults' = faults + 1 /\ faults < MaxFaults
      /\ log' = [log EXCEPT ![r] = log[r] \o t]
      /\ again' = [again EXCEPT ![r] = again[r] \/ n > 0]
      /\ UNCHANGED <<mark, pending, excused>>
  BY DEF Interrupted, Stored
<1>4. Batch(r)' = b
  BY <1>3 DEF Batch
<1>5. t \in Seq(Message) /\ Len(t) = n /\ \A k \in 1 .. n : t[k] = b[k] /\ k \in DOMAIN b
  <2>1. n \in 0 .. Len(b)
    OBVIOUS
  <2> HIDE DEF b
  <2>2. \A k \in 1 .. n : k \in DOMAIN b
    BY <1>1, <2>1
  <2> QED BY <1>1, <2>1, <2>2, FirstPart
<1>6. n = 0 \/ n > 0
  BY <1>1
<1> HIDE DEF b, t
<1>7. Within(t, written)
  <2>1. DOMAIN t = 1 .. n
    BY <1>5
  <2> QED BY <1>2, <1>5, <2>1 DEF Within
<1>8. /\ log[r] \o t \in Seq(Message) /\ Within(log[r] \o t, written)
      /\ Reals(log[r] \o t) = Reals(log[r]) \cup Reals(t)
  BY <1>1, <1>2, <1>5, <1>7, Concat, WithinConcat, RealsConcat
<1>9. log'[r] = log[r] \o t
  BY <1>3 DEF RecordTypes
<1>10. RecordTypes'
  BY InterruptedTypes
<1>11. RecordsOf(r)'
  <2>1. RecordsOf(r)' <=> /\ Within(log'[r], written') /\ Within(b, written')
                          /\ Ordered(b)
                          /\ ~again'[r] => Ordered(log'[r]) /\ Before(log'[r], b)
    BY <1>4 DEF RecordsOf, Within, Ordered, Before
  <2>2. ~again[r] => Ordered(log[r]) /\ Before(log[r], b)
    BY DEF RecordsOf, b
  <2>3. ~again'[r] => ~again[r] /\ ~ (n > 0)
    BY <1>3 DEF RecordTypes
  <2>4. ~ (n > 0) => log'[r] = log[r]
    <3>1. ~ (n > 0) => t = <<>>
      BY <1>5, <1>6
    <3>2. log[r] \o <<>> = log[r]
      BY <1>1
    <3> QED BY <1>9, <3>1, <3>2
  <2> QED BY <1>2, <1>8, <1>9, <2>1, <2>2, <2>3, <2>4
<1> QED BY <1>3, <1>4, <1>8, <1>9, <1>10, <1>11 DEF b

-----------------------------------------------------------------------------
(* Each kind of step preserves the invariant of the recorders.             *)

NotForgotten(r) == New \subseteq Reals(log[r]) \cup excused[r] \cup Reals(Batch(r))

(* What a step of the conversation keeps of the history and its records.   *)
ConversationInv ==
    /\ Preloaded <= written
    /\ strategy # "progressive_disclosure" => RecordsInv
    /\ strategy = "simple_load" =>
          \A r \in Recorders : mark[r] <= Len(messages) /\ NotForgotten(r)
    /\ EverythingInView

LEMMA KeptStep ==
    ASSUME RecordTypes, ConversationInv, Kept, UNCHANGED <<strategy, written>>
    PROVE  RecordTypes' /\ ConversationInv'
<1>1. UNCHANGED <<strategy, written, messages, mark, pending, log, excused, again, faults>>
  BY DEF Kept, recording
<1>2. RecordTypes'
  BY <1>1 DEF RecordTypes
<1>3. \A r \in Recorders : Batch(r)' = Batch(r)
  BY <1>1 DEF Batch
<1>4. strategy' # "progressive_disclosure" => RecordsInv'
  BY <1>1, <1>3 DEF ConversationInv, RecordsInv, RecordsOf, Within, Ordered, Before
<1>5. EverythingInView'
  BY <1>1 DEF ConversationInv, EverythingInView
<1>6. strategy' = "simple_load" =>
         \A r \in Recorders : mark'[r] <= Len(messages') /\ NotForgotten(r)'
  BY <1>1, <1>3 DEF ConversationInv, NotForgotten, New
<1> QED BY <1>1, <1>2, <1>4, <1>5, <1>6 DEF ConversationInv

LEMMA RewritesStep ==
    ASSUME RecordTypes, ConversationInv, Rewrites, UNCHANGED <<strategy, written>>
    PROVE  RecordTypes' /\ ConversationInv'
<1>1. PICK after \in Seq(Message) : Rewrite(after) /\ Stands(after) = Stands(messages)
  BY DEF Rewrites
<1>2. /\ RecordTypes'
      /\ \A r \in Recorders :
            /\ mark'[r] <= Len(messages')
            /\ Thinned(Batch(r), Batch(r)')
            /\ Reals(Batch(r)) \subseteq Reals(Batch(r)') \cup excused'[r]
            /\ excused[r] \subseteq excused'[r]
      /\ UNCHANGED <<log, again, faults>>
  BY <1>1, RewriteEffect
<1>3. ASSUME strategy' # "progressive_disclosure" PROVE RecordsInv'
  <2>1. ASSUME NEW r \in Recorders PROVE RecordsOf(r)'
    BY <1>2, <1>3, <2>1, ThinnedStep DEF ConversationInv, RecordsInv
  <2> QED BY <2>1 DEF RecordsInv
<1>4. EverythingInView'
  <2>1. Stands(messages)' = Stands(messages)
    BY <1>1 DEF Rewrite, Stands, ToSet
  <2> QED BY <2>1 DEF ConversationInv, EverythingInView
<1>5. ASSUME strategy' = "simple_load", NEW r \in Recorders
      PROVE  mark'[r] <= Len(messages') /\ NotForgotten(r)'
  <2>1. New \subseteq Reals(log[r]) \cup excused[r] \cup Reals(Batch(r))
    BY <1>5 DEF ConversationInv, NotForgotten
  <2>2. New' = New /\ log'[r] = log[r]
    BY <1>2 DEF New
  <2>3. NotForgotten(r)' <=> New' \subseteq Reals(log'[r]) \cup excused'[r] \cup Reals(Batch(r)')
    BY DEF NotForgotten, Reals, ToSet
  <2> QED BY <1>2, <2>1, <2>2, <2>3
<1> QED BY <1>2, <1>3, <1>4, <1>5 DEF ConversationInv

LEMMA TrimsStep ==
    ASSUME RecordTypes, ConversationInv, Trims, UNCHANGED strategy
    PROVE  RecordTypes' /\ ConversationInv'
<1>1. /\ RecordTypes'
      /\ UNCHANGED <<written, log, again, excused, mark>>
      /\ \A r \in Recorders : Thinned(Batch(r), Batch(r)')
      /\ Stands(messages') \subseteq Stands(messages)
  BY TrimsEffect
<1>2. strategy' = "hybrid"
  BY DEF Trims
<1>3. RecordsInv'
  <2>1. ASSUME NEW r \in Recorders PROVE RecordsOf(r)'
    BY <1>1, <1>2, <2>1, ThinnedStep DEF ConversationInv, RecordsInv
  <2> QED BY <2>1 DEF RecordsInv
<1>4. EverythingInView'
  BY <1>1, <1>2 DEF ConversationInv, EverythingInView, Stands, ToSet
<1> QED BY <1>1, <1>2, <1>3, <1>4 DEF ConversationInv

LEMMA DisclosesStep ==
    ASSUME RecordTypes, ConversationInv, Discloses, UNCHANGED strategy
    PROVE  RecordTypes' /\ ConversationInv'
<1>1. messages' \in Seq(Message) /\ Stands(messages') \subseteq Stands(messages)
  BY DisclosedOf DEF Discloses, RecordTypes
<1>2. RecordTypes'
  BY <1>1 DEF RecordTypes, Discloses, recording
<1>3. strategy' = "progressive_disclosure" /\ written' = written
  BY DEF Discloses
<1>4. EverythingInView'
  BY <1>1, <1>3 DEF ConversationInv, EverythingInView, Stands, ToSet
<1> QED BY <1>2, <1>3, <1>4 DEF ConversationInv

LEMMA HearsStep ==
    ASSUME RecordTypes, ConversationInv, Hears, UNCHANGED strategy
    PROVE  RecordTypes' /\ ConversationInv'
<1>1. /\ RecordTypes' /\ written' = written + 1
      /\ \A r \in Recorders :
            \/ \E by \in {"user", "assistant"} :
                  /\ mark[r] <= Len(messages)
                  /\ Batch(r)' = Append(Batch(r), Said(written', by))
            \/ mark[r] > Len(messages) /\ Batch(r)' = Batch(r)
  BY HearsEffect
<1>2. PICK by \in {"user", "assistant"} : messages' = Append(messages, Said(written', by))
  BY HearsEffect
<1>3. UNCHANGED <<mark, pending, log, excused, again, faults>>
  BY DEF Hears, recording
<1>4. /\ written \in Nat /\ written' \in Nat /\ Preloaded \in Nat
      /\ written' \in 1 .. MaxMessages /\ Preloaded <= written' /\ written <= written'
  BY <1>1, CompactionAssumption DEF RecordTypes, ConversationInv
<1>5. \A b \in {"user", "assistant"} :
         Said(written', b) \in Message /\ Said(written', b).id = written'
         /\ Said(written', b).of = {written'}
  BY <1>4, NewMessages DEF Said
<1>6. messages \in Seq(Message) /\ Len(messages) \in Nat
  BY DEF RecordTypes
<1>7. \A s \in Seq(Message), b \in {"user", "assistant"} :
         /\ Reals(Append(s, Said(written', b))) = Reals(s) \cup {written'}
         /\ Stands(Append(s, Said(written', b))) = Stands(s) \cup {written'}
  <2> TAKE s \in Seq(Message), b \in {"user", "assistant"}
  <2> DEFINE m == Said(written', b)  o == <<m>>
  <2>1. m \in Message /\ m.id = written' /\ m.of = {written'}
    BY <1>5
  <2> HIDE DEF m
  <2>2. o \in Seq(Message) /\ Append(s, m) = s \o o
    BY <2>1
  <2>3. Reals(o) = {m.id} \ {0} /\ Stands(o) = m.of
    BY StandsOne
  <2> HIDE DEF o
  <2>4. Reals(s \o o) = Reals(s) \cup Reals(o) /\ Stands(s \o o) = Stands(s) \cup Stands(o)
    BY <2>2, RealsConcat
  <2>5. written' # 0
    BY <1>4
  <2> QED BY <2>1, <2>2, <2>3, <2>4, <2>5 DEF m
<1>8. ASSUME strategy' # "progressive_disclosure", NEW r \in Recorders PROVE RecordsOf(r)'
  <2>1. RecordsOf(r)
    BY <1>8 DEF ConversationInv, RecordsInv
  <2>2. CASE \E b \in {"user", "assistant"} : Batch(r)' = Append(Batch(r), Said(written', b))
    BY <1>1, <1>3, <2>1, <2>2, HeardStep DEF ConversationInv
  <2>3. CASE Batch(r)' = Batch(r)
    <3>1. Batch(r) \in Seq(Message) /\ log[r] \in Seq(Message)
      BY BatchIs DEF RecordTypes
    <3>2. Within(Batch(r), written') /\ Within(log[r], written')
      BY <1>4, <2>1, <3>1, WithinGrows DEF RecordsOf
    <3>3. RecordsOf(r)' <=> /\ Within(log'[r], written') /\ Within(Batch(r)', written')
                            /\ Ordered(Batch(r)')
                            /\ ~again'[r] => Ordered(log'[r]) /\ Before(log'[r], Batch(r)')
      BY DEF RecordsOf, Within, Ordered, Before
    <3> QED BY <1>3, <2>1, <2>3, <3>2, <3>3 DEF RecordsOf
  <2> QED BY <1>1, <2>2, <2>3
<1>9. strategy' # "progressive_disclosure" => RecordsInv'
  BY <1>8 DEF RecordsInv
<1>10. 1 .. written' = 1 .. written \cup {written'} /\ New' = New \cup {written'}
  BY <1>1, <1>4, CompactionAssumption DEF New, ConversationInv
<1>11. EverythingInView'
  <2>1. Stands(messages)' = Stands(messages) \cup {written'}
    <3>1. Stands(messages)' = Stands(Append(messages, Said(written', by)))
      BY <1>2 DEF Stands, ToSet
    <3> QED BY <1>6, <1>7, <3>1
  <2> QED BY <1>10, <2>1 DEF ConversationInv, EverythingInView
<1>12. ASSUME strategy' = "simple_load", NEW r \in Recorders
       PROVE  mark'[r] <= Len(messages') /\ NotForgotten(r)'
  <2>1. mark[r] <= Len(messages) /\ NotForgotten(r) /\ mark[r] \in Nat
    BY <1>12 DEF ConversationInv, RecordTypes
  <2>2. Len(messages') = Len(messages) + 1
    BY <1>2, <1>5, <1>6
  <2>3. PICK b \in {"user", "assistant"} : Batch(r)' = Append(Batch(r), Said(written', b))
    BY <1>1, <1>6, <2>1
  <2>4. Batch(r) \in Seq(Message)
    BY BatchIs
  <2>5. Reals(Batch(r)') = Reals(Batch(r)) \cup {written'}
    BY <1>7, <2>3, <2>4
  <2>6. NotForgotten(r)' <=> New' \subseteq Reals(log'[r]) \cup excused'[r] \cup Reals(Batch(r)')
    BY DEF NotForgotten, Reals, ToSet
  <2>7. mark'[r] <= Len(messages')
    BY <1>3, <1>6, <2>1, <2>2
  <2> QED BY <1>3, <1>10, <2>1, <2>5, <2>6, <2>7 DEF NotForgotten
<1> QED BY <1>1, <1>4, <1>9, <1>11, <1>12 DEF ConversationInv

(* Where the list was shifted under the watermarks, a recorder still       *)
(* leaves the history alone.                                               *)
LEMMA ShiftedRecordsStep ==
    ASSUME RecordTypes, ConversationInv, NEW r \in Recorders, Records(r), UNCHANGED strategy,
           strategy = "progressive_disclosure"
    PROVE  RecordTypes' /\ ConversationInv'
<1>1. messages' = messages /\ written' = written
  BY DEF Records
<1>2. RecordTypes'
  BY CommittedTypes, InterruptedTypes DEF Records
<1>3. EverythingInView'
  BY <1>1 DEF ConversationInv, EverythingInView
<1> QED BY <1>1, <1>2, <1>3 DEF ConversationInv

LEMMA RecordsStep ==
    ASSUME RecordTypes, ConversationInv, NEW r \in Recorders, Records(r), UNCHANGED strategy,
           strategy # "progressive_disclosure"
    PROVE  RecordTypes' /\ ConversationInv'
<1>1. messages' = messages /\ written' = written /\ RecordsOf(r)
  BY DEF Records, ConversationInv, RecordsInv
<1>2. /\ RecordTypes' /\ RecordsOf(r)'
      /\ mark[r] <= Len(messages) => mark'[r] <= Len(messages)
      /\ excused[r] \subseteq excused'[r] /\ Reals(log[r]) \subseteq Reals(log'[r])
      /\ Reals(Batch(r)) \subseteq Reals(log'[r]) \cup excused'[r] \cup Reals(Batch(r)')
  <2>1. CASE \E lost \in SUBSET DOMAIN Batch(r) : Committed(r, lost)
    <3>1. PICK lost \in SUBSET DOMAIN Batch(r) : Committed(r, lost)
      BY <2>1
    <3>2. /\ RecordTypes' /\ RecordsOf(r)' /\ mark'[r] = Len(messages)
          /\ excused[r] \subseteq excused'[r] /\ Reals(log[r]) \subseteq Reals(log'[r])
          /\ Reals(Batch(r)) \subseteq Reals(log'[r]) \cup excused'[r]
      BY <1>1, <3>1, CommittedStep
    <3>3. Len(messages) \in Nat
      BY DEF RecordTypes
    <3> QED BY <3>2, <3>3
  <2>2. CASE \E n \in 0 .. Len(Batch(r)) : Interrupted(r, n)
    BY <1>1, <2>2, InterruptedStep
  <2> QED BY <2>1, <2>2 DEF Records
<1>3. ASSUME NEW q \in Recorders, q # r
      PROVE  /\ mark'[q] = mark[q] /\ pending'[q] = pending[q] /\ log'[q] = log[q]
             /\ excused'[q] = excused[q] /\ again'[q] = again[q]
  BY <1>3 DEF Records, Committed, Interrupted, Stored, RecordTypes
<1>4. \A q \in Recorders : q # r => Batch(q)' = Batch(q)
  BY <1>1, <1>3 DEF Batch
<1>5. RecordsInv'
  <2>1. ASSUME NEW q \in Recorders, q # r PROVE RecordsOf(q)'
    <3>1. Thinned(Batch(q), Batch(q)')
      BY <1>4, <2>1, BatchIs, SameThinned
    <3> QED BY <1>1, <1>2, <1>3, <2>1, <3>1, ThinnedStep DEF ConversationInv, RecordsInv
  <2> QED BY <1>2, <2>1 DEF RecordsInv
<1>6. EverythingInView'
  BY <1>1 DEF ConversationInv, EverythingInView
<1>7. ASSUME strategy' = "simple_load", NEW q \in Recorders
      PROVE  mark'[q] <= Len(messages') /\ NotForgotten(q)'
  <2>1. mark[q] <= Len(messages) /\ NotForgotten(q)
    BY <1>7 DEF ConversationInv
  <2>2. NotForgotten(q)' <=> New' \subseteq Reals(log'[q]) \cup excused'[q] \cup Reals(Batch(q)')
    BY DEF NotForgotten, Reals, ToSet
  <2>3. New' = New
    BY <1>1 DEF New
  <2>4. CASE q = r
    BY <1>1, <1>2, <2>1, <2>2, <2>3, <2>4 DEF NotForgotten
  <2>5. CASE q # r
    BY <1>1, <1>3, <1>4, <2>1, <2>2, <2>3, <2>5 DEF NotForgotten
  <2> QED BY <2>4, <2>5
<1> QED BY <1>1, <1>2, <1>5, <1>6, <1>7 DEF ConversationInv

-----------------------------------------------------------------------------
(* What a turn pays for.                                                   *)

PolicyTypes ==
    /\ apiCalls \in Nat /\ attempts \in Nat /\ failures \in Nat
    /\ summarizedAt = None \/ summarizedAt \in Nat
    /\ calls \in Nat /\ softCalls \in Nat

(* The model calls this turn pays for are those of its attempts, and the   *)
(* ones made under pressure that can wait belong to the attempt its model  *)
(* request was summarised at.                                              *)
BudgetInv ==
    /\ calls <= MaxAsks * attempts /\ calls <= MaxAsks * MaxAttempts
    /\ softCalls <= MaxAsks
    /\ softCalls # 0 => summarizedAt = apiCalls

(* One attempt, counted before it is known what becomes of it.             *)
LEMMA AttemptCounted ==
    ASSUME PolicyTypes, BudgetInv, UNCHANGED apiCalls,
           NEW asked \in 0 .. MaxAsks, NEW person \in BOOLEAN, NEW soft \in BOOLEAN, NEW source,
           Attempt(source, asked, person, soft),
           ~person /\ asked > 0 => InBudget,
           ~person /\ soft => summarizedAt # apiCalls
    PROVE  PolicyTypes' /\ BudgetInv'
<1> DEFINE paid == IF person THEN 0 ELSE asked
           one == IF asked > 0 THEN 1 ELSE 0
<1>1. /\ summarizedAt' = apiCalls
      /\ attempts' = attempts + one
      /\ failures' \in {0, failures, failures + 1}
      /\ calls' = calls + paid
      /\ softCalls' = softCalls + (IF soft THEN paid ELSE 0)
  BY DEF Attempt, CountAttempt, Paid
<1>2. /\ paid \in 0 .. 2 /\ one \in {0, 1} /\ paid <= 2 * one
      /\ paid > 0 => ~person /\ one = 1 /\ attempts < MaxAttempts
  BY DEF MaxAsks, InBudget
<1> HIDE DEF paid, one
<1>3. /\ attempts \in Nat /\ calls \in Nat /\ softCalls \in Nat /\ MaxAttempts \in Nat
      /\ calls <= 2 * attempts /\ calls <= 2 * MaxAttempts /\ softCalls <= 2
  BY CompactionAssumption DEF PolicyTypes, BudgetInv, MaxAsks
<1>4. PolicyTypes'
  BY <1>1, <1>2 DEF PolicyTypes
<1>5. calls' <= 2 * attempts' /\ calls' <= 2 * MaxAttempts
  <2>1. CASE paid > 0
    BY <1>1, <1>2, <1>3, <2>1
  <2>2. CASE ~ (paid > 0)
    BY <1>1, <1>2, <1>3, <2>2
  <2> QED BY <2>1, <2>2
<1>6. softCalls' <= 2
  <2>1. CASE soft /\ paid > 0
    <3>1. softCalls = 0
      BY <1>2, <2>1 DEF BudgetInv
    <3> QED BY <1>1, <1>2, <2>1, <3>1
  <2>2. CASE ~ (soft /\ paid > 0)
    BY <1>1, <1>2, <1>3, <2>2
  <2> QED BY <2>1, <2>2
<1> QED BY <1>1, <1>4, <1>5, <1>6 DEF BudgetInv, MaxAsks

LEMMA SummarizesCounted ==
    ASSUME PolicyTypes, BudgetInv, UNCHANGED apiCalls, NEW person \in BOOLEAN,
           Summarizes(person), ~person => InBudget /\ summarizedAt # apiCalls
    PROVE  PolicyTypes' /\ BudgetInv'
<1>1. CASE \E asked \in 1 .. MaxAsks : Summarized("model", asked, person, TRUE)
  <2>1. PICK asked \in 1 .. MaxAsks : Summarized("model", asked, person, TRUE)
    BY <1>1
  <2>2. Attempt("model", asked, person, TRUE)
    BY <2>1 DEF Summarized
  <2>3. asked \in 0 .. MaxAsks
    BY <2>1 DEF MaxAsks
  <2> QED BY <1>1, <2>2, <2>3, AttemptCounted
<1>2. CASE NoSummary("model_failed", MaxAsks, person)
  <2>1. Attempt("model_failed", MaxAsks, person, TRUE)
    BY <1>2 DEF NoSummary
  <2>2. MaxAsks \in 0 .. MaxAsks
    BY DEF MaxAsks
  <2> QED BY <1>2, <2>1, <2>2, AttemptCounted
<1>3. CASE NoSummary("unavailable", 0, person)
  <2>1. Attempt("unavailable", 0, person, TRUE)
    BY <1>3 DEF NoSummary
  <2>2. 0 \in 0 .. MaxAsks
    BY DEF MaxAsks
  <2> QED BY <1>3, <2>1, <2>2, AttemptCounted
<1> QED BY <1>1, <1>2, <1>3 DEF Summarizes

LEMMA CompactionCounted ==
    ASSUME PolicyTypes, BudgetInv, UNCHANGED apiCalls,
           LeftAlone \/ SoftCompaction \/ HardCompaction
    PROVE  PolicyTypes' /\ BudgetInv'
<1>1. CASE LeftAlone
  BY <1>1 DEF LeftAlone, policy, PolicyTypes, BudgetInv
<1>2. CASE SoftCompaction
  <2>1. CASE SoftGate /\ Summarizes(FALSE)
    BY <2>1, SummarizesCounted DEF SoftGate
  <2> QED BY <1>1, <1>2, <2>1 DEF SoftCompaction
<1>3. CASE InBudget /\ \E asked \in 1 .. MaxAsks : Summarized("model", asked, FALSE, FALSE)
  <2>1. PICK asked \in 1 .. MaxAsks : Summarized("model", asked, FALSE, FALSE)
    BY <1>3
  <2>2. Attempt("model", asked, FALSE, FALSE)
    BY <2>1 DEF Summarized
  <2>3. asked \in 0 .. MaxAsks
    BY <2>1 DEF MaxAsks
  <2> QED BY <1>3, <2>2, <2>3, AttemptCounted
<1>4. CASE InBudget /\ Summarized("digest", MaxAsks, FALSE, FALSE)
  <2>1. Attempt("digest", MaxAsks, FALSE, FALSE)
    BY <1>4 DEF Summarized
  <2>2. MaxAsks \in 0 .. MaxAsks
    BY DEF MaxAsks
  <2> QED BY <1>4, <2>1, <2>2, AttemptCounted
<1>5. CASE Summarized("digest", 0, FALSE, FALSE)
  <2>1. Attempt("digest", 0, FALSE, FALSE)
    BY <1>5 DEF Summarized
  <2>2. 0 \in 0 .. MaxAsks /\ FALSE \in BOOLEAN /\ ~ (0 > 0)
    BY DEF MaxAsks
  <2>3. /\ ~FALSE /\ 0 > 0 => InBudget
        /\ ~FALSE /\ FALSE => summarizedAt # apiCalls
    BY <2>2
  <2> QED BY <2>1, <2>2, <2>3, AttemptCounted
<1> QED BY <1>1, <1>2, <1>3, <1>4, <1>5 DEF HardCompaction

LEMMA ScheduleCounted ==
    ASSUME PolicyTypes, BudgetInv, UNCHANGED apiCalls, Schedule
    PROVE  PolicyTypes' /\ BudgetInv'
<1>1. /\ InBudget /\ summarizedAt # apiCalls
      /\ summarizedAt' = apiCalls /\ attempts' = attempts + 1 /\ failures' = failures
      /\ calls' = calls + 2 /\ softCalls' = softCalls + 2
  BY DEF Schedule, SoftGate, Paid, MaxAsks
<1>2. PolicyTypes'
  BY <1>1 DEF PolicyTypes
<1>3. calls' <= 2 * attempts' /\ calls' <= 2 * MaxAttempts /\ softCalls' <= 2
  BY <1>1, CompactionAssumption DEF PolicyTypes, BudgetInv, InBudget, MaxAsks
<1> QED BY <1>1, <1>2, <1>3 DEF BudgetInv, MaxAsks

LEMMA BudgetStep ==
    ASSUME PolicyTypes, BudgetInv, [HistoryNext]_historyVars
    PROVE  PolicyTypes' /\ BudgetInv'
<1>1. CASE BeginTurn
  <2>1. apiCalls' = 0 /\ summarizedAt' = None /\ attempts' = 0 /\ failures' = 0
        /\ calls' = 0 /\ softCalls' = 0
    BY <1>1 DEF BeginTurn
  <2> QED BY <2>1, CompactionAssumption DEF PolicyTypes, BudgetInv, MaxAsks
<1>2. CASE Reply
  <2>1. /\ apiCalls' = apiCalls + 1 /\ softCalls' = 0
        /\ UNCHANGED <<summarizedAt, attempts, failures, calls>>
    BY <1>2 DEF Reply
  <2> QED BY <2>1 DEF PolicyTypes, BudgetInv, MaxAsks
<1>3. CASE Collect
  <2>1. apiCalls' = apiCalls
    BY <1>3 DEF Collect
  <2>2. CASE ApplyBackground
    <3>1. UNCHANGED <<attempts, calls, softCalls>> /\ summarizedAt' \in {apiCalls, summarizedAt}
      BY <2>2 DEF ApplyBackground
    <3>2. failures' \in {0, failures, failures + 1}
      BY <2>2 DEF ApplyBackground, CollectFailures
    <3> QED BY <2>1, <3>1, <3>2 DEF PolicyTypes, BudgetInv
  <2>3. CASE UNCHANGED policy
    BY <2>1, <2>3 DEF policy, PolicyTypes, BudgetInv
  <2> QED BY <1>3, <2>2, <2>3 DEF Collect
<1>4. CASE Decide
  <2>1. apiCalls' = apiCalls
    BY <1>4 DEF Decide
  <2>2. CASE LeftAlone \/ SoftCompaction
    BY <2>1, <2>2, CompactionCounted
  <2>3. CASE Summarizes(TRUE)
    BY <2>1, <2>3, SummarizesCounted
  <2>4. CASE InBudget /\ summarizedAt # apiCalls /\ Summarizes(FALSE)
    BY <2>1, <2>4, SummarizesCounted
  <2>5. CASE Schedule
    BY <2>1, <2>5, ScheduleCounted
  <2> QED BY <1>4, <2>2, <2>3, <2>4, <2>5 DEF Decide
<1>5. CASE Guard \/ Overflow \/ InnerRound
  BY <1>5, CompactionCounted DEF Guard, Overflow, InnerRound
<1>6. CASE UNCHANGED <<policy, apiCalls>>
  BY <1>6 DEF policy, PolicyTypes, BudgetInv
<1>7. CASE Trim \/ Fail \/ BackgroundEnds \/ BackgroundExpires
  BY <1>6, <1>7 DEF Trim, Fail, BackgroundEnds, BackgroundExpires
<1>8. CASE RecordTurns \/ Archive \/ DriveProvider
  BY <1>6, <1>8 DEF RecordTurns, Archive, DriveProvider, InMemory
<1>9. CASE UNCHANGED historyVars
  BY <1>6, <1>9 DEF historyVars
<1> QED BY <1>1, <1>2, <1>3, <1>4, <1>5, <1>7, <1>8, <1>9 DEF HistoryNext

-----------------------------------------------------------------------------
(* The turn, the background summary, and the theorems.                     *)

(* The turn and the background summary, apart from the rest.               *)
TurnTypes ==
    /\ strategy \in Strategies
    /\ place \in Stages /\ turn \in 0 .. MaxTurns
    /\ forced \in {None, "requested", "manual"}
    /\ bg = None \/ bg \in Summaries
    /\ bgUntil \in BOOLEAN

LEMMA TypesSplit == HistoryTypeOK <=> RecordTypes /\ PolicyTypes /\ TurnTypes
BY DEF HistoryTypeOK, RecordTypes, PolicyTypes, TurnTypes

LEMMA BackgroundNext ==
    /\ BackgroundInv' <=>
          (bg' # None => (bg'.state = "model" => Stands(bg'.result) = Stands(bg'.of)))
    /\ BackgroundInv /\ bg' = bg => BackgroundInv'
<1>1. BackgroundInv' <=>
          (bg' # None => (bg'.state = "model" => Stands(bg'.result) = Stands(bg'.of)))
  BY DEF BackgroundInv, Stands, ToSet
<1> QED BY <1>1 DEF BackgroundInv

LEMMA ScheduleBackground ==
    ASSUME HistoryTypeOK, Schedule
    PROVE  bg' \in Summaries /\ bg'.state = "running" /\ bgUntil' \in BOOLEAN
BY DEF Schedule, HistoryTypeOK, Summaries

LEMMA EndsBackground ==
    ASSUME HistoryTypeOK, BackgroundInv, BackgroundEnds
    PROVE  bg' \in Summaries /\ BackgroundInv'
<1>1. bg \in Summaries /\ bg # None
  BY DEF BackgroundEnds, HistoryTypeOK
<1>2. CASE \E cut \in Cuts(bg.of) :
              bg' = [bg EXCEPT !.state = "model", !.result = Checkpoint(bg.of, cut)]
  <2>1. PICK cut \in Cuts(bg.of) :
              bg' = [bg EXCEPT !.state = "model", !.result = Checkpoint(bg.of, cut)]
    BY <1>2
  <2> DEFINE c == Checkpoint(bg.of, cut)
  <2>2. bg.of \in Seq(Message) /\ bg.turn \in 0 .. MaxTurns
    BY <1>1 DEF Summaries
  <2>3. c \in Seq(Message) /\ Stands(c) = Stands(bg.of)
    BY <2>2, CheckpointOf
  <2>4. bg' = [bg EXCEPT !.state = "model", !.result = c]
    BY <2>1
  <2> HIDE DEF c
  <2>5. bg' \in Summaries /\ bg'.state = "model" /\ bg'.result = c /\ bg'.of = bg.of
    BY <1>1, <2>3, <2>4 DEF Summaries
  <2> QED BY <2>3, <2>5, BackgroundNext
<1>3. CASE \E how \in {"failed", "unavailable", "cancelled"} : bg' = [bg EXCEPT !.state = how]
  <2>1. PICK how \in {"failed", "unavailable", "cancelled"} : bg' = [bg EXCEPT !.state = how]
    BY <1>3
  <2>2. bg' \in Summaries /\ bg'.state = how
    BY <1>1, <2>1 DEF Summaries
  <2> QED BY <2>2 DEF BackgroundInv
<1> QED BY <1>2, <1>3 DEF BackgroundEnds

LEMMA TurnStep ==
    ASSUME HistoryTypeOK, BackgroundInv, [HistoryNext]_historyVars
    PROVE  TurnTypes' /\ BackgroundInv'
<1> USE DEF TurnTypes
<1>0. TurnTypes
  BY TypesSplit
<1>1. CASE BeginTurn
  <2>1. /\ UNCHANGED <<strategy, bg, bgUntil>> /\ place' = "context"
        /\ forced' \in {forced, "manual"} /\ turn' = turn + 1 /\ turn < MaxTurns
    BY <1>1 DEF BeginTurn, Goes
  <2>2. turn' \in 0 .. MaxTurns
    BY <1>0, <2>1, CompactionAssumption
  <2> QED BY <1>0, <2>1, <2>2, BackgroundNext DEF Stages
<1>2. CASE Reply
  BY <1>0, <1>2, BackgroundNext DEF Reply, Goes, Stages
<1>3. CASE Collect
  <2>1. CASE ApplyBackground
    BY <1>0, <1>3, <2>1 DEF Collect, ApplyBackground, Goes, Stages, BackgroundInv
  <2>2. CASE UNCHANGED <<bg, bgUntil>>
    BY <1>0, <1>3, <2>2, BackgroundNext DEF Collect, Goes, Stages
  <2> QED BY <1>3, <2>1, <2>2 DEF Collect
<1>4. CASE Decide
  <2>1. /\ UNCHANGED <<strategy, turn>> /\ place' = "guard"
        /\ forced' = None \/ forced' = forced
    BY <1>4 DEF Decide, Goes
  <2>2. CASE bg' = None /\ bgUntil' = FALSE
    BY <1>0, <2>1, <2>2 DEF Stages, BackgroundInv
  <2>3. CASE Schedule
    BY <1>0, <2>1, <2>3, ScheduleBackground DEF Stages, BackgroundInv
  <2>4. CASE UNCHANGED <<bg, bgUntil>>
    BY <1>0, <2>1, <2>4, BackgroundNext DEF Stages
  <2> QED BY <1>4, <2>2, <2>3, <2>4 DEF Decide
<1>5. CASE Guard \/ Overflow \/ InnerRound \/ Trim \/ Fail
  BY <1>0, <1>5, BackgroundNext DEF Guard, Overflow, InnerRound, Trim, Fail, Goes, Stages
<1>6. CASE BackgroundEnds
  BY <1>0, <1>6, EndsBackground DEF BackgroundEnds
<1>7. CASE BackgroundExpires
  BY <1>0, <1>7, BackgroundNext DEF BackgroundExpires
<1>8. CASE RecordTurns \/ Archive \/ DriveProvider
  BY <1>0, <1>8, BackgroundNext DEF RecordTurns, Archive, DriveProvider, InMemory, Goes, Stages
<1>9. CASE UNCHANGED historyVars
  BY <1>0, <1>9, BackgroundNext DEF historyVars
<1> QED BY <1>1, <1>2, <1>3, <1>4, <1>5, <1>6, <1>7, <1>8, <1>9 DEF HistoryNext

(* The inductive invariant of the history and its recorders.               *)
HistoryInv ==
    HistoryTypeOK /\ ConversationInv /\ BackgroundInv /\ BudgetInv

LEMMA HistoryStarts ==
    ASSUME HistoryInit
    PROVE  HistoryInv
<1> DEFINE by(i) == IF i % 2 = 1 THEN "user" ELSE "assistant"
           h == [i \in 1 .. Preloaded |-> Said(i, by(i))]
<1>1. /\ Preloaded \in Nat /\ MaxMessages \in Nat /\ Preloaded \in 0 .. MaxMessages
      /\ MaxTurns \in Nat /\ MaxFaults \in Nat /\ MaxAttempts \in Nat
  BY CompactionAssumption
<1>2. \A i \in 1 .. Preloaded : i \in 1 .. MaxMessages
  BY <1>1
<1>3. \A i \in 1 .. Preloaded : Said(i, by(i)) \in Message /\ Said(i, by(i)).of = {i}
  <2> TAKE i \in 1 .. Preloaded
  <2>1. by(i) \in {"user", "assistant"}
    OBVIOUS
  <2> HIDE DEF by
  <2> QED BY <1>2, <2>1, NewMessages DEF Said
<1>4. messages = h /\ h \in Seq(Message) /\ DOMAIN h = 1 .. Preloaded /\ Len(h) = Preloaded
  <2>1. messages = h
    BY DEF HistoryInit
  <2> HIDE DEF by
  <2>2. h \in [1 .. Preloaded -> Message]
    BY <1>3
  <2> HIDE DEF h
  <2> QED BY <1>1, <2>1, <2>2
<1>5. Stands(messages) = 1 .. Preloaded
  <2>1. \A i \in 1 .. Preloaded : messages[i].of = {i}
    BY <1>3, <1>4
  <2>2. Stands(messages) = UNION {messages[i].of : i \in 1 .. Preloaded}
    BY <1>4 DEF Stands, ToSet
  <2> QED BY <2>1, <2>2
<1>6. RecordTypes
  BY <1>1, <1>4 DEF HistoryInit, RecordTypes
<1>7. PolicyTypes
  BY DEF HistoryInit, PolicyTypes
<1>8. TurnTypes
  <2>1. /\ strategy \in Strategies /\ place = "idle" /\ turn = 0
        /\ forced = None /\ bg = None /\ bgUntil = FALSE
    BY DEF HistoryInit
  <2>2. 0 \in 0 .. MaxTurns
    BY <1>1
  <2> QED BY <2>1, <2>2 DEF TurnTypes, Stages
<1>9. \A r \in Recorders : /\ Batch(r) = <<>> /\ log[r] = <<>>
                           /\ mark[r] <= Len(messages)
  <2> TAKE r \in Recorders
  <2>1. pending[r] = <<>> /\ mark[r] = Len(messages) /\ log[r] = <<>>
    BY <1>4 DEF HistoryInit
  <2>2. From(messages, Len(messages) + 1) = <<>>
    <3>1. messages \in Seq(Message)
      BY <1>4
    <3> QED BY <3>1 DEF From
  <2> QED BY <1>1, <1>4, <2>1, <2>2 DEF Batch
<1>10. RecordsInv
  BY <1>9, EmptyBatch DEF RecordsInv, RecordsOf
<1>11. New = {}
  BY <1>1 DEF HistoryInit, New
<1>12. ConversationInv
  BY <1>1, <1>5, <1>9, <1>10, <1>11
     DEF HistoryInit, ConversationInv, NotForgotten, EverythingInView
<1>13. BackgroundInv /\ BudgetInv
  BY <1>1 DEF HistoryInit, BackgroundInv, BudgetInv, MaxAsks
<1> QED BY <1>6, <1>7, <1>8, <1>12, <1>13, TypesSplit DEF HistoryInv

LEMMA HistoryStep ==
    ASSUME HistoryInv, [HistoryNext]_historyVars
    PROVE  HistoryInv'
<1>1. HistoryTypeOK /\ ConversationInv /\ BackgroundInv /\ BudgetInv
  BY DEF HistoryInv
<1>2. RecordTypes /\ PolicyTypes
  BY <1>1, TypesSplit
<1>3. RecordTypes' /\ ConversationInv'
  <2>1. /\ UNCHANGED strategy
        /\ \/ (Kept \/ Rewrites) /\ UNCHANGED written
           \/ Hears \/ Trims \/ Discloses
           \/ \E r \in Recorders : Records(r)
    BY <1>1, StepEffects
  <2> QED BY <1>1, <1>2, <2>1, KeptStep, RewritesStep, HearsStep, TrimsStep, DisclosesStep,
             RecordsStep, ShiftedRecordsStep
<1>4. PolicyTypes' /\ BudgetInv'
  BY <1>1, <1>2, BudgetStep
<1>5. TurnTypes' /\ BackgroundInv'
  BY <1>1, TurnStep
<1>6. HistoryTypeOK'
  BY <1>3, <1>4, <1>5 DEF HistoryTypeOK, RecordTypes, PolicyTypes, TurnTypes
<1> QED BY <1>3, <1>4, <1>5, <1>6 DEF HistoryInv

(* The invariant the theorems below rest on: what a recorder has stored    *)
(* and what it has ahead of it hold each message once and in order, and    *)
(* a recorder keeps its place whatever rewrites the history                *)
(* (reconcile_recorded_index).                                             *)
THEOREM HistoryInvariant == HistorySpec => []HistoryInv
BY HistoryStarts, HistoryStep, PTL DEF HistorySpec

(* Every step of a turn, of its compactions and of its recorders keeps     *)
(* the variables in their types (core/compaction.py, stages 2, 4, 6, 18).  *)
THEOREM HistoryTyped == HistorySpec => []HistoryTypeOK
<1>1. HistoryInv => HistoryTypeOK
  BY DEF HistoryInv
<1> QED BY <1>1, HistoryInvariant, PTL

(* With a strategy that never cuts the list, no message of a conversation  *)
(* is forgotten by a recorder: it is stored, was handed over and failed,   *)
(* did not fit the cap, or is still ahead (reconcile_recorded_index,       *)
(* ProviderDrivenStrategy.update, ConversationArchivingStrategy._archive). *)
THEOREM NothingForgottenAlways == HistorySpec => []NothingForgotten
<1>1. HistoryInv => NothingForgotten
  BY DEF HistoryInv, ConversationInv, NothingForgotten, NoneLost, NotForgotten
<1> QED BY <1>1, HistoryInvariant, PTL

(* A recorder stores what was said in this conversation and no             *)
(* checkpoint, and, unless a batch was cut short, nothing twice and        *)
(* nothing out of order, with every strategy but progressive disclosure    *)
(* (reconcile_recorded_index, stage 18, ConversationArchivingStrategy).    *)
THEOREM RecordIsFaithful == HistorySpec => []FaithfulRecord
<1>1. HistoryInv => FaithfulRecord
  <2> SUFFICES ASSUME HistoryInv, strategy # "progressive_disclosure", NEW r \in Recorders
               PROVE  /\ \A m \in ToSet(log[r]) : m.id \in New
                      /\ ~again[r] => \A i, j \in 1 .. Len(log[r]) :
                                         i < j => log[r][i].id < log[r][j].id
    BY DEF FaithfulRecord, OnlyWhatWasSaid
  <2>1. Within(log[r], written) /\ (~again[r] => Ordered(log[r]))
    BY DEF HistoryInv, ConversationInv, RecordsInv, RecordsOf
  <2>2. log[r] \in Seq(Message)
    BY DEF HistoryInv, HistoryTypeOK
  <2>3. DOMAIN log[r] = 1 .. Len(log[r])
    BY <2>2
  <2> QED BY <2>1, <2>3 DEF Within, Ordered, New, ToSet
<1> QED BY <1>1, HistoryInvariant, PTL

(* Each message of the conversation is in the history or in a checkpoint   *)
(* of it, whatever rewrites it and whenever a background summary comes     *)
(* back; with a strategy that trims, nothing in view was not said          *)
(* (LLMSummaryCompactor.compact, ContextStage._apply_bg_compaction).       *)
THEOREM EverythingStaysInView == HistorySpec => []EverythingInView
<1>1. HistoryInv => EverythingInView
  BY DEF HistoryInv, ConversationInv
<1> QED BY <1>1, HistoryInvariant, PTL

(* A turn pays for at most MAX_LLM_COMPACTIONS_PER_TURN summaries, and for *)
(* one per model request under pressure that can wait, over all the        *)
(* stages that make them, each of at most two model calls (_llm_gate,      *)
(* _count_attempt, _summarize).                                            *)
THEOREM SummariesStayBounded == HistorySpec => []SummariesBounded
<1>1. HistoryInv => SummariesBounded
  BY DEF HistoryInv, BudgetInv, SummariesBounded
<1> QED BY <1>1, HistoryInvariant, PTL

=============================================================================
