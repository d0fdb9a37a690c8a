--------------------------- MODULE SteerContract ---------------------------
(***************************************************************************)
(* What core/steer.py promises about a message the user sends to a         *)
(* running turn, whatever the threads do: the turn either refuses it on    *)
(* the spot, or accepts it and gives it at most one outcome, for good.     *)
(* Messages accepted earlier are never overtaken by a delivery, and none   *)
(* goes back to the host while the turn still takes messages.              *)
(***************************************************************************)
EXTENDS Naturals, Sequences

CONSTANT Msgs

VARIABLES accepted,   \* messages the turn accepted, oldest first
          outcome,    \* what became of each message: "none" until it is told
          accepting   \* the turn still takes messages

contractVars == <<accepted, outcome, accepting>>

Accepted == {accepted[i] : i \in DOMAIN accepted}

Init ==
    /\ accepted = <<>>
    /\ outcome = [m \in Msgs |-> "none"]
    /\ accepting = TRUE

(* The turn accepts a message it does not hold.                            *)
Accept(m) ==
    /\ accepting
    /\ m \notin Accepted
    /\ accepted' = Append(accepted, m)
    /\ UNCHANGED <<outcome, accepting>>

(* The oldest message without an outcome joins the conversation, after all *)
(* the older ones and before any other message has an outcome.             *)
Deliver(i) ==
    /\ \A k \in DOMAIN accepted :
          outcome[accepted[k]] = IF k < i THEN "delivered" ELSE "none"
    /\ outcome' = [outcome EXCEPT ![accepted[i]] = "delivered"]
    /\ UNCHANGED <<accepted, accepting>>

(* The turn stops taking messages.                                         *)
Shut ==
    /\ accepting
    /\ accepting' = FALSE
    /\ UNCHANGED <<accepted, outcome>>

(* A message goes back to the host, once no further one is taken and       *)
(* before any later message has an outcome.                                *)
Reject(i) ==
    /\ ~accepting
    /\ \A k \in DOMAIN accepted : k >= i => outcome[accepted[k]] = "none"
    /\ outcome' = [outcome EXCEPT ![accepted[i]] = "rejected"]
    /\ UNCHANGED <<accepted, accepting>>

Next ==
    \/ \E m \in Msgs : Accept(m)
    \/ \E i \in DOMAIN accepted : Deliver(i) \/ Reject(i)
    \/ Shut

Spec == Init /\ [][Next]_contractVars
=============================================================================
