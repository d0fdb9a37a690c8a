---------------------------- MODULE MCSteerInbox ----------------------------
(* SteerInbox on three messages.                                           *)
EXTENDS SteerInbox
CONSTANTS m1, m2, m3
MCMsgs == {m1, m2, m3}
=============================================================================
