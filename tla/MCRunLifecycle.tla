--------------------------- MODULE MCRunLifecycle ---------------------------
(* Model values for the runs and states of RunLifecycle.                   *)
EXTENDS RunLifecycle

CONSTANTS r1, r2, s1, s2

TwoRuns   == {r1, r2}
TwoStates == {s1, s2}
=============================================================================
