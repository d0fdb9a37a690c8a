---------------------------- MODULE MCRunRollout ----------------------------
(* Two runs of RunRollout, of which one emits an event before its last.    *)
EXTENDS RunRollout

CONSTANTS r1, r2, host

TwoRuns   == {r1, r2}
OneRun    == {r1}
OneTalks  == [r \in TwoRuns |-> IF r = r1 THEN 1 ELSE 0]
=============================================================================
