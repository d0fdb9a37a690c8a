------------------------------ MODULE MCCronJobs ------------------------------
(* Two jobs, one of them every other time.                                   *)
EXTENDS CronJobs

CONSTANTS j1, j2

MCPeriod == [j \in {j1, j2} |-> IF j = j1 THEN 1 ELSE 2]

===============================================================================
