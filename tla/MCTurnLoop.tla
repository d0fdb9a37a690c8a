----------------------------- MODULE MCTurnLoop -----------------------------
(* Small sessions for TLC: which pipelines the turn loop is checked with.  *)
EXTENDS TurnLoop

(* The default pipeline: signals evaluated, tools, the standard controller *)
(* without a cap of its own.                                               *)
Default ==
    [controller |-> "standard", dims |-> <<>>, maxTurns |-> 0,
     maxIterations |-> 2, costBudget |-> 0, costStop |-> 0, toolCap |-> 0,
     stopAfter |-> 0, hardTokens |-> 0, evaluate |-> TRUE, toolStage |-> TRUE,
     hitl |-> FALSE, costGuard |-> FALSE, single |-> FALSE,
     reviewer |-> FALSE]

(* The host's pipeline: both stops and the reviewer.                       *)
Hosted == [Default EXCEPT !.stopAfter = 1, !.hardTokens = 1,
                          !.reviewer = TRUE, !.costBudget = 3]

MultiDim(dims) == [Default EXCEPT !.controller = "multi_dim_budget",
                                  !.dims = dims, !.toolCap = 1,
                                  !.maxTurns = 1,
                                  !.costBudget = 2, !.costStop = 1]

(* A controller of these never suspends a slice in which a stop may end    *)
(* the turn.                                                               *)
SoundConfigs ==
    {Hosted,
     [Hosted EXCEPT !.maxIterations = 3, !.stopAfter = 0, !.hardTokens = 2,
                    !.reviewer = FALSE],
     [Default EXCEPT !.costBudget = 1, !.hitl = TRUE],
     [Default EXCEPT !.costBudget = 1, !.costGuard = TRUE,
                     !.maxIterations = 1],
     [Default EXCEPT !.maxTurns = 1, !.toolStage = FALSE, !.evaluate = FALSE],
     [Default EXCEPT !.controller = "single_turn", !.hardTokens = 1],
     [Default EXCEPT !.single = TRUE, !.reviewer = TRUE],
     [Default EXCEPT !.controller = "budget_aware", !.costBudget = 2,
                     !.costStop = 1],
     MultiDim(<<"iteration", "cost">>),
     MultiDim(<<"tokens", "tool_calls">>)}

(* The host's stops behind a controller that suspends by itself.           *)
SuspendingConfigs ==
    {[MultiDim(<<"iteration">>) EXCEPT !.hardTokens = 1]}
=============================================================================
