\* Safety, the contract and liveness: three messages, with and without a
\* listener that raises.
CONSTANTS
    m1 = m1
    m2 = m2
    m3 = m3
    Msgs <- MCMsgs
    Listeners = {TRUE, FALSE}
SPECIFICATION FairSpec
INVARIANTS OneOutcomeEach OutcomeTellsTheTruth
PROPERTIES ContractSpec EveryMessageAnswered
\* The turn ends: nothing runs after the host closed the inbox.
CHECK_DEADLOCK FALSE
