SPECIFICATION FairSpec
CONSTANTS
    Requests = {r1, r2}
    Calls = {c1, c2}
    NoRequest = NoRequest
    Cases <- Mixtures
    MaxTurns = 5
    TurnLost = FALSE
INVARIANTS
    TypeOK
    ClaimedOnce
    AppliedFirst
    DeliveredWasTold
    OneOpenDecision
PROPERTIES
    ToldIsFinal
    DismissedStays
    DecidedIsHeard
\* Everything may have been asked, decided and told
CHECK_DEADLOCK FALSE
