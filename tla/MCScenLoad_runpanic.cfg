\* Every file and scenario of the bounds; checks RunNoIndexPanic alone.
CONSTANTS
    MaxLen = 5
    Protos = {P1, P2}
    Unknown = Unknown
    Caps <- MCCaps
    Lifes <- MCLifes
    Times <- MCTimes
    Counts <- MCCounts
    MaxBuilds = 2
    QueryTimes <- MCQueryTimes
    MaxSims = 2
SPECIFICATION Spec
INVARIANT RunNoIndexPanic
\* findLine returns, and Validate's error return is final.
CHECK_DEADLOCK FALSE
