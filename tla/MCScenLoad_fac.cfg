\* Every file and scenario of the bounds; checks PowerOfInitialBuilds alone.
CONSTANTS
    MaxLen = 5
    Protos = {P1, P2}
    Unknown = Unknown
    Caps <- MCCaps
    Lifes <- MCLifes
    Times <- MCTimes
    Counts <- MCCounts
    MaxBuilds = 2
    QueryTimes <- MCQueryTimes
    MaxSims = 2
SPECIFICATION Spec
INVARIANT PowerOfInitialBuilds
\* findLine returns, and Validate's error return is final.
CHECK_DEADLOCK FALSE
