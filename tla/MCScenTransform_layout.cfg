\* Every scenario of the bounds; checks ReadsMatchVarNames alone.
CONSTANTS
    MaxFacs = 3
    Durations <- MCDurations
    Offsets <- MCOffsets
    BuildPeriods <- MCPositivePeriods
    PowerLens <- MCPowerLens
SPECIFICATION Spec
INVARIANT ReadsMatchVarNames
\* TransformVars returns: every final state has no successor.
CHECK_DEADLOCK FALSE
