\* Every scenario of the bounds; checks VarfacsInRange alone.
CONSTANTS
    MaxFacs = 3
    Durations <- MCDurations
    Offsets <- MCOffsets
    BuildPeriods <- MCPositivePeriods
    PowerLens <- MCPowerLens
SPECIFICATION Spec
INVARIANT VarfacsInRange
\* TransformVars returns: every final state has no successor.
CHECK_DEADLOCK FALSE
