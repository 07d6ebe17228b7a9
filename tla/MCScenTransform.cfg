\* Every scenario of the bounds, checked against what TransformVars does.
CONSTANTS
    MaxFacs = 3
    Durations <- MCDurations
    Offsets <- MCOffsets
    BuildPeriods <- MCBuildPeriods
    PowerLens <- MCPowerLens
SPECIFICATION Spec
INVARIANT TypeOK PowerIndexGuarded VarNamesLayout PeriodOfInvertsTimes
\* TransformVars returns: every final state has no successor.
CHECK_DEADLOCK FALSE
