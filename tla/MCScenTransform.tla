--------------------------- MODULE MCScenTransform ---------------------------
(* ScenTransform instantiated for TLC over every scenario with up to three *)
(* facilities and small period parameters, negative BuildPeriod included.  *)
EXTENDS ScenTransform

MCDurations == 0..4
MCOffsets == 0..1
MCBuildPeriods == -1..2
MCPowerLens == 0..2
\* BuildPeriod values for the violation runs, whose traces read best
\* without a negative period.
MCPositivePeriods == 1..2
=============================================================================
