----------------------------- MODULE MCScenLoad -----------------------------
(* ScenLoad over every file of up to five bytes with a syntax error, and   *)
(* every scenario with two prototypes and up to two Builds, queried at the *)
(* times around the Builds' Time and Time+Life.                            *)
EXTENDS ScenLoad

MCCaps == 1..2
MCLifes == {0, 2}
MCTimes == 0..1
MCCounts == 1..2
MCQueryTimes == 0..3
=============================================================================
