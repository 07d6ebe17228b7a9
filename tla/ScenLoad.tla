------------------------------ MODULE ScenLoad ------------------------------
(***************************************************************************)
(* Scenario.Load (src/scen/interp.go:423-444) composed from the parts it   *)
(* calls, the power queries TransformVars then makes of the loaded Builds, *)
(* and the Run of the loaded scenario. json.Unmarshal either fails with a  *)
(* SyntaxError, and Load runs findLine (module FindLine) on the file to    *)
(* report where; or it decodes the scenario, and Load fills in default     *)
(* Builds when there are none and runs Validate's loop over the Builds     *)
(* (module ScenPower), after which powercap and naliveproto are asked      *)
(* about the Builds, and Run (module ScenRun) writes, runs and reads       *)
(* back the cyclus simulation once Validate has accepted the scenario.     *)
(*                                                                         *)
(* The two branches of Unmarshal share no state: in each behaviour the     *)
(* variables of the other branch keep an idle value that disables its      *)
(* actions.                                                                *)
(***************************************************************************)
EXTENDS Integers, Sequences

CONSTANTS
    MaxLen,                                          \* FindLine's
    Protos, Unknown, Caps, Lifes, Times, Counts,     \* ScenPower's
    MaxBuilds, QueryTimes,
    MaxSims                                          \* ScenRun's

VARIABLES
    data, pos, n, line, col, flpc,   \* findLine's, flpc its pc
    facs, sb, k, p, pc, t, pow, nalive,  \* Validate's and the queries'
    loaded,  \* Load has filled in the default Builds
    run, handle, files, nsims   \* Run's

vars == <<data, pos, n, line, col, flpc, facs, sb, k, p, pc, t, pow, nalive, loaded,
          run, handle, files, nsims>>
FLvars == <<data, pos, n, line, col, flpc>>
SPvars == <<facs, sb, k, p, pc, t, pow, nalive>>
RNvars == <<run, handle, files, nsims>>

FL == INSTANCE FindLine WITH pc <- flpc
SP == INSTANCE ScenPower
RN == INSTANCE ScenRun

\* A Build of make([]Build, s.nvars()): Proto "", which names no facility
\* (a facility with Proto "" is ScenTransform's concern), all else zero.
ZeroBuild == [proto |-> Unknown, time |-> 0, n |-> 0, life |-> 0, fac |-> SP!ZeroFac]

\* json.Unmarshal returned a *json.SyntaxError: findLine(data, serr.Offset).
SyntaxErrorInit ==
    /\ FL!Init
    /\ facs = [q \in Protos |-> SP!ZeroFac] /\ sb = <<>> /\ k = 0 /\ p = ZeroBuild
    /\ pc = "syntax" /\ t = -1 /\ pow = 0 /\ nalive = [q \in Protos |-> 0]
    /\ loaded = FALSE

\* json.Unmarshal decoded the scenario; Builds as given in the file.
DecodedInit ==
    /\ SP!Init
    /\ data = <<>> /\ pos = 0 /\ n = 0 /\ line = 0 /\ col = 0 /\ flpc = "decoded"
    /\ loaded = FALSE

Init == (SyntaxErrorInit \/ DecodedInit) /\ RN!Init

\* if len(s.Builds) == 0 { s.Builds = make([]Build, s.nvars()) }, with
\* nvars() any length the bounds allow (0 included); then Validate.
LoadDefaults ==
    /\ pc = "validate" /\ ~loaded
    /\ loaded' = TRUE
    /\ IF Len(sb) = 0
       THEN \E m \in 0..MaxBuilds : sb' = [j \in 1..m |-> ZeroBuild]
       ELSE UNCHANGED sb
    /\ UNCHANGED <<data, pos, n, line, col, flpc, facs, k, p, pc, t, pow, nalive>>
    /\ UNCHANGED RNvars

\* The callers of Load (outside the sources) go on to Run the scenario
\* once Load has returned it without an error; Run reads nothing the power
\* queries change, so the two interleave freely.
Next ==
    \/ FL!Next /\ UNCHANGED <<SPvars, loaded, RNvars>>
    \/ LoadDefaults
    \/ loaded /\ SP!Next /\ UNCHANGED <<FLvars, loaded, RNvars>>
    \/ pc = "ok" /\ RN!Next /\ UNCHANGED <<FLvars, SPvars, loaded>>

Spec == Init /\ [][Next]_vars

-----------------------------------------------------------------------------
\* The error Load reports for a syntax error names the line the error is
\* on, and findLine never runs off the end of the file (FindLine).
ReportsErrorLine == FL!ReportsErrorLine

\* A Run that returns a database name and a simulation id without an
\* error has written the cyclus input, the cyclus run has produced that
\* database, and the post-processor found a simulation in it.
RunReturnsOutput == run = "done" => files = {"in", "out"} /\ nsims > 0

\* Run reports a cyclus database in which post.Process finds no
\* simulation as an error, as it reports every other failure, rather than
\* panicking at simids[0]. (template.Must's panic on a template that does
\* not parse is the "mustpanic" end, not this one.)
RunNoIndexPanic == run # "indexpanic"

\* The capacity the loaded Builds supply is that of their prototypes'
\* facilities (ScenPower; the code sets fac on a copy).
PowerOfInitialBuilds == SP!PowerOfInitialBuilds

\* The column in Load's error message is that of the byte the syntax error
\* was found at (FindLine; the code is one off after the first line).
ReportsErrorColumn == FL!ReportsErrorColumn
=============================================================================
