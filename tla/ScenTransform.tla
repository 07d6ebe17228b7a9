---------------------------- MODULE ScenTransform ----------------------------
(***************************************************************************)
(* Scenario loading and the control flow of Scenario.TransformVars         *)
(* (src/scen/interp.go, the scen.go part): Load fills in default Builds    *)
(* and validates, then TransformVars validates again, checks the number    *)
(* of variables, orders the facilities and walks the build periods,        *)
(* reading one power variable and one variable per facility per period.   *)
(*                                                                         *)
(* The float arithmetic (capacities, fractions, rounding) is left out:     *)
(* what is kept is every early return, every panic (division by zero, a    *)
(* negative make length, a slice or index out of range) and every index    *)
(* the loops compute. A facility is a reactor (Cap > 0) or not (Cap = 0).  *)
(* Indices are Go's, from 0; facs and varfacs are TLA+ sequences, so Go's  *)
(* varfacs[j] is varfacs[j + 1] here.                                      *)
(***************************************************************************)
EXTENDS Integers, Sequences, SequencesExt, FiniteSets, Functions

CONSTANTS
    MaxFacs,       \* longest Facs list
    Durations,     \* values of SimDur
    Offsets,       \* values of BuildOffset and of TrailingDur
    BuildPeriods,  \* values of BuildPeriod (0 is what an absent field decodes to)
    PowerLens      \* lengths of MinPower and of MaxPower

\* A scenario file, abstracted: facility kinds in order, the period
\* parameters, the two power-constraint lengths, and its Builds: absent,
\* all naming a prototype in Facs, or some naming an unknown one.
\* emptyProto: some facility's Proto is "". varsOK: TransformVars gets
\* nvars() variables.
Scenario ==
    [facs : UNION {[1..n -> {"reactor", "other"}] : n \in 0..MaxFacs},
     simDur : Durations, buildOffset : Offsets, trailingDur : Offsets,
     buildPeriod : BuildPeriods, nMin : PowerLens, nMax : PowerLens,
     builds : {"none", "defined", "undefined"}, emptyProto : BOOLEAN,
     varsOK : BOOLEAN]

Panics == {"div0", "makelen", "slice", "varfacs", "vars", "minpower", "maxpower"}
Errors == {"minmax", "nperiods", "protos", "count"}

\* Go's integer division truncates toward zero (b # 0).
AbsInt(n) == IF n < 0 THEN -n ELSE n
GoDiv(a, b) ==
    LET q == AbsInt(a) \div AbsInt(b) IN IF (a >= 0) = (b > 0) \/ a = 0 THEN q ELSE -q

NPeriods(s) ==
    GoDiv(s.simDur - s.buildOffset - s.trailingDur - 2, s.buildPeriod) + 1
NVarsPerPeriod(s) == (Len(s.facs) - 1) + 1
NVars(s) == NVarsPerPeriod(s) * NPeriods(s)
TimeOf(s, period) == period * s.buildPeriod + 1 + s.buildOffset
\* periodOf without its - 1.
PeriodOfNoOne(s, time) == GoDiv(time - s.buildOffset, s.buildPeriod)
PeriodOf(s, time) == GoDiv(time - s.buildOffset - 1, s.buildPeriod)
\* periodTimes: make([]int, s.nperiods()), then timeOf of each index.
PeriodTimes(s) == [n \in 0..NPeriods(s) - 1 |-> TimeOf(s, n)]

Reactors(s) == SelectSeq(s.facs, LAMBDA k : k = "reactor")
NotReactors(s) == SelectSeq(s.facs, LAMBDA k : k = "other")
\* periodFacOrder: s.reactors()[1:] then s.notreactors() (needs a reactor).
VarFacs(s) == Tail(Reactors(s)) \o NotReactors(s)

\* Validate without the check that MinPower has one entry per period.
ValidateNoPeriodCheck(s, b) ==
    IF s.nMin # s.nMax THEN "minmax"
    ELSE IF s.buildPeriod = 0 THEN "div0"
    ELSE IF b = "undefined" THEN "protos"
    ELSE "ok"

\* Validate's result for scenario s whose Builds are b: "ok", the error it
\* returns, or "div0" when nperiods divides by a zero BuildPeriod.
Validate(s, b) ==
    IF s.nMin # s.nMax THEN "minmax"
    ELSE IF s.buildPeriod = 0 THEN "div0"
    ELSE IF NPeriods(s) # s.nMin THEN "nperiods"
    ELSE IF b = "undefined" THEN "protos"
    ELSE "ok"

\* The Builds after Load: an empty list becomes nvars() zero Builds, whose
\* Proto "" names a facility only if some facility has Proto "".
LoadedBuilds(s) ==
    IF s.builds # "none" \/ NVars(s) = 0 THEN s.builds
    ELSE IF s.emptyProto THEN "defined" ELSE "undefined"

\* VarNames: names[f*nperiods+n] is facility f at the n-th period time, as
\* a function from <<f, n>> to the index it writes.
VarNamesStride(s) ==
    [fn \in (0..Len(s.facs) - 1) \X (0..NPeriods(s) - 1) |->
        fn[1] * NVarsPerPeriod(s) + fn[2]]
VarNames(s) ==
    [fn \in (0..Len(s.facs) - 1) \X (0..NPeriods(s) - 1) |->
        fn[1] * NPeriods(s) + fn[2]]


VARIABLES
    scen,    \* the scenario, as decoded from the file
    builds,  \* s.Builds after Load
    pc,      \* "load", "transform", "period", "reactors", "others", "done", "error", "panic"
    why,     \* the error returned or the cause of the panic
    i,       \* the period index of the range over periodTimes()
    j,       \* the variable index within the period
    reads    \* <<period, slot, index>> of every vars[...] read so far

vars == <<scen, builds, pc, why, i, j, reads>>

Stop(r) == /\ pc' = IF r \in Panics THEN "panic" ELSE "error"
           /\ why' = r

Init ==
    /\ scen \in Scenario
    \* with no facilities no Build names one, and no Proto is ""
    /\ scen.facs = <<>> => scen.builds # "defined" /\ ~scen.emptyProto
    /\ builds = scen.builds
    /\ pc = "load" /\ why = "none"
    /\ i = 0 /\ j = 0 /\ reads = {}

\* Scenario.Load after json.Unmarshal: default Builds, then Validate.
Load ==
    /\ pc = "load"
    /\ \/ /\ scen.builds = "none" /\ scen.buildPeriod = 0
          /\ Stop("div0") /\ UNCHANGED builds
       \/ /\ scen.builds = "none" /\ scen.buildPeriod # 0 /\ NVars(scen) < 0
          /\ Stop("makelen") /\ UNCHANGED builds
       \/ /\ scen.builds # "none" \/ (scen.buildPeriod # 0 /\ NVars(scen) >= 0)
          /\ builds' = LoadedBuilds(scen)
          /\ LET r == Validate(scen, builds') IN
             IF r = "ok" THEN pc' = "transform" /\ UNCHANGED why ELSE Stop(r)
    /\ UNCHANGED <<scen, i, j, reads>>

\* TransformVars up to the period loop: Validate, the count of vars, and
\* periodFacOrder, whose s.reactors()[1:] panics without a reactor.
TransformStart ==
    /\ pc = "transform"
    /\ LET r == Validate(scen, builds) IN
       IF r # "ok" THEN Stop(r) /\ UNCHANGED i
       ELSE IF ~scen.varsOK THEN Stop("count") /\ UNCHANGED i
       ELSE IF Reactors(scen) = <<>> THEN Stop("slice") /\ UNCHANGED i
       ELSE pc' = "period" /\ i' = 0 /\ UNCHANGED why
    /\ UNCHANGED <<scen, builds, j, reads>>

\* The range over periodTimes() moves on to the next period.
EndPeriod == pc' = "period" /\ i' = i + 1 /\ UNCHANGED <<why, j, reads>>

\* The range over periodTimes() has another element.
InPeriodLoop == i < NPeriods(scen)

\* One iteration of the range over periodTimes(): MinPower[i] and
\* MaxPower[i] (out of range if Validate let a short list through), the
\* power variable vars[i*nvarsPerPeriod()], then j := 1.
Period ==
    /\ pc = "period"
    /\ \/ /\ ~InPeriodLoop
          /\ pc' = "done" /\ UNCHANGED <<why, j, reads>>
       \/ /\ InPeriodLoop
          /\ IF i >= scen.nMin THEN Stop("minpower") /\ UNCHANGED <<j, reads>>
             ELSE IF i >= scen.nMax THEN Stop("maxpower") /\ UNCHANGED <<j, reads>>
             ELSE IF i * NVarsPerPeriod(scen) >= NVars(scen)
             THEN Stop("vars") /\ UNCHANGED <<j, reads>>
             ELSE /\ reads' = reads \cup {<<i, 0, i * NVarsPerPeriod(scen)>>}
                  /\ pc' = "reactors" /\ j' = 1 /\ UNCHANGED why
    /\ UNCHANGED <<scen, builds, i>>

\* The condition of both facility loops: j < s.nvarsPerPeriod().
InFacLoopLe == j <= NVarsPerPeriod(scen)
InFacLoop == j < NVarsPerPeriod(scen)

\* The body of either facility loop up to its use of the facility:
\* vars[s.BuildPeriod*i+j], then varfacs[j]; Continue is the rest.
FacStep(Continue) ==
    LET x == scen.buildPeriod * i + j IN
    IF x < 0 \/ x >= NVars(scen) THEN Stop("vars") /\ UNCHANGED <<j, reads>>
    ELSE /\ reads' = reads \cup {<<i, j, x>>}
         /\ IF j >= Len(VarFacs(scen)) THEN Stop("varfacs") /\ UNCHANGED j
            ELSE Continue

\* The reactor loop: j++ while varfacs[j] is a reactor, break at the first
\* that is not. The implicit last reactor that follows is arithmetic only.
Reactor ==
    /\ pc = "reactors"
    /\ \/ /\ ~InFacLoop
          /\ pc' = "others" /\ UNCHANGED <<why, j, reads>>
       \/ /\ InFacLoop
          /\ FacStep(IF VarFacs(scen)[j + 1] = "reactor"
                     THEN j' = j + 1 /\ UNCHANGED <<pc, why>>
                     ELSE pc' = "others" /\ UNCHANGED <<why, j>>)
    /\ UNCHANGED <<scen, builds, i>>

\* The loop over the remaining facilities, from the j the reactor loop
\* stopped at; after it, the next period.
Other ==
    /\ pc = "others"
    /\ \/ ~InFacLoop /\ EndPeriod
       \/ /\ InFacLoop
          /\ FacStep(j' = j + 1 /\ UNCHANGED <<pc, why>>)
          /\ UNCHANGED i
    /\ UNCHANGED <<scen, builds>>

Next == Load \/ TransformStart \/ Period \/ Reactor \/ Other

Spec == Init /\ [][Next]_vars

-----------------------------------------------------------------------------
Done == {"done", "error", "panic"}

\* Types; every vars[...] read is at a period of periodTimes(), a slot
\* 0..nvarsPerPeriod()-1 and an index 0..nvars()-1.
TypeOK ==
    /\ scen \in Scenario
    /\ builds \in {"none", "defined", "undefined"}
    /\ pc \in {"load", "transform", "period", "reactors", "others"} \cup Done
    /\ why \in {"none"} \cup Panics \cup Errors
    /\ i \in Nat /\ j \in Nat
    /\ reads # {} =>
          /\ scen.buildPeriod # 0
          /\ reads \subseteq (0..NPeriods(scen) - 1) \X (0..NVarsPerPeriod(scen) - 1)
                              \X (0..NVars(scen) - 1)

\* TransformVars never indexes MinPower or MaxPower past its end: the
\* length checks Validate makes (in Load and again in TransformVars)
\* cover every period of periodTimes().
PowerIndexGuarded == why \notin {"minpower", "maxpower"}

\* For every scenario Load accepts, VarNames writes each of the nvars()
\* names exactly once: <<facility, period>> maps one-to-one onto
\* 0..nvars()-1, so no name is left empty and no index panics.
VarNamesLayout ==
    scen.buildPeriod # 0 /\ Validate(scen, LoadedBuilds(scen)) = "ok" =>
        /\ IsInjective(VarNames(scen))
        /\ Range(VarNames(scen)) = 0..NVars(scen) - 1

\* For every scenario Load accepts, periodOf maps each of periodTimes()
\* back to its period, and (for a positive BuildPeriod) every time up to
\* the next build time to the same period.
PeriodOfInvertsTimes ==
    scen.buildPeriod # 0 /\ Validate(scen, LoadedBuilds(scen)) = "ok" =>
        \A n \in DOMAIN PeriodTimes(scen) :
            \A tm \in PeriodTimes(scen)[n]..PeriodTimes(scen)[n] + scen.buildPeriod - 1 :
                PeriodOf(scen, tm) = n

-----------------------------------------------------------------------------
\* Properties the code does not have (violation runs).

\* TransformVars never indexes varfacs past its end (interp.go:308, 349).
VarfacsInRange == why # "varfacs"

\* TransformVars reads the variable of slot k at period p where VarNames
\* and the TransformVars comment put it: facility k's block, fk_t1..fk_tn.
ReadsMatchVarNames ==
    \A r \in reads : r[3] = VarNames(scen)[<<r[2], r[1]>>]

\* Every build period TransformVars deploys at lies after the BuildOffset
\* and before the TrailingDur wind-down, as the Scenario fields document.
PeriodsInWindow ==
    pc \in {"reactors", "others"} =>
        scen.buildOffset < TimeOf(scen, i) /\ TimeOf(scen, i) < scen.simDur - scen.trailingDur

\* A scenario whose file gives no Builds (they are optional initial
\* deployments) is not rejected for naming an undefined prototype.
LoadAcceptsMissingBuilds ==
    ~(pc = "error" /\ why = "protos" /\ scen.builds = "none")
=============================================================================
