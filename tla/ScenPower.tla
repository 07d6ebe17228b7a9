------------------------------ MODULE ScenPower ------------------------------
(***************************************************************************)
(* The installed-capacity bookkeeping of src/scen/interp.go: Scenario      *)
(* Validate's loop over the file's Builds (which looks up each Build's     *)
(* facility and assigns it to the loop variable), then the questions       *)
(* TransformVars asks of the builds in every period: powercap (total       *)
(* capacity alive at t) and naliveproto (builds of some prototypes alive   *)
(* at t), through Build.Alive, Build.Lifetime and Alive.                   *)
(***************************************************************************)
EXTENDS Integers, Sequences, SequencesExt, FiniteSets, Functions

CONSTANTS
    Protos,     \* the prototypes of Facs
    Unknown,    \* a prototype no facility has
    Caps,       \* Facility.Cap values
    Lifes,      \* Facility.Life and Build.Life values
    Times,      \* Build.Time values
    Counts,     \* Build.N values
    MaxBuilds,  \* longest Builds list
    QueryTimes  \* the t powercap and naliveproto are asked about

ASSUME Unknown \notin Protos

Facility == [cap : Caps, life : Lifes]
\* The unexported fac field of a Build decoded from JSON.
ZeroFac == [cap |-> 0, life |-> 0]
Build == [proto : Protos \cup {Unknown}, time : Times, n : Counts,
          life : Lifes, fac : {ZeroFac}]

VARIABLES
    facs,    \* Facs, by prototype
    sb,      \* s.Builds
    k,       \* Validate's loop index
    p,       \* Validate's loop variable (a copy of s.Builds[k])
    pc,      \* "validate", "ok" or "error"
    t,       \* the time of the last query, -1 before any
    pow,     \* powercap(s.Builds, t)
    nalive   \* naliveproto(s.Builds, t, q) for each prototype q

vars == <<facs, sb, k, p, pc, t, pow, nalive>>

Init ==
    /\ facs \in [Protos -> Facility]
    /\ sb \in BoundedSeq(Build, MaxBuilds)
    /\ k = 0 /\ p = [proto |-> Unknown, time |-> 0, n |-> 0, life |-> 0, fac |-> ZeroFac]
    /\ pc = "validate" /\ t = -1 /\ pow = 0 /\ nalive = [q \in Protos |-> 0]

\* Alive: built by t and, unless life <= 0, not past built+life.
Alive(built, now, life) == built <= now /\ (built + life >= now \/ life <= 0)

\* Build.Lifetime: the Build's own Life if positive, else its facility's.
Lifetime(b) == IF b.life > 0 THEN b.life ELSE b.fac.life

BuildAlive(b, now) == Alive(b.time, now, Lifetime(b))

\* powercap: b.fac.Cap * N summed over the builds alive at now.
Powercap(bs, now) ==
    SumFunction([j \in DOMAIN bs |->
        IF BuildAlive(bs[j], now) THEN bs[j].fac.cap * bs[j].n ELSE 0])

\* naliveproto: one count per Build record of the prototypes alive at now.
NAliveProto(bs, now, ps) ==
    Cardinality({j \in DOMAIN bs : bs[j].proto \in ps /\ BuildAlive(bs[j], now)})

\* One iteration of Validate's loop over s.Builds: an undefined prototype
\* is an error; otherwise p.fac = fac, on the range variable only.
ValidateBuild ==
    /\ pc = "validate" /\ k < Len(sb)
    /\ IF sb[k + 1].proto \notin Protos
       THEN pc' = "error" /\ UNCHANGED <<k, p>>
       ELSE /\ p' = [sb[k + 1] EXCEPT !.fac = facs[sb[k + 1].proto]]
            /\ k' = k + 1 /\ UNCHANGED pc
    /\ UNCHANGED <<facs, sb, t, pow, nalive>>

ValidateReturn ==
    /\ pc = "validate" /\ k >= Len(sb)
    /\ pc' = "ok"
    /\ UNCHANGED <<facs, sb, k, p, t, pow, nalive>>

\* TransformVars' s.powercap(builds, t) and s.naliveproto(builds, t, ...)
\* on the builds of the file, at a period time now.
Query(now) ==
    /\ pc = "ok"
    /\ t' = now
    /\ pow' = Powercap(sb, now)
    /\ nalive' = [q \in Protos |-> NAliveProto(sb, now, {q})]
    /\ UNCHANGED <<facs, sb, k, p, pc>>

Next == ValidateBuild \/ ValidateReturn \/ \E now \in QueryTimes : Query(now)

Spec == Init /\ [][Next]_vars

-----------------------------------------------------------------------------
\* After Validate, the power the file's Builds supply at t is the Cap of
\* their prototype's facility times N, over those alive by that facility's
\* or their own Life (what Validate's p.fac = fac is for).
PowerOfInitialBuilds ==
    t # -1 =>
        pow = SumFunction([j \in DOMAIN sb |->
                LET b == [sb[j] EXCEPT !.fac = facs[sb[j].proto]]
                IN  IF BuildAlive(b, t) THEN b.fac.cap * b.n ELSE 0])
=============================================================================
