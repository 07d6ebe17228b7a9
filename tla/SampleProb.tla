----------------------------- MODULE SampleProb -----------------------------
(***************************************************************************)
(* sampleUniformProb (src/scen/interp.go:66-82) with the integrateMid it   *)
(* calls (55-64): split [x1, x2] into ninterval*nsample slices, integrate  *)
(* fn by the midpoint rule, then walk the slices again and emit the         *)
(* midpoint of a slice each time the running area passes the next multiple *)
(* of totA/nsample.                                                         *)
(*                                                                         *)
(* fn is given by its values at the slice midpoints (small naturals: a      *)
(* probability density). Every area is a multiple of dx, so areas are kept *)
(* divided by dx and the comparison tot >= (len(xs)+1)*totA/nsample is      *)
(* kept exactly as tot*nsample >= (len(xs)+1)*totA. A sample is the index  *)
(* of its slice (x1 + (i+0.5)*dx is increasing in i).                       *)
(***************************************************************************)
EXTENDS Naturals, Sequences, SequencesExt

CONSTANTS
    NSamples,    \* values of nsample
    NIntervals,  \* values of ninterval
    FnValues     \* values of fn at a midpoint

VARIABLES
    fn,         \* fn at the midpoints of slices 0..ninterval*nsample-1
    nsample,
    ninterval,
    totA,       \* integrateMid's result, over dx
    i,          \* the loop counter
    tot,        \* the running area, over dx
    xs,         \* the samples returned, as slice indices
    pc          \* "integrate", "loop" or "done"

vars == <<fn, nsample, ninterval, totA, i, tot, xs, pc>>

NSlices == ninterval * nsample

Init ==
    /\ nsample \in NSamples /\ ninterval \in NIntervals
    /\ fn \in [1..nsample * ninterval -> FnValues]
    /\ totA = 0 /\ i = 0 /\ tot = 0 /\ xs = <<>> /\ pc = "integrate"

\* integrateMid with its loop stopping one slice short.
IntegrateMidShort(f) ==
    LET RECURSIVE sum(_)
        sum(k) == IF k = 0 THEN 0 ELSE f[k] + sum(k - 1)
    IN  sum(Len(f) - 1)

\* integrateMid(fn, x1, x2, ninterval*nsample): the sum of fn(x)*dx over
\* the slice midpoints.
IntegrateMid(f) ==
    LET RECURSIVE sum(_)
        sum(k) == IF k = 0 THEN 0 ELSE f[k] + sum(k - 1)
    IN  sum(Len(f))

Integrate ==
    /\ pc = "integrate"
    /\ totA' = IntegrateMid(fn) /\ pc' = "loop"
    /\ UNCHANGED <<fn, nsample, ninterval, i, tot, xs>>

\* The emit condition with the count of samples off by one.
PassesNextQuantileEarly(area) == area * nsample >= Len(xs) * totA
\* tot >= float64(len(xs)+1)*sampleA, sampleA = totA/nsample.
PassesNextQuantile(area) == area * nsample >= (Len(xs) + 1) * totA

\* One iteration of the loop over the slices: at most one sample each.
Step ==
    /\ pc = "loop" /\ i < NSlices
    /\ tot' = tot + fn[i + 1]
    /\ xs' = IF PassesNextQuantile(tot + fn[i + 1]) THEN Append(xs, i) ELSE xs
    /\ i' = i + 1
    /\ UNCHANGED <<fn, nsample, ninterval, totA, pc>>

Return ==
    /\ pc = "loop" /\ i >= NSlices
    /\ pc' = "done"
    /\ UNCHANGED <<fn, nsample, ninterval, totA, i, tot, xs>>

Next == Integrate \/ Step \/ Return

Spec == Init /\ [][Next]_vars

-----------------------------------------------------------------------------
\* sampleUniformProb never returns more than nsample samples for a density
\* that is not zero everywhere: the loop's running area can pass the
\* thresholds totA/nsample, 2*totA/nsample, ... only up to the total that
\* integrateMid computed over the same slices. (For a density zero
\* everywhere totA is 0, every slice passes, and ninterval*nsample samples
\* come back.)
SampleCountBounded == totA > 0 => Len(xs) <= nsample

\* sampleUniformProb returns nsample samples, one per equal share of the
\* area under a density fn that is not zero everywhere.
SampleCount == pc = "done" /\ totA > 0 => Len(xs) = nsample
=============================================================================
