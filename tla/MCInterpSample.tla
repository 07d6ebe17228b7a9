---------------------------- MODULE MCInterpSample ----------------------------
(***************************************************************************)
(* The sample helpers of src/scen/interp.go checked together: Interp       *)
(* (interpolate, its closure, zip and extractProbs) and SampleProb         *)
(* (sampleUniformProb). The two share no state and no caller in the        *)
(* sources, so a behaviour exercises one of them: part picks which at the  *)
(* start, and the other's variables stay at fixed idle values.             *)
(***************************************************************************)
EXTENDS Integers

\* Interp over up to three samples on a grid of three X and three Y values,
\* queried at, between and outside the sample X values; every pair of
\* disruption and objective lists of up to two entries.
MCXs == 0..2
MCYs == {0, 1, 3}
MCQueries == -1..3
MCTimes == 0..1
MCProbs == 0..1
MCMaxSamples == 3
\* SampleProb over up to six slices and densities with values 0..2.
MCNSamples == 1..3
MCNIntervals == 1..2
MCFnValues == 0..2

VARIABLES
    part,  \* "interp" or "sample": the helper this behaviour calls
    samples, made, ss, q, y, disrups, objs, zipped, probs,  \* Interp's
    fn, nsample, ninterval, totA, i, tot, xs, pc            \* SampleProb's

Ivars == <<samples, made, ss, q, y, disrups, objs, zipped, probs>>
Svars == <<fn, nsample, ninterval, totA, i, tot, xs, pc>>
vars == <<part, Ivars, Svars>>

I == INSTANCE Interp WITH Xs <- MCXs, Ys <- MCYs, Queries <- MCQueries,
        MaxSamples <- MCMaxSamples, Times <- MCTimes, Probs <- MCProbs
S == INSTANCE SampleProb WITH NSamples <- MCNSamples,
        NIntervals <- MCNIntervals, FnValues <- MCFnValues

\* The variables of the helper a behaviour does not call, at fixed values.
InterpIdle ==
    /\ samples = <<>> /\ made = FALSE /\ ss = <<>> /\ q = 0 /\ y = I!NoResult
    /\ disrups = <<>> /\ objs = <<>>
    /\ zipped = [st |-> "none", s |-> <<>>] /\ probs = [st |-> "none", s |-> <<>>]
SampleIdle ==
    /\ fn = <<>> /\ nsample = 1 /\ ninterval = 1
    /\ totA = 0 /\ i = 0 /\ tot = 0 /\ xs = <<>> /\ pc = "integrate"

Init ==
    \/ part = "interp" /\ I!Init /\ SampleIdle
    \/ part = "sample" /\ S!Init /\ InterpIdle

Next ==
    \/ part = "interp" /\ I!Next /\ UNCHANGED <<part, Svars>>
    \/ part = "sample" /\ S!Next /\ UNCHANGED <<part, Ivars>>

Spec == Init /\ [][Next]_vars

-----------------------------------------------------------------------------
\* Types of Interp's state: samples, the closure's result, zip's and
\* extractProbs' results.
TypeOK == I!TypeOK

\* The closure interpolate returns gives each sample's Y at its X and a
\* value between adjacent samples' Ys between them, for samples in any
\* order (Interp).
InterpolatesSamples == I!InterpolatesSamples

\* sampleUniformProb returns at most nsample samples for a density that is
\* not zero everywhere (SampleProb).
SampleCountBounded == S!SampleCountBounded

\* zip pairs the k-th disruption's Time with the k-th objective (Interp).
ZipPairs == I!ZipPairs

\* sampleUniformProb returns nsample samples for a density not zero
\* everywhere (SampleProb).
SampleCount == S!SampleCount
=============================================================================
