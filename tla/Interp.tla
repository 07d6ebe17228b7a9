------------------------------- MODULE Interp -------------------------------
(***************************************************************************)
(* The sample helpers of src/scen/interp.go (lines 1-101): interpolate,    *)
(* which sorts a copy of its samples and returns a closure that evaluates  *)
(* the piecewise-linear function through them, and zip and extractProbs,   *)
(* which build sample lists from disruptions. Sample coordinates are small *)
(* integers and the closure's result is an exact fraction <<num, den>>, so *)
(* the float arithmetic is kept exactly (rounding aside).                  *)
(***************************************************************************)
EXTENDS Integers, Sequences, SequencesExt, FiniteSets

CONSTANTS
    Xs,          \* sample X values
    Ys,          \* sample Y values
    Queries,     \* the x the closure is called with
    MaxSamples,  \* longest sample list
    Times,       \* Disruption.Time values
    Probs        \* Disruption.Prob values and objective values

\* interpolate's precondition: no two samples share an X.
SampleLists ==
    {s \in BoundedSeq(Xs \X Ys, MaxSamples) :
        \A a, b \in DOMAIN s : s[a][1] = s[b][1] => a = b}

Disruptions == BoundedSeq(Times \X Probs, 2)

NoResult == [st |-> "none", num |-> 0, den |-> 1]

VARIABLES
    samples,  \* interpolate's argument
    made,     \* interpolate has been called and returned its closure
    ss,       \* the sorted copy the closure holds
    q,        \* the x of the closure's last call
    y,        \* the closure's last result: st "none", "panic" or "ok", the fraction num/den
    disrups,  \* zip's and extractProbs' argument
    objs,     \* zip's second argument
    zipped,   \* zip's result: st "none", "panic" or "ok", the samples s
    probs     \* extractProbs' result: st "none" or "ok", the samples s

vars == <<samples, made, ss, q, y, disrups, objs, zipped, probs>>

Init ==
    /\ samples \in SampleLists /\ made = FALSE /\ ss = <<>>
    /\ q = 0 /\ y = NoResult
    /\ disrups \in Disruptions /\ objs \in BoundedSeq(Probs, 2)
    /\ zipped = [st |-> "none", s |-> <<>>] /\ probs = [st |-> "none", s |-> <<>>]

\* interpolate with the sort.Sort left out.
InterpolateNoSort ==
    /\ ~made
    /\ made' = TRUE /\ ss' = samples
    /\ UNCHANGED <<samples, q, y, disrups, objs, zipped, probs>>

\* interpolate: make, copy, then sort.Sort by X (sampleSet.Less).
interpolate ==
    /\ ~made
    /\ made' = TRUE /\ ss' = SortSeq(samples, LAMBDA a, b : a[1] < b[1])
    /\ UNCHANGED <<samples, q, y, disrups, objs, zipped, probs>>

\* The same with x measured from the right end of the segment.
OnLineFromRight(l, r, x) ==
    [st |-> "ok", num |-> l[2] * (r[1] - l[1]) + (r[1] - x) * (r[2] - l[2]),
     den |-> r[1] - l[1]]

\* lefty + (x-left)/(right-left)*(righty-lefty) between samples l and r.
OnLine(l, r, x) ==
    [st |-> "ok", num |-> l[2] * (r[1] - l[1]) + (x - l[1]) * (r[2] - l[2]),
     den |-> r[1] - l[1]]

\* The closure: the first segment whose right end is >= x, else the last
\* segment; ss[:len(ss)-1] and ss[end-1] panic with fewer than 2 samples.
Eval(x) ==
    /\ made
    /\ q' = x
    /\ y' = IF Len(ss) < 2 THEN [NoResult EXCEPT !.st = "panic"]
            ELSE LET hits == {k \in 1..Len(ss) - 1 : x <= ss[k + 1][1]}
                     k == IF hits = {} THEN Len(ss) - 1 ELSE Min(hits)
                 IN  OnLine(ss[k], ss[k + 1], x)
    /\ UNCHANGED <<samples, made, ss, disrups, objs, zipped, probs>>

\* zip: panics on unequal lengths; make([]sample, len(disrups)) and then
\* append one sample per disruption.
zip ==
    /\ zipped.st = "none"
    /\ zipped' = IF Len(disrups) # Len(objs) THEN [zipped EXCEPT !.st = "panic"]
                 ELSE [st |-> "ok",
                       s |-> [k \in 1..Len(disrups) |-> <<0, 0>>]
                             \o [k \in 1..Len(disrups) |-> <<disrups[k][1], objs[k]>>]]
    /\ UNCHANGED <<samples, made, ss, q, y, disrups, objs, probs>>

\* extractProbs: one <<Time, Prob>> sample per disruption.
extractProbs ==
    /\ probs.st = "none"
    /\ probs' = [st |-> "ok",
                 s |-> [k \in 1..Len(disrups) |-> <<disrups[k][1], disrups[k][2]>>]]
    /\ UNCHANGED <<samples, made, ss, q, y, disrups, objs, zipped>>

Next == interpolate \/ (\E x \in Queries : Eval(x)) \/ zip \/ extractProbs

Spec == Init /\ [][Next]_vars

-----------------------------------------------------------------------------
\* A fraction lies between a and b (inclusive, in either order).
Between(f, a, b) ==
    LET lo == IF a <= b THEN a ELSE b
        hi == IF a <= b THEN b ELSE a
    IN  lo * f.den <= f.num /\ f.num <= hi * f.den

TypeOK ==
    /\ samples \in SampleLists /\ made \in BOOLEAN /\ ss \in Seq(Xs \X Ys) /\ q \in Int
    /\ y \in [st : {"none", "panic", "ok"}, num : Int, den : Nat \ {0}]
    /\ zipped \in [st : {"none", "panic", "ok"}, s : Seq(Int \X Int)]
    /\ probs \in [st : {"none", "ok"}, s : Seq(Int \X Int)]

\* The closure returns each sample's Y at its X, and between two samples
\* adjacent in X a value between their Ys, whatever the order the samples
\* were passed in (the comment: they need not be in any order).
InterpolatesSamples ==
    y.st = "ok" =>
        /\ \A k \in DOMAIN samples :
              samples[k][1] = q => y.num = samples[k][2] * y.den
        /\ \A a, b \in DOMAIN samples :
              (/\ samples[a][1] < q /\ q < samples[b][1]
               /\ ~\E c \in DOMAIN samples :
                     samples[a][1] < samples[c][1] /\ samples[c][1] < samples[b][1])
              => Between(y, samples[a][2], samples[b][2])

\* zip pairs the k-th disruption's Time with the k-th objective, one
\* sample per disruption.
ZipPairs ==
    zipped.st = "ok" =>
        zipped.s = [k \in 1..Len(disrups) |-> <<disrups[k][1], objs[k]>>]
=============================================================================
