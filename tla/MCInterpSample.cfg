\* Every sample list, query, disruption list and density of the bounds.
SPECIFICATION Spec
INVARIANT TypeOK InterpolatesSamples SampleCountBounded
\* sampleUniformProb returns: its final states have no successor. (The
\* closure interpolate returns can always be called again.)
CHECK_DEADLOCK FALSE
