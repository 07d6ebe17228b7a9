---------------------------- MODULE MCDispatcher ----------------------------
(* Dispatcher instantiated for TLC: three job ids, two workers, RPC        *)
(* submitters and status pollers as model values given in the .cfg files.  *)
EXTENDS Dispatcher, TLC

\* Job ids are drawn at random and workers are interchangeable.
Symmetry == Permutations(Ids) \cup Permutations(Workers)
=============================================================================
