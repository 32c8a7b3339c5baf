---------------------------- MODULE MCObservation ----------------------------
(* Small instances of Observation.  Waiters and observer ids are alike, so    *)
(* the safety runs take them up to permutation; the liveness runs do not.     *)
EXTENDS Observation

CONSTANTS c1, c2, o1, o2, o3, w1, w2, w3, w4
Symmetric == Permutations(Waiters) \cup Permutations(Observers)
==============================================================================
