---------------------------- MODULE MCHistoryHub ----------------------------
(***************************************************************************)
(* Instances of HistoryHub for TLC: Channels, viewers and chains of ticks  *)
(* are interchangeable.                                                    *)
(***************************************************************************)
EXTENDS HistoryHub, TLC

Symmetry == Permutations(Channels) \cup Permutations(Viewers) \cup Permutations(Polls)
=============================================================================
