---------------------------- MODULE MCTmuxScope ----------------------------
(***************************************************************************)
(* Instances of TmuxScope for TLC.                                         *)
(***************************************************************************)
EXTENDS TmuxScope, TLC

\* A name in scope that begins the name of the keeper and one out of scope: when
\* it is killed, either may be, or both are there and tmux refuses.
ShortPrefixes == {<<"k", "keeper">>, <<"k", "kiosk">>}

Symmetry == Permutations(Supervisors)
=============================================================================
