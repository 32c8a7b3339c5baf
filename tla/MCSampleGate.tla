---------------------------- MODULE MCSampleGate ----------------------------
(* Five concurrent calls on two slots: three are validations with an abort *)
(* signal, two are samples without one.  The queue limit of two is         *)
(* reached, so the fifth caller is turned away.                            *)
EXTENDS SampleGate

CONSTANTS v1, v2, v3, s1, s2
MCCalls == {v1, v2, v3, s1, s2}
MCAbortable == {v1, v2, v3}
=============================================================================
