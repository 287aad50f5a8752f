---------------------------- MODULE MCLeafCerts ----------------------------
(* Instances of LeafCerts for TLC.                                         *)
EXTENDS LeafCerts, TLC

CONSTANTS c1, c2, c3

MCCalls == {c1, c2, c3}
MCNames == {"a"}
=============================================================================
