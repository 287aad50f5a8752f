---------------------------- MODULE MCRedirect ----------------------------
(* An instance of Redirect for TLC: one client port, which connections use *)
(* one after the other.                                                    *)
EXTENDS Redirect

CONSTANTS p1, w1, w2, o1

MCPorts == {p1}
MCWeb == {w1, w2}
MCOthers == {o1}
=============================================================================
