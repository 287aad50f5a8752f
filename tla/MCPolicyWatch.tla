--------------------------- MODULE MCPolicyWatch ----------------------------
(***************************************************************************)
(* Small instances of PolicyWatch: policies of two namespaces, contents    *)
(* with a broad, a narrow and an invalid selector, and one that does not   *)
(* decode.                                                                 *)
(***************************************************************************)
EXTENDS PolicyWatch, TLC

Name(ns, name) == [ns |-> ns, name |-> name]
MCNames == {Name("n1", "a"), Name("n1", "b"), Name("n2", "a")}

Rule(host, ttl) == [host |-> host, port |-> 80, methods |-> {}, paths |-> {}, ttl |-> ttl,
                    cacheBody |-> FALSE, vary |-> {}]
Broad == [decodes |-> TRUE, valid |-> TRUE, sel |-> {}, rules |-> <<Rule(AnyHost, 1)>>]
Narrow == [Broad EXCEPT !.sel = {{"app"}}, !.rules = <<Rule("s1", 2)>>]
Invalid == [Broad EXCEPT !.valid = FALSE]
Garbled == [Broad EXCEPT !.decodes = FALSE, !.rules = <<>>]
MCSpecs == {Broad, Narrow, Invalid, Garbled}

MCClients == {[ns |-> "n1", labels |-> "app"], [ns |-> "n2", labels |-> "other"]}
=============================================================================
