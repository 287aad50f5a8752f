------------------------------ MODULE MCProxy -------------------------------
(***************************************************************************)
(* Small instances of Proxy: the connections, requests, responses and      *)
(* policies that its runs choose from.                                     *)
(***************************************************************************)
EXTENDS Proxy, TLC

MCCanon == "A" :> "A" @@ "a" :> "A" @@ "Connection" :> "Connection" @@ "*" :> "*"

Headers(a, c) == "A" :> a @@ "Connection" :> c @@ "a" :> "none" @@ "*" :> "none"

\* Connections
Conn(ns, port, dst, sni) == [ns |-> ns, labels |-> "app", port |-> port, dst |-> dst, sni |-> sni]
Plain(ns) == Conn(ns, 80, "d1", NoSNI)
TLS(ns, sni) == Conn(ns, 443, IF sni = "s2" THEN "d2" ELSE "d1", sni)

\* Requests
Host(name) == [name |-> name, port |-> 0]
Directive(name, value) == [name |-> name, value |-> value]
Line(name, value) == <<Directive(name, value)>>
Base == [host |-> Host("s1"), method |-> "GET", path |-> <<"/">>, query |-> "", body |-> NoBody,
         size |-> 0, hdr |-> Headers("x", "none"), cc |-> <<>>, keep |-> TRUE]
OtherVariant == [Base EXCEPT !.hdr = Headers("y", "close"), !.keep = FALSE]
Refresh == [Base EXCEPT !.cc = <<Line("no-cache", -1)>>]
Private == [Base EXCEPT !.cc = <<Line("no-store", -1)>>]
Post(b, n) == [Base EXCEPT !.body = b, !.size = n]
Hostless == [Base EXCEPT !.host = NoHost]

\* Responses
Resp == [ok |-> TRUE, size |-> 1, cc |-> <<>>, vary |-> <<>>]
Varied == [Resp EXCEPT !.vary = <<{"A"}>>]
Aged == [Resp EXCEPT !.cc = << <<Directive("max-age", 1), Directive("s-maxage", 0)>> >>]
\* An age beyond the range of a duration of eight bits, of which nothing is left.
Huge == [Resp EXCEPT !.cc = <<Line("max-age", 256)>>]

Secret == [Resp EXCEPT !.cc = <<Line("private", -1)>>]

\* Rules
Rule == [ns |-> AnyNs, sel |-> {}, host |-> AnyHost, port |-> 0, methods |-> {}, paths |-> {},
         ttl |-> 1, cacheBody |-> FALSE, vary |-> {}]

Symmetry == Permutations(Handlers)

-----------------------------------------------------------------------------
\* Hits: two variants and a body, responses that vary, age, or declare an age
\* that overflows, policies that partition by header or body for some pods only, or by the one
\* header that the proxy changes.
CacheConns == {Plain("n1"), Plain("n2")}
CacheRequests == {Base, OtherVariant, Post("b", 1)}
CacheAnswers(r) == IF r = Base THEN {Varied, Aged} ELSE IF r.body = NoBody THEN {Varied} ELSE {Huge}
CachePolicies ==
  { << [Rule EXCEPT !.ns = "n1", !.vary = {"A"}], [Rule EXCEPT !.cacheBody = TRUE] >>,
    << [Rule EXCEPT !.methods = {"GET"}, !.paths = {<<"/">>}, !.vary = {"Connection"}] >> }

\* TLS connections to two servers, without a server name, or with nothing to
\* read one from, and policies for one server, one namespace, or another port.
\* Responses vary by the same header or are private; clients refresh or forbid
\* to store.
TLSConns == {TLS("n1", "s1"), TLS("n1", "s2"), TLS("n2", "s2"), TLS("n1", NoHost), TLS("n1", NoSNI)}
TLSRequests == {Base, OtherVariant, Refresh, Private, Hostless}
TLSAnswers(r) == {Varied, Secret}
TLSPolicies ==
  { <<[Rule EXCEPT !.host = "s1"]>>,
    <<[Rule EXCEPT !.ns = "n1", !.port = 443]>>,
    <<[Rule EXCEPT !.port = 80]>> }

\* Upstream sends Vary with one response and none with the next.
OneConn == {Plain("n1")}
OneRequest == {Base}
OnePolicy == {<<Rule>>}
ShrinkingAnswers(r) == {Varied, Resp}
=============================================================================
