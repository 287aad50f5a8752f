------------------------------- MODULE Policy -------------------------------
(***************************************************************************)
(* Cache policies (internal/policy): an ordered list of rules and the      *)
(* three questions asked of it.  Match decides whether and how a request   *)
(* is cached; Covered decides whether a pod's traffic is intercepted at    *)
(* all; HasRuleForHostPort decides, before any request is seen, whether a  *)
(* TLS connection is terminated.                                           *)
(*                                                                         *)
(* A rule is a record with fields                                          *)
(*   ns         a namespace, or AnyNs                                      *)
(*   sel        a set of requirements, each the set of pod labels it       *)
(*              accepts; the empty selector has none                       *)
(*   host       a host name, or AnyHost                                    *)
(*   port       a port, or 0 for any                                       *)
(*   methods    the methods allowed, {} for all                            *)
(*   paths      the path prefixes allowed, {} for all                      *)
(*   ttl, cacheBody, vary   how to cache (see Proxy)                       *)
(* A pod is a record with fields ns and labels.                            *)
(***************************************************************************)
EXTENDS Integers, Sequences

CONSTANTS AnyNs,    \* Rule.Namespace = ""
          AnyHost,  \* Rule.Host = "*"
          NoRule    \* Match returned nil

HasPrefix(path, p) == Len(p) <= Len(path) /\ SubSeq(path, 1, Len(p)) = p

SelectsPod(r, pod) ==
  /\ r.ns \in {AnyNs, pod.ns}
  /\ \A requirement \in r.sel : pod.labels \in requirement

SelectsTarget(r, host, port) ==
  /\ r.port \in {0, port}
  /\ r.host \in {AnyHost, host}

methodAllowed(r, method) == r.methods = {} \/ method \in r.methods

pathAllowed(r, path) == r.paths = {} \/ \E p \in r.paths : HasPrefix(path, p)

Applies(r, pod, host, port, method, path) ==
  /\ SelectsPod(r, pod)
  /\ SelectsTarget(r, host, port)
  /\ methodAllowed(r, method)
  /\ pathAllowed(r, path)

\* The first rule that applies, in the order of the list.
Match(rules, pod, host, port, method, path) ==
  LET hits == {i \in DOMAIN rules : Applies(rules[i], pod, host, port, method, path)}
  IN  IF hits = {} THEN NoRule
      ELSE rules[CHOOSE i \in hits : \A j \in hits : i <= j]

Covered(rules, pod) == \E i \in DOMAIN rules : SelectsPod(rules[i], pod)

\* Mutant: a rule for any host does not open the gate.
MutGateIgnoresWildcard(rules, host, port) ==
  \E i \in DOMAIN rules : rules[i].port \in {0, port} /\ rules[i].host = host

HasRuleForHostPort(rules, host, port) ==
  \E i \in DOMAIN rules : SelectsTarget(rules[i], host, port)
=============================================================================
