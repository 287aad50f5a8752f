----------------------------- MODULE MCPodWatch -----------------------------
(* Small instances of PodWatch. *)
EXTENDS PodWatch, TLC

Symmetry == Permutations(Pods) \cup Permutations(IPs) \cup Permutations(Metas)
=============================================================================
