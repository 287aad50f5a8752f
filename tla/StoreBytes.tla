----------------------------- MODULE StoreBytes -----------------------------
(***************************************************************************)
(* Stores as functions from keys to entries, and the bytes they hold.      *)
(***************************************************************************)
EXTENDS Integers, FiniteSets, Functions

(***************************************************************************)
(* The bytes a store s holds, one element per byte.  Counting this set     *)
(* gives the sum of the sizes of the entries.                              *)
(***************************************************************************)
HeldBytes(s) == UNION { {k} \X (1 .. s[k].size) : k \in DOMAIN s }

Held(s) == Cardinality(HeldBytes(s))

EmptyStore == [k \in {} |-> 0]

Without(s, k) == Restrict(s, DOMAIN s \ {k})

Extend(s, k, e) == [j \in DOMAIN s \cup {k} |-> IF j = k THEN e ELSE s[j]]
=============================================================================
