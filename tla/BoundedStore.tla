---------------------------- MODULE BoundedStore ----------------------------
(***************************************************************************)
(* What a byte-budgeted response store promises to the proxy that uses it, *)
(* whatever its locking, accounting and eviction look like: entries come   *)
(* and go one key at a time, an entry is never altered while it is stored, *)
(* and an entry is admitted only if the bytes then really held stay within *)
(* the budget.  The store is lossy: any entry may be dropped at any time.  *)
(***************************************************************************)
EXTENDS StoreBytes

CONSTANTS Keys,      \* cache keys
          MaxBytes   \* the byte budget

VARIABLE store       \* a function from the stored keys to their entries

Init == store = EmptyStore

Put(k) ==
  /\ k \notin DOMAIN store
  /\ DOMAIN store' = DOMAIN store \cup {k}
  /\ \A j \in DOMAIN store : store'[j] = store[j]
  /\ Held(store') <= MaxBytes

Drop(k) ==
  /\ k \in DOMAIN store
  /\ store' = Without(store, k)

Next == \E k \in Keys : Put(k) \/ Drop(k)

Spec == Init /\ [][Next]_store
=============================================================================
