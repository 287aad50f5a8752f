---------------------------- MODULE MCCacheStore ----------------------------
(***************************************************************************)
(* Small instances of CacheStore.  Sizes include one that exceeds the      *)
(* budget and one that fits only alone; a TTL of -1 is what an overflowing *)
(* max-age can produce (an entry that is expired from the start).          *)
(***************************************************************************)
EXTENDS CacheStore, TLC

MCTTLs == {-1, 0}

Symmetry == Permutations(Keys) \cup Permutations(Procs)
=============================================================================
