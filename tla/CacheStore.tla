----------------------------- MODULE CacheStore -----------------------------
(***************************************************************************)
(* The in-memory response store (internal/cache).  Goroutines of the proxy *)
(* call Get, Set and Delete; a sweeper goroutine drops expired entries     *)
(* every 30 seconds; the metrics goroutine reads count and totalBytes      *)
(* without taking the lock, so it sees them in any of the states below.    *)
(*                                                                         *)
(* A step is what one goroutine does between two points where another one  *)
(* can interfere: acquiring or releasing mu, reading the clock, or         *)
(* publishing the counters (removeLocked and addLocked are one step each). *)
(* The clock moves between any two steps, also while the lock is held.     *)
(***************************************************************************)
EXTENDS StoreBytes

CONSTANTS Keys,      \* cache keys
          Procs,     \* goroutines that use the store
          Sizes,     \* possible values of Entry.size()
          TTLs,      \* possible values of Entry.TTL
          MaxBytes,  \* store.maxBytes
          Free,      \* mu when nobody holds it for writing
          Sweeper,   \* the goroutine of sweepLoop
          MaxTime,   \* bound on the clock
          MaxSets    \* bound on the number of entries ever stored

ASSUME SizesAssumption == Sizes \subseteq Nat
ASSUME TTLsAssumption == TTLs \subseteq Int
ASSUME MaxBytesAssumption == MaxBytes \in Int
ASSUME LockAssumption == Free \notin Procs /\ Sweeper \notin Procs /\ Free # Sweeper
ASSUME BoundsAssumption == MaxTime \in Nat /\ MaxSets \in Nat

VARIABLES
  entries,     \* store.entries
  totalBytes,  \* store.totalBytes
  count,       \* store.count
  mu,          \* who holds store.mu for writing
  evicted,     \* the sum of all onEvicted calls (latch_cache_evictions_total)
  now,         \* time.Now()
  pc,          \* what each goroutine is about to do
  key,         \* its argument key
  ent,         \* the entry it was given (Set) or has read (Get)
  lockAt,      \* history: when its Set got the lock
  todo,        \* entries the sweeper has not visited in this round
  swept,       \* evictedN of the sweeper
  stored,      \* history: entries ever added
  removed      \* history: entries removed by Set and Delete, not evicted

lockVars == <<entries, totalBytes, count>>
procVars == <<pc, key, ent, lockAt>>
sweepVars == <<todo, swept>>
history == <<stored, removed>>
vars == <<lockVars, mu, evicted, now, procVars, sweepVars, history>>

Entry == [size : Nat, ttl : Int, cachedAt : Nat]

Abstract == INSTANCE BoundedStore WITH store <- entries

(***************************************************************************)
(* The goroutine is idle; has read an entry in Get ("check"); found it     *)
(* expired and is about to call Delete ("expired"); is about to call       *)
(* Delete or Set; holds the lock in the eviction loop of Set ("evict"), or *)
(* is in that loop after a scan for expired entries failed ("evictAny").   *)
(***************************************************************************)
PC == {"idle", "check", "expired", "delete", "set", "evict", "evictAny"}

Expired(e, t) == t - e.cachedAt > e.ttl

Goto(p, label) == pc' = [pc EXCEPT ![p] = label]

\* Mutant: the counter goes down although the key was not stored.
MutRemoveUnchecked(k) ==
  /\ entries' = IF k \in DOMAIN entries THEN Without(entries, k) ELSE entries
  /\ totalBytes' = IF k \in DOMAIN entries THEN totalBytes - entries[k].size ELSE totalBytes
  /\ count' = count - 1

removeLocked(k) ==
  /\ entries' = IF k \in DOMAIN entries THEN Without(entries, k) ELSE entries
  /\ totalBytes' = IF k \in DOMAIN entries THEN totalBytes - entries[k].size ELSE totalBytes
  /\ count' = IF k \in DOMAIN entries THEN count - 1 ELSE count

addLocked(k, e) ==
  /\ entries' = Extend(entries, k, e)
  /\ totalBytes' = totalBytes + e.size
  /\ count' = count + 1

NoteRemoved(k) == removed' = IF k \in DOMAIN entries THEN removed + 1 ELSE removed

TypeOK ==
  /\ DOMAIN entries \subseteq Keys
  /\ entries \in [DOMAIN entries -> Entry]
  /\ totalBytes \in Nat
  /\ count \in Nat
  /\ mu \in Procs \cup {Free, Sweeper}
  /\ evicted \in Nat
  /\ now \in Nat
  /\ pc \in [Procs -> PC]
  /\ key \in [Procs -> Keys]
  /\ ent \in [Procs -> Entry]
  /\ lockAt \in [Procs -> Nat]
  /\ todo \subseteq Keys
  /\ swept \in Nat
  /\ stored \in Nat
  /\ removed \in Nat

Init ==
  /\ entries = EmptyStore
  /\ totalBytes = 0
  /\ count = 0
  /\ mu = Free
  /\ evicted = 0
  /\ now = 0
  /\ pc = [p \in Procs |-> "idle"]
  /\ key \in {[p \in Procs |-> k] : k \in Keys}
  /\ ent = [p \in Procs |-> [size |-> 0, ttl |-> 0, cachedAt |-> 0]]
  /\ lockAt = [p \in Procs |-> 0]
  /\ todo = {}
  /\ swept = 0
  /\ stored = 0
  /\ removed = 0

-----------------------------------------------------------------------------
(* Get *)

\* RLock; e, ok := entries[k]; RUnlock.  A missing key returns at once and
\* changes nothing.
GetRead(p, k) ==
  /\ pc[p] = "idle"
  /\ mu = Free
  /\ k \in DOMAIN entries
  /\ Goto(p, "check")
  /\ key' = [key EXCEPT ![p] = k]
  /\ ent' = [ent EXCEPT ![p] = entries[k]]
  /\ UNCHANGED <<lockVars, mu, evicted, now, lockAt, sweepVars, history>>

\* e.Expired() is evaluated after the lock is released.
GetCheck(p) ==
  /\ pc[p] = "check"
  /\ Goto(p, IF Expired(ent[p], now) THEN "expired" ELSE "idle")
  /\ UNCHANGED <<lockVars, mu, evicted, now, key, ent, lockAt, sweepVars, history>>

-----------------------------------------------------------------------------
(* Delete *)

DeleteCall(p, k) ==
  /\ pc[p] = "idle"
  /\ Goto(p, "delete")
  /\ key' = [key EXCEPT ![p] = k]
  /\ UNCHANGED <<lockVars, mu, evicted, now, ent, lockAt, sweepVars, history>>

\* Delete removes whatever the key maps to when it gets the lock.
Delete(p) ==
  /\ pc[p] \in {"expired", "delete"}
  /\ mu = Free
  /\ removeLocked(key[p])
  /\ NoteRemoved(key[p])
  /\ Goto(p, "idle")
  /\ UNCHANGED <<mu, evicted, now, key, ent, lockAt, sweepVars, stored>>

-----------------------------------------------------------------------------
(* Set *)

\* The proxy stamps CachedAt when it has read the response, before the call.
SetCall(p, k, s, t) ==
  /\ pc[p] = "idle"
  /\ stored < MaxSets
  /\ Goto(p, "set")
  /\ key' = [key EXCEPT ![p] = k]
  /\ ent' = [ent EXCEPT ![p] = [size |-> s, ttl |-> t, cachedAt |-> now]]
  /\ UNCHANGED <<lockVars, mu, evicted, now, lockAt, sweepVars, history>>

\* Mutant: the old entry of the key is not removed before the new one is added.
MutSetLockKeepsOld(p) ==
  /\ pc[p] = "set"
  /\ mu = Free
  /\ mu' = p
  /\ lockAt' = [lockAt EXCEPT ![p] = now]
  /\ Goto(p, "evict")
  /\ UNCHANGED <<lockVars, evicted, now, key, ent, sweepVars, history>>

\* Lock, then removeLocked(key): an overwritten entry is not an eviction.
SetLock(p) ==
  /\ pc[p] = "set"
  /\ mu = Free
  /\ mu' = p
  /\ removeLocked(key[p])
  /\ NoteRemoved(key[p])
  /\ lockAt' = [lockAt EXCEPT ![p] = now]
  /\ Goto(p, "evict")
  /\ UNCHANGED <<evicted, now, key, ent, sweepVars, stored>>

\* Mutant: the loop tests the bytes held without the entry to be added.
MutFitsWithoutNew(p) == totalBytes <= MaxBytes

Fits(p) == totalBytes + ent[p].size <= MaxBytes

\* evictOneLocked: drop k and count one eviction.
evictOneLocked(k) ==
  /\ removeLocked(k)
  /\ evicted' = evicted + 1

\* evictOneLocked(true) finds an expired entry; which one is up to the map.
\* Nothing changes during a scan but the clock, so a scan is one step, taken
\* when it finds its entry or, if it finds none, when it starts.
SetEvictExpired(p) ==
  /\ pc[p] = "evict"
  /\ ~Fits(p)
  /\ \E k \in DOMAIN entries : Expired(entries[k], now) /\ evictOneLocked(k)
  /\ UNCHANGED <<mu, now, procVars, sweepVars, history>>

\* Mutant: any entry may be evicted although expired ones are left.
MutScannedAnyway(p) ==
  /\ pc[p] = "evict"
  /\ ~Fits(p)
  /\ Goto(p, "evictAny")
  /\ UNCHANGED <<lockVars, mu, evicted, now, key, ent, lockAt, sweepVars, history>>

\* evictOneLocked(true) finds none.
SetScanned(p) ==
  /\ pc[p] = "evict"
  /\ ~Fits(p)
  /\ \A k \in DOMAIN entries : ~Expired(entries[k], now)
  /\ Goto(p, "evictAny")
  /\ UNCHANGED <<lockVars, mu, evicted, now, key, ent, lockAt, sweepVars, history>>

\* evictOneLocked(false) drops any entry, then the loop condition is retested.
SetEvictAny(p) ==
  /\ pc[p] = "evictAny"
  /\ \E k \in DOMAIN entries : evictOneLocked(k)
  /\ Goto(p, "evict")
  /\ UNCHANGED <<mu, now, key, ent, lockAt, sweepVars, history>>

\* Mutant: gives up as soon as no expired entry is left.
MutGiveUpEarly(p) ==
  /\ pc[p] = "evictAny"
  /\ mu' = Free
  /\ Goto(p, "idle")
  /\ UNCHANGED <<lockVars, evicted, now, key, ent, lockAt, sweepVars, history>>

\* Mutant: an empty store does not end the eviction loop.
MutGiveUpLoops(p) ==
  /\ pc[p] = "evictAny"
  /\ DOMAIN entries = {}
  /\ Goto(p, "evict")
  /\ UNCHANGED <<lockVars, mu, evicted, now, key, ent, lockAt, sweepVars, history>>

\* Nothing is left to evict: the entry is dropped.
SetGiveUp(p) ==
  /\ pc[p] = "evictAny"
  /\ DOMAIN entries = {}
  /\ mu' = Free
  /\ Goto(p, "idle")
  /\ UNCHANGED <<lockVars, evicted, now, key, ent, lockAt, sweepVars, history>>

SetAdd(p) ==
  /\ pc[p] = "evict"
  /\ Fits(p)
  /\ addLocked(key[p], ent[p])
  /\ stored' = stored + 1
  /\ mu' = Free
  /\ Goto(p, "idle")
  /\ UNCHANGED <<evicted, now, key, ent, lockAt, sweepVars, removed>>

-----------------------------------------------------------------------------
(* The sweeper goroutine *)

SweepLock ==
  /\ mu = Free
  /\ swept = 0
  /\ mu' = Sweeper
  /\ todo' = DOMAIN entries
  /\ UNCHANGED <<lockVars, evicted, now, procVars, swept, history>>

\* Mutant: the sweep ends at the first live entry.
MutSweepBreaks(k) ==
  /\ mu = Sweeper
  /\ k \in todo
  /\ \/ /\ Expired(entries[k], now)
        /\ removeLocked(k)
        /\ todo' = todo \ {k}
        /\ swept' = swept + 1
     \/ /\ ~Expired(entries[k], now)
        /\ todo' = {}
        /\ UNCHANGED <<lockVars, swept>>
  /\ UNCHANGED <<mu, evicted, now, procVars, history>>

SweepVisit(k) ==
  /\ mu = Sweeper
  /\ k \in todo
  /\ todo' = todo \ {k}
  /\ \/ /\ Expired(entries[k], now)
        /\ removeLocked(k)
        /\ swept' = swept + 1
     \/ /\ ~Expired(entries[k], now)
        /\ UNCHANGED <<lockVars, swept>>
  /\ UNCHANGED <<mu, evicted, now, procVars, history>>

SweepUnlock ==
  /\ mu = Sweeper
  /\ todo = {}
  /\ mu' = Free
  /\ UNCHANGED <<lockVars, evicted, now, procVars, sweepVars, history>>

\* Mutant: a sweep reports one eviction whatever it removed.
MutReportOne ==
  /\ mu # Sweeper
  /\ swept > 0
  /\ evicted' = evicted + 1
  /\ swept' = 0
  /\ UNCHANGED <<lockVars, mu, now, procVars, todo, history>>

\* onEvicted(evictedN) runs after the lock is released.
SweepReport ==
  /\ mu # Sweeper
  /\ swept > 0
  /\ evicted' = evicted + swept
  /\ swept' = 0
  /\ UNCHANGED <<lockVars, mu, now, procVars, todo, history>>

-----------------------------------------------------------------------------
Tick ==
  /\ now < MaxTime
  /\ now' = now + 1
  /\ UNCHANGED <<lockVars, mu, evicted, procVars, sweepVars, history>>

\* What a goroutine inside a call does next.
Continue(p) ==
  \/ GetCheck(p)
  \/ SetEvictExpired(p)
  \/ SetScanned(p)
  \/ SetEvictAny(p)
  \/ SetGiveUp(p)
  \/ SetAdd(p)

SweepStep == (\E k \in Keys : SweepVisit(k)) \/ SweepUnlock \/ SweepReport

Next ==
  \/ \E p \in Procs :
       \/ \E k \in Keys : GetRead(p, k) \/ DeleteCall(p, k)
       \/ \E k \in Keys, s \in Sizes, t \in TTLs : SetCall(p, k, s, t)
       \/ SetLock(p) \/ Delete(p) \/ Continue(p)
  \/ SweepLock \/ SweepStep
  \/ Tick

Spec == Init /\ [][Next]_vars

(***************************************************************************)
(* A goroutine that holds the lock, or needs no lock, is scheduled in the  *)
(* end.  A lock request is granted in the end although others keep taking  *)
(* the lock: Go's mutexes hand over to a waiter that starved for 1 ms, and *)
(* the ticker of sweepLoop fires again and again.  Nothing is assumed      *)
(* about calls being made or time passing.                                 *)
(***************************************************************************)
Fairness ==
  /\ \A p \in Procs : WF_vars(Continue(p)) /\ SF_vars(SetLock(p) \/ Delete(p))
  /\ SF_vars(SweepLock) /\ WF_vars(SweepStep)

FairSpec == Spec /\ Fairness

-----------------------------------------------------------------------------
(* Properties *)

\* Accounting: totalBytes and count, which SizeBytes() and Len() return, are
\* the bytes and the entries really held whenever removeLocked and addLocked
\* are not halfway through, also in the middle of an eviction or a sweep.
Accounting ==
  /\ totalBytes = Held(entries)
  /\ count = Cardinality(DOMAIN entries)

\* WithinBudget: whatever Set, Delete and the sweeper do concurrently, a
\* store that holds anything holds at most maxBytes.
WithinBudget == DOMAIN entries # {} => totalBytes <= MaxBytes

\* EvictionsConserved: every entry ever added is still stored, or was removed
\* by a Set or Delete of its key, or is counted exactly once as an eviction
\* (latch_cache_evictions_total), now or when the sweeper reports.
EvictionsConserved == stored = count + removed + evicted + swept

\* DropsOnlyOversized: Set returns without having stored its entry only if
\* the entry alone exceeds the budget.
DropsOnlyOversized ==
  [][\A p \in Procs :
       mu = p /\ mu' = Free /\ key[p] \notin DOMAIN entries' => ent[p].size > MaxBytes]_vars

\* EvictsExpiredFirst: a Set evicts an entry that is still live only when no
\* entry had expired by the time that Set got the lock.
EvictsExpiredFirst ==
  [][\A p \in Procs : \A k \in DOMAIN entries :
       mu = p /\ k \notin DOMAIN entries' /\ ~Expired(entries[k], now)
         => \A j \in DOMAIN entries : ~Expired(entries[j], lockAt[p])]_vars

\* ImplementsBoundedStore: the store refines the abstract bounded store.
ImplementsBoundedStore == Abstract!Spec

\* CallsReturn: every Get, Set and Delete returns; the eviction loop of Set
\* ends and no caller waits for the lock forever.
CallsReturn == \A p \in Procs : pc[p] # "idle" ~> pc[p] = "idle"

\* ExpiredSwept: an expired entry does not stay in the store for good, even
\* if nobody ever asks for its key again.
ExpiredSwept ==
  \A k \in Keys :
    LET Stale == k \in DOMAIN entries /\ Expired(entries[k], now)
    IN  Stale ~> ~Stale

\* LazyDeleteTakesExpired: the inline delete of a Get removes an expired
\* entry, as "Get triggers an inline delete of the expired entry"
\* (internal/cache/memory_test.go) has it.  It does not hold: Get releases
\* the lock between reading the entry and deleting the key.
LazyDeleteTakesExpired ==
  [][\A p \in Procs :
       pc[p] = "expired" /\ pc'[p] = "idle" /\ key[p] \in DOMAIN entries
         => Expired(entries[key[p]], now)]_vars
=============================================================================
