-------------------------- MODULE CacheStoreProofs --------------------------
(***************************************************************************)
(* Proofs about the response store, for every set of keys and goroutines,  *)
(* every budget and every size and TTL of the entries.                     *)
(***************************************************************************)
EXTENDS CacheStore, FiniteSetTheorems, TLAPS

-----------------------------------------------------------------------------
(* Counting the bytes of a store *)

Block(k, n) == {k} \X (1 .. n)

\* The bytes of one entry are as many as its size.
LEMMA BlockSize ==
  ASSUME NEW k, NEW n \in Nat
  PROVE  IsFiniteSet(Block(k, n)) /\ Cardinality(Block(k, n)) = n
<1> DEFINE f == [i \in 1 .. n |-> <<k, i>>]
<1>1. f \in [1 .. n -> Block(k, n)]
  BY DEF Block
<1>2. \A i, j \in 1 .. n : f[i] = f[j] => i = j
  OBVIOUS
<1>3. \A b \in Block(k, n) : \E i \in 1 .. n : f[i] = b
  BY DEF Block
<1> HIDE DEF f
<1>4. f \in Bijection(1 .. n, Block(k, n))
  BY <1>1, <1>2, <1>3 DEF Bijection, Injection, Surjection, IsInjective
<1>5. ExistsBijection(1 .. n, Block(k, n))
  BY <1>4 DEF ExistsBijection
<1> QED
  BY <1>5, FS_NatBijection, FS_CountingElements

\* Dropping an entry of a store takes exactly its bytes away.
LEMMA DropBytes ==
  ASSUME NEW s, NEW k \in DOMAIN s, s[k].size \in Nat,
         IsFiniteSet(HeldBytes(s))
  PROVE  /\ IsFiniteSet(HeldBytes(Without(s, k)))
         /\ Held(Without(s, k)) = Held(s) - s[k].size
         /\ Held(s) - s[k].size \in Nat
<1> DEFINE H == HeldBytes(s)
           W == HeldBytes(Without(s, k))
           B == Block(k, s[k].size)
<1>a. \A j \in DOMAIN s \ {k} : Without(s, k)[j] = s[j]
  BY DEF Without, Restrict
<1>b. DOMAIN Without(s, k) = DOMAIN s \ {k}
  BY DEF Without, Restrict
<1>c. H = UNION {Block(j, s[j].size) : j \in DOMAIN s}
  BY DEF HeldBytes, Block
<1>d. W = UNION {Block(j, s[j].size) : j \in DOMAIN s \ {k}}
  BY <1>a, <1>b DEF HeldBytes, Block
<1>e. \A j : j # k => Block(j, s[j].size) \cap B = {}
  BY DEF Block
<1>1. H = W \cup B /\ W \cap B = {} /\ W \subseteq H
  BY <1>c, <1>d, <1>e
<1>2. IsFiniteSet(W)
  BY <1>1, FS_Subset
<1>3. IsFiniteSet(B) /\ Cardinality(B) = s[k].size
  BY BlockSize
<1> HIDE DEF H, W, B
<1>4. Cardinality(H) = Cardinality(W) + Cardinality(B) - Cardinality({})
  BY <1>1, <1>2, <1>3, FS_Union
<1>5. Cardinality(W) \in Nat
  BY <1>2, FS_CardinalityType
<1>6. Cardinality(H) = Cardinality(W) + s[k].size
  BY <1>3, <1>4, <1>5, FS_EmptySet
<1>7. Cardinality(W) = Cardinality(H) - s[k].size
  BY <1>5, <1>6
<1>8. Held(s) = Cardinality(H)
  BY DEF H, Held
<1>9. Held(Without(s, k)) = Cardinality(W)
  BY DEF W, Held
<1>10. IsFiniteSet(HeldBytes(Without(s, k)))
  BY <1>2 DEF W
<1> QED
  BY <1>5, <1>7, <1>8, <1>9, <1>10

\* Adding an entry under a new key adds exactly its bytes.
LEMMA AddBytes ==
  ASSUME NEW s, NEW k, k \notin DOMAIN s, NEW e, e.size \in Nat,
         IsFiniteSet(HeldBytes(s))
  PROVE  /\ IsFiniteSet(HeldBytes(Extend(s, k, e)))
         /\ Held(Extend(s, k, e)) = Held(s) + e.size
<1> DEFINE H == HeldBytes(s)
           X == HeldBytes(Extend(s, k, e))
           B == Block(k, e.size)
<1>a. \A j \in DOMAIN s : Extend(s, k, e)[j] = s[j]
  BY DEF Extend
<1>b. DOMAIN Extend(s, k, e) = DOMAIN s \cup {k} /\ Extend(s, k, e)[k] = e
  BY DEF Extend
<1>c. X = (UNION {Block(j, s[j].size) : j \in DOMAIN s}) \cup B
  BY <1>a, <1>b DEF HeldBytes, Block
<1>d. H = UNION {Block(j, s[j].size) : j \in DOMAIN s}
  BY DEF HeldBytes, Block
<1>e. \A j \in DOMAIN s : Block(j, s[j].size) \cap B = {}
  BY DEF Block
<1>1. X = H \cup B /\ H \cap B = {}
  BY <1>c, <1>d, <1>e
<1>2. IsFiniteSet(B) /\ Cardinality(B) = e.size
  BY BlockSize
<1>3. Cardinality(H) \in Nat
  BY FS_CardinalityType
<1> HIDE DEF H, X, B
<1>4. IsFiniteSet(X) /\ Cardinality(X) = Cardinality(H) + Cardinality(B) - Cardinality({})
  BY <1>1, <1>2, FS_Union DEF H
<1> QED
  BY <1>2, <1>3, <1>4, FS_EmptySet DEF H, X, Held

-----------------------------------------------------------------------------
(* The inductive invariant *)

\* What the store's lock protects.
StoreInv ==
  /\ DOMAIN entries \subseteq Keys
  /\ entries \in [DOMAIN entries -> Entry]
  /\ totalBytes \in Nat
  /\ count \in Nat
  /\ IsFiniteSet(DOMAIN entries)
  /\ IsFiniteSet(HeldBytes(entries))
  /\ Accounting
  /\ WithinBudget

\* The lock is held exactly inside the eviction loop of Set and inside a sweep;
\* the key being stored is absent throughout the loop, and the loop is past its
\* scan for expired entries only while the new entry does not fit and no entry
\* had expired when the lock was taken.
LockInv ==
  /\ \A p \in Procs :
       /\ mu = p <=> pc[p] \in {"evict", "evictAny"}
       /\ mu = p => key[p] \notin DOMAIN entries
       /\ mu = p => lockAt[p] <= now
       /\ pc[p] = "evictAny" =>
            ~Fits(p) /\ \A k \in DOMAIN entries : ~Expired(entries[k], lockAt[p])
  /\ mu = Sweeper => todo \subseteq DOMAIN entries

IInv == TypeOK /\ StoreInv /\ LockInv /\ EvictionsConserved

\* removeLocked keeps the store consistent and removes at most key k.
LEMMA RemoveStep ==
  ASSUME StoreInv, NEW k, removeLocked(k)
  PROVE  /\ StoreInv'
         /\ DOMAIN entries' = DOMAIN entries \ {k}
         /\ \A j \in DOMAIN entries' : entries'[j] = entries[j]
         /\ totalBytes' <= totalBytes
         /\ count' = IF k \in DOMAIN entries THEN count - 1 ELSE count
<1>1. CASE k \notin DOMAIN entries
  BY <1>1 DEF StoreInv, removeLocked, Accounting, WithinBudget
<1>2. CASE k \in DOMAIN entries
  <2>1. /\ entries' = Without(entries, k)
        /\ totalBytes' = totalBytes - entries[k].size
        /\ count' = count - 1
    BY <1>2 DEF removeLocked
  <2>2. /\ DOMAIN entries' = DOMAIN entries \ {k}
        /\ \A j \in DOMAIN entries' : entries'[j] = entries[j]
        /\ entries' \in [DOMAIN entries' -> Entry]
    BY <2>1 DEF Without, Restrict, StoreInv
  <2>3. entries[k].size \in Nat
    BY <1>2 DEF StoreInv, Entry
  <2>4. /\ IsFiniteSet(HeldBytes(entries'))
        /\ Held(entries') = Held(entries) - entries[k].size
        /\ Held(entries') \in Nat
    BY <1>2, <2>1, <2>3, DropBytes DEF StoreInv
  <2>5. /\ IsFiniteSet(DOMAIN entries')
        /\ Cardinality(DOMAIN entries') = Cardinality(DOMAIN entries) - 1
    BY <1>2, <2>2, FS_RemoveElement DEF StoreInv
  <2>6. Cardinality(DOMAIN entries') \in Nat
    BY <2>5, FS_CardinalityType
  <2>7. Accounting' /\ totalBytes' \in Nat /\ count' \in Nat
    BY <2>1, <2>4, <2>5, <2>6 DEF StoreInv, Accounting
  <2>8. totalBytes' <= totalBytes
    BY <2>1, <2>3 DEF StoreInv
  <2>9. WithinBudget'
    BY <1>2, <2>7, <2>8, MaxBytesAssumption DEF StoreInv, WithinBudget
  <2> QED
    BY <1>2, <2>1, <2>2, <2>4, <2>5, <2>7, <2>8, <2>9 DEF StoreInv
<1> QED
  BY <1>1, <1>2

\* addLocked keeps the store consistent when the key is absent and the entry
\* fits, which Set has made sure of.
LEMMA AddStep ==
  ASSUME StoreInv, NEW k \in Keys, NEW e \in Entry, addLocked(k, e),
         k \notin DOMAIN entries, totalBytes + e.size <= MaxBytes
  PROVE  /\ StoreInv'
         /\ DOMAIN entries' = DOMAIN entries \cup {k}
         /\ count' = count + 1
<1>1. /\ entries' = Extend(entries, k, e)
      /\ totalBytes' = totalBytes + e.size
      /\ count' = count + 1
  BY DEF addLocked
<1>2. /\ DOMAIN entries' = DOMAIN entries \cup {k}
      /\ entries' \in [DOMAIN entries' -> Entry]
  BY <1>1 DEF Extend, StoreInv
<1>3. e.size \in Nat
  BY DEF Entry
<1>4. /\ IsFiniteSet(HeldBytes(entries'))
      /\ Held(entries') = Held(entries) + e.size
  BY <1>1, <1>3, AddBytes DEF StoreInv
<1>5. /\ IsFiniteSet(DOMAIN entries')
      /\ Cardinality(DOMAIN entries') = Cardinality(DOMAIN entries) + 1
  BY <1>2, FS_AddElement DEF StoreInv
<1> QED
  BY <1>1, <1>2, <1>3, <1>4, <1>5 DEF StoreInv, Accounting, WithinBudget

\* The store is as consistent as before when a step does not touch it.
LEMMA SameStore ==
  ASSUME StoreInv, UNCHANGED lockVars
  PROVE  StoreInv'
BY DEF StoreInv, lockVars, Accounting, WithinBudget

LEMMA InitIInv == Init => IInv
<1> SUFFICES ASSUME Init PROVE IInv
  OBVIOUS
<1>1. DOMAIN entries = {} /\ HeldBytes(entries) = {}
  BY DEF Init, EmptyStore, HeldBytes
<1>2. IsFiniteSet({}) /\ Cardinality({}) = 0
  BY FS_EmptySet
<1>3. StoreInv
  BY <1>1, <1>2 DEF Init, EmptyStore, StoreInv, Accounting, WithinBudget, Held
<1>4. TypeOK
  BY <1>3 DEF Init, StoreInv, TypeOK, PC, Entry
<1>5. LockInv
  BY <1>1, LockAssumption DEF Init, LockInv
<1>6. EvictionsConserved
  BY DEF Init, EvictionsConserved
<1> QED
  BY <1>3, <1>4, <1>5, <1>6 DEF IInv

\* Steps of a goroutine that does not hold the lock and leaves the store alone.
LEMMA QuietSteps ==
  ASSUME IInv, NEW p \in Procs,
         \/ \E k \in Keys : GetRead(p, k) \/ DeleteCall(p, k)
         \/ \E k \in Keys, s \in Sizes, t \in TTLs : SetCall(p, k, s, t)
         \/ GetCheck(p)
  PROVE  IInv'
<1>1. /\ UNCHANGED <<lockVars, mu, evicted, now, lockAt, sweepVars, history>>
      /\ pc[p] \in {"idle", "check"}
      /\ \E l \in {"idle", "check", "expired", "delete", "set"} : Goto(p, l)
      /\ \E k \in Keys : key' = [key EXCEPT ![p] = k]
      /\ \E e \in Entry : ent' = [ent EXCEPT ![p] = e]
  <2> DEFINE sameKey == key = [key EXCEPT ![p] = key[p]] /\ key[p] \in Keys
             sameEnt == ent = [ent EXCEPT ![p] = ent[p]] /\ ent[p] \in Entry
  <2>a. sameKey /\ sameEnt
    BY DEF IInv, TypeOK
  <2>1. CASE \E k \in Keys : GetRead(p, k)
    BY <2>1 DEF GetRead, IInv, TypeOK
  <2>2. CASE \E k \in Keys : DeleteCall(p, k)
    BY <2>2, <2>a DEF DeleteCall
  <2>3. CASE \E k \in Keys, s \in Sizes, t \in TTLs : SetCall(p, k, s, t)
    BY <2>3, SizesAssumption, TTLsAssumption DEF SetCall, IInv, TypeOK, Entry
  <2>4. CASE GetCheck(p)
    BY <2>4, <2>a DEF GetCheck
  <2> QED
    BY <2>1, <2>2, <2>3, <2>4
<1>2. StoreInv'
  BY <1>1, SameStore DEF IInv
<1>3. TypeOK'
  BY <1>1, <1>2 DEF IInv, TypeOK, StoreInv, PC, Goto, lockVars, sweepVars, history
<1>4. LockInv'
  BY <1>1 DEF IInv, TypeOK, LockInv, Goto, Fits, Expired, lockVars, sweepVars
<1>5. EvictionsConserved'
  BY <1>1 DEF IInv, EvictionsConserved, lockVars, sweepVars, history
<1> QED
  BY <1>2, <1>3, <1>4, <1>5 DEF IInv

\* Delete: takes and releases the lock in one step.
LEMMA DeleteStep ==
  ASSUME IInv, NEW p \in Procs, Delete(p)
  PROVE  IInv'
<1>1. /\ StoreInv'
      /\ count' = IF key[p] \in DOMAIN entries THEN count - 1 ELSE count
  BY RemoveStep DEF Delete, IInv
<1>2. TypeOK'
  BY <1>1 DEF Delete, NoteRemoved, IInv, TypeOK, StoreInv, PC, Goto, sweepVars
<1>3. LockInv'
  BY LockAssumption DEF Delete, IInv, TypeOK, LockInv, Goto, sweepVars
<1>4. EvictionsConserved'
  BY <1>1 DEF Delete, NoteRemoved, IInv, TypeOK, EvictionsConserved, sweepVars
<1> QED
  BY <1>1, <1>2, <1>3, <1>4 DEF IInv

\* Set takes the lock and removes the old entry of its key.
LEMMA SetLockStep ==
  ASSUME IInv, NEW p \in Procs, SetLock(p)
  PROVE  IInv'
<1>1. /\ StoreInv'
      /\ DOMAIN entries' = DOMAIN entries \ {key[p]}
      /\ count' = IF key[p] \in DOMAIN entries THEN count - 1 ELSE count
  BY RemoveStep DEF SetLock, IInv
<1>2. TypeOK'
  <2>1. /\ pc' = [pc EXCEPT ![p] = "evict"]
        /\ lockAt' = [lockAt EXCEPT ![p] = now]
        /\ mu' = p
        /\ removed' \in {removed, removed + 1}
        /\ UNCHANGED <<evicted, now, key, ent, todo, swept, stored>>
    BY DEF SetLock, NoteRemoved, Goto, sweepVars
  <2> QED
    BY <1>1, <2>1 DEF IInv, TypeOK, StoreInv, PC
<1>3. LockInv'
  BY <1>1, LockAssumption DEF SetLock, IInv, TypeOK, LockInv, Goto, sweepVars
<1>4. EvictionsConserved'
  BY <1>1 DEF SetLock, NoteRemoved, IInv, TypeOK, EvictionsConserved, sweepVars
<1> QED
  BY <1>1, <1>2, <1>3, <1>4 DEF IInv

\* A step of the eviction loop that removes an entry k.
LEMMA EvictStep ==
  ASSUME IInv, NEW p \in Procs, NEW k \in DOMAIN entries, evictOneLocked(k), mu = p,
         Goto(p, "evict"), UNCHANGED <<mu, now, key, ent, lockAt, sweepVars, history>>
  PROVE  IInv'
<1>1. /\ StoreInv'
      /\ DOMAIN entries' = DOMAIN entries \ {k}
      /\ count' = count - 1
  BY RemoveStep DEF evictOneLocked, IInv
<1>2. TypeOK'
  BY <1>1 DEF evictOneLocked, IInv, TypeOK, StoreInv, PC, Goto, sweepVars, history
<1>3. LockInv'
  BY <1>1, LockAssumption DEF IInv, TypeOK, LockInv, Goto, sweepVars
<1>4. EvictionsConserved'
  BY <1>1 DEF evictOneLocked, IInv, TypeOK, EvictionsConserved, sweepVars, history
<1> QED
  BY <1>1, <1>2, <1>3, <1>4 DEF IInv

\* The steps of the eviction loop that leave the store as it is.
LEMMA LoopSteps ==
  ASSUME IInv, NEW p \in Procs, SetScanned(p) \/ SetGiveUp(p)
  PROVE  IInv'
<1>1. /\ UNCHANGED <<lockVars, evicted, now, key, ent, lockAt, sweepVars, history>>
      /\ mu = p
  BY DEF SetScanned, SetGiveUp, IInv, LockInv
<1>2. StoreInv'
  BY <1>1, SameStore DEF IInv
<1>3. TypeOK'
  BY <1>1, <1>2 DEF SetScanned, SetGiveUp, IInv, TypeOK, StoreInv, PC, Goto, lockVars, sweepVars, history
<1>4. LockInv'
  <2>1. CASE SetScanned(p)
    <3>1. \A k \in DOMAIN entries : ~Expired(entries[k], lockAt[p])
      BY <1>1, <2>1 DEF SetScanned, Expired, IInv, TypeOK, LockInv, Entry
    <3> QED
      BY <1>1, <2>1, <3>1, LockAssumption
      DEF SetScanned, IInv, TypeOK, LockInv, Goto, Fits, Expired, lockVars, sweepVars
  <2>2. CASE SetGiveUp(p)
    BY <1>1, <2>2, LockAssumption DEF SetGiveUp, IInv, TypeOK, LockInv, Goto, lockVars, sweepVars
  <2> QED
    BY <2>1, <2>2
<1>5. EvictionsConserved'
  BY <1>1 DEF IInv, EvictionsConserved, lockVars, sweepVars, history
<1> QED
  BY <1>2, <1>3, <1>4, <1>5 DEF IInv

LEMMA SetAddStep ==
  ASSUME IInv, NEW p \in Procs, SetAdd(p)
  PROVE  IInv'
<1>1. /\ key[p] \in Keys /\ ent[p] \in Entry
      /\ key[p] \notin DOMAIN entries
      /\ totalBytes + ent[p].size <= MaxBytes
  BY DEF SetAdd, Fits, IInv, TypeOK, LockInv
<1>2. StoreInv' /\ count' = count + 1
  BY <1>1, AddStep DEF SetAdd, IInv
<1>3. TypeOK'
  BY <1>2 DEF SetAdd, IInv, TypeOK, StoreInv, PC, Goto, sweepVars
<1>4. LockInv'
  BY LockAssumption DEF SetAdd, IInv, TypeOK, LockInv, Goto, sweepVars
<1>5. EvictionsConserved'
  BY <1>2 DEF SetAdd, IInv, TypeOK, EvictionsConserved, sweepVars
<1> QED
  BY <1>2, <1>3, <1>4, <1>5 DEF IInv

\* The sweeper removes only what it still has to visit, and counts each entry.
LEMMA SweepSteps ==
  ASSUME IInv, SweepLock \/ SweepStep
  PROVE  IInv'
<1>1. CASE \E k \in Keys : SweepVisit(k)
  <2> PICK k \in Keys : SweepVisit(k)
    BY <1>1
  <2>1. k \in DOMAIN entries
    BY DEF SweepVisit, IInv, LockInv
  <2>2. CASE Expired(entries[k], now) /\ removeLocked(k) /\ swept' = swept + 1
    <3>1. /\ StoreInv'
          /\ DOMAIN entries' = DOMAIN entries \ {k}
          /\ count' = count - 1
      BY <2>1, <2>2, RemoveStep DEF IInv
    <3>2. TypeOK'
      BY <2>2, <3>1 DEF SweepVisit, IInv, TypeOK, StoreInv, procVars, history
    <3>3. LockInv'
      BY <3>1, LockAssumption DEF SweepVisit, IInv, TypeOK, LockInv, procVars
    <3>4. EvictionsConserved'
      BY <2>2, <3>1 DEF SweepVisit, IInv, TypeOK, EvictionsConserved, history
    <3> QED
      BY <3>1, <3>2, <3>3, <3>4 DEF IInv
  <2>3. CASE UNCHANGED <<lockVars, swept>>
    <3>1. StoreInv'
      BY <2>3, SameStore DEF IInv
    <3>2. TypeOK'
      BY <2>3, <3>1 DEF SweepVisit, IInv, TypeOK, StoreInv, procVars, history
    <3>3. LockInv'
      BY <2>3, LockAssumption DEF SweepVisit, IInv, TypeOK, LockInv, Fits, lockVars, procVars
    <3>4. EvictionsConserved'
      BY <2>3 DEF SweepVisit, IInv, EvictionsConserved, lockVars, history
    <3> QED
      BY <3>1, <3>2, <3>3, <3>4 DEF IInv
  <2> QED
    BY <2>2, <2>3 DEF SweepVisit
<1>2. CASE SweepLock \/ SweepUnlock \/ SweepReport
  <2>1. UNCHANGED <<lockVars, now, procVars, history>>
    BY <1>2 DEF SweepLock, SweepUnlock, SweepReport
  <2>2. StoreInv'
    BY <2>1, SameStore DEF IInv
  <2>3. TypeOK'
    BY <1>2, <2>1, <2>2
    DEF SweepLock, SweepUnlock, SweepReport, IInv, TypeOK, StoreInv, procVars, sweepVars, history
  <2>4. LockInv'
    BY <1>2, <2>1, LockAssumption
    DEF SweepLock, SweepUnlock, SweepReport, IInv, TypeOK, LockInv, Fits, lockVars, procVars, sweepVars
  <2>5. EvictionsConserved'
    BY <1>2, <2>1
    DEF SweepLock, SweepUnlock, SweepReport, IInv, TypeOK, EvictionsConserved, lockVars, sweepVars, history
  <2> QED
    BY <2>2, <2>3, <2>4, <2>5 DEF IInv
<1> QED
  BY <1>1, <1>2 DEF SweepStep

LEMMA TickStep ==
  ASSUME IInv, Tick
  PROVE  IInv'
<1>1. StoreInv'
  BY SameStore DEF Tick, IInv
<1>2. TypeOK'
  BY <1>1 DEF Tick, IInv, TypeOK, StoreInv, procVars, sweepVars, history
<1>3. LockInv'
  BY DEF Tick, IInv, TypeOK, LockInv, Fits, lockVars, procVars, sweepVars
<1>4. EvictionsConserved'
  BY DEF Tick, IInv, EvictionsConserved, lockVars, sweepVars, history
<1> QED
  BY <1>1, <1>2, <1>3, <1>4 DEF IInv

LEMMA NextIInv == IInv /\ [Next]_vars => IInv'
<1> SUFFICES ASSUME IInv, [Next]_vars PROVE IInv'
  OBVIOUS
<1>1. CASE UNCHANGED vars
  <2>1. StoreInv'
    BY <1>1, SameStore DEF IInv, vars
  <2> QED
    BY <1>1, <2>1 DEF IInv, TypeOK, LockInv, Fits, EvictionsConserved, vars, lockVars, procVars, sweepVars, history
<1>2. CASE \E p \in Procs :
             \/ \E k \in Keys : GetRead(p, k) \/ DeleteCall(p, k)
             \/ \E k \in Keys, s \in Sizes, t \in TTLs : SetCall(p, k, s, t)
             \/ GetCheck(p)
  BY <1>2, QuietSteps
<1>3. CASE \E p \in Procs : Delete(p)
  BY <1>3, DeleteStep
<1>4. CASE \E p \in Procs : SetLock(p)
  BY <1>4, SetLockStep
<1>5. CASE \E p \in Procs : SetEvictExpired(p)
  <2> PICK p \in Procs : SetEvictExpired(p)
    BY <1>5
  <2>1. mu = p /\ Goto(p, "evict")
    BY DEF SetEvictExpired, IInv, LockInv, TypeOK, Goto, procVars
  <2> QED
    BY <2>1, EvictStep DEF SetEvictExpired, procVars
<1>6. CASE \E p \in Procs : SetEvictAny(p)
  <2> PICK p \in Procs : SetEvictAny(p)
    BY <1>6
  <2>1. mu = p
    BY DEF SetEvictAny, IInv, LockInv
  <2> QED
    BY <2>1, EvictStep DEF SetEvictAny
<1>7. CASE \E p \in Procs : SetScanned(p) \/ SetGiveUp(p)
  BY <1>7, LoopSteps
<1>8. CASE \E p \in Procs : SetAdd(p)
  BY <1>8, SetAddStep
<1>9. CASE SweepLock \/ SweepStep
  BY <1>9, SweepSteps
<1>10. CASE Tick
  BY <1>10, TickStep
<1> QED
  BY <1>1, <1>2, <1>3, <1>4, <1>5, <1>6, <1>7, <1>8, <1>9, <1>10 DEF Next, Continue

LEMMA Inductive == Spec => []IInv
BY InitIInv, NextIInv, PTL DEF Spec

-----------------------------------------------------------------------------
(* Invariants of the store *)

\* The store's state keeps its type; in particular the byte and entry counters
\* never go below zero, however Get, Set, Delete and the sweeper interleave.
THEOREM TypeCorrect == Spec => []TypeOK
<1>1. IInv => TypeOK
  BY DEF IInv
<1> QED
  BY <1>1, Inductive, PTL

\* SizeBytes() and Len() report exactly what the map holds.
THEOREM AccountingCorrect == Spec => []Accounting
<1>1. IInv => Accounting
  BY DEF IInv, StoreInv
<1> QED
  BY <1>1, Inductive, PTL

\* The store never holds more than maxBytes.
THEOREM BudgetKept == Spec => []WithinBudget
<1>1. IInv => WithinBudget
  BY DEF IInv, StoreInv
<1> QED
  BY <1>1, Inductive, PTL

\* Every entry that leaves the store other than by Set or Delete of its key is
\* counted once in latch_cache_evictions_total.
THEOREM EvictionsCounted == Spec => []EvictionsConserved
<1>1. IInv => EvictionsConserved
  BY DEF IInv
<1> QED
  BY <1>1, Inductive, PTL

-----------------------------------------------------------------------------
(* Steps of the store *)

\* A step that releases a goroutine's lock is the last step of its Set.
LEMMA Releases ==
  ASSUME IInv, Next, NEW p \in Procs, mu = p, mu' = Free
  PROVE  SetGiveUp(p) \/ SetAdd(p)
<1>1. mu # Free /\ mu # Sweeper
  BY LockAssumption
<1>2. \A q \in Procs : pc[q] \in {"evict", "evictAny"} => q = p
  BY DEF IInv, LockInv
<1>3. ASSUME NEW q \in Procs, SetGiveUp(q) \/ SetAdd(q)
      PROVE  q = p
  BY <1>2, <1>3 DEF SetGiveUp, SetAdd
<1>4. \E q \in Procs : SetGiveUp(q) \/ SetAdd(q)
  BY <1>1 DEF Next, Continue, SweepStep, GetRead, GetCheck, DeleteCall, Delete, SetCall, SetLock,
       SetEvictExpired, SetScanned, SetEvictAny, SweepLock, SweepVisit, SweepUnlock, SweepReport, Tick
<1> QED
  BY <1>3, <1>4

\* Set gives up on its entry only if the entry alone exceeds the budget.
THEOREM OnlyOversizedDropped == Spec => DropsOnlyOversized
<1> DEFINE Oversized(p) ==
             mu = p /\ mu' = Free /\ key[p] \notin DOMAIN entries' => ent[p].size > MaxBytes
<1>1. ASSUME IInv, [Next]_vars
      PROVE  [\A p \in Procs : Oversized(p)]_vars
  <2> SUFFICES ASSUME Next, NEW p \in Procs, mu = p, mu' = Free, key[p] \notin DOMAIN entries'
               PROVE  ent[p].size > MaxBytes
    BY <1>1
  <2>1. SetGiveUp(p) \/ SetAdd(p)
    BY <1>1, Releases
  <2>2. CASE SetAdd(p)
    BY <2>2 DEF SetAdd, addLocked, Extend
  <2>3. CASE SetGiveUp(p)
    <3>1. HeldBytes(entries) = {} /\ ~Fits(p)
      BY <1>1, <2>3 DEF SetGiveUp, HeldBytes, IInv, LockInv
    <3>2. totalBytes = 0
      BY <1>1, <3>1, FS_EmptySet DEF IInv, StoreInv, Accounting, Held
    <3>3. ent[p].size \in Nat
      BY <1>1 DEF IInv, TypeOK, Entry
    <3> QED
      BY <3>1, <3>2, <3>3, MaxBytesAssumption DEF Fits
  <2> QED
    BY <2>1, <2>2, <2>3
<1> QED
  BY <1>1, Inductive, PTL DEF Spec, DropsOnlyOversized

\* While a Set holds the lock, an entry goes only by an eviction of that Set.
LEMMA Evicts ==
  ASSUME IInv, Next, NEW p \in Procs, mu = p, NEW k \in DOMAIN entries, k \notin DOMAIN entries'
  PROVE  SetEvictExpired(p) \/ SetEvictAny(p)
<1>1. mu # Free /\ mu # Sweeper
  BY LockAssumption
<1>2. \A q \in Procs : pc[q] \in {"evict", "evictAny"} => q = p
  BY DEF IInv, LockInv
<1>3. \A q \in Procs : SetEvictExpired(q) \/ SetEvictAny(q) => q = p
  BY <1>2 DEF SetEvictExpired, SetEvictAny
<1>4. ASSUME NEW q \in Procs, SetAdd(q)
      PROVE  FALSE
  BY <1>4 DEF SetAdd, addLocked, Extend
<1>5. \E q \in Procs : SetEvictExpired(q) \/ SetEvictAny(q)
  BY <1>1, <1>4 DEF Next, Continue, SweepStep, GetRead, GetCheck, DeleteCall, Delete, SetCall, SetLock,
       SetScanned, SetGiveUp, SweepLock, SweepVisit, SweepUnlock, SweepReport, Tick, lockVars
<1> QED
  BY <1>3, <1>5

\* A Set evicts a live entry only if nothing had expired when it got the lock.
THEOREM ExpiredEvictedFirst == Spec => EvictsExpiredFirst
<1> DEFINE Justified(p, k) ==
             mu = p /\ k \notin DOMAIN entries' /\ ~Expired(entries[k], now)
               => \A j \in DOMAIN entries : ~Expired(entries[j], lockAt[p])
<1>1. ASSUME IInv, [Next]_vars
      PROVE  [\A p \in Procs : \A k \in DOMAIN entries : Justified(p, k)]_vars
  <2> SUFFICES ASSUME Next, NEW p \in Procs, NEW k \in DOMAIN entries,
                      mu = p, k \notin DOMAIN entries', ~Expired(entries[k], now)
               PROVE  \A j \in DOMAIN entries : ~Expired(entries[j], lockAt[p])
    BY <1>1
  <2>1. SetEvictExpired(p) \/ SetEvictAny(p)
    BY <1>1, Evicts
  <2>2. ~SetEvictExpired(p)
    <3> SUFFICES ASSUME SetEvictExpired(p) PROVE FALSE
      OBVIOUS
    <3> PICK j \in DOMAIN entries : Expired(entries[j], now) /\ evictOneLocked(j)
      BY DEF SetEvictExpired
    <3>1. DOMAIN entries' = DOMAIN entries \ {j}
      BY <1>1, RemoveStep DEF evictOneLocked, IInv
    <3> QED
      BY <3>1
  <2> QED
    BY <1>1, <2>1, <2>2 DEF SetEvictAny, IInv, LockInv
<1> QED
  BY <1>1, Inductive, PTL DEF Spec, EvictsExpiredFirst

-----------------------------------------------------------------------------
(* Refinement *)

\* The abstract store and this module count bytes alike.
LEMMA SameHeld ==
  ASSUME NEW s
  PROVE  Abstract!Held(s) = Held(s)
<1>1. \A S : Abstract!Cardinality(S) = Cardinality(S)
  BY DEF Abstract!Cardinality, Cardinality, Abstract!IsFiniteSet, IsFiniteSet
<1> QED
  BY <1>1 DEF Abstract!Held, Held, Abstract!HeldBytes, HeldBytes

\* removeLocked drops one entry of the abstract store, or does nothing.
LEMMA RemoveRefines ==
  ASSUME NEW k, removeLocked(k), DOMAIN entries \subseteq Keys
  PROVE  [Abstract!Next]_entries
<1>1. CASE k \in DOMAIN entries
  BY <1>1 DEF removeLocked, Abstract!Next, Abstract!Drop, Abstract!Without, Without,
       Abstract!Restrict, Restrict
<1>2. CASE k \notin DOMAIN entries
  BY <1>2 DEF removeLocked
<1> QED
  BY <1>1, <1>2

\* addLocked, as Set uses it, puts one entry into the abstract store.
LEMMA AddRefines ==
  ASSUME IInv, NEW p \in Procs, SetAdd(p)
  PROVE  Abstract!Next
<1>1. /\ key[p] \in Keys
      /\ key[p] \notin DOMAIN entries
      /\ ent[p] \in Entry
      /\ totalBytes + ent[p].size <= MaxBytes
  BY DEF SetAdd, Fits, IInv, TypeOK, LockInv
<1>2. /\ DOMAIN entries' = DOMAIN entries \cup {key[p]}
      /\ \A j \in DOMAIN entries : entries'[j] = entries[j]
  BY <1>1 DEF SetAdd, addLocked, Extend
<1>3. totalBytes' = Held(entries') /\ totalBytes' <= MaxBytes
  BY <1>1, AddStep DEF SetAdd, addLocked, IInv, StoreInv, Accounting
<1>4. Abstract!Held(entries') <= MaxBytes
  BY <1>3, SameHeld
<1> QED
  BY <1>1, <1>2, <1>4 DEF Abstract!Next, Abstract!Put

\* The store, with its lock, counters, eviction loop and sweeper, implements
\* the abstract bounded store that the proxy is modelled on.
THEOREM StoreRefines == Spec => ImplementsBoundedStore
<1>1. Init => Abstract!Init
  BY DEF Init, Abstract!Init, EmptyStore, Abstract!EmptyStore
<1>2. ASSUME IInv, [Next]_vars
      PROVE  [Abstract!Next]_entries
  <2>1. CASE UNCHANGED entries
    BY <2>1
  <2>2. CASE \E k : removeLocked(k)
    BY <1>2, <2>2, RemoveRefines DEF IInv, TypeOK
  <2>3. CASE \E p \in Procs : SetAdd(p)
    BY <1>2, <2>3, AddRefines
  <2> QED
    BY <1>2, <2>1, <2>2, <2>3 DEF Next, Continue, SweepStep, GetRead, GetCheck, DeleteCall, Delete,
       SetCall, SetLock, SetEvictExpired, SetScanned, SetEvictAny, SetGiveUp, evictOneLocked,
       SweepLock, SweepVisit, SweepUnlock, SweepReport, Tick, lockVars, vars
<1> QED
  BY <1>1, <1>2, Inductive, PTL DEF Spec, ImplementsBoundedStore, Abstract!Spec
=============================================================================
