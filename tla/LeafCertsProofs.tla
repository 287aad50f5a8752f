-------------------------- MODULE LeafCertsProofs --------------------------
(* Proofs about LeafCerts, for any calls, names, lifetimes and deadlines   *)
(* that satisfy TimesAssumption.                                           *)
EXTENDS LeafCerts, TLAPS

Leading == {"load", "recheck", "sign", "store", "finish"}

(* A flight has exactly one leader, who works for its name; a call waits   *)
(* only for a flight under way.                                            *)
FlightInv == /\ \A c \in Calls : pc[c] \in Leading => leader[name[c]] = c
             /\ \A c \in Calls : pc[c] = "wait" => leader[name[c]] # Nobody
             /\ \A n \in Names : leader[n] # Nobody
                   => pc[leader[n]] \in Leading /\ name[leader[n]] = n

(* What is cached, or was loaded, for a name is a certificate of that name *)
(* and expires Margin before it.                                           *)
EntryFor(e, n) == e # Absent => /\ e.cert.name = n
                                /\ e.expiresAt = e.cert.notAfter - Margin

CacheInv == /\ \A n \in Names : EntryFor(cache[n], n)
            /\ \A c \in Calls : EntryFor(held[c], name[c])

(* Nobody stores between a leader's second look and its own store.         *)
NeedInv == \A c \in Calls :
             /\ pc[c] = "recheck" => held[c] = cache[name[c]]
             /\ pc[c] \in {"sign", "store"} => ~Fresh(cache[name[c]])

(* Calls meet their deadline.                                              *)
TimeInv == \A c \in Calls : pc[c] # "idle"
             => began[c] <= now /\ now <= began[c] + Timeout

(* A result is good to the end of the CA, or for d deadlines of the call.  *)
Good(c, d) == got[c] # Failed
    => /\ got[c].name = name[c]
       /\ got[c].notAfter = CAEnd \/ began[c] + d <= got[c].notAfter

ResultInv == \A c \in Calls :
               /\ pc[c] \in {"store", "finish"} => Good(c, 2 * Timeout)
               /\ pc[c] = "store" => got[c] # Failed
               /\ pc[c] = "return" => Good(c, Timeout)

IInv == TypeOK /\ FlightInv /\ CacheInv /\ NeedInv /\ TimeInv /\ ResultInv

LEMMA InitInv == Init => IInv
  BY NobodyAssumption, TimesAssumption
  DEF Init, IInv, TypeOK, FlightInv, CacheInv, NeedInv, TimeInv, ResultInv,
      EntryFor, Entries, PCs, Leading, Absent

(* Starting a call loads an entry and opens no flight. *)
LEMMA GetCertificateKeeps ==
    ASSUME IInv, NEW c \in Calls, GetCertificate(c) PROVE IInv'
  <1>1. TypeOK'
    BY DEF IInv, TypeOK, PCs, GetCertificate, Goto
  <1>2. FlightInv'
    BY NobodyAssumption DEF IInv, FlightInv, TypeOK, Leading,
        GetCertificate, Goto
  <1>3. CacheInv'
    BY DEF IInv, CacheInv, TypeOK, EntryFor, GetCertificate, Goto
  <1>4. NeedInv'
    BY NobodyAssumption DEF IInv, NeedInv, TypeOK, FlightInv, Leading,
        Fresh, GetCertificate, Goto
  <1>5. TimeInv'
    BY TimesAssumption DEF IInv, TimeInv, TypeOK, GetCertificate, Goto
  <1>6. ResultInv'
    BY TimesAssumption DEF IInv, ResultInv, TypeOK, TimeInv, Good,
        GetCertificate, Goto
  <1> QED BY <1>1, <1>2, <1>3, <1>4, <1>5, <1>6 DEF IInv

(* A hit within the margin is good for the call's own deadline. *)
LEMMA FirstCheckKeeps ==
    ASSUME IInv, NEW c \in Calls, FirstCheck(c) PROVE IInv'
  <1>1. TypeOK'
    BY DEF IInv, TypeOK, PCs, Entries, Fresh, FirstCheck, Goto, Check
  <1>2. FlightInv'
    BY NobodyAssumption DEF IInv, FlightInv, TypeOK, Leading, FirstCheck,
        Goto, Check
  <1>3. CacheInv'
    BY DEF IInv, CacheInv, TypeOK, EntryFor, FirstCheck, Goto, Check
  <1>4. NeedInv'
    BY NobodyAssumption DEF IInv, NeedInv, TypeOK, FlightInv, Leading,
        Fresh, FirstCheck, Goto, Check
  <1>5. TimeInv'
    BY TimesAssumption DEF IInv, TimeInv, TypeOK, FirstCheck, Goto, Check
  <1>6. ResultInv'
    BY TimesAssumption DEF IInv, ResultInv, TypeOK, TimeInv, Good, CacheInv,
        EntryFor, Fresh, Entries, Certs, FirstCheck, Goto, Check
  <1> QED BY <1>1, <1>2, <1>3, <1>4, <1>5, <1>6 DEF IInv

(* Joining or opening a flight. *)
LEMMA DoKeeps ==
    ASSUME IInv, NEW c \in Calls, Do(c) PROVE IInv'
  <1>1. TypeOK'
    BY DEF IInv, TypeOK, PCs, Do, Goto
  <1>2. FlightInv'
    BY NobodyAssumption DEF IInv, FlightInv, TypeOK, Leading, Do, Goto
  <1>3. CacheInv'
    BY DEF IInv, CacheInv, TypeOK, EntryFor, Do, Goto
  <1>4. NeedInv'
    BY NobodyAssumption DEF IInv, NeedInv, TypeOK, FlightInv, Leading,
        Fresh, Do, Goto
  <1>5. TimeInv'
    BY TimesAssumption DEF IInv, TimeInv, TypeOK, Do, Goto
  <1>6. ResultInv'
    BY TimesAssumption DEF IInv, ResultInv, TypeOK, TimeInv, Good, Do, Goto
  <1> QED BY <1>1, <1>2, <1>3, <1>4, <1>5, <1>6 DEF IInv

(* The leader's second look sees what stays in the cache until it stores. *)
LEMMA ReloadKeeps ==
    ASSUME IInv, NEW c \in Calls, Reload(c) PROVE IInv'
  <1>1. TypeOK'
    BY DEF IInv, TypeOK, PCs, Reload, Goto
  <1>2. FlightInv'
    BY NobodyAssumption DEF IInv, FlightInv, TypeOK, Leading, Reload, Goto
  <1>3. CacheInv'
    BY DEF IInv, CacheInv, TypeOK, EntryFor, Reload, Goto
  <1>4. NeedInv'
    BY NobodyAssumption DEF IInv, NeedInv, TypeOK, FlightInv, Leading,
        Fresh, Reload, Goto
  <1>5. TimeInv'
    BY TimesAssumption DEF IInv, TimeInv, TypeOK, Reload, Goto
  <1>6. ResultInv'
    BY TimesAssumption DEF IInv, ResultInv, TypeOK, TimeInv, Good, Reload,
        Goto
  <1> QED BY <1>1, <1>2, <1>3, <1>4, <1>5, <1>6 DEF IInv

(* A second look that hits is good for two deadlines. *)
LEMMA RecheckKeeps ==
    ASSUME IInv, NEW c \in Calls, Recheck(c) PROVE IInv'
  <1>1. TypeOK'
    BY DEF IInv, TypeOK, PCs, Entries, Fresh, Recheck, Goto, Check
  <1>2. FlightInv'
    BY NobodyAssumption DEF IInv, FlightInv, TypeOK, Leading, Recheck, Goto,
        Check
  <1>3. CacheInv'
    BY DEF IInv, CacheInv, TypeOK, EntryFor, Absent, Recheck, Goto, Check
  <1>4. NeedInv'
    BY NobodyAssumption DEF IInv, NeedInv, TypeOK, FlightInv, Leading,
        Fresh, Recheck, Goto, Check
  <1>5. TimeInv'
    BY TimesAssumption DEF IInv, TimeInv, TypeOK, Recheck, Goto, Check
  <1>6. ResultInv'
    BY TimesAssumption DEF IInv, ResultInv, TypeOK, TimeInv, Good, CacheInv,
        EntryFor, Fresh, Entries, Certs, Recheck, Goto, Check
  <1> QED BY <1>1, <1>2, <1>3, <1>4, <1>5, <1>6 DEF IInv

(* A new certificate is good for two deadlines or to the end of the CA. *)
LEMMA SignKeeps ==
    ASSUME IInv, NEW c \in Calls, Sign(c) PROVE IInv'
  <1>1. TypeOK'
    BY TimesAssumption DEF IInv, TypeOK, PCs, Certs, Sign, Goto, NotAfter
  <1>2. FlightInv'
    BY NobodyAssumption DEF IInv, FlightInv, TypeOK, Leading, Sign, Goto,
        NotAfter
  <1>3. CacheInv'
    BY DEF IInv, CacheInv, TypeOK, EntryFor, Sign, Goto, NotAfter
  <1>4. NeedInv'
    BY NobodyAssumption DEF IInv, NeedInv, TypeOK, FlightInv, Leading,
        Fresh, Sign, Goto, NotAfter
  <1>5. TimeInv'
    BY TimesAssumption DEF IInv, TimeInv, TypeOK, Sign, Goto, NotAfter
  <1>6. ResultInv'
    BY TimesAssumption DEF IInv, ResultInv, TypeOK, TimeInv, Good, Failed,
        Sign, Goto, NotAfter
  <1> QED BY <1>1, <1>2, <1>3, <1>4, <1>5, <1>6 DEF IInv

(* Only the leader of a name stores under it. *)
LEMMA StoreKeeps ==
    ASSUME IInv, NEW c \in Calls, Store(c) PROVE IInv'
  <1>1. TypeOK'
    BY TimesAssumption DEF IInv, TypeOK, PCs, ResultInv, Entries, Certs,
        Store, Goto
  <1>2. FlightInv'
    BY NobodyAssumption DEF IInv, FlightInv, TypeOK, Leading, Store, Goto
  <1>3. CacheInv'
    BY TimesAssumption, NobodyAssumption DEF IInv, CacheInv, TypeOK,
        EntryFor, ResultInv, Good, FlightInv, Leading, Absent, Entries,
        Certs, Store, Goto
  <1>4. NeedInv'
    BY NobodyAssumption DEF IInv, NeedInv, TypeOK, FlightInv, Leading,
        Fresh, Store, Goto
  <1>5. TimeInv'
    BY TimesAssumption DEF IInv, TimeInv, TypeOK, Store, Goto
  <1>6. ResultInv'
    BY TimesAssumption DEF IInv, ResultInv, TypeOK, TimeInv, Good, Store,
        Goto
  <1> QED BY <1>1, <1>2, <1>3, <1>4, <1>5, <1>6 DEF IInv

(* Those that wait began before the leader's deadline. *)
LEMMA FinishKeeps ==
    ASSUME IInv, NEW c \in Calls, Finish(c) PROVE IInv'
  <1>1. TypeOK'
    BY DEF IInv, TypeOK, PCs, Finish, Served
  <1>2. FlightInv'
    BY NobodyAssumption DEF IInv, FlightInv, TypeOK, Leading, Finish, Served
  <1>3. CacheInv'
    BY DEF IInv, CacheInv, TypeOK, EntryFor, Finish, Served
  <1>4. NeedInv'
    BY NobodyAssumption DEF IInv, NeedInv, TypeOK, FlightInv, Leading,
        Fresh, Finish, Served
  <1>5. TimeInv'
    BY TimesAssumption DEF IInv, TimeInv, TypeOK, Finish, Served
  <1>6. ResultInv'
    BY TimesAssumption, NobodyAssumption DEF IInv, ResultInv, TypeOK,
        TimeInv, Good, FlightInv, Leading, Certs, Failed, Finish, Served
  <1> QED BY <1>1, <1>2, <1>3, <1>4, <1>5, <1>6 DEF IInv

(* A call ends. *)
LEMMA ReturnKeeps ==
    ASSUME IInv, NEW c \in Calls, Return(c) PROVE IInv'
  <1>1. TypeOK'
    BY TimesAssumption DEF IInv, TypeOK, PCs, Return, Goto
  <1>2. FlightInv'
    BY NobodyAssumption DEF IInv, FlightInv, TypeOK, Leading, Return, Goto
  <1>3. CacheInv'
    BY DEF IInv, CacheInv, TypeOK, EntryFor, Return, Goto
  <1>4. NeedInv'
    BY NobodyAssumption DEF IInv, NeedInv, TypeOK, FlightInv, Leading,
        Fresh, Return, Goto
  <1>5. TimeInv'
    BY TimesAssumption DEF IInv, TimeInv, TypeOK, Return, Goto
  <1>6. ResultInv'
    BY TimesAssumption DEF IInv, ResultInv, TypeOK, TimeInv, Good, Return,
        Goto
  <1> QED BY <1>1, <1>2, <1>3, <1>4, <1>5, <1>6 DEF IInv

(* The clock stops at the deadline of a call under way. *)
LEMMA TickKeeps ==
    ASSUME IInv, Tick PROVE IInv'
  <1>1. TypeOK'
    BY TimesAssumption DEF IInv, TypeOK, PCs, Tick
  <1>2. FlightInv'
    BY NobodyAssumption DEF IInv, FlightInv, TypeOK, Leading, Tick
  <1>3. CacheInv'
    BY DEF IInv, CacheInv, TypeOK, EntryFor, Tick
  <1>4. NeedInv'
    BY TimesAssumption DEF IInv, NeedInv, TypeOK, FlightInv, Leading, Fresh,
        Entries, Absent, Tick
  <1>5. TimeInv'
    BY TimesAssumption DEF IInv, TimeInv, TypeOK, Tick
  <1>6. ResultInv'
    BY TimesAssumption DEF IInv, ResultInv, TypeOK, TimeInv, Good, Tick
  <1> QED BY <1>1, <1>2, <1>3, <1>4, <1>5, <1>6 DEF IInv

LEMMA NextKeeps == IInv /\ [Next]_vars => IInv'
  <1> SUFFICES ASSUME IInv, [Next]_vars PROVE IInv'
    OBVIOUS
  <1>1. CASE UNCHANGED vars
    BY <1>1 DEF vars, IInv, TypeOK, FlightInv, CacheInv, NeedInv, TimeInv,
                ResultInv, Good, Fresh
  <1>2. CASE Tick
    BY <1>2, TickKeeps
  <1>3. ASSUME NEW c \in Calls, GetCertificate(c) \/ Step(c) PROVE IInv'
    BY <1>3, GetCertificateKeeps, FirstCheckKeeps, DoKeeps, ReloadKeeps,
       RecheckKeeps, SignKeeps, StoreKeeps, FinishKeeps, ReturnKeeps DEF Step
  <1> QED BY <1>1, <1>2, <1>3 DEF Next

LEMMA Inductive == Spec => []IInv
  BY InitInv, NextKeeps, PTL DEF Spec

(* The certificate cache and the calls stay well-typed: every leaf ends    *)
(* with the CA at the latest (ca.go's cap on NotAfter).                    *)
THEOREM TypeCorrect == Spec => []TypeOK
  <1>1. IInv => TypeOK
    BY DEF IInv
  <1> QED BY <1>1, Inductive, PTL

(* A certificate that GetCertificate gives to a handshake is for its name  *)
(* and has not expired, as long as the CA has not, for the one that signs, *)
(* those that wait for it, and those that find it in the cache.            *)
THEOREM CertificatesValid == Spec => []ValidWhenUsed
  <1>1. IInv => ValidWhenUsed
    BY TimesAssumption
    DEF IInv, ValidWhenUsed, ResultInv, TimeInv, Good, TypeOK, Certs
  <1> QED BY <1>1, Inductive, PTL

(* For a name at most one call signs, and only while GetCertificate's      *)
(* cache has nothing for it that could be reused.                          *)
THEOREM SignsWhenNeeded == Spec => []SignsOnlyWhenNeeded
  <1>1. IInv => SignsOnlyWhenNeeded
    BY DEF IInv, SignsOnlyWhenNeeded, NeedInv, FlightInv, Leading, TypeOK
  <1> QED BY <1>1, Inductive, PTL
=============================================================================
