---------------------------- MODULE ProxyProofs -----------------------------
(***************************************************************************)
(* Proofs about policies and the proxy, for every set of rules, requests,  *)
(* responses and concurrent connections.                                   *)
(***************************************************************************)
EXTENDS Proxy, WellFoundedInduction, TLAPS

-----------------------------------------------------------------------------
(* Policies *)

LEMMA LeastNatural ==
  ASSUME NEW S, S \subseteq Nat, S # {}
  PROVE  \E i \in S : \A j \in S : i <= j
<1> DEFINE R == {ss \in Nat \X Nat : ss[1] < ss[2]}
<1>1. IsWellFoundedOn(R, Nat)
  BY NatLessThanWellFounded, Zenon DEF OpToRel
<1>2. \E i \in S : \A j \in S : ~(<<j, i>> \in R)
  BY <1>1, WFMin
<1>3. PICK i \in S : \A j \in S : ~(<<j, i>> \in R)
  BY <1>2
<1>4. \A j \in S : i <= j
  <2> TAKE j \in S
  <2>1. i \in Nat /\ j \in Nat /\ <<j, i>> \notin R
    BY <1>3
  <2>2. ~(j < i)
    BY <2>1
  <2> QED
    BY <2>1, <2>2
<1> QED
  BY <1>4

\* A rule that Match returns is the first one in the list that applies.
LEMMA FirstMatch ==
  ASSUME NEW rules, NEW pod, NEW host, NEW port, NEW method, NEW path,
         DOMAIN rules \subseteq Nat,
         Match(rules, pod, host, port, method, path) # NoRule
  PROVE  \E i \in DOMAIN rules :
           /\ Match(rules, pod, host, port, method, path) = rules[i]
           /\ Applies(rules[i], pod, host, port, method, path)
           /\ \A j \in DOMAIN rules : Applies(rules[j], pod, host, port, method, path) => i <= j
<1> DEFINE hits == {i \in DOMAIN rules : Applies(rules[i], pod, host, port, method, path)}
           first == CHOOSE i \in hits : \A j \in hits : i <= j
<1>1. hits # {} /\ Match(rules, pod, host, port, method, path) = rules[first]
  BY DEF Match
<1>2. \E i \in hits : \A j \in hits : i <= j
  BY <1>1, LeastNatural
<1>3. first \in hits /\ \A j \in hits : first <= j
  BY <1>2
<1> QED
  BY <1>1, <1>3

\* What Match caches passes the two gates before it: the pod is covered, so its
\* traffic reaches the proxy, and its TLS connection to the host is terminated.
THEOREM GatesPass ==
  ASSUME NEW rules, NEW pod, NEW host, NEW port, NEW method, NEW path,
         Match(rules, pod, host, port, method, path) # NoRule
  PROVE  Covered(rules, pod) /\ HasRuleForHostPort(rules, host, port)
<1>1. \E i \in DOMAIN rules : Applies(rules[i], pod, host, port, method, path)
  BY DEF Match
<1> QED
  BY <1>1 DEF Applies, Covered, HasRuleForHostPort

-----------------------------------------------------------------------------
(* The steps of a handler on an accepted connection *)

Step(h) ==
  \/ Splice(h) \/ Handshake(h) \/ Hangup(h)
  \/ \E r \in Requests : Receive(h, r)
  \/ Forward(h) \/ Lookup(h) \/ CacheGet(h) \/ ReplyHit(h)
  \/ FetchEntry(h) \/ FetchOther(h)
  \/ DecideBypass(h) \/ DecideStore(h) \/ DropOld(h) \/ Store(h)

Connected == pc \in [Handlers -> PC] /\ conn \in [Handlers -> Conns \cup {Nothing}]

\* A step moves its own handler only, and never into a splice.
LEMMA StepShape ==
  ASSUME Connected, NEW h \in Handlers, Step(h)
  PROVE  /\ Connected'
         /\ pc'[h] # "splice"
         /\ \A g \in Handlers \ {h} : pc'[g] = pc[g]
<1>1. \E l \in PC \ {"splice"} : Goto(h, l)
  <2>1. ASSUME Finish(h) PROVE \E l \in PC \ {"splice"} : Goto(h, l)
    BY <2>1 DEF Finish, PC
  <2>2. ASSUME Splice(h) \/ Handshake(h) \/ Hangup(h) PROVE \E l \in PC \ {"splice"} : Goto(h, l)
    BY <2>2 DEF Splice, Handshake, Hangup, Close, PC
  <2>3. ASSUME NEW r \in Requests, Receive(h, r) PROVE \E l \in PC \ {"splice"} : Goto(h, l)
    BY <2>3 DEF Receive, PC
  <2> QED
    BY <2>1, <2>2, <2>3 DEF Step, Forward, Lookup, CacheGet, ReplyHit, FetchEntry, FetchOther,
       DecideBypass, DecideStore, DropOld, Store, PC
<1>2. conn' = conn \/ conn' = [conn EXCEPT ![h] = Nothing]
  <2>1. ASSUME Finish(h) PROVE conn' = conn \/ conn' = [conn EXCEPT ![h] = Nothing]
    BY <2>1 DEF Finish, Connected
  <2> QED
    BY <2>1 DEF Step, Splice, Handshake, Hangup, Close, Receive, Forward, Lookup, CacheGet, ReplyHit,
       FetchEntry, FetchOther, DecideBypass, DecideStore, DropOld, Store, local
<1> QED
  BY <1>1, <1>2 DEF Connected, Goto

\* A TLS connection is spliced only if nothing it carries could be cached.
THEOREM SplicingLosesNothing == Spec => SplicedUncacheable
<1> DEFINE Uncacheable(h) ==
      pc[h] = "idle" /\ pc'[h] = "splice" /\ HasCA =>
        LET c == conn'[h]
        IN  \A r \in Requests :
              c.sni \notin {NoSNI, NoHost} => Match(policy, c, c.sni, c.port, r.method, r.path) = NoRule
<1>1. Init => Connected
  BY DEF Init, PC, Connected
<1>2. ASSUME Connected, [Next]_vars
      PROVE  Connected' /\ [\A h \in Handlers : Uncacheable(h)]_vars
  <2>1. CASE UNCHANGED vars
    BY <1>2, <2>1 DEF vars, local, Connected
  <2>2. CASE \E h \in Handlers, c \in Conns : Accept(h, c)
    <3> PICK h \in Handlers, c \in Conns : Accept(h, c)
      BY <2>2
    <3>1. Connected'
      BY <1>2 DEF Accept, Goto, PC, Connected
    <3>2. Uncacheable(h)
      BY <1>2, GatesPass DEF Accept, Goto, Connected
    <3>3. \A g \in Handlers \ {h} : pc'[g] = pc[g]
      BY <1>2 DEF Accept, Goto, Connected
    <3> QED
      BY <3>1, <3>2, <3>3
  <2>3. CASE \E h \in Handlers : Step(h)
    BY <1>2, <2>3, StepShape
  <2>4. CASE UNCHANGED <<pc, conn>>
    BY <1>2, <2>4 DEF Connected
  <2> QED
    BY <1>2, <2>1, <2>2, <2>3, <2>4
    DEF Next, Step, SetPolicy, Evict, Tick, local
<1> QED
  BY <1>1, <1>2, PTL DEF Spec, SplicedUncacheable

-----------------------------------------------------------------------------
(* Variants *)

\* What upstream gets is what was received, but for its Connection header.
LEMMA SentSame ==
  ASSUME NEW r \in Requests, NEW c
  PROVE  LET q == WithHost(r, c)
         IN  /\ Sent(q).host = q.host /\ Sent(q).method = q.method /\ Sent(q).path = q.path
             /\ Sent(q).query = q.query /\ Sent(q).body = q.body /\ Sent(q).cc = q.cc
             /\ \A n \in DOMAIN Canon : n # "Connection" => Sent(q).hdr[n] = q.hdr[n]
<1> DEFINE q == WithHost(r, c)
<1>1. /\ DOMAIN q = {"host", "method", "path", "query", "body", "size", "hdr", "cc", "keep"}
      /\ DOMAIN q.hdr = DOMAIN Canon
  BY RequestsAssumption DEF WithHost
<1> HIDE DEF q
<1> QED
  BY <1>1 DEF Sent, q

LEMMA VaryNames ==
  ASSUME NEW r \in Received, NEW a \in Answers(r)
  PROVE  Get(a.vary, {}) \subseteq VariesBy(a) /\ VariesBy(a) \subseteq DOMAIN Canon
<1>1. a.vary \in Seq(SUBSET DOMAIN Canon)
  BY AnswersAssumption
<1>2. a.vary # <<>> => 1 \in DOMAIN a.vary
  BY <1>1
<1>3. \A i \in DOMAIN a.vary : a.vary[i] \subseteq DOMAIN Canon
  BY <1>1
<1> QED
  BY <1>2, <1>3 DEF Get, VariesBy

\* Header.Get sees every header name that a response varies by.
OneVaryLine == \A r \in Received : \A a \in Answers(r) : Get(a.vary, {}) = VariesBy(a)

\* Key k was generated from a request r to a port, with some header names.
KeyOf(k, r, port) ==
  /\ k.base = BaseKey(r, port).base
  /\ \A pair \in k.vary : pair[2] = r.hdr[Canon[pair[1]]]

\* Key k tells requests apart by the given header names.
Partitions(k, names) == \A n \in names : \E pair \in k.vary : Canon[pair[1]] = Canon[n]

FiledUnder(k, e) ==
  /\ MaxBody # 0
  /\ KeyOf(k, e.req, e.port)
  /\ Partitions(k, VariesBy(e.resp))
  /\ k.body # NoBody => k.body = e.req.body

LookedUp(h) ==
  /\ KeyOf(key[h], req[h], conn[h].port)
  /\ Partitions(key[h], rule[h].vary)
  /\ rule[h].cacheBody => key[h].body = Buffered(req[h])

\* The entry a handler has made of a response to its request.
Fetched(h) ==
  /\ MaxBody # 0
  /\ entry[h].resp \in Answers(req[h])
  /\ entry[h] = [req |-> Sent(req[h]), port |-> conn[h].port, dst |-> conn[h].dst, resp |-> entry[h].resp,
                 cachedAt |-> entry[h].cachedAt, ttl |-> entry[h].ttl]

Caching == {"lookup", "get", "hit", "fetch", "decide", "drop", "store"}

HandlerInv(h) ==
  /\ pc[h] = "ready" => conn[h] \in Conns
  /\ pc[h] = "handshake" => conn[h] \in Conns
  /\ pc[h] \in Caching \cup {"forward"} => conn[h] \in Conns
  /\ pc[h] \in Caching => req[h] \in Received /\ rule[h].vary \subseteq DOMAIN Canon
  /\ pc[h] \in {"get", "hit"} => LookedUp(h)
  /\ pc[h] = "hit" => FiledUnder(key[h], entry[h])
  /\ pc[h] \in {"decide", "drop", "store"} => Fetched(h)
  /\ pc[h] \in {"drop", "store"} => FiledUnder(storeKey[h], entry[h])

Shape ==
  /\ DOMAIN pc = Handlers /\ DOMAIN conn = Handlers /\ DOMAIN req = Handlers
  /\ DOMAIN rule = Handlers /\ DOMAIN key = Handlers
  /\ DOMAIN entry = Handlers /\ DOMAIN storeKey = Handlers

VariantInv ==
  /\ Shape
  /\ policy \in Policies
  /\ \A k \in DOMAIN store : FiledUnder(k, store[k])
  /\ \A h \in Handlers : HandlerInv(h)

\* Generate's keys are keys of their request and partition by the names given.
LEMMA Generated ==
  ASSUME NEW r, NEW port, NEW ib, NEW names
  PROVE  /\ KeyOf(Generate(r, port, ib, names), r, port)
         /\ Partitions(Generate(r, port, ib, names), names)
<1> DEFINE k == Generate(r, port, ib, names)
<1>1. /\ k.base = BaseKey(r, port).base
      /\ k.vary = {<<n, r.hdr[Canon[n]]>> : n \in names}
  BY DEF Generate, BaseKey
<1> HIDE DEF k
<1>2. KeyOf(k, r, port)
  BY <1>1 DEF KeyOf
<1>3. ASSUME NEW n \in names
      PROVE  \E pair \in k.vary : Canon[pair[1]] = Canon[n]
  <2>1. <<n, r.hdr[Canon[n]]>> \in k.vary
    BY <1>1
  <2> QED
    BY <2>1
<1> QED
  BY <1>2, <1>3 DEF Partitions, k

\* Merging names loses none of them, up to their spelling.
LEMMA Merged ==
  ASSUME NEW a, NEW b, NEW k, Partitions(k, mergeVaryHeaders(a, b))
  PROVE  /\ a \subseteq DOMAIN Canon => Partitions(k, a)
         /\ b \subseteq DOMAIN Canon => Partitions(k, b)
<1>1. CASE b = {}
  BY <1>1 DEF mergeVaryHeaders, Partitions
<1>2. CASE b # {}
  <2>1. ASSUME NEW n \in a \cup b, n \in DOMAIN Canon
        PROVE  Canon[n] \in mergeVaryHeaders(a, b) /\ Canon[Canon[n]] = Canon[n]
    BY <1>2, <2>1, CanonAssumption DEF mergeVaryHeaders, Canonical
  <2> QED
    BY <2>1 DEF Partitions
<1> QED
  BY <1>1, <1>2

\* Two requests filed and looked up under one key agree on all its headers.
LEMMA HitAgrees ==
  ASSUME NEW h \in Handlers, LookedUp(h), FiledUnder(key[h], entry[h])
  PROVE  /\ BaseKey(entry[h].req, entry[h].port) = BaseKey(req[h], conn[h].port)
         /\ \A n \in rule[h].vary \cup VariesBy(entry[h].resp) :
              entry[h].req.hdr[Canon[n]] = req[h].hdr[Canon[n]]
         /\ rule[h].cacheBody /\ req[h].body # NoBody => entry[h].req.body = req[h].body
<1>1. BaseKey(entry[h].req, entry[h].port) = BaseKey(req[h], conn[h].port)
  BY DEF LookedUp, FiledUnder, KeyOf, BaseKey, Generate
<1>2. ASSUME NEW n \in rule[h].vary \cup VariesBy(entry[h].resp)
      PROVE  entry[h].req.hdr[Canon[n]] = req[h].hdr[Canon[n]]
  BY DEF LookedUp, FiledUnder, KeyOf, Partitions
<1>3. rule[h].cacheBody /\ req[h].body # NoBody => entry[h].req.body = req[h].body
  BY MaxBodyAssumption DEF LookedUp, FiledUnder, Buffered
<1> QED
  BY <1>1, <1>2, <1>3

LEMMA VariantImplies == VariantInv => HitRightVariant
BY HitAgrees DEF VariantInv, HandlerInv, HitRightVariant

LEMMA VariantInit == Init => VariantInv
BY DEF Init, VariantInv, Shape, HandlerInv, Caching, EmptyStore

\* The other handlers do not notice what a handler does to itself.
LEMMA OthersKeep ==
  ASSUME NEW g \in Handlers, HandlerInv(g), pc'[g] = pc[g], conn'[g] = conn[g], req'[g] = req[g],
         rule'[g] = rule[g], key'[g] = key[g], entry'[g] = entry[g], storeKey'[g] = storeKey[g]
  PROVE  HandlerInv(g)'
BY DEF HandlerInv, LookedUp, FiledUnder, Fetched, KeyOf, Partitions

\* Steps that end a request or a connection.
LEMMA FinishKeeps ==
  ASSUME VariantInv, NEW h \in Handlers, Finish(h), pc[h] \in Caching \cup {"forward"}
  PROVE  Shape' /\ \A g \in Handlers : HandlerInv(g)'
<1>1. Shape'
  BY DEF VariantInv, Shape, Finish, Goto
<1>2. HandlerInv(h)'
  BY DEF VariantInv, Shape, HandlerInv, Finish, Goto, Caching
<1>3. ASSUME NEW g \in Handlers \ {h}
      PROVE  HandlerInv(g)'
  BY OthersKeep DEF VariantInv, Shape, Finish, Goto
<1> QED
  BY <1>1, <1>2, <1>3

LEMMA ConnectionKeeps ==
  ASSUME VariantInv, NEW h \in Handlers,
         (\E c \in Conns : Accept(h, c)) \/ Splice(h) \/ Handshake(h) \/ Hangup(h)
  PROVE  VariantInv'
<1> DEFINE Elsewhere == \A g \in Handlers \ {h} : pc'[g] = pc[g] /\ conn'[g] = conn[g]
           Open == pc'[h] \in {"ready", "handshake"} /\ conn'[h] \in Conns
           Shut == pc'[h] \in {"idle", "splice"}
<1>1. /\ UNCHANGED <<policy, store, req, rule, key, entry, storeKey>>
      /\ Shape' /\ Elsewhere /\ (Open \/ Shut)
  <2>1. CASE \E c \in Conns : Accept(h, c)
    BY <2>1 DEF Accept, shared, Goto, VariantInv, Shape
  <2>2. ASSUME Close(h)
        PROVE  /\ UNCHANGED <<policy, store, req, rule, key, entry, storeKey>>
               /\ Shape' /\ Elsewhere /\ (Open \/ Shut)
    BY <2>2 DEF Close, shared, Goto, VariantInv, Shape
  <2>3. CASE Splice(h) \/ Hangup(h)
    BY <2>2, <2>3 DEF Splice, Hangup
  <2>4. CASE Handshake(h)
    BY <2>2, <2>4 DEF Handshake, shared, local, Goto, VariantInv, Shape, HandlerInv
  <2> QED
    BY <2>1, <2>3, <2>4
<1>2. HandlerInv(h)'
  BY <1>1 DEF HandlerInv, Caching
<1>3. ASSUME NEW g \in Handlers \ {h}
      PROVE  HandlerInv(g)'
  BY <1>1, OthersKeep DEF VariantInv
<1> QED
  BY <1>1, <1>2, <1>3 DEF VariantInv, FiledUnder, KeyOf, Partitions

LEMMA ReceiveKeeps ==
  ASSUME VariantInv, NEW h \in Handlers, NEW r \in Requests, Receive(h, r)
  PROVE  VariantInv'
<1> DEFINE c == conn[h]
           q == WithHost(r, c)
           ru == Match(policy, c, HostName(q, c), c.port, q.method, q.path)
<1>1. c \in Conns /\ q \in Received
  BY DEF Receive, VariantInv, HandlerInv, Received
<1>2. ru # NoRule => ru.vary \subseteq DOMAIN Canon
  <2> SUFFICES ASSUME ru # NoRule PROVE ru.vary \subseteq DOMAIN Canon
    OBVIOUS
  <2>1. DOMAIN policy \subseteq Nat
    BY PoliciesAssumption DEF VariantInv
  <2>2. PICK i \in DOMAIN policy : ru = policy[i]
    BY <2>1, FirstMatch
  <2> QED
    BY <2>2, PoliciesAssumption DEF VariantInv
<1>3. /\ pc[h] = "ready"
      /\ req' = [req EXCEPT ![h] = q]
      /\ rule' = [rule EXCEPT ![h] = ru]
      /\ pc' = [pc EXCEPT ![h] = "forward"] \/ (pc' = [pc EXCEPT ![h] = "lookup"] /\ ru # NoRule)
      /\ UNCHANGED <<policy, store, conn, key, entry, storeKey>>
  BY DEF Receive, Goto, shared
<1> HIDE DEF q, ru
<1>4. Shape'
  BY <1>3 DEF VariantInv, Shape
<1>5. HandlerInv(h)'
  BY <1>1, <1>2, <1>3 DEF VariantInv, Shape, HandlerInv, Caching
<1>6. ASSUME NEW g \in Handlers \ {h}
      PROVE  HandlerInv(g)'
  BY <1>3, OthersKeep DEF VariantInv, Shape
<1> QED
  BY <1>3, <1>4, <1>5, <1>6 DEF VariantInv, FiledUnder, KeyOf, Partitions

LEMMA LookupKeeps ==
  ASSUME VariantInv, NEW h \in Handlers, Lookup(h)
  PROVE  VariantInv'
<1> DEFINE names == mergeVaryHeaders(rule[h].vary, lookupVaryIndex(BaseKey(req[h], conn[h].port)))
           k == Generate(req[h], conn[h].port, rule[h].cacheBody, names)
<1>1. /\ pc[h] = "lookup"
      /\ key' = [key EXCEPT ![h] = k]
      /\ pc' = [pc EXCEPT ![h] = "fetch"] \/ pc' = [pc EXCEPT ![h] = "get"]
      /\ UNCHANGED <<policy, store, conn, req, rule, entry, storeKey>>
  BY DEF Lookup, LookupKey, Goto, shared
<1>2. KeyOf(k, req[h], conn[h].port) /\ Partitions(k, names)
  BY Generated
<1>3. Partitions(k, rule[h].vary)
  BY <1>1, <1>2, Merged DEF VariantInv, HandlerInv, Caching
<1>4. rule[h].cacheBody => k.body = Buffered(req[h])
  BY DEF Generate
<1> HIDE DEF k, names
<1>5. Shape' /\ key'[h] = k
  BY <1>1 DEF VariantInv, Shape
<1>6. LookedUp(h)'
  BY <1>1, <1>2, <1>3, <1>4, <1>5 DEF LookedUp, KeyOf, Partitions
<1>7. HandlerInv(h)'
  BY <1>1, <1>6 DEF VariantInv, Shape, HandlerInv, Caching
<1>8. ASSUME NEW g \in Handlers \ {h}
      PROVE  HandlerInv(g)'
  BY <1>1, OthersKeep DEF VariantInv, Shape
<1> QED
  BY <1>1, <1>5, <1>7, <1>8 DEF VariantInv, FiledUnder, KeyOf, Partitions

LEMMA CacheGetKeeps ==
  ASSUME VariantInv, NEW h \in Handlers, CacheGet(h)
  PROVE  VariantInv'
<1>1. /\ pc[h] = "get"
      /\ UNCHANGED <<policy, conn, req, rule, key, storeKey>>
      /\ \/ /\ key[h] \in DOMAIN store
            /\ entry' = [entry EXCEPT ![h] = store[key[h]]]
            /\ pc' = [pc EXCEPT ![h] = "hit"]
            /\ store' = store
         \/ /\ store' = Without(store, key[h]) \/ store' = store
            /\ pc' = [pc EXCEPT ![h] = "fetch"]
            /\ entry' = entry
  BY DEF CacheGet, Goto
<1>2. Shape'
  BY <1>1 DEF VariantInv, Shape
<1>3. \A k \in DOMAIN store' : FiledUnder(k, store'[k])
  BY <1>1 DEF VariantInv, Without, Restrict
<1>4. HandlerInv(h)'
  BY <1>1 DEF VariantInv, Shape, HandlerInv, Caching, LookedUp, FiledUnder, KeyOf, Partitions
<1>5. ASSUME NEW g \in Handlers \ {h}
      PROVE  HandlerInv(g)'
  BY <1>1, OthersKeep DEF VariantInv, Shape
<1> QED
  BY <1>1, <1>2, <1>3, <1>4, <1>5 DEF VariantInv, FiledUnder, KeyOf, Partitions

LEMMA FetchKeeps ==
  ASSUME VariantInv, NEW h \in Handlers, FetchEntry(h)
  PROVE  VariantInv'
<1>1. PICK a \in Answers(req[h]) :
        /\ MaxBody # 0
        /\ entry' = [entry EXCEPT ![h] = [req |-> Sent(req[h]), port |-> conn[h].port, dst |-> conn[h].dst,
                                          resp |-> a, cachedAt |-> now, ttl |-> 0]]
  BY DEF FetchEntry
<1>2. /\ pc[h] = "fetch"
      /\ pc' = [pc EXCEPT ![h] = "decide"]
      /\ UNCHANGED <<policy, store, conn, req, rule, key, storeKey>>
  BY DEF FetchEntry, Goto, shared
<1>3. Shape'
  BY <1>1, <1>2 DEF VariantInv, Shape
<1>4. Fetched(h)'
  BY <1>1, <1>2 DEF VariantInv, Shape, Fetched
<1>5. HandlerInv(h)'
  BY <1>2, <1>4 DEF VariantInv, Shape, HandlerInv, Caching
<1>6. ASSUME NEW g \in Handlers \ {h}
      PROVE  HandlerInv(g)'
  BY <1>1, <1>2, OthersKeep DEF VariantInv, Shape
<1> QED
  BY <1>2, <1>3, <1>5, <1>6 DEF VariantInv, FiledUnder, KeyOf, Partitions

\* The key a response is stored under partitions by the whole of its Vary.
LEMMA DecideStoreKeeps ==
  ASSUME OneVaryLine, VariantInv, NEW h \in Handlers, DecideStore(h)
  PROVE  VariantInv'
<1> DEFINE resp == entry[h].resp
           allVary == mergeVaryHeaders(rule[h].vary, parseVaryHeader(Get(resp.vary, {})))
           k == Generate(Sent(req[h]), conn[h].port, rule[h].cacheBody, allVary)
           t == cacheControlTTL(Directives(resp.cc), rule[h].ttl)
<1>1. /\ pc[h] = "decide" /\ ~Bypass(h)
      /\ storeKey' = [storeKey EXCEPT ![h] = k]
      /\ entry' = [entry EXCEPT ![h].ttl = t]
      /\ pc' = [pc EXCEPT ![h] = "drop"] \/ pc' = [pc EXCEPT ![h] = "store"]
      /\ UNCHANGED <<policy, store, conn, req, rule, key>>
  BY DEF DecideStore, Goto
<1>2. Fetched(h) /\ resp \in Answers(req[h]) /\ req[h] \in Received
  BY <1>1 DEF VariantInv, HandlerInv, Fetched, Caching
<1>3. VariesBy(resp) \subseteq DOMAIN Canon /\ parseVaryHeader(Get(resp.vary, {})) = Canonical(VariesBy(resp))
  <2>1. Get(resp.vary, {}) = VariesBy(resp) /\ VariesBy(resp) \subseteq DOMAIN Canon
    BY <1>2, VaryNames DEF OneVaryLine
  <2>2. Get(resp.vary, {}) # {"*"}
    BY <1>1 DEF Bypass
  <2> QED
    BY <2>1, <2>2 DEF parseVaryHeader
<1>4. KeyOf(k, Sent(req[h]), conn[h].port) /\ Partitions(k, allVary)
  BY Generated
<1>5. Partitions(k, VariesBy(resp))
  <2>1. Canonical(VariesBy(resp)) \subseteq DOMAIN Canon
    BY <1>3, CanonAssumption DEF Canonical
  <2>2. Partitions(k, Canonical(VariesBy(resp)))
    BY <1>3, <1>4, <2>1, Merged
  <2> QED
    BY <1>3, <2>2, CanonAssumption DEF Partitions, Canonical
<1>6. k.body # NoBody => k.body = Sent(req[h]).body
  BY DEF Generate, Buffered
<1> HIDE DEF k, t, allVary
<1>7. /\ Shape'
      /\ storeKey'[h] = k
      /\ entry'[h] = [req |-> Sent(req[h]), port |-> conn[h].port, dst |-> conn[h].dst, resp |-> resp,
                      cachedAt |-> entry[h].cachedAt, ttl |-> t]
  BY <1>1, <1>2 DEF VariantInv, Shape, Fetched
<1>8. Fetched(h)'
  BY <1>1, <1>2, <1>7 DEF Fetched
<1>9. FiledUnder(storeKey'[h], entry'[h])
  BY <1>2, <1>4, <1>5, <1>6, <1>7 DEF FiledUnder, Fetched
<1>10. HandlerInv(h)'
  <2>1. FiledUnder(storeKey[h], entry[h])'
    BY <1>9 DEF FiledUnder, KeyOf, Partitions
  <2> QED
    BY <1>1, <1>8, <2>1 DEF VariantInv, Shape, HandlerInv, Caching
<1>11. ASSUME NEW g \in Handlers \ {h}
       PROVE  HandlerInv(g)'
  BY <1>1, OthersKeep DEF VariantInv, Shape
<1> QED
  BY <1>1, <1>7, <1>10, <1>11 DEF VariantInv, FiledUnder, KeyOf, Partitions

LEMMA DropOldKeeps ==
  ASSUME VariantInv, NEW h \in Handlers, DropOld(h)
  PROVE  VariantInv'
<1>1. /\ pc[h] = "drop"
      /\ pc' = [pc EXCEPT ![h] = "store"]
      /\ store' = Without(store, key[h])
      /\ UNCHANGED <<policy, conn, req, rule, key, entry, storeKey>>
  BY DEF DropOld, Goto, local
<1>2. Shape'
  BY <1>1 DEF VariantInv, Shape
<1>3. \A k \in DOMAIN store' : FiledUnder(k, store'[k])
  BY <1>1 DEF VariantInv, Without, Restrict
<1>4. HandlerInv(h)'
  BY <1>1 DEF VariantInv, Shape, HandlerInv, Caching, Fetched, FiledUnder, KeyOf, Partitions
<1>5. ASSUME NEW g \in Handlers \ {h}
      PROVE  HandlerInv(g)'
  BY <1>1, OthersKeep DEF VariantInv, Shape
<1> QED
  BY <1>1, <1>2, <1>3, <1>4, <1>5 DEF VariantInv, FiledUnder, KeyOf, Partitions

\* Steps that end a request: all but Store leave the store alone.
LEMMA EndKeeps ==
  ASSUME VariantInv, NEW h \in Handlers,
         Forward(h) \/ ReplyHit(h) \/ FetchOther(h) \/ DecideBypass(h) \/ Store(h)
  PROVE  VariantInv'
<1>1. Finish(h) /\ pc[h] \in Caching \cup {"forward"} /\ policy' = policy
  BY DEF Forward, ReplyHit, FetchOther, DecideBypass, Store, Caching, shared
<1>2. Shape' /\ \A g \in Handlers : HandlerInv(g)'
  BY <1>1, FinishKeeps
<1>3. \A k \in DOMAIN store' : FiledUnder(k, store'[k])
  <2>1. CASE Store(h)
    <3>1. FiledUnder(storeKey[h], entry[h]) /\ store' = Extend(store, storeKey[h], entry[h])
      BY <2>1 DEF Store, VariantInv, HandlerInv
    <3> QED
      BY <3>1 DEF VariantInv, Extend
  <2>2. CASE store' = store
    BY <2>2 DEF VariantInv
  <2> QED
    BY <2>1, <2>2 DEF Forward, ReplyHit, FetchOther, DecideBypass, shared
<1> QED
  BY <1>1, <1>2, <1>3 DEF VariantInv, FiledUnder, KeyOf, Partitions

LEMMA RestKeeps ==
  ASSUME VariantInv, (\E p \in Policies : SetPolicy(p)) \/ (\E k \in DOMAIN store : Evict(k)) \/ Tick \/ UNCHANGED vars
  PROVE  VariantInv'
<1>1. /\ policy' \in Policies
      /\ (\E k : store' = Without(store, k)) \/ store' = store
      /\ UNCHANGED <<pc, local>>
  BY DEF SetPolicy, Evict, Tick, vars, shared, VariantInv
<1>2. \A k \in DOMAIN store' : FiledUnder(k, store'[k])
  BY <1>1 DEF VariantInv, Without, Restrict
<1>3. Shape'
  BY <1>1 DEF VariantInv, Shape, local
<1>4. ASSUME NEW g \in Handlers
      PROVE  HandlerInv(g)'
  BY <1>1, OthersKeep DEF VariantInv, local
<1> QED
  BY <1>1, <1>2, <1>3, <1>4 DEF VariantInv, FiledUnder, KeyOf, Partitions

\* Provided that upstream puts its Vary names in one line, a request is never
\* answered with a response for another variant, whatever the policies and
\* however connections, policy changes and evictions interleave.
THEOREM RightVariant ==
  ASSUME OneVaryLine
  PROVE  Spec => []HitRightVariant
<1>1. ASSUME VariantInv, [Next]_vars
      PROVE  VariantInv'
  BY <1>1, ConnectionKeeps, ReceiveKeeps, LookupKeeps, CacheGetKeeps, FetchKeeps, DecideStoreKeeps,
     DropOldKeeps, EndKeeps, RestKeeps DEF Next
<1> QED
  BY <1>1, VariantInit, VariantImplies, PTL DEF Spec

-----------------------------------------------------------------------------
(* Entries: where they come from and what they may be *)

Rules == UNION {{p[i] : i \in DOMAIN p} : p \in Policies}

\* A rule that some policy had when request q arrived on connection c.
Matched(ru, q, c) == ru \in Rules /\ Applies(ru, c, HostName(q, c), c.port, q.method, q.path)

Serving == Caching \cup {"forward"}

\* An entry for a response to request q of connection c.
From(e, q, c) == e.req = Sent(q) /\ e.resp \in Answers(q) /\ e.port = c.port /\ e.dst = c.dst

\* An entry made of a response to a request that arrived on some connection.
Made(e) ==
  /\ \E c \in Conns, r \in Requests : From(e, WithHost(r, c), c)
  /\ e.resp.ok /\ e.resp.size <= MaxBody
  /\ e.cachedAt \in Nat /\ e.ttl \in Int
  /\ e = [req |-> e.req, port |-> e.port, dst |-> e.dst, resp |-> e.resp,
          cachedAt |-> e.cachedAt, ttl |-> e.ttl]

\* What the first line of each header lets the proxy store, and for how long.
Storable(e) ==
  /\ Get(e.resp.vary, {}) # {"*"}
  /\ ~NoStoreRequested(e.req)
  /\ responseCacheable(Directives(e.resp.cc))
  /\ \A s \in DeclaredAge(e.resp) : s \in Int /\ e.ttl <= s * Second

Kept(k, e) == Made(e) /\ Storable(e) /\ k.base = BaseKey(e.req, e.port).base

Answered(e, q, c) == Made(e) /\ From(e, q, c)

\* A handler at p, with connection c, request q, rule ru, lookup key k, entry e
\* and store key sk.
ServeOK(p, c, q, ru, k, e, sk) ==
  /\ p \in PC /\ c \in Conns \cup {Nothing}
  /\ c = Nothing <=> p = "idle"
  /\ p \in Serving => \E r \in Requests : q = WithHost(r, c)
  /\ p \in Caching => Matched(ru, q, c)
  /\ p \in {"get", "hit"} => k.base = BaseKey(q, c.port).base
  /\ p = "hit" => Kept(k, e)
  /\ p \in {"decide", "drop", "store"} => Answered(e, q, c)
  /\ p \in {"drop", "store"} => Kept(sk, e)

ServeInv(h) == ServeOK(pc[h], conn[h], req[h], rule[h], key[h], entry[h], storeKey[h])

IndexOK == \A base \in DOMAIN varyIndex : varyIndex[base] # {} /\ varyIndex[base] \subseteq DOMAIN Canon

EntryInv ==
  /\ Shape /\ Connected
  /\ policy \in Policies /\ now \in Nat /\ served \in Nat
  /\ IndexOK
  /\ \A k \in DOMAIN store : Kept(k, store[k])
  /\ \A h \in Handlers : ServeInv(h)

LEMMA MadeIsEntry == ASSUME NEW e, Made(e) PROVE e \in Entry
<1>1. PICK c \in Conns, r \in Requests : From(e, WithHost(r, c), c)
  BY DEF Made
<1>2. e.req \in {Sent(q) : q \in Received} /\ e.port \in {d.port : d \in Conns} /\ e.dst \in {d.dst : d \in Conns}
  BY <1>1 DEF Received, From
<1>3. e.resp \in UNION {Answers(r2) : r2 \in Received}
  BY <1>1 DEF Received, From
<1>4. /\ e.cachedAt \in Nat /\ e.ttl \in Int
      /\ e = [req |-> e.req, port |-> e.port, dst |-> e.dst, resp |-> e.resp,
              cachedAt |-> e.cachedAt, ttl |-> e.ttl]
  BY DEF Made
<1> QED
  BY <1>2, <1>3, <1>4 DEF Entry

LEMMA EntryType == EntryInv => TypeOK
<1> SUFFICES ASSUME EntryInv PROVE TypeOK
  OBVIOUS
<1>1. ASSUME NEW h \in Handlers
      PROVE  /\ pc[h] \in PC /\ conn[h] \in Conns \cup {Nothing}
             /\ conn[h] = Nothing <=> pc[h] = "idle"
             /\ pc[h] \notin {"idle", "splice", "handshake", "ready"} => req[h] \in Received
             /\ pc[h] \in {"hit", "decide", "drop", "store"} => entry[h] \in Entry
  <2>1. ServeOK(pc[h], conn[h], req[h], rule[h], key[h], entry[h], storeKey[h])
    BY DEF EntryInv, ServeInv
  <2>2. pc[h] \in {"hit", "decide", "drop", "store"} => entry[h] \in Entry
    BY <2>1, MadeIsEntry DEF ServeOK, Kept, Answered
  <2>3. pc[h] \in Serving => req[h] \in Received
    BY <2>1, NothingAssumption DEF ServeOK, Received, Serving, Caching
  <2> QED
    BY <2>1, <2>2, <2>3 DEF ServeOK, Serving, Caching, PC
<1>2. \A k \in DOMAIN store : store[k] \in Entry
  BY MadeIsEntry DEF EntryInv, Kept
<1> QED
  BY <1>1, <1>2 DEF EntryInv, Connected, IndexOK, TypeOK

LEMMA EntryInit == Init => EntryInv
<1> SUFFICES ASSUME Init PROVE EntryInv
  OBVIOUS
<1>1. \A h \in Handlers : ServeInv(h)
  BY DEF Init, ServeInv, ServeOK, PC, Serving, Caching
<1> QED
  BY <1>1 DEF Init, EntryInv, Shape, Connected, PC, IndexOK, EmptyStore

\* What a handler does leaves the others where they are.
LEMMA Frame ==
  ASSUME Shape, NEW h \in Handlers, (\E c \in Conns : Accept(h, c)) \/ Step(h)
  PROVE  /\ Shape'
         /\ \A g \in Handlers \ {h} :
              /\ pc'[g] = pc[g] /\ conn'[g] = conn[g] /\ req'[g] = req[g] /\ rule'[g] = rule[g]
              /\ key'[g] = key[g] /\ entry'[g] = entry[g] /\ storeKey'[g] = storeKey[g]
<1> DEFINE Goal == /\ Shape'
                   /\ \A g \in Handlers \ {h} :
                        /\ pc'[g] = pc[g] /\ conn'[g] = conn[g] /\ req'[g] = req[g] /\ rule'[g] = rule[g]
                        /\ key'[g] = key[g] /\ entry'[g] = entry[g] /\ storeKey'[g] = storeKey[g]
<1>1. ASSUME Finish(h) PROVE Goal
  BY <1>1 DEF Finish, Goto, Shape
<1>2. ASSUME Close(h) PROVE Goal
  BY <1>2 DEF Close, Goto, Shape
<1>3. ASSUME NEW c \in Conns, Accept(h, c) PROVE Goal
  BY <1>3 DEF Accept, Goto, Shape
<1>4. CASE Handshake(h)
  BY <1>2, <1>4 DEF Handshake, Goto, Shape, local
<1>5. ASSUME NEW r \in Requests, Receive(h, r) PROVE Goal
  BY <1>5 DEF Receive, Goto, Shape
<1>6. CASE Lookup(h)
  BY <1>6 DEF Lookup, Goto, Shape
<1>7. CASE CacheGet(h)
  BY <1>7 DEF CacheGet, Goto, Shape
<1>8. CASE FetchEntry(h)
  BY <1>8 DEF FetchEntry, Goto, Shape
<1>9. CASE DecideStore(h)
  BY <1>9 DEF DecideStore, Goto, Shape
<1>10. CASE DropOld(h)
  BY <1>10 DEF DropOld, Goto, Shape, local
<1>11. CASE Splice(h) \/ Hangup(h)
  BY <1>2, <1>11 DEF Splice, Hangup
<1>12. CASE Forward(h) \/ ReplyHit(h) \/ FetchOther(h) \/ DecideBypass(h) \/ Store(h)
  BY <1>1, <1>12 DEF Forward, ReplyHit, FetchOther, DecideBypass, Store
<1> QED
  BY <1>3, <1>4, <1>5, <1>6, <1>7, <1>8, <1>9, <1>10, <1>11, <1>12 DEF Step

\* A handler that a step does not concern keeps its invariant.
LEMMA OthersServe ==
  ASSUME EntryInv, NEW h \in Handlers, (\E c \in Conns : Accept(h, c)) \/ Step(h)
  PROVE  Shape' /\ Connected' /\ \A g \in Handlers \ {h} : ServeInv(g)'
<1>1. Shape' /\ \A g \in Handlers \ {h} : ServeInv(g)'
  BY Frame DEF EntryInv, ServeInv
<1>2. Connected'
  <2>1. CASE \E c \in Conns : Accept(h, c)
    BY <2>1 DEF Accept, Goto, PC, EntryInv, Connected
  <2> QED
    BY <2>1, StepShape DEF EntryInv
<1> QED
  BY <1>1, <1>2

LEMMA ServeKept ==
  ASSUME EntryInv, NEW h \in Handlers, (\E c \in Conns : Accept(h, c)) \/ Step(h),
         ServeInv(h)', UNCHANGED <<policy, now>>, served' \in Nat, IndexOK',
         \A k \in DOMAIN store' : Kept(k, store'[k])
  PROVE  EntryInv'
BY OthersServe DEF EntryInv

\* A handler between requests, with its connection open or closed.
LEMMA Between ==
  ASSUME NEW c, NEW p \in {"idle", "splice", "handshake", "ready"}, NEW q, NEW ru, NEW k, NEW e, NEW sk,
         IF p = "idle" THEN c = Nothing ELSE c \in Conns
  PROVE  ServeOK(p, c, q, ru, k, e, sk)
BY NothingAssumption DEF ServeOK, PC, Serving, Caching

LEMMA ServeConnection ==
  ASSUME EntryInv, NEW h \in Handlers,
         (\E c \in Conns : Accept(h, c)) \/ Splice(h) \/ Handshake(h) \/ Hangup(h)
  PROVE  EntryInv'
<1>1. ServeOK(pc[h], conn[h], req[h], rule[h], key[h], entry[h], storeKey[h])
  BY DEF EntryInv, ServeInv
<1>2. UNCHANGED <<shared, served>>
  BY DEF Accept, Splice, Handshake, Hangup, Close
<1>3. /\ pc'[h] \in {"idle", "splice", "handshake", "ready"}
      /\ IF pc'[h] = "idle" THEN conn'[h] = Nothing ELSE conn'[h] \in Conns
  <2>1. ASSUME Close(h) PROVE pc'[h] = "idle" /\ conn'[h] = Nothing
    BY <2>1 DEF Close, Goto, EntryInv, Shape
  <2>2. CASE \E c \in Conns : Accept(h, c)
    BY <2>2 DEF Accept, Goto, EntryInv, Shape
  <2>3. CASE Handshake(h) /\ ~Close(h)
    BY <1>1, <2>3 DEF Handshake, Goto, local, EntryInv, Shape, ServeOK
  <2> QED
    BY <2>1, <2>2, <2>3 DEF Splice, Handshake, Hangup
<1>4. ServeInv(h)'
  BY <1>3, Between DEF ServeInv
<1> QED
  BY <1>2, <1>4, ServeKept DEF Step, shared, EntryInv, IndexOK

LEMMA ServeReceive ==
  ASSUME EntryInv, NEW h \in Handlers, NEW r \in Requests, Receive(h, r)
  PROVE  EntryInv'
<1> DEFINE c == conn[h]
           q == WithHost(r, c)
           ru == Match(policy, c, HostName(q, c), c.port, q.method, q.path)
<1>1. ServeOK(pc[h], conn[h], req[h], rule[h], key[h], entry[h], storeKey[h])
  BY DEF EntryInv, ServeInv
<1>2. ru # NoRule => Matched(ru, q, c)
  <2>1. DOMAIN policy \subseteq Nat
    BY PoliciesAssumption DEF EntryInv
  <2> QED
    BY <2>1, FirstMatch DEF EntryInv, Matched, Rules
<1>3. /\ pc[h] = "ready" /\ served' = served + 1
      /\ req' = [req EXCEPT ![h] = q]
      /\ rule' = [rule EXCEPT ![h] = ru]
      /\ pc' = [pc EXCEPT ![h] = "forward"] \/ (pc' = [pc EXCEPT ![h] = "lookup"] /\ ru # NoRule)
      /\ UNCHANGED <<shared, conn, key, entry, storeKey>>
  BY DEF Receive, Goto
<1> HIDE DEF ru
<1>4. /\ req'[h] = q /\ rule'[h] = ru /\ conn'[h] = c
      /\ pc'[h] = "forward" \/ (pc'[h] = "lookup" /\ ru # NoRule)
  BY <1>3 DEF EntryInv, Shape
<1>5. c \in Conns
  BY <1>1, <1>3 DEF ServeOK
<1>6. ServeInv(h)'
  BY <1>2, <1>4, <1>5, NothingAssumption DEF ServeInv, ServeOK, PC, Serving, Caching
<1> QED
  BY <1>3, <1>6, ServeKept DEF Step, shared, EntryInv, IndexOK

LEMMA ServeLookup ==
  ASSUME EntryInv, NEW h \in Handlers, Lookup(h)
  PROVE  EntryInv'
<1>1. ServeOK(pc[h], conn[h], req[h], rule[h], key[h], entry[h], storeKey[h])
  BY DEF EntryInv, ServeInv
<1>2. /\ pc[h] = "lookup"
      /\ key' = [key EXCEPT ![h] = LookupKey(req[h], conn[h].port, rule[h])]
      /\ pc' = [pc EXCEPT ![h] = "fetch"] \/ pc' = [pc EXCEPT ![h] = "get"]
      /\ UNCHANGED <<shared, conn, req, rule, entry, storeKey, served>>
  BY DEF Lookup, Goto
<1>3. LookupKey(req[h], conn[h].port, rule[h]).base = BaseKey(req[h], conn[h].port).base
  BY DEF LookupKey, BaseKey, Generate
<1>4. /\ conn'[h] = conn[h] /\ req'[h] = req[h] /\ rule'[h] = rule[h]
      /\ key'[h].base = BaseKey(req[h], conn[h].port).base /\ pc'[h] \in {"fetch", "get"}
  BY <1>2, <1>3 DEF EntryInv, Shape
<1>5. ServeInv(h)'
  BY <1>1, <1>2, <1>4 DEF ServeInv, ServeOK, PC, Serving, Caching
<1> QED
  BY <1>2, <1>5, ServeKept DEF Step, shared, EntryInv, IndexOK

LEMMA ServeGet ==
  ASSUME EntryInv, NEW h \in Handlers, CacheGet(h)
  PROVE  EntryInv'
<1>1. ServeOK(pc[h], conn[h], req[h], rule[h], key[h], entry[h], storeKey[h])
  BY DEF EntryInv, ServeInv
<1>2. /\ pc[h] = "get"
      /\ UNCHANGED <<policy, varyIndex, now, conn, req, rule, key, storeKey, served>>
      /\ \/ /\ key[h] \in DOMAIN store
            /\ entry' = [entry EXCEPT ![h] = store[key[h]]]
            /\ pc' = [pc EXCEPT ![h] = "hit"]
            /\ store' = store
         \/ /\ store' = Without(store, key[h]) \/ store' = store
            /\ pc' = [pc EXCEPT ![h] = "fetch"]
            /\ entry' = entry
  BY DEF CacheGet, Goto
<1>3. \A k \in DOMAIN store' : Kept(k, store'[k])
  BY <1>2 DEF EntryInv, Without, Restrict
<1>4. pc'[h] = "fetch" \/ (pc'[h] = "hit" /\ Kept(key'[h], entry'[h]))
  BY <1>2 DEF EntryInv, Shape
<1>5. ServeInv(h)'
  BY <1>1, <1>2, <1>4 DEF ServeInv, ServeOK, PC, Serving, Caching
<1> QED
  BY <1>2, <1>3, <1>5, ServeKept DEF Step, EntryInv, IndexOK

LEMMA ServeFetch ==
  ASSUME EntryInv, NEW h \in Handlers, FetchEntry(h)
  PROVE  EntryInv'
<1>1. ServeOK(pc[h], conn[h], req[h], rule[h], key[h], entry[h], storeKey[h])
  BY DEF EntryInv, ServeInv
<1>2. PICK a \in Answers(req[h]) :
        /\ a.ok /\ a.size <= MaxBody
        /\ entry' = [entry EXCEPT ![h] = [req |-> Sent(req[h]), port |-> conn[h].port, dst |-> conn[h].dst,
                                          resp |-> a, cachedAt |-> now, ttl |-> 0]]
  BY DEF FetchEntry
<1>3. /\ pc[h] = "fetch"
      /\ pc' = [pc EXCEPT ![h] = "decide"]
      /\ UNCHANGED <<shared, conn, req, rule, key, storeKey, served>>
  BY DEF FetchEntry, Goto
<1>4. /\ entry'[h] = [req |-> Sent(req[h]), port |-> conn[h].port, dst |-> conn[h].dst,
                      resp |-> a, cachedAt |-> now, ttl |-> 0]
      /\ pc'[h] = "decide"
  BY <1>2, <1>3 DEF EntryInv, Shape
<1>5. conn[h] \in Conns /\ \E r \in Requests : req[h] = WithHost(r, conn[h])
  BY <1>1, <1>3 DEF ServeOK, Serving, Caching
<1>6. Made(entry'[h])
  BY <1>2, <1>4, <1>5 DEF Made, From, EntryInv
<1>7. ServeInv(h)'
  BY <1>1, <1>3, <1>4, <1>6 DEF ServeInv, ServeOK, Answered, From, PC, Serving, Caching
<1> QED
  BY <1>3, <1>7, ServeKept DEF Step, shared, EntryInv, IndexOK

\* Steps that end a request: all but Store leave the store alone.
LEMMA ServeEnd ==
  ASSUME EntryInv, NEW h \in Handlers,
         Forward(h) \/ ReplyHit(h) \/ FetchOther(h) \/ DecideBypass(h) \/ Store(h)
  PROVE  EntryInv'
<1>1. ServeOK(pc[h], conn[h], req[h], rule[h], key[h], entry[h], storeKey[h])
  BY DEF EntryInv, ServeInv
<1>2. Finish(h) /\ pc[h] \in Serving /\ UNCHANGED <<policy, varyIndex, now, served>>
  BY DEF Forward, ReplyHit, FetchOther, DecideBypass, Store, Serving, Caching, shared
<1>3. /\ pc'[h] \in {"idle", "ready"}
      /\ IF pc'[h] = "idle" THEN conn'[h] = Nothing ELSE conn'[h] \in Conns
  BY <1>1, <1>2 DEF Finish, Goto, EntryInv, Shape, ServeOK, Serving, Caching
<1>4. ServeInv(h)'
  BY <1>3, Between DEF ServeInv
<1>5. \A k \in DOMAIN store' : Kept(k, store'[k])
  <2>1. CASE Store(h)
    <3>1. Kept(storeKey[h], entry[h]) /\ store' = Extend(store, storeKey[h], entry[h])
      BY <1>1, <2>1 DEF Store, ServeOK
    <3> QED
      BY <3>1 DEF EntryInv, Extend
  <2>2. CASE store' = store
    BY <2>2 DEF EntryInv
  <2> QED
    BY <2>1, <2>2 DEF Forward, ReplyHit, FetchOther, DecideBypass, shared
<1> QED
  BY <1>2, <1>4, <1>5, ServeKept DEF Step, EntryInv, IndexOK

LEMMA ServeDrop ==
  ASSUME EntryInv, NEW h \in Handlers, DropOld(h)
  PROVE  EntryInv'
<1>1. ServeOK(pc[h], conn[h], req[h], rule[h], key[h], entry[h], storeKey[h])
  BY DEF EntryInv, ServeInv
<1>2. /\ pc[h] = "drop"
      /\ pc' = [pc EXCEPT ![h] = "store"]
      /\ store' = Without(store, key[h])
      /\ UNCHANGED <<policy, varyIndex, now, conn, req, rule, key, entry, storeKey, served>>
  BY DEF DropOld, Goto, local
<1>3. \A k \in DOMAIN store' : Kept(k, store'[k])
  BY <1>2 DEF EntryInv, Without, Restrict
<1>4. pc'[h] = "store"
  BY <1>2 DEF EntryInv, Shape
<1>5. ServeInv(h)'
  BY <1>1, <1>2, <1>4 DEF ServeInv, ServeOK, PC, Serving, Caching
<1> QED
  BY <1>2, <1>3, <1>5, ServeKept DEF Step, EntryInv, IndexOK

\* A product that does not fit its width only loses: the low bits of a natural
\* number, read as a signed one, are at most that number.
LEMMA WrapsDown ==
  ASSUME NEW x \in Nat
  PROVE  Wrap(x) \in Int /\ Wrap(x) <= x
<1> DEFINE half == 2 ^ (Width - 1)
           whole == 2 ^ Width
<1>1. half \in Int /\ whole \in Int /\ half > 0 /\ whole > 0
  BY ClockAssumption, PowersAssumption
<1>2. Wrap(x) = ((x + half) % whole) - half
  BY DEF Wrap
<1> HIDE DEF half, whole
<1>3. \A a, m \in Nat : m > 0 => a % m \in Int /\ a % m <= a
  <2> TAKE a, m \in Nat
  <2> HAVE m > 0
  <2>1. a = m * (a \div m) + (a % m) /\ a \div m \in Int /\ a % m \in Int
    OBVIOUS
  <2>2. a \div m >= 0
    OBVIOUS
  <2>3. m * (a \div m) >= 0
    BY <2>1, <2>2
  <2> QED
    BY <2>1, <2>3
<1> QED
  BY <1>1, <1>2, <1>3

Part == [name : STRING, value : Int]

CacheControlLines == Seq(Seq(Part))

LEMMA DirectiveValues ==
  ASSUME NEW lines \in CacheControlLines, NEW d \in DOMAIN Directives(lines)
  PROVE  Directives(lines)[d] \in Int
<1> DEFINE line == Get(lines, <<>>)
           at == {i \in DOMAIN line : line[i].name = d}
           last == CHOOSE i \in at : \A j \in at : j <= i
<1>1. line \in Seq(Part)
  BY DEF Get, CacheControlLines
<1>2. at # {} /\ Directives(lines)[d] = line[last].value
  BY DEF Directives, parseCacheControl
<1> HIDE DEF line
<1>3. Len(line) \in Nat /\ at \subseteq 1 .. Len(line)
  BY <1>1
<1>4. \E i \in at : \A j \in at : j <= i
  <2> DEFINE rest == {Len(line) - i : i \in at}
  <2>1. rest \subseteq Nat /\ rest # {}
    BY <1>2, <1>3
  <2>2. PICK m \in rest : \A k \in rest : m <= k
    BY <2>1, LeastNatural
  <2>3. PICK i \in at : m = Len(line) - i
    BY <2>2
  <2>4. ASSUME NEW j \in at PROVE j <= i
    <3>1. Len(line) - i <= Len(line) - j
      BY <2>2, <2>3
    <3> QED
      BY <1>3, <2>3, <3>1
  <2> QED
    BY <2>4
<1>5. last \in at
  BY <1>4
<1> HIDE DEF last
<1>6. last \in 1 .. Len(line)
  BY <1>3, <1>5
<1> HIDE DEF at
<1>7. line[last] \in Part
  BY <1>1, <1>6
<1> QED
  BY <1>2, <1>7 DEF Part

\* The time an entry is kept for is at most the age its response declares.
LEMMA TTLBounded ==
  ASSUME NEW resp, resp.cc \in CacheControlLines, NEW fallback \in Int
  PROVE  /\ cacheControlTTL(Directives(resp.cc), fallback) \in Int
         /\ \A s \in DeclaredAge(resp) :
              s \in Int /\ cacheControlTTL(Directives(resp.cc), fallback) <= s * Second
<1> DEFINE cc == Directives(resp.cc)
           valid(d) == d \in DOMAIN cc /\ cc[d] >= 0
<1>1. ASSUME NEW d \in DOMAIN cc, cc[d] >= 0
      PROVE  cc[d] \in Int /\ Wrap(cc[d] * Second) \in Int /\ Wrap(cc[d] * Second) <= cc[d] * Second
  <2>1. cc[d] \in Nat
    BY <1>1, DirectiveValues
  <2>2. cc[d] * Second \in Nat
    BY <2>1, ClockAssumption
  <2> QED
    BY <2>1, <2>2, WrapsDown
<1>2. /\ cacheControlTTL(cc, fallback) = IF valid("s-maxage") THEN Wrap(cc["s-maxage"] * Second)
                                         ELSE IF valid("max-age") THEN Wrap(cc["max-age"] * Second)
                                         ELSE fallback
      /\ DeclaredAge(resp) = IF valid("s-maxage") THEN {cc["s-maxage"]}
                             ELSE IF valid("max-age") THEN {cc["max-age"]} ELSE {}
  BY DEF cacheControlTTL, DeclaredAge
<1> HIDE DEF cc
<1> QED
  BY <1>1, <1>2 DEF cc

LEMMA ServeStore ==
  ASSUME EntryInv, NEW h \in Handlers, DecideStore(h)
  PROVE  EntryInv'
<1> DEFINE resp == entry[h].resp
           allVary == mergeVaryHeaders(rule[h].vary, parseVaryHeader(Get(resp.vary, {})))
           k == Generate(Sent(req[h]), conn[h].port, rule[h].cacheBody, allVary)
           t == cacheControlTTL(Directives(resp.cc), rule[h].ttl)
<1>1. ServeOK(pc[h], conn[h], req[h], rule[h], key[h], entry[h], storeKey[h])
  BY DEF EntryInv, ServeInv
<1>2. /\ pc[h] = "decide" /\ ~Bypass(h)
      /\ storeVaryIndex(BaseKey(req[h], conn[h].port), allVary)
      /\ storeKey' = [storeKey EXCEPT ![h] = k]
      /\ entry' = [entry EXCEPT ![h].ttl = t]
      /\ pc' = [pc EXCEPT ![h] = "drop"] \/ pc' = [pc EXCEPT ![h] = "store"]
      /\ UNCHANGED <<policy, store, now, conn, req, rule, key, served>>
  BY DEF DecideStore, Goto
<1>3. /\ Answered(entry[h], req[h], conn[h]) /\ Matched(rule[h], req[h], conn[h])
      /\ conn[h] \in Conns /\ \E r \in Requests : req[h] = WithHost(r, conn[h])
  BY <1>1, <1>2 DEF ServeOK, Serving, Caching
<1>4. req[h] \in Received /\ resp \in Answers(req[h]) /\ Sent(req[h]).cc = req[h].cc
  BY <1>3, SentSame DEF Answered, From, Received
<1>5. rule[h].vary \subseteq DOMAIN Canon /\ rule[h].ttl \in Int
  BY <1>3, PoliciesAssumption DEF Matched, Rules
<1>6. t \in Int /\ \A s \in DeclaredAge(resp) : s \in Int /\ t <= s * Second
  BY <1>4, <1>5, AnswersAssumption, TTLBounded DEF CacheControlLines, Part
<1>7. k.base = BaseKey(Sent(req[h]), conn[h].port).base
  BY DEF Generate, BaseKey
<1>8. allVary \subseteq DOMAIN Canon
  <2>1. Get(resp.vary, {}) \subseteq DOMAIN Canon
    BY <1>4, VaryNames
  <2> QED
    BY <1>5, <2>1, CanonAssumption DEF mergeVaryHeaders, parseVaryHeader, Canonical
<1> HIDE DEF k, t, allVary
<1>9. IndexOK'
  BY <1>2, <1>8 DEF storeVaryIndex, Extend, EntryInv, IndexOK
<1>10. /\ entry'[h] = [req |-> Sent(req[h]), port |-> conn[h].port, dst |-> conn[h].dst, resp |-> resp,
                       cachedAt |-> entry[h].cachedAt, ttl |-> t]
       /\ storeKey'[h] = k /\ pc'[h] \in {"drop", "store"}
  BY <1>2, <1>3 DEF EntryInv, Shape, Answered, From, Made
<1>11. Made(entry'[h]) /\ From(entry'[h], req[h], conn[h])
  BY <1>3, <1>6, <1>10 DEF Answered, From, Made
<1>12. Storable(entry'[h])
  BY <1>2, <1>4, <1>6, <1>10 DEF Bypass, Storable, NoStoreRequested
<1>13. Kept(storeKey'[h], entry'[h]) /\ Answered(entry'[h], req[h], conn[h])
  BY <1>7, <1>10, <1>11, <1>12 DEF Kept, Answered
<1>14. ServeInv(h)'
  BY <1>1, <1>2, <1>10, <1>13 DEF ServeInv, ServeOK, PC, Serving, Caching
<1> QED
  BY <1>2, <1>9, <1>14, ServeKept DEF Step, EntryInv

LEMMA ServeRest ==
  ASSUME EntryInv, (\E p \in Policies : SetPolicy(p)) \/ (\E k \in DOMAIN store : Evict(k)) \/ Tick \/ UNCHANGED vars
  PROVE  EntryInv'
<1>1. /\ policy' \in Policies /\ now' \in Nat
      /\ (\E k : store' = Without(store, k)) \/ store' = store
      /\ UNCHANGED <<varyIndex, pc, local, served>>
  BY DEF SetPolicy, Evict, Tick, vars, shared, EntryInv
<1>2. \A k \in DOMAIN store' : Kept(k, store'[k])
  BY <1>1 DEF EntryInv, Without, Restrict
<1>3. Shape' /\ Connected' /\ IndexOK' /\ served' \in Nat
  BY <1>1 DEF EntryInv, Shape, Connected, IndexOK, local
<1>4. \A g \in Handlers : ServeInv(g)'
  BY <1>1 DEF EntryInv, ServeInv, local
<1> QED
  BY <1>1, <1>2, <1>3, <1>4 DEF EntryInv

LEMMA EntryStep == EntryInv /\ [Next]_vars => EntryInv'
BY ServeConnection, ServeReceive, ServeLookup, ServeGet, ServeFetch, ServeStore, ServeDrop, ServeEnd,
   ServeRest DEF Next

\* The proxy's state keeps its types: an entry is a response that upstream may
\* have given to a request that was received, and a handler has a request and an
\* entry whenever it uses them.
THEOREM TypeCorrect == Spec => []TypeOK
BY EntryInit, EntryStep, EntryType, PTL DEF Spec

\* A hit is never older than the age its response declares, even when that age
\* does not fit a time.Duration.
THEOREM HitsFresh == Spec => HitFresh
<1> DEFINE Fresh(h) ==
      pc[h] = "get" /\ pc'[h] = "hit" =>
        \A s \in DeclaredAge(entry'[h].resp) : now - entry'[h].cachedAt <= s * Second
<1>1. ASSUME EntryInv, [Next]_vars
      PROVE  [\A h \in Handlers : Fresh(h)]_vars
  <2> SUFFICES ASSUME NEW h \in Handlers, pc[h] = "get", pc'[h] = "hit",
                      NEW s \in DeclaredAge(entry'[h].resp)
               PROVE  now - entry'[h].cachedAt <= s * Second
    OBVIOUS
  <2>1. CacheGet(h)
    <3>1. PICK g \in Handlers : (\E c \in Conns : Accept(g, c)) \/ Step(g)
      BY <1>1 DEF Next, Step, SetPolicy, Evict, Tick, vars
    <3>2. g = h
      BY <1>1, <3>1, Frame DEF EntryInv
    <3> QED
      BY <3>1, <3>2 DEF Step, Accept, Splice, Handshake, Hangup, Receive, Forward, Lookup, ReplyHit,
         FetchEntry, FetchOther, DecideBypass, DecideStore, DropOld, Store
  <2>2. key[h] \in DOMAIN store /\ ~Expired(store[key[h]], now) /\ entry'[h] = store[key[h]]
    BY <1>1, <2>1 DEF CacheGet, Goto, EntryInv, Shape
  <2>3. Kept(key[h], entry'[h])
    BY <1>1, <2>2 DEF EntryInv
  <2>4. /\ s \in Int /\ entry'[h].ttl \in Int /\ entry'[h].cachedAt \in Nat /\ now \in Nat
        /\ entry'[h].ttl <= s * Second /\ s * Second \in Int
    BY <1>1, <2>3, ClockAssumption DEF Kept, Made, Storable, EntryInv
  <2>5. ~(now - entry'[h].cachedAt > entry'[h].ttl)
    BY <2>2 DEF Expired
  <2> QED
    BY <2>4, <2>5
<1> QED
  BY <1>1, EntryInit, EntryStep, PTL DEF Spec, HitFresh

\* Requests that are left without a host and go to the same port go to one
\* destination: the key does not tell their destinations apart.
HostlessToOne ==
  \A c, d \in Conns, r, s \in Requests :
    WithHost(r, c).host = NoHost /\ WithHost(s, d).host = NoHost /\ c.port = d.port => c.dst = d.dst

\* Then a hit answers a request for the same host.
THEOREM SameHost ==
  ASSUME HostlessToOne
  PROVE  Spec => []HitSameHost
<1>1. ASSUME EntryInv PROVE HitSameHost
  <2> SUFFICES ASSUME NEW h \in Handlers, pc[h] = "hit"
               PROVE  HostName(entry[h].req, entry[h]) = HostName(req[h], conn[h])
    BY DEF HitSameHost
  <2>1. ServeOK(pc[h], conn[h], req[h], rule[h], key[h], entry[h], storeKey[h])
    BY <1>1 DEF EntryInv, ServeInv
  <2>2. Kept(key[h], entry[h]) /\ key[h].base = BaseKey(req[h], conn[h].port).base
    BY <2>1 DEF ServeOK
  <2>3. entry[h].req.host = req[h].host /\ entry[h].port = conn[h].port
    BY <2>2 DEF Kept, BaseKey, Generate
  <2>4. PICK c \in Conns, r \in Requests :
          /\ entry[h].req.host = WithHost(r, c).host
          /\ entry[h].port = c.port /\ entry[h].dst = c.dst
    BY <2>2, SentSame DEF Kept, Made, From
  <2>5. conn[h] \in Conns /\ \E s \in Requests : req[h] = WithHost(s, conn[h])
    BY <2>1 DEF ServeOK, Serving, Caching
  <2>6. req[h].host = NoHost => entry[h].dst = conn[h].dst
    BY <2>3, <2>4, <2>5 DEF HostlessToOne
  <2> QED
    BY <2>3, <2>6 DEF HostName
<1> QED
  BY <1>1, EntryInit, EntryStep, PTL DEF Spec

\* Header.Get sees all of Cache-Control, and a "*" that upstream puts in Vary.
FirstLinesTell ==
  /\ \A r \in Received : AllDirectives(r.cc) = DOMAIN Directives(r.cc)
  /\ \A r \in Received : \A a \in Answers(r) :
       /\ AllDirectives(a.cc) = DOMAIN Directives(a.cc)
       /\ "*" \in VariesBy(a) => Get(a.vary, {}) = {"*"}

\* Then the store holds only complete responses that neither side forbade to
\* store.
THEOREM OnlyStorable ==
  ASSUME FirstLinesTell
  PROVE  Spec => []StoredStorable
<1>1. ASSUME EntryInv PROVE StoredStorable
  <2> SUFFICES ASSUME NEW k \in DOMAIN store
               PROVE  /\ store[k].resp.ok /\ store[k].resp.size <= MaxBody
                      /\ AllDirectives(store[k].resp.cc) \cap {"no-store", "private"} = {}
                      /\ "no-store" \notin AllDirectives(store[k].req.cc)
                      /\ "*" \notin VariesBy(store[k].resp)
    BY DEF StoredStorable
  <2> DEFINE e == store[k]
  <2>1. Made(e) /\ Storable(e)
    BY <1>1 DEF EntryInv, Kept
  <2> HIDE DEF e
  <2>2. PICK q \in Received : e.req.cc = q.cc /\ e.resp \in Answers(q) /\ e.resp.ok /\ e.resp.size <= MaxBody
    BY <2>1, SentSame DEF Made, From, Received
  <2>3. /\ AllDirectives(e.resp.cc) = DOMAIN Directives(e.resp.cc)
        /\ AllDirectives(e.req.cc) = DOMAIN Directives(e.req.cc)
        /\ "*" \in VariesBy(e.resp) => Get(e.resp.vary, {}) = {"*"}
    BY <2>2 DEF FirstLinesTell
  <2>4. /\ AllDirectives(e.resp.cc) \cap {"no-store", "private"} = {}
        /\ "no-store" \notin AllDirectives(e.req.cc)
        /\ "*" \notin VariesBy(e.resp)
    BY <2>1, <2>3 DEF Storable, responseCacheable, NoStoreRequested
  <2> QED
    BY <2>2, <2>4 DEF e
<1> QED
  BY <1>1, EntryInit, EntryStep, PTL DEF Spec

-----------------------------------------------------------------------------
(* Where responses are stored *)

\* The header names a response is partitioned by.
Partition(ru, a) == mergeVaryHeaders(ru.vary, parseVaryHeader(Get(a.vary, {})))

Cacheable(a) == responseCacheable(Directives(a.cc))

\* The cacheable responses of a resource are all partitioned by the same header
\* names, canonically spelled, whichever rule matches.
SteadyVary ==
  \A c, d \in Conns, r, s \in Requests :
    LET q == WithHost(r, c)
        u == WithHost(s, d)
    IN  BaseKey(q, c.port) = BaseKey(u, d.port) =>
          \A ru, su \in Rules : Matched(ru, q, c) /\ Matched(su, u, d) =>
            \A a \in Answers(q), b \in Answers(u) :
              Cacheable(a) /\ Cacheable(b) =>
                Partition(ru, a) = Partition(su, b) /\ Canonical(Partition(ru, a)) = Partition(ru, a)

\* No rule and no response partitions by Connection, which the proxy itself sets
\* between the lookup and the store.
NotByConnection ==
  \A ru \in Rules : \A r \in Received : \A a \in Answers(r) : "Connection" \notin Partition(ru, a)

\* The Vary index tells how some cacheable response of the resource was
\* partitioned.
Recorded(base, names) ==
  \E c \in Conns, r \in Requests :
    LET q == WithHost(r, c)
    IN  /\ base = BaseKey(q, c.port)
        /\ \E ru \in Rules : \E a \in Answers(q) :
             Matched(ru, q, c) /\ Cacheable(a) /\ names = Partition(ru, a)

Filed(h) ==
  pc[h] \in {"drop", "store"} =>
    LET names == Partition(rule[h], entry[h].resp)
    IN  /\ storeKey[h] = Generate(Sent(req[h]), conn[h].port, rule[h].cacheBody, names)
        /\ names # {} => BaseKey(req[h], conn[h].port) \in DOMAIN varyIndex

FilingInv ==
  /\ EntryInv
  /\ \A base \in DOMAIN varyIndex : Recorded(base, varyIndex[base])
  /\ \A h \in Handlers : Filed(h)

\* Merging a rule's names into what was recorded with it adds nothing.
LEMMA MergedAgain ==
  ASSUME NEW v, NEW b, Canonical(mergeVaryHeaders(v, b)) = mergeVaryHeaders(v, b)
  PROVE  /\ mergeVaryHeaders(v, mergeVaryHeaders(v, b)) = mergeVaryHeaders(v, b)
         /\ mergeVaryHeaders(v, b) = {} => v = {}
<1>1. mergeVaryHeaders(v, b) = {} => v = {} /\ b = {}
  BY DEF mergeVaryHeaders, Canonical
<1>2. mergeVaryHeaders(v, b) # {} => Canonical(v) \subseteq mergeVaryHeaders(v, b)
  BY DEF mergeVaryHeaders
<1> DEFINE m == mergeVaryHeaders(v, b)
<1>3. m # {} => mergeVaryHeaders(v, m) = Canonical(v) \cup Canonical(m)
  BY DEF mergeVaryHeaders
<1>4. m = {} => mergeVaryHeaders(v, m) = v
  BY DEF mergeVaryHeaders
<1> QED
  BY <1>1, <1>2, <1>3, <1>4

LEMMA FilingStore ==
  ASSUME FilingInv, NEW h \in Handlers, DecideStore(h)
  PROVE  FilingInv'
<1> DEFINE resp == entry[h].resp
           names == Partition(rule[h], resp)
           base == BaseKey(req[h], conn[h].port)
           k == Generate(Sent(req[h]), conn[h].port, rule[h].cacheBody, names)
<1>1. ServeOK(pc[h], conn[h], req[h], rule[h], key[h], entry[h], storeKey[h])
  BY DEF FilingInv, EntryInv, ServeInv
<1>2. /\ pc[h] = "decide" /\ ~Bypass(h)
      /\ storeVaryIndex(base, names)
      /\ storeKey' = [storeKey EXCEPT ![h] = k]
      /\ entry' = [entry EXCEPT ![h].ttl = cacheControlTTL(Directives(resp.cc), rule[h].ttl)]
      /\ UNCHANGED <<conn, req, rule>>
  BY DEF DecideStore, Partition
<1>3. EntryInv'
  BY ServeStore DEF FilingInv
<1>4. Recorded(base, names)
  <2>1. Matched(rule[h], req[h], conn[h]) /\ conn[h] \in Conns /\ Answered(entry[h], req[h], conn[h])
    BY <1>1, <1>2 DEF ServeOK, Caching
  <2>2. \E r \in Requests : req[h] = WithHost(r, conn[h])
    BY <1>1, <1>2 DEF ServeOK, Serving, Caching
  <2>3. rule[h] \in Rules /\ resp \in Answers(req[h]) /\ Cacheable(resp)
    BY <1>2, <2>1 DEF Matched, Answered, From, Bypass, Cacheable
  <2> QED
    BY <2>1, <2>2, <2>3 DEF Recorded
<1>5. /\ \A b \in DOMAIN varyIndex' : Recorded(b, varyIndex'[b])
      /\ DOMAIN varyIndex \subseteq DOMAIN varyIndex'
      /\ names # {} => base \in DOMAIN varyIndex'
  BY <1>2, <1>4 DEF storeVaryIndex, Extend, FilingInv
<1>6. Filed(h)'
  <2>1. entry'[h].resp = resp /\ storeKey'[h] = k
    BY <1>2 DEF FilingInv, EntryInv, Shape
  <2> QED
    BY <1>2, <1>5, <2>1 DEF Filed
<1>7. ASSUME NEW g \in Handlers \ {h} PROVE Filed(g)'
  <2>1. /\ pc'[g] = pc[g] /\ conn'[g] = conn[g] /\ req'[g] = req[g] /\ rule'[g] = rule[g]
        /\ entry'[g] = entry[g] /\ storeKey'[g] = storeKey[g]
    BY Frame DEF Step, FilingInv, EntryInv
  <2> QED
    BY <1>5, <2>1 DEF Filed, FilingInv
<1> QED
  BY <1>3, <1>5, <1>6, <1>7 DEF FilingInv

LEMMA FilingStep == FilingInv /\ [Next]_vars => FilingInv'
<1> SUFFICES ASSUME FilingInv, [Next]_vars, \A h \in Handlers : ~DecideStore(h)
             PROVE  FilingInv'
  BY FilingStore
<1>1. EntryInv'
  BY EntryStep DEF FilingInv
<1>2. varyIndex' = varyIndex
  BY DEF Next, Accept, Splice, Handshake, Hangup, Close, Receive, Forward, Lookup, CacheGet, ReplyHit,
     FetchEntry, FetchOther, DecideBypass, DropOld, Store, SetPolicy, Evict, Tick, vars, shared
<1>3. ASSUME NEW h \in Handlers, pc'[h] \in {"drop", "store"}
      PROVE  /\ pc[h] \in {"drop", "store"}
             /\ conn'[h] = conn[h] /\ req'[h] = req[h] /\ rule'[h] = rule[h]
             /\ entry'[h] = entry[h] /\ storeKey'[h] = storeKey[h]
  <2>1. CASE UNCHANGED <<pc, local>>
    BY <1>3, <2>1 DEF local
  <2>2. ASSUME NEW g \in Handlers \ {h}, (\E c \in Conns : Accept(g, c)) \/ Step(g)
        PROVE  /\ pc[h] \in {"drop", "store"}
               /\ conn'[h] = conn[h] /\ req'[h] = req[h] /\ rule'[h] = rule[h]
               /\ entry'[h] = entry[h] /\ storeKey'[h] = storeKey[h]
    BY <1>3, <2>2, Frame DEF FilingInv, EntryInv
  <2>3. ASSUME (\E c \in Conns : Accept(h, c)) \/ Step(h)
        PROVE  DropOld(h)
    <3>1. ~Finish(h)
      BY <1>3 DEF Finish, Goto, FilingInv, EntryInv, Shape
    <3>2. ~Close(h) /\ ~Handshake(h) /\ (\A c \in Conns : ~Accept(h, c))
      BY <1>3 DEF Close, Handshake, Accept, Goto, FilingInv, EntryInv, Shape
    <3>3. ~Lookup(h) /\ ~CacheGet(h) /\ ~FetchEntry(h) /\ (\A r \in Requests : ~Receive(h, r))
      BY <1>3 DEF Lookup, CacheGet, FetchEntry, Receive, Goto, FilingInv, EntryInv, Shape
    <3> QED
      BY <2>3, <3>1, <3>2, <3>3 DEF Step, Splice, Hangup, Forward, ReplyHit, FetchOther, DecideBypass, Store
  <2>4. DropOld(h) => pc[h] = "drop" /\ UNCHANGED local
    BY DEF DropOld
  <2> QED
    BY <2>1, <2>2, <2>3, <2>4 DEF Next, Step, SetPolicy, Evict, Tick, vars, local
<1>4. \A h \in Handlers : Filed(h)'
  BY <1>2, <1>3 DEF Filed, FilingInv
<1> QED
  BY <1>1, <1>2, <1>4 DEF FilingInv, Recorded

\* While the responses of a resource keep being partitioned by the same header
\* names, and never by Connection, every response is stored where a repetition of its request is looked
\* up, whatever other handlers do to the Vary index in between.
THEOREM FoundAgain ==
  ASSUME SteadyVary, NotByConnection
  PROVE  Spec => []StoredWhereLookedUp
<1>1. Init => FilingInv
  BY EntryInit DEF FilingInv, Filed, Init, EmptyStore
<1>2. ASSUME FilingInv PROVE StoredWhereLookedUp
  <2> SUFFICES ASSUME NEW h \in Handlers, pc[h] \in {"drop", "store"}
               PROVE  storeKey[h] = LookupKey(req[h], conn[h].port, rule[h])
    BY DEF StoredWhereLookedUp
  <2> DEFINE resp == entry[h].resp
             names == Partition(rule[h], resp)
             base == BaseKey(req[h], conn[h].port)
             parsed == parseVaryHeader(Get(resp.vary, {}))
  <2>1. ServeOK(pc[h], conn[h], req[h], rule[h], key[h], entry[h], storeKey[h])
    BY <1>2 DEF FilingInv, EntryInv, ServeInv
  <2>2. /\ Matched(rule[h], req[h], conn[h]) /\ conn[h] \in Conns
        /\ Answered(entry[h], req[h], conn[h]) /\ Storable(entry[h])
    BY <2>1 DEF ServeOK, Caching, Kept
  <2>3. PICK s \in Requests : req[h] = WithHost(s, conn[h])
    BY <2>1 DEF ServeOK, Serving, Caching
  <2>4. rule[h] \in Rules /\ resp \in Answers(req[h]) /\ Cacheable(resp)
    BY <2>2 DEF Matched, Answered, From, Storable, Cacheable
  <2>5. names = mergeVaryHeaders(rule[h].vary, parsed) /\ Canonical(names) = names
    BY <2>2, <2>3, <2>4 DEF SteadyVary, Partition
  <2>6. mergeVaryHeaders(rule[h].vary, names) = names /\ (names = {} => rule[h].vary = {})
    BY <2>5, MergedAgain
  <2>7. /\ storeKey[h] = Generate(Sent(req[h]), conn[h].port, rule[h].cacheBody, names)
        /\ names # {} => base \in DOMAIN varyIndex
    BY <1>2 DEF FilingInv, Filed
  <2>8. ASSUME base \in DOMAIN varyIndex PROVE varyIndex[base] = names
    <3>1. PICK c \in Conns, r \in Requests :
            /\ base = BaseKey(WithHost(r, c), c.port)
            /\ \E ru \in Rules : \E a \in Answers(WithHost(r, c)) :
                 Matched(ru, WithHost(r, c), c) /\ Cacheable(a) /\ varyIndex[base] = Partition(ru, a)
      BY <1>2, <2>8 DEF FilingInv, Recorded
    <3> QED
      BY <2>2, <2>3, <2>4, <3>1 DEF SteadyVary
  <2>9. Generate(Sent(req[h]), conn[h].port, rule[h].cacheBody, names)
           = Generate(req[h], conn[h].port, rule[h].cacheBody, names)
    <3>1. req[h] \in Received
      BY <2>2, <2>3 DEF Received
    <3>2. rule[h].vary \subseteq DOMAIN Canon /\ Get(resp.vary, {}) \subseteq DOMAIN Canon
      BY <2>4, <3>1, VaryNames, PoliciesAssumption DEF Rules
    <3>3. names \subseteq DOMAIN Canon
      BY <3>2, CanonAssumption DEF Partition, mergeVaryHeaders, parseVaryHeader, Canonical
    <3>4. "Connection" \notin names
      BY <2>4, <3>1 DEF NotByConnection
    <3>5. \A n \in names : Canon[n] \in names
      BY <2>5 DEF Canonical
    <3> HIDE DEF names
    <3>6. \A n \in names : Sent(req[h]).hdr[Canon[n]] = req[h].hdr[Canon[n]]
      BY <2>3, <3>3, <3>4, <3>5, SentSame
    <3>7. /\ Sent(req[h]).host = req[h].host /\ Sent(req[h]).method = req[h].method
          /\ Sent(req[h]).path = req[h].path /\ Sent(req[h]).query = req[h].query
          /\ Sent(req[h]).body = req[h].body
      BY <2>3, SentSame
    <3>8. {<<n, Sent(req[h]).hdr[Canon[n]]>> : n \in names} = {<<n, req[h].hdr[Canon[n]]>> : n \in names}
      BY <3>6
    <3> QED BY <3>7, <3>8 DEF Generate, Buffered
  <2> HIDE DEF names, base
  <2>10. mergeVaryHeaders(rule[h].vary, lookupVaryIndex(base)) = names
    <3>1. CASE base \in DOMAIN varyIndex
      BY <2>6, <2>8, <3>1 DEF lookupVaryIndex
    <3>2. CASE base \notin DOMAIN varyIndex
      BY <2>6, <2>7, <3>2 DEF lookupVaryIndex, mergeVaryHeaders
    <3> QED
      BY <3>1, <3>2
  <2> QED
    BY <2>7, <2>10, <2>9 DEF LookupKey, base
<1> QED
  BY <1>1, <1>2, FilingStep, PTL DEF Spec
=============================================================================
