------------------------------- MODULE Proxy --------------------------------
(***************************************************************************)
(* The caching proxy (internal/proxy, internal/cachekey).  One goroutine   *)
(* per intercepted connection serves its requests one after the other; all *)
(* of them share the policy, the response store and the Vary index, which  *)
(* remembers by which request headers the responses of a resource were     *)
(* last partitioned.  A step is what a goroutine does between two accesses *)
(* to shared state.                                                        *)
(*                                                                         *)
(* The store is the lossy store of BoundedStore, which CacheStore          *)
(* implements: an entry may vanish at any time (Evict), by eviction, by    *)
(* the sweeper, by another Get's inline delete, or because Set gave up.    *)
(***************************************************************************)
EXTENDS Policy, StoreBytes

CONSTANTS
  Handlers,     \* connection goroutines
  Conns,        \* connections: [ns, labels, port, dst, sni]
  Requests,     \* requests: see below
  Answers(_),   \* the responses an upstream may give to a request that was received
  Policies,     \* the policies that may be installed: lists of rules
  Canon,        \* http.CanonicalHeaderKey, on the spellings in use
  HasCA,        \* whether a CA was configured
  MaxBody,      \* MAX_BODY_BYTES
  Second,       \* time.Second in units of time.Duration
  Width,        \* bits of a time.Duration
  TLSPort,      \* 443
  NoHost,       \* an empty Host header, or a ClientHello in which PeekSNI found no name
  NoSNI,        \* PeekSNI failed: not even a record header could be read
  NoBody,       \* an empty request body
  Nothing,      \* no value yet
  MaxTime,      \* bound on the clock
  MaxRequests   \* bound on the number of requests served

ASSUME MaxBodyAssumption == MaxBody \in Nat
ASSUME ClockAssumption == Second \in Nat /\ Width \in Nat \ {0} /\ MaxTime \in Nat /\ MaxRequests \in Nat
\* An arithmetic fact that the provers do not know.
ASSUME PowersAssumption == 2 ^ Width > 0 /\ 2 ^ (Width - 1) > 0
ASSUME CanonAssumption == \A n \in DOMAIN Canon : Canon[n] \in DOMAIN Canon /\ Canon[Canon[n]] = Canon[n]
ASSUME NothingAssumption == Nothing \notin Conns
ASSUME RequestsAssumption ==
  \A r \in Requests :
    /\ DOMAIN r = {"host", "method", "path", "query", "body", "size", "hdr", "cc", "keep"}
    /\ DOMAIN r.hdr = DOMAIN Canon

(***************************************************************************)
(* A request has fields                                                    *)
(*   host    NoHost, or a record [name, port]; port 0: none given          *)
(*   method, path, query                                                   *)
(*   body    NoBody or a body;  size  its length                           *)
(*   hdr     header values by canonical header name                        *)
(*   cc      the lines of its Cache-Control header                         *)
(*   keep    HTTP/1.1 or later without "Connection: close"                 *)
(* A response has fields                                                   *)
(*   ok      whether the status is 2xx;  size  the length of its body      *)
(*   cc      the lines of its Cache-Control header                         *)
(*   vary    the lines of its Vary header, each a set of spellings         *)
(* A Cache-Control line is a sequence of parts [name, value]; the value is *)
(* -1 if it is not a number that strconv.Atoi accepts.                     *)
(***************************************************************************)
VARIABLES
  policy,     \* Proxy.policy
  varyIndex,  \* Proxy.varyIndex
  store,      \* Proxy.cache
  now,        \* time.Now()
  pc,         \* what each goroutine is about to do
  conn,       \* its connection
  req,        \* the request it serves
  rule,       \* the rule that matched
  key,        \* the key it looks up
  entry,      \* the entry found in the store or made from the response
  storeKey,   \* the key it stores the response under
  served      \* requests received so far (bounded by MaxRequests)

shared == <<policy, varyIndex, store, now>>
local == <<conn, req, rule, key, entry, storeKey>>
vars == <<shared, pc, local, served>>

-----------------------------------------------------------------------------
(* Headers *)

\* Header.Get returns the first line of a header.
Get(lines, default) == IF lines = <<>> THEN default ELSE lines[1]

\* parseCacheControl: a directive given twice counts as its last occurrence.
parseCacheControl(line) ==
  [n \in {line[i].name : i \in DOMAIN line} |->
     LET at == {i \in DOMAIN line : line[i].name = n}
     IN  line[CHOOSE i \in at : \A j \in at : j <= i].value]

Directives(lines) == parseCacheControl(Get(lines, <<>>))

\* Mutant: "private" is forgotten.
MutPrivateCacheable(cc) == "no-store" \notin DOMAIN cc

responseCacheable(cc) == DOMAIN cc \cap {"no-store", "private"} = {}

\* An int64 product keeps its low bits.
Wrap(x) == ((x + 2 ^ (Width - 1)) % 2 ^ Width) - 2 ^ (Width - 1)

\* Mutant: max-age is preferred over s-maxage.
MutMaxAgeFirst(cc, fallback) ==
  LET valid(d) == d \in DOMAIN cc /\ cc[d] >= 0
  IN  IF valid("max-age") THEN Wrap(cc["max-age"] * Second)
      ELSE IF valid("s-maxage") THEN Wrap(cc["s-maxage"] * Second)
      ELSE fallback

cacheControlTTL(cc, fallback) ==
  LET valid(d) == d \in DOMAIN cc /\ cc[d] >= 0
  IN  IF valid("s-maxage") THEN Wrap(cc["s-maxage"] * Second)
      ELSE IF valid("max-age") THEN Wrap(cc["max-age"] * Second)
      ELSE fallback

Canonical(names) == {Canon[n] : n \in names}

parseVaryHeader(names) == IF names = {"*"} THEN {} ELSE Canonical(names)

\* The names of a are spelled canonically only if there are any in b.
mergeVaryHeaders(a, b) == IF b = {} THEN a ELSE Canonical(a) \cup Canonical(b)

-----------------------------------------------------------------------------
(* Cache keys (internal/cachekey) *)

\* The body as handleRequest has buffered it.
Buffered(r) == IF MaxBody > 0 THEN r.body ELSE NoBody

\* The hash is taken to be injective: a key is what is hashed.
Generate(r, port, includeBody, names) ==
  [base |-> <<r.host, r.method, r.path, r.query, port>>,
   body |-> IF includeBody THEN Buffered(r) ELSE NoBody,
   vary |-> {<<n, r.hdr[Canon[n]]>> : n \in names}]

BaseKey(r, port) == Generate(r, port, FALSE, {})

lookupVaryIndex(base) == IF base \in DOMAIN varyIndex THEN varyIndex[base] ELSE {}

\* The key a request is looked up under now, by a rule that matched it.
LookupKey(r, port, ru) ==
  Generate(r, port, ru.cacheBody, mergeVaryHeaders(ru.vary, lookupVaryIndex(BaseKey(r, port))))

\* The name a request is matched by: the Host header without its port, or the
\* original destination.
HostName(r, c) == IF r.host = NoHost THEN c.dst ELSE r.host.name

NoCacheRequested(r) == DOMAIN Directives(r.cc) \cap {"no-store", "no-cache"} # {}

NoStoreRequested(r) == "no-store" \in DOMAIN Directives(r.cc)

-----------------------------------------------------------------------------
\* Mutant: the server name does not replace a missing Host.
MutHostLeftEmpty(r, c) == r

\* A request without Host on a TLS connection is given the server name, if any.
WithHost(r, c) ==
  IF c.port = TLSPort /\ r.host = NoHost /\ c.sni # NoHost
  THEN [r EXCEPT !.host = [name |-> c.sni, port |-> 0]] ELSE r

\* A request as upstream gets it, and as it stays from then on.
Sent(r) == [r EXCEPT !.hdr["Connection"] = "close"]

Received == {WithHost(r, c) : r \in Requests, c \in Conns}

Entry == [req : {Sent(r) : r \in Received}, port : {c.port : c \in Conns}, dst : {c.dst : c \in Conns},
          resp : UNION {Answers(r) : r \in Received}, cachedAt : Nat, ttl : Int]

\* All header names a response varies by, in whichever line upstream sent them.
VariesBy(resp) == UNION {resp.vary[i] : i \in DOMAIN resp.vary}

ASSUME PoliciesAssumption ==
  \A p \in Policies : \A i \in DOMAIN p :
    i \in Nat /\ p[i] # NoRule /\ p[i].vary \subseteq DOMAIN Canon /\ p[i].ttl \in Int
ASSUME AnswersAssumption ==
  \A r \in Received : \A a \in Answers(r) :
    a.vary \in Seq(SUBSET DOMAIN Canon) /\ a.cc \in Seq(Seq([name : STRING, value : Int]))

PC == {"idle", "splice", "handshake", "ready", "forward", "lookup", "get", "hit",
       "fetch", "decide", "drop", "store"}

Goto(h, label) == pc' = [pc EXCEPT ![h] = label]

\* The reply is written; a kept-alive connection reads its next request.
Finish(h) ==
  /\ Goto(h, IF req[h].keep THEN "ready" ELSE "idle")
  /\ req' = [req EXCEPT ![h] = Nothing]
  /\ rule' = [rule EXCEPT ![h] = NoRule]
  /\ key' = [key EXCEPT ![h] = Nothing]
  /\ entry' = [entry EXCEPT ![h] = Nothing]
  /\ storeKey' = [storeKey EXCEPT ![h] = Nothing]
  /\ conn' = [conn EXCEPT ![h] = IF req[h].keep THEN @ ELSE Nothing]

Init ==
  /\ policy \in Policies
  /\ varyIndex = EmptyStore
  /\ store = EmptyStore
  /\ now = 0
  /\ pc = [h \in Handlers |-> "idle"]
  /\ conn = [h \in Handlers |-> Nothing]
  /\ req = [h \in Handlers |-> Nothing]
  /\ rule = [h \in Handlers |-> NoRule]
  /\ key = [h \in Handlers |-> Nothing]
  /\ entry = [h \in Handlers |-> Nothing]
  /\ storeKey = [h \in Handlers |-> Nothing]
  /\ served = 0

-----------------------------------------------------------------------------
(* Connections *)

\* handleConn looks up the pod once per connection; a TLS connection is
\* terminated only if some rule may apply to the server it names.
Accept(h, c) ==
  /\ pc[h] = "idle"
  /\ conn' = [conn EXCEPT ![h] = c]
  /\ Goto(h, IF c.port # TLSPort THEN "ready"
             ELSE IF c.sni # NoSNI /\ HasCA /\ HasRuleForHostPort(policy, c.sni, c.port)
             THEN "handshake" ELSE "splice")
  /\ UNCHANGED <<shared, req, rule, key, entry, storeKey, served>>

Close(h) ==
  /\ Goto(h, "idle")
  /\ conn' = [conn EXCEPT ![h] = Nothing]
  /\ UNCHANGED <<shared, req, rule, key, entry, storeKey, served>>

\* The relay ends when either side closes, or never starts.
Splice(h) == pc[h] = "splice" /\ Close(h)

Handshake(h) ==
  /\ pc[h] = "handshake"
  /\ \/ Goto(h, "ready") /\ UNCHANGED <<shared, local, served>>
     \/ Close(h)

Hangup(h) == pc[h] = "ready" /\ Close(h)

-----------------------------------------------------------------------------
(* Requests *)

\* Read a request and its body, and match it against the policy of the moment.
Receive(h, r) ==
  LET c == conn[h]
      q == WithHost(r, c)
      ru == Match(policy, c, HostName(q, c), c.port, q.method, q.path)
      tooLarge == MaxBody > 0 /\ r.size > MaxBody
  IN  /\ pc[h] = "ready"
      /\ served < MaxRequests
      /\ served' = served + 1
      /\ req' = [req EXCEPT ![h] = q]
      /\ rule' = [rule EXCEPT ![h] = ru]
      /\ Goto(h, IF ru # NoRule /\ ~tooLarge THEN "lookup" ELSE "forward")
      /\ UNCHANGED <<shared, conn, key, entry, storeKey>>

\* Not cached: whatever upstream answers is relayed, or 502 if it does not.
Forward(h) ==
  /\ pc[h] = "forward"
  /\ Finish(h)
  /\ UNCHANGED <<shared, served>>

\* Read the Vary index.
Lookup(h) ==
  /\ pc[h] = "lookup"
  /\ key' = [key EXCEPT ![h] = LookupKey(req[h], conn[h].port, rule[h])]
  /\ Goto(h, IF NoCacheRequested(req[h]) THEN "fetch" ELSE "get")
  /\ UNCHANGED <<shared, conn, req, rule, entry, storeKey, served>>

Expired(e, t) == t - e.cachedAt > e.ttl

\* cache.Get: a hit, or an expired entry that is deleted, or nothing.
CacheGet(h) ==
  LET k == key[h]
  IN  /\ pc[h] = "get"
      /\ \/ /\ k \in DOMAIN store /\ ~Expired(store[k], now)
            /\ entry' = [entry EXCEPT ![h] = store[k]]
            /\ Goto(h, "hit")
            /\ UNCHANGED store
         \/ /\ k \in DOMAIN store /\ Expired(store[k], now)
            /\ store' = Without(store, k)
            /\ Goto(h, "fetch")
            /\ UNCHANGED entry
         \/ /\ k \notin DOMAIN store
            /\ Goto(h, "fetch")
            /\ UNCHANGED <<store, entry>>
      /\ UNCHANGED <<policy, varyIndex, now, conn, req, rule, key, storeKey, served>>

ReplyHit(h) ==
  /\ pc[h] = "hit"
  /\ Finish(h)
  /\ UNCHANGED <<shared, served>>

\* fetchUpstream got a whole 2xx response within the limit: an entry is made.
FetchEntry(h) ==
  /\ pc[h] = "fetch"
  /\ \E a \in Answers(req[h]) :
       /\ a.ok /\ a.size <= MaxBody /\ MaxBody # 0
       /\ entry' = [entry EXCEPT ![h] =
                      [req |-> Sent(req[h]), port |-> conn[h].port, dst |-> conn[h].dst,
                       resp |-> a, cachedAt |-> now, ttl |-> 0]]
  /\ Goto(h, "decide")
  /\ UNCHANGED <<shared, conn, req, rule, key, storeKey, served>>

\* It got another response, which is relayed, or none: 502.
FetchOther(h) ==
  /\ pc[h] = "fetch"
  /\ Finish(h)
  /\ UNCHANGED <<shared, served>>

Bypass(h) ==
  \/ Get(entry[h].resp.vary, {}) = {"*"}
  \/ NoStoreRequested(req[h])
  \/ ~responseCacheable(Directives(entry[h].resp.cc))

DecideBypass(h) ==
  /\ pc[h] = "decide"
  /\ Bypass(h)
  /\ Finish(h)
  /\ UNCHANGED <<shared, served>>

\* Mutant: an empty list of names is recorded as well.
MutIndexEmpty(base, names) == varyIndex' = Extend(varyIndex, base, names)

\* Mutant: the partitioning of the response is not recorded.
MutIndexForgotten(base, names) == UNCHANGED varyIndex

storeVaryIndex(base, names) ==
  varyIndex' = IF names # {} THEN Extend(varyIndex, base, names) ELSE varyIndex

DecideStore(h) ==
  LET r == req[h]
      port == conn[h].port
      resp == entry[h].resp
      allVary == mergeVaryHeaders(rule[h].vary, parseVaryHeader(Get(resp.vary, {})))
      k == Generate(Sent(r), port, rule[h].cacheBody, allVary)
  IN  /\ pc[h] = "decide"
      /\ ~Bypass(h)
      /\ storeVaryIndex(BaseKey(r, port), allVary)
      /\ storeKey' = [storeKey EXCEPT ![h] = k]
      /\ entry' = [entry EXCEPT ![h].ttl = cacheControlTTL(Directives(resp.cc), rule[h].ttl)]
      /\ Goto(h, IF k # key[h] THEN "drop" ELSE "store")
      /\ UNCHANGED <<policy, store, now, conn, req, rule, key, served>>

\* The entry the request would have hit has another partitioning.
DropOld(h) ==
  /\ pc[h] = "drop"
  /\ store' = Without(store, key[h])
  /\ Goto(h, "store")
  /\ UNCHANGED <<policy, varyIndex, now, local, served>>

\* Mutant: the response is stored under the key that was looked up.
MutStoreUnderLookupKey(h) ==
  /\ pc[h] = "store"
  /\ store' = Extend(store, key[h], entry[h])
  /\ Finish(h)
  /\ UNCHANGED <<policy, varyIndex, now, served>>

Store(h) ==
  /\ pc[h] = "store"
  /\ store' = Extend(store, storeKey[h], entry[h])
  /\ Finish(h)
  /\ UNCHANGED <<policy, varyIndex, now, served>>

-----------------------------------------------------------------------------
(* Everything else *)

SetPolicy(p) ==
  /\ policy' = p
  /\ UNCHANGED <<varyIndex, store, now, pc, local, served>>

Evict(k) ==
  /\ k \in DOMAIN store
  /\ store' = Without(store, k)
  /\ UNCHANGED <<policy, varyIndex, now, pc, local, served>>

Tick ==
  /\ now < MaxTime
  /\ now' = now + 1
  /\ UNCHANGED <<policy, varyIndex, store, pc, local, served>>

Next ==
  \/ \E h \in Handlers :
       \/ \E c \in Conns : Accept(h, c)
       \/ Splice(h) \/ Handshake(h) \/ Hangup(h)
       \/ \E r \in Requests : Receive(h, r)
       \/ Forward(h) \/ Lookup(h) \/ CacheGet(h) \/ ReplyHit(h)
       \/ FetchEntry(h) \/ FetchOther(h)
       \/ DecideBypass(h) \/ DecideStore(h) \/ DropOld(h) \/ Store(h)
  \/ \E p \in Policies : SetPolicy(p)
  \/ \E k \in DOMAIN store : Evict(k)
  \/ Tick

Spec == Init /\ [][Next]_vars

-----------------------------------------------------------------------------
(* Properties *)

TypeOK ==
  /\ policy \in Policies
  /\ \A base \in DOMAIN varyIndex : varyIndex[base] # {} /\ varyIndex[base] \subseteq DOMAIN Canon
  /\ \A k \in DOMAIN store : store[k] \in Entry
  /\ now \in Nat
  /\ pc \in [Handlers -> PC]
  /\ conn \in [Handlers -> Conns \cup {Nothing}]
  /\ \A h \in Handlers :
       /\ conn[h] = Nothing <=> pc[h] = "idle"
       /\ pc[h] \notin {"idle", "splice", "handshake", "ready"} => req[h] \in Received
       /\ pc[h] \in {"hit", "decide", "drop", "store"} => entry[h] \in Entry
  /\ served \in Nat

\* HitRightVariant: a request is answered from the cache only with a response
\* to a request for the same resource that, as upstream got it, agrees with it
\* on every header its rule partitions by and every header that upstream said
\* the response varies by; if the rule keys on the body, it has the same body as well.  Neither
\* policies that come and go, nor responses to others that change the Vary
\* index between this request's lookup and its reply, can change that.
HitRightVariant ==
  \A h \in Handlers :
    pc[h] = "hit" =>
      LET r == req[h]
          e == entry[h]
      IN  /\ BaseKey(e.req, e.port) = BaseKey(r, conn[h].port)
          /\ \A n \in rule[h].vary \cup VariesBy(e.resp) : e.req.hdr[Canon[n]] = r.hdr[Canon[n]]
          /\ rule[h].cacheBody /\ r.body # NoBody => e.req.body = r.body

\* All the directives of a Cache-Control header, in whichever line.
AllDirectives(lines) == UNION {{lines[i][j].name : j \in DOMAIN lines[i]} : i \in DOMAIN lines}

\* StoredStorable: whatever the handlers do concurrently, the store holds only
\* complete 2xx responses that neither upstream nor the client forbade to store.
StoredStorable ==
  \A k \in DOMAIN store :
    LET e == store[k]
    IN  /\ e.resp.ok /\ e.resp.size <= MaxBody
        /\ AllDirectives(e.resp.cc) \cap {"no-store", "private"} = {}
        /\ "no-store" \notin AllDirectives(e.req.cc)
        /\ "*" \notin VariesBy(e.resp)

\* The seconds a response declares itself fresh for, as a set: at most one.
DeclaredAge(resp) ==
  LET cc == Directives(resp.cc)
      secs(d) == IF d \in DOMAIN cc /\ cc[d] >= 0 THEN {cc[d]} ELSE {}
  IN  IF secs("s-maxage") # {} THEN secs("s-maxage") ELSE secs("max-age")

\* HitFresh: a hit is not older than its response's s-maxage, or else max-age.
HitFresh ==
  [][\A h \in Handlers :
       pc[h] = "get" /\ pc'[h] = "hit" =>
         \A s \in DeclaredAge(entry'[h].resp) : now - entry'[h].cachedAt <= s * Second]_vars

\* StoredWhereLookedUp: a handler stores a response under the key under which
\* a repetition of its request is looked up, so that the repetition can hit.
StoredWhereLookedUp ==
  \A h \in Handlers :
    pc[h] \in {"drop", "store"} => storeKey[h] = LookupKey(req[h], conn[h].port, rule[h])

\* SplicedUncacheable: with a CA, a TLS connection whose server name is known is
\* spliced only if no request for that server could have matched the policy.
SplicedUncacheable ==
  [][\A h \in Handlers :
       pc[h] = "idle" /\ pc'[h] = "splice" /\ HasCA =>
         LET c == conn'[h]
         IN  \A r \in Requests :
               c.sni \notin {NoSNI, NoHost} => Match(policy, c, c.sni, c.port, r.method, r.path) = NoRule]_vars

\* HitSameHost: a hit answers a request for the same host, where a request
\* without a Host header is for its original destination (proxy.go,
\* handleRequest); "different hosts should produce different cache keys"
\* (internal/cachekey/key_test.go).
HitSameHost ==
  \A h \in Handlers : pc[h] = "hit" => HostName(entry[h].req, entry[h]) = HostName(req[h], conn[h])
=============================================================================
