# latch in TLA+

latch is a transparent, node-level HTTP/HTTPS cache for Kubernetes. On every
node it attaches TC BPF programs to the veths of pods that a `CachePolicy`
matches, redirects their connections to ports 80 and 443 to a proxy on the
node, and answers what it can from memory. This directory holds TLA+ models of
its parts, TLC configurations that check them on small instances, and proofs
that TLAPS checks for all values of the constants.

    tlc -config CacheStore.cfg MCCacheStore     # model-check one run
    tlapm CacheStoreProofs.tla                  # check proofs

`PROJECT.json` lists components, runs, mutants, findings, hazards, theorems,
and for every definition the source lines it models.

## Inventory

| component | state | operations | interacts with |
|---|---|---|---|
| response store (`internal/cache`) | map of entries, byte and entry counters, lock | Get (deletes expired entries inline), Set (evicts until the entry fits), Delete, sweeper every 30 s | called by all connection goroutines; reports evictions to metrics |
| proxy (`internal/proxy`) | current policy, Vary index, per-connection goroutines | accept, peek SNI, splice or terminate TLS, read, match, look up, fetch, decide, store, reply | store, policy, cache key, pod lookup, original destination |
| cache key (`internal/cachekey`) | none | Generate | proxy |
| policy (`internal/policy`) | list of rules | Match, Covered, HasRuleForHostPort | proxy, TLS gate, attachment gate |
| k8s watcher (`internal/k8s`) | `podMeta`, `polMap` | informer handlers, list/watch/retry, rebuild | hands policies to proxy and gate, pokes the enforcer |
| enforcer (`internal/podveth`) | none between rounds | a round on start, every 30 s and on every trigger: resolve, ask, reconcile | watcher (lookup, coverage), resolver, manager |
| interface manager (`internal/iface`) | table of TCX links by interface index | Reconcile, attach, detach, Watch (RTM_DELLINK) | kernel |
| BPF programs, original destination (`bpf`, `internal/origdst`) | LRU map from client address to destination | rewrite packets both ways, look the destination up | kernel, proxy |
| TLS connections (`internal/tlsmitm/sni.go`, `splice.go`) | buffered reader over the client's bytes, two copying goroutines | PeekSNI, peekConn.Read, Splice | proxy, client, destination |
| leaf certificates (`internal/tlsmitm/ca.go`) | cache of certificates by name | GetCertificate with singleflight | TLS handshakes of the proxy |

What is hard here: connection goroutines share store, Vary index and policy
without a common lock; the store's Get deletes after it has released its lock;
what a request is stored under depends on a response that arrives much later;
pods and policies reach the program as delayed, coalesced and lost events;
attachment is decided in rounds, while interfaces come and go and system calls
fail; identities (IP, interface index, client port) are reused.

What makes the parts correct:

* store: counters equal contents, the budget holds, only oversized entries are
  dropped, expired ones go first, calls return, nothing expired stays;
* proxy: a hit is the right variant, fresh and was allowed to be stored; what is
  stored can be found; a TLS connection that could be cached is terminated and
  one without policy is not;
* watcher: what it holds equals what the API server has, once it has caught up;
  the most specific policy wins;
* attachment: exactly the covered pods are attached in the end; no link leaks;
  no change is missed;
* redirect: the proxy learns where a client was going, or nothing; attempts to
  connect end, and clients of lost connections hear of it; other ports are left
  alone;
* TLS connections: no ClientHello makes the parser read out of range, the name
  found is the one sent, no byte is lost by peeking, handlers that wait for no
  upstream end;
* leaf certificates: a handshake gets a valid one for its name, signing happens
  only when needed, calls return.

## Modules

| module | models |
|---|---|
| `StoreBytes` | stores as functions; the bytes they hold |
| `BoundedStore` | abstract store: puts within a budget, anything may vanish at any time |
| `CacheStore` | `memory.go` step by step: lock, eviction loop, sweeper |
| `Policy` | the three questions asked of a list of rules |
| `Proxy` | connection goroutines over a `BoundedStore`-like store, Vary index, keys |
| `PodWatch` | pod informer handlers and `podMeta` |
| `PolicyWatch` | list, watch, retry, `rebuild`, hand-over to proxy and gate |
| `Attach` | enforcer, interface manager, kernel interfaces and links |
| `Redirect` | BPF programs, `orig_dst`, `origdst.Lookup`, attach and detach, restart, TCP as seen from them |
| `TLSConn` | one connection to port 443 byte by byte: PeekSNI, peekConn, Splice |
| `LeafCerts` | `GetCertificate`: cache, singleflight, clock |
| `MC*` | small instances for TLC |
| `CacheStoreProofs`, `ProxyProofs`, `TLSConnProofs`, `LeafCertsProofs`, `PodWatchProofs`, `PolicyWatchProofs`, `AttachProofs`, `RedirectProofs` | theorems |

`CacheStore` refines `BoundedStore` (INSTANCE, checked by TLC and proved).
`Proxy` uses exactly what `BoundedStore` promises: a key maps to what was last
put there, or to nothing. `PodWatch` and `PolicyWatch` justify the step `Cover`
of `Attach` (coverage changes first, the trigger fires after it), and
`PolicyWatch` the step `SetPolicy` of `Proxy`. `TLSConn` details the step
`Accept` of `Proxy` on port 443 (what `sni` is, and what a splice does), and
`LeafCerts` its step `Handshake`; `Redirect` takes the attachment that `Attach`
decides as its steps `Attach` and `Detach`, and yields the destination that
`Proxy` finds in a connection.

### CacheStore

Variables are the fields of `store`, the owner `mu` of its lock, a clock, and
for every caller what it is about to do. `Get` is two steps, reading under the
lock (`GetRead`) and judging the entry after it (`GetCheck`), and the delete it
may call is a third. `Set` holds the lock over its loop; every iteration is a
step, so that the clock ticks between the scans. A scan for an expired entry is
one step that either evicts one of those expired now or finds none. `stored`
and `removed` are history variables for `EvictionsConserved`. Sizes are
numbers; `HeldBytes` is a set with one element per byte, so that its cardinality
is the sum of sizes without a recursive definition.

### Proxy

A step is what a goroutine does between two accesses to shared state: the
policy, the Vary index, the store. A request is read, buffered and matched in
one step, looked up in the index in the next, in the store in a third; the
fetch is a step that takes arbitrarily long, the decision, the removal of an
old variant and the store are three more. `req` is the request as received;
fetchUpstream sets `Connection: close` on it before the store key is generated,
so the store key and the entry are made of `Sent(req)`. An entry remembers the
request as upstream got it, port and destination; the code does not, the
properties need it.

Abstractions: a key is the record of what `Generate` hashes, so the hash is
taken to be injective and a body never to read like header lines; header names
are small sets of spellings with a canonicalisation `Canon`; duplicates in lists
of header names are dropped; a request has one value per header (`Header.Get`
in `Generate` takes the first line of a repeated one, so later lines do not
count for the key); a Cache-Control line is a sequence of directives,
parsed; paths are normalised sequences; a status is 2xx or not;
`MaxBody` is a natural number. The SNI of a connection is a name, `NoHost` (the
ClientHello has none or does not fit the buffer) or `NoSNI` (nothing could be
peeked). A connection whose original destination is unknown is closed
without a step.

### PodWatch and PolicyWatch

The informer is modelled by what it guarantees: each pod's copy catches up, in
any order between pods and skipping versions, as after a relist; deletes carry
the last or the last known version; resyncs repeat the update handler. The
policy watch is step by step: list, rebuild, open, events, with failures at each
point. The order of rules is any that sorts selectors by length, since the map
is walked in random order and `sort.Slice` is not stable (for up to twelve
rules it happens to be; the model allows more). Update of a map and the
notification are one step in these modules and two in `Attach`.

### Attach

Devices have an identity besides their index. A link is open until closed and
active while its device exists. The resolver reads the list of namespaces, then
inspects each in a step of its own; one that is gone or fails is passed over.
Whether a pod is covered is asked in two steps, its metadata (`AskPod`) and the
policy (`Ask`); a change in between makes the answer arbitrary. Every lock
section, attach and close is a step, the close of the ingress link after a failed
egress attach too. `Reuse` says whether indexes
are given out again (the kernel counts them up first); `MaxFaults` bounds failed calls (the list of
namespaces, an inspection, an attach, the netlink subscription).

### Redirect

A packet is sent, rewritten by the program on its way and received in one step;
a packet that is lost is one that was not sent, and any may be sent again.
`Record`, `Target` and `Source` are the two programs: every packet of the pod to
port 80 or 443 overwrites the entry of its client address and goes to the
proxy, every packet to a client address that has an entry gets the entry's
destination as its source. `prog` has a state between the two attaches, and one
between the two closes, because connections go on meanwhile. A crash, or an
exit on a signal or on an error of Accept, takes links, map and sockets of the
proxy along; the program then attaches and listens in either order.

TCP is external. An end has one socket per client address; a packet for an
unknown socket is answered by a reset, and a reset or an answer reaches the
client only if its source is, after `tc_egress`, what the client connected to. A SYN to
a socket that holds an older connection is answered by an acknowledgement the
client rejects with a reset. Connection numbers take the part of sequence numbers.

### TLSConn

Bytes arrive in pieces. `PeekSNI` is one step per bounds check: each records in
`top` how far it looked, so that `NoPanic` compares what was read with what Peek
had returned, for any lengths a ClientHello claims. `BufSize` is 4096 in
the code and 80 in the run; a hello that does not fit makes Peek fail, as a full
bufio.Reader does. The decision between splicing and terminating is arbitrary
here. A splice is two goroutines, each a loop of read and write; the first
that ends closes both connections. Replies are counted, not stored. A read from
`peekConn` returns any part of the buffer, or of what has arrived once it is
empty. A terminated connection goes back and forth between reading
(`"mitm"`) and `handleRequest` (`"request"`), which lasts as long as the upstream
does.
`WellFormed` says what a record with a ClientHello for a name looks like on the
wire, field by field and extension by extension, without reference to how
PeekSNI parses it; `WholeAssumption` ties what clients claim to send to it.

### LeafCerts

Load of the cache, check against the clock, singleflight, second load and check,
signing (which may fail), store and return are separate steps, and time passes
between them. A handshake has a deadline (`handleTLSConn`); the model assumes
that no call is held up for longer than it, so that a certificate judged good
at the first step is judged again within the margin of five minutes. A leaf
ends with the CA at the latest; after the CA's own end nothing is claimed.

## Runs

| run | shows |
|---|---|
| `store` | accounting, budget, metric, drop and eviction order, refinement of `BoundedStore` |
| `store_live` | calls return; expired entries are swept |
| `proxy` | a hit is the right variant and fresh, under changing policies, evictions and time |
| `proxy_tls` | splicing loses nothing cacheable; hits are for the same host; nothing forbidden is stored; what is stored is found again while upstream's Vary is steady |
| `attach` | links have one owner, no change is missed, attachment converges |
| `pods` | no IP is left behind; lookups heal |
| `policies` | the map is current, the most specific rule wins, proxy and gate catch up |
| `certs` | handshakes get valid certificates for their name, the CA signs only when needed, calls return |
| `tls_conn` | no read out of range, the right name, no byte lost; a handler whose client or server has closed ends, unless it stays inside a request for ever |
| `redirect` | the right destination or none, no attempt stuck, no loss unnoticed |

Each of these runs passes. The following state what a comment or the readme of
the repository says, and TLC finds a behaviour of the code that contradicts it:

| run | behaviour |
|---|---|
| `pods_reuse` | the delete of a pod that comes after the event of the pod that was given its IP makes that pod unknown |
| `redirect_stale` | a client port used for port 80 and then for another port: the second server's answers get the first one's address, and the connection fails |

### Further divergences

The models contain these behaviours too, but the instances of the runs leave
their inputs out; each shows up when a constant is changed as said.

* A Get that saw an expired entry deletes whatever the key maps to after it has
  released the lock, a fresh entry too, although memory_test.go says "Get triggers
  an inline delete of the expired entry": `LazyDeleteTakesExpired` fails in
  `store` with `MaxTime` = 2.
* The Vary index never shrinks: after a response without Vary it still names the
  headers of an earlier one, and the new response is stored where nobody looks.
  With `Answers <- ShrinkingAnswers`, `StoredWhereLookedUp` fails.
* The store key is made of the request after fetchUpstream has set `Connection:
  close` on it, the lookup key before: responses partitioned by Connection are
  stored where a repetition of their request does not look. With
  `vary = {"Connection"}` in `TLSPolicies`, `StoredWhereLookedUp` fails;
  `HitRightVariant` holds, and `proxy` has such a policy.
* An interface that is deleted between the attach and the recording of its links
  leaves its index occupied, although detach is to "free the ifindex for reuse by
  a future pod" (iface.go): with `Reuse` = TRUE and one index a covered pod is
  never attached, and `IndexFreed` fails.
* A policy that was changed to something undecodable and then deleted stays in
  force until the next list: `DeletedForgotten` fails in `policies`.
* The answers to a connection whose client is gone, but which a server still
  holds, are rewritten once the port has been redirected again, and their resets
  record the old destination: with `Orphans` = TRUE, `LookupRight` fails.
* The kernel lets connections to different destinations share a client port;
  `orig_dst` has one entry for all of them. `Connect` gives a port to one
  connection at a time; without that guard `LookupRight` fails.

* A second line of Cache-Control or Vary is ignored (`Header.Get`), and `*` in a
  Vary list is a name like any other: with `Answers` of two lines, or with such
  a list, `StoredStorable` and `HitRightVariant` fail.
* A policy that spells a header in lower case: with `vary = {"a"}` in `Policies`,
  and an upstream without Vary, `StoredWhereLookedUp` fails.
* The nanoseconds of a huge max-age overflow, so that the entry expires early
  or at once; `HitFresh` shows that it never lives longer than declared.
* An empty body adds nothing to the key: with one namespace under a rule with
  `cacheBody` and another without, a request with no body hits the response
  to one that has a body.
* Requests without Host to two destinations share a key: with two destinations in
  `Conns`, `HitSameHost` fails on plain connections.
* The TLS gate looks at neither namespace nor labels: TLS of a pod is terminated
  because another namespace has a rule for the server, although readme.md says
  that connections with no matching policy are spliced.
* A pod whose IP changes leaves its old IP in `podMeta`: with `IPsChange` = TRUE,
  `LookupForgets` fails.

### Bounds

Two goroutines are enough for the races listed, since each involves one that
reads and one that changes something in between; `attach` has
three (enforcer, Watch, a watcher) and two pods at a time. With three keys, sizes
1 and 3 and a budget of 2, two entries fit together, a third makes Set evict, and
some entries do not fit at all. Clocks go far enough for an entry to be fresh, at its limit and expired. `MaxRequests`, `MaxSets`,
`MaxEdits`, `MaxChanges`, `MaxBreaks`, `MaxFaults` and `MaxVeths` bound counters
that the code does not have; each leaves room for the interleavings by which the
mutants of the same run break its properties. `Width` = 8 stands for the 64 bits
of `time.Duration`. In `certs` a leaf lives for 4 units with a margin of 2 and the CA for 7, so
that leaves expire, are renewed, are cut short by the CA and outlive their use; three calls are a
leader, one that waits and one that comes after; names are one, as calls for different names share
nothing but the clock, and the theorems cover any number. In `tls_conn` every byte the parser
looks at is replaced by values that make lengths zero, off by one and too
large; cuts lie before and after the record header and in the middle; a second
request is read after the first has been handled. `redirect` has two
connections on one client port, two web servers and another; three attaches or
detaches, two evictions and a restart may happen at any point. CHECK_DEADLOCK is off where a module's
goroutines wait for events and the bound on events is used up.

### Fairness

`store_live`: weak fairness for each caller's steps after the call and for the
sweeper, strong fairness for taking the lock: Go's mutexes are not unfair for
ever (starvation mode), the ticker ticks. `attach`: weak fairness of the
enforcer, whose ticker is always one of its wake-ups, of Watch and of pending
notifications; nothing is assumed of nodes, watchers or faults. `pods`: the
informer delivers and resyncs. `policies`: the goroutine and the API
server answer; edits and breaks are not fair, only bounded. `certs`: goroutines are
scheduled. `tls_conn`: the handler and the two copies make progress, so writes
complete while the peer is there; nobody has to send or to close, and nothing
is assumed of a handler inside a request (`Requests`), as the upstream read has no
deadline: `HandlerEnds` lets it stay there. `redirect`:
clients retransmit their SYN and send on what they opened, ends answer, an attach or detach
that has begun is finished; nothing is assumed of Listen, so a connection may
be refused for ever, of attachments, evictions or crashes. `LossNoticed` is about
every open connection to a web server whose packets now reach an end that has
no socket for its client port, whether or not the other end still has one: the client is
reset, or its packets reach its own end again. No liveness is claimed for
requests.

## Proofs

`CacheStoreProofs` (for all sets of keys and callers, sizes, TTLs, budget and
bounds): the inductive invariant is `TypeOK /\ StoreInv /\ LockInv /\
EvictionsConserved`. Accounting alone is not inductive: that a Set adds its
entry without counting it twice needs that its key is absent while it holds the
lock, that eviction frees what it reports needs finiteness of the map, and that
live entries go only when nothing had expired needs what a scan established at
the time the lock was taken. From it follow `TypeCorrect`,
`AccountingCorrect`, `BudgetKept`, `EvictionsCounted`, the two action
properties `OnlyOversizedDropped` and `ExpiredEvictedFirst`, and `StoreRefines`:
every step of the store is a put, a drop or a stutter of `BoundedStore`.

`ProxyProofs`: `GatesPass` (whatever Match accepts passes Covered and
HasRuleForHostPort), from it `SplicingLosesNothing`; and `RightVariant`, from
the invariant `VariantInv`: every entry, in the store or in a handler's hands, is
filed under a key generated from its own request with a set of names that
includes all the response varies by. Two requests with the same key then agree
on them. The hypothesis `OneVaryLine`, that upstream puts its Vary names into
one header line, is needed: see the further divergences.

Where entries come from is a second invariant, `EntryInv`: each is a response
that upstream may have given to a request that was received on a connection,
was judged cacheable, is filed under a key of that request and expires no
later than its response declares; and what a handler holds at each of its steps
fits that. It yields `TypeCorrect`; `HitsFresh`, without a hypothesis, because
an overflow of the nanoseconds can only shorten a lifetime; `SameHost` under
`HostlessToOne` (the key has no destination, so requests that are left without
a host must all go to one per port); and `OnlyStorable` under `FirstLinesTell`
(`Header.Get` sees one line, and compares all of Vary with `*`). `FoundAgain`
adds what the Vary index records and needs `SteadyVary`: the index only grows,
so a resource whose cacheable responses are partitioned by changing names, or
by names a policy spells in another way, is stored where nobody looks; and
`NotByConnection`, since the proxy changes that header before it stores. TLC
finds each of the conclusions violated without its hypothesis (see the further
divergences); the instance of the run that checks a conclusion satisfies its
hypothesis.

`TLSConnProofs` (any bytes, any pieces, any buffer of at least 16 bytes):
`PeekSNISafe` from the invariant that the data PeekSNI looks at is in the
buffer, that the last look was within it, and that the loop over extensions
never gets an end behind it; that lengths are bounded by nothing else is the point.
`NameFound`, for any number of extensions of any kind: at each step the parser
is at the field that the layout puts there, in the loop at the start of an
extension, and has passed over none with a name. This is an induction over the
steps of the loop, so it does not need one over the bytes.
`StreamKept` from the invariant that what was passed on, followed by the chunk
a copy holds, is exactly the first `consumed` bytes, until a copy fails.
`TypeCorrect` follows from all of these, and from the fact that a reply in
the middle of being written has not been counted as passed on.

`LeafCertsProofs` (any calls, names, lifetimes; a margin and a lifetime of at least two
deadlines): `TypeCorrect`, `SignsWhenNeeded` and `CertificatesValid`. The
inductive invariant ties the flight of a name to the one call between load and
finish, says that whatever is in the cache is for its name and stays good for
the margin after `expiresAt`, and bounds for every call how old the check is
that its result has passed: a waiting call began while its leader was under
way, so two deadlines bound it, which is why the margin must be at least that.

`PodWatchProofs` (any pods, IPs and metadata): `TypeCorrect`, and for pods that
keep their IP `LookupsForget`, from the invariant that every IP in `podMeta` is
one the informer knows a live pod to have, and that an IP the informer has seen
is still its pod's. Without the hypothesis the invariant fails: onPodAdd looks
only at the new version of a pod, so the entry of an earlier IP stays.

`PolicyWatchProofs` (any policies, namespaces and changes, lists in any order):
`TypeCorrect`; `MapFollows`, from the invariant that for every policy with
events on their way the last one carries its present state, that a policy
without any is, if it can be decoded, in the map as the API server has it, and that the map has no
name twice in a namespace, so that replacing or removing the first match is
enough; and `SpecificWins`, from the invariant that the list of rules is sorted
by the length of selectors, whichever of the sorted lists rebuild produced. The
first rule that applies is then one of the longest that do.

`AttachProofs` (any interfaces, pods and watchers, with and without reuse of
indexes): `LinksHaveOwners`, from ownership said link by link and two facts about
the enforcer: it is the only one to attach, to an index that has no links in
the table, and it holds links only between an attach and their recording. A
new link is one that is not open, so it cannot be in anybody's hands; that is
where ownership of all open links is needed to prove that of one.
`TypeCorrect` needs that what is recorded is one link per direction.
`NoChangeMissed`, while indexes are not reused, goes along a round. While there
is neither a token nor a notification under way, `desired` is the newest
coverage of the pods asked so far (`AskInv`: a change leaves a mark from the
moment it happens until the enforcer wakes up for it), and none came between
the two reads about the pod it is asking for (`MovedInv`). Unless a call fails,
everything desired that exists has links, is in the rest of the loop or is being
attached (`AttachInv`), since an attach to an existing interface can fail only
as a fault: its two slots are free (`CanAttachLive`), which is where ownership
and the identity of devices come in. When the loops are done every pod that was
found is settled (`SettledInv`). That an index stands for one device for ever
(`WorldInv`, `FoundInv`, `LinkInv`) is what `~Reuse` gives: with reuse, the
index of a mapping may belong to another pod by the time it is attached.

`RedirectProofs` (any connections, ports and servers): `TypeCorrect`, and
`HandlersLearnRight` unless `Orphans`. The inductive invariant orders the
connections of a client port: a live one is the latest, a server knows only the
latest (`ServerLatest`, the part that needs the hypothesis), and for the latest
that reached the proxy the map has the right destination or none (`MapRight`).
Packets of the pod, answers and resets can then only record that destination.
The hypothesis is needed: see the further divergences.

Assumptions on constants are the named ASSUMEs of the modules; TLC evaluates
them in every run. They are about types and about what inputs are, except one:
`PowersAssumption` of `Proxy` states of the constant `Width` that its powers of
two are positive, as the provers know nothing of exponentiation. Every
invariant, every action property and the refinement that a run checks is proved
as well. Only model-checked: the liveness properties, since fairness is beyond the
prover (`CallsReturn` of the store and of the certificates, `ExpiredSwept`,
`Converges`, `LookupHeals`, `PolicyCatchesUp`, `HandlerEnds`, `NeverStuck` and
`LossNoticed`).

## Not modelled

* Packet parsing and checksums of the BPF programs (packets are addresses),
  IPv6, which they pass on, and the byte order of map keys and values.
* The handshake and record layer of TLS, certificate contents, `LoadCA` and
  `CertPool`: files read once; whether there is a CA is a constant.
* HTTP framing: an error while a request body is read, a body that is left
  unread after a 502, and the text that `Generate` hashes. Keys are records of
  what is hashed; a body that reads like header lines is not told apart from
  them by the code and is by the model.
* Metrics, logging, version, flags and environment: no influence on behaviour,
  or read once at start-up; their limits are CONSTANTS. Generated bindings and API
  types hold data only.
* Per-rule `maxBodyBytes` is carried into rules by the watcher and used by
  nothing.
* The walk over processes in `Resolve`: a process stands for its namespace, and
  one that vanishes for a namespace that is passed over in this round.
* Shutdown by context: `main` never cancels it, it exits (a crash of `Redirect`).

## Plan

Done: store, policy and proxy, TLS connections, leaf certificates, attachment,
pods, policies, redirect, all with proofs of their safety properties. Left:

1. A composition of `PodWatch`, `PolicyWatch` and `Attach`: from API objects to
   links; so far `Cover` of `Attach` stands for the first two.
2. The hashed text of keys.
