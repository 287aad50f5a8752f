---------------------------- MODULE PolicyWatch -----------------------------
(***************************************************************************)
(* The policy half of the k8s watcher (internal/k8s/watcher.go).  One      *)
(* goroutine lists the CachePolicy objects, then follows their changes     *)
(* until the watch breaks, waits and starts over.  After every change it   *)
(* compiles all policies into one list of rules, which it hands first to   *)
(* the proxy, then to the attachment gate (main.go), before it fires the   *)
(* reconcile trigger.                                                      *)
(***************************************************************************)
EXTENDS Policy, FiniteSets, Functions

CONSTANTS
  Names,      \* CachePolicy objects: [ns, name]
  Specs,      \* the contents they may have
  Clients,    \* pods: [ns, labels]
  Hosts,      \* servers they send requests to
  MaxBackoff, \* maxBackoff, in seconds
  MaxEdits,   \* bound on the number of changes of policies
  MaxBreaks   \* bound on the number of failed or broken watches

(***************************************************************************)
(* A content is a record with fields                                       *)
(*   decodes   whether unstructuredToPolicy accepts it                     *)
(*   valid     whether LabelSelectorAsSelector accepts its selector        *)
(*   sel       its selector, a set of requirements (see Policy)            *)
(*   rules     its rules: sequence of records [host, port, methods, paths, *)
(*             ttl, cacheBody, vary]                                       *)
(***************************************************************************)
ASSUME NamesAssumption == IsFiniteSet(Names)
ASSUME SpecsAssumption == (\E s \in Specs : s.decodes) /\ \A s \in Specs : IsFiniteSet(s.sel)
ASSUME PolicyBoundsAssumption == MaxBackoff \in Nat \ {0} /\ MaxEdits \in Nat /\ MaxBreaks \in Nat

VARIABLES
  api,      \* the objects of the API server: [live, spec], the last spec of a deleted one
  events,   \* changes since the list that have not been delivered: [type, name, spec]
  polMap,   \* Watcher.polMap: sequences of [name, spec] by namespace
  policy,   \* Proxy.policy
  gate,     \* main's currentPolicy
  trigger,  \* the reconcile trigger has been fired since Enforce last looked
  pc,       \* what the goroutine is about to do
  after,    \* what it does after rebuild
  backoff,  \* seconds to wait before the next attempt
  edits,    \* changes so far
  breaks    \* failures so far

vars == <<api, events, polMap, policy, gate, trigger, pc, after, backoff, edits, breaks>>

Namespaces == {n.ns : n \in Names}

\* A list has been read; changes since then will be delivered by the watch.
Following == pc \notin {"list", "backoff"}

Init ==
  /\ api = [n \in Names |-> [live |-> FALSE, spec |-> CHOOSE s \in Specs : s.decodes]]
  /\ events = <<>>
  /\ polMap = [ns \in Namespaces |-> <<>>]
  /\ policy = <<>> /\ gate = <<>> /\ trigger = FALSE
  /\ pc = "list" /\ after = "open" /\ backoff = 1
  /\ edits = 0 /\ breaks = 0

-----------------------------------------------------------------------------
(* The API server *)

Notice(type, n, s) ==
  events' = IF Following THEN Append(events, [type |-> type, name |-> n, spec |-> s]) ELSE events

Apply(n, s) ==
  /\ edits < MaxEdits
  /\ edits' = edits + 1
  /\ api' = [api EXCEPT ![n] = [live |-> TRUE, spec |-> s]]
  /\ Notice(IF api[n].live THEN "MODIFIED" ELSE "ADDED", n, s)
  /\ UNCHANGED <<polMap, policy, gate, trigger, pc, after, backoff, breaks>>

Delete(n) ==
  /\ edits < MaxEdits /\ api[n].live
  /\ edits' = edits + 1
  /\ api' = [api EXCEPT ![n].live = FALSE]
  /\ Notice("DELETED", n, api[n].spec)
  /\ UNCHANGED <<polMap, policy, gate, trigger, pc, after, backoff, breaks>>

-----------------------------------------------------------------------------
(* runCachePolicyWatch *)

\* The decodable objects of a namespace, in an order that the API server chooses.
Listed(ns) ==
  LET kept == {n \in Names : n.ns = ns /\ api[n].live /\ api[n].spec.decodes}
  IN  {[i \in DOMAIN f |-> [name |-> f[i], spec |-> api[f[i]].spec]] :
         f \in Bijection(1 .. Cardinality(kept), kept)}

List ==
  /\ pc = "list"
  /\ polMap' \in [Namespaces -> UNION {Listed(ns) : ns \in Namespaces}]
  /\ \A ns \in Namespaces : polMap'[ns] \in Listed(ns)
  /\ events' = <<>>
  /\ pc' = "rebuild" /\ after' = "open"
  /\ UNCHANGED <<api, policy, gate, trigger, backoff, edits, breaks>>

Open ==
  /\ pc = "open"
  /\ pc' = "events"
  /\ UNCHANGED <<api, events, polMap, policy, gate, trigger, after, backoff, edits, breaks>>

\* Mutant: a closed channel ends the goroutine.
MutGiveUp ==
  /\ pc \in {"list", "open", "events"}
  /\ breaks < MaxBreaks
  /\ breaks' = breaks + 1
  /\ events' = <<>>
  /\ pc' = IF pc = "events" THEN "ended" ELSE "backoff"
  /\ UNCHANGED <<api, polMap, policy, gate, trigger, after, backoff, edits>>

\* The list or the watch call fails, or the channel of events is closed.
Fail ==
  /\ pc \in {"list", "open", "events"}
  /\ breaks < MaxBreaks
  /\ breaks' = breaks + 1
  /\ events' = <<>>
  /\ pc' = "backoff"
  /\ UNCHANGED <<api, polMap, policy, gate, trigger, after, backoff, edits>>

\* Mutant: the wait doubles without limit.
MutUncapped ==
  /\ pc = "backoff"
  /\ pc' = "list"
  /\ backoff' = IF backoff < MaxBackoff THEN 2 * backoff ELSE backoff
  /\ UNCHANGED <<api, events, polMap, policy, gate, trigger, after, edits, breaks>>

Backoff ==
  /\ pc = "backoff"
  /\ pc' = "list"
  /\ backoff' = IF 2 * backoff > MaxBackoff THEN MaxBackoff ELSE 2 * backoff
  /\ UNCHANGED <<api, events, polMap, policy, gate, trigger, after, edits, breaks>>

-----------------------------------------------------------------------------
(* handlePolicyEvent *)

Positions(n) == {i \in DOMAIN polMap[n.ns] : polMap[n.ns][i].name = n}

\* Mutant: a modified policy is appended, its old version stays.
MutAppend(n, s) == Append(polMap[n.ns], [name |-> n, spec |-> s])

\* Replace the policy of that name where it is, or append it.
Updated(n, s) ==
  IF Positions(n) = {} THEN Append(polMap[n.ns], [name |-> n, spec |-> s])
  ELSE [polMap[n.ns] EXCEPT ![CHOOSE i \in Positions(n) : \A j \in Positions(n) : i <= j].spec = s]

Removed(n) ==
  LET at == CHOOSE i \in Positions(n) : \A j \in Positions(n) : i <= j
      old == polMap[n.ns]
  IN  IF Positions(n) = {} THEN old
      ELSE SubSeq(old, 1, at - 1) \o SubSeq(old, at + 1, Len(old))

\* An event whose object does not decode is dropped, a delete too.
handlePolicyEvent ==
  /\ pc = "events" /\ events # <<>>
  /\ events' = Tail(events)
  /\ LET e == Head(events)
     IN  \/ ~e.spec.decodes /\ UNCHANGED <<polMap, pc, after>>
         \/ /\ e.spec.decodes
            /\ polMap' = [polMap EXCEPT ![e.name.ns] =
                            IF e.type = "DELETED" THEN Removed(e.name) ELSE Updated(e.name, e.spec)]
            /\ pc' = "rebuild" /\ after' = "events"
  /\ UNCHANGED <<api, policy, gate, trigger, backoff, edits, breaks>>

-----------------------------------------------------------------------------
(* rebuild *)

\* Where rules come from: namespace, position of the policy, position of the
\* rule; policies with an invalid selector are skipped.
Origins ==
  LET valid(ns) == {i \in DOMAIN polMap[ns] : polMap[ns][i].spec.valid}
      of(ns, i) == {<<ns, i, j>> : j \in DOMAIN polMap[ns][i].spec.rules}
  IN  UNION {UNION {of(ns, i) : i \in valid(ns)} : ns \in Namespaces}

Compiled(o) ==
  LET s == polMap[o[1]][o[2]].spec
      r == s.rules[o[3]]
  IN  [ns |-> o[1], sel |-> s.sel, host |-> r.host, port |-> r.port, methods |-> r.methods,
       paths |-> r.paths, ttl |-> r.ttl, cacheBody |-> r.cacheBody, vary |-> r.vary]

selectorLen(sel) == Cardinality(sel)

\* Mutant: the least specific selectors come first.
MutSortedUp(rules) ==
  \A i, j \in DOMAIN rules : i < j => selectorLen(rules[i].sel) <= selectorLen(rules[j].sel)

Sorted(rules) ==
  \A i, j \in DOMAIN rules : i < j => selectorLen(rules[i].sel) >= selectorLen(rules[j].sel)

\* The lists of rules that rebuild may produce: the map is walked in any order,
\* and sort.Slice promises no order among selectors of the same length.
Listings ==
  LET slots == 1 .. Cardinality(Origins)
  IN  {rules \in {[i \in slots |-> Compiled(f[i])] : f \in Bijection(slots, Origins)} : Sorted(rules)}

\* onChange: the proxy gets the new policy first, then the gate.
rebuild ==
  /\ pc = "rebuild"
  /\ policy' \in Listings
  /\ pc' = "gate"
  /\ UNCHANGED <<api, events, polMap, gate, trigger, after, backoff, edits, breaks>>

StoreGate ==
  /\ pc = "gate"
  /\ gate' = policy
  /\ pc' = "notify"
  /\ UNCHANGED <<api, events, polMap, policy, trigger, after, backoff, edits, breaks>>

fireNotify ==
  /\ pc = "notify"
  /\ trigger' = TRUE
  /\ pc' = after
  /\ UNCHANGED <<api, events, polMap, policy, gate, after, backoff, edits, breaks>>

\* The enforcer takes the token (see Attach).
TakeToken ==
  /\ trigger
  /\ trigger' = FALSE
  /\ UNCHANGED <<api, events, polMap, policy, gate, pc, after, backoff, edits, breaks>>

-----------------------------------------------------------------------------
Watcher == List \/ Open \/ Backoff \/ handlePolicyEvent \/ rebuild \/ StoreGate \/ fireNotify

Next ==
  \/ Watcher \/ Fail \/ TakeToken
  \/ \E n \in Names : Delete(n) \/ \E s \in Specs : Apply(n, s)

Spec == Init /\ [][Next]_vars

\* The goroutine runs when it can, and the API server answers and delivers.
FairSpec == Spec /\ WF_vars(Watcher)

-----------------------------------------------------------------------------
(* Properties *)

TypeOK ==
  /\ api \in [Names -> [live : BOOLEAN, spec : Specs]]
  /\ events \in Seq([type : {"ADDED", "MODIFIED", "DELETED"}, name : Names, spec : Specs])
  /\ DOMAIN polMap = Namespaces
  /\ \A ns \in Namespaces : \A i \in DOMAIN polMap[ns] :
       LET p == polMap[ns][i] IN p.name.ns = ns /\ p.spec \in Specs /\ p.spec.decodes
  /\ trigger \in BOOLEAN
  /\ pc \in {"list", "open", "events", "rebuild", "gate", "notify", "backoff"}
  /\ after \in {"open", "events"}
  /\ backoff \in 1 .. MaxBackoff
  /\ edits \in Nat /\ breaks \in Nat

\* polMap has the current version of every object, once, and no deleted one;
\* only objects whose last version does not decode are left out of account.
Current ==
  \A n \in Names :
    api[n].spec.decodes =>
      IF api[n].live THEN \E i \in DOMAIN polMap[n.ns] :
                            Positions(n) = {i} /\ polMap[n.ns][i].spec = api[n].spec
      ELSE Positions(n) = {}

\* MapCurrent: whenever every event since the last list has been handled, the
\* map equals what the API server has: changes made before, between or after
\* the list, the opening of the watch and any number of broken watches are
\* neither lost nor applied twice.
MapCurrent == Following /\ events = <<>> => Current

\* MostSpecificWins: the rule that a request of any pod is cached by comes from
\* a policy with the most specific selector among those that apply.
MostSpecificWins ==
  \A c \in Clients, host \in Hosts :
    \A i \in DOMAIN policy :
      Applies(policy[i], c, host, 80, "GET", <<>>) =>
        selectorLen(Match(policy, c, host, 80, "GET", <<>>).sel) >= selectorLen(policy[i].sel)

\* PolicyCatchesUp: once policies stop changing and the API server stays up,
\* proxy and gate have for good the same rules, and they are the current ones.
PolicyCatchesUp == <>[](Current /\ policy \in Listings /\ gate = policy)

\* DeletedForgotten: whenever every event has been handled, no deleted policy is
\* left; "expected empty policy list after delete" (internal/k8s/watcher_test.go).
DeletedForgotten == Following /\ events = <<>> => \A n \in Names : ~api[n].live => Positions(n) = {}
=============================================================================
