------------------------------ MODULE PodWatch ------------------------------
(***************************************************************************)
(* The pod half of the k8s watcher (internal/k8s/watcher.go): podMeta maps *)
(* pod IPs to namespace and labels, and is kept up to date by the handlers *)
(* of a shared informer.                                                   *)
(*                                                                         *)
(* The informer brings its copy of each pod up to date with the API server *)
(* at some later time and calls a handler.  It may skip intermediate       *)
(* versions of a pod, and after a relist it visits the pods in any order.  *)
(* Every five minutes it calls the update handler for all pods it knows.   *)
(* An IP is not the identity of a pod: a new pod may be given the IP of a  *)
(* completed one whose object is still there, and the IP of a pod whose    *)
(* sandbox is recreated changes.                                           *)
(***************************************************************************)
EXTENDS StoreBytes

CONSTANTS
  Pods,      \* pod objects
  IPs,       \* pod IPs
  NoIP,      \* Status.PodIP = ""
  Metas,     \* namespace and labels
  IPsChange, \* whether the IP of a pod, once given, may change
  MaxEdits   \* bound on the number of changes of pods

ASSUME NoIPAssumption == NoIP \notin IPs
ASSUME MaxEditsAssumption == IPsChange \in BOOLEAN /\ MaxEdits \in Nat

VARIABLES
  pods,      \* the pods of the API server: [live, ip, meta]
  known,     \* the informer's copies
  podMeta,   \* Watcher.podMeta
  trigger,   \* the reconcile trigger has been fired since Enforce last looked
  edits      \* changes of pods so far

vars == <<pods, known, podMeta, trigger, edits>>

Versions == [live : BOOLEAN, ip : IPs \cup {NoIP}, meta : Metas]

Init ==
  /\ pods \in [Pods -> {v \in Versions : ~v.live /\ v.ip = NoIP}]
  /\ known = pods
  /\ podMeta = EmptyStore
  /\ trigger = FALSE
  /\ edits = 0

\* A pod is created, is given an IP, completes, changes or is deleted.  A
\* deleted pod keeps its last version, which the delete event carries.
Edit(p, v) ==
  /\ edits < MaxEdits
  /\ pods[p].live /\ ~v.live => v.ip = pods[p].ip /\ v.meta = pods[p].meta
  /\ pods[p].live \/ v.live
  /\ IPsChange \/ pods[p].ip \in {NoIP, v.ip}
  /\ pods' = [pods EXCEPT ![p] = v]
  /\ edits' = edits + 1
  /\ UNCHANGED <<known, podMeta, trigger>>

\* What proxy and enforcer are told about an IP; nothing if it is unknown.
NamespaceLookup(ip) == {podMeta[i] : i \in DOMAIN podMeta \cap {ip}}

-----------------------------------------------------------------------------
\* Handlers, called with the version v of a pod.

\* Mutant: a pod that has no IP yet is recorded as well.
MutAddAnyIP(v) == podMeta' = Extend(podMeta, v.ip, v.meta) /\ trigger' = TRUE

onPodAdd(v) ==
  IF v.ip = NoIP THEN UNCHANGED <<podMeta, trigger>>
  ELSE podMeta' = Extend(podMeta, v.ip, v.meta) /\ trigger' = TRUE

\* Mutant: a delete event leaves the entry alone.
MutDeleteKeeps(v) == UNCHANGED podMeta /\ trigger' = TRUE

onPodDelete(v) ==
  podMeta' = Without(podMeta, v.ip) /\ trigger' = TRUE

\* The informer catches up with a pod.  A delete event carries the pod's last
\* version; the tombstone that a relist leaves, the last one the informer knew.
Deliver(p) ==
  /\ known[p] # pods[p]
  /\ known' = [known EXCEPT ![p] = pods[p]]
  /\ \/ pods[p].live /\ onPodAdd(pods[p])
     \/ ~pods[p].live /\ known[p].live /\ \E v \in {pods[p], known[p]} : onPodDelete(v)
     \/ ~pods[p].live /\ ~known[p].live /\ UNCHANGED <<podMeta, trigger>>
  /\ UNCHANGED <<pods, edits>>

\* Mutant: there is no periodic resync.
MutNoResync(p) == p \notin Pods /\ UNCHANGED vars

Resync(p) ==
  /\ known[p].live
  /\ onPodAdd(known[p])
  /\ UNCHANGED <<pods, known, edits>>

\* The enforcer takes the token (see Attach).
TakeToken ==
  /\ trigger
  /\ trigger' = FALSE
  /\ UNCHANGED <<pods, known, podMeta, edits>>

Next ==
  \/ \E p \in Pods : Deliver(p) \/ Resync(p) \/ \E v \in Versions : Edit(p, v)
  \/ TakeToken

Spec == Init /\ [][Next]_vars

\* The informer keeps delivering and resyncing.
FairSpec == Spec /\ \A p \in Pods : WF_vars(Deliver(p)) /\ WF_vars(Resync(p))

-----------------------------------------------------------------------------
(* Properties *)

TypeOK ==
  /\ pods \in [Pods -> Versions]
  /\ known \in [Pods -> Versions]
  /\ DOMAIN podMeta \subseteq IPs
  /\ \A ip \in DOMAIN podMeta : podMeta[ip] \in Metas
  /\ trigger \in BOOLEAN
  /\ edits \in Nat

Holders(ip) == {p \in Pods : pods[p].live /\ pods[p].ip = ip}

\* The lookup of an IP that one pod holds returns that pod's metadata.
Found(ip) == \A p \in Pods : Holders(ip) = {p} => NamespaceLookup(ip) = {pods[p].meta}

\* LookupHeals: once pods stop changing, every IP that exactly one pod object
\* holds is looked up right for good, whatever order the events came in and
\* whoever held the IP before.
LookupHeals == <>[](\A ip \in IPs : Found(ip))

\* No event is outstanding.
CaughtUp == known = pods

\* LookupFindsPod: with no event outstanding, the lookup of an IP that exactly
\* one pod holds finds it; "NamespaceFunc returns a pod's namespace and labels
\* for its IP" (internal/podveth/enforce.go).
LookupFindsPod == CaughtUp => \A ip \in IPs : Found(ip)

\* LookupForgets: with no event outstanding, an IP that no pod holds is not
\* found: deletes that come late, out of order or as tombstones leave nothing
\* behind; "or an empty namespace when the IP isn't a tracked Kubernetes pod"
\* (internal/podveth/enforce.go).
LookupForgets == CaughtUp => \A ip \in IPs : Holders(ip) = {} => NamespaceLookup(ip) = {}
=============================================================================
