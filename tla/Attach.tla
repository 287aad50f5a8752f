------------------------------- MODULE Attach -------------------------------
(***************************************************************************)
(* Policy-gated attachment: podveth.Enforce resolves the node's pods to    *)
(* host veths and hands those that a policy covers to iface.Manager, which *)
(* attaches two TCX links to each and detaches the rest.  Three kinds of   *)
(* goroutines meet here: the enforcer; Manager.Watch, which forgets the    *)
(* links of deleted interfaces; and the watchers of pods and policies,     *)
(* which change what is covered and then poke the enforcer through a       *)
(* channel of capacity one.  A step is what a goroutine does between two   *)
(* accesses to the kernel or to state under a lock.                        *)
(***************************************************************************)
EXTENDS StoreBytes, Naturals, Sequences

CONSTANTS
  Ifindexes,   \* interface indexes of the node
  IPs,         \* addresses of pods
  Watchers,    \* goroutines of the k8s watcher: the pod informer, the policy watch
  Reuse,       \* whether the kernel gives an interface index out again
  MaxVeths,    \* bound on the number of veths ever created
  MaxChanges,  \* bound on the number of changes of what is covered
  MaxFaults    \* bound on the number of failed system calls

ASSUME ReuseAssumption == Reuse \in BOOLEAN
ASSUME IfindexAssumption == Ifindexes \subseteq Nat
ASSUME AttachBoundsAssumption == MaxVeths \in Nat /\ MaxChanges \in Nat /\ MaxFaults \in Nat

VARIABLES
  veth,       \* the host veths: [dev, ip] by interface index
  retired,    \* interface indexes of deleted veths
  veths,      \* veths created so far; the n-th is device n
  open,       \* the open TCX links: [dev, dir]
  netq,       \* RTM_DELLINK messages on their way to Manager.Watch
  watching,   \* whether Manager.Watch still runs
  covered,    \* pod IPs for which nsFn and coveredFn find a policy now
  notifying,  \* watchers that changed it and are about to notify
  trigger,    \* the trigger channel holds a token
  changes,    \* changes of what is covered so far
  faults,     \* failed calls so far
  links,      \* Manager.links
  pc,         \* what the enforcer is about to do
  todo,       \* what is left of the loop it is in
  mappings,   \* what Resolve returned: interface index by pod IP
  desired,    \* the interfaces to have links
  current,    \* the interfaces that had links when Reconcile started
  target,     \* the interface it is attaching
  got,        \* the links it has attached to it
  closing,    \* the links that the enforcer, or Watch, is about to close
  asking      \* the pod whose metadata it has read, and whether pods or
              \* policies have moved on since

world == <<veth, retired, veths, netq>>
cover == <<covered, notifying, changes>>
round == <<mappings, desired, current, target>>
vars == <<world, open, watching, cover, trigger, faults, links, pc, todo, round, got, closing, asking>>

Link(i, dir) == [dev |-> veth[i].dev, dir |-> dir]

Fault == faults < MaxFaults /\ faults' = faults + 1

Init ==
  /\ veth = EmptyStore /\ retired = {} /\ veths = 0
  /\ open = {} /\ netq = <<>> /\ watching \in BOOLEAN
  /\ covered = {} /\ notifying = {} /\ trigger = FALSE /\ changes = 0 /\ faults = 0
  /\ links = EmptyStore
  /\ pc = "resolve" /\ todo = {} /\ mappings = EmptyStore
  /\ desired = {} /\ current = {} /\ target = {} /\ got = {}
  /\ closing = [g \in {"enforcer", "watch"} |-> {}] /\ asking = {}

-----------------------------------------------------------------------------
(* The node and the watchers *)

\* The kernel counts indexes up, until it has to give one out again.
AddVeth(i, ip) ==
  /\ veths < MaxVeths
  /\ i \notin DOMAIN veth
  /\ \/ Reuse
     \/ i \notin retired /\ \A j \in Ifindexes : j < i => j \in retired \cup DOMAIN veth
  /\ \A j \in DOMAIN veth : veth[j].ip # ip
  /\ veths' = veths + 1
  /\ veth' = Extend(veth, i, [dev |-> veths', ip |-> ip])
  /\ UNCHANGED <<retired, netq, open, watching, cover, trigger, faults, links, pc, todo, round, got, closing, asking>>

\* The links of a deleted interface do nothing any more, but stay open.
DelVeth(i) ==
  /\ i \in DOMAIN veth
  /\ veth' = Without(veth, i)
  /\ retired' = retired \cup {i}
  /\ netq' = IF watching THEN Append(netq, i) ELSE netq
  /\ UNCHANGED <<veths, open, watching, cover, trigger, faults, links, pc, todo, round, got, closing, asking>>

\* A pod or policy event changes podMeta or the policy, then fireNotify is called.
Cover(w, ips) ==
  /\ changes < MaxChanges
  /\ w \notin notifying
  /\ covered' = ips
  /\ notifying' = notifying \cup {w}
  /\ changes' = changes + 1
  /\ asking' = {[a EXCEPT !.moved = TRUE] : a \in asking}
  /\ UNCHANGED <<world, open, watching, trigger, faults, links, pc, todo, round, got, closing>>

\* Mutant: the channel has no buffer, a token is lost if nobody waits for it.
MutUnbuffered(w) ==
  /\ w \in notifying
  /\ notifying' = notifying \ {w}
  /\ trigger' = (trigger \/ pc = "wait")
  /\ UNCHANGED <<world, open, watching, covered, changes, faults, links, pc, todo, round, got, closing, asking>>

\* A non-blocking send: a token already there serves both.
Notify(w) ==
  /\ w \in notifying
  /\ notifying' = notifying \ {w}
  /\ trigger' = TRUE
  /\ UNCHANGED <<world, open, watching, covered, changes, faults, links, pc, todo, round, got, closing, asking>>

-----------------------------------------------------------------------------
(* Enforce and Resolve *)

Wake ==
  /\ pc = "wait"
  /\ pc' = "resolve"
  /\ \/ UNCHANGED trigger               \* the ticker
     \/ trigger /\ trigger' = FALSE      \* the token
  /\ UNCHANGED <<world, open, watching, cover, faults, links, todo, round, got, closing, asking>>

\* List the network namespaces, or fail and skip this round.
ReadProc ==
  /\ pc = "resolve"
  /\ \/ /\ todo' = {[dev |-> veth[i].dev, ip |-> veth[i].ip, idx |-> i] : i \in DOMAIN veth}
        /\ mappings' = EmptyStore
        /\ pc' = "walk"
        /\ UNCHANGED faults
     \/ /\ Fault
        /\ pc' = "wait"
        /\ UNCHANGED <<todo, mappings>>
  /\ UNCHANGED <<world, open, watching, cover, trigger, links, desired, current, target, got, closing, asking>>

\* Inspect a namespace; one that is gone, or cannot be inspected, is passed over.
inspectNetns(n) ==
  LET there == n.idx \in DOMAIN veth /\ veth[n.idx].dev = n.dev
  IN  /\ pc = "walk" /\ n \in todo
      /\ todo' = todo \ {n}
      /\ \/ /\ mappings' = IF there THEN Extend(mappings, n.ip, n.idx) ELSE mappings
            /\ UNCHANGED faults
         \/ there /\ Fault /\ UNCHANGED mappings
      /\ UNCHANGED <<world, open, watching, cover, trigger, links, pc, desired, current, target, got, closing, asking>>

Resolved ==
  /\ pc = "walk" /\ todo = {}
  /\ pc' = "ask"
  /\ todo' = DOMAIN mappings
  /\ desired' = {}
  /\ UNCHANGED <<world, open, watching, cover, trigger, faults, links, mappings, current, target, got, closing, asking>>

\* nsFn looks one pod up.
AskPod(ip) ==
  /\ pc = "ask" /\ asking = {} /\ ip \in todo
  /\ asking' = {[ip |-> ip, moved |-> FALSE]}
  /\ UNCHANGED <<world, open, watching, cover, trigger, faults, links, pc, todo, round, got, closing>>

\* coveredFn looks for a policy for what nsFn said; if pods or policies changed
\* in between, the answer may be that of no moment at all.
Ask ==
  /\ pc = "ask"
  /\ \E a \in asking : \E yes \in IF a.moved THEN BOOLEAN ELSE {a.ip \in covered} :
       /\ todo' = todo \ {a.ip}
       /\ desired' = IF yes THEN desired \cup {mappings[a.ip]} ELSE desired
  /\ asking' = {}
  /\ UNCHANGED <<world, open, watching, cover, trigger, faults, links, pc, mappings, current, target, got, closing>>

-----------------------------------------------------------------------------
(* Manager.Reconcile *)

Reconcile ==
  /\ pc = "ask" /\ todo = {}
  /\ pc' = "attach"
  /\ current' = DOMAIN links
  /\ todo' = desired \ DOMAIN links
  /\ UNCHANGED <<world, open, watching, cover, trigger, faults, links, mappings, desired, target, got, closing, asking>>

attachIndex(i) ==
  /\ pc = "attach" /\ i \in todo
  /\ todo' = todo \ {i}
  /\ target' = {i}
  /\ pc' = IF i \in DOMAIN links THEN "attach" ELSE "ingress"
  /\ UNCHANGED <<world, open, watching, cover, trigger, faults, links, mappings, desired, current, got, closing, asking>>

\* A TCX link can be attached: the interface is there and has no such link yet.
CanAttach(i, dir) == i \in DOMAIN veth /\ Link(i, dir) \notin open

\* Mutant: an error of the first attach is ignored.
MutIngressUnchecked ==
  /\ pc = "ingress"
  /\ \E i \in target :
       \/ /\ CanAttach(i, "ingress")
          /\ open' = open \cup {Link(i, "ingress")}
          /\ got' = {Link(i, "ingress")}
          /\ pc' = "egress"
          /\ UNCHANGED faults
       \/ /\ IF CanAttach(i, "ingress") THEN Fault ELSE UNCHANGED faults
          /\ pc' = "record"
          /\ UNCHANGED <<open, got>>
  /\ UNCHANGED <<world, watching, cover, trigger, links, todo, round, closing, asking>>

attachIngress ==
  /\ pc = "ingress"
  /\ \E i \in target :
       \/ /\ CanAttach(i, "ingress")
          /\ open' = open \cup {Link(i, "ingress")}
          /\ got' = {Link(i, "ingress")}
          /\ pc' = "egress"
          /\ UNCHANGED faults
       \/ /\ IF CanAttach(i, "ingress") THEN Fault ELSE UNCHANGED faults
          /\ pc' = "attach"
          /\ UNCHANGED <<open, got>>
  /\ UNCHANGED <<world, watching, cover, trigger, links, todo, round, closing, asking>>

\* Mutant: the first link is not closed when the second cannot be attached.
MutEgressLeaks ==
  /\ pc = "egress"
  /\ \E i \in target :
       \/ /\ CanAttach(i, "egress")
          /\ open' = open \cup {Link(i, "egress")}
          /\ got' = got \cup {Link(i, "egress")}
          /\ pc' = "record"
          /\ UNCHANGED faults
       \/ /\ IF CanAttach(i, "egress") THEN Fault ELSE UNCHANGED faults
          /\ got' = {}
          /\ pc' = "attach"
          /\ UNCHANGED open
  /\ UNCHANGED <<world, watching, cover, trigger, links, todo, round, closing, asking>>

attachEgress ==
  /\ pc = "egress"
  /\ \E i \in target :
       \/ /\ CanAttach(i, "egress")
          /\ open' = open \cup {Link(i, "egress")}
          /\ got' = got \cup {Link(i, "egress")}
          /\ pc' = "record"
          /\ UNCHANGED faults
       \/ /\ IF CanAttach(i, "egress") THEN Fault ELSE UNCHANGED faults
          /\ pc' = "undo"
          /\ UNCHANGED <<open, got>>
  /\ UNCHANGED <<world, watching, cover, trigger, links, todo, round, closing, asking>>

\* The ingress link is closed when the egress link could not be attached.
closeIngress ==
  /\ pc = "undo"
  /\ open' = open \ got
  /\ got' = {}
  /\ pc' = "attach"
  /\ UNCHANGED <<world, watching, cover, trigger, faults, links, todo, round, closing, asking>>

Record ==
  /\ pc = "record"
  /\ \E i \in target : links' = Extend(links, i, got)
  /\ got' = {}
  /\ pc' = "attach"
  /\ UNCHANGED <<world, open, watching, cover, trigger, faults, todo, round, closing, asking>>

Attached ==
  /\ pc = "attach" /\ todo = {}
  /\ pc' = "detach"
  /\ todo' = current \ desired
  /\ desired' = {} /\ current' = {} /\ target' = {}
  /\ UNCHANGED <<world, open, watching, cover, trigger, faults, links, mappings, got, closing, asking>>

\* Manager.detach, called by goroutine g: forget the links, then close them.
detach(g, i) ==
  /\ closing' = [closing EXCEPT ![g] = IF i \in DOMAIN links THEN links[i] ELSE {}]
  /\ links' = Without(links, i)

CloseLink(g) ==
  /\ \E l \in closing[g] :
       /\ open' = open \ {l}
       /\ closing' = [closing EXCEPT ![g] = @ \ {l}]
  /\ UNCHANGED <<world, watching, cover, trigger, faults, links, pc, todo, round, got, asking>>

Detach(i) ==
  /\ pc = "detach" /\ closing["enforcer"] = {} /\ i \in todo
  /\ todo' = todo \ {i}
  /\ detach("enforcer", i)
  /\ UNCHANGED <<world, open, watching, cover, trigger, faults, pc, round, got, asking>>

Reconciled ==
  /\ pc = "detach" /\ closing["enforcer"] = {} /\ todo = {}
  /\ pc' = "wait"
  /\ UNCHANGED <<world, open, watching, cover, trigger, faults, links, todo, round, got, closing, asking>>

-----------------------------------------------------------------------------
(* Manager.Watch *)

WatchDetach ==
  /\ watching /\ closing["watch"] = {} /\ netq # <<>>
  /\ netq' = Tail(netq)
  /\ detach("watch", Head(netq))
  /\ UNCHANGED <<veth, retired, veths, open, watching, cover, trigger, faults, pc, todo, round, got, asking>>

\* The subscription ends (an error on the socket): Watch returns for good.
WatchEnd ==
  /\ watching /\ closing["watch"] = {}
  /\ Fault
  /\ watching' = FALSE
  /\ netq' = <<>>
  /\ UNCHANGED <<veth, retired, veths, open, cover, trigger, links, pc, todo, round, got, closing, asking>>

-----------------------------------------------------------------------------
Enforcer ==
  \/ Wake \/ ReadProc \/ Resolved \/ Reconcile \/ attachIngress \/ attachEgress \/ closeIngress \/ Record
  \/ Attached \/ Reconciled \/ CloseLink("enforcer")
  \/ \E n \in todo : inspectNetns(n)
  \/ Ask \/ \E n \in todo : AskPod(n)
  \/ \E n \in todo : attachIndex(n)
  \/ \E n \in todo : Detach(n)

Watch == WatchDetach \/ WatchEnd \/ CloseLink("watch")

Node ==
  \/ \E i \in Ifindexes, ip \in IPs : AddVeth(i, ip)
  \/ \E i \in Ifindexes : DelVeth(i)

Next ==
  \/ Enforcer \/ Watch \/ Node
  \/ \E w \in Watchers : Notify(w) \/ \E ips \in SUBSET IPs : Cover(w, ips)

Spec == Init /\ [][Next]_vars

\* The scheduler runs every goroutine that can run, and the ticker keeps
\* ticking; a wake-up by the ticker does not need a token.
Fairness ==
  /\ WF_vars(Enforcer)
  /\ WF_vars(WatchDetach) /\ WF_vars(CloseLink("watch"))
  /\ \A w \in Watchers : WF_vars(Notify(w))

FairSpec == Spec /\ Fairness

-----------------------------------------------------------------------------
(* Properties *)

PC == {"wait", "resolve", "walk", "ask", "attach", "ingress", "egress", "undo", "record", "detach"}

Links == [dev : Nat, dir : {"ingress", "egress"}]

TypeOK ==
  /\ DOMAIN veth \subseteq Ifindexes /\ retired \subseteq Ifindexes /\ veths \in Nat
  /\ \A i \in DOMAIN veth : veth[i] \in [dev : 1 .. veths, ip : IPs]
  /\ open \subseteq Links
  /\ netq \in Seq(Ifindexes)
  /\ watching \in BOOLEAN /\ trigger \in BOOLEAN
  /\ covered \subseteq IPs /\ notifying \subseteq Watchers
  /\ changes \in Nat /\ faults \in Nat
  /\ DOMAIN links \subseteq Ifindexes
  /\ \A i \in DOMAIN links : links[i] \subseteq Links /\ {l.dir : l \in links[i]} = {"ingress", "egress"}
  /\ pc \in PC
  /\ DOMAIN mappings \subseteq IPs /\ \A ip \in DOMAIN mappings : mappings[ip] \in Ifindexes
  /\ desired \subseteq Ifindexes /\ current \subseteq Ifindexes /\ target \subseteq Ifindexes
  /\ got \subseteq Links /\ closing \in [{"enforcer", "watch"} -> SUBSET Links]
  /\ asking \subseteq [ip : IPs, moved : BOOLEAN]

\* LinksOwned: through every failed attach, deleted interface and concurrent
\* detach, a TCX link is open if and only if exactly one place answers for
\* closing it: the Manager's table, the attach in progress, or a goroutine that
\* took it out of the table.  None leaks and none is closed while recorded.
LinksOwned ==
  LET hands == {got, closing["enforcer"], closing["watch"]}
  IN  /\ open = (UNION {links[i] : i \in DOMAIN links}) \cup (UNION hands)
      /\ \A i \in DOMAIN links : \A s \in hands : links[i] \cap s = {}
      /\ \A i, j \in DOMAIN links : i # j => links[i] \cap links[j] = {}
      /\ got \cap (closing["enforcer"] \cup closing["watch"]) = {}
      /\ closing["enforcer"] \cap closing["watch"] = {}

HasLinks(i) == {Link(i, "ingress"), Link(i, "egress")} \subseteq open

\* NothingMissed: unless a system call failed, an enforcer that waits with no
\* token in its channel and no notification under way has acted on the newest
\* coverage: the veths it found carry links if and only if their pods are
\* covered.  However the changes fall into a running round, none is lost.
NothingMissed ==
  pc = "wait" /\ ~trigger /\ notifying = {} /\ faults = 0 =>
    \A i \in DOMAIN veth :
      veth[i].ip \in DOMAIN mappings /\ mappings[veth[i].ip] = i =>
        (HasLinks(i) <=> veth[i].ip \in covered)

\* Converges: once pods and policies stop changing and system calls stop
\* failing, exactly the veths of covered pods carry both links, and the others
\* none, for good, whatever the rounds before did or left undone.
Converges ==
  <>[](\A i \in DOMAIN veth :
         /\ HasLinks(i) <=> veth[i].ip \in covered
         /\ veth[i].ip \notin covered => \A l \in open : l.dev # veth[i].dev)

\* IndexFreed: while Watch runs, a new pod that is given the interface index of
\* a deleted one is treated like any other; detach is to "release the link FDs
\* and free the ifindex for reuse by a future pod" (iface/iface.go).
IndexFreed == []watching => Converges
=============================================================================
