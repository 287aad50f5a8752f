---------------------------- MODULE AttachProofs ----------------------------
(* Proofs about Attach, for any interfaces, pods, watchers and bounds, with *)
(* and without reuse of interface indexes.                                 *)
EXTENDS Attach, TLAPS

-----------------------------------------------------------------------------
(* Every open link has one owner.                                          *)

Recorded(l) == \E i \in DOMAIN links : l \in links[i]

(* LinksOwned, link by link.                                               *)
OwnersInv ==
  /\ \A l : l \in open <=> \/ Recorded(l) \/ l \in got
                           \/ l \in closing["enforcer"] \/ l \in closing["watch"]
  /\ \A l : Recorded(l) => l \notin got /\ l \notin closing["enforcer"] /\ l \notin closing["watch"]
  /\ \A i, j \in DOMAIN links : i # j => \A l : ~(l \in links[i] /\ l \in links[j])
  /\ \A l \in got : l \notin closing["enforcer"] /\ l \notin closing["watch"]
  /\ \A l \in closing["enforcer"] : l \notin closing["watch"]

(* Only the enforcer attaches, to an index that has no links, and it holds *)
(* links only between an attach and their recording.                       *)
AttachingInv ==
  /\ DOMAIN closing = {"enforcer", "watch"}
  /\ pc \notin {"egress", "undo", "record"} => got = {}
  /\ pc \in {"ingress", "egress", "record"} => \A i \in target : i \notin DOMAIN links

OwnedInv == OwnersInv /\ AttachingInv

LEMMA OwnedInit == Init => OwnedInv
  BY DEF Init, OwnedInv, OwnersInv, AttachingInv, Recorded, EmptyStore

(* Steps that touch neither links nor the table.                           *)
LEMMA OwnedElsewhere ==
    ASSUME OwnedInv, UNCHANGED <<open, links, got, closing>>,
           \/ UNCHANGED <<pc, target>>
           \/ /\ pc \notin {"egress", "undo", "record"}
              /\ pc' \notin {"ingress", "egress", "record"}
           \/ pc' = "undo" /\ pc = "egress" /\ UNCHANGED target
           \/ pc' = "ingress" /\ pc = "attach" /\ \A i \in target' : i \notin DOMAIN links
    PROVE  OwnedInv'
  <1>1. OwnersInv'
    BY DEF OwnedInv, OwnersInv, Recorded
  <1>2. AttachingInv'
    BY DEF OwnedInv, AttachingInv
  <1> QED BY <1>1, <1>2 DEF OwnedInv

(* A new link belongs to nobody before it is attached.                     *)
LEMMA OwnedTake ==
    ASSUME OwnedInv, NEW l, l \notin open,
           open' = open \cup {l}, got' = got \cup {l}, UNCHANGED <<links, closing, target>>,
           \/ pc = "ingress" /\ pc' = "egress"
           \/ pc = "egress" /\ pc' = "record"
    PROVE  OwnedInv'
  <1>1. OwnersInv'
    BY DEF OwnedInv, OwnersInv, Recorded
  <1>2. AttachingInv'
    BY DEF OwnedInv, AttachingInv
  <1> QED BY <1>1, <1>2 DEF OwnedInv

LEMMA OwnedIngress == ASSUME OwnedInv, attachIngress PROVE OwnedInv'
  <1>1. PICK i \in target :
          \/ /\ CanAttach(i, "ingress")
             /\ open' = open \cup {Link(i, "ingress")}
             /\ got' = {Link(i, "ingress")}
             /\ pc' = "egress"
          \/ pc' = "attach" /\ UNCHANGED <<open, got>>
    BY DEF attachIngress
  <1>2. pc = "ingress" /\ got = {} /\ UNCHANGED <<links, closing, target>>
    BY DEF attachIngress, OwnedInv, AttachingInv, round
  <1>3. CASE pc' = "attach" /\ UNCHANGED <<open, got>>
    BY <1>2, <1>3, OwnedElsewhere
  <1>4. CASE /\ CanAttach(i, "ingress")
             /\ open' = open \cup {Link(i, "ingress")}
             /\ got' = {Link(i, "ingress")}
             /\ pc' = "egress"
    BY <1>2, <1>4, OwnedTake DEF CanAttach
  <1> QED BY <1>1, <1>3, <1>4

LEMMA OwnedEgress == ASSUME OwnedInv, attachEgress PROVE OwnedInv'
  <1>1. PICK i \in target :
          \/ /\ CanAttach(i, "egress")
             /\ open' = open \cup {Link(i, "egress")}
             /\ got' = got \cup {Link(i, "egress")}
             /\ pc' = "record"
          \/ pc' = "undo" /\ UNCHANGED <<open, got>>
    BY DEF attachEgress
  <1>2. pc = "egress" /\ UNCHANGED <<links, closing, target>>
    BY DEF attachEgress, round
  <1>3. CASE pc' = "undo" /\ UNCHANGED <<open, got>>
    BY <1>2, <1>3, OwnedElsewhere
  <1>4. CASE /\ CanAttach(i, "egress")
             /\ open' = open \cup {Link(i, "egress")}
             /\ got' = got \cup {Link(i, "egress")}
             /\ pc' = "record"
    BY <1>2, <1>4, OwnedTake DEF CanAttach
  <1> QED BY <1>1, <1>3, <1>4

LEMMA OwnedUndo == ASSUME OwnedInv, closeIngress PROVE OwnedInv'
  <1>1. /\ pc = "undo" /\ pc' = "attach" /\ open' = open \ got /\ got' = {}
        /\ UNCHANGED <<links, closing, target>>
    BY DEF closeIngress, round
  <1>2. OwnersInv'
    BY <1>1 DEF OwnedInv, OwnersInv, Recorded
  <1>3. AttachingInv'
    BY <1>1 DEF OwnedInv, AttachingInv
  <1> QED BY <1>2, <1>3 DEF OwnedInv

(* The links change hands from the attach in progress to the table.        *)
LEMMA OwnedRecord == ASSUME OwnedInv, Record PROVE OwnedInv'
  <1>1. PICK i \in target : links' = Extend(links, i, got)
    BY DEF Record
  <1>2. /\ pc = "record" /\ pc' = "attach" /\ got' = {}
        /\ UNCHANGED <<open, closing>> /\ i \notin DOMAIN links
    BY DEF Record, OwnedInv, AttachingInv
  <1>3. /\ DOMAIN links' = DOMAIN links \cup {i} /\ links'[i] = got
        /\ \A j \in DOMAIN links : links'[j] = links[j]
    BY <1>1, <1>2 DEF Extend
  <1>4. ASSUME NEW l PROVE Recorded(l)' <=> Recorded(l) \/ l \in got
    BY <1>3, <1>2 DEF Recorded
  <1>5. OwnersInv'
    <2>1. \A j, k \in DOMAIN links' : j # k => \A l : ~(l \in links'[j] /\ l \in links'[k])
      BY <1>3, <1>2 DEF OwnedInv, OwnersInv, Recorded
    <2> QED BY <1>2, <1>4, <2>1 DEF OwnedInv, OwnersInv
  <1>6. AttachingInv'
    BY <1>2 DEF OwnedInv, AttachingInv
  <1> QED BY <1>5, <1>6 DEF OwnedInv

(* The links change hands from the table to the goroutine that closes them. *)
LEMMA OwnedDetach ==
    ASSUME OwnedInv, NEW g \in {"enforcer", "watch"}, NEW i, closing[g] = {}, detach(g, i),
           UNCHANGED <<open, got, pc, target>>
    PROVE  OwnedInv'
  <1>1. /\ DOMAIN links' = DOMAIN links \ {i}
        /\ \A j \in DOMAIN links' : links'[j] = links[j]
    BY DEF detach, Without, Restrict
  <1>2. /\ DOMAIN closing' = {"enforcer", "watch"}
        /\ closing'[g] = IF i \in DOMAIN links THEN links[i] ELSE {}
        /\ \A h \in {"enforcer", "watch"} \ {g} : closing'[h] = closing[h]
    BY DEF detach, OwnedInv, AttachingInv
  <1>3. ASSUME NEW l PROVE Recorded(l)' <=> Recorded(l) /\ l \notin closing'[g]
    BY <1>1, <1>2 DEF Recorded, OwnedInv, OwnersInv
  <1>4. ASSUME NEW l PROVE l \in closing'[g] => Recorded(l)
    BY <1>2 DEF Recorded
  <1>5. \A j, k \in DOMAIN links' : j # k => \A l : ~(l \in links'[j] /\ l \in links'[k])
    BY <1>1 DEF OwnedInv, OwnersInv
  <1>6. OwnersInv'
    <2>1. CASE g = "enforcer"
      BY <1>2, <1>3, <1>4, <1>5, <2>1 DEF OwnedInv, OwnersInv
    <2>2. CASE g = "watch"
      BY <1>2, <1>3, <1>4, <1>5, <2>2 DEF OwnedInv, OwnersInv
    <2> QED BY <2>1, <2>2
  <1>7. AttachingInv'
    BY <1>1, <1>2 DEF OwnedInv, AttachingInv
  <1> QED BY <1>6, <1>7 DEF OwnedInv

LEMMA OwnedClose ==
    ASSUME OwnedInv, NEW g \in {"enforcer", "watch"}, CloseLink(g)
    PROVE  OwnedInv'
  <1>1. PICK l \in closing[g] : /\ open' = open \ {l}
                                /\ closing' = [closing EXCEPT ![g] = @ \ {l}]
    BY DEF CloseLink
  <1>2. UNCHANGED <<links, got, pc, target>>
    BY DEF CloseLink, round
  <1>3. /\ DOMAIN closing' = {"enforcer", "watch"}
        /\ closing'[g] = closing[g] \ {l}
        /\ \A h \in {"enforcer", "watch"} \ {g} : closing'[h] = closing[h]
    BY <1>1 DEF OwnedInv, AttachingInv
  <1>4. OwnersInv'
    <2>1. CASE g = "enforcer"
      BY <1>1, <1>2, <1>3, <2>1 DEF OwnedInv, OwnersInv, Recorded
    <2>2. CASE g = "watch"
      BY <1>1, <1>2, <1>3, <2>2 DEF OwnedInv, OwnersInv, Recorded
    <2> QED BY <2>1, <2>2
  <1>5. AttachingInv'
    BY <1>2, <1>3 DEF OwnedInv, AttachingInv
  <1> QED BY <1>4, <1>5 DEF OwnedInv

LEMMA OwnedStep == OwnedInv /\ [Next]_vars => OwnedInv'
  <1> SUFFICES ASSUME OwnedInv, [Next]_vars PROVE OwnedInv'
    OBVIOUS
  <1>1. CASE Wake \/ ReadProc \/ Resolved \/ Reconcile \/ Attached \/ Reconciled
    BY <1>1, OwnedElsewhere DEF Wake, ReadProc, Resolved, Reconcile, Attached, Reconciled, round
  <1>2. ASSUME Ask \/ \E n \in todo : inspectNetns(n) \/ AskPod(n) PROVE OwnedInv'
    BY <1>2, OwnedElsewhere DEF inspectNetns, Ask, AskPod, round
  <1>3. ASSUME NEW n \in todo, attachIndex(n) PROVE OwnedInv'
    BY <1>3, OwnedElsewhere DEF attachIndex
  <1>4. CASE attachIngress
    BY <1>4, OwnedIngress
  <1>5. CASE attachEgress
    BY <1>5, OwnedEgress
  <1>6. CASE Record \/ closeIngress
    BY <1>6, OwnedRecord, OwnedUndo
  <1>7. ASSUME NEW n \in todo, Detach(n) PROVE OwnedInv'
    BY <1>7, OwnedDetach DEF Detach, round
  <1>8. CASE CloseLink("enforcer") \/ CloseLink("watch")
    BY <1>8, OwnedClose
  <1>9. CASE WatchDetach
    BY <1>9, OwnedDetach DEF WatchDetach, round
  <1>10. CASE WatchEnd
    BY <1>10, OwnedElsewhere DEF WatchEnd, round
  <1>11. CASE Node
    BY <1>11, OwnedElsewhere DEF Node, AddVeth, DelVeth, round
  <1>12. ASSUME NEW w \in Watchers, Notify(w) \/ \E ips \in SUBSET IPs : Cover(w, ips)
         PROVE  OwnedInv'
    BY <1>12, OwnedElsewhere DEF Notify, Cover, round
  <1>13. CASE UNCHANGED vars
    BY <1>13, OwnedElsewhere DEF vars, round
  <1> QED
    BY <1>1, <1>2, <1>3, <1>4, <1>5, <1>6, <1>7, <1>8, <1>9, <1>10, <1>11, <1>12, <1>13
    DEF Next, Enforcer, Watch

(* Every open TCX link is in the Manager's table, in the hands of the      *)
(* attach in progress or of a goroutine about to close it, and in one of   *)
(* them only: nothing leaks, and nothing recorded is closed, whatever      *)
(* fails, vanishes or is detached concurrently, also with reused indexes.  *)
THEOREM LinksHaveOwners == Spec => []LinksOwned
  <1>1. OwnedInv => LinksOwned
    <2> SUFFICES ASSUME OwnedInv PROVE LinksOwned
      OBVIOUS
    <2>1. open = (UNION {links[i] : i \in DOMAIN links})
                   \cup (UNION {got, closing["enforcer"], closing["watch"]})
      <3> DEFINE table == UNION {links[i] : i \in DOMAIN links}
                 hands == UNION {got, closing["enforcer"], closing["watch"]}
      <3>1. ASSUME NEW l PROVE l \in table <=> Recorded(l)
        BY DEF Recorded
      <3>2. ASSUME NEW l
            PROVE  l \in hands <=> l \in got \/ l \in closing["enforcer"] \/ l \in closing["watch"]
        OBVIOUS
      <3>3. ASSUME NEW l PROVE l \in open <=> l \in table \cup hands
        BY <3>1, <3>2 DEF OwnedInv, OwnersInv
      <3>4. open = table \cup hands
        <4> HIDE DEF table, hands
        <4> QED BY <3>3
      <3> QED BY <3>4
    <2>2. \A i \in DOMAIN links : \A s \in {got, closing["enforcer"], closing["watch"]} :
            links[i] \cap s = {}
      BY DEF OwnedInv, OwnersInv, Recorded
    <2>3. \A i, j \in DOMAIN links : i # j => links[i] \cap links[j] = {}
      BY DEF OwnedInv, OwnersInv
    <2>4. got \cap (closing["enforcer"] \cup closing["watch"]) = {}
      BY DEF OwnedInv, OwnersInv
    <2>5. closing["enforcer"] \cap closing["watch"] = {}
      BY DEF OwnedInv, OwnersInv
    <2> QED BY <2>1, <2>2, <2>3, <2>4, <2>5 DEF LinksOwned
  <1> QED BY <1>1, OwnedInit, OwnedStep, PTL DEF Spec
-----------------------------------------------------------------------------
(* Types.                                                                  *)

(* What is left of the loop the enforcer is in.                            *)
TodoInv ==
  /\ pc = "walk" => \A n \in todo : n.idx \in Ifindexes /\ n.ip \in IPs
  /\ pc = "ask" => todo \subseteq DOMAIN mappings
  /\ pc \in {"attach", "ingress", "egress", "undo", "record"} => todo \subseteq Ifindexes

Dirs(s) == {l.dir : l \in s}

(* Links are recorded in pairs.                                            *)
PairInv ==
  /\ pc = "egress" => Dirs(got) = {"ingress"}
  /\ pc = "record" => Dirs(got) = {"ingress", "egress"}

(* The pod that is being asked about is still to be done.                  *)
AskingInv == \A a \in asking : pc = "ask" /\ a.ip \in todo

TypeInv == TypeOK /\ TodoInv /\ PairInv /\ AskingInv

(* TypeOK by the parts that a step may change.                             *)
WorldOK ==
  /\ DOMAIN veth \subseteq Ifindexes /\ retired \subseteq Ifindexes /\ veths \in Nat
  /\ \A i \in DOMAIN veth : veth[i] \in [dev : 1 .. veths, ip : IPs]
  /\ netq \in Seq(Ifindexes)
CoverOK ==
  /\ watching \in BOOLEAN /\ trigger \in BOOLEAN
  /\ covered \subseteq IPs /\ notifying \subseteq Watchers
  /\ changes \in Nat /\ faults \in Nat
LinksOK ==
  /\ open \subseteq Links
  /\ DOMAIN links \subseteq Ifindexes
  /\ \A i \in DOMAIN links : links[i] \subseteq Links /\ Dirs(links[i]) = {"ingress", "egress"}
  /\ got \subseteq Links /\ closing \in [{"enforcer", "watch"} -> SUBSET Links]
RoundOK ==
  /\ pc \in PC
  /\ DOMAIN mappings \subseteq IPs /\ \A ip \in DOMAIN mappings : mappings[ip] \in Ifindexes
  /\ desired \subseteq Ifindexes /\ current \subseteq Ifindexes /\ target \subseteq Ifindexes
AskingOK == asking \subseteq [ip : IPs, moved : BOOLEAN]

LEMMA TypeParts == TypeOK <=> WorldOK /\ CoverOK /\ LinksOK /\ RoundOK /\ AskingOK
  BY DEF TypeOK, WorldOK, CoverOK, LinksOK, RoundOK, AskingOK, Dirs

LEMMA TypeInit == Init => TypeInv
  <1> SUFFICES ASSUME Init PROVE TypeInv
    OBVIOUS
  <1>1. WorldOK
    BY DEF Init, WorldOK, EmptyStore
  <1>2. CoverOK
    BY DEF Init, CoverOK
  <1>3. LinksOK
    BY DEF Init, LinksOK, EmptyStore
  <1>4. RoundOK /\ TodoInv /\ PairInv /\ AskingOK /\ AskingInv
    BY DEF Init, RoundOK, TodoInv, PairInv, AskingOK, AskingInv, PC, EmptyStore
  <1> QED BY <1>1, <1>2, <1>3, <1>4, TypeParts DEF TypeInv

LEMMA WorldStep == TypeInv /\ [Next]_vars => WorldOK'
  <1> SUFFICES ASSUME TypeInv, [Next]_vars PROVE WorldOK'
    OBVIOUS
  <1> WorldOK
    BY TypeParts DEF TypeInv
  <1>1. ASSUME NEW i \in Ifindexes, NEW ip \in IPs, AddVeth(i, ip) PROVE WorldOK'
    <2>1. veths' = veths + 1 /\ UNCHANGED <<retired, netq>>
      BY <1>1 DEF AddVeth
    <2>2. veth' = Extend(veth, i, [dev |-> veths', ip |-> ip])
      BY <1>1 DEF AddVeth
    <2>3. DOMAIN veth' = DOMAIN veth \cup {i}
      BY <2>2 DEF Extend
    <2>4. ASSUME NEW j \in DOMAIN veth' PROVE veth'[j] \in [dev : 1 .. veths', ip : IPs]
      <3>1. CASE j = i
        <4>1. veth'[j] = [dev |-> veths', ip |-> ip]
          BY <2>2, <2>3, <3>1 DEF Extend
        <4>2. veths' \in 1 .. veths'
          BY <2>1 DEF WorldOK
        <4> QED BY <4>1, <4>2
      <3>2. CASE j # i
        <4>1. veth'[j] = veth[j] /\ j \in DOMAIN veth
          BY <2>2, <2>3, <3>2 DEF Extend
        <4>2. 1 .. veths \subseteq 1 .. veths'
          BY <2>1 DEF WorldOK
        <4>3. veth[j] \in [dev : 1 .. veths, ip : IPs]
          BY <4>1 DEF WorldOK
        <4> QED BY <4>1, <4>2, <4>3
      <3> QED BY <3>1, <3>2
    <2> QED BY <2>1, <2>3, <2>4 DEF WorldOK
  <1>2. ASSUME NEW i \in Ifindexes, DelVeth(i) PROVE WorldOK'
    <2>1. /\ veth' = Without(veth, i) /\ retired' = retired \cup {i} /\ UNCHANGED veths
          /\ netq' = Append(netq, i) \/ netq' = netq
      BY <1>2 DEF DelVeth
    <2>2. DOMAIN veth' = DOMAIN veth \ {i} /\ \A j \in DOMAIN veth' : veth'[j] = veth[j]
      BY <2>1 DEF Without, Restrict
    <2>3. netq' \in Seq(Ifindexes)
      BY <2>1 DEF WorldOK
    <2> QED BY <2>1, <2>2, <2>3 DEF WorldOK
  <1>3. CASE WatchDetach
    <2>1. netq # <<>> /\ netq' = Tail(netq) /\ UNCHANGED <<veth, retired, veths>>
      BY <1>3 DEF WatchDetach
    <2>2. netq' \in Seq(Ifindexes)
      BY <2>1 DEF WorldOK
    <2> QED BY <2>1, <2>2 DEF WorldOK
  <1>4. CASE WatchEnd
    BY <1>4 DEF WatchEnd, WorldOK
  <1>5. CASE UNCHANGED world
    BY <1>5 DEF world, WorldOK
  <1>6. UNCHANGED world \/ Node \/ WatchDetach \/ WatchEnd
    BY DEF Next, vars, Enforcer, Watch, Wake, ReadProc, Resolved, Reconcile, attachIngress,
       attachEgress, closeIngress, Record, Attached, Reconciled, CloseLink, inspectNetns, Ask,
       AskPod, attachIndex, Detach, Notify, Cover
  <1> QED BY <1>1, <1>2, <1>3, <1>4, <1>5, <1>6 DEF Node

LEMMA CoverStep == TypeInv /\ [Next]_vars => CoverOK'
  <1> SUFFICES ASSUME TypeInv, [Next]_vars PROVE CoverOK'
    OBVIOUS
  <1> CoverOK
    BY TypeParts DEF TypeInv
  <1>1. CASE Wake
    BY <1>1 DEF Wake, CoverOK, cover
  <1>2. CASE ReadProc \/ \E n \in todo : inspectNetns(n)
    <2>1. (UNCHANGED faults \/ faults' = faults + 1) /\ UNCHANGED <<watching, cover, trigger>>
      BY <1>2 DEF ReadProc, inspectNetns, Fault
    <2> QED BY <2>1 DEF CoverOK, cover
  <1>3. CASE attachIngress \/ attachEgress
    BY <1>3 DEF attachIngress, attachEgress, Fault, CoverOK, cover
  <1>4. CASE WatchEnd
    <2>1. watching' = FALSE /\ UNCHANGED <<cover, trigger>>
      BY <1>4 DEF WatchEnd
    <2>2. faults' \in Nat
      BY <1>4 DEF WatchEnd, Fault, CoverOK
    <2> QED BY <2>1, <2>2 DEF CoverOK, cover
  <1>5. ASSUME NEW w \in Watchers, Notify(w) PROVE CoverOK'
    BY <1>5 DEF Notify, CoverOK
  <1>6. ASSUME NEW w \in Watchers, NEW ips \in SUBSET IPs, Cover(w, ips) PROVE CoverOK'
    BY <1>6 DEF Cover, CoverOK
  <1>7. CASE UNCHANGED <<watching, cover, trigger, faults>>
    BY <1>7 DEF CoverOK, cover
  <1>8. \/ UNCHANGED <<watching, cover, trigger, faults>>
        \/ Wake \/ ReadProc \/ \E n \in todo : inspectNetns(n)
        \/ attachIngress \/ attachEgress \/ WatchEnd
        \/ \E w \in Watchers : Notify(w) \/ \E ips \in SUBSET IPs : Cover(w, ips)
    BY DEF Next, vars, Enforcer, Watch, Node, Resolved, Reconcile, closeIngress, Record,
       Attached, Reconciled, CloseLink, Ask, AskPod, attachIndex, Detach, WatchDetach, AddVeth,
       DelVeth
  <1> QED BY <1>1, <1>2, <1>3, <1>4, <1>5, <1>6, <1>7, <1>8

LEMMA LinkType == ASSUME WorldOK, NEW i \in DOMAIN veth, NEW d \in {"ingress", "egress"}
                  PROVE  Link(i, d) \in Links /\ Link(i, d).dir = d
  <1>1. veth[i] \in [dev : 1 .. veths, ip : IPs] /\ veths \in Nat
    BY DEF WorldOK
  <1>2. veth[i].dev \in Nat
    BY <1>1
  <1> QED BY <1>2 DEF Link, Links

LEMMA DetachType == ASSUME LinksOK, NEW g \in {"enforcer", "watch"}, NEW i, detach(g, i),
                           UNCHANGED <<open, got>>
                    PROVE  LinksOK'
  <1>1. DOMAIN links' = DOMAIN links \ {i} /\ \A j \in DOMAIN links' : links'[j] = links[j]
    BY DEF detach, Without, Restrict
  <1>2. closing' \in [{"enforcer", "watch"} -> SUBSET Links]
    BY DEF detach, LinksOK
  <1> QED BY <1>1, <1>2 DEF LinksOK

LEMMA LinksStep == TypeInv /\ [Next]_vars => LinksOK' /\ PairInv'
  <1> SUFFICES ASSUME TypeInv, [Next]_vars PROVE LinksOK' /\ PairInv'
    OBVIOUS
  <1> WorldOK /\ LinksOK /\ RoundOK /\ PairInv
    BY TypeParts DEF TypeInv
  <1>1. CASE attachIngress
    <2>1. PICK i \in target :
            \/ /\ CanAttach(i, "ingress")
               /\ open' = open \cup {Link(i, "ingress")}
               /\ got' = {Link(i, "ingress")}
               /\ pc' = "egress"
            \/ pc' = "attach" /\ UNCHANGED <<open, got>>
      BY <1>1 DEF attachIngress
    <2>2. UNCHANGED <<links, closing>>
      BY <1>1 DEF attachIngress
    <2>3. CASE pc' = "attach" /\ UNCHANGED <<open, got>>
      BY <2>2, <2>3 DEF LinksOK, PairInv
    <2>4. CASE CanAttach(i, "ingress") /\ open' = open \cup {Link(i, "ingress")}
               /\ got' = {Link(i, "ingress")} /\ pc' = "egress"
      <3>1. Link(i, "ingress") \in Links /\ Link(i, "ingress").dir = "ingress"
        BY <2>4, LinkType DEF CanAttach
      <3>2. Dirs(got') = {"ingress"}
        BY <2>4, <3>1 DEF Dirs
      <3> QED BY <2>2, <2>4, <3>1, <3>2 DEF LinksOK, PairInv
    <2> QED BY <2>1, <2>3, <2>4
  <1>2. CASE attachEgress
    <2>1. PICK i \in target :
            \/ /\ CanAttach(i, "egress")
               /\ open' = open \cup {Link(i, "egress")}
               /\ got' = got \cup {Link(i, "egress")}
               /\ pc' = "record"
            \/ pc' = "undo" /\ UNCHANGED <<open, got>>
      BY <1>2 DEF attachEgress
    <2>2. UNCHANGED <<links, closing>> /\ Dirs(got) = {"ingress"}
      BY <1>2 DEF attachEgress, PairInv
    <2>3. CASE pc' = "undo" /\ UNCHANGED <<open, got>>
      BY <2>2, <2>3 DEF LinksOK, PairInv
    <2>4. CASE CanAttach(i, "egress") /\ open' = open \cup {Link(i, "egress")}
               /\ got' = got \cup {Link(i, "egress")} /\ pc' = "record"
      <3>1. Link(i, "egress") \in Links /\ Link(i, "egress").dir = "egress"
        BY <2>4, LinkType DEF CanAttach
      <3>2. Dirs(got') = Dirs(got) \cup {"egress"}
        BY <2>4, <3>1 DEF Dirs
      <3> QED BY <2>2, <2>4, <3>1, <3>2 DEF LinksOK, PairInv
    <2> QED BY <2>1, <2>3, <2>4
  <1>3. CASE Record
    <2>1. PICK i \in target : links' = Extend(links, i, got)
      BY <1>3 DEF Record
    <2>2. got' = {} /\ pc' = "attach" /\ UNCHANGED <<open, closing>>
          /\ Dirs(got) = {"ingress", "egress"} /\ i \in Ifindexes
      BY <1>3 DEF Record, PairInv, RoundOK
    <2>3. DOMAIN links' = DOMAIN links \cup {i} /\ links'[i] = got
          /\ \A j \in DOMAIN links \ {i} : links'[j] = links[j]
      BY <2>1 DEF Extend
    <2> QED BY <2>2, <2>3 DEF LinksOK, PairInv
  <1>4. ASSUME NEW n \in todo, Detach(n) PROVE LinksOK' /\ PairInv'
    <2>1. detach("enforcer", n) /\ UNCHANGED <<open, got, pc>>
      BY <1>4 DEF Detach
    <2> QED BY <2>1, DetachType DEF PairInv
  <1>5. CASE WatchDetach
    <2>1. detach("watch", Head(netq)) /\ UNCHANGED <<open, got, pc>>
      BY <1>5 DEF WatchDetach
    <2> QED BY <2>1, DetachType DEF PairInv
  <1>6. ASSUME NEW g \in {"enforcer", "watch"}, CloseLink(g) PROVE LinksOK' /\ PairInv'
    <2>1. PICK l \in closing[g] : /\ open' = open \ {l}
                                  /\ closing' = [closing EXCEPT ![g] = @ \ {l}]
      BY <1>6 DEF CloseLink
    <2>2. UNCHANGED <<links, got, pc>>
      BY <1>6 DEF CloseLink
    <2>3. closing' \in [{"enforcer", "watch"} -> SUBSET Links]
      BY <2>1 DEF LinksOK
    <2> QED BY <2>1, <2>2, <2>3 DEF LinksOK, PairInv
  <1>7. CASE UNCHANGED <<open, links, got, closing>> /\ (pc' = pc \/ pc' \notin {"egress", "record"})
    BY <1>7 DEF LinksOK, PairInv
  <1>8. CASE closeIngress
    BY <1>8 DEF closeIngress, LinksOK, PairInv
  <1>9. \/ attachIngress \/ attachEgress \/ closeIngress \/ Record \/ WatchDetach
        \/ CloseLink("enforcer") \/ CloseLink("watch") \/ \E n \in todo : Detach(n)
        \/ UNCHANGED <<open, links, got, closing>> /\ (pc' = pc \/ pc' \notin {"egress", "record"})
    BY DEF Next, vars, Enforcer, Watch, Node, Wake, ReadProc, Resolved, Reconcile,
       closeIngress, Attached, Reconciled, inspectNetns, Ask, AskPod, attachIndex, WatchEnd,
       AddVeth, DelVeth, Notify, Cover
  <1> QED BY <1>1, <1>2, <1>3, <1>4, <1>5, <1>6, <1>7, <1>8, <1>9

(* One pod has been asked about; the answer is right unless pods or        *)
(* policies have moved on.                                                 *)
LEMMA AskShape ==
    ASSUME TypeInv, Ask
    PROVE  /\ pc = "ask" /\ pc' = "ask" /\ asking' = {}
           /\ UNCHANGED <<mappings, current, target, covered>>
           /\ \E a \in asking : \E yes \in BOOLEAN :
                /\ a.ip \in todo /\ a.ip \in DOMAIN mappings /\ todo' = todo \ {a.ip}
                /\ desired' = IF yes THEN desired \cup {mappings[a.ip]} ELSE desired
                /\ ~a.moved => (yes <=> a.ip \in covered)
  <1>1. /\ pc = "ask" /\ pc' = "ask" /\ asking' = {}
        /\ UNCHANGED <<mappings, current, target, covered>>
    BY DEF Ask, cover
  <1>2. PICK a \in asking : \E yes \in IF a.moved THEN BOOLEAN ELSE {a.ip \in covered} :
          /\ todo' = todo \ {a.ip}
          /\ desired' = IF yes THEN desired \cup {mappings[a.ip]} ELSE desired
    BY DEF Ask
  <1>3. PICK yes \in IF a.moved THEN BOOLEAN ELSE {a.ip \in covered} :
          /\ todo' = todo \ {a.ip}
          /\ desired' = IF yes THEN desired \cup {mappings[a.ip]} ELSE desired
    BY <1>2
  <1>4. yes \in BOOLEAN /\ (~a.moved => (yes <=> a.ip \in covered))
    <2>1. CASE a.moved
      BY <1>3, <2>1, Zenon
    <2>2. CASE ~a.moved
      <3>1. yes = (a.ip \in covered)
        BY <1>3, <2>2, Zenon
      <3>2. (a.ip \in covered) \in BOOLEAN
        OBVIOUS
      <3>3. yes \in BOOLEAN
        BY <3>1, <3>2, Zenon
      <3>4. CASE a.ip \in covered
        <4>1. yes
          BY <3>1, <3>4, Zenon
        <4> QED BY <3>3, <3>4, <4>1, Zenon
      <3>5. CASE ~(a.ip \in covered)
        <4>1. ~yes
          BY <3>1, <3>5, Zenon
        <4> QED BY <3>3, <3>5, <4>1, Zenon
      <3> QED BY <3>4, <3>5, Zenon
    <2> QED BY <2>1, <2>2
  <1>5. a.ip \in todo /\ a.ip \in DOMAIN mappings
    BY <1>1 DEF TypeInv, AskingInv, TodoInv
  <1> QED BY <1>1, <1>3, <1>4, <1>5

LEMMA AskingStep == TypeInv /\ [Next]_vars => AskingOK' /\ AskingInv'
  <1> SUFFICES ASSUME TypeInv, [Next]_vars PROVE AskingOK' /\ AskingInv'
    OBVIOUS
  <1> AskingOK /\ AskingInv
    BY TypeParts DEF TypeInv
  <1>1. CASE Ask
    BY <1>1 DEF Ask, AskingOK, AskingInv
  <1>2. ASSUME NEW ip \in todo, AskPod(ip) PROVE AskingOK' /\ AskingInv'
    <2>1. ip \in IPs
      BY <1>2, TypeParts DEF AskPod, TypeInv, TodoInv, RoundOK
    <2> QED BY <1>2, <2>1 DEF AskPod, AskingOK, AskingInv
  <1>3. ASSUME NEW w \in Watchers, NEW ips \in SUBSET IPs, Cover(w, ips)
        PROVE  AskingOK' /\ AskingInv'
    <2>1. /\ asking' = {[a EXCEPT !.moved = TRUE] : a \in asking}
          /\ UNCHANGED <<pc, todo>>
      BY <1>3 DEF Cover
    <2>2. ASSUME NEW b \in asking' PROVE b \in [ip : IPs, moved : BOOLEAN] /\ pc = "ask" /\ b.ip \in todo
      <3>1. PICK a \in asking : b = [a EXCEPT !.moved = TRUE]
        BY <2>1
      <3>2. a \in [ip : IPs, moved : BOOLEAN] /\ pc = "ask" /\ a.ip \in todo
        BY DEF AskingOK, AskingInv
      <3> QED BY <3>1, <3>2
    <2> QED BY <2>1, <2>2 DEF AskingOK, AskingInv
  <1>4. CASE asking' = asking /\ (asking = {} \/ UNCHANGED <<pc, todo>>)
    BY <1>4 DEF AskingOK, AskingInv
  <1>5. \/ Ask \/ \E n \in todo : AskPod(n)
        \/ \E w \in Watchers : \E ips \in SUBSET IPs : Cover(w, ips)
        \/ asking' = asking /\ (asking = {} \/ UNCHANGED <<pc, todo>>)
    <2>1. CASE Enforcer
      <3>1. pc # "ask" => asking = {}
        BY DEF AskingInv
      <3>2. todo = {} => asking = {}
        BY DEF AskingInv
      <3> QED BY <2>1, <3>1, <3>2
              DEF Enforcer, Wake, ReadProc, Resolved, Reconcile, attachIngress, attachEgress,
                 closeIngress, Record, Attached, Reconciled, CloseLink, inspectNetns,
                 attachIndex, Detach
    <2>2. CASE ~Enforcer
      BY <2>2 DEF Next, vars, Watch, Node, CloseLink, WatchDetach, WatchEnd, AddVeth, DelVeth, Notify
    <2> QED BY <2>1, <2>2
  <1> QED BY <1>1, <1>2, <1>3, <1>4, <1>5

LEMMA RoundStep == TypeInv /\ [Next]_vars => RoundOK' /\ TodoInv'
  <1> SUFFICES ASSUME TypeInv, [Next]_vars PROVE RoundOK' /\ TodoInv'
    OBVIOUS
  <1> WorldOK /\ LinksOK /\ RoundOK /\ TodoInv
    BY TypeParts DEF TypeInv
  <1>1. CASE ReadProc
    <2>1. UNCHANGED <<desired, current, target>>
      BY <1>1 DEF ReadProc
    <2>2. CASE pc' = "wait" /\ UNCHANGED <<todo, mappings>>
      BY <2>1, <2>2 DEF RoundOK, TodoInv, PC
    <2>3. CASE /\ todo' = {[dev |-> veth[i].dev, ip |-> veth[i].ip, idx |-> i] : i \in DOMAIN veth}
               /\ mappings' = EmptyStore /\ pc' = "walk"
      <3>1. ASSUME NEW n \in todo' PROVE n.idx \in Ifindexes /\ n.ip \in IPs
        <4>1. PICK i \in DOMAIN veth : n = [dev |-> veth[i].dev, ip |-> veth[i].ip, idx |-> i]
          BY <2>3
        <4> QED BY <4>1 DEF WorldOK
      <3>2. DOMAIN mappings' = {}
        BY <2>3 DEF EmptyStore
      <3> QED BY <2>1, <2>3, <3>1, <3>2 DEF RoundOK, TodoInv, PC
    <2> QED BY <1>1, <2>2, <2>3 DEF ReadProc
  <1>2. ASSUME NEW n \in todo, inspectNetns(n) PROVE RoundOK' /\ TodoInv'
    <2>1. pc = "walk" /\ todo' = todo \ {n} /\ UNCHANGED <<pc, desired, current, target>>
          /\ (mappings' = mappings \/ mappings' = Extend(mappings, n.ip, n.idx))
      BY <1>2 DEF inspectNetns
    <2>2. n.idx \in Ifindexes /\ n.ip \in IPs
      BY <2>1 DEF TodoInv
    <2>3. DOMAIN mappings' \subseteq IPs /\ \A ip \in DOMAIN mappings' : mappings'[ip] \in Ifindexes
      BY <2>1, <2>2 DEF RoundOK, Extend
    <2> QED BY <2>1, <2>3 DEF RoundOK, TodoInv
  <1>3. CASE Resolved
    BY <1>3 DEF Resolved, RoundOK, TodoInv, PC
  <1>4. CASE Ask
    BY <1>4, AskShape DEF RoundOK, TodoInv
  <1>5. CASE Reconcile
    BY <1>5 DEF Reconcile, RoundOK, TodoInv, LinksOK, PC
  <1>6. ASSUME NEW i \in todo, attachIndex(i) PROVE RoundOK' /\ TodoInv'
    BY <1>6 DEF attachIndex, RoundOK, TodoInv, PC
  <1>7. CASE attachIngress \/ attachEgress \/ closeIngress \/ Record
    <2>1. /\ pc \in {"ingress", "egress", "undo", "record"} /\ UNCHANGED <<todo, round>>
          /\ pc' \in {"attach", "egress", "undo", "record"}
      BY <1>7 DEF attachIngress, attachEgress, closeIngress, Record
    <2> QED BY <2>1 DEF RoundOK, TodoInv, PC, round
  <1>8. CASE Attached
    BY <1>8 DEF Attached, RoundOK, TodoInv, PC
  <1>9. CASE Wake \/ Reconciled
    BY <1>9 DEF Wake, Reconciled, RoundOK, TodoInv, PC, round
  <1>10. ASSUME NEW n \in todo, Detach(n) PROVE RoundOK' /\ TodoInv'
    BY <1>10 DEF Detach, RoundOK, TodoInv, round
  <1>11. CASE UNCHANGED <<pc, todo, round>>
    BY <1>11 DEF RoundOK, TodoInv, round
  <1>12. \/ ReadProc \/ Resolved \/ Reconcile \/ attachIngress \/ attachEgress \/ closeIngress
         \/ Record \/ Ask
         \/ Attached \/ Wake \/ Reconciled
         \/ \E n \in todo : inspectNetns(n)
         \/ \E n \in todo : attachIndex(n)
         \/ \E n \in todo : Detach(n)
         \/ UNCHANGED <<pc, todo, round>>
    BY DEF Next, vars, Enforcer, Watch, Node, CloseLink, WatchDetach, WatchEnd, AddVeth,
       DelVeth, Notify, Cover, AskPod
  <1> QED BY <1>1, <1>2, <1>3, <1>4, <1>5, <1>6, <1>7, <1>8, <1>9, <1>10, <1>11, <1>12

LEMMA TypeStep == TypeInv /\ [Next]_vars => TypeInv'
  <1> SUFFICES ASSUME TypeInv, [Next]_vars PROVE TypeInv'
    OBVIOUS
  <1>1. WorldOK' /\ CoverOK' /\ LinksOK' /\ PairInv' /\ RoundOK' /\ TodoInv'
        /\ AskingOK' /\ AskingInv'
    BY WorldStep, CoverStep, LinksStep, RoundStep, AskingStep
  <1>2. TypeOK'
    BY <1>1, TypeParts DEF TypeOK, WorldOK, CoverOK, LinksOK, RoundOK, AskingOK, Dirs
  <1> QED BY <1>1, <1>2 DEF TypeInv

(* The state is well-typed; what is recorded for an interface is always a  *)
(* pair of an ingress and an egress link, never the half of a failed       *)
(* attach.                                                                 *)
THEOREM TypeCorrect == Spec => []TypeOK
  BY TypeInit, TypeStep, PTL DEF Spec, TypeInv

-----------------------------------------------------------------------------
(* No change of coverage is missed, while indexes are not given out again. *)

Known == DOMAIN veth \cup retired

(* Links of this set are on the device of interface i, if it is there, and  *)
(* on no other device that is there.                                       *)
On(s, i, v) == \A l \in s : \A j \in DOMAIN v : l.dev = v[j].dev <=> i = j

(* An index is used once: whoever remembers one remembers its only use.    *)
WorldInv ==
  /\ retired \cap DOMAIN veth = {}
  /\ \A i, j \in DOMAIN veth : veth[i].dev = veth[j].dev => i = j
  /\ \A k \in DOMAIN netq : netq[k] \in retired
  /\ \A l \in open : l.dev <= veths

FoundInv ==
  /\ \A ip \in DOMAIN mappings :
       /\ mappings[ip] \in Known
       /\ mappings[ip] \in DOMAIN veth => veth[mappings[ip]].ip = ip
  /\ \A ip, jp \in DOMAIN mappings : mappings[ip] = mappings[jp] => ip = jp
  /\ pc = "walk" => \A n \in todo : /\ n.idx \in Known
                                    /\ n.idx \in DOMAIN veth => veth[n.idx].ip = n.ip

LinkInv ==
  /\ DOMAIN links \subseteq Known /\ desired \subseteq Known
  /\ \A i \in DOMAIN links : On(links[i], i, veth)
  /\ pc \in {"egress", "record"} => \A i \in target : On(got, i, veth)
  /\ \A l \in closing["watch"] : \A j \in DOMAIN veth : l.dev # veth[j].dev
  /\ pc # "detach" => closing["enforcer"] = {}

AtLink == {"ingress", "egress", "record"}
Attaching == AtLink \cup {"attach", "undo"}

(* No change of coverage waits to be noticed.                              *)
Fresh == ~trigger /\ notifying = {}

Asked == IF pc = "ask" THEN DOMAIN mappings \ todo ELSE DOMAIN mappings

AskInv ==
  /\ pc \in Attaching \cup {"ask"} =>
       desired \subseteq {mappings[ip] : ip \in DOMAIN mappings}
  /\ pc \notin Attaching \cup {"ask"} => desired = {}
  /\ pc \in Attaching \cup {"ask"} /\ Fresh =>
       desired = {mappings[ip] : ip \in Asked \cap covered}

(* Nor did one come between the two reads about a pod.                     *)
MovedInv == Fresh => \A a \in asking : ~a.moved

AttachInv ==
  /\ pc \in Attaching => todo \subseteq desired /\ DOMAIN links \ desired \subseteq current
  /\ pc \in AtLink => \E i \in desired : target = {i}
  /\ pc \in Attaching /\ faults = 0 =>
       desired \cap DOMAIN veth \subseteq DOMAIN links \cup todo \cup (IF pc \in AtLink THEN target ELSE {})

(* A pod that was found, and whose veth i is still there, has or loses its *)
(* links.                                                                  *)
Settled(ip, i) ==
  IF ip \in covered THEN i \in DOMAIN links /\ (pc = "detach" => i \notin todo)
  ELSE i \in DOMAIN links => pc = "detach" /\ i \in todo

SettledInv ==
  pc \in {"detach", "wait"} /\ Fresh /\ faults = 0 =>
    \A ip \in DOMAIN mappings : mappings[ip] \in DOMAIN veth => Settled(ip, mappings[ip])

MissInv == TypeInv /\ OwnedInv /\ WorldInv /\ FoundInv /\ LinkInv /\ AskInv
           /\ MovedInv /\ AttachInv /\ SettledInv

LEMMA MissInit == Init => MissInv
  <1> SUFFICES ASSUME Init PROVE MissInv
    OBVIOUS
  <1>1. WorldInv /\ FoundInv /\ LinkInv
    BY DEF Init, WorldInv, FoundInv, LinkInv, Known, EmptyStore
  <1>2. AskInv /\ MovedInv /\ AttachInv /\ SettledInv
    BY DEF Init, AskInv, MovedInv, AttachInv, SettledInv, Attaching, AtLink
  <1> QED BY <1>1, <1>2, TypeInit, OwnedInit DEF MissInv

(* What a step does to the node's interfaces.                              *)
LEMMA WorldMoves ==
    ASSUME ~Reuse, WorldInv, WorldOK, [Next]_vars
    PROVE  /\ Known \subseteq Known'
           /\ \A j \in DOMAIN veth' : j \in Known => j \in DOMAIN veth /\ veth'[j] = veth[j]
           /\ \A j \in DOMAIN veth' : j \notin Known => veth'[j].dev = veths + 1
           /\ veths' \in Nat /\ veths <= veths'
  <1>1. ASSUME NEW i \in Ifindexes, NEW ip \in IPs, AddVeth(i, ip)
        PROVE  /\ DOMAIN veth' = DOMAIN veth \cup {i} /\ i \notin Known /\ retired' = retired
               /\ veth'[i].dev = veths + 1 /\ \A j \in DOMAIN veth : veth'[j] = veth[j]
               /\ veths' = veths + 1
    BY <1>1 DEF AddVeth, Extend, Known
  <1>2. ASSUME NEW i \in Ifindexes, DelVeth(i)
        PROVE  /\ DOMAIN veth' = DOMAIN veth \ {i} /\ Known' = Known /\ UNCHANGED veths
               /\ \A j \in DOMAIN veth' : veth'[j] = veth[j]
    BY <1>2 DEF DelVeth, Without, Restrict, Known
  <1>3. UNCHANGED <<veth, retired, veths>> \/ Node
    BY DEF Next, vars, Enforcer, Watch, Wake, ReadProc, Resolved, Reconcile, attachIngress,
       attachEgress, closeIngress, Record, Attached, Reconciled, CloseLink, inspectNetns, Ask,
       AskPod, attachIndex, Detach, Notify, Cover, WatchDetach, WatchEnd, world
  <1>4. CASE UNCHANGED <<veth, retired, veths>>
    BY <1>4 DEF Known, WorldInv, WorldOK
  <1>5. CASE \E i \in Ifindexes, ip \in IPs : AddVeth(i, ip)
    <2>1. PICK i \in Ifindexes :
            /\ DOMAIN veth' = DOMAIN veth \cup {i} /\ i \notin Known /\ retired' = retired
            /\ veth'[i].dev = veths + 1 /\ \A j \in DOMAIN veth : veth'[j] = veth[j]
            /\ veths' = veths + 1
      BY <1>1, <1>5
    <2>2. Known \subseteq Known'
      BY <2>1 DEF Known
    <2>3. \A j \in DOMAIN veth' : IF j \in Known THEN j \in DOMAIN veth ELSE j = i
      BY <2>1 DEF Known
    <2> QED BY <2>1, <2>2, <2>3 DEF WorldOK
  <1>6. CASE \E i \in Ifindexes : DelVeth(i)
    <2>1. /\ DOMAIN veth' \subseteq DOMAIN veth /\ Known' = Known /\ UNCHANGED veths
          /\ \A j \in DOMAIN veth' : veth'[j] = veth[j]
      BY <1>2, <1>6
    <2>2. DOMAIN veth \subseteq Known
      BY DEF Known
    <2> QED BY <2>1, <2>2 DEF WorldOK
  <1> QED BY <1>3, <1>4, <1>5, <1>6 DEF Node

(* New devices do not concern links that are already open.                 *)
LEMMA OnKept ==
    ASSUME ~Reuse, WorldInv, WorldOK, LinksOK, [Next]_vars,
           NEW s, s \subseteq open, NEW i \in Known, On(s, i, veth)
    PROVE  On(s, i, veth')
  <1> SUFFICES ASSUME NEW l \in s, NEW j \in DOMAIN veth' PROVE l.dev = veth'[j].dev <=> i = j
    BY DEF On
  <1>1. CASE j \in Known
    BY <1>1, WorldMoves DEF On
  <1>2. CASE j \notin Known
    <2>1. veth'[j].dev = veths + 1 /\ veths \in Nat
      BY <1>2, WorldMoves DEF WorldOK
    <2>2. l.dev \in Nat /\ l.dev <= veths
      BY DEF WorldInv, LinksOK, Links
    <2> QED BY <1>2, <2>1, <2>2
  <1> QED BY <1>1, <1>2

LEMMA WorldMiss == ASSUME ~Reuse, MissInv, [Next]_vars PROVE WorldInv'
  <1> WorldInv /\ WorldOK /\ LinksOK
    BY TypeParts DEF MissInv, TypeInv
  <1> DEFINE NewOpen == open' \subseteq open \cup {Link(i, d) : i \in DOMAIN veth, d \in {"ingress", "egress"}}
  <1>1. retired' \cap DOMAIN veth' = {}
    <2>1. CASE UNCHANGED <<veth, retired>>
      BY <2>1 DEF WorldInv
    <2>2. ASSUME NEW i \in Ifindexes, NEW ip \in IPs, AddVeth(i, ip) PROVE retired' \cap DOMAIN veth' = {}
      BY <2>2 DEF AddVeth, Extend, WorldInv
    <2>3. ASSUME NEW i \in Ifindexes, DelVeth(i) PROVE retired' \cap DOMAIN veth' = {}
      BY <2>3 DEF DelVeth, Without, Restrict, WorldInv
    <2>4. UNCHANGED <<veth, retired>> \/ Node
      BY DEF Next, vars, Enforcer, Watch, Wake, ReadProc, Resolved, Reconcile, attachIngress,
         attachEgress, closeIngress, Record, Attached, Reconciled, CloseLink, inspectNetns, Ask,
         AskPod, attachIndex, Detach, Notify, Cover, WatchDetach, WatchEnd, world
    <2> QED BY <2>1, <2>2, <2>3, <2>4 DEF Node
  <1>2. ASSUME NEW i \in DOMAIN veth', NEW j \in DOMAIN veth', veth'[i].dev = veth'[j].dev
        PROVE  i = j
    <2>1. ASSUME NEW k \in DOMAIN veth', k \in Known PROVE veth'[k].dev # veths + 1
      <3>1. veth'[k] = veth[k] /\ veth[k] \in [dev : 1 .. veths, ip : IPs] /\ veths \in Nat
        BY <2>1, WorldMoves DEF WorldOK
      <3> QED BY <3>1
    <2>2. CASE i \in Known /\ j \in Known
      BY <1>2, <2>2, WorldMoves DEF WorldInv
    <2>3. CASE i \notin Known /\ j \notin Known
      <3>1. \A k, m \in DOMAIN veth' : k \notin Known /\ m \notin Known => k = m
        <4>1. ASSUME NEW a \in Ifindexes, NEW ip \in IPs, AddVeth(a, ip)
              PROVE  \A k \in DOMAIN veth' : k \notin Known => k = a
          BY <4>1 DEF AddVeth, Extend, Known
        <4>2. (\E a \in Ifindexes, ip \in IPs : AddVeth(a, ip)) \/ DOMAIN veth' \subseteq DOMAIN veth
          BY DEF Next, vars, Enforcer, Watch, Wake, ReadProc, Resolved, Reconcile,
             attachIngress, attachEgress, closeIngress, Record, Attached, Reconciled, CloseLink,
             inspectNetns, Ask, AskPod, attachIndex, Detach, Notify, Cover, WatchDetach,
             WatchEnd, world, Node, DelVeth, Without, Restrict
        <4> QED BY <4>1, <4>2 DEF Known
      <3> QED BY <2>3, <3>1
    <2> QED BY <1>2, <2>1, <2>2, <2>3, WorldMoves
  <1>3. \A k \in DOMAIN netq' : netq'[k] \in retired'
    <2>1. netq \in Seq(Ifindexes) /\ \A k \in 1 .. Len(netq) : netq[k] \in retired
      BY DEF WorldOK, WorldInv
    <2>2. ASSUME NEW i \in Ifindexes, DelVeth(i) PROVE \A k \in DOMAIN netq' : netq'[k] \in retired'
      <3>1. retired' = retired \cup {i} /\ (netq' = netq \/ netq' = Append(netq, i))
        BY <2>2 DEF DelVeth
      <3> QED BY <2>1, <3>1
    <2>3. CASE WatchDetach
      <3>1. netq # <<>> /\ netq' = Tail(netq) /\ retired' = retired
        BY <2>3 DEF WatchDetach
      <3> QED BY <2>1, <3>1
    <2>4. CASE netq' = <<>>
      BY <2>4
    <2>5. CASE UNCHANGED <<netq, retired>>
      BY <2>5 DEF WorldInv
    <2>6. (\E i \in Ifindexes : DelVeth(i)) \/ WatchDetach \/ netq' = <<>> \/ UNCHANGED <<netq, retired>>
      BY DEF Next, vars, Enforcer, Watch, Wake, ReadProc, Resolved, Reconcile, attachIngress,
         attachEgress, closeIngress, Record, Attached, Reconciled, CloseLink, inspectNetns, Ask,
         AskPod, attachIndex, Detach, Notify, Cover, WatchEnd, world, Node, AddVeth
    <2> QED BY <2>2, <2>3, <2>4, <2>5, <2>6
  <1>4. \A l \in open' : l.dev <= veths'
    <2>1. NewOpen
      <3>1. CASE attachIngress \/ attachEgress
        BY <3>1 DEF attachIngress, attachEgress, CanAttach
      <3>2. CASE open' \subseteq open
        BY <3>2
      <3>3. attachIngress \/ attachEgress \/ open' \subseteq open
        BY DEF Next, vars, Enforcer, Watch, Wake, ReadProc, Resolved, Reconcile, Record,
           closeIngress, Attached, Reconciled, CloseLink, inspectNetns, Ask, AskPod, attachIndex,
           Detach, Notify, Cover, WatchDetach, WatchEnd, Node, AddVeth, DelVeth
      <3> QED BY <3>1, <3>2, <3>3
    <2>2. \A i \in DOMAIN veth : veth[i].dev \in Nat /\ veth[i].dev <= veths
      BY DEF WorldOK
    <2>3. \A l \in open : l.dev \in Nat /\ l.dev <= veths
      BY DEF WorldInv, LinksOK, Links
    <2>4. ASSUME NEW l \in open' PROVE l.dev \in Nat /\ l.dev <= veths
      <3>1. CASE l \in open
        BY <2>3, <3>1
      <3>2. CASE \E i \in DOMAIN veth, d \in {"ingress", "egress"} : l = Link(i, d)
        BY <2>2, <3>2 DEF Link
      <3> QED BY <2>1, <3>1, <3>2
    <2>5. veths \in Nat /\ veths' \in Nat /\ veths <= veths'
      BY WorldMoves DEF WorldOK
    <2> QED BY <2>4, <2>5
  <1> QED BY <1>1, <1>2, <1>3, <1>4 DEF WorldInv

(* An index that Resolve remembers still belongs to the pod it found there. *)
LEMMA FoundMiss == ASSUME ~Reuse, MissInv, [Next]_vars PROVE FoundInv'
  <1> WorldInv /\ WorldOK /\ FoundInv
    BY TypeParts DEF MissInv, TypeInv
  <1> DEFINE Same(ip, i) == i \in Known /\ (i \in DOMAIN veth => veth[i].ip = ip)
  <1>1. ASSUME NEW ip, NEW i, Same(ip, i) PROVE i \in Known' /\ (i \in DOMAIN veth' => veth'[i].ip = ip)
    BY <1>1, WorldMoves
  <1>2. /\ \A ip \in DOMAIN mappings : Same(ip, mappings[ip])
        /\ pc = "walk" => \A n \in todo : Same(n.ip, n.idx)
    BY DEF FoundInv
  <1>3. ASSUME NEW i \in DOMAIN veth PROVE Same(veth[i].ip, i)
    BY DEF Known
  <1> HIDE DEF Same
  <1>4. CASE ReadProc /\ pc' = "walk"
    <2>1. /\ todo' = {[dev |-> veth[i].dev, ip |-> veth[i].ip, idx |-> i] : i \in DOMAIN veth}
          /\ mappings' = EmptyStore
      BY <1>4 DEF ReadProc
    <2>2. DOMAIN mappings' = {}
      BY <2>1 DEF EmptyStore
    <2>3. \A n \in todo' : Same(n.ip, n.idx)
      BY <1>3, <2>1
    <2> QED BY <1>1, <2>2, <2>3 DEF FoundInv
  <1>5. ASSUME NEW n \in todo, inspectNetns(n) PROVE FoundInv'
    <2>1. /\ pc = "walk" /\ pc' = pc /\ todo' \subseteq todo
          /\ \/ mappings' = mappings
             \/ mappings' = Extend(mappings, n.ip, n.idx) /\ n.idx \in DOMAIN veth
      BY <1>5 DEF inspectNetns
    <2>2. \A m \in todo' : Same(m.ip, m.idx)
      BY <1>2, <2>1
    <2>3. CASE mappings' = mappings
      BY <1>1, <1>2, <2>2, <2>3 DEF FoundInv
    <2>4. CASE mappings' = Extend(mappings, n.ip, n.idx) /\ n.idx \in DOMAIN veth
      <3>1. /\ DOMAIN mappings' = DOMAIN mappings \cup {n.ip} /\ mappings'[n.ip] = n.idx
            /\ \A ip \in DOMAIN mappings \ {n.ip} : mappings'[ip] = mappings[ip]
        BY <2>4 DEF Extend
      <3>2. \A ip \in DOMAIN mappings' : Same(ip, mappings'[ip])
        BY <1>2, <2>1, <3>1
      <3>3. veth[n.idx].ip = n.ip
        BY <2>1, <2>4 DEF FoundInv
      <3>4. \A ip \in DOMAIN mappings \ {n.ip} : mappings[ip] # n.idx
        BY <2>4, <3>3 DEF FoundInv
      <3>5. \A ip, jp \in DOMAIN mappings' : mappings'[ip] = mappings'[jp] => ip = jp
        BY <3>1, <3>4 DEF FoundInv
      <3> QED BY <1>1, <2>2, <3>2, <3>5 DEF FoundInv
    <2> QED BY <2>1, <2>3, <2>4
  <1>6. CASE mappings' = mappings /\ (pc' # "walk" \/ UNCHANGED <<pc, todo>>)
    BY <1>1, <1>2, <1>6 DEF FoundInv
  <1>7. \/ ReadProc /\ pc' = "walk"
        \/ \E n \in todo : inspectNetns(n)
        \/ mappings' = mappings /\ (pc' # "walk" \/ UNCHANGED <<pc, todo>>)
    BY DEF Next, vars, Enforcer, Watch, Wake, ReadProc, Resolved, Reconcile, attachIngress,
       attachEgress, closeIngress, Record, Attached, Reconciled, CloseLink, Ask, AskPod,
       attachIndex, Detach, Notify, Cover, WatchDetach, WatchEnd, Node, AddVeth, DelVeth, round
  <1> QED BY <1>4, <1>5, <1>6, <1>7

(* A link of an interface that is there is the Manager's, or the enforcer's. *)
LEMMA LinkMiss == ASSUME ~Reuse, MissInv, [Next]_vars PROVE LinkInv'
  <1> WorldInv /\ WorldOK /\ LinksOK /\ FoundInv /\ LinkInv /\ OwnedInv /\ AttachInv
    BY TypeParts DEF MissInv, TypeInv
  <1>1. DOMAIN links' \subseteq Known' /\ desired' \subseteq Known'
    <2>1. DOMAIN links' \subseteq Known
      <3>1. CASE Record
        <4>1. PICK i \in target : links' = Extend(links, i, got)
          BY <3>1 DEF Record
        <4>2. i \in Known
          BY <3>1 DEF Record, AttachInv, AtLink, LinkInv
        <4> QED BY <4>1, <4>2 DEF Extend, LinkInv
      <3>2. CASE DOMAIN links' \subseteq DOMAIN links
        BY <3>2 DEF LinkInv
      <3>3. Record \/ DOMAIN links' \subseteq DOMAIN links
        BY DEF Next, vars, Enforcer, Watch, Wake, ReadProc, Resolved, Reconcile,
           attachIngress, attachEgress, closeIngress, Attached, Reconciled, CloseLink, Ask,
           AskPod, attachIndex, Detach, detach, inspectNetns, Notify, Cover, WatchDetach,
           WatchEnd, Node, AddVeth, DelVeth, Without, Restrict
      <3> QED BY <3>1, <3>2, <3>3
    <2>2. desired' \subseteq Known
      <3>1. ASSUME Ask PROVE desired' \subseteq Known
        BY <3>1, AskShape DEF MissInv, FoundInv, LinkInv
      <3>2. Ask \/ desired' = desired \/ desired' = {}
        BY DEF Next, vars, Enforcer, Watch, Wake, ReadProc, Resolved, Reconcile,
           attachIngress, attachEgress, closeIngress, Record, Attached, Reconciled, CloseLink,
           AskPod, attachIndex, Detach, inspectNetns, Notify, Cover, WatchDetach, WatchEnd, Node,
           AddVeth, DelVeth, round
      <3> QED BY <3>1, <3>2 DEF LinkInv
    <2> QED BY <2>1, <2>2, WorldMoves
  <1>2. ASSUME NEW i \in DOMAIN links' PROVE On(links'[i], i, veth')
    <2>1. ASSUME NEW j \in DOMAIN links PROVE links[j] \subseteq open /\ j \in Known /\ On(links[j], j, veth)
      BY DEF LinkInv, OwnedInv, OwnersInv, Recorded
    <2>2. CASE i \in DOMAIN links /\ links'[i] = links[i]
      BY <2>1, <2>2, OnKept
    <2>3. CASE Record /\ ~(i \in DOMAIN links /\ links'[i] = links[i])
      <3>1. PICK j \in target : links' = Extend(links, j, got)
        BY <2>3 DEF Record
      <3>2. i = j /\ links'[i] = got /\ i \in target
        BY <2>3, <3>1 DEF Extend
      <3>3. On(got, i, veth) /\ i \in Known /\ got \subseteq open
        BY <2>3, <3>2 DEF Record, LinkInv, AttachInv, AtLink, OwnedInv, OwnersInv
      <3> QED BY <3>2, <3>3, OnKept
    <2>4. Record \/ (i \in DOMAIN links /\ links'[i] = links[i])
      BY DEF Next, vars, Enforcer, Watch, Wake, ReadProc, Resolved, Reconcile, attachIngress,
         attachEgress, closeIngress, Attached, Reconciled, CloseLink, Ask, AskPod, attachIndex,
         Detach, detach, inspectNetns, Notify, Cover, WatchDetach, WatchEnd, Node, AddVeth,
         DelVeth, Without, Restrict
    <2> QED BY <2>2, <2>3, <2>4
  <1>3. ASSUME pc' \in {"egress", "record"}, NEW i \in target' PROVE On(got', i, veth')
    <2>1. ASSUME NEW j \in DOMAIN veth, NEW d PROVE On({Link(j, d)}, j, veth)
      BY DEF On, Link, WorldInv
    <2>2. CASE attachIngress \/ attachEgress
      <3>1. /\ target' = target /\ UNCHANGED veth /\ pc \in {"ingress", "egress"}
            /\ pc = "ingress" => pc' = "egress"
        BY <1>3, <2>2 DEF attachIngress, attachEgress, round, world
      <3>2. target = {i}
        BY <1>3, <3>1 DEF AttachInv, AtLink
      <3>3. CASE pc = "ingress"
        <4>1. got' = {Link(i, "ingress")} /\ i \in DOMAIN veth
          BY <1>3, <2>2, <3>2, <3>3 DEF attachIngress, attachEgress, CanAttach
        <4> QED BY <2>1, <3>1, <4>1
      <3>4. CASE pc = "egress"
        <4>1. got' = got \cup {Link(i, "egress")} /\ i \in DOMAIN veth
          BY <1>3, <2>2, <3>2, <3>4 DEF attachIngress, attachEgress, CanAttach
        <4>2. On(got, i, veth) /\ On({Link(i, "egress")}, i, veth)
          BY <2>1, <3>2, <3>4, <4>1 DEF LinkInv
        <4> QED BY <3>1, <4>1, <4>2 DEF On
      <3> QED BY <3>1, <3>3, <3>4
    <2>3. CASE UNCHANGED <<pc, target, got>>
      <3>1. On(got, i, veth) /\ i \in Known /\ got \subseteq open
        BY <1>3, <2>3 DEF LinkInv, AttachInv, AtLink, OwnedInv, OwnersInv
      <3> QED BY <2>3, <3>1, OnKept
    <2>4. attachIngress \/ attachEgress \/ UNCHANGED <<pc, target, got>>
      BY <1>3 DEF Next, vars, Enforcer, Watch, Wake, ReadProc, Resolved, Reconcile, Record,
         closeIngress, Attached, Reconciled, CloseLink, Ask, AskPod, attachIndex, Detach,
         inspectNetns, Notify, Cover, WatchDetach, WatchEnd, Node, AddVeth, DelVeth, round
    <2> QED BY <2>2, <2>3, <2>4
  <1>4. \A l \in closing'["watch"] : \A j \in DOMAIN veth' : l.dev # veth'[j].dev
    <2>1. ASSUME NEW l \in open, \A j \in DOMAIN veth : l.dev # veth[j].dev
          PROVE  \A j \in DOMAIN veth' : l.dev # veth'[j].dev
      <3>1. l.dev \in Nat /\ l.dev <= veths /\ veths \in Nat
        BY DEF WorldInv, WorldOK, LinksOK, Links
      <3> QED BY <2>1, <3>1, WorldMoves
    <2>2. \A l \in closing'["watch"] : l \in open /\ \A j \in DOMAIN veth : l.dev # veth[j].dev
      <3>1. \A l \in closing["watch"] : l \in open /\ \A j \in DOMAIN veth : l.dev # veth[j].dev
        BY DEF LinkInv, OwnedInv, OwnersInv
      <3>2. DOMAIN closing = {"enforcer", "watch"}
        BY DEF OwnedInv, AttachingInv
      <3>3. CASE WatchDetach
        <4>1. netq # <<>> /\ detach("watch", Head(netq))
          BY <3>3 DEF WatchDetach
        <4>2. netq \in Seq(Ifindexes)
          BY DEF WorldOK
        <4>3. Head(netq) = netq[1] /\ 1 \in DOMAIN netq
          BY <4>1, <4>2
        <4>4. Head(netq) \notin DOMAIN veth
          BY <4>3 DEF WorldInv
        <4>5. closing'["watch"] = IF Head(netq) \in DOMAIN links THEN links[Head(netq)] ELSE {}
          BY <3>2, <4>1 DEF detach
        <4> QED BY <4>4, <4>5 DEF LinkInv, On, OwnedInv, OwnersInv, Recorded
      <3>4. CASE closing'["watch"] \subseteq closing["watch"]
        BY <3>1, <3>4
      <3>5. WatchDetach \/ closing'["watch"] \subseteq closing["watch"]
        BY <3>2 DEF Next, vars, Enforcer, Watch, Wake, ReadProc, Resolved, Reconcile,
           attachIngress, attachEgress, closeIngress, Record, Attached, Reconciled, CloseLink,
           Ask, AskPod, attachIndex, Detach, detach, inspectNetns, Notify, Cover, WatchEnd, Node,
           AddVeth, DelVeth
      <3> QED BY <3>3, <3>4, <3>5
    <2> QED BY <2>1, <2>2
  <1>5. pc' # "detach" => closing'["enforcer"] = {}
    <2>1. DOMAIN closing = {"enforcer", "watch"}
      BY DEF OwnedInv, AttachingInv
    <2>2. CASE WatchDetach \/ CloseLink("enforcer") \/ CloseLink("watch") \/ \E n \in todo : Detach(n)
      BY <2>1, <2>2 DEF WatchDetach, detach, CloseLink, Detach, LinkInv
    <2>3. CASE closing' = closing /\ (pc' # "detach" => pc # "detach" \/ closing["enforcer"] = {})
      BY <2>3 DEF LinkInv
    <2>4. \/ WatchDetach \/ CloseLink("enforcer") \/ CloseLink("watch") \/ \E n \in todo : Detach(n)
          \/ closing' = closing /\ (pc' # "detach" => pc # "detach" \/ closing["enforcer"] = {})
      BY DEF Next, vars, Enforcer, Watch, Wake, ReadProc, Resolved, Reconcile, attachIngress,
         attachEgress, closeIngress, Record, Attached, Reconciled, Ask, AskPod, attachIndex,
         inspectNetns, Notify, Cover, WatchEnd, Node, AddVeth, DelVeth
    <2> QED BY <2>2, <2>3, <2>4
  <1> QED BY <1>1, <1>2, <1>3, <1>4, <1>5 DEF LinkInv

(* A change of coverage leaves a mark until the enforcer wakes up for it.  *)
LEMMA FreshKept ==
    ASSUME TypeInv, [Next]_vars
    PROVE  /\ Fresh' /\ pc' # "resolve" => Fresh /\ covered' = covered
           /\ faults' = 0 => faults = 0
  <1> CoverOK
    BY TypeParts DEF TypeInv
  <1>1. ASSUME NEW w \in Watchers, Notify(w) \/ \E ips \in SUBSET IPs : Cover(w, ips)
        PROVE  ~Fresh' /\ faults' = faults
    BY <1>1 DEF Notify, Cover, Fresh
  <1>2. CASE Wake
    BY <1>2 DEF Wake
  <1>3. CASE UNCHANGED <<trigger, cover>> /\ (faults' = faults \/ faults' = faults + 1)
    BY <1>3 DEF Fresh, cover, CoverOK
  <1>4. \/ \E w \in Watchers : Notify(w) \/ \E ips \in SUBSET IPs : Cover(w, ips)
        \/ Wake
        \/ UNCHANGED <<trigger, cover>> /\ (faults' = faults \/ faults' = faults + 1)
    <2>1. CASE ReadProc \/ attachIngress \/ attachEgress \/ WatchEnd \/ \E n \in todo : inspectNetns(n)
      BY <2>1 DEF ReadProc, attachIngress, attachEgress, WatchEnd, inspectNetns, Fault
    <2>2. CASE UNCHANGED <<trigger, cover, faults>>
      BY <2>2
    <2>3. \/ \E w \in Watchers : Notify(w) \/ \E ips \in SUBSET IPs : Cover(w, ips)
          \/ Wake \/ UNCHANGED <<trigger, cover, faults>>
          \/ ReadProc \/ attachIngress \/ attachEgress \/ WatchEnd
          \/ \E n \in todo : inspectNetns(n)
      BY DEF Next, vars, Enforcer, Watch, Node, Resolved, Reconcile, Record, closeIngress,
         Attached, Reconciled, CloseLink, Ask, AskPod, attachIndex, Detach, WatchDetach, AddVeth,
         DelVeth
    <2> QED BY <2>1, <2>2, <2>3
  <1> QED BY <1>1, <1>2, <1>3, <1>4

(* The answers that make up desired are all of the newest coverage, or a   *)
(* token or a notification says that they are not.                         *)
LEMMA MovedMiss == ASSUME MissInv, [Next]_vars PROVE MovedInv'
  <1> SUFFICES ASSUME Fresh', NEW a \in asking' PROVE ~a.moved
    BY DEF MovedInv
  <1> TypeInv /\ MovedInv /\ AskingInv'
    BY AskingStep DEF MissInv
  <1>1. pc' = "ask"
    BY DEF AskingInv
  <1>2. Fresh
    BY <1>1, FreshKept
  <1>3. CASE a \in asking
    BY <1>2, <1>3 DEF MovedInv
  <1>4. ASSUME NEW ip \in todo, AskPod(ip) PROVE ~a.moved
    BY <1>4 DEF AskPod
  <1>5. ASSUME NEW w \in Watchers, NEW ips \in SUBSET IPs, Cover(w, ips) PROVE FALSE
    BY <1>5 DEF Cover, Fresh
  <1>6. \/ asking' \subseteq asking \/ \E ip \in todo : AskPod(ip)
        \/ \E w \in Watchers : \E ips \in SUBSET IPs : Cover(w, ips)
    BY DEF Next, vars, Enforcer, Watch, Node, Wake, ReadProc, Resolved, Reconcile,
       attachIngress, attachEgress, closeIngress, Record, Attached, Reconciled, CloseLink,
       inspectNetns, Ask, attachIndex, Detach, WatchDetach, WatchEnd, AddVeth, DelVeth, Notify
  <1> QED BY <1>3, <1>4, <1>5, <1>6

LEMMA AskMiss == ASSUME MissInv, [Next]_vars PROVE AskInv'
  <1> AskInv /\ MovedInv /\ TypeInv
    BY DEF MissInv
  <1>1. CASE Resolved
    BY <1>1 DEF Resolved, AskInv, Attaching, AtLink, Asked
  <1>2. CASE Ask
    <2>1. PICK a \in asking, yes \in BOOLEAN :
            /\ a.ip \in todo /\ a.ip \in DOMAIN mappings /\ todo' = todo \ {a.ip}
            /\ desired' = IF yes THEN desired \cup {mappings[a.ip]} ELSE desired
            /\ ~a.moved => (yes <=> a.ip \in covered)
      BY <1>2, AskShape
    <2>2. pc = "ask" /\ pc' = "ask" /\ asking' = {} /\ UNCHANGED <<mappings, covered>>
      BY <1>2, AskShape
    <2> DEFINE ip == a.ip
    <2>3. Asked = DOMAIN mappings \ todo /\ Asked' = Asked \cup {ip}
      BY <2>1, <2>2 DEF Asked
    <2>4. desired \subseteq {mappings[jp] : jp \in DOMAIN mappings}
      BY <2>2 DEF AskInv
    <2>5. desired' \subseteq {mappings[jp] : jp \in DOMAIN mappings}
      BY <2>1, <2>4
    <2>6. ASSUME Fresh' PROVE desired' = {mappings[jp] : jp \in Asked' \cap covered}
      <3>1. Fresh /\ desired = {mappings[jp] : jp \in Asked \cap covered}
        BY <2>2, <2>6, FreshKept DEF AskInv
      <3>2. yes <=> ip \in covered
        BY <2>1, <3>1 DEF MovedInv
      <3>3. CASE ip \in covered
        BY <2>1, <2>3, <3>1, <3>2, <3>3
      <3>4. CASE ip \notin covered
        <4>1. Asked' \cap covered = Asked \cap covered
          BY <2>3, <3>4
        <4> QED BY <2>1, <3>1, <3>2, <3>4, <4>1
      <3> QED BY <3>3, <3>4
    <2> HIDE DEF ip
    <2> QED BY <2>2, <2>5, <2>6 DEF AskInv
  <1>3. CASE Reconcile
    <2>1. /\ pc = "ask" /\ todo = {} /\ pc' = "attach" /\ UNCHANGED <<mappings, desired, covered>>
      BY <1>3 DEF Reconcile, cover
    <2>2. Asked' = Asked
      BY <2>1 DEF Asked
    <2> QED BY <2>1, <2>2, FreshKept DEF AskInv, Attaching, AtLink
  <1>4. CASE pc \in Attaching /\ pc' \in Attaching /\ UNCHANGED <<mappings, desired>>
    <2>1. Asked' = Asked
      BY <1>4 DEF Asked, Attaching, AtLink
    <2>2. pc' # "resolve"
      BY <1>4 DEF Attaching, AtLink
    <2> QED BY <1>4, <2>1, <2>2, FreshKept DEF AskInv
  <1>5. CASE pc' \notin Attaching \cup {"ask"} /\ desired' = {}
    BY <1>5 DEF AskInv
  <1>6. CASE UNCHANGED <<pc, todo, mappings, desired>>
    <2>1. Asked' = Asked
      BY <1>6 DEF Asked
    <2>2. pc \in Attaching \cup {"ask"} => pc' # "resolve"
      BY <1>6 DEF Attaching, AtLink
    <2> QED BY <1>6, <2>1, <2>2, FreshKept DEF AskInv
  <1>7. \/ Resolved \/ Reconcile \/ Ask
        \/ pc \in Attaching /\ pc' \in Attaching /\ UNCHANGED <<mappings, desired>>
        \/ pc' \notin Attaching \cup {"ask"} /\ desired' = {}
        \/ UNCHANGED <<pc, todo, mappings, desired>>
    <2>1. CASE Wake \/ ReadProc \/ Reconciled \/ Attached \/ \E n \in todo : inspectNetns(n) \/ Detach(n)
      <3>1. desired' = desired \/ desired' = {}
        BY <2>1 DEF Wake, ReadProc, Reconciled, Attached, inspectNetns, Detach, round
      <3>2. pc \in {"wait", "resolve", "walk", "detach"} \/ desired' = {}
        BY <2>1 DEF Wake, ReadProc, Reconciled, Attached, inspectNetns, Detach
      <3>3. pc' \in {"wait", "resolve", "walk", "detach"}
        BY <2>1 DEF Wake, ReadProc, Reconciled, Attached, inspectNetns, Detach
      <3> QED BY <3>1, <3>2, <3>3 DEF AskInv, Attaching, AtLink
    <2>2. CASE attachIngress \/ attachEgress \/ closeIngress \/ Record \/ \E n \in todo : attachIndex(n)
      BY <2>2 DEF attachIngress, attachEgress, closeIngress, Record, attachIndex, round, Attaching, AtLink
    <2> QED
      BY <2>1, <2>2 DEF Next, vars, Enforcer, Watch, AskPod, CloseLink, Notify, Cover,
         WatchDetach, WatchEnd, Node, AddVeth, DelVeth, round
  <1> QED BY <1>1, <1>2, <1>3, <1>4, <1>5, <1>6, <1>7

(* Nothing stands in the way of an attach to an interface that is there.   *)
LEMMA CanAttachLive ==
    ASSUME MissInv, NEW d \in {"ingress", "egress"}, pc = d, NEW i \in target, i \in DOMAIN veth
    PROVE  CanAttach(i, d)
  <1> WorldOK /\ WorldInv /\ LinkInv /\ OwnedInv /\ AttachInv /\ PairInv
    BY TypeParts DEF MissInv, TypeInv
  <1> SUFFICES ASSUME Link(i, d) \in open PROVE FALSE
    BY DEF CanAttach
  <1> DEFINE l == Link(i, d)
  <1>1. l.dev = veth[i].dev /\ l.dir = d
    BY DEF Link
  <1>2. ~Recorded(l)
    <2>1. ASSUME NEW j \in DOMAIN links, l \in links[j] PROVE FALSE
      <3>1. i = j
        BY <1>1, <2>1 DEF LinkInv, On
      <3> QED BY <2>1, <3>1 DEF OwnedInv, AttachingInv
    <2> QED BY <2>1 DEF Recorded
  <1>3. l \notin got
    BY <1>1 DEF OwnedInv, AttachingInv, PairInv, Dirs
  <1>4. l \notin closing["enforcer"] /\ l \notin closing["watch"]
    BY <1>1 DEF LinkInv
  <1> QED BY <1>2, <1>3, <1>4 DEF OwnedInv, OwnersInv

(* Unless a call failed, what is desired and there has links or gets them. *)
LEMMA AttachMiss == ASSUME ~Reuse, MissInv, [Next]_vars PROVE AttachInv'
  <1> WorldInv /\ WorldOK /\ LinkInv /\ AttachInv /\ TypeInv /\ AskInv
    BY TypeParts DEF MissInv, TypeInv
  <1> DEFINE Aimed == IF pc \in AtLink THEN target ELSE {}
  <1>1. faults' = 0 => faults = 0
    BY FreshKept
  <1>2. CASE Reconcile
    BY <1>2 DEF Reconcile, AttachInv, Attaching, AtLink
  <1>3. ASSUME NEW i \in todo, attachIndex(i) PROVE AttachInv'
    <2>1. /\ pc = "attach" /\ todo' = todo \ {i} /\ target' = {i}
          /\ pc' = IF i \in DOMAIN links THEN "attach" ELSE "ingress"
          /\ UNCHANGED <<veth, links, desired, current, faults>>
      BY <1>3 DEF attachIndex, world
    <2>2. i \in desired
      BY <2>1 DEF AttachInv, Attaching
    <2> QED BY <2>1, <2>2 DEF AttachInv, Attaching, AtLink
  <1>4. ASSUME NEW d \in {"ingress", "egress"}, pc = d,
               (d = "ingress" /\ attachIngress) \/ (d = "egress" /\ attachEgress)
        PROVE  AttachInv'
    <2>1. PICK i \in target :
            \/ pc' \in {"egress", "record"} /\ UNCHANGED faults
            \/ pc' \in {"attach", "undo"} /\ (IF CanAttach(i, d) THEN Fault ELSE UNCHANGED faults)
      BY <1>4 DEF attachIngress, attachEgress
    <2>2. UNCHANGED <<veth, links, todo, desired, current, target>>
      BY <1>4 DEF attachIngress, attachEgress, world, round
    <2>3. CASE pc' \in {"egress", "record"}
      BY <1>1, <1>4, <2>2, <2>3 DEF AttachInv, Attaching, AtLink
    <2>4. CASE pc' \in {"attach", "undo"} /\ (IF CanAttach(i, d) THEN Fault ELSE UNCHANGED faults)
      <3>1. target = {i}
        BY <1>4 DEF AttachInv, AtLink
      <3>2. faults' = 0 => i \notin DOMAIN veth
        <4>1. faults \in Nat
          BY TypeParts DEF TypeInv, CoverOK
        <4>2. i \in DOMAIN veth => CanAttach(i, d)
          BY <1>4, CanAttachLive
        <4> QED BY <2>4, <4>1, <4>2 DEF Fault
      <3> QED BY <1>1, <1>4, <2>2, <2>4, <3>1, <3>2 DEF AttachInv, Attaching, AtLink
    <2> QED BY <2>1, <2>3, <2>4
  <1>5. CASE Record
    <2>1. PICK i \in target : links' = Extend(links, i, got)
      BY <1>5 DEF Record
    <2>2. /\ pc = "record" /\ pc' = "attach"
          /\ UNCHANGED <<veth, todo, desired, current, target, faults>>
      BY <1>5 DEF Record, world, round
    <2>3. DOMAIN links' = DOMAIN links \cup {i} /\ target = {i} /\ i \in desired
      BY <2>1, <2>2 DEF Extend, AttachInv, AtLink
    <2> QED BY <2>2, <2>3 DEF AttachInv, Attaching, AtLink
  <1>6. CASE WatchDetach
    <2>1. /\ netq # <<>> /\ links' = Without(links, Head(netq))
          /\ UNCHANGED <<pc, veth, todo, desired, current, target, faults>>
      BY <1>6 DEF WatchDetach, detach, round
    <2>2. Head(netq) \notin DOMAIN veth
      <3>1. netq \in Seq(Ifindexes)
        BY DEF WorldOK
      <3>2. Head(netq) = netq[1] /\ 1 \in DOMAIN netq
        BY <2>1, <3>1
      <3> QED BY <3>2 DEF WorldInv
    <2>3. DOMAIN links' = DOMAIN links \ {Head(netq)}
      BY <2>1 DEF Without, Restrict
    <2> QED BY <2>1, <2>2, <2>3 DEF AttachInv
  <1>7. CASE pc' \notin Attaching
    BY <1>7 DEF AttachInv, Attaching
  <1>8. CASE UNCHANGED <<pc, todo, desired, current, target>> /\ DOMAIN links' = DOMAIN links
    <2>1. desired \cap DOMAIN veth' \subseteq DOMAIN veth
      BY WorldMoves DEF LinkInv
    <2> QED BY <1>1, <1>8, <2>1 DEF AttachInv
  <1>9. CASE closeIngress
    <2>1. /\ pc = "undo" /\ pc' = "attach"
          /\ UNCHANGED <<veth, links, todo, desired, current, target, faults>>
      BY <1>9 DEF closeIngress, world, round
    <2> QED BY <2>1 DEF AttachInv, Attaching, AtLink
  <1>10. \/ Reconcile \/ (\E n \in todo : attachIndex(n)) \/ Record \/ WatchDetach \/ closeIngress
         \/ (pc = "ingress" /\ attachIngress) \/ (pc = "egress" /\ attachEgress)
         \/ pc' \notin Attaching
         \/ UNCHANGED <<pc, todo, desired, current, target>> /\ DOMAIN links' = DOMAIN links
    BY DEF Next, vars, Enforcer, Watch, Wake, ReadProc, Resolved, attachIngress, attachEgress,
       Attached, Reconciled, CloseLink, Ask, AskPod, Detach, inspectNetns, Notify,
       Cover, WatchEnd, Node, AddVeth, DelVeth, round, Attaching, AtLink
  <1> QED BY <1>2, <1>3, <1>4, <1>5, <1>6, <1>7, <1>8, <1>9, <1>10

(* When nothing is left to attach, desired says who is covered; detaching  *)
(* the others then settles every pod that was found.                       *)
LEMMA SettledMiss == ASSUME ~Reuse, MissInv, [Next]_vars PROVE SettledInv'
  <1> WorldInv /\ WorldOK /\ FoundInv /\ AskInv /\ AttachInv /\ SettledInv /\ TypeInv
    BY TypeParts DEF MissInv, TypeInv
  <1> SUFFICES ASSUME pc' \in {"detach", "wait"}, Fresh', faults' = 0,
                      NEW ip \in DOMAIN mappings', mappings'[ip] \in DOMAIN veth'
               PROVE  Settled(ip, mappings[ip])'
    BY DEF SettledInv
  <1>1. Fresh /\ covered' = covered /\ faults = 0
    BY FreshKept
  <1>2. mappings' = mappings /\ (pc \in {"detach", "wait"} \/ Attached)
    <2>1. CASE ReadProc
      <3>1. faults' = faults + 1
        BY <2>1 DEF ReadProc, Fault
      <3> QED BY <1>1, <3>1
    <2> QED
      BY <2>1 DEF Next, vars, Enforcer, Watch, Wake, Resolved, Reconcile, attachIngress,
         attachEgress, closeIngress, Record, Attached, Reconciled, CloseLink, Ask, AskPod,
         attachIndex, Detach, Notify, Cover, WatchDetach, WatchEnd, Node, AddVeth, DelVeth,
         inspectNetns, round
  <1> DEFINE i == mappings[ip]
  <1>3. i \in DOMAIN veth
    BY <1>2, WorldMoves DEF FoundInv
  <1>4. CASE Attached
    <2>1. /\ pc = "attach" /\ todo = {} /\ pc' = "detach" /\ todo' = current \ desired
          /\ links' = links
      BY <1>4 DEF Attached
    <2>2. desired = {mappings[jp] : jp \in DOMAIN mappings \cap covered}
      BY <1>1, <2>1 DEF AskInv, Attaching, Asked
    <2>3. i \in desired <=> ip \in covered
      BY <1>2, <2>2 DEF FoundInv
    <2>4. i \in desired => i \in DOMAIN links
      BY <1>1, <1>3, <2>1 DEF AttachInv, Attaching, AtLink
    <2>5. i \notin desired /\ i \in DOMAIN links => i \in current
      BY <2>1 DEF AttachInv, Attaching
    <2> QED BY <1>1, <1>2, <2>1, <2>3, <2>4, <2>5 DEF Settled
  <1>5. CASE pc \in {"detach", "wait"}
    <2>1. Settled(ip, i)
      BY <1>1, <1>2, <1>3, <1>5 DEF SettledInv
    <2>2. ASSUME NEW n \in todo, Detach(n) PROVE Settled(ip, mappings[ip])'
      <3>1. /\ pc = "detach" /\ pc' = pc /\ todo' = todo \ {n}
            /\ DOMAIN links' = DOMAIN links \ {n}
        BY <2>2 DEF Detach, detach, Without, Restrict
      <3> QED BY <1>1, <1>2, <2>1, <3>1 DEF Settled
    <2>3. CASE Reconciled
      BY <1>1, <1>2, <2>1, <2>3 DEF Reconciled, Settled
    <2>4. CASE WatchDetach
      <3>1. /\ netq # <<>> /\ links' = Without(links, Head(netq)) /\ UNCHANGED <<pc, todo>>
        BY <2>4 DEF WatchDetach, detach
      <3>2. netq \in Seq(Ifindexes)
        BY DEF WorldOK
      <3>3. Head(netq) = netq[1] /\ 1 \in DOMAIN netq
        BY <3>1, <3>2
      <3>4. Head(netq) # i
        BY <1>3, <3>3 DEF WorldInv
      <3>5. DOMAIN links' = DOMAIN links \ {Head(netq)}
        BY <3>1 DEF Without, Restrict
      <3> QED BY <1>1, <1>2, <2>1, <3>1, <3>4, <3>5 DEF Settled
    <2>5. CASE UNCHANGED <<pc, todo, links>>
      BY <1>1, <1>2, <2>1, <2>5 DEF Settled
    <2>6. (\E n \in todo : Detach(n)) \/ Reconciled \/ WatchDetach \/ UNCHANGED <<pc, todo, links>>
      BY <1>5 DEF Next, vars, Enforcer, Watch, Wake, ReadProc, Resolved, Reconcile,
         attachIngress, attachEgress, closeIngress, Record, Attached, CloseLink, Ask, AskPod,
         attachIndex, Notify, Cover, WatchEnd, Node, AddVeth, DelVeth, inspectNetns
    <2> QED BY <2>2, <2>3, <2>4, <2>5, <2>6
  <1> QED BY <1>2, <1>4, <1>5

LEMMA MissStep == ASSUME ~Reuse PROVE MissInv /\ [Next]_vars => MissInv'
  <1> SUFFICES ASSUME MissInv, [Next]_vars PROVE MissInv'
    OBVIOUS
  <1>1. TypeInv' /\ OwnedInv'
    BY TypeStep, OwnedStep DEF MissInv
  <1>2. WorldInv' /\ FoundInv' /\ LinkInv'
    BY WorldMiss, FoundMiss, LinkMiss
  <1>3. AskInv' /\ MovedInv' /\ AttachInv' /\ SettledInv'
    BY AskMiss, MovedMiss, AttachMiss, SettledMiss
  <1> QED BY <1>1, <1>2, <1>3 DEF MissInv

(* Among the links of an interface that is there, the pair is open if and  *)
(* only if the Manager has it recorded.                                    *)
LEMMA RecordedOpen ==
    ASSUME MissInv, pc = "wait", NEW i \in DOMAIN veth
    PROVE  HasLinks(i) <=> i \in DOMAIN links
  <1> WorldOK /\ WorldInv /\ LinkInv /\ OwnedInv /\ LinksOK
    BY TypeParts DEF MissInv, TypeInv
  <1>1. ASSUME i \in DOMAIN links, NEW d \in {"ingress", "egress"} PROVE Link(i, d) \in open
    <2>1. PICK l \in links[i] : l.dir = d
      BY <1>1 DEF LinksOK, Dirs
    <2>2. l.dev = veth[i].dev
      BY <1>1, <2>1 DEF LinkInv, On
    <2>3. l \in Links
      BY <1>1, <2>1 DEF LinksOK
    <2>4. l = Link(i, d)
      BY <2>1, <2>2, <2>3 DEF Link, Links
    <2> QED BY <1>1, <2>1, <2>4 DEF OwnedInv, OwnersInv, Recorded
  <1>2. ASSUME Link(i, "ingress") \in open PROVE i \in DOMAIN links
    <2> DEFINE l == Link(i, "ingress")
    <2>1. l.dev = veth[i].dev
      BY DEF Link
    <2>2. l \notin got /\ l \notin closing["enforcer"] /\ l \notin closing["watch"]
      BY <2>1 DEF OwnedInv, AttachingInv, LinkInv
    <2>3. PICK j \in DOMAIN links : l \in links[j]
      BY <1>2, <2>2 DEF OwnedInv, OwnersInv, Recorded
    <2>4. i = j
      BY <2>1, <2>3 DEF LinkInv, On
    <2> QED BY <2>3, <2>4
  <1> QED BY <1>1, <1>2 DEF HasLinks

(* While the kernel does not give an interface index out again, an enforcer *)
(* at rest, with no token and no notification under way and no failed call, *)
(* has acted on the newest coverage: the veths that it found carry both    *)
(* links if and only if their pods are covered, however the changes of     *)
(* coverage, the deletions and the detaches of Watch fell into its rounds. *)
THEOREM NoChangeMissed == ASSUME ~Reuse PROVE Spec => []NothingMissed
  <1>1. MissInv => NothingMissed
    <2> SUFFICES ASSUME MissInv, pc = "wait", Fresh, faults = 0,
                        NEW i \in DOMAIN veth,
                        veth[i].ip \in DOMAIN mappings, mappings[veth[i].ip] = i
                 PROVE  HasLinks(i) <=> veth[i].ip \in covered
      BY DEF NothingMissed, Fresh
    <2>1. Settled(veth[i].ip, i)
      BY DEF MissInv, SettledInv
    <2> QED BY <2>1, RecordedOpen DEF Settled
  <1>2. MissInv /\ [Next]_vars => MissInv'
    BY MissStep
  <1> QED BY <1>1, <1>2, MissInit, PTL DEF Spec
=============================================================================
