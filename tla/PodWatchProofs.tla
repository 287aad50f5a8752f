--------------------------- MODULE PodWatchProofs ---------------------------
(* Proofs about PodWatch, for any pods, IPs, metadata and number of edits. *)
EXTENDS PodWatch, TLAPS

(* What the handlers do to podMeta.                                        *)
LEMMA Added ==
    ASSUME NEW v \in Versions, TypeOK, onPodAdd(v)
    PROVE  /\ DOMAIN podMeta' = DOMAIN podMeta \cup ({v.ip} \ {NoIP})
           /\ DOMAIN podMeta' \subseteq IPs
           /\ \A ip \in DOMAIN podMeta' : podMeta'[ip] \in Metas
           /\ trigger' \in BOOLEAN
  <1>1. v.ip \in IPs \cup {NoIP} /\ v.meta \in Metas
    BY DEF Versions
  <1>2. CASE v.ip = NoIP
    BY <1>2 DEF TypeOK, onPodAdd
  <1>3. CASE v.ip # NoIP
    <2>1. podMeta' = Extend(podMeta, v.ip, v.meta) /\ trigger' = TRUE
      BY <1>3 DEF onPodAdd
    <2>2. DOMAIN podMeta' = DOMAIN podMeta \cup {v.ip}
      BY <2>1 DEF Extend
    <2>3. ASSUME NEW ip \in DOMAIN podMeta' PROVE podMeta'[ip] \in Metas
      BY <1>1, <2>1, <2>2 DEF TypeOK, Extend
    <2> QED BY <1>1, <1>3, <2>1, <2>2, <2>3 DEF TypeOK
  <1> QED BY <1>2, <1>3

LEMMA Deleted ==
    ASSUME NEW v, TypeOK, onPodDelete(v)
    PROVE  /\ DOMAIN podMeta' = DOMAIN podMeta \ {v.ip}
           /\ DOMAIN podMeta' \subseteq IPs
           /\ \A ip \in DOMAIN podMeta' : podMeta'[ip] \in Metas
           /\ trigger' \in BOOLEAN
  BY DEF onPodDelete, TypeOK, Without, Restrict

-----------------------------------------------------------------------------
LEMMA TypeInit == Init => TypeOK
  <1> SUFFICES ASSUME Init PROVE TypeOK
    OBVIOUS
  <1>1. pods \in [Pods -> Versions] /\ known \in [Pods -> Versions]
    BY DEF Init
  <1>2. DOMAIN podMeta = {}
    BY DEF Init, EmptyStore
  <1> QED BY <1>1, <1>2 DEF Init, TypeOK

LEMMA TypeStep == TypeOK /\ [Next]_vars => TypeOK'
  <1> SUFFICES ASSUME TypeOK, [Next]_vars PROVE TypeOK'
    OBVIOUS
  <1>1. ASSUME NEW p \in Pods, Deliver(p) PROVE TypeOK'
    <2>1. pods' \in [Pods -> Versions] /\ known' \in [Pods -> Versions] /\ edits' \in Nat
      BY <1>1 DEF TypeOK, Deliver
    <2>2. pods[p] \in Versions
      BY DEF TypeOK
    <2>3. CASE pods[p].live /\ onPodAdd(pods[p])
      BY <2>1, <2>2, <2>3, Added DEF TypeOK
    <2>4. CASE \E v \in {pods[p], known[p]} : onPodDelete(v)
      BY <2>1, <2>4, Deleted DEF TypeOK
    <2>5. CASE UNCHANGED <<podMeta, trigger>>
      BY <2>1, <2>5 DEF TypeOK
    <2> QED BY <1>1, <2>3, <2>4, <2>5 DEF Deliver
  <1>2. ASSUME NEW p \in Pods, Resync(p) PROVE TypeOK'
    <2>1. known[p] \in Versions /\ onPodAdd(known[p])
      BY <1>2 DEF TypeOK, Resync
    <2> QED BY <1>2, <2>1, Added DEF TypeOK, Resync
  <1>3. ASSUME NEW p \in Pods, NEW v \in Versions, Edit(p, v) PROVE TypeOK'
    BY <1>3 DEF TypeOK, Edit
  <1>4. CASE TakeToken
    BY <1>4 DEF TypeOK, TakeToken
  <1>5. CASE UNCHANGED vars
    BY <1>5 DEF TypeOK, vars
  <1> QED BY <1>1, <1>2, <1>3, <1>4, <1>5 DEF Next

(* The watcher's table of pods always maps IPs to namespaces and labels: a *)
(* pod that has no IP yet is never recorded.                               *)
THEOREM TypeCorrect == Spec => []TypeOK
  BY TypeInit, TypeStep, PTL DEF Spec

-----------------------------------------------------------------------------
(* Every IP in podMeta is one the informer knows a live pod to have.       *)
Tracked == \A ip \in DOMAIN podMeta : \E p \in Pods : known[p].live /\ known[p].ip = ip

(* An IP the informer has seen is still the pod's.                         *)
Kept == \A p \in Pods : known[p].ip \in {NoIP, pods[p].ip}

ForgetInv == TypeOK /\ Tracked /\ Kept

LEMMA ForgetInit == Init => ForgetInv
  <1> SUFFICES ASSUME Init PROVE Tracked /\ Kept
    BY TypeInit DEF ForgetInv
  <1> QED BY DEF Init, Tracked, Kept, EmptyStore

(* A delivery replaces the informer's copy of one pod, whose IP was the    *)
(* same or not there.                                                      *)
LEMMA DeliverKeeps ==
    ASSUME ForgetInv, NEW p \in Pods, Deliver(p)
    PROVE  Tracked' /\ Kept'
  <1>1. known' = [known EXCEPT ![p] = pods[p]] /\ pods' = pods
    BY DEF Deliver
  <1>2. Kept'
    BY <1>1 DEF ForgetInv, Kept, TypeOK
  <1>3. known'[p] = pods[p] /\ \A q \in Pods \ {p} : known'[q] = known[q]
    BY <1>1 DEF ForgetInv, TypeOK
  <1>4. DOMAIN podMeta \subseteq IPs /\ pods[p] \in Versions /\ known[p].ip \in {NoIP, pods[p].ip}
    BY DEF ForgetInv, TypeOK, Kept
  <1>5. CASE pods[p].live /\ onPodAdd(pods[p])
    <2>1. DOMAIN podMeta' = DOMAIN podMeta \cup ({pods[p].ip} \ {NoIP})
      BY <1>4, <1>5, Added DEF ForgetInv
    <2>2. ASSUME NEW ip \in DOMAIN podMeta'
          PROVE  \E q \in Pods : known'[q].live /\ known'[q].ip = ip
      <3>1. CASE ip = pods[p].ip
        BY <1>3, <1>5, <3>1
      <3>2. CASE ip # pods[p].ip
        <4>1. ip \in DOMAIN podMeta /\ ip # NoIP
          BY <2>1, <3>2, <1>4, NoIPAssumption
        <4>2. PICK q \in Pods : known[q].live /\ known[q].ip = ip
          BY <4>1 DEF ForgetInv, Tracked
        <4>3. q # p
          BY <4>1, <4>2, <3>2, <1>4
        <4> QED BY <1>3, <4>2, <4>3
      <3> QED BY <3>1, <3>2
    <2> QED BY <1>2, <2>2 DEF Tracked
  <1>6. ASSUME known[p].live, NEW v \in {pods[p], known[p]}, onPodDelete(v)
        PROVE  Tracked' /\ Kept'
    <2>1. DOMAIN podMeta' = DOMAIN podMeta \ {v.ip}
      BY <1>6, Deleted DEF ForgetInv
    <2>2. ASSUME NEW ip \in DOMAIN podMeta'
          PROVE  \E q \in Pods : known'[q].live /\ known'[q].ip = ip
      <3>1. ip \in DOMAIN podMeta /\ ip # v.ip /\ ip # NoIP
        BY <2>1, <1>4, NoIPAssumption
      <3>2. PICK q \in Pods : known[q].live /\ known[q].ip = ip
        BY <3>1 DEF ForgetInv, Tracked
      <3>3. q # p
        BY <3>1, <3>2, <1>4, <1>6
      <3> QED BY <1>3, <3>2, <3>3
    <2> QED BY <1>2, <2>2 DEF Tracked
  <1>7. CASE ~known[p].live /\ UNCHANGED <<podMeta, trigger>>
    <2>1. ASSUME NEW ip \in DOMAIN podMeta
          PROVE  \E q \in Pods : known'[q].live /\ known'[q].ip = ip
      <3>1. PICK q \in Pods : known[q].live /\ known[q].ip = ip
        BY DEF ForgetInv, Tracked
      <3>2. q # p
        BY <3>1, <1>7
      <3> QED BY <1>3, <3>1, <3>2
    <2> QED BY <1>2, <1>7, <2>1 DEF Tracked
  <1> QED BY <1>5, <1>6, <1>7 DEF Deliver

LEMMA ForgetStep == ~IPsChange /\ ForgetInv /\ [Next]_vars => ForgetInv'
  <1> SUFFICES ASSUME ~IPsChange, ForgetInv, [Next]_vars PROVE Tracked' /\ Kept'
    BY TypeStep DEF ForgetInv
  <1>1. ASSUME NEW p \in Pods, Deliver(p) PROVE Tracked' /\ Kept'
    BY <1>1, DeliverKeeps
  <1>2. ASSUME NEW p \in Pods, Resync(p) PROVE Tracked' /\ Kept'
    <2>1. known[p] \in Versions /\ onPodAdd(known[p]) /\ known[p].live
      BY <1>2 DEF ForgetInv, TypeOK, Resync
    <2>2. DOMAIN podMeta' = DOMAIN podMeta \cup ({known[p].ip} \ {NoIP})
      BY <2>1, Added DEF ForgetInv
    <2> QED BY <1>2, <2>1, <2>2 DEF ForgetInv, Tracked, Kept, Resync
  <1>3. ASSUME NEW p \in Pods, NEW v \in Versions, Edit(p, v) PROVE Tracked' /\ Kept'
    <2>1. pods[p].ip \in {NoIP, v.ip} /\ UNCHANGED <<known, podMeta>>
      BY <1>3 DEF Edit
    <2>2. pods' = [pods EXCEPT ![p] = v]
      BY <1>3 DEF Edit
    <2>3. pods'[p] = v /\ \A q \in Pods \ {p} : pods'[q] = pods[q]
      BY <2>2 DEF ForgetInv, TypeOK
    <2>4. Kept'
      BY <2>1, <2>3 DEF ForgetInv, Kept
    <2> QED BY <2>1, <2>4 DEF ForgetInv, Tracked
  <1>4. CASE TakeToken
    BY <1>4 DEF ForgetInv, Tracked, Kept, TakeToken
  <1>5. CASE UNCHANGED vars
    BY <1>5 DEF ForgetInv, Tracked, Kept, vars
  <1> QED BY <1>1, <1>2, <1>3, <1>4, <1>5 DEF Next

(* Pods that keep their IP leave nothing behind in podMeta: once every     *)
(* event has been handled, in whatever order, skipped or as tombstones, an *)
(* IP that no pod holds is not found by NamespaceLookup.                   *)
THEOREM LookupsForget == ~IPsChange /\ Spec => []LookupForgets
  <1>1. ForgetInv => LookupForgets
    BY DEF ForgetInv, Tracked, LookupForgets, CaughtUp, Holders, NamespaceLookup
  <1>2. CASE ~IPsChange
    BY <1>1, <1>2, ForgetInit, ForgetStep, PTL DEF Spec
  <1>3. CASE IPsChange
    BY <1>3
  <1> QED BY <1>2, <1>3, MaxEditsAssumption
=============================================================================
