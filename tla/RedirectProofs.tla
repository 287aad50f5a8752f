--------------------------- MODULE RedirectProofs ---------------------------
(* Proofs about Redirect, for any client addresses, servers and bounds.    *)
EXTENDS Redirect, TLAPS

Conn == [port : Ports, dst : Servers, st : {"new", "syn", "open", "fin", "closed"}]

(* What the programs may write into the map, and where packets go.         *)
LEMMA Recorded ==
    ASSUME NEW map \in [Ports -> Web \cup {None}], NEW p \in Ports, NEW d, NEW syn
    PROVE  /\ Record(map, p, d, syn) \in [Ports -> Web \cup {None}]
           /\ \A q \in Ports : Record(map, p, d, syn)[q] =
                IF Intercepts(d) /\ q = p THEN d ELSE map[q]
  BY DEF Record, Intercepts

LEMMA TargetIsEnd == ASSUME NEW d \in Servers PROVE Target(d) \in Ends
  BY DEF Target, Ends

LEMMA BecomeType ==
    ASSUME NEW i \in Ids, NEW st \in {"syn", "open", "fin", "closed"},
           conns \in [Ids -> Conn], Become(i, st)
    PROVE  conns' \in [Ids -> Conn]
  BY DEF Become, Conn

(* One socket is opened or closed.                                         *)
LEMMA SockSet ==
    ASSUME sock \in [Ends -> [Ports -> Ids \cup {0}]], NEW t \in Ends, NEW p \in Ports,
           NEW n \in Ids \cup {0}, sock' = [sock EXCEPT ![t][p] = n]
    PROVE  /\ sock' \in [Ends -> [Ports -> Ids \cup {0}]]
           /\ \A e \in Ends, q \in Ports :
                sock'[e][q] = IF e = t /\ q = p THEN n ELSE sock[e][q]
  <1>1. sock' = [sock EXCEPT ![t] = [sock[t] EXCEPT ![p] = n]]
    OBVIOUS
  <1>2. [sock[t] EXCEPT ![p] = n] \in [Ports -> Ids \cup {0}]
    OBVIOUS
  <1> QED BY <1>1, <1>2

(* A reset is recorded by tc_ingress and may close the socket it reaches.  *)
LEMMA ResetType ==
    ASSUME TypeOK, NEW map \in [Ports -> Web \cup {None}], NEW e \in Ends, NEW p \in Ports, NEW j,
           Reset(map, e, p, j)
    PROVE  /\ origDst' \in [Ports -> Web \cup {None}]
           /\ sock' \in [Ends -> [Ports -> Ids \cup {0}]]
  <1>1. origDst' = map \/ origDst' = Record(map, p, Source(map, e, p), FALSE)
    BY DEF Reset
  <1>2. Record(map, p, Source(map, e, p), FALSE) \in [Ports -> Web \cup {None}]
    BY Recorded
  <1>3. \/ UNCHANGED sock
        \/ \E t \in Ends : sock' = [sock EXCEPT ![t][p] = 0]
    BY DEF Reset
  <1>4. sock' \in [Ends -> [Ports -> Ids \cup {0}]]
    BY <1>3, SockSet DEF TypeOK
  <1> QED BY <1>1, <1>2, <1>4

-----------------------------------------------------------------------------
LEMMA TypeInit == Init => TypeOK
  <1> SUFFICES ASSUME Init PROVE TypeOK
    OBVIOUS
  <1>1. (CHOOSE p \in Ports : TRUE) \in Ports /\ (CHOOSE d \in Servers : TRUE) \in Servers
    BY RedirectAssumption
  <1>2. conns \in [Ids -> Conn]
    BY <1>1 DEF Init, Conn
  <1>3. 0 \in 0 .. MaxFlips /\ 0 \in 0 .. MaxEvicts /\ 0 \in 0 .. MaxCrashes
    BY RedirectAssumption
  <1> QED BY <1>2, <1>3 DEF Init, TypeOK, NoMap, Conn

LEMMA TypeSendSyn == ASSUME TypeOK, NEW i \in Ids, SendSyn(i) PROVE TypeOK'
  <1> DEFINE p == conns[i].port
             d == conns[i].dst
             e == Target(d)
             map == Record(origDst, p, d, TRUE)
             j == sock[e][p]
  <1>0. p \in Ports /\ d \in Servers /\ e \in Ends /\ map \in [Ports -> Web \cup {None}]
    BY TargetIsEnd, Recorded DEF TypeOK
  <1>1. conns' \in [Ids -> Conn]
    BY BecomeType DEF TypeOK, SendSyn, Conn
  <1>2. /\ origDst' \in [Ports -> Web \cup {None}]
        /\ sock' \in [Ends -> [Ports -> Ids \cup {0}]]
    <2>1. CASE j \notin {0, i} /\ Reset(map, e, p, j)
      BY <1>0, <2>1, ResetType
    <2>2. CASE origDst' = map /\ sock' = [sock EXCEPT ![e][p] = i]
      BY <1>0, <2>2, SockSet DEF TypeOK
    <2>3. CASE origDst' = map /\ UNCHANGED sock
      BY <1>0, <2>3 DEF TypeOK
    <2> HIDE DEF p, d, e, map, j
    <2> QED BY <2>1, <2>2, <2>3 DEF SendSyn, p, d, e, map, j
  <1>3. UNCHANGED <<prog, serving, accepted, found, flips, evicts, crashes>>
    BY DEF SendSyn
  <1> QED BY <1>1, <1>2, <1>3 DEF TypeOK, Conn

LEMMA TypeSend == ASSUME TypeOK, NEW i \in Ids, Send(i) PROVE TypeOK'
  <1> DEFINE p == conns[i].port
             d == conns[i].dst
             e == Target(d)
  <1>0. p \in Ports /\ d \in Servers /\ e \in Ends
    BY TargetIsEnd DEF TypeOK
  <1>1. conns' \in [Ids -> Conn]
    BY BecomeType DEF TypeOK, Send, Conn
  <1>2. origDst' \in [Ports -> Web \cup {None}]
    BY <1>0, Recorded DEF Send, TypeOK
  <1>3. sock' \in [Ends -> [Ports -> Ids \cup {0}]]
    <2>1. CASE sock' = [sock EXCEPT ![e][p] = 0]
      BY <1>0, <2>1, SockSet DEF TypeOK
    <2>2. CASE UNCHANGED sock
      BY <2>2 DEF TypeOK
    <2> QED BY <2>1, <2>2 DEF Send
  <1>4. accepted' \subseteq Ids
    BY DEF Send, TypeOK
  <1>5. UNCHANGED <<prog, serving, found, flips, evicts, crashes>>
    BY DEF Send
  <1> QED BY <1>1, <1>2, <1>3, <1>4, <1>5 DEF TypeOK, Conn

LEMMA TypeAnswer ==
    ASSUME TypeOK, NEW e \in Ends, NEW p \in Ports, Answer(e, p)
    PROVE  TypeOK'
  <1> DEFINE j == sock[e][p]
  <1>0. j \in Ids
    BY DEF Answer, TypeOK
  <1>1. conns' \in [Ids -> Conn]
    BY <1>0, BecomeType DEF TypeOK, Answer, Conn
  <1>2. /\ origDst' \in [Ports -> Web \cup {None}]
        /\ sock' \in [Ends -> [Ports -> Ids \cup {0}]]
    <2>1. CASE UNCHANGED <<origDst, sock>>
      BY <2>1 DEF TypeOK
    <2>2. CASE Reset(origDst, e, p, j)
      BY <2>2, ResetType DEF TypeOK
    <2> QED BY <2>1, <2>2 DEF Answer
  <1>3. UNCHANGED <<prog, serving, accepted, found, flips, evicts, crashes>>
    BY DEF Answer
  <1> QED BY <1>1, <1>2, <1>3 DEF TypeOK, Conn

LEMMA TypeHangup ==
    ASSUME TypeOK, NEW e \in Ends, NEW p \in Ports, Hangup(e, p)
    PROVE  TypeOK'
  <1> DEFINE j == sock[e][p]
  <1>0. j \in Ids
    BY DEF Hangup, TypeOK
  <1>1. conns' \in [Ids -> Conn]
    BY <1>0, BecomeType DEF TypeOK, Hangup, Conn
  <1>2. origDst' \in [Ports -> Web \cup {None}]
    <2>1. Record(origDst, p, Source(origDst, e, p), FALSE) \in [Ports -> Web \cup {None}]
      BY Recorded DEF TypeOK
    <2> QED BY <2>1 DEF Hangup, TypeOK
  <1>3. sock' \in [Ends -> [Ports -> Ids \cup {0}]]
    <2>1. sock' = [sock EXCEPT ![e][p] = 0]
      BY DEF Hangup
    <2> QED BY <2>1, SockSet DEF TypeOK
  <1>4. UNCHANGED <<prog, serving, accepted, found, flips, evicts, crashes>>
    BY DEF Hangup
  <1> QED BY <1>1, <1>2, <1>3, <1>4 DEF TypeOK, Conn

LEMMA TypeStep == TypeOK /\ [Next]_vars => TypeOK'
  <1> SUFFICES ASSUME TypeOK, [Next]_vars PROVE TypeOK'
    OBVIOUS
  <1>1. CASE Connect
    BY <1>1 DEF TypeOK, Connect
  <1>2. ASSUME NEW i \in Ids, Close(i) \/ GiveUp(i) PROVE TypeOK'
    BY <1>2, BecomeType DEF TypeOK, Conn, Close, GiveUp
  <1>3. ASSUME NEW i \in Ids, Lookup(i) PROVE TypeOK'
    <2>1. origDst[conns[i].port] \in Web \cup {None}
      BY DEF TypeOK
    <2> QED BY <1>3, <2>1 DEF TypeOK, Lookup
  <1>4. CASE Listen
    BY <1>4 DEF TypeOK, Listen
  <1>5. CASE Attach \/ Detach \/ Ending
    BY <1>5, RedirectAssumption DEF TypeOK, Attach, Detach, Ending, Attached, Detached
  <1>6. CASE Crash
    <2>1. sock' \in [Ends -> [Ports -> Ids \cup {0}]]
      BY <1>6 DEF TypeOK, Crash, Ends
    <2>2. origDst' \in [Ports -> Web \cup {None}]
      BY <1>6 DEF Crash, NoMap
    <2>3. crashes' \in 0 .. MaxCrashes
      BY <1>6, RedirectAssumption DEF TypeOK, Crash
    <2> QED BY <1>6, <2>1, <2>2, <2>3 DEF TypeOK, Crash
  <1>7. ASSUME NEW p \in Ports, Evict(p) PROVE TypeOK'
    BY <1>7, RedirectAssumption DEF TypeOK, Evict
  <1>8. CASE UNCHANGED vars
    BY <1>8 DEF TypeOK, vars
  <1> QED
    BY <1>1, <1>2, <1>3, <1>4, <1>5, <1>6, <1>7, <1>8,
       TypeSendSyn, TypeSend, TypeAnswer, TypeHangup DEF Next

(* The map orig_dst, and so what origdst.Lookup returns, holds only        *)
(* destinations that tc_ingress redirects, through evictions, resets,      *)
(* half attached programs and restarts.                                    *)
THEOREM TypeCorrect == Spec => []TypeOK
  BY TypeInit, TypeStep, PTL DEF Spec

-----------------------------------------------------------------------------
(* What handleConn learns.                                                 *)

Started(i) == conns[i].st # "new"

(* No later connection uses its port.                                      *)
Latest(i) == \A k \in Ids : k > i /\ Started(k) => conns[k].port # conns[i].port

InOrder == \A i, k \in Ids : k < i /\ Started(i) => Started(k)

LiveLatest == \A i \in Ids : Live(i) => Latest(i)

(* Servers know only the latest connection of a client address: the one    *)
(* fact that is lost if ports are used again too early.                    *)
ServerLatest ==
    \A e \in Servers, p \in Ports, j \in Ids : sock[e][p] = j =>
        Started(j) /\ Latest(j) /\ conns[j].port = p /\ conns[j].dst = e

ProxyStarted ==
    /\ \A p \in Ports, j \in Ids : sock[Proxy][p] = j => Started(j)
    /\ \A i \in accepted : Started(i)

(* For the latest connection of a client address that reached the proxy    *)
(* the map has the right destination or none.                              *)
MapRight ==
    \A i \in Ids :
        /\ Started(i) /\ Latest(i)
        /\ i \in accepted \/ sock[Proxy][conns[i].port] = i
        => origDst[conns[i].port] \in {None, conns[i].dst}

LookupInv == TypeOK /\ InOrder /\ LiveLatest /\ ServerLatest /\ ProxyStarted /\ MapRight

LEMMA LookupInit == Init => LookupInv
  <1> SUFFICES ASSUME Init PROVE LookupInv
    OBVIOUS
  <1>0. \A i \in Ids : i # 0
    BY DEF Ids
  <1>1. \A i \in Ids : ~Started(i) /\ ~Live(i)
    BY DEF Init, Started, Live
  <1>2. \A e \in Ends, p \in Ports : sock[e][p] = 0
    BY DEF Init
  <1> QED
    BY <1>0, <1>1, <1>2, TypeInit
    DEF Init, LookupInv, InOrder, LiveLatest, ServerLatest, ProxyStarted, MapRight, Ends

LEMMA LatestUnique ==
    ASSUME NEW i \in Ids, NEW j \in Ids, Started(i), Started(j), Latest(i), Latest(j),
           conns[i].port = conns[j].port
    PROVE  i = j
  BY DEF Latest, Ids

(* What every step but Connect keeps to: connections only end; sockets are *)
(* closed, or opened for live connections; the proxy accepts connections   *)
(* it has a socket for; an entry of the map is left, lost, or becomes the  *)
(* destination of the latest connection.                                   *)
ConnsOrderly ==
    \A i \in Ids : /\ conns'[i].port = conns[i].port /\ conns'[i].dst = conns[i].dst
                   /\ Started(i)' <=> Started(i)
                   /\ Live(i)' => Live(i)

MapOrderly ==
    \A q \in Ports :
        \/ origDst'[q] \in {origDst[q], None}
        \/ \E j \in Ids : /\ Started(j) /\ Latest(j) /\ conns[j].port = q
                          /\ origDst'[q] = conns[j].dst

Orderly ==
    /\ ConnsOrderly /\ MapOrderly
    /\ \A e \in Servers, q \in Ports :
           \/ sock'[e][q] \in {sock[e][q], 0}
           \/ \E j \in Ids : Live(j) /\ conns[j].port = q /\ conns[j].dst = e /\ sock'[e][q] = j
    /\ \A q \in Ports :
           \/ sock'[Proxy][q] \in {sock[Proxy][q], 0}
           \/ \E j \in Ids : /\ Live(j) /\ conns[j].port = q /\ sock'[Proxy][q] = j
                             /\ origDst'[q] \in {None, conns[j].dst}
    /\ \A i \in accepted' : i \in accepted \/ (i \in Ids /\ Live(i) /\ sock[Proxy][conns[i].port] = i)

LEMMA OrderlyKeeps == ASSUME LookupInv, TypeOK', Orderly PROVE LookupInv'
  <1>1. \A i \in Ids : Latest(i)' <=> Latest(i)
    BY DEF Orderly, ConnsOrderly, Latest
  <1>2. InOrder'
    BY DEF LookupInv, InOrder, Orderly, ConnsOrderly
  <1>3. LiveLatest'
    BY <1>1 DEF LookupInv, LiveLatest, Orderly, ConnsOrderly
  <1>4. \A i \in Ids : Live(i) => Started(i) /\ Latest(i)
    BY DEF LookupInv, LiveLatest, Live, Started
  <1>5. ServerLatest'
    <2> SUFFICES ASSUME NEW e \in Servers, NEW p \in Ports, NEW j \in Ids, sock'[e][p] = j
                 PROVE  Started(j)' /\ Latest(j)' /\ conns'[j].port = p /\ conns'[j].dst = e
      BY DEF ServerLatest
    <2>0. j # 0
      BY DEF Ids
    <2>1. CASE sock[e][p] = j
      BY <1>1, <2>1 DEF LookupInv, ServerLatest, Orderly, ConnsOrderly
    <2>2. CASE Live(j) /\ conns[j].port = p /\ conns[j].dst = e
      BY <1>1, <1>4, <2>2 DEF Orderly, ConnsOrderly
    <2> QED BY <2>0, <2>1, <2>2 DEF Orderly
  <1>6. ProxyStarted'
    <2>1. ASSUME NEW p \in Ports, NEW j \in Ids, sock'[Proxy][p] = j PROVE Started(j)'
      <3>0. j # 0
        BY DEF Ids
      <3>1. sock[Proxy][p] = j \/ Live(j)
        BY <2>1, <3>0 DEF Orderly
      <3> QED BY <1>4, <3>1 DEF LookupInv, ProxyStarted, Orderly, ConnsOrderly
    <2>2. ASSUME NEW i \in accepted' PROVE Started(i)'
      BY <1>4 DEF LookupInv, ProxyStarted, Orderly, ConnsOrderly, TypeOK
    <2> QED BY <2>1, <2>2 DEF ProxyStarted
  <1>7. MapRight'
    <2> SUFFICES ASSUME NEW i \in Ids, Started(i), Latest(i),
                        i \in accepted' \/ sock'[Proxy][conns[i].port] = i
                 PROVE  origDst'[conns[i].port] \in {None, conns[i].dst}
      BY <1>1 DEF MapRight, Orderly, ConnsOrderly
    <2> DEFINE q == conns[i].port
    <2>0. q \in Ports /\ i # 0
      BY DEF LookupInv, TypeOK, Ids
    <2>1. CASE \E j \in Ids : /\ Started(j) /\ Latest(j) /\ conns[j].port = q
                              /\ origDst'[q] = conns[j].dst
      BY <2>1, LatestUnique
    <2>2. CASE origDst'[q] = origDst[q]
      <3>1. CASE i \in accepted \/ sock[Proxy][q] = i
        BY <2>2, <3>1 DEF LookupInv, MapRight
      <3>2. CASE i \notin accepted /\ sock[Proxy][q] # i
        <4>1. sock'[Proxy][q] = i
          BY <3>2 DEF Orderly
        <4>2. \E j \in Ids : sock'[Proxy][q] = j /\ origDst'[q] \in {None, conns[j].dst}
          BY <2>0, <3>2, <4>1 DEF Orderly
        <4> QED BY <4>1, <4>2
      <3> QED BY <3>1, <3>2
    <2> QED BY <2>0, <2>1, <2>2 DEF Orderly, MapOrderly
  <1> QED BY <1>2, <1>3, <1>5, <1>6, <1>7 DEF LookupInv

-----------------------------------------------------------------------------
(* How the steps establish that.                                           *)

LEMMA BecomeOrderly ==
    ASSUME TypeOK, NEW i \in Ids, Live(i), NEW st \in {"open", "fin", "closed"},
           Become(i, st) \/ UNCHANGED conns
    PROVE  ConnsOrderly
  <1>1. CASE UNCHANGED conns
    BY <1>1 DEF ConnsOrderly, Started, Live
  <1>2. CASE Become(i, st)
    BY <1>2 DEF Become, TypeOK, ConnsOrderly, Started, Live
  <1> QED BY <1>1, <1>2

SocksOrderly ==
    \A e \in Ends, q \in Ports : sock'[e][q] \in {sock[e][q], 0}

LEMMA OrderlyParts ==
    ASSUME ConnsOrderly, SocksOrderly, MapOrderly,
           \A i \in accepted' : i \in accepted \/ (i \in Ids /\ Live(i) /\ sock[Proxy][conns[i].port] = i)
    PROVE  Orderly
  BY DEF Orderly, ConnsOrderly, SocksOrderly, MapOrderly, Ends

(* A live connection may be recorded.                                      *)
LEMMA RecordOrderly ==
    ASSUME LookupInv, NEW i \in Ids, Live(i), NEW syn,
           origDst' = Record(origDst, conns[i].port, conns[i].dst, syn)
    PROVE  MapOrderly
  <1>1. Started(i) /\ Latest(i) /\ conns[i].port \in Ports
    BY DEF LookupInv, LiveLatest, Live, Started, TypeOK
  <1>2. \A q \in Ports : origDst'[q] = IF Intercepts(conns[i].dst) /\ q = conns[i].port
                                      THEN conns[i].dst ELSE origDst[q]
    BY <1>1, Recorded DEF LookupInv, TypeOK
  <1> QED BY <1>1, <1>2 DEF MapOrderly

(* A reset closes at most a socket; it records what is in the map already, *)
(* or the server that sent the packet it answers.                          *)
LEMMA ResetSocks ==
    ASSUME TypeOK, NEW map, NEW e \in Ends, NEW p \in Ports, NEW j, Reset(map, e, p, j)
    PROVE  SocksOrderly
  <1>1. CASE UNCHANGED sock
    BY <1>1 DEF SocksOrderly
  <1>2. CASE \E t \in Ends : sock' = [sock EXCEPT ![t][p] = 0]
    BY <1>2, SockSet DEF SocksOrderly, TypeOK
  <1> QED BY <1>1, <1>2 DEF Reset

LEMMA ResetMap ==
    ASSUME NEW map \in [Ports -> Web \cup {None}], NEW e \in Ends, NEW p \in Ports, NEW j,
           Reset(map, e, p, j)
    PROVE  /\ \A q \in Ports \ {p} : origDst'[q] = map[q]
           /\ \/ origDst'[p] = map[p]
              \/ origDst'[p] = e /\ e \in Web
  <1> DEFINE src == Source(map, e, p)
  <1>1. src = map[p] \/ src = e
    BY DEF Source
  <1> HIDE DEF src
  <1>2. CASE origDst' = map
    BY <1>2
  <1>3. CASE origDst' = Record(map, p, src, FALSE)
    <2>1. \A q \in Ports : Record(map, p, src, FALSE)[q] =
                             IF Intercepts(src) /\ q = p THEN src ELSE map[q]
      BY DEF Record
    <2> QED BY <1>1, <1>3, <2>1 DEF Intercepts
  <1> QED BY <1>2, <1>3 DEF Reset, src

LEMMA LookupSendSyn == ASSUME LookupInv, NEW i \in Ids, SendSyn(i) PROVE LookupInv'
  <1> DEFINE p == conns[i].port
             d == conns[i].dst
             e == Target(d)
             map == Record(origDst, p, d, TRUE)
             j == sock[e][p]
  <1>0. /\ TypeOK /\ p \in Ports /\ d \in Servers /\ e \in Ends
        /\ map \in [Ports -> Web \cup {None}]
    BY TargetIsEnd, Recorded DEF LookupInv, TypeOK
  <1>1. Live(i) /\ Started(i) /\ Latest(i)
    BY DEF SendSyn, LookupInv, LiveLatest, Live, Started
  <1>2. \A q \in Ports : map[q] = IF Intercepts(d) /\ q = p THEN d ELSE origDst[q]
    <2>1. origDst \in [Ports -> Web \cup {None}]
      BY <1>0 DEF TypeOK
    <2> HIDE DEF p, d
    <2> QED BY <1>0, <2>1 DEF Record, map
  <1>3. (e = Proxy /\ Intercepts(d)) \/ (e = d /\ ~Intercepts(d))
    BY DEF Target
  <1>4. Proxy \notin Servers
    BY RedirectAssumption
  <1>5. ConnsOrderly
    BY <1>0, <1>1, BecomeOrderly DEF SendSyn
  <1>6. UNCHANGED accepted
    BY DEF SendSyn
  <1>7. TypeOK'
    BY TypeSendSyn, <1>0
  <1> HIDE DEF p, d, e, map, j
  <1>8. CASE origDst' = map /\ UNCHANGED sock
    <2>1. MapOrderly
      BY <1>1, <1>2, <1>8 DEF MapOrderly, p, d
    <2>2. SocksOrderly
      BY <1>8 DEF SocksOrderly
    <2> QED BY <1>5, <1>6, <1>7, <2>1, <2>2, OrderlyParts, OrderlyKeeps
  <1>9. CASE origDst' = map /\ sock' = [sock EXCEPT ![e][p] = i]
    <2>1. MapOrderly
      BY <1>1, <1>2, <1>9 DEF MapOrderly, p, d
    <2>2. \A f \in Ends, q \in Ports : sock'[f][q] = IF f = e /\ q = p THEN i ELSE sock[f][q]
      BY <1>0, <1>9, SockSet DEF TypeOK
    <2>3. Orderly
      BY <1>0, <1>1, <1>2, <1>3, <1>4, <1>5, <1>6, <1>9, <2>1, <2>2 DEF Orderly, Ends, p, d
    <2> QED BY <1>7, <2>3, OrderlyKeeps
  <1>10. CASE j \notin {0, i} /\ Reset(map, e, p, j)
    <2>1. e = Proxy /\ Intercepts(d)
      <3>1. j \in Ids
        BY <1>0, <1>10 DEF TypeOK, j
      <3>2. CASE e = d
        <4>1. Started(j) /\ Latest(j) /\ conns[j].port = p
          BY <1>0, <3>1, <3>2 DEF LookupInv, ServerLatest, j
        <4> QED BY <1>1, <1>10, <3>1, <4>1, LatestUnique DEF p
      <3> QED BY <1>3, <3>2
    <2>2. \A q \in Ports : origDst'[q] = map[q]
      <3>1. e \notin Web
        BY <1>4, <2>1 DEF Servers
      <3> QED BY <1>0, <1>10, <3>1, ResetMap
    <2>3. MapOrderly
      BY <1>1, <1>2, <2>2 DEF MapOrderly, p, d
    <2>4. SocksOrderly
      BY <1>0, <1>10, ResetSocks
    <2> QED BY <1>5, <1>6, <1>7, <2>3, <2>4, OrderlyParts, OrderlyKeeps
  <1> QED BY <1>8, <1>9, <1>10 DEF SendSyn, p, d, e, map, j

LEMMA LookupSend == ASSUME LookupInv, NEW i \in Ids, Send(i) PROVE LookupInv'
  <1> DEFINE p == conns[i].port
             d == conns[i].dst
             e == Target(d)
  <1>0. TypeOK /\ p \in Ports /\ d \in Servers /\ e \in Ends
    BY TargetIsEnd DEF LookupInv, TypeOK
  <1>1. Live(i)
    BY DEF Send, Live
  <1>2. ConnsOrderly
    BY <1>0, <1>1, BecomeOrderly DEF Send
  <1>3. MapOrderly
    BY <1>1, RecordOrderly DEF Send
  <1>4. SocksOrderly
    <2>1. CASE UNCHANGED sock
      BY <2>1 DEF SocksOrderly
    <2>2. CASE sock' = [sock EXCEPT ![e][p] = 0]
      BY <1>0, <2>2, SockSet DEF SocksOrderly, TypeOK
    <2> QED BY <2>1, <2>2 DEF Send
  <1>5. \A k \in accepted' : k \in accepted \/ (k \in Ids /\ Live(k) /\ sock[Proxy][conns[k].port] = k)
    <2>1. CASE UNCHANGED accepted
      BY <2>1
    <2>2. CASE accepted' = accepted \cup {i} /\ e = Proxy /\ sock[e][p] = i
      BY <1>1, <2>2
    <2> QED BY <2>1, <2>2 DEF Send
  <1> QED BY <1>0, <1>2, <1>3, <1>4, <1>5, TypeSend, OrderlyParts, OrderlyKeeps

LEMMA LookupAnswer ==
    ASSUME LookupInv, NEW e \in Ends, NEW p \in Ports, Answer(e, p)
    PROVE  LookupInv'
  <1> DEFINE j == sock[e][p]
  <1>0. TypeOK /\ j \in Ids /\ UNCHANGED accepted
    BY DEF LookupInv, TypeOK, Answer
  <1>1. CASE j \in Receivers(Source(origDst, e, p), p)
    <2>1. Live(j)
      BY <1>1 DEF Receivers
    <2>2. (UNCHANGED conns \/ Become(j, "open")) /\ UNCHANGED <<origDst, sock>>
      BY <1>1 DEF Answer
    <2>3. ConnsOrderly
      BY <1>0, <2>1, <2>2, BecomeOrderly
    <2>4. MapOrderly /\ SocksOrderly
      BY <2>2 DEF MapOrderly, SocksOrderly
    <2> QED BY <1>0, <2>3, <2>4, TypeAnswer, OrderlyParts, OrderlyKeeps
  <1>2. CASE Reset(origDst, e, p, j) /\ UNCHANGED conns
    <2>1. ConnsOrderly
      BY <1>2 DEF ConnsOrderly, Started, Live
    <2>2. SocksOrderly
      BY <1>0, <1>2, ResetSocks
    <2>3. e \in Web => Started(j) /\ Latest(j) /\ conns[j].port = p /\ conns[j].dst = e
      BY <1>0 DEF LookupInv, ServerLatest, Servers
    <2>4. origDst \in [Ports -> Web \cup {None}]
      BY <1>0 DEF TypeOK
    <2>5. /\ \A q \in Ports \ {p} : origDst'[q] = origDst[q]
          /\ origDst'[p] = origDst[p] \/ (origDst'[p] = e /\ e \in Web)
      BY <1>2, <2>4, ResetMap
    <2>6. MapOrderly
      BY <1>0, <2>3, <2>5 DEF MapOrderly
    <2> QED BY <1>0, <2>1, <2>2, <2>6, TypeAnswer, OrderlyParts, OrderlyKeeps
  <1> QED BY <1>1, <1>2 DEF Answer

LEMMA LookupHangup ==
    ASSUME LookupInv, NEW e \in Ends, NEW p \in Ports, Hangup(e, p)
    PROVE  LookupInv'
  <1> DEFINE j == sock[e][p]
             src == Source(origDst, e, p)
  <1>0. TypeOK /\ j \in Ids /\ UNCHANGED accepted
    BY DEF LookupInv, TypeOK, Hangup
  <1>1. SocksOrderly
    <2>1. sock' = [sock EXCEPT ![e][p] = 0]
      BY DEF Hangup
    <2> QED BY <1>0, <2>1, SockSet DEF SocksOrderly, TypeOK
  <1>2. CASE j \in Receivers(src, p)
    <2>1. Live(j) /\ conns[j].port = p /\ conns[j].dst = src
      BY <1>2 DEF Receivers
    <2>2. Become(j, "closed") /\ origDst' = Record(origDst, p, src, FALSE)
      BY <1>2 DEF Hangup
    <2>3. ConnsOrderly
      BY <1>0, <2>1, <2>2, BecomeOrderly
    <2>4. MapOrderly
      <3> HIDE DEF src, j
      <3>1. origDst' = Record(origDst, conns[j].port, conns[j].dst, FALSE)
        BY <2>1, <2>2
      <3> QED BY <1>0, <2>1, <3>1, RecordOrderly
    <2> QED BY <1>0, <1>1, <2>3, <2>4, TypeHangup, OrderlyParts, OrderlyKeeps
  <1>3. CASE UNCHANGED <<conns, origDst>>
    <2>1. ConnsOrderly /\ MapOrderly
      BY <1>3 DEF ConnsOrderly, MapOrderly, Started, Live
    <2> QED BY <1>0, <1>1, <2>1, TypeHangup, OrderlyParts, OrderlyKeeps
  <1> QED BY <1>2, <1>3 DEF Hangup

(* A new connection is the latest of its port, and nobody knows it yet.    *)
LEMMA LookupConnect == ASSUME LookupInv, ~Orphans, Connect PROVE LookupInv'
  <1> PICK i \in Ids, p \in Ports, d \in Servers :
        /\ conns[i].st = "new" /\ \A k \in 1 .. i - 1 : conns[k].st # "new"
        /\ \A k \in Ids : Live(k) => conns[k].port # p
        /\ \A e \in Servers : sock[e][p] = 0
        /\ conns' = [conns EXCEPT ![i] = [port |-> p, dst |-> d, st |-> "syn"]]
    BY DEF Connect
  <1>0. TypeOK /\ TypeOK' /\ UNCHANGED <<sock, origDst, accepted>>
    <2>1. Next
      BY DEF Next
    <2> QED BY <2>1, TypeStep DEF LookupInv, Connect
  <1>1. /\ \A k \in Ids \ {i} : conns'[k] = conns[k]
        /\ conns'[i] = [port |-> p, dst |-> d, st |-> "syn"]
    BY <1>0 DEF TypeOK
  <1>2. /\ \A k \in Ids \ {i} : (Started(k)' <=> Started(k)) /\ (Live(k)' <=> Live(k))
        /\ Started(i)' /\ ~Started(i) /\ ~Live(i)
    BY <1>1 DEF Started, Live
  <1>3. \A k \in Ids : Started(k) <=> k < i
    <2>1. ASSUME NEW k \in Ids, k < i PROVE Started(k)
      BY <2>1 DEF Started, Ids
    <2>2. ASSUME NEW k \in Ids, i <= k PROVE ~Started(k)
      BY <1>2, <2>2 DEF LookupInv, InOrder, Ids
    <2> QED BY <2>1, <2>2 DEF Ids
  <1>4. InOrder'
    BY <1>2, <1>3 DEF InOrder, Ids
  <1>5. Latest(i)'
    BY <1>2, <1>3 DEF Latest, Ids
  <1>6. \A k \in Ids \ {i} : /\ Latest(k)' => Latest(k)
                             /\ Latest(k) /\ conns[k].port # p => Latest(k)'
    BY <1>1, <1>2 DEF Latest
  <1>7. LiveLatest'
    BY <1>2, <1>5, <1>6 DEF LookupInv, LiveLatest
  <1>8. ServerLatest'
    <2> SUFFICES ASSUME NEW e \in Servers, NEW q \in Ports, NEW j \in Ids, sock[e][q] = j
                 PROVE  Started(j)' /\ Latest(j)' /\ conns'[j].port = q /\ conns'[j].dst = e
      BY <1>0 DEF ServerLatest
    <2>1. Started(j) /\ Latest(j) /\ conns[j].port = q /\ conns[j].dst = e
      BY DEF LookupInv, ServerLatest
    <2>2. q # p
      BY DEF Ids
    <2> QED BY <1>1, <1>2, <1>6, <2>1, <2>2
  <1>9. ProxyStarted'
    BY <1>0, <1>2 DEF LookupInv, ProxyStarted, TypeOK
  <1>10. MapRight'
    <2> SUFFICES ASSUME NEW k \in Ids, Started(k)', Latest(k)',
                        k \in accepted \/ sock[Proxy][conns'[k].port] = k
                 PROVE  origDst[conns'[k].port] \in {None, conns'[k].dst}
      BY <1>0 DEF MapRight
    <2>1. k # i
      BY <1>1, <1>2 DEF LookupInv, ProxyStarted
    <2>2. Started(k) /\ Latest(k) /\ conns'[k] = conns[k]
      BY <1>1, <1>2, <1>6, <2>1
    <2> QED BY <2>2 DEF LookupInv, MapRight
  <1> QED BY <1>0, <1>4, <1>7, <1>8, <1>9, <1>10 DEF LookupInv

LEMMA LookupStep == LookupInv /\ ~Orphans /\ [Next]_vars => LookupInv'
  <1> SUFFICES ASSUME LookupInv, ~Orphans, [Next]_vars PROVE LookupInv'
    OBVIOUS
  <1>0. TypeOK /\ TypeOK'
    BY TypeStep DEF LookupInv
  <1>1. ASSUME NEW i \in Ids, Close(i) \/ GiveUp(i) PROVE LookupInv'
    <2>1. Live(i) /\ (Become(i, "fin") \/ Become(i, "closed")) /\ UNCHANGED <<sock, origDst, accepted>>
      BY <1>1 DEF Close, GiveUp, Live
    <2>2. ConnsOrderly
      BY <1>0, <2>1, BecomeOrderly
    <2>3. SocksOrderly /\ MapOrderly
      BY <2>1 DEF SocksOrderly, MapOrderly
    <2> QED BY <1>0, <2>1, <2>2, <2>3, OrderlyParts, OrderlyKeeps
  <1>2. CASE UNCHANGED <<conns, sock, origDst, accepted>>
    <2>1. ConnsOrderly /\ SocksOrderly /\ MapOrderly
      BY <1>2 DEF ConnsOrderly, SocksOrderly, MapOrderly, Started, Live
    <2> QED BY <1>0, <1>2, <2>1, OrderlyParts, OrderlyKeeps
  <1>3. CASE Crash \/ \E p \in Ports : Evict(p)
    <2>1. UNCHANGED conns /\ accepted' \subseteq accepted
      BY <1>3 DEF Crash, Evict
    <2>2. ConnsOrderly
      BY <2>1 DEF ConnsOrderly, Started, Live
    <2>3. SocksOrderly
      BY <1>0, <1>3 DEF SocksOrderly, Crash, Evict, TypeOK, Ends
    <2>4. MapOrderly
      BY <1>0, <1>3 DEF MapOrderly, Crash, Evict, TypeOK, NoMap
    <2> QED BY <1>0, <2>1, <2>2, <2>3, <2>4, OrderlyParts, OrderlyKeeps
  <1>4. ASSUME NEW i \in Ids, Lookup(i) PROVE LookupInv'
    BY <1>2, <1>4 DEF Lookup
  <1>5. CASE Listen \/ Attach \/ Detach \/ Ending \/ UNCHANGED vars
    BY <1>2, <1>5 DEF Listen, Attach, Detach, Ending, Attached, Detached, vars
  <1> QED
    BY <1>1, <1>3, <1>4, <1>5, LookupConnect, LookupSendSyn, LookupSend, LookupAnswer, LookupHangup
    DEF Next

(* Only Lookup tells a handler anything.                                   *)
LEMMA LookupOnly ==
    ASSUME LookupInv, [Next]_vars
    PROVE  \A i \in Ids : found'[i] # found[i] /\ found'[i] # Failed
             => \/ found'[i] = conns[i].dst
                \/ \E k \in Ids : k > i /\ conns[k].st # "new" /\ conns[k].port = conns[i].port
  <1> SUFFICES ASSUME NEW i \in Ids, found'[i] # found[i], found'[i] # Failed, Latest(i)
               PROVE  found'[i] = conns[i].dst
    BY DEF Latest, Started
  <1>1. PICK k \in Ids : Lookup(k)
    BY DEF Next, vars, Connect, SendSyn, Send, Close, GiveUp, Answer, Hangup, Listen, Attach, Detach,
           Ending, Attached, Detached, Evict, Crash
  <1>2. i = k
    BY <1>1 DEF Lookup, LookupInv, TypeOK
  <1>3. i \in accepted /\ found'[i] = origDst[conns[i].port] /\ found'[i] # None
    BY <1>1, <1>2 DEF Lookup, LookupInv, TypeOK
  <1> QED BY <1>3 DEF LookupInv, MapRight, ProxyStarted

(* handleConn learns from orig_dst where its client was going, or nothing, *)
(* or the client's port has been given to another connection since: for    *)
(* any number of connections, evictions, attachments and restarts, if a    *)
(* port is not used again while a server still holds an earlier            *)
(* connection of it.                                                       *)
THEOREM HandlersLearnRight == ~Orphans /\ Spec => LookupRight
  <1>1. CASE ~Orphans
    BY <1>1, LookupInit, LookupStep, LookupOnly, PTL DEF Spec, LookupRight
  <1>2. CASE Orphans
    BY <1>2
  <1> QED BY <1>1, <1>2
=============================================================================
