------------------------------ MODULE Redirect ------------------------------
(***************************************************************************)
(* How connections of a pod get to the proxy and its answers back: the two *)
(* BPF programs of bpf/latch.c on the pod's veth, their map orig_dst, the  *)
(* proxy that asks the map where a connection was going                    *)
(* (origdst.Lookup), programs that are attached and detached while         *)
(* connections exist, and the process that starts, crashes and starts      *)
(* again.                                                                  *)
(*                                                                         *)
(* TCP is external and modelled by what matters here: an endpoint has at   *)
(* most one socket per client address, a packet that belongs to another    *)
(* connection than the socket it reaches is not accepted, one that reaches *)
(* no socket is answered by a reset.  Connection numbers stand for         *)
(* sequence numbers.  A packet is sent, rewritten and received in a step;  *)
(* lost ones are those that are not sent, and any packet may be sent again.*)
(***************************************************************************)
EXTENDS Naturals

CONSTANTS Ports,      \* client addresses: IP of a pod and a port
          Web,        \* destinations with port 80 or 443
          Others,     \* destinations with another port
          Orphans,    \* whether a port is used again although a server still
                      \* holds an earlier connection of it
          MaxConns, MaxFlips, MaxEvicts, MaxCrashes,   \* bounds
          Proxy, None, Failed

Servers == Web \cup Others
Ends == Servers \cup {Proxy}
Ids == 1 .. MaxConns

ASSUME RedirectAssumption ==
    /\ Orphans \in BOOLEAN
    /\ Ports # {} /\ Servers # {}
    /\ Web \cap Others = {} /\ {Proxy, None, Failed} \cap Servers = {}
    /\ MaxConns \in Nat /\ MaxFlips \in Nat /\ MaxEvicts \in Nat /\ MaxCrashes \in Nat

VARIABLES
    conns,     \* the pod's connections: port, destination, state
    sock,      \* for each end and client address the connection of its socket
    origDst,   \* the BPF map orig_dst
    prog,      \* the programs: "off", "attaching" (ingress only), "on",
               \* "detaching" (egress only)
    serving,   \* the proxy accepts connections
    accepted,  \* connections that the proxy has accepted
    found,     \* what their handlers learned from the map
    flips, evicts, crashes

vars == <<conns, sock, origDst, prog, serving, accepted, found, flips, evicts, crashes>>

Live(i) == conns[i].st \in {"syn", "open", "fin"}

(* The BPF map holds only destinations with port 80 or 443, and so does    *)
(* what handlers learn from it: tc_ingress records before it rewrites.     *)
TypeOK == /\ conns \in [Ids -> [port : Ports, dst : Servers,
                                st : {"new", "syn", "open", "fin", "closed"}]]
          /\ sock \in [Ends -> [Ports -> Ids \cup {0}]]
          /\ origDst \in [Ports -> Web \cup {None}]
          /\ prog \in {"off", "attaching", "on", "detaching"}
          /\ serving \in BOOLEAN
          /\ accepted \subseteq Ids
          /\ found \in [Ids -> Web \cup {None, Failed}]
          /\ flips \in 0 .. MaxFlips /\ evicts \in 0 .. MaxEvicts
          /\ crashes \in 0 .. MaxCrashes

NoMap == [p \in Ports |-> None]

Init == /\ conns = [i \in Ids |-> [port |-> CHOOSE p \in Ports : TRUE,
                                   dst |-> CHOOSE d \in Servers : TRUE,
                                   st |-> "new"]]
        /\ sock = [e \in Ends |-> [p \in Ports |-> 0]]
        /\ origDst = NoMap
        /\ prog = "off" /\ serving = FALSE
        /\ accepted = {} /\ found = [i \in Ids |-> None]
        /\ flips = 0 /\ evicts = 0 /\ crashes = 0

-----------------------------------------------------------------------------
(* The programs.                                                           *)

Intercepts(d) == prog \in {"attaching", "on"} /\ d \in Web

\* Mutant: an entry that exists is left alone (BPF_NOEXIST).
RecordOnce(map, p, d, syn) ==
    IF Intercepts(d) /\ map[p] = None THEN [map EXCEPT ![p] = d] ELSE map

\* Mutant: only the first packet of a connection is recorded.
RecordSyn(map, p, d, syn) ==
    IF Intercepts(d) /\ syn THEN [map EXCEPT ![p] = d] ELSE map

\* Mutant: the destination is read after it was rewritten.
RecordLate(map, p, d, syn) ==
    IF Intercepts(d) THEN [map EXCEPT ![p] = Proxy] ELSE map

(* tc_ingress: every packet of the pod to port 80 or 443 is recorded and   *)
(* goes to the proxy.                                                      *)
Record(map, p, d, syn) == IF Intercepts(d) THEN [map EXCEPT ![p] = d] ELSE map

Target(d) == IF Intercepts(d) THEN Proxy ELSE d

(* tc_egress: the source of every packet to a client address in the map    *)
(* becomes what the map says.                                              *)
Source(map, e, p) == IF prog \in {"on", "detaching"} /\ map[p] # None
                     THEN map[p] ELSE e

(* The connection of the pod that a packet from src to p belongs to.       *)
Receivers(src, p) == {i \in Ids : Live(i) /\ conns[i].port = p /\ conns[i].dst = src}

(* The end e sends a packet of connection j to p, under map.  Nobody there *)
(* or somebody who waits for another answer: the pod's kernel sends a      *)
(* reset to where the packet seemed to come from, and that goes through    *)
(* tc_ingress.                                                             *)
Rejects(src, p, j) == /\ j \notin Receivers(src, p)
                      /\ \A i \in Receivers(src, p) : conns[i].st = "syn"

Reset(map, e, p, j) ==
    LET src == Source(map, e, p)
        t   == Target(src)
    IN IF Rejects(src, p, j)
       THEN /\ origDst' = Record(map, p, src, FALSE)
            /\ sock' = IF t \in Ends /\ sock[t][p] = j
                       THEN [sock EXCEPT ![t][p] = 0] ELSE sock
       ELSE origDst' = map /\ UNCHANGED sock

Become(i, st) == conns' = [conns EXCEPT ![i].st = st]

-----------------------------------------------------------------------------
(* The pod.                                                                *)

(* A port is used by one connection at a time.                             *)
Connect == \E i \in Ids, p \in Ports, d \in Servers :
    /\ conns[i].st = "new" /\ \A k \in 1 .. i - 1 : conns[k].st # "new"
    /\ \A k \in Ids : Live(k) => conns[k].port # p
    /\ Orphans \/ \A e \in Servers : sock[e][p] = 0
    /\ conns' = [conns EXCEPT ![i] = [port |-> p, dst |-> d, st |-> "syn"]]
    /\ UNCHANGED <<sock, origDst, prog, serving, accepted, found, flips, evicts, crashes>>

(* A SYN, sent until it is answered.                                       *)
SendSyn(i) ==
    LET p == conns[i].port
        d == conns[i].dst
        e == Target(d)
        map == Record(origDst, p, d, TRUE)
        j == sock[e][p]
    IN /\ conns[i].st = "syn"
       /\ \/ /\ j = i
             /\ origDst' = map
             /\ UNCHANGED <<conns, sock>>
          \/ /\ j = 0 /\ (e # Proxy \/ serving)
             /\ origDst' = map
             /\ sock' = [sock EXCEPT ![e][p] = i]
             /\ UNCHANGED conns
          \/ /\ j = 0 /\ e = Proxy /\ ~serving     \* connection refused
             /\ origDst' = map
             /\ IF Source(map, e, p) = d THEN Become(i, "closed") ELSE UNCHANGED conns
             /\ UNCHANGED sock
          \/ /\ j \notin {0, i}                    \* challenge ACK
             /\ Reset(map, e, p, j)
             /\ UNCHANGED conns
       /\ UNCHANGED <<prog, serving, accepted, found, flips, evicts, crashes>>

(* Data, an ACK or a FIN of an established connection.                     *)
Send(i) ==
    LET p == conns[i].port
        d == conns[i].dst
        e == Target(d)
        map == Record(origDst, p, d, FALSE)
        j == sock[e][p]
    IN /\ conns[i].st \in {"open", "fin"}
       /\ origDst' = map
       /\ \/ /\ j = i /\ conns[i].st = "open"
             /\ accepted' = IF e = Proxy THEN accepted \cup {i} ELSE accepted
             /\ UNCHANGED <<conns, sock>>
          \/ /\ j = i /\ conns[i].st = "fin"
             /\ Become(i, "closed")
             /\ sock' = [sock EXCEPT ![e][p] = 0]
             /\ UNCHANGED accepted
          \/ /\ j = 0                              \* answered by a reset
             /\ IF Source(map, e, p) = d THEN Become(i, "closed") ELSE UNCHANGED conns
             /\ UNCHANGED <<sock, accepted>>
          \/ /\ j \notin {0, i}                    \* out of window
             /\ UNCHANGED <<conns, sock, accepted>>
       /\ UNCHANGED <<prog, serving, found, flips, evicts, crashes>>

Close(i) == /\ conns[i].st = "open"
            /\ Become(i, "fin")
            /\ UNCHANGED <<sock, origDst, prog, serving, accepted, found, flips, evicts, crashes>>

(* A connection that nobody helps to close is given up.                    *)
GiveUp(i) == /\ conns[i].st = "fin"
             /\ Become(i, "closed")
             /\ UNCHANGED <<sock, origDst, prog, serving, accepted, found, flips, evicts, crashes>>

-----------------------------------------------------------------------------
(* The servers and the proxy.                                              *)

(* SYN-ACK or data.                                                        *)
Answer(e, p) ==
    LET j == sock[e][p]
        src == Source(origDst, e, p)
    IN /\ j # 0
       /\ IF j \in Receivers(src, p)
          THEN /\ IF conns[j].st = "syn" THEN Become(j, "open") ELSE UNCHANGED conns
               /\ UNCHANGED <<origDst, sock>>
          ELSE Reset(origDst, e, p, j) /\ UNCHANGED conns
       /\ UNCHANGED <<prog, serving, accepted, found, flips, evicts, crashes>>

(* An end closes a connection; the pod's side learns of it if the source   *)
(* is right.                                                               *)
Hangup(e, p) ==
    LET j == sock[e][p]
        src == Source(origDst, e, p)
    IN /\ j # 0
       /\ e = Proxy => j \in accepted /\ found[j] # None
       /\ IF j \in Receivers(src, p)
          THEN /\ Become(j, "closed")
               /\ origDst' = Record(origDst, p, src, FALSE)
          ELSE UNCHANGED <<conns, origDst>>
       /\ sock' = [sock EXCEPT ![e][p] = 0]
       /\ UNCHANGED <<prog, serving, accepted, found, flips, evicts, crashes>>

(* handleConn: the handler asks the map where its peer was going.          *)
Lookup(i) ==
    /\ i \in accepted /\ found[i] = None
    /\ found' = [found EXCEPT ![i] =
                   IF origDst[conns[i].port] = None THEN Failed ELSE origDst[conns[i].port]]
    /\ UNCHANGED <<conns, sock, origDst, prog, serving, accepted, flips, evicts, crashes>>

Listen == /\ ~serving
          /\ serving' = TRUE
          /\ UNCHANGED <<conns, sock, origDst, prog, accepted, found, flips, evicts, crashes>>

-----------------------------------------------------------------------------
(* Attachment, eviction, crash.                                            *)

Attach == /\ prog = "off" /\ flips < MaxFlips
          /\ prog' = "attaching" /\ flips' = flips + 1
          /\ UNCHANGED <<conns, sock, origDst, serving, accepted, found, evicts, crashes>>

(* The egress program is attached second; if that fails ingress is closed. *)
Attached == /\ prog = "attaching"
            /\ prog' \in {"on", "off"}
            /\ UNCHANGED <<conns, sock, origDst, serving, accepted, found, flips, evicts, crashes>>

Detach == /\ prog = "on" /\ flips < MaxFlips
          /\ prog' = "detaching" /\ flips' = flips + 1
          /\ UNCHANGED <<conns, sock, origDst, serving, accepted, found, evicts, crashes>>

Detached == /\ prog = "detaching"
            /\ prog' = "off"
            /\ UNCHANGED <<conns, sock, origDst, serving, accepted, found, flips, evicts, crashes>>

(* The map is full: connections of other pods take the place of an entry.  *)
Evict(p) == /\ origDst[p] # None /\ evicts < MaxEvicts
            /\ origDst' = [origDst EXCEPT ![p] = None]
            /\ evicts' = evicts + 1
            /\ UNCHANGED <<conns, sock, prog, serving, accepted, found, flips, crashes>>

(* The process ends, and its sockets, links and map with it; it is started *)
(* again, loads the programs and sets the proxy's address before it        *)
(* attaches them, but may attach them before it listens.                   *)
Crash == /\ crashes < MaxCrashes
         /\ crashes' = crashes + 1
         /\ prog' = "off" /\ serving' = FALSE
         /\ origDst' = NoMap
         /\ sock' = [sock EXCEPT ![Proxy] = [p \in Ports |-> 0]]
         /\ accepted' = {}
         /\ UNCHANGED <<conns, found, flips, evicts>>

Ending == Attached \/ Detached

Next == \/ Connect \/ Listen \/ Attach \/ Detach \/ Ending \/ Crash
        \/ \E i \in Ids : SendSyn(i) \/ Send(i) \/ Close(i) \/ GiveUp(i) \/ Lookup(i)
        \/ \E e \in Ends, p \in Ports : Answer(e, p) \/ Hangup(e, p)
        \/ \E p \in Ports : Evict(p)

Spec == Init /\ [][Next]_vars

(* Clients retransmit, and send what they opened a connection for; servers *)
(* and the proxy answer; a started attach or detach is finished.           *)
LiveSpec == /\ Spec
            /\ \A i \in Ids : WF_vars(SendSyn(i)) /\ WF_vars(Send(i))
            /\ \A e \in Ends, p \in Ports : WF_vars(Answer(e, p))
            /\ WF_vars(Ending)

-----------------------------------------------------------------------------
(* What handleConn learns from orig_dst is where its client was going, or  *)
(* nothing, unless the client has gone and its port was given to another   *)
(* connection: whatever was evicted, attached, detached or restarted.      *)
LookupRight ==
    [][\A i \in Ids : found'[i] # found[i] /\ found'[i] # Failed
         => \/ found'[i] = conns[i].dst
            \/ \E k \in Ids : k > i /\ conns[k].st # "new" /\ conns[k].port = conns[i].port]_vars

(* A connection to port 80 or 443 is established or refused: neither old   *)
(* map entries, nor an eviction, nor half attached programs leave it       *)
(* waiting for ever.                                                       *)
NeverStuck ==
    \A i \in Ids : conns[i].st = "syn" /\ conns[i].dst \in Web ~> conns[i].st # "syn"

(* The end that the packets of connection i reach, and whether it knows    *)
(* the connection: an attached program sends them to the proxy although    *)
(* the server holds the connection, a detached one the other way round.    *)
Reached(i) == sock[Target(conns[i].dst)][conns[i].port]
Lost(i) == conns[i].st = "open" /\ conns[i].dst \in Web /\ Reached(i) = 0

(* A client of port 80 or 443 whose packets reach an end that does not     *)
(* know its connection (the programs attached or detached, the process     *)
(* restarted, the end gone, its map entry evicted) does not wait for ever: *)
(* the reset it is sent seems to come from where it was going, unless an   *)
(* attach or detach leads its packets back to the end that knows it.       *)
LossNoticed == \A i \in Ids : Lost(i) ~> conns[i].st # "open" \/ Reached(i) = i

(* A connection to another port is left alone: answers of its server keep  *)
(* their source.                                                           *)
OtherPortsUntouched ==
    \A e \in Others, p \in Ports :
        sock[e][p] # 0 /\ Live(sock[e][p]) /\ conns[sock[e][p]].dst = e
            => Source(origDst, e, p) = e
=============================================================================
