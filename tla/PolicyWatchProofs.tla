-------------------------- MODULE PolicyWatchProofs --------------------------
(* Proofs about PolicyWatch, for any finite set of policies, any contents   *)
(* and any number of changes and broken watches.                            *)
EXTENDS PolicyWatch, SequenceTheorems, FiniteSetTheorems, WellFoundedInduction, TLAPS

Item == [name : Names, spec : Specs]
Event == [type : {"ADDED", "MODIFIED", "DELETED"}, name : Names, spec : Specs]

(* What a namespace's list of policies is: no name twice, all decodable and *)
(* of this namespace.                                                       *)
Listing(q, ns) ==
  /\ q \in Seq(Item)
  /\ \A i \in DOMAIN q : q[i].name.ns = ns /\ q[i].spec.decodes
  /\ \A i, j \in DOMAIN q : q[i].name = q[j].name => i = j

In(r, q) == \E i \in DOMAIN q : q[i] = r

(* The API server's list has every decodable object once.                   *)
LEMMA ListedIsListing ==
    ASSUME api \in [Names -> [live : BOOLEAN, spec : Specs]], NEW ns, NEW q \in Listed(ns)
    PROVE  /\ Listing(q, ns)
           /\ \A n \in Names, s \in Specs :
                In([name |-> n, spec |-> s], q)
                  <=> n.ns = ns /\ api[n].live /\ s.decodes /\ s = api[n].spec
  <1> DEFINE kept == {n \in Names : n.ns = ns /\ api[n].live /\ api[n].spec.decodes}
  <1>1. IsFiniteSet(kept) /\ Cardinality(kept) \in Nat
    BY NamesAssumption, FS_Subset, FS_CardinalityType
  <1>2. PICK f \in Bijection(1 .. Cardinality(kept), kept) :
          q = [i \in DOMAIN f |-> [name |-> f[i], spec |-> api[f[i]].spec]]
    BY DEF Listed
  <1>3. /\ f \in [1 .. Cardinality(kept) -> kept]
        /\ \A i, j \in 1 .. Cardinality(kept) : f[i] = f[j] => i = j
        /\ \A n \in kept : \E i \in 1 .. Cardinality(kept) : f[i] = n
    BY <1>2 DEF Bijection, Injection, Surjection, IsInjective
  <1>4. DOMAIN q = 1 .. Cardinality(kept)
    BY <1>2, <1>3
  <1>5. \A i \in DOMAIN q : f[i] \in kept /\ q[i] = [name |-> f[i], spec |-> api[f[i]].spec]
    BY <1>2, <1>3, <1>4
  <1>6. \A i \in DOMAIN q : q[i] \in Item
    BY <1>5 DEF Item
  <1>7. q \in Seq(Item)
    BY <1>1, <1>2, <1>3, <1>4, <1>6
  <1>8. Listing(q, ns)
    BY <1>3, <1>4, <1>5, <1>7 DEF Listing
  <1>9. ASSUME NEW n \in Names, NEW s \in Specs
        PROVE  In([name |-> n, spec |-> s], q)
                 <=> n.ns = ns /\ api[n].live /\ s.decodes /\ s = api[n].spec
    <2>1. ASSUME In([name |-> n, spec |-> s], q)
          PROVE  n.ns = ns /\ api[n].live /\ s.decodes /\ s = api[n].spec
      BY <1>5, <2>1 DEF In
    <2>2. ASSUME n.ns = ns, api[n].live, s.decodes, s = api[n].spec
          PROVE  In([name |-> n, spec |-> s], q)
      BY <1>3, <1>4, <1>5, <2>2 DEF In
    <2> QED BY <2>1, <2>2
  <1> QED BY <1>8, <1>9

LEMMA FirstPosition ==
    ASSUME NEW n, Listing(polMap[n.ns], n.ns), NEW k \in Positions(n)
    PROVE  /\ Positions(n) = {k}
           /\ (CHOOSE i \in Positions(n) : \A j \in Positions(n) : i <= j) = k
  <1>1. Positions(n) = {k}
    BY DEF Positions, Listing
  <1>2. k <= k
    BY DEF Positions, Listing
  <1> QED BY <1>1, <1>2

(* handlePolicyEvent replaces a policy where it is or appends it, and       *)
(* touches no other.                                                        *)
LEMMA UpdatedIsListing ==
    ASSUME NEW n \in Names, NEW s \in Specs, s.decodes, Listing(polMap[n.ns], n.ns)
    PROVE  /\ Listing(Updated(n, s), n.ns)
           /\ \A r \in Item : In(r, Updated(n, s))
                <=> IF r.name = n THEN r.spec = s ELSE In(r, polMap[n.ns])
  <1> DEFINE old == polMap[n.ns]
             new == Updated(n, s)
             item == [name |-> n, spec |-> s]
  <1>0. old \in Seq(Item) /\ item \in Item
    BY DEF Listing, Item
  <1>1. CASE Positions(n) = {}
    <2>1. new = Append(old, item)
      BY <1>1 DEF Updated
    <2>2. /\ new \in Seq(Item) /\ Len(new) = Len(old) + 1
          /\ \A i \in DOMAIN old : new[i] = old[i]
          /\ new[Len(old) + 1] = item
      BY <1>0, <2>1
    <2>3. /\ DOMAIN new = DOMAIN old \cup {Len(old) + 1}
          /\ Len(old) + 1 \notin DOMAIN old
      <3>1. DOMAIN new = 1 .. Len(old) + 1 /\ DOMAIN old = 1 .. Len(old) /\ Len(old) \in Nat
        BY <1>0, <2>2
      <3> HIDE DEF old, new
      <3> QED BY <3>1
    <2>4. \A i \in DOMAIN old : old[i].name # n
      BY <1>1 DEF Positions
    <2> HIDE DEF old, new
    <2>5. Listing(new, n.ns)
      <3>1. \A i \in DOMAIN old : old[i].name.ns = n.ns /\ old[i].spec.decodes
        BY DEF Listing, old
      <3>2. \A i, j \in DOMAIN old : old[i].name = old[j].name => i = j
        BY DEF Listing, old
      <3> QED BY <2>2, <2>3, <2>4, <3>1, <3>2 DEF Listing
    <2>6. ASSUME NEW r \in Item
          PROVE  In(r, new) <=> IF r.name = n THEN r.spec = s ELSE In(r, old)
      <3>1. r = item <=> r.name = n /\ r.spec = s
        BY DEF Item
      <3> QED BY <2>2, <2>3, <2>4, <3>1 DEF In
    <2> QED BY <2>5, <2>6 DEF old, new
  <1>2. ASSUME NEW k \in Positions(n)
        PROVE  /\ Listing(Updated(n, s), n.ns)
               /\ \A r \in Item : In(r, Updated(n, s))
                    <=> IF r.name = n THEN r.spec = s ELSE In(r, old)
    <2>1. new = [old EXCEPT ![k].spec = s]
      BY FirstPosition DEF Updated
    <2>2. k \in DOMAIN old /\ old[k].name = n
      BY DEF Positions
    <2>3. \A i \in DOMAIN old : old[i].name = n => i = k
      BY <2>2 DEF Listing
    <2>4. old[k] \in Item
      BY <1>0, <2>2
    <2>5. [old[k] EXCEPT !.spec = s] = item
      BY <2>2, <2>4 DEF Item
    <2>6. DOMAIN new = DOMAIN old /\ new[k] = item /\ \A i \in DOMAIN old \ {k} : new[i] = old[i]
      BY <1>0, <2>1, <2>2, <2>5
    <2>7. new \in Seq(Item)
      <3>1. new = [old EXCEPT ![k] = item]
        BY <2>1, <2>5
      <3> QED BY <1>0, <2>2, <3>1
    <2> HIDE DEF old, new
    <2>8. Listing(new, n.ns)
      <3>1. \A i \in DOMAIN old : old[i].name.ns = n.ns /\ old[i].spec.decodes
        BY DEF Listing, old
      <3>2. \A i, j \in DOMAIN old : old[i].name = old[j].name => i = j
        BY DEF Listing, old
      <3> QED BY <2>2, <2>3, <2>6, <2>7, <3>1, <3>2 DEF Listing
    <2>9. ASSUME NEW r \in Item
          PROVE  In(r, new) <=> IF r.name = n THEN r.spec = s ELSE In(r, old)
      <3>1. r = item <=> r.name = n /\ r.spec = s
        BY DEF Item
      <3> QED BY <2>2, <2>3, <2>6, <3>1 DEF In
    <2> QED BY <2>8, <2>9 DEF old, new
  <1> QED BY <1>1, <1>2

(* Nor does it when it removes one.                                         *)
LEMMA RemovedIsListing ==
    ASSUME NEW n \in Names, Listing(polMap[n.ns], n.ns)
    PROVE  /\ Listing(Removed(n), n.ns)
           /\ \A r \in Item : In(r, Removed(n)) <=> r.name # n /\ In(r, polMap[n.ns])
  <1> DEFINE old == polMap[n.ns]
             new == Removed(n)
  <1>0. old \in Seq(Item)
    BY DEF Listing
  <1>1. CASE Positions(n) = {}
    <2>1. new = old
      BY <1>1 DEF Removed
    <2>2. \A i \in DOMAIN old : old[i].name # n
      BY <1>1 DEF Positions
    <2> QED BY <2>1, <2>2 DEF In
  <1>2. ASSUME NEW k \in Positions(n)
        PROVE  /\ Listing(Removed(n), n.ns)
               /\ \A r \in Item : In(r, Removed(n)) <=> r.name # n /\ In(r, old)
    <2>0. k \in 1 .. Len(old) /\ old[k].name = n
      BY <1>0 DEF Positions
    <2>1. new = SubSeq(old, 1, k - 1) \o SubSeq(old, k + 1, Len(old))
      BY FirstPosition DEF Removed
    <2>2. \A i \in DOMAIN old : old[i].name = n => i = k
      BY <2>0, <1>0 DEF Listing
    <2>3. /\ new \in Seq(Item) /\ Len(new) = Len(old) - 1
          /\ \A i \in 1 .. Len(new) : new[i] = old[IF i < k THEN i ELSE i + 1]
      <3> DEFINE a == SubSeq(old, 1, k - 1)
                 b == SubSeq(old, k + 1, Len(old))
      <3>1. a \in Seq(Item) /\ Len(a) = k - 1 /\ \A i \in 1 .. k - 1 : a[i] = old[i]
        BY <1>0, <2>0
      <3>2. /\ b \in Seq(Item) /\ Len(b) = Len(old) - k
            /\ \A i \in 1 .. Len(old) - k : b[i] = old[k + i]
        BY <1>0, <2>0
      <3> HIDE DEF a, b, old
      <3>0. Len(old) \in Nat /\ k \in Nat /\ Len(a) + Len(b) = Len(old) - 1
        BY <1>0, <2>0, <3>1, <3>2
      <3>3. a \o b \in Seq(Item) /\ Len(a \o b) = Len(old) - 1
        <4>1. a \o b \in Seq(Item) /\ Len(a \o b) = Len(a) + Len(b)
          BY <3>1, <3>2, ConcatProperties
        <4> QED BY <3>0, <4>1
      <3>4. ASSUME NEW i \in 1 .. Len(old) - 1
            PROVE  (a \o b)[i] = old[IF i < k THEN i ELSE i + 1]
        <4>1. (a \o b)[i] = IF i <= Len(a) THEN a[i] ELSE b[i - Len(a)]
          BY <3>0, <3>1, <3>2, ConcatProperties
        <4>2. CASE i < k
          BY <3>0, <3>1, <4>1, <4>2
        <4>3. CASE ~(i < k)
          <5>1. i - Len(a) \in 1 .. Len(old) - k /\ k + (i - Len(a)) = i + 1
            BY <2>0, <3>0, <3>1, <4>3
          <5> QED BY <3>0, <3>1, <3>2, <4>1, <4>3, <5>1
        <4> QED BY <4>2, <4>3
      <3> QED BY <2>1, <3>3, <3>4 DEF a, b
    <2> HIDE DEF old, new
    <2>4. /\ \A i \in DOMAIN old : old[i].name.ns = n.ns /\ old[i].spec.decodes
          /\ \A i, j \in DOMAIN old : old[i].name = old[j].name => i = j
      BY DEF Listing, old
    <2>5. DOMAIN new = 1 .. Len(old) - 1 /\ DOMAIN old = 1 .. Len(old) /\ Len(old) \in Nat
      BY <1>0, <2>3
    <2>6. \A i \in DOMAIN new : \E j \in DOMAIN old \ {k} : new[i] = old[j] /\ (j = i \/ j = i + 1)
      BY <2>0, <2>3, <2>5
    <2>7. \A j \in DOMAIN old \ {k} : \E i \in DOMAIN new : new[i] = old[j]
      <3> TAKE j \in DOMAIN old \ {k}
      <3>1. CASE j < k
        BY <2>0, <2>3, <2>5, <3>1
      <3>2. CASE j > k
        <4>1. j - 1 \in DOMAIN new /\ ~(j - 1 < k) /\ (j - 1) + 1 = j
          BY <2>0, <2>5, <3>2
        <4> QED BY <2>0, <2>3, <2>5, <4>1
      <3> QED BY <2>0, <2>5, <3>1, <3>2
    <2>8. Listing(new, n.ns)
      <3>1. \A i, j \in DOMAIN new : new[i].name = new[j].name => i = j
        BY <2>0, <2>3, <2>4, <2>5
      <3>2. \A i \in DOMAIN new : new[i].name.ns = n.ns /\ new[i].spec.decodes
        BY <2>4, <2>6
      <3> QED BY <2>3, <3>1, <3>2 DEF Listing
    <2>9. \A r \in Item : In(r, new) <=> r.name # n /\ In(r, old)
      BY <2>0, <2>2, <2>6, <2>7 DEF In
    <2> QED BY <2>8, <2>9 DEF old, new
  <1> QED BY <1>1, <1>2

-----------------------------------------------------------------------------
(* Type correctness                                                         *)

(* Everything in TypeOK but the map of policies.                            *)
RestOK ==
  /\ api \in [Names -> [live : BOOLEAN, spec : Specs]]
  /\ events \in Seq(Event)
  /\ trigger \in BOOLEAN
  /\ pc \in {"list", "open", "events", "rebuild", "gate", "notify", "backoff"}
  /\ after \in {"open", "events"}
  /\ backoff \in 1 .. MaxBackoff
  /\ edits \in Nat /\ breaks \in Nat

MapOK == DOMAIN polMap = Namespaces /\ \A ns \in Namespaces : Listing(polMap[ns], ns)

TypeInv == RestOK /\ MapOK

LEMMA TypeImplied == TypeInv => TypeOK
  <1>1. ASSUME NEW ns, Listing(polMap[ns], ns), NEW i \in DOMAIN polMap[ns]
        PROVE  LET p == polMap[ns][i] IN p.name.ns = ns /\ p.spec \in Specs /\ p.spec.decodes
    <2>1. polMap[ns][i] \in Item
      BY <1>1 DEF Listing
    <2>2. polMap[ns][i].spec \in Specs
      BY <2>1 DEF Item
    <2> QED BY <1>1, <2>2, Zenon DEF Listing
  <1> QED BY <1>1 DEF TypeInv, TypeOK, RestOK, MapOK, Event

LEMMA TypeInit == Init => TypeInv
  <1> SUFFICES ASSUME Init PROVE RestOK /\ MapOK
    BY DEF TypeInv
  <1>1. (CHOOSE s \in Specs : s.decodes) \in Specs
    BY SpecsAssumption
  <1>2. RestOK
    <2>1. api \in [Names -> [live : BOOLEAN, spec : Specs]]
      BY <1>1 DEF Init
    <2>2. 1 \in 1 .. MaxBackoff
      BY PolicyBoundsAssumption
    <2>3. events \in Seq(Event)
      BY DEF Init
    <2>4. trigger \in BOOLEAN
      BY Zenon DEF Init
    <2>5. backoff \in 1 .. MaxBackoff /\ edits \in Nat /\ breaks \in Nat
      BY <2>2 DEF Init
    <2> QED BY <2>1, <2>3, <2>4, <2>5 DEF Init, RestOK
  <1>3. \A ns : Listing(<<>>, ns)
    BY DEF Listing
  <1>4. MapOK
    BY <1>3 DEF Init, MapOK
  <1> QED BY <1>2, <1>4

LEMMA NoticeType ==
    ASSUME events \in Seq(Event), NEW n \in Names, NEW s \in Specs,
           NEW type \in {"ADDED", "MODIFIED", "DELETED"}, Notice(type, n, s)
    PROVE  events' \in Seq(Event)
  <1>1. [type |-> type, name |-> n, spec |-> s] \in Event
    BY DEF Event
  <1> QED BY <1>1, AppendProperties DEF Notice

LEMMA TypeHandle == ASSUME TypeInv, handlePolicyEvent PROVE TypeInv'
  <1> DEFINE e == Head(events)
  <1>0. RestOK /\ MapOK
    BY DEF TypeInv
  <1>1. e \in Event /\ Tail(events) \in Seq(Event)
    BY <1>0, HeadTailProperties DEF RestOK, handlePolicyEvent
  <1>2. RestOK'
    BY <1>0, <1>1 DEF RestOK, handlePolicyEvent
  <1>3. e.name \in Names /\ e.spec \in Specs /\ e.name.ns \in Namespaces
    BY <1>1 DEF Event, Namespaces
  <1>4. MapOK'
    <2>1. CASE UNCHANGED polMap
      BY <1>0, <2>1 DEF MapOK
    <2>2. CASE /\ e.spec.decodes
               /\ polMap' = [polMap EXCEPT ![e.name.ns] =
                               IF e.type = "DELETED" THEN Removed(e.name) ELSE Updated(e.name, e.spec)]
      <3>1. Listing(polMap[e.name.ns], e.name.ns)
        BY <1>0, <1>3 DEF MapOK
      <3>2. Listing(Removed(e.name), e.name.ns) /\ Listing(Updated(e.name, e.spec), e.name.ns)
        BY <1>3, <2>2, <3>1, RemovedIsListing, UpdatedIsListing
      <3> HIDE DEF e
      <3> QED BY <1>0, <1>3, <2>2, <3>2 DEF MapOK
    <2> QED BY <2>1, <2>2 DEF handlePolicyEvent
  <1> QED BY <1>2, <1>4 DEF TypeInv

LEMMA TypeStep == TypeInv /\ [Next]_vars => TypeInv'
  <1> SUFFICES ASSUME TypeInv, [Next]_vars PROVE TypeInv'
    OBVIOUS
  <1>0. RestOK /\ MapOK
    BY DEF TypeInv
  <1>1. ASSUME NEW n \in Names, NEW s \in Specs, Apply(n, s) PROVE TypeInv'
    <2>1. events' \in Seq(Event)
      BY <1>0, <1>1, NoticeType DEF Apply, RestOK
    <2>2. RestOK'
      BY <1>0, <1>1, <2>1 DEF Apply, RestOK
    <2>3. MapOK'
      BY <1>0, <1>1 DEF Apply, MapOK
    <2> QED BY <2>2, <2>3 DEF TypeInv
  <1>2. ASSUME NEW n \in Names, Delete(n) PROVE TypeInv'
    <2>1. events' \in Seq(Event)
      BY <1>0, <1>2, NoticeType DEF Delete, RestOK
    <2>2. RestOK'
      <3>1. [api[n] EXCEPT !.live = FALSE] \in [live : BOOLEAN, spec : Specs]
        BY <1>0 DEF RestOK
      <3>2. api' \in [Names -> [live : BOOLEAN, spec : Specs]]
        BY <1>0, <1>2, <3>1 DEF Delete, RestOK
      <3> QED BY <1>0, <1>2, <2>1, <3>2 DEF Delete, RestOK
    <2>3. MapOK'
      BY <1>0, <1>2 DEF Delete, MapOK
    <2> QED BY <2>2, <2>3 DEF TypeInv
  <1>3. CASE List
    <2>1. RestOK'
      BY <1>0, <1>3 DEF List, RestOK
    <2>2. MapOK'
      BY <1>0, <1>3, ListedIsListing DEF List, MapOK, RestOK
    <2> QED BY <2>1, <2>2 DEF TypeInv
  <1>4. CASE Backoff
    <2>1. backoff' \in 1 .. MaxBackoff
      BY <1>0, <1>4, PolicyBoundsAssumption DEF Backoff, RestOK
    <2>2. RestOK' /\ MapOK'
      BY <1>0, <1>4, <2>1 DEF Backoff, RestOK, MapOK
    <2> QED BY <2>2 DEF TypeInv
  <1>5. CASE Open \/ Fail \/ rebuild \/ StoreGate \/ fireNotify \/ TakeToken \/ UNCHANGED vars
    <2>1. MapOK'
      BY <1>0, <1>5 DEF Open, Fail, rebuild, StoreGate, fireNotify, TakeToken, vars, MapOK
    <2>2. CASE Open \/ UNCHANGED vars
      BY <1>0, <2>1, <2>2 DEF Open, vars, RestOK, TypeInv
    <2>3. CASE Fail
      BY <1>0, <2>1, <2>3 DEF Fail, RestOK, TypeInv
    <2>4. CASE rebuild \/ StoreGate \/ fireNotify \/ TakeToken
      BY <1>0, <2>1, <2>4 DEF rebuild, StoreGate, fireNotify, TakeToken, RestOK, TypeInv
    <2> QED BY <1>5, <2>2, <2>3, <2>4
  <1> QED BY <1>1, <1>2, <1>3, <1>4, <1>5, TypeHandle DEF Next, Watcher

(* The watcher's map has only decodable policies, each in its namespace,    *)
(* and the wait between attempts never exceeds maxBackoff.                  *)
THEOREM TypeCorrect == Spec => []TypeOK
  BY TypeImplied, TypeInit, TypeStep, PTL DEF Spec

-----------------------------------------------------------------------------
(* The map is current.                                                      *)

Pending(n) == {i \in DOMAIN events : events[i].name = n}

(* The map has of policy n what the API server has.                         *)
Right(n) ==
  api[n].spec.decodes =>
    \A s \in Specs : In([name |-> n, spec |-> s], polMap[n.ns]) <=> api[n].live /\ s = api[n].spec

(* The last event about a policy that is under way tells its current state. *)
LastTells ==
  \A n \in Names : \A i \in Pending(n) :
    (\A j \in Pending(n) : j <= i) =>
      events[i].spec = api[n].spec /\ (events[i].type = "DELETED" <=> ~api[n].live)

Caught == Following => \A n \in Names : Pending(n) = {} => Right(n)

Quiet == ~Following => events = <<>>

CurrentInv == TypeInv /\ LastTells /\ Caught /\ Quiet

LEMMA CurrentInit == Init => CurrentInv
  <1> SUFFICES ASSUME Init PROVE CurrentInv
    OBVIOUS
  <1>1. events = <<>> /\ ~Following
    BY DEF Init, Following
  <1>2. \A n : Pending(n) = {}
    BY <1>1 DEF Pending
  <1> QED BY <1>1, <1>2, TypeInit DEF CurrentInv, LastTells, Caught, Quiet

(* A change of policy n: its event, if the watch sees it, is the last.      *)
LEMMA NoticeKeeps ==
    ASSUME CurrentInv, TypeInv', NEW n \in Names, NEW s \in Specs,
           NEW type \in {"ADDED", "MODIFIED", "DELETED"},
           Notice(type, n, s), UNCHANGED <<polMap, pc>>,
           \A m \in Names \ {n} : api'[m] = api[m],
           api'[n].spec = s, type = "DELETED" <=> ~api'[n].live
    PROVE  CurrentInv'
  <1>0. Following' <=> Following
    BY DEF Following
  <1>1. CASE ~Following
    <2>1. events' = <<>>
      BY <1>1 DEF Notice, CurrentInv, Quiet
    <2>2. \A m : Pending(m)' = {}
      BY <2>1 DEF Pending
    <2> QED BY <1>0, <1>1, <2>1, <2>2 DEF CurrentInv, LastTells, Caught, Quiet
  <1>2. CASE Following
    <2> DEFINE e == [type |-> type, name |-> n, spec |-> s]
               k == Len(events) + 1
    <2>1. e \in Event /\ events \in Seq(Event) /\ events' = Append(events, e)
      BY <1>2 DEF Notice, CurrentInv, TypeInv, RestOK, Event
    <2>2. /\ DOMAIN events' = DOMAIN events \cup {k}
          /\ \A i \in DOMAIN events : events'[i] = events[i] /\ i < k /\ i \in Nat
          /\ events'[k] = e /\ k \in Nat
      <3>1. /\ Len(events) \in Nat /\ DOMAIN events = 1 .. Len(events)
            /\ DOMAIN events' = 1 .. Len(events) + 1
        BY <2>1
      <3>2. /\ \A i \in 1 .. Len(events) : events'[i] = events[i]
            /\ events'[Len(events) + 1] = e
        BY <2>1
      <3> HIDE DEF e
      <3> QED BY <3>1, <3>2
    <2> HIDE DEF k
    <2>3. /\ Pending(n)' = Pending(n) \cup {k}
          /\ \A m \in Names \ {n} : Pending(m)' = Pending(m)
      BY <2>2 DEF Pending
    <2>4. LastTells'
      <3> SUFFICES ASSUME NEW m \in Names, NEW i \in Pending(m)', \A j \in Pending(m)' : j <= i
                   PROVE  events'[i].spec = api'[m].spec /\ (events'[i].type = "DELETED" <=> ~api'[m].live)
        BY DEF LastTells
      <3>1. CASE m = n
        <4>1. i = k
          BY <2>2, <2>3, <3>1 DEF Pending
        <4> QED BY <2>2, <3>1, <4>1
      <3>2. CASE m # n
        <4>1. i \in Pending(m) /\ api'[m] = api[m] /\ \A j \in Pending(m) : j <= i
          BY <2>3, <3>2
        <4>2. events'[i] = events[i]
          BY <2>2, <4>1 DEF Pending
        <4> QED BY <4>1, <4>2 DEF CurrentInv, LastTells
      <3> QED BY <3>1, <3>2
    <2>5. Caught'
      <3> SUFFICES ASSUME NEW m \in Names, Pending(m)' = {} PROVE Right(m)'
        BY DEF Caught
      <3>1. m # n /\ Pending(m) = {}
        BY <2>3
      <3>2. Right(m)
        BY <1>2, <3>1 DEF CurrentInv, Caught
      <3> QED BY <3>1, <3>2 DEF Right
    <2> QED BY <1>0, <1>2, <2>4, <2>5 DEF CurrentInv, Quiet
  <1> QED BY <1>1, <1>2

(* An event is handled: the later ones move up.                             *)
LEMMA TailEvents ==
    ASSUME events \in Seq(Event), events # <<>>, events' = Tail(events)
    PROVE  /\ \A n : \A i \in Pending(n)' : i + 1 \in Pending(n) /\ events'[i] = events[i + 1] /\ i \in Nat
           /\ \A n : \A i \in Pending(n) : i \in Nat /\ (i = 1 \/ i - 1 \in Pending(n)')
           /\ \A n : 1 \in Pending(n) <=> Head(events).name = n
           /\ Head(events) = events[1]
  <1>1. /\ Len(events) \in Nat \ {0} /\ DOMAIN events = 1 .. Len(events)
        /\ DOMAIN events' = 1 .. Len(events) - 1
        /\ \A i \in 1 .. Len(events) - 1 : events'[i] = events[i + 1]
        /\ Head(events) = events[1]
    BY HeadTailProperties
  <1>2. \A n : \A i \in Pending(n)' : i + 1 \in Pending(n) /\ events'[i] = events[i + 1] /\ i \in Nat
    BY <1>1 DEF Pending
  <1>3. ASSUME NEW n, NEW i \in Pending(n) PROVE i \in Nat /\ (i = 1 \/ i - 1 \in Pending(n)')
    <2>1. i \in 1 .. Len(events) /\ events[i].name = n
      BY <1>1 DEF Pending
    <2>2. CASE i # 1
      <3>1. i - 1 \in 1 .. Len(events) - 1 /\ (i - 1) + 1 = i
        BY <1>1, <2>1, <2>2
      <3>2. events'[i - 1].name = n
        BY <1>1, <2>1, <3>1
      <3> QED BY <1>1, <2>1, <3>1, <3>2 DEF Pending
    <2> QED BY <1>1, <2>1, <2>2
  <1>4. \A n : 1 \in Pending(n) <=> Head(events).name = n
    BY <1>1 DEF Pending
  <1> QED BY <1>1, <1>2, <1>3, <1>4

LEMMA CurrentHandle == ASSUME CurrentInv, handlePolicyEvent PROVE CurrentInv'
  <1> DEFINE e == Head(events)
             n == e.name
  <1>0. TypeInv' /\ Following /\ Following' /\ UNCHANGED api /\ events' = Tail(events) /\ events # <<>>
    BY TypeHandle DEF CurrentInv, handlePolicyEvent, Following
  <1>1. events \in Seq(Event) /\ e \in Event
    BY <1>0, HeadTailProperties DEF CurrentInv, TypeInv, RestOK
  <1>2. n \in Names /\ e.spec \in Specs /\ n.ns \in Namespaces
    BY <1>1 DEF Event, Namespaces
  <1>3. /\ \A m : \A i \in Pending(m)' : i + 1 \in Pending(m) /\ events'[i] = events[i + 1] /\ i \in Nat
        /\ \A m : \A i \in Pending(m) : i \in Nat /\ (i = 1 \/ i - 1 \in Pending(m)')
        /\ \A m : 1 \in Pending(m) <=> n = m
        /\ e = events[1]
    BY <1>0, <1>1, TailEvents
  <1>4. LastTells'
    <2> SUFFICES ASSUME NEW m \in Names, NEW i \in Pending(m)', \A j \in Pending(m)' : j <= i
                 PROVE  events'[i].spec = api[m].spec /\ (events'[i].type = "DELETED" <=> ~api[m].live)
      BY <1>0 DEF LastTells
    <2>1. i + 1 \in Pending(m) /\ events'[i] = events[i + 1] /\ i \in Nat
      BY <1>3
    <2>2. \A j \in Pending(m) : j <= i + 1
      <3> TAKE j \in Pending(m)
      <3>1. j \in Nat /\ (j = 1 \/ j - 1 \in Pending(m)')
        BY <1>3
      <3>2. CASE j = 1
        BY <2>1, <3>2
      <3>3. CASE j - 1 \in Pending(m)'
        <4>1. j - 1 <= i
          BY <3>3
        <4> QED BY <2>1, <3>1, <4>1
      <3> QED BY <3>1, <3>2, <3>3
    <2> QED BY <2>1, <2>2 DEF CurrentInv, LastTells
  <1> HIDE DEF e, n
  <1>5. ASSUME NEW m \in Names \ {n}, Pending(m)' = {} PROVE Right(m)'
    <2>1. Pending(m) = {}
      BY <1>3, <1>5
    <2>2. Right(m)
      BY <1>0, <2>1 DEF CurrentInv, Caught
    <2>3. \A s \in Specs : In([name |-> m, spec |-> s], polMap'[m.ns])
                           <=> In([name |-> m, spec |-> s], polMap[m.ns])
      <3>1. CASE UNCHANGED polMap
        BY <3>1
      <3>2. CASE /\ e.spec.decodes
                 /\ polMap' = [polMap EXCEPT ![n.ns] =
                                 IF e.type = "DELETED" THEN Removed(n) ELSE Updated(n, e.spec)]
        <4>1. DOMAIN polMap = Namespaces /\ Listing(polMap[n.ns], n.ns)
          BY <1>2 DEF CurrentInv, TypeInv, MapOK
        <4>2. CASE m.ns # n.ns
          BY <1>2, <3>2, <4>1, <4>2 DEF Namespaces
        <4>3. CASE m.ns = n.ns
          <5>1. polMap'[n.ns] = IF e.type = "DELETED" THEN Removed(n) ELSE Updated(n, e.spec)
            BY <1>2, <3>2, <4>1
          <5>2. ASSUME NEW s \in Specs
                PROVE  In([name |-> m, spec |-> s], polMap'[n.ns])
                         <=> In([name |-> m, spec |-> s], polMap[n.ns])
            <6> DEFINE r == [name |-> m, spec |-> s]
            <6>1. r \in Item /\ r.name # n
              BY DEF Item
            <6> HIDE DEF r
            <6>2. In(r, Removed(n)) <=> In(r, polMap[n.ns])
              BY <1>2, <4>1, <6>1, RemovedIsListing
            <6>3. In(r, Updated(n, e.spec)) <=> In(r, polMap[n.ns])
              BY <1>2, <3>2, <4>1, <6>1, UpdatedIsListing
            <6>4. In(r, polMap'[n.ns]) <=> In(r, polMap[n.ns])
              BY <5>1, <6>2, <6>3
            <6> QED BY <6>4 DEF r
          <5> QED BY <4>3, <5>2
        <4> QED BY <4>2, <4>3
      <3> QED BY <3>1, <3>2 DEF handlePolicyEvent, e, n
    <2> QED BY <1>0, <2>2, <2>3 DEF Right
  <1>6. ASSUME NEW m \in Names, m = n, Pending(m)' = {} PROVE Right(m)'
    <2>1. \A j \in Pending(m) : j <= 1
      BY <1>3, <1>6
    <2>2. e.spec = api[m].spec /\ (e.type = "DELETED" <=> ~api[m].live)
      BY <1>2, <1>3, <1>6, <2>1 DEF CurrentInv, LastTells
    <2>3. CASE ~e.spec.decodes
      BY <1>0, <2>2, <2>3 DEF Right
    <2>4. CASE e.spec.decodes
      <3>1. polMap' = [polMap EXCEPT ![n.ns] =
                         IF e.type = "DELETED" THEN Removed(n) ELSE Updated(n, e.spec)]
        BY <2>4 DEF handlePolicyEvent, e, n
      <3>2. DOMAIN polMap = Namespaces /\ Listing(polMap[n.ns], n.ns)
        BY <1>2 DEF CurrentInv, TypeInv, MapOK
      <3>3. polMap'[m.ns] = IF e.type = "DELETED" THEN Removed(n) ELSE Updated(n, e.spec)
        BY <1>2, <1>6, <3>1, <3>2
      <3>4. ASSUME NEW s \in Specs
            PROVE  In([name |-> m, spec |-> s], polMap'[m.ns]) <=> api[m].live /\ s = api[m].spec
        <4> DEFINE r == [name |-> m, spec |-> s]
        <4>1. r \in Item /\ r.name = m /\ r.spec = s
          BY DEF Item
        <4> HIDE DEF r
        <4>2. ~In(r, Removed(n))
          BY <1>2, <3>2, <1>6, <4>1, RemovedIsListing
        <4>3. In(r, Updated(n, e.spec)) <=> s = e.spec
          BY <1>2, <2>4, <3>2, <1>6, <4>1, UpdatedIsListing
        <4>4. In(r, polMap'[m.ns]) <=> api[m].live /\ s = api[m].spec
          BY <2>2, <3>3, <4>2, <4>3
        <4> QED BY <4>4 DEF r
      <3> QED BY <1>0, <3>4 DEF Right
    <2> QED BY <2>3, <2>4
  <1>7. Caught'
    BY <1>2, <1>5, <1>6 DEF Caught
  <1> QED BY <1>0, <1>4, <1>7 DEF CurrentInv, Quiet

LEMMA CurrentStep == CurrentInv /\ [Next]_vars => CurrentInv'
  <1> SUFFICES ASSUME CurrentInv, [Next]_vars PROVE CurrentInv'
    OBVIOUS
  <1>0. TypeInv /\ TypeInv'
    BY TypeStep DEF CurrentInv
  <1>1. ASSUME NEW n \in Names, NEW s \in Specs, Apply(n, s) PROVE CurrentInv'
    <2>1. api' = [api EXCEPT ![n] = [live |-> TRUE, spec |-> s]] /\ UNCHANGED <<polMap, pc>>
      BY <1>1 DEF Apply
    <2>2. api'[n] = [live |-> TRUE, spec |-> s] /\ \A m \in Names \ {n} : api'[m] = api[m]
      BY <1>0, <2>1 DEF TypeInv, RestOK
    <2>3. \E type \in {"ADDED", "MODIFIED"} : Notice(type, n, s)
      BY <1>1 DEF Apply
    <2> QED BY <1>0, <2>1, <2>2, <2>3, NoticeKeeps
  <1>2. ASSUME NEW n \in Names, Delete(n) PROVE CurrentInv'
    <2>1. api' = [api EXCEPT ![n].live = FALSE] /\ UNCHANGED <<polMap, pc>>
      BY <1>2 DEF Delete
    <2>2. api[n] \in [live : BOOLEAN, spec : Specs] /\ DOMAIN api = Names
      BY <1>0 DEF TypeInv, RestOK
    <2>3. /\ api'[n].spec = api[n].spec /\ ~api'[n].live
          /\ \A m \in Names \ {n} : api'[m] = api[m]
      BY <2>1, <2>2
    <2>4. Notice("DELETED", n, api[n].spec) /\ api[n].spec \in Specs
      BY <1>2, <2>2 DEF Delete
    <2> QED BY <1>0, <2>1, <2>3, <2>4, NoticeKeeps
  <1>3. CASE List
    <2>1. events' = <<>> /\ UNCHANGED api
      BY <1>3 DEF List
    <2>2. \A n : Pending(n)' = {}
      BY <2>1 DEF Pending
    <2>3. ASSUME NEW n \in Names PROVE Right(n)'
      <3>1. n.ns \in Namespaces /\ polMap'[n.ns] \in Listed(n.ns)
        BY <1>3 DEF List, Namespaces
      <3>2. \A s \in Specs : In([name |-> n, spec |-> s], polMap'[n.ns])
                             <=> api[n].live /\ s.decodes /\ s = api[n].spec
        BY <1>0, <3>1, ListedIsListing DEF TypeInv, RestOK
      <3> QED BY <2>1, <3>2 DEF Right
    <2> QED BY <1>0, <2>1, <2>2, <2>3 DEF CurrentInv, LastTells, Caught, Quiet
  <1>4. CASE Fail \/ Backoff
    <2>1. events' = <<>> /\ ~Following'
      BY <1>4 DEF Fail, Backoff, Following, CurrentInv, Quiet
    <2>2. \A n : Pending(n)' = {}
      BY <2>1 DEF Pending
    <2> QED BY <1>0, <2>1, <2>2 DEF CurrentInv, LastTells, Caught, Quiet
  <1>5. CASE Open \/ rebuild \/ StoreGate \/ fireNotify \/ TakeToken \/ UNCHANGED vars
    <2>1. UNCHANGED <<api, events, polMap>>
      BY <1>5 DEF Open, rebuild, StoreGate, fireNotify, TakeToken, vars
    <2>2. Following' <=> Following
      <3>1. after \in {"open", "events"}
        BY <1>0 DEF TypeInv, RestOK
      <3> QED BY <1>5, <3>1 DEF Open, rebuild, StoreGate, fireNotify, TakeToken, vars, Following
    <2>3. \A n : (Pending(n)' = Pending(n)) /\ (Right(n)' <=> Right(n))
      BY <2>1 DEF Pending, Right
    <2> QED BY <1>0, <2>1, <2>2, <2>3 DEF CurrentInv, LastTells, Caught, Quiet
  <1> QED BY <1>1, <1>2, <1>3, <1>4, <1>5, CurrentHandle DEF Next, Watcher

LEMMA RightIsCurrent == ASSUME TypeInv, \A n \in Names : Right(n) PROVE Current
  <1> SUFFICES ASSUME NEW n \in Names, api[n].spec.decodes
               PROVE  IF api[n].live THEN \E i \in DOMAIN polMap[n.ns] :
                                            Positions(n) = {i} /\ polMap[n.ns][i].spec = api[n].spec
                      ELSE Positions(n) = {}
    BY DEF Current
  <1> DEFINE q == polMap[n.ns]
  <1>1. Listing(q, n.ns) /\ api[n].spec \in Specs
    BY DEF TypeInv, RestOK, MapOK, Namespaces
  <1>2. \A s \in Specs : In([name |-> n, spec |-> s], q) <=> api[n].live /\ s = api[n].spec
    BY DEF Right
  <1>3. \A i \in DOMAIN q : q[i] \in Item
    BY <1>1 DEF Listing
  <1>4. CASE api[n].live
    <2>1. PICK i \in DOMAIN q : q[i] = [name |-> n, spec |-> api[n].spec]
      BY <1>1, <1>2, <1>4 DEF In
    <2>2. i \in Positions(n)
      BY <2>1 DEF Positions
    <2> QED BY <1>1, <1>4, <2>1, <2>2, FirstPosition
  <1>5. CASE ~api[n].live
    <2>1. ASSUME NEW i \in Positions(n) PROVE FALSE
      <3>1. i \in DOMAIN q /\ q[i].name = n
        BY DEF Positions
      <3>2. q[i] = [name |-> n, spec |-> q[i].spec] /\ q[i].spec \in Specs
        BY <1>3, <3>1 DEF Item
      <3> QED BY <1>2, <1>5, <3>1, <3>2 DEF In
    <2> QED BY <1>5, <2>1
  <1> QED BY <1>4, <1>5

(* Whenever the watcher has handled every event since its last list, its    *)
(* map equals what the API server has, through any number of changes and    *)
(* broken watches.                                                          *)
THEOREM MapFollows == Spec => []MapCurrent
  <1>1. CurrentInv => MapCurrent
    <2> SUFFICES ASSUME CurrentInv, Following, events = <<>> PROVE Current
      BY DEF MapCurrent
    <2>1. \A n \in Names : Pending(n) = {}
      BY DEF Pending
    <2> QED BY <2>1, RightIsCurrent DEF CurrentInv, Caught
  <1> QED BY <1>1, CurrentInit, CurrentStep, PTL DEF Spec

-----------------------------------------------------------------------------
(* The most specific rule wins.                                             *)

(* What rebuild hands to the proxy.                                         *)
PolicyInv ==
  /\ DOMAIN policy \subseteq Nat
  /\ Sorted(policy)
  /\ \A i \in DOMAIN policy : selectorLen(policy[i].sel) \in Nat

LEMMA RebuildSorts == ASSUME TypeInv, rebuild PROVE PolicyInv'
  <1> DEFINE slots == 1 .. Cardinality(Origins)
  <1>1. PICK f \in Bijection(slots, Origins) : policy' = [i \in slots |-> Compiled(f[i])]
    BY DEF rebuild, Listings
  <1>2. Sorted(policy')
    BY DEF rebuild, Listings
  <1>3. DOMAIN policy' \subseteq Nat
    BY <1>1
  <1>4. ASSUME NEW i \in DOMAIN policy' PROVE selectorLen(policy'[i].sel) \in Nat
    <2>1. f[i] \in Origins /\ policy'[i].sel = Compiled(f[i]).sel
      BY <1>1, <1>4 DEF Bijection, Injection
    <2>2. PICK ns \in Namespaces : \E k \in DOMAIN polMap[ns] : \E j : f[i] = <<ns, k, j>>
      BY <2>1 DEF Origins
    <2>3. PICK k \in DOMAIN polMap[ns] : \E j : f[i] = <<ns, k, j>>
      BY <2>2
    <2>4. Compiled(f[i]).sel = polMap[ns][k].spec.sel
      BY <2>3 DEF Compiled
    <2>5. polMap[ns] \in Seq(Item)
      BY <2>2 DEF TypeInv, MapOK, Listing
    <2>6. polMap[ns][k] \in Item
      BY <2>5
    <2>7. polMap[ns][k].spec \in Specs
      BY <2>6 DEF Item
    <2>8. IsFiniteSet(polMap[ns][k].spec.sel)
      BY <2>7, SpecsAssumption
    <2> QED BY <2>1, <2>4, <2>8, FS_CardinalityType DEF selectorLen
  <1> QED BY <1>2, <1>3, <1>4 DEF PolicyInv, Sorted

LEMMA PolicyStep == TypeInv /\ PolicyInv /\ [Next]_vars => PolicyInv'
  <1> SUFFICES ASSUME TypeInv, PolicyInv, [Next]_vars PROVE PolicyInv'
    OBVIOUS
  <1>1. CASE rebuild
    BY <1>1, RebuildSorts
  <1>2. CASE ~rebuild
    <2>1. UNCHANGED policy
      BY <1>2 DEF Next, Watcher, Apply, Delete, List, Open, Fail, Backoff, handlePolicyEvent,
                  StoreGate, fireNotify, TakeToken, vars
    <2> QED BY <2>1 DEF PolicyInv, Sorted
  <1> QED BY <1>1, <1>2

LEMMA LeastIndex ==
  ASSUME NEW S, S \subseteq Nat, S # {}
  PROVE  \E i \in S : \A j \in S : i <= j
  <1> DEFINE less == {p \in Nat \X Nat : p[1] < p[2]}
  <1>1. IsWellFoundedOn(less, Nat)
    BY NatLessThanWellFounded, Zenon DEF OpToRel
  <1>2. PICK i \in S : \A j \in S : <<j, i>> \notin less
    BY <1>1, WFMin
  <1>3. ASSUME NEW j \in S PROVE i <= j
    <2>1. i \in Nat /\ j \in Nat /\ <<j, i>> \notin less
      BY <1>2
    <2> QED BY <2>1
  <1> QED BY <1>3

LEMMA SortedWins == PolicyInv => MostSpecificWins
  <1> SUFFICES ASSUME PolicyInv, NEW c \in Clients, NEW host \in Hosts, NEW i \in DOMAIN policy,
                      Applies(policy[i], c, host, 80, "GET", <<>>)
               PROVE  selectorLen(Match(policy, c, host, 80, "GET", <<>>).sel)
                        >= selectorLen(policy[i].sel)
    BY DEF MostSpecificWins
  <1> DEFINE hits == {k \in DOMAIN policy : Applies(policy[k], c, host, 80, "GET", <<>>)}
             first == CHOOSE k \in hits : \A j \in hits : k <= j
  <1>1. i \in hits /\ hits \subseteq Nat
    BY DEF PolicyInv
  <1>2. first \in hits /\ \A j \in hits : first <= j
    BY <1>1, LeastIndex
  <1>3. Match(policy, c, host, 80, "GET", <<>>) = policy[first]
    BY <1>1 DEF Match
  <1> HIDE DEF first
  <1>4. first <= i /\ first \in DOMAIN policy /\ first \in Nat /\ i \in Nat
    BY <1>1, <1>2
  <1>5. selectorLen(policy[first].sel) \in Nat /\ selectorLen(policy[i].sel) \in Nat
    BY <1>4 DEF PolicyInv
  <1>6. first < i => selectorLen(policy[first].sel) >= selectorLen(policy[i].sel)
    BY <1>4 DEF PolicyInv, Sorted
  <1> QED BY <1>3, <1>4, <1>5, <1>6

(* The rule that a request is cached by comes from a policy with the most   *)
(* specific selector among those that apply, whatever order the API server  *)
(* lists them in and rebuild walks the map in.                              *)
THEOREM SpecificWins == Spec => []MostSpecificWins
  <1>1. Init => PolicyInv
    BY DEF Init, PolicyInv, Sorted
  <1> QED BY <1>1, TypeInit, TypeStep, PolicyStep, SortedWins, PTL DEF Spec
=============================================================================
