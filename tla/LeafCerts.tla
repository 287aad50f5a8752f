----------------------------- MODULE LeafCerts -----------------------------
(***************************************************************************)
(* The leaf certificates of TLS connections that the proxy terminates:     *)
(* CA.GetCertificate of internal/tlsmitm/ca.go, called by any number of    *)
(* concurrent handshakes, its cache by server name, and the singleflight   *)
(* group that lets one of them sign for all that wait for the same name.   *)
(*                                                                         *)
(* Time is a counter.  A handshake that outlasts its deadline (SetDeadline *)
(* in handleTLSConn) has failed and uses no certificate.  Signing is local  *)
(* work: the model assumes that no call is held up for longer than that    *)
(* deadline, and lets the clock run no further while a call is under way.   *)
(***************************************************************************)
EXTENDS Integers

CONSTANTS Calls,      \* the goroutines that shake hands
          Names,      \* server names, "unknown" for a hello without one
          Lifetime,   \* 24 h
          Margin,     \* 5 min: how long before its end a leaf is not reused
          CAEnd,      \* NotAfter of the CA certificate
          Timeout,    \* dialTimeout, the deadline of a handshake
          MaxTime,    \* bound on the clock
          Nobody

ASSUME NobodyAssumption == Nobody \notin Calls

(* Five minutes and a day are more than the deadlines of two handshakes, one *)
(* of which waits for the certificate of the other.                        *)
ASSUME TimesAssumption ==
    /\ Lifetime \in Nat /\ Margin \in Nat /\ CAEnd \in Nat
    /\ Timeout \in Nat /\ MaxTime \in Nat
    /\ Margin >= 2 * Timeout /\ Lifetime >= 2 * Timeout

VARIABLES now,
          cache,   \* ca.cache: for every name the last certificate and its expiresAt
          leader,  \* ca.flight: the call that signs for the name
          pc, name, began,   \* of every call: where it is, for whom, since when
          held,    \* the cache entry a call has loaded
          got      \* the result of a call: a certificate or Failed

vars == <<now, cache, leader, pc, name, began, held, got>>

Failed == [name |-> "none", notAfter |-> -1]
Certs == [name : Names, notAfter : 0 .. CAEnd]
Absent == [cert |-> Failed, expiresAt |-> -Margin - 1]
Entries == [cert : Certs, expiresAt : -Margin .. CAEnd] \cup {Absent}

Fresh(e) == e # Absent /\ now < e.expiresAt

PCs == {"idle", "check", "do", "wait", "load", "recheck", "sign", "store", "finish", "return"}

(* No leaf outlives the CA, and the cache never promises a certificate     *)
(* beyond the CA's end.                                                    *)
TypeOK == /\ now \in 0 .. MaxTime
          /\ cache \in [Names -> Entries]
          /\ leader \in [Names -> Calls \cup {Nobody}]
          /\ pc \in [Calls -> PCs]
          /\ name \in [Calls -> Names]
          /\ began \in [Calls -> 0 .. MaxTime]
          /\ held \in [Calls -> Entries]
          /\ got \in [Calls -> Certs \cup {Failed}]

Init == /\ now = 0
        /\ cache = [n \in Names |-> Absent]
        /\ leader = [n \in Names |-> Nobody]
        /\ pc = [c \in Calls |-> "idle"]
        /\ name \in [Calls -> Names]
        /\ began = [c \in Calls |-> 0]
        /\ held = [c \in Calls |-> Absent]
        /\ got = [c \in Calls |-> Failed]

Goto(c, l) == pc' = [pc EXCEPT ![c] = l]

(* A handshake asks for a certificate: the first load of the cache.        *)
GetCertificate(c) ==
    /\ pc[c] = "idle"
    /\ \E n \in Names : /\ name' = [name EXCEPT ![c] = n]
                        /\ held' = [held EXCEPT ![c] = cache[n]]
    /\ began' = [began EXCEPT ![c] = now]
    /\ Goto(c, "check")
    /\ UNCHANGED <<now, cache, leader, got>>

(* A loaded entry that has not expired is the answer.                      *)
Check(c, from, miss, hit) ==
    /\ pc[c] = from
    /\ IF Fresh(held[c])
       THEN /\ got' = [got EXCEPT ![c] = held[c].cert]
            /\ Goto(c, hit)
       ELSE /\ UNCHANGED got
            /\ Goto(c, miss)
    /\ held' = [held EXCEPT ![c] = Absent]
    /\ UNCHANGED <<now, cache, leader, name, began>>

FirstCheck(c) == Check(c, "check", "do", "return")

(* singleflight.Do: join the flight of the name, or start one.             *)
Do(c) == /\ pc[c] = "do"
         /\ IF leader[name[c]] = Nobody
            THEN /\ leader' = [leader EXCEPT ![name[c]] = c]
                 /\ Goto(c, "load")
            ELSE /\ UNCHANGED leader
                 /\ Goto(c, "wait")
         /\ UNCHANGED <<now, cache, name, began, held, got>>

\* Mutant: the leader does not look again.
ReloadNothing(c) == /\ pc[c] = "load"
                    /\ Goto(c, "sign")
                    /\ UNCHANGED <<now, cache, leader, name, began, held, got>>

(* The leader looks again: another may have signed since its first check.  *)
Reload(c) == /\ pc[c] = "load"
             /\ held' = [held EXCEPT ![c] = cache[name[c]]]
             /\ Goto(c, "recheck")
             /\ UNCHANGED <<now, cache, leader, name, began, got>>

Recheck(c) == Check(c, "recheck", "sign", "finish")

\* Mutant: a leaf that outlives the CA.
NotAfterUncapped == now + Lifetime

(* Keys, serial number and signature; any of them may fail.  The clock may *)
(* go on between the template and what is done with the certificate.       *)
NotAfter == IF CAEnd < now + Lifetime THEN CAEnd ELSE now + Lifetime

Sign(c) == /\ pc[c] = "sign"
           /\ \/ /\ got' = [got EXCEPT ![c] = [name |-> name[c], notAfter |-> NotAfter]]
                 /\ Goto(c, "store")
              \/ /\ got' = [got EXCEPT ![c] = Failed]
                 /\ Goto(c, "finish")
           /\ UNCHANGED <<now, cache, leader, name, began, held>>

\* Mutant: the cache counts the lifetime from the time of the store.
StoreWhole(c) ==
    /\ pc[c] = "store"
    /\ cache' = [cache EXCEPT ![name[c]] =
                   [cert |-> got[c], expiresAt |-> now + Lifetime]]
    /\ Goto(c, "finish")
    /\ UNCHANGED <<now, leader, name, began, held, got>>

Store(c) == /\ pc[c] = "store"
            /\ cache' = [cache EXCEPT ![name[c]] =
                           [cert |-> got[c], expiresAt |-> got[c].notAfter - Margin]]
            /\ Goto(c, "finish")
            /\ UNCHANGED <<now, leader, name, began, held, got>>

\* Mutant: the result goes to the leader alone.
ServedAlone(c) == {c}

(* The flight ends: its result, or its error, goes to all that wait.       *)
Served(c) == {w \in Calls : pc[w] = "wait" /\ name[w] = name[c]} \cup {c}

Finish(c) == /\ pc[c] = "finish"
             /\ leader' = [leader EXCEPT ![name[c]] = Nobody]
             /\ got' = [w \in Calls |-> IF w \in Served(c) THEN got[c] ELSE got[w]]
             /\ pc' = [w \in Calls |-> IF w \in Served(c) THEN "return" ELSE pc[w]]
             /\ UNCHANGED <<now, cache, name, began, held>>

Return(c) == /\ pc[c] = "return"
             /\ Goto(c, "idle")
             /\ got' = [got EXCEPT ![c] = Failed]
             /\ began' = [began EXCEPT ![c] = 0]
             /\ UNCHANGED <<now, cache, leader, name, held>>

Tick == /\ now < MaxTime
        /\ \A c \in Calls : pc[c] # "idle" => now < began[c] + Timeout
        /\ now' = now + 1
        /\ UNCHANGED <<cache, leader, pc, name, began, held, got>>

Step(c) == \/ FirstCheck(c) \/ Do(c) \/ Reload(c) \/ Recheck(c)
           \/ Sign(c) \/ Store(c) \/ Finish(c) \/ Return(c)

Next == Tick \/ \E c \in Calls : GetCertificate(c) \/ Step(c)

Spec == Init /\ [][Next]_vars

(* Goroutines are scheduled; nobody has to open connections.               *)
LiveSpec == Spec /\ \A c \in Calls : WF_vars(Step(c))

-----------------------------------------------------------------------------
(* As long as the CA itself is valid, a certificate that GetCertificate    *)
(* hands to a handshake is one for the name asked for and has not expired, *)
(* also for a call that waited for another's certificate, however the      *)
(* clock moves between the checks and the return.                          *)
ValidWhenUsed ==
    \A c \in Calls : pc[c] = "return" /\ got[c] # Failed /\ now <= CAEnd
        => got[c].name = name[c] /\ now <= got[c].notAfter

(* The CA key signs only when it must: at most one call signs for a name,  *)
(* and none while the cache holds a certificate of that name that could    *)
(* still be reused, also if that was stored after the call's first check.  *)
SignsOnlyWhenNeeded ==
    \A c \in Calls : pc[c] \in {"sign", "store"}
        => /\ ~Fresh(cache[name[c]])
           /\ \A d \in Calls \ {c} :
                name[d] = name[c] => pc[d] \notin {"sign", "store"}

(* Every call returns, those that wait for the signature of another too,   *)
(* whether the signature succeeds or fails.                                *)
CallsReturn == \A c \in Calls : pc[c] = "check" ~> pc[c] = "idle"
=============================================================================
