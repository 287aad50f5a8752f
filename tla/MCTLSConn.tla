----------------------------- MODULE MCTLSConn -----------------------------
(* ClientHellos for TLC, encoded as clients do, and damaged ones.          *)
EXTENDS TLSConn, SequencesExt

Prefixed16(s) == <<Len(s) \div 256, Len(s) % 256>> \o s
Prefixed8(s) == <<Len(s)>> \o s

(* One record with a ClientHello: session id, extensions.                  *)
Record(sid, exts) ==
    LET body == <<3, 3>> \o [i \in 1 .. 32 |-> 7] \o Prefixed8(sid)
                  \o Prefixed16(<<19, 1>>) \o Prefixed8(<<0>>) \o exts
    IN <<22, 3, 1>> \o Prefixed16(<<1, 0>> \o Prefixed16(body))

NameExt(n) == <<0, 0>> \o Prefixed16(Prefixed16(<<0>> \o Prefixed16(n)))
Other == <<0, 43>> \o Prefixed16(<<4>>)
EmptyName == <<0, 0, 0, 0>>

Long == <<0, 21>> \o Prefixed16([i \in 1 .. 20 |-> 0])

Whole(sid, exts, n) ==
    [bytes |-> Record(sid, Prefixed16(FlattenSeq(exts))), whole |-> TRUE, name |-> n,
     exts |-> [k \in 1 .. Len(exts) + 1 |->
                 52 + Len(sid) + Len(FlattenSeq(SubSeq(exts, 1, k - 1)))]]

NoExtensions == [bytes |-> Record(<< >>, << >>), whole |-> TRUE, name |-> << >>, exts |-> << >>]

WholeHellos == {NoExtensions,
                Whole(<< >>, <<NameExt(<<97, 98>>)>>, <<97, 98>>),
                Whole(<<5>>, <<Other, EmptyName, NameExt(<<97>>), Other>>, <<97>>),
                Whole(<<5>>, <<Other>>, << >>),
                Whole(<<5>>, <<Long, NameExt(<<97>>)>>, <<97>>)}

(* More bytes follow the record.                                           *)
Followed(h) == [h EXCEPT !.bytes = @ \o <<23, 3, 3>>]

Garbled(h, i, v) == [bytes |-> [h.bytes EXCEPT ![i] = v], whole |-> FALSE, name |-> << >>,
                     exts |-> << >>]

(* Every byte that the parser looks at, replaced by values that make       *)
(* lengths too small, too large and off by one.                            *)
Damaged == LET h == Whole(<<5>>, <<Other, NameExt(<<97, 98>>)>>, <<97, 98>>)
           IN {Garbled(h, i, v) : i \in {1, 4, 5, 6} \cup 44 .. Len(h.bytes),
                                  v \in {0, 1, 3, 8, 255}}

MCHellos == WholeHellos \cup {Followed(h) : h \in WholeHellos} \cup Damaged
MCCuts == {4, 5, 50}
=============================================================================
