--------------------------- MODULE TLSConnProofs ---------------------------
(* Proofs about TLSConn, for any bytes a client may send, any cuts and     *)
(* buffer sizes.                                                           *)
EXTENDS TLSConn, SequenceTheorems, TLAPS

-----------------------------------------------------------------------------
(* PeekSNI stays within its data.                                          *)

Counts == /\ hello \in Hellos
          /\ arrived \in 0 .. Len(hello.bytes)
          /\ buffered \in 0 .. arrived
          /\ size \in Nat /\ pos \in Nat /\ extEnd \in Nat /\ top \in Nat

(* The data PeekSNI looks at is in the buffer, and what it looked at last  *)
(* is in the data; it never looks for extensions behind the data.          *)
PeekInv == /\ pc \in Parsing \cup {"gate"} => top <= size /\ size <= buffered
           /\ pc \in Parsing => buffered <= BufSize
           /\ pc = "record" => size = 5
           /\ pc = "extension" => extEnd <= size

LEMMA BytesType == ASSUME NEW h \in Hellos
                   PROVE  h.bytes \in Seq(0 .. 255) /\ Len(h.bytes) \in Nat
  <1>1. h.bytes \in Seq(0 .. 255)
    BY HellosAssumption
  <1> QED BY <1>1, LenProperties

(* A byte is a byte, also behind the end of the data.                      *)
LEMMA AtType == ASSUME NEW s \in Seq(0 .. 255), NEW i \in Nat
                PROVE  ByteAt(s, i) \in Nat /\ U16At(s, i) \in Nat
  <1>1. ASSUME NEW j \in Nat PROVE ByteAt(s, j) \in 0 .. 255
    <2>1. CASE j < Len(s)
      <3>1. j + 1 \in 1 .. Len(s)
        BY <2>1, LenProperties
      <3>2. s[j + 1] \in 0 .. 255
        BY <3>1, ElementOfSeq
      <3> QED BY <2>1, <3>2 DEF ByteAt
    <2>2. CASE ~(j < Len(s))
      BY <2>2 DEF ByteAt
    <2> QED BY <2>1, <2>2
  <1>2. ByteAt(s, i) \in 0 .. 255 /\ ByteAt(s, i + 1) \in 0 .. 255
    BY <1>1
  <1>3. \A x, y \in 0 .. 255 : x \in Nat /\ 256 * x + y \in Nat
    OBVIOUS
  <1> QED BY <1>2, <1>3 DEF U16At

LEMMA ByteType == ASSUME hello \in Hellos, NEW i \in Nat
                  PROVE  Byte(i) \in Nat /\ U16(i) \in Nat
  BY BytesType, AtType DEF Byte, U16

LEMMA PeekInit == Init => Counts /\ PeekInv
  <1> SUFFICES ASSUME Init PROVE Counts /\ PeekInv
    OBVIOUS
  <1>1. Len(hello.bytes) \in Nat
    BY BytesType DEF Init
  <1> QED BY <1>1, BoundsAssumption DEF Init, Counts, PeekInv, Parsing

(* The record header is in the buffer when it is looked at. *)
LEMMA PeekHeaderPeeks ==
    ASSUME Counts, PeekInv, PeekHeader PROVE Counts' /\ PeekInv'
  <1>2. Len(hello.bytes) \in Nat
    BY BytesType DEF Counts
  <1>3. hello' = hello /\ arrived' = arrived
    BY DEF PeekHeader, peer
  <1>4. Counts'
    BY <1>2, <1>3, BoundsAssumption DEF Counts, PeekInv, Parsing,
       PeekHeader, Fill, MinOf, CanPeek, PeekFails, parser
  <1>5. PeekInv'
    BY <1>2, <1>3, BoundsAssumption DEF Counts, PeekInv, Parsing,
       PeekHeader, Fill, MinOf, CanPeek, PeekFails, parser
  <1> QED BY <1>4, <1>5

(* So is the record. *)
LEMMA PeekRecordPeeks ==
    ASSUME Counts, PeekInv, PeekRecord PROVE Counts' /\ PeekInv'
  <1>1. U16(3) \in Nat
    BY ByteType DEF Counts
  <1>2. Len(hello.bytes) \in Nat
    BY BytesType DEF Counts
  <1>3. hello' = hello /\ arrived' = arrived
    BY DEF PeekRecord, peer
  <1>4. Counts'
    BY <1>1, <1>2, <1>3, BoundsAssumption DEF Counts, PeekInv, Parsing,
       PeekRecord, Result, Fill, MinOf, CanPeek, PeekFails
  <1>5. PeekInv'
    BY <1>1, <1>2, <1>3, BoundsAssumption DEF Counts, PeekInv, Parsing,
       PeekRecord, Result, Fill, MinOf, CanPeek, PeekFails
  <1> QED BY <1>4, <1>5

(* A length is looked at after the check that it is in the data. *)
LEMMA SkipSessionPeeks ==
    ASSUME Counts, PeekInv, SkipSession PROVE Counts' /\ PeekInv'
  <1>1. Byte(pos) \in Nat /\ U16(pos) \in Nat
    BY ByteType DEF Counts
  <1>2. Len(hello.bytes) \in Nat
    BY BytesType DEF Counts
  <1>3. hello' = hello /\ arrived' = arrived /\ buffered' = buffered
    BY DEF SkipSession, Skip, peer
  <1>4. Counts'
    BY <1>1, <1>2, <1>3 DEF Counts, PeekInv, Parsing, SkipSession, Skip,
       Move, Result
  <1>5. PeekInv'
    BY <1>1, <1>2, <1>3 DEF Counts, PeekInv, Parsing, SkipSession, Skip,
       Move, Result
  <1> QED BY <1>4, <1>5

(* A length is looked at after the check that it is in the data. *)
LEMMA SkipCiphersPeeks ==
    ASSUME Counts, PeekInv, SkipCiphers PROVE Counts' /\ PeekInv'
  <1>1. Byte(pos) \in Nat /\ U16(pos) \in Nat
    BY ByteType DEF Counts
  <1>2. Len(hello.bytes) \in Nat
    BY BytesType DEF Counts
  <1>3. hello' = hello /\ arrived' = arrived /\ buffered' = buffered
    BY DEF SkipCiphers, Skip, peer
  <1>4. Counts'
    BY <1>1, <1>2, <1>3 DEF Counts, PeekInv, Parsing, SkipCiphers, Skip,
       Move, Result
  <1>5. PeekInv'
    BY <1>1, <1>2, <1>3 DEF Counts, PeekInv, Parsing, SkipCiphers, Skip,
       Move, Result
  <1> QED BY <1>4, <1>5

(* A length is looked at after the check that it is in the data. *)
LEMMA SkipCompressionPeeks ==
    ASSUME Counts, PeekInv, SkipCompression PROVE Counts' /\ PeekInv'
  <1>1. Byte(pos) \in Nat /\ U16(pos) \in Nat
    BY ByteType DEF Counts
  <1>2. Len(hello.bytes) \in Nat
    BY BytesType DEF Counts
  <1>3. hello' = hello /\ arrived' = arrived /\ buffered' = buffered
    BY DEF SkipCompression, Skip, peer
  <1>4. Counts'
    BY <1>1, <1>2, <1>3 DEF Counts, PeekInv, Parsing, SkipCompression, Skip,
       Move, Result
  <1>5. PeekInv'
    BY <1>1, <1>2, <1>3 DEF Counts, PeekInv, Parsing, SkipCompression, Skip,
       Move, Result
  <1> QED BY <1>4, <1>5

(* The end of the extensions is cut to the data. *)
LEMMA ExtensionsPeeks ==
    ASSUME Counts, PeekInv, Extensions PROVE Counts' /\ PeekInv'
  <1>1. U16(pos) \in Nat
    BY ByteType DEF Counts
  <1>2. Len(hello.bytes) \in Nat
    BY BytesType DEF Counts
  <1>3. hello' = hello /\ arrived' = arrived /\ buffered' = buffered
    BY DEF Extensions, peer
  <1>4. Counts'
    BY <1>1, <1>2, <1>3 DEF Counts, PeekInv, Parsing, Extensions, MinOf,
       Result
  <1>5. PeekInv'
    BY <1>1, <1>2, <1>3 DEF Counts, PeekInv, Parsing, Extensions, MinOf,
       Result
  <1> QED BY <1>4, <1>5

(* An extension, and the name in it, ends before the end of them all.      *)
LEMMA ExtensionPeeks ==
    ASSUME Counts, PeekInv, Extension PROVE Counts' /\ PeekInv'
  <1> DEFINE body == pos + 4
             extLen == U16(pos + 2)
             nameLen == U16(body + 2 + 1)
  <1>1. pos \in Nat /\ pos + 2 \in Nat /\ body + 2 + 1 \in Nat
    BY DEF Counts
  <1>2. extLen \in Nat /\ nameLen \in Nat
    BY <1>1, ByteType DEF Counts
  <1>3. UNCHANGED <<hello, arrived, buffered>>
    BY DEF Extension, peer
  <1>4. /\ UNCHANGED <<size, extEnd>>
        /\ pc' \in {"gate", "extension"}
        /\ pos' = pos \/ pos' = body + extLen
        /\ \/ top' = top
           \/ top' = body /\ body <= extEnd
           \/ top' = body + 2 + 1 /\ extLen >= 5 /\ body + extLen <= extEnd
           \/ top' = body + 2 + 3 /\ extLen >= 5 /\ body + extLen <= extEnd
           \/ /\ top' = body + 2 + 3 + nameLen /\ body + extLen <= extEnd
              /\ body + 2 + 3 + nameLen <= body + extLen
    <2> HIDE DEF extLen, nameLen
    <2>1. CASE body > extEnd
      BY <2>1 DEF Extension, Result
    <2>2. CASE body <= extEnd /\ body + extLen > extEnd
      BY <1>1, <1>2, <2>2 DEF Extension, Result, Counts, extLen
    <2>3. CASE body <= extEnd /\ body + extLen <= extEnd /\ U16(pos) = 0 /\ extLen >= 5
      <3>1. ServerName(body, extLen)
        BY <1>1, <1>2, <2>3 DEF Extension, Counts, extLen
      <3> QED BY <1>1, <1>2, <2>3, <3>1 DEF ServerName, Result, Counts, nameLen
    <2>4. CASE body <= extEnd /\ body + extLen <= extEnd /\ ~(U16(pos) = 0 /\ extLen >= 5)
      BY <1>1, <1>2, <2>4 DEF Extension, Move, Counts, extLen
    <2> QED BY <1>1, <1>2, <2>1, <2>2, <2>3, <2>4 DEF Counts
  <1> HIDE DEF extLen, nameLen
  <1>5. pc = "extension"
    BY DEF Extension
  <1>6. Counts'
    BY <1>1, <1>2, <1>3, <1>4 DEF Counts
  <1>7. PeekInv'
    BY <1>1, <1>2, <1>3, <1>4, <1>5 DEF Counts, PeekInv, Parsing
  <1> QED BY <1>6, <1>7

(* No other step looks at data before the route is chosen.                 *)
Elsewhere == \/ Arrive \/ ClientClose \/ Serve \/ ServerClose \/ Gate \/ Dial
             \/ Spliced \/ TLSRead("mitm") \/ TLSEnd \/ Requests \/ Up \/ Down

LEMMA ElsewherePeeks ==
    ASSUME Counts, PeekInv, Elsewhere PROVE Counts' /\ PeekInv'
  <1>1. Len(hello.bytes) \in Nat
    BY BytesType DEF Counts
  <1>2. CASE Arrive
    BY <1>1, <1>2, BoundsAssumption DEF Arrive, Counts, PeekInv, parser
  <1>3. CASE ClientClose \/ Serve \/ ServerClose
    BY <1>1, <1>3 DEF ClientClose, Serve, ServerClose, Counts, PeekInv, parser
  <1>4. CASE Gate \/ Dial \/ Spliced \/ TLSStop \/ ReadRequest \/ RequestHandled
    <2>1. /\ UNCHANGED <<hello, arrived, buffered, size, pos, extEnd, top>>
          /\ pc' \notin Parsing \cup {"gate"}
      BY <1>4 DEF Gate, Dial, Spliced, TLSStop, ReadRequest, RequestHandled, peer, parser, Parsing
    <2> QED BY <1>1, <2>1 DEF Counts, PeekInv, Parsing
  <1>5. CASE TLSRead("mitm") \/ TLSRead("request")
    <2>1. PeekConnRead /\ pc \in {"mitm", "request"}
          /\ UNCHANGED <<hello, arrived, pc, size, pos, extEnd, top>>
      BY <1>5 DEF TLSRead, peer, parser
    <2>2. buffered \in 0 .. arrived /\ arrived \in Nat
      BY <1>1 DEF Counts
    <2>3. buffered' \in 0 .. arrived
      BY <2>1, <2>2 DEF PeekConnRead
    <2> QED BY <2>1, <2>3 DEF Counts, PeekInv, Parsing
  <1>6. CASE UpRead
    BY <1>1, <1>6 DEF UpRead, PeekConnRead, Counts, PeekInv, Parsing, peer, parser
  <1>7. CASE UpWrite \/ DownRead \/ DownWrite
    BY <1>1, <1>7 DEF UpWrite, DownRead, DownWrite, Counts, PeekInv, peer, parser
  <1>8. CASE CloseAll("up") \/ CloseAll("down")
    BY <1>1, <1>8 DEF CloseAll, Counts, PeekInv, peer, parser
  <1> QED BY <1>2, <1>3, <1>4, <1>5, <1>6, <1>7, <1>8, Elsewhere
          DEF Elsewhere, Up, Down, TLSEnd, Requests

LEMMA PeekNext == Counts /\ PeekInv /\ [Next]_vars => Counts' /\ PeekInv'
  <1> SUFFICES ASSUME Counts, PeekInv, [Next]_vars PROVE Counts' /\ PeekInv'
    OBVIOUS
  <1>1. CASE UNCHANGED vars
    BY <1>1 DEF vars, peer, parser, Counts, PeekInv
  <1>2. CASE PeekSNI
    BY <1>2, PeekHeaderPeeks, PeekRecordPeeks, SkipSessionPeeks, SkipCiphersPeeks,
       SkipCompressionPeeks, ExtensionsPeeks, ExtensionPeeks DEF PeekSNI
  <1>3. CASE Elsewhere
    BY <1>3, ElsewherePeeks
  <1> QED BY <1>1, <1>2, <1>3 DEF Next, Handler, Elsewhere

LEMMA PeekInductive == Spec => [](Counts /\ PeekInv)
  BY PeekInit, PeekNext, PTL DEF Spec

(* PeekSNI never indexes data out of its range, whatever bytes a client    *)
(* sends to port 443, and in whatever pieces they arrive.                  *)
THEOREM PeekSNISafe == Spec => []NoPanic
  <1>1. Counts /\ PeekInv => NoPanic
    BY DEF PeekInv, NoPanic
  <1> QED BY <1>1, PeekInductive, PTL

-----------------------------------------------------------------------------
(* What was read from br is in up, or, until it is written, in chunk.      *)

Taken(k) == up = SubSeq(hello.bytes, 1, k)
Held(k) == chunk = SubSeq(hello.bytes, k + 1, consumed)

Before == Parsing \cup {"gate", "dial"}

StreamInv ==
    /\ consumed \in 0 .. arrived
    /\ pc \in Before => consumed = 0 /\ copy["up"] = "read" /\ Taken(0)
    /\ pc \in {"mitm", "request"} => Taken(consumed)
    /\ pc = "splice" /\ copy["up"] = "read" => Taken(consumed)
    /\ pc = "splice" /\ copy["up"] = "write"
         => \E k \in 0 .. consumed : Taken(k) /\ Held(k)
    /\ \E k \in 0 .. Len(hello.bytes) : Taken(k)
    /\ DOMAIN copy = Dirs

Inv == Counts /\ PeekInv /\ StreamInv

(* A prefix and the piece that follows it are a prefix.                    *)
LEMMA PrefixExtends ==
    ASSUME NEW s \in Seq(0 .. 255), NEW a \in 0 .. Len(s), NEW b \in a .. Len(s)
    PROVE  SubSeq(s, 1, a) \o SubSeq(s, a + 1, b) = SubSeq(s, 1, b)
  BY ConcatAdjacentSubSeq

LEMMA StreamInit == Init => StreamInv
  <1> SUFFICES ASSUME Init PROVE StreamInv
    OBVIOUS
  <1>1. Len(hello.bytes) \in Nat
    BY BytesType DEF Init
  <1>2. Taken(0)
    BY SubSeqEmpty DEF Init, Taken
  <1>3. DOMAIN copy = Dirs /\ copy["up"] = "read"
    BY DEF Init, Dirs
  <1> QED BY <1>1, <1>2, <1>3 DEF Init, StreamInv, Before, Parsing

(* Steps that read nothing from br and write nothing.                      *)
LEMMA QuietStreams ==
    ASSUME StreamInv, Len(hello.bytes) \in Nat,
           arrived \in Nat, arrived' \in Nat, arrived <= arrived',
           UNCHANGED <<hello, consumed, up>>,
           \/ pc \in Before /\ pc' \in Before \cup {"splice", "mitm", "done"}
                 /\ UNCHANGED copy
           \/ UNCHANGED <<pc, copy, chunk>>
           \/ pc' = "done" /\ UNCHANGED copy
           \/ /\ pc \in {"mitm", "request"} /\ pc' \in {"mitm", "request", "done"}
              /\ UNCHANGED copy
           \/ /\ UNCHANGED <<pc, chunk>> /\ pc = "splice"
              /\ copy' = [copy EXCEPT !["down"] = copy'["down"]]
           \/ /\ UNCHANGED pc /\ pc = "splice"
              /\ copy'["up"] \in {"close", "ended"} /\ DOMAIN copy' = Dirs
    PROVE  StreamInv'
  <1>1. \A k : Taken(k)' <=> Taken(k)
    BY DEF Taken
  <1>2. consumed' \in 0 .. arrived' /\ DOMAIN copy' = Dirs
    BY DEF StreamInv
  <1>3. \E k \in 0 .. Len(hello.bytes)' : Taken(k)'
    BY <1>1 DEF StreamInv
  <1> HIDE DEF Taken
  <1>4. pc' \in Before => consumed' = 0 /\ copy'["up"] = "read" /\ Taken(0)'
    BY <1>1 DEF StreamInv, Before, Parsing, Dirs
  <1>5. pc' \in {"mitm", "request"} => Taken(consumed)'
    BY <1>1 DEF StreamInv, Before, Parsing
  <1>6. pc' = "splice" /\ copy'["up"] = "read" => Taken(consumed)'
    BY <1>1 DEF StreamInv, Before, Parsing, Dirs
  <1>7. pc' = "splice" /\ copy'["up"] = "write"
          => \E k \in 0 .. consumed' : Taken(k)' /\ Held(k)'
    BY <1>1 DEF StreamInv, Before, Parsing, Dirs, Held
  <1> QED BY <1>2, <1>3, <1>4, <1>5, <1>6, <1>7 DEF StreamInv

LEMMA StreamNext == Inv /\ [Next]_vars => Inv'
  <1> SUFFICES ASSUME Inv, [Next]_vars PROVE StreamInv'
    BY PeekNext DEF Inv
  <1>1. /\ hello.bytes \in Seq(0 .. 255) /\ Len(hello.bytes) \in Nat
        /\ arrived \in 0 .. Len(hello.bytes) /\ buffered \in 0 .. arrived
        /\ consumed \in 0 .. arrived
    BY BytesType DEF Inv, Counts, StreamInv
  <1>2. hello' = hello /\ arrived' \in 0 .. Len(hello.bytes) /\ arrived <= arrived'
    <2>1. hello' = hello /\ (arrived' = arrived \/ Arrive)
      BY DEF Next, Handler, PeekSNI, Up, Down, TLSEnd, Arrive, ClientClose, Serve,
             ServerClose, PeekHeader, PeekRecord, SkipSession, SkipCiphers,
             SkipCompression, Skip, Extensions, Extension, Gate, Dial, Spliced,
             TLSRead, TLSStop, Requests, ReadRequest, RequestHandled, UpRead, UpWrite, DownRead,
             DownWrite, CloseAll, peer, vars
    <2> QED BY <1>1, <2>1, BoundsAssumption DEF Arrive
  <1> USE DEF Inv
  <1>3. CASE PeekSNI
    <2>1. /\ UNCHANGED <<consumed, up, copy>>
          /\ pc \in Before /\ pc' \in Before
      BY <1>3 DEF PeekSNI, PeekHeader, PeekRecord, SkipSession, SkipCiphers,
         SkipCompression, Skip, Move, Extensions, Extension, ServerName, Result,
         relay, Before, Parsing
    <2> QED BY <1>1, <1>2, <2>1, QuietStreams
  <1>4. CASE UNCHANGED vars \/ Arrive \/ ClientClose \/ Serve \/ ServerClose
    <2>1. UNCHANGED <<consumed, up, copy, pc, chunk>>
      BY <1>4 DEF vars, relay, Arrive, ClientClose, Serve, ServerClose
    <2> QED BY <1>1, <1>2, <2>1, QuietStreams
  <1>5. CASE Gate \/ Dial
    <2>1. /\ UNCHANGED <<consumed, up, copy>>
          /\ pc \in Before /\ pc' \in Before \cup {"splice", "mitm", "done"}
      BY <1>5 DEF Gate, Dial, relay, Before, Parsing
    <2> QED BY <1>1, <1>2, <2>1, QuietStreams
  <1>6. CASE Spliced \/ TLSStop
    <2>1. UNCHANGED <<consumed, up, copy>> /\ pc' = "done"
      BY <1>6 DEF Spliced, TLSStop, relay
    <2> QED BY <1>1, <1>2, <2>1, QuietStreams
  <1>7. CASE DownRead \/ DownWrite \/ CloseAll("down")
    <2>1. /\ UNCHANGED <<consumed, up, pc, chunk>> /\ pc = "splice"
          /\ copy' = [copy EXCEPT !["down"] = copy'["down"]]
      BY <1>7 DEF DownRead, DownWrite, CloseAll, StreamInv, Dirs
    <2> QED BY <1>1, <1>2, <2>1, QuietStreams
  <1>8. CASE CloseAll("up")
    <2>1. /\ UNCHANGED <<consumed, up, pc>> /\ pc = "splice"
          /\ copy'["up"] = "ended" /\ DOMAIN copy' = Dirs
      BY <1>8 DEF CloseAll, StreamInv, Dirs
    <2> QED BY <1>1, <1>2, <2>1, QuietStreams
  <1>9. CASE UpRead
    <2>1. CASE PeekConnRead
      <3>1. /\ consumed' \in consumed .. arrived /\ UNCHANGED <<pc, up, arrived>>
            /\ pc = "splice" /\ copy["up"] = "read" /\ copy'["up"] = "write"
            /\ DOMAIN copy' = Dirs
        BY <1>1, <1>9, <2>1 DEF UpRead, PeekConnRead, StreamInv, Dirs, peer
      <3>2. Taken(consumed) /\ chunk' = SubSeq(hello.bytes, consumed + 1, consumed')
        BY <1>9, <2>1 DEF UpRead, PeekConnRead, StreamInv
      <3>3. up' = SubSeq(hello'.bytes, 1, consumed)
        BY <1>2, <3>1, <3>2 DEF Taken
      <3>4. chunk' = SubSeq(hello'.bytes, consumed + 1, consumed')
        BY <1>2, <3>2
      <3>5. \E k \in 0 .. consumed' :
               /\ up' = SubSeq(hello'.bytes, 1, k)
               /\ chunk' = SubSeq(hello'.bytes, k + 1, consumed')
        <4>1. consumed \in 0 .. consumed'
          BY <1>1, <3>1
        <4> WITNESS consumed \in 0 .. consumed'
        <4> QED BY <3>3, <3>4
      <3>6. \E k \in 0 .. Len(hello'.bytes) : up' = SubSeq(hello'.bytes, 1, k)
        BY <1>1, <1>2, <3>1, <3>3
      <3>7. consumed' \in 0 .. arrived'
        BY <1>1, <3>1
      <3> QED BY <3>1, <3>5, <3>6, <3>7
              DEF StreamInv, Taken, Held, Before, Parsing
    <2>2. CASE /\ copy' = [copy EXCEPT !["up"] = "close"]
               /\ UNCHANGED <<buffered, consumed, chunk>>
      <3>1. /\ UNCHANGED <<consumed, up, pc>> /\ pc = "splice"
            /\ copy'["up"] = "close" /\ DOMAIN copy' = Dirs
        BY <1>9, <2>2 DEF UpRead, StreamInv, Dirs
      <3> QED BY <1>1, <1>2, <3>1, QuietStreams
    <2> QED BY <1>9, <2>1, <2>2 DEF UpRead
  <1>10. CASE UpWrite
    <2>1. CASE up' = up \o chunk /\ copy' = [copy EXCEPT !["up"] = "read"]
      <3>1. /\ UNCHANGED <<pc, consumed, arrived>> /\ pc = "splice"
            /\ copy["up"] = "write" /\ copy'["up"] = "read" /\ DOMAIN copy' = Dirs
        BY <1>10, <2>1 DEF UpWrite, StreamInv, Dirs, peer
      <3>2. PICK k \in 0 .. consumed : Taken(k) /\ Held(k)
        BY <3>1 DEF StreamInv
      <3>3. k \in 0 .. Len(hello.bytes) /\ consumed \in k .. Len(hello.bytes)
        BY <1>1
      <3>4. up' = SubSeq(hello.bytes, 1, consumed)
        BY <1>1, <2>1, <3>2, <3>3, PrefixExtends DEF Taken, Held
      <3> QED BY <1>1, <1>2, <3>1, <3>4 DEF StreamInv, Taken, Before, Parsing
    <2>2. CASE UNCHANGED up /\ copy' = [copy EXCEPT !["up"] = "close"]
      <3>1. /\ UNCHANGED <<consumed, up, pc>> /\ pc = "splice"
            /\ copy'["up"] = "close" /\ DOMAIN copy' = Dirs
        BY <1>10, <2>2 DEF UpWrite, StreamInv, Dirs
      <3> QED BY <1>1, <1>2, <3>1, QuietStreams
    <2> QED BY <1>10, <2>1, <2>2 DEF UpWrite
  <1>11. CASE TLSRead("mitm") \/ TLSRead("request")
    <2>1. /\ consumed' \in consumed .. arrived /\ UNCHANGED <<pc, copy, arrived>>
          /\ pc \in {"mitm", "request"} /\ up' = up \o chunk'
      BY <1>1, <1>11 DEF TLSRead, PeekConnRead, peer
    <2>2. Taken(consumed) /\ chunk' = SubSeq(hello.bytes, consumed + 1, consumed')
      BY <1>11 DEF TLSRead, PeekConnRead, StreamInv
    <2>3. consumed \in 0 .. Len(hello.bytes) /\ consumed' \in consumed .. Len(hello.bytes)
      BY <1>1, <2>1
    <2>4. up' = SubSeq(hello.bytes, 1, consumed')
      BY <1>1, <2>1, <2>2, <2>3, PrefixExtends DEF Taken
    <2> QED BY <1>1, <1>2, <2>1, <2>3, <2>4 DEF StreamInv, Taken, Before, Parsing
  <1>12. CASE ReadRequest \/ RequestHandled
    <2>1. /\ UNCHANGED <<consumed, up, copy>>
          /\ pc \in {"mitm", "request"} /\ pc' \in {"mitm", "request", "done"}
      BY <1>12 DEF ReadRequest, RequestHandled
    <2> QED BY <1>1, <1>2, <2>1, QuietStreams
  <1> QED
    BY <1>3, <1>4, <1>5, <1>6, <1>7, <1>8, <1>9, <1>10, <1>11, <1>12
    DEF Next, Handler, Up, Down, TLSEnd, Requests

(* Upstream, or the TLS stack behind peekConn, gets the client's bytes     *)
(* from the first one on, those that PeekSNI looked at included.           *)
THEOREM StreamKept == Spec => []StreamIntact
  <1>1. Init => Inv
    BY PeekInit, StreamInit DEF Inv
  <1>2. Inv => StreamIntact
    <2> SUFFICES ASSUME Inv PROVE StreamIntact
      OBVIOUS
    <2>1. hello.bytes \in Seq(0 .. 255)
      BY BytesType DEF Inv, Counts
    <2>2. PICK k \in 0 .. Len(hello.bytes) : Taken(k)
      BY DEF Inv, StreamInv
    <2>3. Len(SubSeq(hello.bytes, 1, k)) = k
      BY <2>1, <2>2
    <2> QED BY <2>2, <2>3 DEF StreamIntact, Taken
  <1> QED BY <1>1, <1>2, StreamNext, PTL DEF Spec
-----------------------------------------------------------------------------
(* PeekSNI finds the name.                                                 *)

(* How far the parser is in a ClientHello that is laid out as it should.   *)
(* It is at the start of an extension, or at the end of the last, and has  *)
(* passed over none that has the name.                                     *)
AtExtension(h) ==
    /\ Lists(h.bytes, h.exts, h.name)
    /\ extEnd = RecordEnd(h.bytes)
    /\ \E k \in 1 .. Len(h.exts) : /\ pos = h.exts[k]
                                   /\ \A j \in 1 .. k - 1 : ~Named(h.bytes, h.exts[j])

Within(h) ==
    /\ pc \in {"header", "record"} => size <= 5
    /\ pc \in Parsing \ {"header", "record"} => size = RecordEnd(h.bytes)
    /\ pc = "session" => pos = 43
    /\ pc = "ciphers" => pos = CiphersAt(h.bytes)
    /\ pc = "compression" => pos = CompressionAt(h.bytes)
    /\ pc = "extensions" => pos = ExtensionsAt(h.bytes)
    /\ pc = "extension" => AtExtension(h)
    /\ pc \notin Parsing /\ size > 5 => sni = h.name

NameInv == hello.whole => Within(hello)

LEMMA NameInit == Init => NameInv
  BY DEF Init, NameInv, Within, Parsing

(* The fields of a ClientHello follow each other.                          *)
LEMMA Fields ==
    ASSUME NEW h \in Hellos, h.whole
    PROVE  /\ WellFormed(h)
           /\ CiphersAt(h.bytes) \in Nat /\ CompressionAt(h.bytes) \in Nat
           /\ ExtensionsAt(h.bytes) \in Nat /\ RecordEnd(h.bytes) \in Nat
           /\ 44 <= CiphersAt(h.bytes)
           /\ CiphersAt(h.bytes) + 2 <= CompressionAt(h.bytes)
           /\ CompressionAt(h.bytes) + 1 <= ExtensionsAt(h.bytes)
           /\ ExtensionsAt(h.bytes) <= RecordEnd(h.bytes)
  <1> DEFINE s == h.bytes
  <1>1. s \in Seq(0 .. 255)
    BY BytesType
  <1> HIDE DEF s
  <1>2. ByteAt(s, 43) \in Nat /\ U16At(s, 3) \in Nat
    BY <1>1, AtType
  <1>3. CiphersAt(s) \in Nat /\ 44 <= CiphersAt(s) /\ RecordEnd(s) \in Nat
    BY <1>2 DEF CiphersAt, RecordEnd
  <1>4. U16At(s, CiphersAt(s)) \in Nat
    BY <1>1, <1>3, AtType
  <1>5. CompressionAt(s) \in Nat /\ CiphersAt(s) + 2 <= CompressionAt(s)
    BY <1>3, <1>4 DEF CompressionAt
  <1>6. ByteAt(s, CompressionAt(s)) \in Nat
    BY <1>1, <1>5, AtType
  <1>7. ExtensionsAt(s) \in Nat /\ CompressionAt(s) + 1 <= ExtensionsAt(s)
    BY <1>5, <1>6 DEF ExtensionsAt
  <1>8. WellFormed(h)
    BY WholeAssumption
  <1> QED BY <1>3, <1>5, <1>7, <1>8 DEF WellFormed, Framed, s

(* Each field is skipped to the start of the next one.                     *)
LEMMA SkipsFind ==
    ASSUME Counts, hello.whole, Within(hello), SkipSession \/ SkipCiphers \/ SkipCompression
    PROVE  Within(hello)'
  <1> DEFINE s == hello.bytes
  <1>1. hello \in Hellos /\ hello' = hello
    BY DEF Counts, SkipSession, SkipCiphers, SkipCompression, Skip, peer
  <1>2. CASE SkipSession
    <2>1. pc = "session" /\ pos = 43 /\ size = RecordEnd(s)
      BY <1>2 DEF SkipSession, Skip, Within, Parsing
    <2>2. ~(pos + 1 > size)
      BY <1>1, <2>1, Fields
    <2>3. pc' = "ciphers" /\ pos' = 43 + 1 + Byte(43) /\ size' = size
      BY <1>2, <2>1, <2>2 DEF SkipSession, Skip, Move
    <2>4. pos' = CiphersAt(s)
      BY <1>1, <2>3, BytesType, AtType DEF CiphersAt, Byte
    <2> QED BY <1>1, <2>1, <2>3, <2>4 DEF Within, Parsing
  <1>3. CASE SkipCiphers
    <2>1. pc = "ciphers" /\ pos = CiphersAt(s) /\ size = RecordEnd(s)
      BY <1>3 DEF SkipCiphers, Skip, Within, Parsing
    <2>2. ~(pos + 2 > size)
      BY <1>1, <2>1, Fields
    <2>3. pc' = "compression" /\ pos' = pos + 2 + U16(pos) /\ size' = size
      BY <1>3, <2>1, <2>2 DEF SkipCiphers, Skip, Move
    <2>4. pos' = CompressionAt(s)
      BY <2>1, <2>3 DEF CompressionAt, U16
    <2> QED BY <1>1, <2>1, <2>3, <2>4 DEF Within, Parsing
  <1>4. CASE SkipCompression
    <2>1. pc = "compression" /\ pos = CompressionAt(s) /\ size = RecordEnd(s)
      BY <1>4 DEF SkipCompression, Skip, Within, Parsing
    <2>2. ~(pos + 1 > size)
      BY <1>1, <2>1, Fields
    <2>3. pc' = "extensions" /\ pos' = pos + 1 + Byte(pos) /\ size' = size
      BY <1>4, <2>1, <2>2 DEF SkipCompression, Skip, Move
    <2>4. pos' = ExtensionsAt(s)
      BY <2>1, <2>3 DEF ExtensionsAt, Byte
    <2> QED BY <1>1, <2>1, <2>3, <2>4 DEF Within, Parsing
  <1> QED BY <1>2, <1>3, <1>4

(* A record that cannot be peeked whole leaves size at its header.         *)
LEMMA PeeksFind ==
    ASSUME Counts, hello.whole, Within(hello), PeekHeader \/ PeekRecord
    PROVE  Within(hello)'
  <1>1. hello \in Hellos /\ hello' = hello
    BY DEF Counts, PeekHeader, PeekRecord, peer
  <1>2. CASE PeekHeader
    <2>1. size' <= 5 /\ pc' \in {"record", "gate", "dial"}
      BY <1>2 DEF PeekHeader, parser, Within
    <2>2. size' \in Nat
      BY <1>2 DEF PeekHeader, parser, Counts
    <2> QED BY <2>1, <2>2 DEF Within, Parsing
  <1>3. CASE PeekRecord
    <2>1. Byte(5) = 1 /\ RecordEnd(hello.bytes) = 5 + U16(3)
      BY <1>1, Fields DEF WellFormed, Framed, Byte, U16, RecordEnd
    <2>2. \/ pc' = "gate" /\ size' = size /\ size <= 5
          \/ pc' = "session" /\ pos' = 43 /\ size' = 5 + U16(3)
      BY <1>3, <2>1 DEF PeekRecord, Result, Within
    <2>3. size \in Nat
      BY DEF Counts
    <2> QED BY <1>1, <2>1, <2>2, <2>3 DEF Within, Parsing
  <1> QED BY <1>2, <1>3

(* Extensions are there, or the ClientHello has no name.                   *)
LEMMA ExtensionsFind ==
    ASSUME Counts, hello.whole, Within(hello), Extensions
    PROVE  Within(hello)'
  <1> DEFINE s == hello.bytes
  <1>1. hello \in Hellos /\ hello' = hello
    BY DEF Counts, Extensions, peer
  <1>2. pc = "extensions" /\ pos = ExtensionsAt(s) /\ size = RecordEnd(s)
    BY DEF Extensions, Within, Parsing
  <1>3. s \in Seq(0 .. 255) /\ ExtensionsAt(s) \in Nat /\ RecordEnd(s) \in Nat
    BY <1>1, BytesType, Fields
  <1>4. U16At(s, ExtensionsAt(s)) \in Nat
    BY <1>3, AtType
  <1>5. CASE ExtensionsAt(s) = RecordEnd(s) /\ hello.name = << >>
    <2>1. pos + 2 > size
      BY <1>2, <1>3, <1>5
    <2>2. pc' = "gate" /\ sni' = << >>
      BY <2>1 DEF Extensions, Result
    <2> QED BY <1>1, <1>5, <2>2 DEF Within, Parsing
  <1>6. CASE Lists(s, hello.exts, hello.name)
    <2>1. /\ Len(hello.exts) > 0 /\ hello.exts[1] = ExtensionsAt(s) + 2
          /\ ExtensionsAt(s) + 2 + U16At(s, ExtensionsAt(s)) = RecordEnd(s)
      BY <1>6 DEF Lists
    <2>2. ~(pos + 2 > size)
      BY <1>2, <1>3, <1>4, <2>1
    <2>3. /\ pc' = "extension" /\ pos' = pos + 2 /\ size' = size
          /\ extEnd' = MinOf(pos + 2 + U16(pos), size)
      BY <2>2 DEF Extensions
    <2>4. extEnd' = RecordEnd(s) /\ pos' = hello.exts[1]
      BY <1>2, <1>3, <1>4, <2>1, <2>3 DEF MinOf, U16
    <2>5. 1 \in 1 .. Len(hello.exts)
      <3>1. hello.exts \in Seq(Nat)
        BY <1>1, HellosAssumption
      <3> QED BY <2>1, <3>1, LenProperties
    <2>6. AtExtension(hello)'
      BY <1>1, <1>6, <2>4, <2>5 DEF AtExtension
    <2> QED BY <1>1, <1>2, <2>3, <2>6 DEF Within, Parsing
  <1> QED BY <1>1, <1>5, <1>6, Fields DEF WellFormed

(* The loop stops at the first extension that has the name, or at the end. *)
LEMMA ExtensionFinds ==
    ASSUME Counts, hello.whole, Within(hello), Extension
    PROVE  Within(hello)'
  <1> DEFINE s == hello.bytes
             exts == hello.exts
             n == Len(exts)
  <1>1. hello \in Hellos /\ hello' = hello /\ UNCHANGED <<size, extEnd>>
    BY DEF Counts, Extension, peer, Result, Move, ServerName
  <1>2. pc = "extension" /\ AtExtension(hello) /\ size = RecordEnd(s)
    BY DEF Extension, Within, Parsing
  <1>3. PICK k \in 1 .. n : pos = exts[k] /\ \A j \in 1 .. k - 1 : ~Named(s, exts[j])
    BY <1>2 DEF AtExtension
  <1>4. Lists(s, exts, hello.name) /\ extEnd = exts[n] /\ n \in Nat /\ pos \in Nat /\ extEnd \in Nat
    <2>1. exts \in Seq(Nat)
      BY <1>1, HellosAssumption
    <2> QED BY <1>2, <2>1, LenProperties DEF AtExtension, Lists, Counts
  <1>5. CASE k = n
    <2>1. pos + 4 > extEnd
      BY <1>3, <1>4, <1>5
    <2>2. pc' = "gate" /\ sni' = << >>
      BY <2>1 DEF Extension, Result
    <2>3. hello.name = << >>
      BY <1>3, <1>4, <1>5 DEF Lists
    <2> QED BY <1>1, <2>2, <2>3 DEF Within, Parsing
  <1>6. CASE k # n
    <2> DEFINE extLen == U16(pos + 2)
               nameLen == U16(pos + 4 + 2 + 1)
    <2>1. k \in 1 .. n - 1 /\ k + 1 \in 1 .. n /\ k \in Nat
      BY <1>3, <1>4, <1>6
    <2>2. exts[k + 1] = pos + 4 + extLen /\ exts[k + 1] <= extEnd
      BY <1>3, <1>4, <2>1 DEF Lists, U16
    <2>3. extLen \in Nat /\ nameLen \in Nat
      <3>1. pos + 2 \in Nat /\ pos + 4 + 2 + 1 \in Nat
        BY <1>4
      <3> QED BY <1>1, <3>1, ByteType
    <2>4. Named(s, pos) <=> U16(pos) = 0 /\ extLen >= 5
      BY DEF Named, U16
    <2> HIDE DEF extLen, nameLen
    <2>5. ~(pos + 4 > extEnd) /\ ~(pos + 4 + extLen > extEnd)
      BY <1>4, <2>2, <2>3
    <2>6. CASE Named(s, pos)
      <3>1. Carries(s, pos, hello.name)
        BY <1>3, <1>4, <2>1, <2>6 DEF Lists
      <3>2. ServerName(pos + 4, extLen)
        BY <2>4, <2>5, <2>6 DEF Extension, extLen
      <3>3. /\ pos + 4 + 2 = pos + 6 /\ pos + 4 + 2 + 1 = pos + 7
            /\ pos + 4 + 2 + 4 = pos + 10 /\ pos + 4 + 2 + 3 = pos + 9
        BY <1>4
      <3>4. /\ ByteAt(s, pos + 6) = 0 /\ 5 + nameLen <= extLen
            /\ hello.name = SubSeq(s, pos + 10, pos + 9 + nameLen)
        BY <3>1, <3>3 DEF Carries, U16, extLen, nameLen
      <3>5. Byte(pos + 4 + 2) = 0 /\ ~(pos + 4 + 2 + 3 + nameLen > pos + 4 + extLen)
        <4>1. Byte(pos + 4 + 2) = 0
          BY <3>3, <3>4 DEF Byte
        <4>2. ~(pos + 4 + 2 + 3 + nameLen > pos + 4 + extLen)
          BY <1>4, <2>3, <3>4
        <4> QED BY <4>1, <4>2
      <3>6. Result(SubSeq(s, pos + 4 + 2 + 4, pos + 4 + 2 + 3 + nameLen))
        BY <3>2, <3>5 DEF ServerName, nameLen
      <3>7. pc' = "gate" /\ sni' = hello.name
        BY <3>3, <3>4, <3>6 DEF Result
      <3> QED BY <1>1, <3>7 DEF Within, Parsing
    <2>7. CASE ~Named(s, pos)
      <3>1. pc' = "extension" /\ pos' = pos + 4 + extLen
        BY <2>4, <2>5, <2>7 DEF Extension, Move, extLen
      <3>2. pos' = exts[k + 1]
        BY <2>2, <3>1
      <3>3. \A j \in 1 .. (k + 1) - 1 : ~Named(s, exts[j])
        <4>1. \A j \in 1 .. (k + 1) - 1 : j \in 1 .. k - 1 \/ j = k
          BY <2>1
        <4> QED BY <1>3, <2>7, <4>1
      <3>4. AtExtension(hello)'
        BY <1>1, <1>2, <2>1, <3>2, <3>3 DEF AtExtension
      <3> QED BY <1>1, <1>2, <3>1, <3>4 DEF Within, Parsing
    <2> QED BY <2>6, <2>7
  <1> QED BY <1>5, <1>6

LEMMA HelloKept == [Next]_vars => hello' = hello
  BY DEF Next, Handler, PeekSNI, Up, Down, TLSEnd, Arrive, ClientClose, Serve, ServerClose,
     PeekHeader, PeekRecord, SkipSession, SkipCiphers, SkipCompression, Skip, Extensions,
     Extension, Gate, Dial, Spliced, TLSRead, TLSStop, Requests, ReadRequest, RequestHandled,
     UpRead, UpWrite, DownRead, DownWrite, CloseAll, peer, vars

LEMMA NameNext == Counts /\ NameInv /\ [Next]_vars => NameInv'
  <1> SUFFICES ASSUME Counts, NameInv, [Next]_vars, hello.whole PROVE Within(hello)'
    BY HelloKept DEF NameInv
  <1>1. Within(hello)
    BY DEF NameInv
  <1>2. CASE PeekSNI
    BY <1>1, <1>2, PeeksFind, SkipsFind, ExtensionsFind, ExtensionFinds DEF PeekSNI
  <1>3. CASE UNCHANGED <<hello, parser>> /\ (pc' = pc \/ (pc \notin Parsing /\ pc' \notin Parsing))
    BY <1>1, <1>3 DEF Within, AtExtension, parser, Parsing
  <1>4. CASE Elsewhere \/ UNCHANGED vars
    <2>1. UNCHANGED <<hello, parser>> /\ (pc' = pc \/ (pc \notin Parsing /\ pc' \notin Parsing))
      BY <1>4 DEF Elsewhere, Up, Down, TLSEnd, Arrive, ClientClose, Serve, ServerClose, Gate,
         Dial, Spliced, TLSRead, TLSStop, Requests, ReadRequest, RequestHandled, UpRead,
         UpWrite, DownRead, DownWrite, CloseAll, peer, vars, Parsing
    <2> QED BY <1>3, <2>1
  <1> QED BY <1>2, <1>4 DEF Next, Handler, Elsewhere

(* From a record that holds a whole ClientHello, laid out as RFC 8446 has  *)
(* it, PeekSNI returns the name of its server_name extension, wherever     *)
(* among whatever extensions that is and in whatever pieces the bytes      *)
(* arrive, and no name if there is none.                                   *)
THEOREM NameFound == Spec => []FindsName
  <1>1. NameInv => FindsName
    BY DEF NameInv, Within, FindsName
  <1> QED BY <1>1, PeekInductive, NameInit, NameNext, PTL DEF Spec

-----------------------------------------------------------------------------
(* Types.                                                                  *)

(* The rest of TypeOK; a reply that is being written has been sent and not *)
(* been counted yet.                                                       *)
RestInv ==
    /\ clientEnd \in BOOLEAN /\ serverEnd \in BOOLEAN /\ open \in BOOLEAN
    /\ pc \in PCs
    /\ sni \in Seq(0 .. 255) /\ chunk \in Seq(0 .. 255)
    /\ copy \in [Dirs -> {"read", "write", "close", "ended"}]
    /\ replied \in 0 .. MaxReply /\ down \in 0 .. replied
    /\ asked \in 0 .. MaxRequests
    /\ copy["down"] = "write" => down < replied

LEMMA NoBytes == << >> \in Seq(0 .. 255)
  BY EmptySeq

LEMMA Piece == ASSUME NEW s \in Seq(0 .. 255), NEW m \in Nat, m > 0, NEW n \in Int, n <= Len(s)
               PROVE  SubSeq(s, m, n) \in Seq(0 .. 255)
  <1>1. ASSUME NEW i \in m .. n PROVE s[i] \in 0 .. 255
    <2>1. i \in 1 .. Len(s)
      BY LenProperties
    <2> QED BY <2>1, ElementOfSeq
  <1>2. m \in Int
    OBVIOUS
  <1> QED BY <1>1, <1>2, SubSeqProperties

LEMMA RestInit == Init => RestInv
  <1> SUFFICES ASSUME Init PROVE RestInv
    OBVIOUS
  <1>1. sni \in Seq(0 .. 255) /\ chunk \in Seq(0 .. 255)
    BY NoBytes DEF Init
  <1>2. copy \in [Dirs -> {"read", "write", "close", "ended"}] /\ copy["down"] = "read"
    BY DEF Init, Dirs
  <1>3. replied \in 0 .. MaxReply /\ down \in 0 .. replied /\ asked \in 0 .. MaxRequests
    BY BoundsAssumption DEF Init
  <1> QED BY <1>1, <1>2, <1>3 DEF Init, RestInv, PCs, Parsing

(* PeekSNI returns a piece of the data, by PeekSNISafe.                    *)
LEMMA ResultType == ASSUME Inv, Inv', PeekSNI, sni \in Seq(0 .. 255) PROVE sni' \in Seq(0 .. 255)
  <1>1. CASE sni' = sni \/ sni' = << >>
    BY <1>1, NoBytes
  <1>2. CASE Extension /\ ~(sni' = sni \/ sni' = << >>)
    <2> DEFINE p == pos + 4 + 2
               nameLen == U16(p + 1)
    <2>1. /\ sni' = SubSeq(hello.bytes, p + 4, p + 3 + nameLen) /\ top' = p + 3 + nameLen
          /\ pc' = "gate" /\ UNCHANGED <<hello, arrived, buffered>>
      BY <1>2 DEF Extension, ServerName, Result, Move, peer
    <2>2. /\ hello.bytes \in Seq(0 .. 255) /\ Len(hello.bytes) \in Nat
          /\ arrived \in 0 .. Len(hello.bytes) /\ buffered \in 0 .. arrived /\ pos \in Nat
      BY BytesType DEF Inv, Counts
    <2>3. p + 1 \in Nat
      BY <2>2
    <2>4. nameLen \in Nat
      BY <2>3, ByteType DEF Inv, Counts
    <2>5. top' <= size' /\ size' <= buffered' /\ size' \in Nat /\ top' \in Nat
      BY <2>1 DEF Inv, PeekInv, Counts
    <2> HIDE DEF nameLen
    <2>6. p + 4 \in Nat /\ p + 4 > 0 /\ p + 3 + nameLen \in Int /\ p + 3 + nameLen <= Len(hello.bytes)
      BY <2>1, <2>2, <2>4, <2>5
    <2> HIDE DEF p
    <2> QED BY <2>1, <2>2, <2>6, Piece
  <1>3. Extension \/ sni' = sni \/ sni' = << >>
    BY DEF PeekSNI, PeekHeader, PeekRecord, SkipSession, SkipCiphers, SkipCompression, Skip,
       Extensions, Result, Move, parser
  <1> QED BY <1>1, <1>2, <1>3

LEMMA ReadType == ASSUME Inv, Inv', PeekConnRead, hello' = hello PROVE chunk' \in Seq(0 .. 255)
  <1>1. /\ hello.bytes \in Seq(0 .. 255) /\ Len(hello.bytes) \in Nat
        /\ consumed \in Nat /\ consumed' \in 0 .. Len(hello.bytes)
    BY BytesType DEF Inv, Counts, StreamInv
  <1>2. /\ consumed + 1 \in Nat /\ consumed + 1 > 0
        /\ consumed' \in Int /\ consumed' <= Len(hello.bytes)
    BY <1>1
  <1>3. chunk' = SubSeq(hello.bytes, consumed + 1, consumed')
    BY DEF PeekConnRead
  <1> QED BY <1>1, <1>2, <1>3, Piece

LEMMA RestNext == ASSUME Inv, Inv', RestInv, [Next]_vars PROVE RestInv'
  <1> HIDE DEF Inv
  <1>1. MaxReply \in Nat /\ replied \in Nat /\ down \in Nat
    BY BoundsAssumption DEF RestInv
  <1>2. hello' = hello
    BY HelloKept
  <1>3. sni' \in Seq(0 .. 255)
    <2>1. PeekSNI \/ sni' = sni
      BY DEF Next, Handler, Up, Down, TLSEnd, Arrive, ClientClose, Serve, ServerClose, Gate, Dial,
         Spliced, TLSRead, TLSStop, Requests, ReadRequest, RequestHandled, UpRead, UpWrite,
         DownRead, DownWrite, CloseAll, parser, vars
    <2> QED BY <2>1, ResultType DEF RestInv
  <1>4. chunk' \in Seq(0 .. 255)
    <2>1. PeekConnRead \/ chunk' = chunk \/ chunk' = << >>
      BY DEF Next, Handler, PeekSNI, Up, Down, TLSEnd, Arrive, ClientClose, Serve, ServerClose,
         PeekHeader, PeekRecord, SkipSession, SkipCiphers, SkipCompression, Skip, Extensions,
         Extension, Gate, Dial, Spliced, TLSRead, TLSStop, Requests, ReadRequest,
         RequestHandled, UpRead, UpWrite, DownRead, DownWrite, CloseAll, relay, vars
    <2> QED BY <1>2, <2>1, ReadType, NoBytes DEF RestInv
  <1>5. clientEnd' \in BOOLEAN /\ serverEnd' \in BOOLEAN /\ open' \in BOOLEAN
    <2>1. CASE PeekSNI
      <3>1. UNCHANGED <<clientEnd, serverEnd, open>>
        BY <2>1 DEF PeekSNI, PeekHeader, PeekRecord, SkipSession, SkipCiphers, SkipCompression,
           Skip, Extensions, Extension, peer, relay
      <3> QED BY <3>1 DEF RestInv
    <2>2. CASE Elsewhere \/ UNCHANGED vars
      <3>1. /\ clientEnd' = clientEnd \/ clientEnd' = TRUE
            /\ serverEnd' = serverEnd \/ serverEnd' = TRUE
            /\ open' = open \/ open' = FALSE
        BY <2>2 DEF Elsewhere, Up, Down, TLSEnd, Arrive, ClientClose, Serve, ServerClose, Gate,
           Dial, Spliced, TLSRead, TLSStop, Requests, ReadRequest, RequestHandled, UpRead,
           UpWrite, DownRead, DownWrite, CloseAll, peer, relay, vars
      <3> QED BY <3>1 DEF RestInv
    <2> QED BY <2>1, <2>2 DEF Next, Handler, Elsewhere
  <1>6. pc' \in PCs
    <2>1. CASE PeekSNI
      BY <2>1 DEF PeekSNI, PeekHeader, PeekRecord, SkipSession, SkipCiphers, SkipCompression, Skip,
         Extensions, Extension, ServerName, Result, Move, PCs, Parsing
    <2>2. CASE pc' = pc \/ pc' \in {"dial", "mitm", "request", "splice", "done"}
      BY <2>2 DEF RestInv, PCs
    <2>3. PeekSNI \/ pc' = pc \/ pc' \in {"dial", "mitm", "request", "splice", "done"}
      BY DEF Next, Handler, Up, Down, TLSEnd, Arrive, ClientClose, Serve, ServerClose, Gate, Dial,
         Spliced, TLSRead, TLSStop, Requests, ReadRequest, RequestHandled, UpRead, UpWrite,
         DownRead, DownWrite, CloseAll, vars
    <2> QED BY <2>1, <2>2, <2>3
  <1>7. /\ copy' \in [Dirs -> {"read", "write", "close", "ended"}]
        /\ replied' \in 0 .. MaxReply /\ down' \in 0 .. replied'
        /\ copy'["down"] = "write" => down' < replied'
    <2> USE DEF RestInv
    <2>1. CASE UNCHANGED <<copy, replied, down>>
      BY <2>1
    <2>2. CASE Serve
      <3>1. replied' = replied + 1 /\ UNCHANGED <<copy, down>> /\ replied < MaxReply
        BY <2>2 DEF Serve, relay
      <3> QED BY <1>1, <3>1
    <2>3. CASE UpRead \/ UpWrite \/ CloseAll("up")
      <3>1. /\ UNCHANGED <<replied, down>>
            /\ \E v \in {"read", "write", "close", "ended"} : copy' = [copy EXCEPT !["up"] = v]
        BY <2>3 DEF UpRead, UpWrite, CloseAll, peer
      <3> QED BY <1>1, <3>1 DEF Dirs
    <2>4. CASE DownRead
      <3>1. /\ UNCHANGED <<replied, down>>
            /\ copy' = [copy EXCEPT !["down"] = IF open /\ down < replied THEN "write" ELSE "close"]
        BY <2>4 DEF DownRead, peer
      <3> QED BY <1>1, <3>1 DEF Dirs
    <2>5. CASE DownWrite
      <3>1. /\ copy["down"] = "write" /\ replied' = replied
            /\ \/ down' = down + 1 /\ copy' = [copy EXCEPT !["down"] = "read"]
               \/ down' = down /\ copy' = [copy EXCEPT !["down"] = "close"]
        BY <2>5 DEF DownWrite, peer
      <3> QED BY <1>1, <3>1 DEF Dirs
    <2>6. CASE CloseAll("down")
      <3>1. UNCHANGED <<replied, down>> /\ copy' = [copy EXCEPT !["down"] = "ended"]
        BY <2>6 DEF CloseAll, peer
      <3> QED BY <1>1, <3>1 DEF Dirs
    <2>7. Serve \/ Up \/ Down \/ UNCHANGED <<copy, replied, down>>
      BY DEF Next, Handler, PeekSNI, TLSEnd, Arrive, ClientClose, ServerClose, PeekHeader,
         PeekRecord, SkipSession, SkipCiphers, SkipCompression, Skip, Extensions, Extension, Gate,
         Dial, Spliced, TLSRead, TLSStop, Requests, ReadRequest, RequestHandled, peer, relay, vars
    <2> QED BY <2>1, <2>2, <2>3, <2>4, <2>5, <2>6, <2>7 DEF Up, Down
  <1>8. asked' \in 0 .. MaxRequests
    <2>1. CASE asked' = asked
      BY <2>1 DEF RestInv
    <2>2. CASE ReadRequest
      BY <2>2, BoundsAssumption DEF ReadRequest, RestInv
    <2>3. asked' = asked \/ ReadRequest
      BY DEF Next, Handler, PeekSNI, Up, Down, TLSEnd, Arrive, ClientClose, Serve, ServerClose,
         PeekHeader, PeekRecord, SkipSession, SkipCiphers, SkipCompression, Skip, Extensions,
         Extension, Gate, Dial, Spliced, TLSRead, TLSStop, Requests, RequestHandled, UpRead,
         UpWrite, DownRead, DownWrite, CloseAll, relay, vars
    <2> QED BY <2>1, <2>2, <2>3
  <1> QED BY <1>3, <1>4, <1>5, <1>6, <1>7, <1>8 DEF RestInv

(* The state is well-typed: in particular nothing is read before it        *)
(* arrived, and a splice passes no more bytes to the client than the       *)
(* server sent.                                                            *)
THEOREM TypeCorrect == Spec => []TypeOK
  <1>1. Init => Inv /\ RestInv
    BY PeekInit, StreamInit, RestInit DEF Inv
  <1>2. Inv /\ RestInv /\ [Next]_vars => Inv' /\ RestInv'
    BY StreamNext, RestNext
  <1>3. Inv /\ RestInv => TypeOK
    <2> SUFFICES ASSUME Inv, RestInv PROVE TypeOK
      OBVIOUS
    <2>1. up \in Seq(0 .. 255)
      <3>1. hello.bytes \in Seq(0 .. 255) /\ Len(hello.bytes) \in Nat
        BY BytesType DEF Inv, Counts
      <3>2. PICK k \in 0 .. Len(hello.bytes) : up = SubSeq(hello.bytes, 1, k)
        BY DEF Inv, StreamInv, Taken
      <3>3. 1 \in Nat /\ 1 > 0 /\ k \in Int /\ k <= Len(hello.bytes)
        BY <3>1
      <3> QED BY <3>1, <3>2, <3>3, Piece
    <2> QED BY <2>1 DEF Inv, Counts, StreamInv, RestInv, TypeOK
  <1> QED BY <1>1, <1>2, <1>3, PTL DEF Spec
=============================================================================
