------------------------------ MODULE TLSConn ------------------------------
(***************************************************************************)
(* One connection to port 443 in the proxy, byte by byte: handleTLSConn    *)
(* peeks at the ClientHello (PeekSNI of internal/tlsmitm/sni.go), and then *)
(* terminates TLS or splices the connection to its destination (spliceTo,  *)
(* Splice of splice.go), in both cases through a peekConn, so that what    *)
(* was peeked is read again.  Which of the two is chosen is Proxy's        *)
(* subject; here it is arbitrary.                                          *)
(*                                                                         *)
(* Bytes of the client arrive in pieces, and client and server may close   *)
(* at any time.  Replies are counted, their contents do not matter.        *)
(***************************************************************************)
EXTENDS Integers, Sequences

CONSTANTS Hellos,     \* what clients send: bytes, and if whole is TRUE, a
                      \* single record with a ClientHello for name, whose
                      \* extensions are delimited by the offsets in exts
          BufSize,    \* the size of a bufio.Reader, 4096
          Cuts,       \* where the network, or a reader with a small buffer,
                      \* may cut the client's bytes into pieces
          MaxReply,   \* bound on the bytes of the server
          MaxRequests \* bound on the requests of a terminated connection

(* data[i], data[i:i+2]; an index out of range is what NoPanic excludes.   *)
ByteAt(s, i) == IF i < Len(s) THEN s[i + 1] ELSE 0
U16At(s, i) == 256 * ByteAt(s, i) + ByteAt(s, i + 1)

(* A ClientHello as RFC 8446 (4.1.2) lays it out: session id, ciphers,     *)
(* compression methods and, unless it ends there, extensions.              *)
CiphersAt(s) == 44 + ByteAt(s, 43)
CompressionAt(s) == CiphersAt(s) + 2 + U16At(s, CiphersAt(s))
ExtensionsAt(s) == CompressionAt(s) + 1 + ByteAt(s, CompressionAt(s))
RecordEnd(s) == 5 + U16At(s, 3)

Framed(s) == /\ ByteAt(s, 0) = 22 /\ U16At(s, 3) <= 16384 /\ ByteAt(s, 5) = 1
             /\ ExtensionsAt(s) <= RecordEnd(s) /\ RecordEnd(s) <= Len(s)

(* A server_name extension (RFC 6066, 3) that is not empty, and its name.  *)
Named(s, at) == U16At(s, at) = 0 /\ U16At(s, at + 2) >= 5
Carries(s, at, name) == /\ ByteAt(s, at + 6) = 0
                        /\ 5 + U16At(s, at + 7) <= U16At(s, at + 2)
                        /\ name = SubSeq(s, at + 10, at + 9 + U16At(s, at + 7))

(* The extensions fill the record; the first that is Named carries name.   *)
Lists(s, exts, name) ==
    LET n == Len(exts) IN
    /\ n > 0 /\ exts[1] = ExtensionsAt(s) + 2 /\ exts[n] = RecordEnd(s)
    /\ exts[1] + U16At(s, ExtensionsAt(s)) = exts[n]
    /\ \A k \in 1 .. n - 1 : /\ exts[k + 1] = exts[k] + 4 + U16At(s, exts[k] + 2)
                             /\ exts[k + 1] <= exts[n]
    /\ \A k \in 1 .. n - 1 : Named(s, exts[k]) /\ (\A j \in 1 .. k - 1 : ~Named(s, exts[j]))
                               => Carries(s, exts[k], name)
    /\ (\A k \in 1 .. n - 1 : ~Named(s, exts[k])) => name = << >>

WellFormed(h) == /\ Framed(h.bytes)
                 /\ \/ ExtensionsAt(h.bytes) = RecordEnd(h.bytes) /\ h.name = << >>
                    \/ Lists(h.bytes, h.exts, h.name)

ASSUME HellosAssumption ==
    Hellos \subseteq [bytes : Seq(0 .. 255), whole : BOOLEAN, name : Seq(0 .. 255), exts : Seq(Nat)]
ASSUME WholeAssumption == \A h \in Hellos : h.whole => WellFormed(h)
ASSUME BoundsAssumption == BufSize \in Nat /\ BufSize >= 16 /\ MaxReply \in Nat
                           /\ MaxRequests \in Nat /\ Cuts \subseteq Nat

VARIABLES
    hello,      \* the bytes of this client
    arrived,    \* how many of them have reached the socket
    buffered,   \* how many of them the bufio.Reader br has taken from it
    consumed,   \* how many of them have been read from br
    clientEnd, serverEnd,   \* client, server has closed
    pc,         \* where the handler is
    size,       \* len(data), the bytes PeekSNI may look at
    pos, extEnd,  \* its local variables
    top,        \* the end of the bytes that it looked at last
    sni,        \* its result
    copy,       \* the two goroutines of Splice
    chunk,      \* what they have read and not yet written
    up, down, replied,   \* bytes passed on upstream, to the client; sent by the server
    open,       \* the proxy has not closed its ends
    asked       \* requests read from a terminated connection

peer == <<hello, arrived, clientEnd, serverEnd, replied>>
parser == <<size, pos, extEnd, top, sni>>
relay == <<consumed, copy, chunk, up, down, open, asked>>
vars == <<peer, parser, relay, buffered, pc>>

Parsing == {"header", "record", "session", "ciphers", "compression", "extensions", "extension"}
PCs == Parsing \cup {"gate", "dial", "splice", "mitm", "request", "done"}
Dirs == {"up", "down"}

(* Nothing is read before it arrived, and the client gets no more bytes    *)
(* than the server sent.                                                   *)
TypeOK == /\ hello \in Hellos
          /\ arrived \in 0 .. Len(hello.bytes) /\ buffered \in 0 .. arrived
          /\ consumed \in 0 .. arrived
          /\ clientEnd \in BOOLEAN /\ serverEnd \in BOOLEAN /\ open \in BOOLEAN
          /\ pc \in PCs
          /\ size \in Nat /\ pos \in Nat /\ extEnd \in Nat /\ top \in Nat
          /\ sni \in Seq(0 .. 255)
          /\ copy \in [Dirs -> {"read", "write", "close", "ended"}]
          /\ chunk \in Seq(0 .. 255) /\ up \in Seq(0 .. 255)
          /\ replied \in 0 .. MaxReply /\ down \in 0 .. replied
          /\ asked \in 0 .. MaxRequests

Init == /\ hello \in Hellos
        /\ arrived = 0 /\ buffered = 0 /\ consumed = 0 /\ replied = 0 /\ down = 0
        /\ asked = 0
        /\ clientEnd = FALSE /\ serverEnd = FALSE /\ open = TRUE
        /\ pc = "header"
        /\ size = 0 /\ pos = 0 /\ extEnd = 0 /\ top = 0
        /\ sni = << >> /\ chunk = << >> /\ up = << >>
        /\ copy = [d \in Dirs |-> "read"]

-----------------------------------------------------------------------------
(* The peers.                                                              *)

Arrive == /\ ~clientEnd /\ pc # "done"
          /\ \E n \in Cuts \cup {Len(hello.bytes)} :
               arrived < n /\ n <= Len(hello.bytes) /\ arrived' = n
          /\ UNCHANGED <<hello, clientEnd, serverEnd, replied, parser, relay, buffered, pc>>

ClientClose == /\ ~clientEnd
               /\ clientEnd' = TRUE
               /\ UNCHANGED <<hello, arrived, serverEnd, replied, parser, relay, buffered, pc>>

Serve == /\ pc = "splice" /\ ~serverEnd /\ replied < MaxReply
         /\ replied' = replied + 1
         /\ UNCHANGED <<hello, arrived, clientEnd, serverEnd, parser, relay, buffered, pc>>

ServerClose == /\ pc = "splice" /\ ~serverEnd
               /\ serverEnd' = TRUE
               /\ UNCHANGED <<hello, arrived, clientEnd, replied, parser, relay, buffered, pc>>

-----------------------------------------------------------------------------
(* PeekSNI.  bufio.Reader.Peek(n) returns when the buffer holds n bytes, or *)
(* fails when it is full or the connection has ended before that.          *)

MinOf(a, b) == IF a <= b THEN a ELSE b

CanPeek(n) == MinOf(arrived, BufSize) >= n
PeekFails(n) == ~CanPeek(n) /\ (clientEnd \/ arrived >= BufSize)
Fill == buffered' = MinOf(arrived, BufSize)

Byte(i) == ByteAt(hello.bytes, i)
U16(i) == U16At(hello.bytes, i)

(* Return a name, or none.                                                 *)
Result(name) == /\ sni' = name
                /\ pc' = "gate"
                /\ UNCHANGED <<size, pos, extEnd>>

Move(l, p) == pc' = l /\ pos' = p /\ UNCHANGED <<size, extEnd, sni>>

PeekHeader ==
    /\ pc = "header"
    /\ Fill
    /\ \/ PeekFails(5) /\ pc' = "dial" /\ UNCHANGED parser
       \/ /\ CanPeek(5)
          /\ top' = 5 /\ size' = 5
          /\ pc' = IF Byte(0) = 22 /\ U16(3) <= 16384 THEN "record" ELSE "gate"
          /\ UNCHANGED <<pos, extEnd, sni>>
    /\ UNCHANGED <<peer, relay>>

PeekRecord ==
    LET n == 5 + U16(3) IN
    /\ pc = "record"
    /\ Fill
    /\ \/ /\ PeekFails(n) \/ (CanPeek(n) /\ n < 9)
          /\ Result(<< >>) /\ UNCHANGED top
       \/ /\ CanPeek(n) /\ n >= 9
          /\ size' = n /\ top' = 6
          /\ IF Byte(5) = 1 THEN pc' = "session" /\ pos' = 43
                            ELSE pc' = "gate" /\ UNCHANGED pos
          /\ UNCHANGED <<extEnd, sni>>
    /\ UNCHANGED <<peer, relay>>

\* Mutant: the length field is not checked to be within the record.
SkipUnchecked(at, width, next) ==
    /\ pc = at
    /\ top' = pos + width
    /\ Move(next, pos + width + (IF width = 1 THEN Byte(pos) ELSE U16(pos)))
    /\ UNCHANGED <<peer, relay, buffered>>

\* Mutant: the length field itself is not skipped.
SkipShort(at, width, next) ==
    /\ pc = at
    /\ IF pos + width > size
       THEN Result(<< >>) /\ UNCHANGED top
       ELSE /\ top' = pos + width
            /\ Move(next, pos + (IF width = 1 THEN Byte(pos) ELSE U16(pos)))
    /\ UNCHANGED <<peer, relay, buffered>>

(* Skip a field of variable length, whose length takes width bytes.        *)
Skip(at, width, next) ==
    /\ pc = at
    /\ IF pos + width > size
       THEN Result(<< >>) /\ UNCHANGED top
       ELSE /\ top' = pos + width
            /\ Move(next, pos + width + (IF width = 1 THEN Byte(pos) ELSE U16(pos)))
    /\ UNCHANGED <<peer, relay, buffered>>

SkipSession == Skip("session", 1, "ciphers")
SkipCiphers == Skip("ciphers", 2, "compression")
SkipCompression == Skip("compression", 1, "extensions")

Extensions ==
    /\ pc = "extensions"
    /\ IF pos + 2 > size
       THEN Result(<< >>) /\ UNCHANGED top
       ELSE /\ top' = pos + 2
            /\ extEnd' = MinOf(pos + 2 + U16(pos), size)
            /\ pc' = "extension" /\ pos' = pos + 2
            /\ UNCHANGED <<size, sni>>
    /\ UNCHANGED <<peer, relay, buffered>>

(* server_name_list of the extension of length extLen at body.             *)
ServerName(body, extLen) ==
    LET p == body + 2
        nameLen == U16(p + 1)
    IN IF Byte(p) # 0
       THEN Result(<< >>) /\ top' = p + 1
       ELSE IF p + 3 + nameLen > body + extLen
       THEN Result(<< >>) /\ top' = p + 3
       ELSE /\ Result(SubSeq(hello.bytes, p + 4, p + 3 + nameLen))
            /\ top' = p + 3 + nameLen

(* One iteration of the loop over the extensions.                          *)
Extension ==
    LET extLen == U16(pos + 2)
        body == pos + 4
    IN /\ pc = "extension"
       /\ IF body > extEnd
          THEN Result(<< >>) /\ UNCHANGED top
          ELSE IF body + extLen > extEnd
          THEN Result(<< >>) /\ top' = body
          ELSE IF U16(pos) = 0 /\ extLen >= 5
          THEN ServerName(body, extLen)
          ELSE Move("extension", body + extLen) /\ top' = body
       /\ UNCHANGED <<peer, relay, buffered>>

PeekSNI == \/ PeekHeader \/ PeekRecord \/ SkipSession \/ SkipCiphers
           \/ SkipCompression \/ Extensions \/ Extension

-----------------------------------------------------------------------------
(* handleTLSConn after PeekSNI.                                            *)

Gate == /\ pc = "gate"
        /\ pc' \in {"dial", "mitm"}
        /\ UNCHANGED <<peer, parser, relay, buffered>>

(* spliceTo: a dial that fails ends the handler, which closes conn.        *)
Dial == /\ pc = "dial"
        /\ \/ pc' = "splice" /\ UNCHANGED open
           \/ pc' = "done" /\ open' = FALSE
        /\ UNCHANGED <<peer, parser, buffered, consumed, copy, chunk, up, down, asked>>

\* Mutant: the socket is read, not the reader that holds what was peeked.
ReadSocket ==
    /\ buffered < arrived
    /\ buffered' = arrived /\ consumed' = arrived
    /\ chunk' = SubSeq(hello.bytes, buffered + 1, arrived)

(* peekConn.Read: first what br holds, then what the socket has, as much   *)
(* of it as the caller has room for.                                       *)
PeekConnRead ==
    /\ consumed < arrived
    /\ buffered' \in IF consumed < buffered THEN {buffered}
                     ELSE (buffered + 1 .. arrived) \cap (Cuts \cup {arrived})
    /\ consumed' \in (consumed + 1 .. buffered') \cap (Cuts \cup {buffered'})
    /\ chunk' = SubSeq(hello.bytes, consumed + 1, consumed')

(* io.Copy(b, a): from the client upstream.  A read fails at the end of the *)
(* client or after closeAll, a write when the server or closeAll closed.   *)
UpRead == /\ pc = "splice" /\ copy["up"] = "read"
          /\ \/ /\ open /\ PeekConnRead
                /\ copy' = [copy EXCEPT !["up"] = "write"]
             \/ /\ ~open \/ (clientEnd /\ consumed = arrived)
                /\ copy' = [copy EXCEPT !["up"] = "close"]
                /\ UNCHANGED <<buffered, consumed, chunk>>
          /\ UNCHANGED <<peer, parser, pc, up, down, open, asked>>

UpWrite == /\ pc = "splice" /\ copy["up"] = "write"
           /\ \/ /\ open /\ up' = up \o chunk
                 /\ copy' = [copy EXCEPT !["up"] = "read"]
              \/ /\ ~open \/ serverEnd
                 /\ copy' = [copy EXCEPT !["up"] = "close"]
                 /\ UNCHANGED up
           /\ chunk' = << >>
           /\ UNCHANGED <<peer, parser, pc, buffered, consumed, down, open, asked>>

(* io.Copy(a, b): from the server to the client.                           *)
DownRead == /\ pc = "splice" /\ copy["down"] = "read"
            /\ copy' = [copy EXCEPT !["down"] =
                          IF open /\ down < replied THEN "write" ELSE "close"]
            /\ ~open \/ serverEnd \/ down < replied
            /\ UNCHANGED <<peer, parser, pc, buffered, consumed, chunk, up, down, open, asked>>

\* Mutant: a chunk that has been written is not dropped.
DownRewrite == /\ pc = "splice" /\ copy["down"] = "write" /\ open
               /\ down' = down + 1
               /\ UNCHANGED <<peer, parser, pc, buffered, consumed, copy, chunk, up, open, asked>>

DownWrite == /\ pc = "splice" /\ copy["down"] = "write"
             /\ \/ /\ open /\ down' = down + 1
                   /\ copy' = [copy EXCEPT !["down"] = "read"]
                \/ /\ ~open \/ clientEnd
                   /\ copy' = [copy EXCEPT !["down"] = "close"]
                   /\ UNCHANGED down
             /\ UNCHANGED <<peer, parser, pc, buffered, consumed, chunk, up, open, asked>>

\* Mutant: a copy that ends leaves the connections open.
CloseNothing(d) == /\ pc = "splice" /\ copy[d] = "close"
                   /\ copy' = [copy EXCEPT ![d] = "ended"]
                   /\ UNCHANGED <<peer, parser, pc, buffered, consumed, chunk, up, down, open, asked>>

(* closeAll: the first copy to end closes both connections, which ends the *)
(* other.                                                                  *)
CloseAll(d) == /\ pc = "splice" /\ copy[d] = "close"
               /\ copy' = [copy EXCEPT ![d] = "ended"]
               /\ open' = FALSE
               /\ UNCHANGED <<peer, parser, pc, buffered, consumed, chunk, up, down, asked>>

Spliced == /\ pc = "splice" /\ \A d \in Dirs : copy[d] = "ended"
           /\ pc' = "done"
           /\ UNCHANGED <<peer, parser, relay, buffered>>

(* tls.Server over the peekConn: up is what the TLS stack has read, for    *)
(* the handshake, a request or, in handleRequest, a request's body.        *)
TLSRead(at) == /\ pc = at /\ PeekConnRead
               /\ up' = up \o chunk'
               /\ UNCHANGED <<peer, parser, pc, copy, down, open, asked>>

(* The loop over the requests: handleRequest returns when the upstream,    *)
(* which it reads from without a deadline, has answered or failed.  Of     *)
(* Connection: close it is only said that the connection may then end.     *)
ReadRequest == /\ pc = "mitm" /\ consumed > 0 /\ asked < MaxRequests
               /\ pc' = "request" /\ asked' = asked + 1
               /\ UNCHANGED <<peer, parser, buffered, consumed, copy, chunk, up, down, open>>

RequestHandled == /\ pc = "request"
                  /\ \/ pc' = "mitm" /\ UNCHANGED open
                     \/ pc' = "done" /\ open' = FALSE
                  /\ UNCHANGED <<peer, parser, buffered, consumed, copy, chunk, up, down, asked>>

(* Handshake or ReadRequest fails: with the end of the client, or before.  *)
TLSStop == /\ pc = "mitm"
           /\ pc' = "done" /\ open' = FALSE
           /\ UNCHANGED <<peer, parser, buffered, consumed, copy, chunk, up, down, asked>>

TLSEnd == clientEnd /\ consumed = arrived /\ TLSStop

(* What the handler does by itself.                                        *)
Handler == \/ PeekSNI \/ Gate \/ Dial \/ Spliced \/ TLSRead("mitm") \/ TLSEnd

(* What depends on what the client and the upstream sent.                  *)
Requests == ReadRequest \/ RequestHandled \/ TLSRead("request") \/ TLSStop

Up == UpRead \/ UpWrite \/ CloseAll("up")
Down == DownRead \/ DownWrite \/ CloseAll("down")

Next == Arrive \/ ClientClose \/ Serve \/ ServerClose \/ Handler \/ Requests \/ Up \/ Down

Spec == Init /\ [][Next]_vars

(* Goroutines run and writes complete, that is, peers read what they are   *)
(* sent until they close; nobody has to send or to close, and a server     *)
(* need not answer a request.                                              *)
LiveSpec == Spec /\ WF_vars(Handler) /\ WF_vars(Up) /\ WF_vars(Down)

-----------------------------------------------------------------------------
(* PeekSNI looks at no byte behind the data that Peek returned, whatever   *)
(* lengths a ClientHello claims: an index out of range panics, and a panic *)
(* of one connection's goroutine ends the whole process.                   *)
NoPanic == pc \in Parsing \cup {"gate"} => top <= size /\ size <= buffered

(* The name PeekSNI finds in a record that holds a whole ClientHello is    *)
(* the one its sender put there, however the bytes arrive, wherever the    *)
(* extension is, and none if there is none.                                *)
FindsName == hello.whole /\ size > 5 /\ pc \notin Parsing => sni = hello.name

(* What the upstream server, or the TLS stack, reads is what the client    *)
(* sent from its first byte on: peeking took nothing away.                 *)
StreamIntact == up = SubSeq(hello.bytes, 1, Len(up))

(* A handler whose client has closed ends, and so does a splice whose      *)
(* server has closed, unless it is held for ever by a request that its     *)
(* upstream does not answer: there fetchUpstream has no deadline.          *)
HandlerEnds == (clientEnd \/ serverEnd) ~> (pc = "done" \/ [](pc = "request"))
=============================================================================
