------------------------------- MODULE Framing -------------------------------
(***************************************************************************)
(* How the bridge cuts the bytes of a connection into packets.  A packet   *)
(* is a size and as many bytes of zlib; the first bytes of a connection    *)
(* that a trusted proxy forwards are a line about whom it is for.          *)
(*                                                                         *)
(* recv returns any part of what has arrived, up to the bytes asked for,   *)
(* and nothing if the connection is closed, by the peer or by a thread of  *)
(* the bridge.  A byte is known by the packet and the place it comes from. *)
(* cause does not exist in the program: it says why the handler has ended. *)
(***************************************************************************)
EXTENDS Integers, Sequences, FiniteSets

CONSTANTS SizeBytes,         \* size_pack.size
          MAX_ALLOWED_PACKET_SIZE,
          HeaderBytes,       \* 107
          Streams            \* bound: what peers may send

\* A stream: is there a line of the proxy, is it in order, how long is it beyond
\* its first bytes; the packets, by their size, and whether zlib can make sense
\* of them; the handler, which may answer one packet and disconnect.
ASSUME FramingAssumption ==
  /\ SizeBytes \in Nat \ {0} /\ MAX_ALLOWED_PACKET_SIZE \in Nat /\ HeaderBytes \in Nat \ {0}
  /\ \A s \in Streams :
       /\ s.proxied \in BOOLEAN /\ s.trusted \in BOOLEAN /\ s.proper \in BOOLEAN /\ s.filler \in Nat
       /\ s.packets \in Seq([size : 0 .. MAX_ALLOWED_PACKET_SIZE + 1, good : BOOLEAN])
       /\ s.oneshot \in BOOLEAN

VARIABLES stream,
          sent, got,  \* bytes that the peer has sent, and that were received
          open,       \* the connection
          reader,     \* the thread in handle()
          handled,    \* packets that on_packet was given
          farewells   \* calls of on_disconnect

fvars == <<stream, sent, got, open, reader, handled, farewells>>

Byte(part, p, i) == [part |-> part, of |-> p, at |-> i]
Part(part, p, n) == [i \in 1 .. n |-> Byte(part, p, i)]
Front(s, n) == SubSeq(s, 1, n)
Back(s, n) == SubSeq(s, n + 1, Len(s))
smaller(m, n) == IF m < n THEN m ELSE n
Packets == DOMAIN stream.packets

\* ZlibPacketHandler.send and judge_request
frame(s, p) == Part("size", p, SizeBytes) \o Part("body", p, s.packets[p].size)
ProxyLine(s) ==
  IF s.proxied THEN Part("PROX", 0, SizeBytes) \o Part("words", 0, s.filler) \o <<Byte("cr", 0, 1), Byte("lf", 0, 1)>>
  ELSE <<>>
Bytes(s) ==
  LET upto[p \in 0 .. Len(s.packets)] == IF p = 0 THEN ProxyLine(s) ELSE upto[p - 1] \o frame(s, p)
  IN  upto[Len(s.packets)]
wire == SubSeq(Bytes(stream), got + 1, sent)

\* size_pack.unpack.  Bytes that are no size, like PROX, make a large number.
unpack(bytes) ==
  IF \E p \in Packets : bytes = Part("size", p, SizeBytes) THEN stream.packets[bytes[1].of].size
  ELSE MAX_ALLOWED_PACKET_SIZE + 1
\* zlib.decompress
Inflates(bytes) == \E p \in Packets : bytes = Part("body", p, stream.packets[p].size) /\ stream.packets[p].good /\ bytes # <<>>

\* The reader is after a size, the body of a packet or the end of the proxy's
\* line.  rest: what came with that line; tagged: the first size has been read;
\* short: what came with it was less than a size.
Reading(at) == [at |-> at, buffer |-> <<>>, size |-> 0, tagged |-> TRUE, short |-> FALSE, cause |-> "none"]
Gone(cause) == [Reading("gone") EXCEPT !.cause = cause]
-----------------------------------------------------------------------------
FramingTypeOK ==
  /\ stream \in Streams /\ open \in BOOLEAN
  /\ reader.at \in {"size", "body", "header", "rest", "spinning", "gone"}
  /\ handled \in Seq(Packets) /\ farewells \in 0 .. 1

FramingInit ==
  /\ stream \in Streams /\ sent = Len(Bytes(stream)) /\ got = 0
  /\ open = TRUE /\ handled = <<>> /\ farewells = 0
  /\ reader = [Reading("size") EXCEPT !.tagged = FALSE]

\* The metaclass: on_disconnect is called however handle() ends.
Goes(r) == reader' = r /\ farewells' = IF r.at = "gone" THEN farewells + 1 ELSE farewells
Ends(cause) == Goes(Gone(cause))
Receives(k) == got' = got + k /\ UNCHANGED <<stream, sent, open>>

\* _on_packet, and where reading goes on.  A judge's on_packet answers for its
\* errors itself; the web's sends one answer and raises Disconnect.
OnPacket(bytes, next) ==
  IF ~Inflates(bytes) THEN Ends("zlib error") /\ UNCHANGED handled
  ELSE /\ handled' = Append(handled, bytes[1].of)
       /\ IF stream.oneshot THEN Ends("answered") ELSE Goes(next)

\* read_sized_packet up to its first recv.  A packet of nothing needs none.
StartPacket(size, initial, short) ==
  IF size > MAX_ALLOWED_PACKET_SIZE THEN Ends("too large")
  ELSE Goes([Reading("body") EXCEPT !.size = size, !.buffer = initial, !.short = short])

\* read_size; handle() for the first.
ReadSize ==
  /\ reader.at = "size" /\ wire # <<>>
  /\ \E k \in 1 .. smaller(SizeBytes - Len(reader.buffer), Len(wire)) :
       LET buffer == reader.buffer \o Front(wire, k)
       IN  /\ Receives(k)
           /\ IF Len(buffer) < SizeBytes THEN Goes([reader EXCEPT !.buffer = buffer])
              ELSE IF ~reader.tagged /\ stream.trusted /\ buffer = Part("PROX", 0, SizeBytes)
                   THEN Goes([Reading("header") EXCEPT !.buffer = buffer])
              ELSE StartPacket(unpack(buffer), <<>>, reader.short)
  /\ UNCHANGED handled

\* read_proxy_header, and parse_proxy_protocol of the line.
Lines(bytes) == {i \in 2 .. Len(bytes) : bytes[i - 1].part = "cr" /\ bytes[i].part = "lf"}

ReadHeader ==
  /\ reader.at = "header"
  /\ IF Lines(reader.buffer) # {}
     THEN /\ IF stream.proper
             THEN Goes([Reading("rest") EXCEPT !.buffer = Back(reader.buffer, CHOOSE i \in Lines(reader.buffer) : TRUE)])
             ELSE Ends("no proxy")
          /\ UNCHANGED <<stream, sent, got, open>>
     ELSE IF Len(reader.buffer) > HeaderBytes THEN Ends("no proxy") /\ UNCHANGED <<stream, sent, got, open>>
     ELSE /\ wire # <<>>
          /\ \E k \in 1 .. smaller(HeaderBytes, Len(wire)) :
               Receives(k) /\ Goes([reader EXCEPT !.buffer = @ \o Front(wire, k)])
  /\ UNCHANGED handled

\* Broken: one byte is taken twice.
CutRestShort ==
  LET rest == Back(reader.buffer, SizeBytes)
      size == unpack(Front(reader.buffer, SizeBytes))
  IN  OnPacket(Front(rest, size), [Reading("rest") EXCEPT !.buffer = Back(rest, size - 1)])

\* A packet that came whole with the line.
CutRest ==
  LET rest == Back(reader.buffer, SizeBytes)
      size == unpack(Front(reader.buffer, SizeBytes))
  IN  OnPacket(Front(rest, size), [Reading("rest") EXCEPT !.buffer = Back(rest, size)])

\* What came with the line.  Less than a size is made one, and its packet read;
\* then the loop goes on with the old bytes (see EndBody).
ReadRest ==
  LET rest == Back(reader.buffer, SizeBytes)
      size == unpack(Front(reader.buffer, SizeBytes))
  IN  /\ reader.at = "rest"
      /\ CASE reader.buffer = <<>> -> Goes(Reading("size")) /\ UNCHANGED handled
           [] Len(reader.buffer) \in 1 .. SizeBytes - 1 ->
                Goes([Reading("size") EXCEPT !.buffer = reader.buffer, !.short = TRUE]) /\ UNCHANGED handled
           [] Len(reader.buffer) >= SizeBytes /\ Len(rest) <= size -> StartPacket(size, rest, FALSE) /\ UNCHANGED handled
           [] Len(reader.buffer) >= SizeBytes /\ Len(rest) > size -> CutRest
      /\ UNCHANGED <<stream, sent, got, open>>

\* The loop of read_sized_packet, ...
ReadBody ==
  /\ reader.at = "body" /\ Len(reader.buffer) < reader.size /\ wire # <<>>
  /\ \E k \in 1 .. smaller(reader.size - Len(reader.buffer), Len(wire)) :
       Receives(k) /\ Goes([reader EXCEPT !.buffer = @ \o Front(wire, k)])
  /\ UNCHANGED handled

\* ... and its end.  struct.error of the bytes that were too few ends the thread.
EndBody ==
  /\ reader.at = "body" /\ Len(reader.buffer) = reader.size
  /\ OnPacket(reader.buffer, IF reader.short THEN Gone("struct error") ELSE Reading("size"))
  /\ UNCHANGED <<stream, sent, got, open>>
-----------------------------------------------------------------------------
\* The connection is closed, and what had not been sent never is.
Close ==
  /\ open /\ open' = FALSE
  /\ sent' \in got .. sent
  /\ UNCHANGED <<stream, got, reader, handled, farewells>>

\* recv returns nothing: read_size and read_proxy_header raise Disconnect, but
\* read_sized_packet asks again, for ever.
EndOfStream ==
  /\ ~open /\ wire = <<>>
  /\ \/ reader.at = "size" /\ Ends("closed")
     \/ reader.at = "header" /\ Lines(reader.buffer) = {} /\ Ends("closed")
     \/ reader.at = "body" /\ Len(reader.buffer) < reader.size /\ Goes([reader EXCEPT !.at = "spinning"])
  /\ UNCHANGED <<stream, sent, got, open, handled>>

\* socket.timeout: 15 seconds for a judge that has not introduced itself.
Timeout ==
  /\ open /\ wire = <<>>
  /\ \/ reader.at = "size"
     \/ reader.at = "header" /\ Lines(reader.buffer) = {}
     \/ reader.at = "body" /\ Len(reader.buffer) < reader.size
  /\ Ends("timeout")
  /\ UNCHANGED <<stream, sent, got, open, handled>>
-----------------------------------------------------------------------------
FramingNext == ReadSize \/ ReadHeader \/ ReadRest \/ ReadBody \/ EndBody \/ Close \/ EndOfStream \/ Timeout

FramingSpec == FramingInit /\ [][FramingNext]_fvars
-----------------------------------------------------------------------------
EndOf(p) == Len(Bytes([stream EXCEPT !.packets = Front(@, p)]))
Arrived == {p \in Packets : EndOf(p) <= sent}
Following(p) == stream.packets[p]

\* Why a handler may end, and what it must have handled until then.
MayEnd(cause, n) ==
  CASE cause \in {"closed", "timeout"} -> n = Cardinality(Arrived)
    [] cause = "zlib error" -> ~Following(n + 1).good \/ Following(n + 1).size = 0
    [] cause = "too large" -> IF n = 0 /\ stream.proxied THEN ~stream.trusted \/ Following(1).size > MAX_ALLOWED_PACKET_SIZE
                              ELSE Following(n + 1).size > MAX_ALLOWED_PACKET_SIZE
    [] cause = "no proxy" -> ~stream.proper \/ Len(ProxyLine(stream)) > HeaderBytes
    [] cause = "answered" -> stream.oneshot /\ n = 1
    [] cause = "struct error" -> stream.proxied /\ stream.trusted /\ n >= 1

\* However the network cuts a stream into pieces, its packets are handled one
\* by one, each once and whole; a handler that waits has handled all that
\* arrived; one that ends says so once, and not before it has to, except after
\* a packet that began with a part of its size behind the proxy's line.  A
\* connection closed within a packet leaves its thread spinning.
FramesHold ==
  LET n == Len(handled)
  IN  /\ handled = [i \in 1 .. n |-> i]
      /\ farewells = IF reader.at = "gone" THEN 1 ELSE 0
      /\ reader.at = "gone" => MayEnd(reader.cause, n)
      /\ reader.at = "size" /\ wire = <<>> => n = Cardinality(Arrived)
      /\ reader.at = "spinning" => ~open /\ sent \in EndOf(n) + SizeBytes .. EndOf(n + 1) - 1
=============================================================================
