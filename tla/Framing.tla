------------------------------ MODULE Framing -------------------------------
(***************************************************************************)
(* Connection::read_packet and parse_packet (connection.rs): packets are   *)
(* cut out of a byte stream that arrives in pieces of any size.  The whole *)
(* buffer is parsed again from its start each time bytes arrive; a parse   *)
(* that runs out of bytes must leave everything as it was.                 *)
(*                                                                         *)
(* Two pieces of state decide how bytes are read: compress, set when a     *)
(* Query is parsed, and the Hello that apply stores before the next parse. *)
(* The client may write ahead without waiting for any reply.               *)
(*                                                                         *)
(* The codec is a parameter: module Wire has the one of the program.       *)
(***************************************************************************)
EXTENDS Integers, Sequences, SequencesExt

CONSTANTS
  Hellos, Queries, DataBlocks, \* the packets of each type the client may send
  Splits,                      \* where it may split a compressed block in two
  MaxPackets,                  \* bound: packets on the connection
  Parse(_, _, _),       \* Parser::parse_packet: of bytes, a Hello, compression
  Encode(_, _, _, _),   \* the bytes of a packet: after a Hello, compressed, split
  Speakable(_, _),      \* a packet that can be written after a Hello
  Understood(_, _),     \* what the server is to make of it
  AsksCompression(_),   \* the compression a Query asks for, as it is written
  ReadsCompression(_)   \* and as it is read

Packets == {[type |-> t, val |-> <<>>] : t \in {"ping", "cancel"}}
             \cup Hellos \cup Queries \cup DataBlocks

HelloValues == {<<>>} \cup {p.val : p \in Hellos}
Meanings == {Understood(p, h) : p \in Packets, h \in HelloValues}

\* The codec on its own: a packet has at least one byte, nothing short of all
\* its bytes is taken for a packet or rejected, and only a Query is read as
\* something else than what was written, with the same compression.
ASSUME CodecAssumption ==
  /\ 0 \in Splits
  /\ \A p \in Hellos : p.type = "hello"
  /\ \A p \in Queries : p.type = "query"
  /\ \A p \in DataBlocks : p.type = "data"
  /\ \A p \in Queries : AsksCompression(p) \in BOOLEAN
  /\ \A p \in Packets, h \in HelloValues :
       /\ Understood(p, h).type = p.type
       /\ p.type # "query" => Understood(p, h) = p
       /\ p.type = "query" /\ Speakable(p, h) => ReadsCompression(Understood(p, h)) = AsksCompression(p)
  /\ \A p \in Packets, h \in HelloValues, c \in BOOLEAN, s \in Splits :
       Speakable(p, h) =>
         /\ Encode(p, h, c, s) \in Seq(Nat) /\ Encode(p, h, c, s) # <<>>
         /\ \A n \in 0..(Len(Encode(p, h, c, s)) - 1) :
              Parse(SubSeq(Encode(p, h, c, s), 1, n), h, c).st = "block"
  /\ \A h \in HelloValues, c \in BOOLEAN : Parse(<<>>, h, c).st = "block"

\* A packet is read back whatever follows it in the buffer.
ReadsBack(rest) ==
  \A p \in Packets, h \in HelloValues, c \in BOOLEAN, s \in Splits :
    Speakable(p, h) =>
      Parse(Encode(p, h, c, s) \o rest, h, c) =
        [st |-> "ok", val |-> Understood(p, h), pos |-> Len(Encode(p, h, c, s))]

SelfDelimiting == \A rest \in Seq(Nat) : ReadsBack(rest)

VARIABLES
  pc,         \* read_packet: parse the buffer, or wait for bytes; or its result
  buffer,     \* self.buffer
  compress,   \* self.compress
  hello,      \* ctx.hello: the fields of the last Hello, <<>> if none
  delivered,  \* packets returned by read_packet
  wire,       \* bytes written by the client that have not been read
  peer,       \* the client's end of the socket
  sent,       \* what the packets the client has written mean
  speaks,     \* the client's last Hello and compression
  flight      \* history: the packets that were written and not returned, with
              \* their bytes and where these end, from the start of buffer

vars == <<pc, buffer, compress, hello, delivered, wire, peer, sent, speaks, flight>>

Init ==
  /\ pc = "parse" /\ buffer = <<>> /\ compress = TRUE /\ hello = <<>>
  /\ delivered = <<>> /\ wire = <<>> /\ peer = "open" /\ sent = <<>>
  /\ speaks = [hello |-> <<>>, compress |-> TRUE, queried |-> FALSE]
  /\ flight = <<>>

-----------------------------------------------------------------------------
(* The client (external): Hello before any Query, Data only after a Query    *)
(* and with the compression of that Query.                                   *)

MayWrite(p) ==
  /\ peer = "open" /\ Len(sent) < MaxPackets
  /\ Speakable(p, speaks.hello)
  /\ p.type = "data" => speaks.queried

Encoded(p, split) == Encode(p, speaks.hello, speaks.compress, split)

ClientWrite(p, split) ==
  /\ MayWrite(p)
  /\ wire' = wire \o Encoded(p, split)
  /\ sent' = Append(sent, Understood(p, speaks.hello))
  /\ speaks' = [hello |-> IF p.type = "hello" THEN p.val ELSE speaks.hello,
                compress |-> IF p.type = "query" THEN AsksCompression(p) ELSE speaks.compress,
                queried |-> speaks.queried \/ p.type = "query"]
  /\ flight' = Append(flight, [packet |-> p, hello |-> speaks.hello, compress |-> speaks.compress,
                               bytes |-> Encoded(p, split),
                               upto |-> Len(buffer) + Len(wire) + Len(Encoded(p, split))])
  /\ UNCHANGED <<pc, buffer, compress, hello, delivered, peer>>

ClientClose ==
  /\ peer = "open" /\ peer' = "closed"
  /\ UNCHANGED <<pc, buffer, compress, hello, delivered, wire, sent, speaks, flight>>

\* The stream ends inside the encoding of a packet.
ClientCut(p) ==
  /\ MayWrite(p)
  /\ \E n \in 1..(Len(Encoded(p, 0)) - 1) : wire' = wire \o SubSeq(Encoded(p, 0), 1, n)
  /\ peer' = "cut"
  /\ UNCHANGED <<pc, buffer, compress, hello, delivered, sent, speaks, flight>>

-----------------------------------------------------------------------------
(* The server *)

KeepCompress(p) == compress' = compress

\* compress is switched as soon as a Query is parsed.
SwitchCompress(p) ==
  compress' = IF p.type = "query" THEN ReadsCompression(p) ELSE compress

StoreAnyPacket(p) == hello' = p.val

\* ctx.hello = Some(hello), by apply before the next parse.
StoreHello(p) == hello' = IF p.type = "hello" THEN p.val ELSE hello

DropBuffer(n) == buffer' = <<>>

\* self.buffer.advance(len): what follows the frame is kept.
Advance(n) == buffer' = SubSeq(buffer, n + 1, Len(buffer))

WaitFirst == pc' = "wait"

\* read_packet tries the buffered bytes before it reads from the socket.
ParseFirst == pc' = "parse"

Parsed == Parse(buffer, hello, compress)

ReturnPacket ==
  /\ pc = "parse"
  /\ LET parsed == Parsed IN
       /\ parsed.st = "ok"
       /\ delivered' = Append(delivered, parsed.val)
       /\ SwitchCompress(parsed.val)
       /\ Advance(parsed.pos)
       /\ StoreHello(parsed.val)
       /\ flight' = [i \in 1..(Len(flight) - 1) |-> [flight[i + 1] EXCEPT !.upto = @ - parsed.pos]]
  /\ ParseFirst
  /\ UNCHANGED wire

\* Err(WouldBlock) => Ok(None)
WouldBlock ==
  /\ pc = "parse" /\ Parsed.st = "block"
  /\ pc' = "wait"
  /\ UNCHANGED <<buffer, compress, hello, delivered, wire, flight>>

\* read_buf returns what has arrived, at least one byte.
ReadBuf(n) ==
  /\ pc = "wait" /\ wire # <<>> /\ n \in 1..Len(wire)
  /\ buffer' = buffer \o SubSeq(wire, 1, n)
  /\ wire' = SubSeq(wire, n + 1, Len(wire))
  /\ pc' = "parse"
  /\ UNCHANGED <<compress, hello, delivered, flight>>

EofAlwaysClean == "none"

\* Ok(None) or "connection reset by peer"
EofResult == IF buffer = <<>> THEN "none" ELSE "reset"

ReadEof ==
  /\ pc = "wait" /\ wire = <<>> /\ peer # "open"
  /\ pc' = EofResult
  /\ UNCHANGED <<buffer, compress, hello, delivered, wire, flight>>

Server ==
  /\ UNCHANGED <<peer, sent, speaks>>
  /\ ReturnPacket \/ WouldBlock \/ ReadEof \/ \E n \in 1..Len(wire) : ReadBuf(n)

Next ==
  \/ \E p \in Packets, s \in Splits : ClientWrite(p, s)
  \/ ClientClose
  \/ \E p \in Packets : ClientCut(p)
  \/ Server
  \/ pc \in {"none", "reset"} /\ UNCHANGED vars

\* The connection task is polled, and bytes that were written arrive.
Spec == Init /\ [][Next]_vars /\ WF_vars(Server)

-----------------------------------------------------------------------------
TypeOK ==
  /\ pc \in {"parse", "wait", "none", "reset"}
  /\ compress \in BOOLEAN
  /\ hello \in HelloValues
  /\ \A i \in 1..Len(delivered) : delivered[i].type = "query" \/ delivered[i] \in Packets
  /\ peer \in {"open", "closed", "cut"}

(* read_packet returns the packets the client wrote, in order and unchanged,  *)
(* however the stream was cut, whatever it switched compression or revision,  *)
(* and however far the client wrote ahead.                                    *)
DeliveredInOrder == IsPrefix(delivered, sent)

(* A prefix of a valid stream is never taken for an invalid one: running out  *)
(* of bytes anywhere, also inside a compressed frame, is WouldBlock.          *)
NeverRejected == pc = "parse" => Parsed.st \in {"ok", "block"}

(* The end of the stream is reported as documented at read_packet: None when  *)
(* it does not break a frame in half, an error otherwise, and in both cases   *)
(* every whole packet has been returned.                                      *)
EofReported ==
  /\ pc = "none" => peer = "closed" /\ delivered = sent
  /\ pc = "reset" => peer = "cut" /\ delivered = sent

(* Again and again, every packet that was written has been returned:          *)
(* read_packet never waits for more bytes while the buffer holds a whole one. *)
AllDelivered == []<>(Len(delivered) = Len(sent))

-----------------------------------------------------------------------------
(* The inductive invariant of module FramingProofs. *)

\* Everything that was written and not parsed.
Stream == buffer \o wire

Frames == [packet : Packets, hello : HelloValues, compress : BOOLEAN,
           bytes : Seq(Nat), upto : Nat]

FrameTypeOK ==
  /\ TypeOK
  /\ buffer \in Seq(Nat) /\ wire \in Seq(Nat)
  /\ delivered \in Seq(Meanings) /\ sent \in Seq(Meanings)
  /\ speaks \in [hello : HelloValues, compress : BOOLEAN, queried : BOOLEAN]
  /\ flight \in Seq(Frames)

\* Where the bytes of a packet in flight begin, the Hello and the compression
\* that are in force after it.
Begins(i) == IF i = 1 THEN 0 ELSE flight[i - 1].upto

HelloAfter(i) ==
  IF i = 0 THEN hello
  ELSE IF flight[i].packet.type = "hello" THEN flight[i].packet.val ELSE flight[i].hello

CompressAfter(i) ==
  IF i = 0 THEN compress
  ELSE IF flight[i].packet.type = "query" THEN AsksCompression(flight[i].packet)
  ELSE flight[i].compress

\* The bytes of the packets in flight follow each other in the stream, and the
\* server will have the Hello and the compression each was written with.
Carried(i) ==
  /\ Speakable(flight[i].packet, flight[i].hello)
  /\ \E s \in Splits :
       flight[i].bytes = Encode(flight[i].packet, flight[i].hello, flight[i].compress, s)
  /\ flight[i].upto = Begins(i) + Len(flight[i].bytes) /\ flight[i].upto <= Len(Stream)
  /\ \A k \in 1..Len(flight[i].bytes) : Stream[Begins(i) + k] = flight[i].bytes[k]
  /\ flight[i].hello = HelloAfter(i - 1) /\ flight[i].compress = CompressAfter(i - 1)
  /\ sent[Len(delivered) + i] = Understood(flight[i].packet, flight[i].hello)

InFlight == \A i \in 1..Len(flight) : Carried(i)

\* Nothing is written over: the packets in flight end one after the other.
Ascending == \A i, j \in 1..Len(flight) : i < j => flight[i].upto < flight[j].upto

\* After them the stream holds nothing, or the beginning of one more packet.
Remains == Len(Stream) - Begins(Len(flight) + 1)

LastInFlight ==
  /\ speaks.hello = HelloAfter(Len(flight)) /\ speaks.compress = CompressAfter(Len(flight))
  /\ peer # "cut" => Remains = 0
  /\ peer = "cut" =>
       \E p \in Packets :
         /\ Speakable(p, speaks.hello)
         /\ Remains \in 1..(Len(Encoded(p, 0)) - 1)
         /\ \A k \in 1..Remains : Stream[Begins(Len(flight) + 1) + k] = Encoded(p, 0)[k]

\* What was returned and what is in flight is all that was sent.
Accounted ==
  /\ DeliveredInOrder
  /\ Len(sent) = Len(delivered) + Len(flight)

\* read_packet waits only when the buffer holds no whole packet, and reports the
\* end of the stream when no more can come.
LoopPlace ==
  /\ pc = "wait" => Parsed.st = "block"
  /\ pc \in {"none", "reset"} =>
       /\ wire = <<>> /\ peer # "open" /\ flight = <<>>
       /\ pc = "none" <=> buffer = <<>>

FramingInv == FrameTypeOK /\ InFlight /\ Ascending /\ LastInFlight /\ Accounted /\ LoopPlace
=============================================================================
