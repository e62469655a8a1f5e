--------------------------- MODULE FramingProofs ----------------------------
(***************************************************************************)
(* Reading packets out of a byte stream is correct for every codec whose   *)
(* packets end where they say they end: FramingInv of module Framing is    *)
(* inductive, and the safety properties of Framing follow from it.         *)
(***************************************************************************)
EXTENDS Framing, TLAPS, SequenceTheorems

(* What CodecAssumption says of one packet. *)
LEMMA OnePacket ==
  ASSUME NEW p \in Packets, NEW h \in HelloValues, NEW c \in BOOLEAN, NEW s \in Splits,
         Speakable(p, h)
  PROVE  /\ Encode(p, h, c, s) \in Seq(Nat) /\ Encode(p, h, c, s) # <<>>
         /\ \A n \in 0..(Len(Encode(p, h, c, s)) - 1) :
              Parse(SubSeq(Encode(p, h, c, s), 1, n), h, c).st = "block"
BY CodecAssumption DEF CodecAssumption

(* Of a packet and what it is read as. *)
LEMMA OneMeaning ==
  ASSUME NEW p \in Packets, NEW h \in HelloValues
  PROVE  /\ Understood(p, h).type = p.type
         /\ p.type # "query" => Understood(p, h) = p
         /\ p.type = "query" /\ Speakable(p, h)
              => ReadsCompression(Understood(p, h)) = AsksCompression(p)
         /\ Understood(p, h) \in Meanings
BY CodecAssumption DEF CodecAssumption, Meanings

(* Whatever a packet is read as, it is a packet or a Query. *)
LEMMA MeaningTypes ==
  ASSUME NEW m \in Meanings PROVE m.type = "query" \/ m \in Packets
<1>1. PICK p \in Packets, h \in HelloValues : m = Understood(p, h)
  BY DEF Meanings
<1> QED BY <1>1, OneMeaning

(* Of the fields that change how later bytes are read. *)
LEMMA FieldTypes ==
  ASSUME NEW p \in Packets
  PROVE  /\ p.type = "hello" => p.val \in HelloValues
         /\ p.type = "query" => AsksCompression(p) \in BOOLEAN
<1>1. ASSUME p.type = "hello" PROVE p \in Hellos
  <2>1. p \notin Queries /\ p \notin DataBlocks
    BY <1>1, CodecAssumption DEF CodecAssumption
  <2>2. p \notin {[type |-> t, val |-> <<>>] : t \in {"ping", "cancel"}}
    BY <1>1
  <2> QED BY <2>1, <2>2 DEF Packets
<1>2. ASSUME p.type = "query" PROVE p \in Queries
  <2>1. p \notin Hellos /\ p \notin DataBlocks
    BY <1>2, CodecAssumption DEF CodecAssumption
  <2>2. p \notin {[type |-> t, val |-> <<>>] : t \in {"ping", "cancel"}}
    BY <1>2
  <2> QED BY <2>1, <2>2 DEF Packets
<1>3. ASSUME p.type = "query" PROVE AsksCompression(p) \in BOOLEAN
  BY <1>2, <1>3, CodecAssumption DEF CodecAssumption
<1> QED BY <1>1, <1>3 DEF HelloValues

(* A buffer that agrees with the bytes of a packet as far as it goes holds    *)
(* the beginning of the packet.                                               *)
LEMMA PrefixOfBytes ==
  ASSUME NEW b \in Seq(Nat), NEW e \in Seq(Nat), Len(b) <= Len(e),
         \A k \in 1..Len(b) : b[k] = e[k]
  PROVE  b = SubSeq(e, 1, Len(b))
<1>1. /\ SubSeq(e, 1, Len(b)) \in Seq(Nat) /\ Len(SubSeq(e, 1, Len(b))) = Len(b)
      /\ \A k \in 1..Len(b) : SubSeq(e, 1, Len(b))[k] = e[k]
  OBVIOUS
<1> QED BY <1>1, SeqEqual

(* A buffer that agrees with all the bytes of a packet holds the packet, and  *)
(* something after it.                                                        *)
LEMMA WholeThenRest ==
  ASSUME NEW b \in Seq(Nat), NEW e \in Seq(Nat), Len(e) <= Len(b),
         \A k \in 1..Len(e) : b[k] = e[k]
  PROVE  b = e \o SubSeq(b, Len(e) + 1, Len(b))
<1> DEFINE r == SubSeq(b, Len(e) + 1, Len(b))
<1>0. Len(b) \in Nat /\ Len(e) \in Nat
  OBVIOUS
<1>1. /\ r \in Seq(Nat) /\ Len(r) = Len(b) - Len(e)
      /\ \A k \in 1..(Len(b) - Len(e)) : r[k] = b[Len(e) + k]
  OBVIOUS
<1> HIDE DEF r
<1>2. /\ e \o r \in Seq(Nat) /\ Len(e \o r) = Len(b)
      /\ \A k \in 1..Len(b) : (e \o r)[k] = IF k <= Len(e) THEN e[k] ELSE r[k - Len(e)]
  BY <1>1, ConcatProperties
<1>3. \A k \in 1..Len(b) : (e \o r)[k] = b[k]
  <2> TAKE k \in 1..Len(b)
  <2>1. CASE k <= Len(e)
    BY <1>2, <2>1
  <2>2. CASE k > Len(e)
    <3>1. k - Len(e) \in 1..(Len(b) - Len(e)) /\ Len(e) + (k - Len(e)) = k /\ ~(k <= Len(e))
      BY <1>0, <2>2
    <3>2. (e \o r)[k] = r[k - Len(e)]
      BY <1>2, <3>1
    <3>3. r[k - Len(e)] = b[Len(e) + (k - Len(e))]
      BY <1>1, <3>1
    <3> QED BY <3>1, <3>2, <3>3
  <2>3. k <= Len(e) \/ k > Len(e)
    BY <1>0
  <2> QED BY <2>1, <2>2, <2>3
<1>4. b = e \o r
  BY <1>2, <1>3, SeqEqual
<1> QED BY <1>4 DEF r

(* Bytes run together in one order, however they are bracketed. *)
LEMMA BytesAssociative ==
  ASSUME NEW a \in Seq(Nat), NEW b \in Seq(Nat), NEW c \in Seq(Nat)
  PROVE  a \o (b \o c) = (a \o b) \o c
BY ConcatAssociative, SMTT(60)

(* The stream, by its bytes. *)
LEMMA StreamIs ==
  ASSUME buffer \in Seq(Nat), wire \in Seq(Nat)
  PROVE  /\ Stream \in Seq(Nat) /\ Len(Stream) = Len(buffer) + Len(wire)
         /\ Len(buffer) \in Nat /\ Len(wire) \in Nat /\ Len(buffer) <= Len(Stream)
         /\ \A k \in 1..Len(buffer) : Stream[k] = buffer[k]
BY ConcatProperties DEF Stream

(* What is known of the first packet in flight. *)
LEMMA FirstInFlight ==
  ASSUME FramingInv, flight # <<>>
  PROVE  /\ flight[1].packet \in Packets /\ hello \in HelloValues /\ compress \in BOOLEAN
         /\ Speakable(flight[1].packet, hello)
         /\ \E s \in Splits : flight[1].bytes = Encode(flight[1].packet, hello, compress, s)
         /\ flight[1].upto = Len(flight[1].bytes) /\ flight[1].upto <= Len(Stream)
         /\ \A k \in 1..Len(flight[1].bytes) : Stream[k] = flight[1].bytes[k]
         /\ sent[Len(delivered) + 1] = Understood(flight[1].packet, hello)
         /\ flight[1].bytes \in Seq(Nat) /\ Len(flight[1].bytes) \in Nat \ {0}
<1>1. 1 \in 1..Len(flight)
      /\ flight[1] \in Frames
  <2>1. flight \in Seq(Frames)
    BY DEF FramingInv, FrameTypeOK
  <2>2. 1 \in 1..Len(flight)
    BY <2>1, EmptySeq
  <2> QED BY <2>1, <2>2, ElementOfSeq
<1>2. Begins(1) = 0 /\ HelloAfter(1 - 1) = hello /\ CompressAfter(1 - 1) = compress
  BY DEF Begins, HelloAfter, CompressAfter
<1>3. flight[1].hello = hello /\ flight[1].compress = compress
  BY <1>1, <1>2 DEF FramingInv, InFlight, Carried
<1>4. /\ Speakable(flight[1].packet, hello)
      /\ \E s \in Splits : flight[1].bytes = Encode(flight[1].packet, hello, compress, s)
      /\ flight[1].upto = 0 + Len(flight[1].bytes) /\ flight[1].upto <= Len(Stream)
      /\ \A k \in 1..Len(flight[1].bytes) : Stream[0 + k] = flight[1].bytes[k]
      /\ sent[Len(delivered) + 1] = Understood(flight[1].packet, hello)
  BY <1>1, <1>2, <1>3 DEF FramingInv, InFlight, Carried
<1>5. hello \in HelloValues /\ compress \in BOOLEAN
  BY DEF FramingInv, FrameTypeOK, TypeOK
<1>6. flight[1].bytes \in Seq(Nat) /\ flight[1].bytes # <<>>
  BY <1>1, <1>4, <1>5, OnePacket DEF Frames
<1> QED BY <1>1, <1>4, <1>5, <1>6 DEF Frames

(* When the buffer holds the whole first packet, that packet is parsed. *)
LEMMA ParsedWhole ==
  ASSUME SelfDelimiting, FramingInv, flight # <<>>, flight[1].upto <= Len(buffer)
  PROVE  Parsed = [st |-> "ok", val |-> Understood(flight[1].packet, hello),
                   pos |-> flight[1].upto]
<1> DEFINE e == flight[1].bytes
<1>1. buffer \in Seq(Nat) /\ wire \in Seq(Nat)
  BY DEF FramingInv, FrameTypeOK
<1>2. e \in Seq(Nat) /\ Len(e) \in Nat /\ Len(e) <= Len(buffer)
      /\ \A k \in 1..Len(e) : buffer[k] = e[k]
  <2>1. \A k \in 1..Len(e) : k \in 1..Len(buffer)
    BY <1>1, FirstInFlight
  <2> QED BY <1>1, <2>1, FirstInFlight, StreamIs
<1>3. buffer = e \o SubSeq(buffer, Len(e) + 1, Len(buffer))
  BY <1>1, <1>2, WholeThenRest
<1>4. SubSeq(buffer, Len(e) + 1, Len(buffer)) \in Seq(Nat)
  BY <1>1, <1>2
<1>5. PICK s \in Splits : e = Encode(flight[1].packet, hello, compress, s)
  BY FirstInFlight
<1> DEFINE rest == SubSeq(buffer, Len(e) + 1, Len(buffer))
<1> HIDE DEF rest
<1>6. Parse(Encode(flight[1].packet, hello, compress, s) \o rest, hello, compress) =
        [st |-> "ok", val |-> Understood(flight[1].packet, hello),
         pos |-> Len(Encode(flight[1].packet, hello, compress, s))]
  <2>1. ReadsBack(rest)
    BY <1>4 DEF SelfDelimiting, rest
  <2> QED BY <2>1, FirstInFlight DEF ReadsBack
<1> QED BY <1>3, <1>5, <1>6, FirstInFlight DEF Parsed, rest

(* When it does not, read_packet waits for more bytes. *)
LEMMA ParsedPart ==
  ASSUME FramingInv, flight = <<>> \/ flight[1].upto > Len(buffer)
  PROVE  Parsed.st = "block"
<1>1. buffer \in Seq(Nat) /\ wire \in Seq(Nat) /\ hello \in HelloValues /\ compress \in BOOLEAN
  BY DEF FramingInv, FrameTypeOK, TypeOK
<1>2. ASSUME NEW p \in Packets, NEW s \in Splits, Speakable(p, hello),
             Len(buffer) < Len(Encode(p, hello, compress, s)),
             \A k \in 1..Len(buffer) : buffer[k] = Encode(p, hello, compress, s)[k]
      PROVE  Parsed.st = "block"
  <2> DEFINE e == Encode(p, hello, compress, s)
  <2>1. e \in Seq(Nat) /\ \A n \in 0..(Len(e) - 1) : Parse(SubSeq(e, 1, n), hello, compress).st = "block"
    BY <1>1, <1>2, OnePacket
  <2>2. buffer = SubSeq(e, 1, Len(buffer))
    BY <1>1, <1>2, <2>1, PrefixOfBytes
  <2>3. Len(buffer) \in 0..(Len(e) - 1)
    BY <1>1, <1>2, <2>1
  <2> QED BY <2>1, <2>2, <2>3 DEF Parsed
<1>3. CASE flight # <<>>
  <2>1. PICK s \in Splits : flight[1].bytes = Encode(flight[1].packet, hello, compress, s)
    BY <1>3, FirstInFlight
  <2>2. Len(buffer) < Len(flight[1].bytes) /\ \A k \in 1..Len(buffer) : buffer[k] = flight[1].bytes[k]
    <3>1. \A k \in 1..Len(buffer) : k \in 1..Len(flight[1].bytes)
      BY <1>1, <1>3, FirstInFlight
    <3> QED BY <1>1, <1>3, <3>1, FirstInFlight, StreamIs
  <2> QED BY <1>2, <1>3, <2>1, <2>2, FirstInFlight
<1>4. CASE flight = <<>>
  <2>1. /\ Begins(Len(flight) + 1) = 0 /\ Remains = Len(Stream)
        /\ speaks.hello = hello /\ speaks.compress = compress
    <3>1. Len(flight) = 0
      BY <1>4
    <3>2. Begins(Len(flight) + 1) = 0
      BY <3>1 DEF Begins
    <3>3. HelloAfter(Len(flight)) = hello /\ CompressAfter(Len(flight)) = compress
      BY <3>1 DEF HelloAfter, CompressAfter
    <3>4. Len(Stream) \in Nat
      BY <1>1, StreamIs
    <3> QED BY <3>2, <3>3, <3>4 DEF FramingInv, LastInFlight, Remains
  <2>2. CASE peer # "cut"
    <3>1. Len(buffer) = 0
      BY <1>1, <2>1, <2>2, StreamIs DEF FramingInv, LastInFlight
    <3>2. buffer = <<>>
      BY <1>1, <3>1
    <3> QED BY <1>1, <3>2, CodecAssumption DEF CodecAssumption, Parsed
  <2>3. CASE peer = "cut"
    <3>1. PICK p \in Packets :
            /\ Speakable(p, hello)
            /\ Remains \in 1..(Len(Encoded(p, 0)) - 1)
            /\ \A k \in 1..Remains : Stream[Begins(Len(flight) + 1) + k] = Encoded(p, 0)[k]
      BY <2>1, <2>3 DEF FramingInv, LastInFlight
    <3>2. Encoded(p, 0) = Encode(p, hello, compress, 0)
      BY <2>1 DEF Encoded
    <3>3. 0 \in Splits
      BY CodecAssumption DEF CodecAssumption
    <3>4. Len(Encode(p, hello, compress, 0)) \in Nat
      BY <1>1, <3>1, <3>3, OnePacket
    <3>5. \A k \in 1..Len(buffer) : buffer[k] = Encode(p, hello, compress, 0)[k]
      <4>1. ASSUME NEW k \in 1..Len(buffer) PROVE k \in 1..Remains /\ 0 + k = k
        BY <1>1, <2>1, StreamIs
      <4> QED BY <1>1, <2>1, <3>1, <3>2, <4>1, StreamIs
    <3>6. Len(buffer) < Len(Encode(p, hello, compress, 0))
      BY <1>1, <2>1, <3>1, <3>2, <3>4, StreamIs
    <3> QED BY <1>2, <3>1, <3>3, <3>5, <3>6
  <2> QED BY <2>2, <2>3
<1> QED BY <1>3, <1>4

(* The initial state: nothing was written. *)
LEMMA InitFraming == Init => FramingInv
<1> SUFFICES ASSUME Init PROVE FramingInv
  OBVIOUS
<1>1. /\ <<>> \in Seq(Nat) /\ <<>> \in Seq(Meanings) /\ <<>> \in Seq(Frames) /\ Len(<<>>) = 0
  BY EmptySeq
<1>2. <<>> \in HelloValues
  BY DEF HelloValues
<1>3. FrameTypeOK
  BY <1>1, <1>2 DEF Init, FrameTypeOK, TypeOK
<1>4. InFlight /\ Ascending
  BY <1>1 DEF Init, InFlight, Ascending
<1>5. Len(flight) = 0 /\ Len(Stream) = 0
  BY <1>1, StreamIs DEF Init
<1>6. LastInFlight
  <2>1. HelloAfter(Len(flight)) = hello /\ CompressAfter(Len(flight)) = compress
    BY <1>5 DEF HelloAfter, CompressAfter
  <2>2. Remains = 0
    BY <1>5 DEF Remains, Begins
  <2> QED BY <2>1, <2>2 DEF Init, LastInFlight
<1>7. Accounted
  BY <1>1 DEF Init, Accounted, DeliveredInOrder, IsPrefix
<1>8. LoopPlace
  BY DEF Init, LoopPlace
<1> QED BY <1>3, <1>4, <1>6, <1>7, <1>8 DEF FramingInv

(* A step that leaves the stream and what is in flight alone, however much of *)
(* it moves from the socket to the buffer.                                    *)
LEMMA StreamKept ==
  ASSUME FramingInv, Stream' = Stream,
         UNCHANGED <<compress, hello, delivered, sent, speaks, flight>>,
         peer' = "cut" <=> peer = "cut"
  PROVE  InFlight' /\ Ascending' /\ LastInFlight' /\ Accounted'
<1>1. /\ \A i : Begins(i)' = Begins(i) /\ HelloAfter(i)' = HelloAfter(i)
                /\ CompressAfter(i)' = CompressAfter(i)
      /\ \A p : Encoded(p, 0)' = Encoded(p, 0)
      /\ Len(flight)' = Len(flight)
  BY DEF Begins, HelloAfter, CompressAfter, Encoded
<1>2. InFlight'
  BY <1>1 DEF FramingInv, InFlight, Carried
<1>3. Ascending'
  BY DEF FramingInv, Ascending
<1>4. Remains' = Remains
  BY <1>1 DEF Remains
<1>5. LastInFlight'
  BY <1>1, <1>4 DEF FramingInv, LastInFlight
<1>6. Accounted'
  BY DEF FramingInv, Accounted, DeliveredInOrder
<1> QED BY <1>2, <1>3, <1>5, <1>6

-----------------------------------------------------------------------------
(* The steps that leave the stream as it is. *)

(* The client closes its end. *)
LEMMA CloseStep ==
  ASSUME FramingInv, ClientClose PROVE FramingInv'
<1>1. Stream' = Stream
  BY DEF ClientClose, Stream
<1>2. InFlight' /\ Ascending' /\ LastInFlight' /\ Accounted'
  BY <1>1, StreamKept DEF ClientClose
<1>3. FrameTypeOK'
  BY DEF FramingInv, FrameTypeOK, TypeOK, ClientClose
<1>4. LoopPlace'
  BY DEF FramingInv, LoopPlace, ClientClose, Parsed
<1> QED BY <1>2, <1>3, <1>4 DEF FramingInv

(* parse_packet finds no whole packet: read_packet goes on to wait. *)
LEMMA BlockStep ==
  ASSUME FramingInv, Server, WouldBlock PROVE FramingInv'
<1>1. Stream' = Stream
  BY DEF WouldBlock, Stream
<1>2. InFlight' /\ Ascending' /\ LastInFlight' /\ Accounted'
  BY <1>1, StreamKept DEF WouldBlock, Server
<1>3. FrameTypeOK'
  BY DEF FramingInv, FrameTypeOK, TypeOK, WouldBlock, Server
<1>4. LoopPlace'
  BY DEF LoopPlace, WouldBlock, Parsed
<1> QED BY <1>2, <1>3, <1>4 DEF FramingInv

(* Bytes move from the socket to the buffer. *)
LEMMA ReadStep ==
  ASSUME FramingInv, Server, NEW n \in 1..Len(wire), ReadBuf(n) PROVE FramingInv'
<1>0. buffer \in Seq(Nat) /\ wire \in Seq(Nat)
  BY DEF FramingInv, FrameTypeOK
<1> DEFINE w1 == SubSeq(wire, 1, n)
           w2 == SubSeq(wire, n + 1, Len(wire))
<1>1. w1 \in Seq(Nat) /\ w2 \in Seq(Nat) /\ wire = w1 \o w2
  <2>1. /\ w1 \in Seq(Nat) /\ Len(w1) = n /\ \A k \in 1..n : wire[k] = w1[k]
        /\ w2 \in Seq(Nat) /\ n <= Len(wire)
    BY <1>0
  <2> HIDE DEF w1
  <2> QED BY <1>0, <2>1, WholeThenRest
<1>2. buffer' = buffer \o w1 /\ wire' = w2
  BY DEF ReadBuf
<1> HIDE DEF w1, w2
<1>3. Stream' = Stream
  <2>1. buffer \o (w1 \o w2) = (buffer \o w1) \o w2
    BY <1>0, <1>1, BytesAssociative, Zenon
  <2> QED BY <1>1, <1>2, <2>1 DEF Stream
<1>4. InFlight' /\ Ascending' /\ LastInFlight' /\ Accounted'
  BY <1>3, StreamKept DEF ReadBuf, Server
<1>5. buffer' \in Seq(Nat) /\ wire' \in Seq(Nat)
  BY <1>0, <1>1, <1>2, ConcatProperties
<1>6. FrameTypeOK'
  BY <1>5 DEF FramingInv, FrameTypeOK, TypeOK, ReadBuf, Server
<1>7. LoopPlace'
  BY DEF LoopPlace, ReadBuf
<1> QED BY <1>4, <1>6, <1>7 DEF FramingInv

(* The socket is at its end: no packet in flight can be left, because a whole *)
(* one would have been parsed.                                                *)
LEMMA EofStep ==
  ASSUME SelfDelimiting, FramingInv, Server, ReadEof PROVE FramingInv'
<1>1. Stream' = Stream
  BY DEF ReadEof, Stream
<1>2. InFlight' /\ Ascending' /\ LastInFlight' /\ Accounted'
  BY <1>1, StreamKept DEF ReadEof, Server
<1>3. FrameTypeOK'
  BY DEF FramingInv, FrameTypeOK, TypeOK, ReadEof, EofResult, Server
<1>4. flight = <<>>
  <2>1. SUFFICES ASSUME flight # <<>> PROVE FALSE
    OBVIOUS
  <2>2. Len(Stream) = Len(buffer)
    <3>1. buffer \in Seq(Nat) /\ wire \in Seq(Nat) /\ Len(wire) = 0
      BY EmptySeq DEF FramingInv, FrameTypeOK, ReadEof
    <3> QED BY <3>1, StreamIs
  <2>3. flight[1].upto <= Len(buffer)
    BY <2>1, <2>2, FirstInFlight
  <2>4. Parsed.st = "ok"
    BY <2>1, <2>3, ParsedWhole
  <2> QED BY <2>4 DEF FramingInv, LoopPlace, ReadEof
<1>5. LoopPlace'
  BY <1>4 DEF LoopPlace, ReadEof, EofResult, Server
<1> QED BY <1>2, <1>3, <1>5 DEF FramingInv

(* Nothing happens. *)
LEMMA FramingStutter ==
  ASSUME FramingInv, UNCHANGED vars PROVE FramingInv'
<1>1. Stream' = Stream
  BY DEF vars, Stream
<1>2. InFlight' /\ Ascending' /\ LastInFlight' /\ Accounted'
  BY <1>1, StreamKept DEF vars
<1>3. FrameTypeOK'
  BY DEF FramingInv, FrameTypeOK, TypeOK, vars
<1>4. LoopPlace'
  BY DEF FramingInv, LoopPlace, vars, Parsed
<1> QED BY <1>2, <1>3, <1>4 DEF FramingInv

-----------------------------------------------------------------------------
(* The client writes. *)

(* Prefixes, by their elements. *)
LEMMA PrefixElements ==
  ASSUME NEW S, NEW s \in Seq(S), NEW u \in Seq(S)
  PROVE  IsPrefix(s, u) <=> Len(s) <= Len(u) /\ \A i \in 1..Len(s) : s[i] = u[i]
<1>1. SubSeq(s, 1, Len(s)) = s
  BY SubSeqFull
<1>2. ASSUME Len(s) <= Len(u)
      PROVE  SubSeq(u, 1, Len(s)) = s <=> \A i \in 1..Len(s) : s[i] = u[i]
  <2>1. /\ SubSeq(u, 1, Len(s)) \in Seq(S) /\ Len(SubSeq(u, 1, Len(s))) = Len(s)
        /\ \A i \in 1..Len(s) : SubSeq(u, 1, Len(s))[i] = u[i]
    BY <1>2
  <2> QED BY <2>1, SeqEqual
<1> QED BY <1>1, <1>2 DEF IsPrefix

(* Where the packets in flight end. *)
LEMMA WhereTheyEnd ==
  ASSUME FramingInv
  PROVE  /\ Len(flight) \in Nat /\ Len(Stream) \in Nat
         /\ \A i \in 1..Len(flight) : flight[i] \in Frames /\ flight[i].upto \in Nat
                                      /\ flight[i].upto <= Len(Stream)
         /\ \A i \in 1..(Len(flight) + 1) : Begins(i) \in Nat /\ Begins(i) <= Len(Stream)
<1>1. flight \in Seq(Frames) /\ Len(flight) \in Nat
  BY DEF FramingInv, FrameTypeOK
<1>2. Len(Stream) \in Nat
  BY StreamIs DEF FramingInv, FrameTypeOK
<1>3. ASSUME NEW i \in 1..Len(flight)
      PROVE  flight[i] \in Frames /\ flight[i].upto \in Nat /\ flight[i].upto <= Len(Stream)
  <2>1. flight[i] \in Frames
    BY <1>1, ElementOfSeq
  <2>2. Carried(i)
    BY DEF FramingInv, InFlight
  <2> QED BY <2>1, <2>2 DEF Frames, Carried
<1>4. ASSUME NEW i \in 1..(Len(flight) + 1) PROVE Begins(i) \in Nat /\ Begins(i) <= Len(Stream)
  <2>1. CASE i = 1
    BY <1>2, <2>1 DEF Begins
  <2>2. CASE i # 1
    <3>1. i - 1 \in 1..Len(flight)
      BY <1>1, <2>2
    <3> QED BY <1>3, <2>2, <3>1 DEF Begins
  <2> QED BY <2>1, <2>2
<1> QED BY <1>1, <1>2, <1>3, <1>4

(* What follows the last packet in flight comes after it in the stream. *)
LEMMA StreamGrows ==
  ASSUME FramingInv, NEW e \in Seq(Nat), wire' = wire \o e, buffer' = buffer
  PROVE  /\ Len(Stream') = Len(Stream) + Len(e) /\ Len(e) \in Nat
         /\ \A k \in 1..Len(Stream) : Stream'[k] = Stream[k]
         /\ \A k \in 1..Len(e) : Stream'[Len(Stream) + k] = e[k]
<1>1. buffer \in Seq(Nat) /\ wire \in Seq(Nat)
  BY DEF FramingInv, FrameTypeOK
<1>2. Stream' = Stream \o e /\ Stream \in Seq(Nat) /\ Len(Stream) \in Nat
  <2>1. Stream \in Seq(Nat) /\ Len(Stream) \in Nat
    BY <1>1, StreamIs
  <2>2. Stream' = buffer \o (wire \o e)
    BY DEF Stream
  <2>3. buffer \o (wire \o e) = (buffer \o wire) \o e
    BY <1>1, BytesAssociative, Zenon
  <2> QED BY <2>1, <2>2, <2>3 DEF Stream
<1>3. /\ Len(Stream \o e) = Len(Stream) + Len(e) /\ Len(e) \in Nat
      /\ \A k \in 1..(Len(Stream) + Len(e)) :
           (Stream \o e)[k] = IF k <= Len(Stream) THEN Stream[k] ELSE e[k - Len(Stream)]
  BY <1>2, ConcatProperties
<1> QED BY <1>2, <1>3

(* A packet in flight stays as it is when something is written after it. *)
LEMMA StillCarried ==
  ASSUME FramingInv, NEW e \in Seq(Nat), wire' = wire \o e,
         UNCHANGED <<buffer, hello, compress, delivered>>,
         \A j \in 1..Len(flight) : flight'[j] = flight[j],
         \A j \in 1..Len(sent) : sent'[j] = sent[j],
         NEW i \in 1..Len(flight)
  PROVE  Carried(i)'
<1>1. Carried(i)
  BY DEF FramingInv, InFlight
<1>2. /\ Begins(i)' = Begins(i) /\ HelloAfter(i - 1)' = HelloAfter(i - 1)
      /\ CompressAfter(i - 1)' = CompressAfter(i - 1)
  <2>1. CASE i = 1
    BY <2>1 DEF Begins, HelloAfter, CompressAfter
  <2>2. CASE i # 1
    <3>1. i - 1 \in 1..Len(flight) /\ i - 1 # 0
      BY <2>2, WhereTheyEnd
    <3> QED BY <2>2, <3>1 DEF Begins, HelloAfter, CompressAfter
  <2> QED BY <2>1, <2>2
<1>3. flight'[i] = flight[i]
  OBVIOUS
<1>4. /\ Len(delivered) + i \in 1..Len(sent) /\ Len(delivered') = Len(delivered)
  <2>1. delivered \in Seq(Meanings) /\ Len(sent) = Len(delivered) + Len(flight)
    BY DEF FramingInv, FrameTypeOK, Accounted
  <2>2. Len(delivered) \in Nat
    BY <2>1
  <2> QED BY <2>1, <2>2, WhereTheyEnd
<1>5. /\ Len(Stream') >= Len(Stream) /\ Len(Stream') \in Nat
      /\ \A k \in 1..Len(Stream) : Stream'[k] = Stream[k]
  <2>1. buffer' = buffer
    OBVIOUS
  <2>2. /\ Len(Stream') = Len(Stream) + Len(e) /\ Len(e) \in Nat
        /\ \A k \in 1..Len(Stream) : Stream'[k] = Stream[k]
    BY <2>1, StreamGrows
  <2> QED BY <2>2, WhereTheyEnd
<1>6. \A k \in 1..Len(flight[i].bytes) : Stream'[Begins(i) + k] = flight[i].bytes[k]
  <2> TAKE k \in 1..Len(flight[i].bytes)
  <2>1. Begins(i) \in Nat /\ flight[i].upto \in Nat /\ Len(flight[i].bytes) \in Nat
    BY WhereTheyEnd DEF Frames
  <2>2. Begins(i) + k \in 1..Len(Stream)
    BY <1>1, <2>1, WhereTheyEnd, SMTT(20) DEF Carried
  <2> QED BY <1>1, <1>5, <2>2 DEF Carried
<1>7. flight[i].upto <= Len(Stream')
  BY <1>1, <1>5, WhereTheyEnd DEF Carried
<1>8. sent'[Len(delivered) + i] = sent[Len(delivered) + i]
  BY <1>4
<1> QED BY <1>1, <1>2, <1>3, <1>4, <1>6, <1>7, <1>8 DEF Carried

(* The client's state gives the codec what OnePacket asks for. *)
LEMMA WhatIsSpoken ==
  ASSUME FramingInv, NEW p \in Packets, NEW s \in Splits, MayWrite(p)
  PROVE  /\ speaks.hello \in HelloValues /\ speaks.compress \in BOOLEAN
         /\ speaks.queried \in BOOLEAN /\ Speakable(p, speaks.hello)
         /\ peer = "open" /\ Begins(Len(flight) + 1) = Len(Stream)
         /\ Encoded(p, s) \in Seq(Nat) /\ Len(Encoded(p, s)) \in Nat \ {0}
         /\ Encoded(p, s) = Encode(p, speaks.hello, speaks.compress, s)
<1>1. /\ speaks.hello \in HelloValues /\ speaks.compress \in BOOLEAN
      /\ speaks.queried \in BOOLEAN /\ Speakable(p, speaks.hello) /\ peer = "open"
  BY DEF FramingInv, FrameTypeOK, MayWrite
<1>2. Encoded(p, s) \in Seq(Nat) /\ Encoded(p, s) # <<>>
  BY <1>1, OnePacket DEF Encoded
<1>3. Begins(Len(flight) + 1) = Len(Stream)
  <2>1. Len(flight) + 1 \in 1..(Len(flight) + 1)
    BY WhereTheyEnd
  <2>2. Begins(Len(flight) + 1) \in Nat /\ Len(Stream) \in Nat
    BY <2>1, WhereTheyEnd
  <2> QED BY <1>1, <2>2 DEF FramingInv, LastInFlight, Remains
<1> QED BY <1>1, <1>2, <1>3, EmptySeq DEF Encoded

(* The client writes a packet: it joins the packets in flight. *)
LEMMA WriteStep ==
  ASSUME FramingInv, NEW p \in Packets, NEW s \in Splits, ClientWrite(p, s)
  PROVE  FramingInv'
<1> DEFINE e == Encode(p, speaks.hello, speaks.compress, s)
           f == [packet |-> p, hello |-> speaks.hello, compress |-> speaks.compress,
                 bytes |-> e, upto |-> Len(Stream) + Len(e)]
           m == Understood(p, speaks.hello)
<1>0. PICK n \in Nat : n = Len(flight)
  BY WhereTheyEnd
<1>1. MayWrite(p)
  BY DEF ClientWrite
<1>2. /\ speaks.hello \in HelloValues /\ speaks.compress \in BOOLEAN
      /\ speaks.queried \in BOOLEAN /\ Speakable(p, speaks.hello)
      /\ peer = "open" /\ Begins(n + 1) = Len(Stream)
      /\ e \in Seq(Nat) /\ Len(e) \in Nat \ {0} /\ Encoded(p, s) = e
  BY <1>0, <1>1, WhatIsSpoken
<1>3. /\ buffer \in Seq(Nat) /\ wire \in Seq(Nat) /\ flight \in Seq(Frames)
      /\ delivered \in Seq(Meanings) /\ sent \in Seq(Meanings)
      /\ n \in Nat /\ Len(Stream) \in Nat /\ Len(delivered) \in Nat /\ Len(sent) \in Nat
      /\ Len(Stream) = Len(buffer) + Len(wire) /\ Len(sent) = Len(delivered) + n
  BY <1>0, StreamIs, WhereTheyEnd DEF FramingInv, FrameTypeOK, Accounted
<1>4. f \in Frames /\ m \in Meanings
  BY <1>2, <1>3, OneMeaning DEF Frames
<1>5. /\ wire' = wire \o e /\ sent' = Append(sent, m) /\ flight' = Append(flight, f)
      /\ UNCHANGED <<pc, buffer, compress, hello, delivered, peer>>
  BY <1>2, <1>3 DEF ClientWrite
<1>6. speaks' = [hello |-> IF p.type = "hello" THEN p.val ELSE speaks.hello,
                 compress |-> IF p.type = "query" THEN AsksCompression(p) ELSE speaks.compress,
                 queried |-> speaks.queried \/ p.type = "query"]
  BY DEF ClientWrite
<1>7. /\ f.packet = p /\ f.hello = speaks.hello /\ f.compress = speaks.compress
      /\ f.bytes = e /\ f.upto = Len(Stream) + Len(e)
  OBVIOUS
<1> HIDE DEF e, f, m
<1>8. /\ flight' \in Seq(Frames) /\ Len(flight') = n + 1 /\ flight'[n + 1] = f
      /\ \A j \in 1..n : flight'[j] = flight[j]
  <2>1. /\ flight' \in Seq(Frames) /\ Len(flight') = Len(flight) + 1
        /\ flight'[Len(flight) + 1] = f
        /\ \A j \in 1..Len(flight) : flight'[j] = flight[j]
    BY <1>3, <1>4, <1>5, AppendProperties
  <2> QED BY <1>0, <2>1
<1>9. /\ sent' \in Seq(Meanings) /\ Len(sent') = Len(sent) + 1 /\ sent'[Len(sent) + 1] = m
      /\ \A j \in 1..Len(sent) : sent'[j] = sent[j]
  <2>1. sent' = Append(sent, m)
    BY <1>5
  <2> QED BY <1>3, <1>4, <2>1, AppendProperties
<1>10. /\ Len(Stream') = Len(Stream) + Len(e)
       /\ \A k \in 1..Len(e) : Stream'[Len(Stream) + k] = e[k]
  BY <1>2, <1>5, StreamGrows
<1>11. FrameTypeOK'
  <2>1. wire' \in Seq(Nat)
    BY <1>2, <1>3, <1>5, ConcatProperties
  <2>2. speaks' \in [hello : HelloValues, compress : BOOLEAN, queried : BOOLEAN]
    BY <1>2, <1>6, FieldTypes
  <2> QED BY <1>5, <1>8, <1>9, <2>1, <2>2 DEF FramingInv, FrameTypeOK, TypeOK
<1>12. Begins(n + 1)' = Begins(n + 1) /\ HelloAfter(n)' = HelloAfter(n)
       /\ CompressAfter(n)' = CompressAfter(n)
  <2>1. CASE n = 0
    BY <1>5, <2>1 DEF Begins, HelloAfter, CompressAfter
  <2>2. CASE n # 0
    <3>1. n \in 1..n /\ (n + 1) - 1 = n /\ n + 1 # 1
      BY <1>3, <2>2
    <3> QED BY <1>8, <2>2, <3>1 DEF Begins, HelloAfter, CompressAfter
  <2> QED BY <2>1, <2>2
<1>13. InFlight'
  <2>1. \A i \in 1..n : Carried(i)'
    BY <1>0, <1>2, <1>5, <1>8, <1>9, StillCarried
  <2>2. Carried(n + 1)'
    <3>1. speaks.hello = HelloAfter(n) /\ speaks.compress = CompressAfter(n)
      BY <1>0 DEF FramingInv, LastInFlight
    <3>2. (n + 1) - 1 = n /\ Len(delivered) + (n + 1) = Len(sent) + 1
      BY <1>3
    <3>3. f.bytes = Encode(f.packet, f.hello, f.compress, s)
      BY <1>7 DEF e
    <3>4. f.upto = Begins(n + 1)' + Len(f.bytes) /\ f.upto <= Len(Stream')
      BY <1>2, <1>3, <1>7, <1>10, <1>12
    <3>5. \A k \in 1..Len(f.bytes) : Stream'[Begins(n + 1)' + k] = f.bytes[k]
      BY <1>2, <1>7, <1>10, <1>12
    <3>6. f.hello = HelloAfter((n + 1) - 1)' /\ f.compress = CompressAfter((n + 1) - 1)'
      BY <1>7, <1>12, <3>1, <3>2
    <3>7. sent'[Len(delivered)' + (n + 1)] = Understood(f.packet, f.hello)
      BY <1>5, <1>7, <1>9, <3>2 DEF m
    <3> QED BY <1>2, <1>7, <1>8, <3>3, <3>4, <3>5, <3>6, <3>7 DEF Carried
  <2>3. \A i \in 1..Len(flight') : i \in 1..n \/ i = n + 1
    BY <1>3, <1>8
  <2> QED BY <2>1, <2>2, <2>3 DEF InFlight
<1>14. Ascending'
  <2> SUFFICES ASSUME NEW i \in 1..Len(flight'), NEW j \in 1..Len(flight'), i < j
               PROVE  flight'[i].upto < flight'[j].upto
    BY DEF Ascending
  <2>1. i \in 1..n
    BY <1>3, <1>8
  <2>2. CASE j \in 1..n
    BY <1>0, <1>8, <2>1, <2>2 DEF FramingInv, Ascending
  <2>3. CASE j = n + 1
    <3>1. flight[i].upto \in Nat /\ flight[i].upto <= Len(Stream)
      BY <1>0, <2>1, WhereTheyEnd
    <3> QED BY <1>2, <1>3, <1>7, <1>8, <2>1, <2>3, <3>1
  <2> QED BY <1>3, <1>8, <2>2, <2>3
<1>15. LastInFlight'
  <2>1. peer' # "cut"
    BY <1>2, <1>5
  <2>2. Len(flight') = n + 1 /\ n + 1 # 0 /\ n + 2 # 1 /\ (n + 1) + 1 = n + 2 /\ (n + 2) - 1 = n + 1
    BY <1>3, <1>8
  <2>3. HelloAfter(Len(flight))' = speaks'.hello /\ CompressAfter(Len(flight))' = speaks'.compress
    BY <1>6, <1>7, <1>8, <2>2 DEF HelloAfter, CompressAfter
  <2>4. Begins(Len(flight) + 1)' = Len(Stream')
    BY <1>7, <1>8, <1>10, <2>2 DEF Begins
  <2>5. Remains' = 0
    BY <1>2, <1>3, <1>10, <2>4 DEF Remains
  <2> QED BY <2>1, <2>3, <2>5 DEF LastInFlight
<1>16. Accounted'
  <2>1. IsPrefix(delivered, sent)
    BY DEF FramingInv, Accounted, DeliveredInOrder
  <2>2. Len(delivered) <= Len(sent) /\ \A i \in 1..Len(delivered) : delivered[i] = sent[i]
    BY <1>3, <2>1, PrefixElements
  <2>3. Len(delivered) <= Len(sent') /\ \A i \in 1..Len(delivered) : delivered[i] = sent'[i]
    BY <1>3, <1>9, <2>2
  <2>4. IsPrefix(delivered, sent')
    BY <1>3, <1>9, <2>3, PrefixElements
  <2>5. Len(sent') = Len(delivered) + Len(flight')
    BY <1>3, <1>8, <1>9
  <2> QED BY <1>5, <2>4, <2>5 DEF Accounted, DeliveredInOrder
<1>17. LoopPlace'
  BY <1>2, <1>5 DEF FramingInv, LoopPlace, Parsed
<1> QED BY <1>11, <1>13, <1>14, <1>15, <1>16, <1>17 DEF FramingInv

(* The client is cut off inside a packet: what it wrote remains. *)
LEMMA CutStep ==
  ASSUME FramingInv, NEW p \in Packets, ClientCut(p)
  PROVE  FramingInv'
<1>0. 0 \in Splits
  BY CodecAssumption DEF CodecAssumption
<1>1. PICK c \in 1..(Len(Encoded(p, 0)) - 1) : wire' = wire \o SubSeq(Encoded(p, 0), 1, c)
  BY DEF ClientCut
<1>2. MayWrite(p) /\ peer' = "cut"
      /\ UNCHANGED <<pc, buffer, compress, hello, delivered, sent, speaks, flight>>
  BY DEF ClientCut
<1>3. /\ Speakable(p, speaks.hello) /\ peer = "open" /\ Begins(Len(flight) + 1) = Len(Stream)
      /\ Encoded(p, 0) \in Seq(Nat) /\ Len(Encoded(p, 0)) \in Nat
  BY <1>0, <1>2, WhatIsSpoken
<1> DEFINE e == SubSeq(Encoded(p, 0), 1, c)
<1>4. /\ e \in Seq(Nat) /\ Len(e) = c /\ wire' = wire \o e
      /\ \A k \in 1..c : e[k] = Encoded(p, 0)[k]
  BY <1>1, <1>3
<1> HIDE DEF e
<1>5. /\ Len(Stream') = Len(Stream) + c
      /\ \A k \in 1..c : Stream'[Len(Stream) + k] = e[k]
  BY <1>2, <1>4, StreamGrows
<1>6. FrameTypeOK'
  <2>1. wire' \in Seq(Nat)
    BY <1>4, ConcatProperties DEF FramingInv, FrameTypeOK
  <2> QED BY <1>2, <2>1 DEF FramingInv, FrameTypeOK, TypeOK
<1>7. InFlight'
  <2>1. \A i \in 1..Len(flight) : Carried(i)'
    BY <1>2, <1>4, StillCarried
  <2> QED BY <1>2, <2>1 DEF InFlight
<1>8. Ascending' /\ Accounted'
  BY <1>2 DEF FramingInv, Ascending, Accounted, DeliveredInOrder
<1>9. LastInFlight'
  <2>1. HelloAfter(Len(flight))' = HelloAfter(Len(flight))
        /\ CompressAfter(Len(flight))' = CompressAfter(Len(flight))
        /\ Begins(Len(flight) + 1)' = Len(Stream) /\ Encoded(p, 0)' = Encoded(p, 0)
    BY <1>2, <1>3 DEF HelloAfter, CompressAfter, Begins, Encoded
  <2>2. Remains' = c
    <3>1. Len(Stream) \in Nat /\ c \in Int
      BY WhereTheyEnd
    <3>2. Remains' = (Len(Stream) + c) - Len(Stream)
      BY <1>5, <2>1 DEF Remains
    <3> QED BY <3>1, <3>2
  <2>3. \A k \in 1..Remains' : Stream'[Begins(Len(flight) + 1)' + k] = Encoded(p, 0)'[k]
    BY <1>4, <1>5, <2>1, <2>2
  <2>4. Remains' \in 1..(Len(Encoded(p, 0)') - 1) /\ Speakable(p, speaks'.hello)
    BY <1>1, <1>2, <1>3, <2>1, <2>2
  <2> QED BY <1>2, <2>1, <2>3, <2>4 DEF FramingInv, LastInFlight
<1>10. LoopPlace'
  BY <1>2, <1>3 DEF FramingInv, LoopPlace, Parsed
<1> QED BY <1>6, <1>7, <1>8, <1>9, <1>10 DEF FramingInv

-----------------------------------------------------------------------------
(* The server returns a packet: the others move up, with their bytes. *)

(* What is returned is the first packet in flight, and what the server keeps  *)
(* of it is what its client wrote the next one with.                          *)
LEMMA WhatIsReturned ==
  ASSUME SelfDelimiting, FramingInv, ReturnPacket
  PROVE  /\ flight # <<>> /\ flight[1].upto <= Len(buffer) /\ pc' = "parse" /\ wire' = wire
         /\ delivered' = Append(delivered, Understood(flight[1].packet, hello))
         /\ buffer' = SubSeq(buffer, flight[1].upto + 1, Len(buffer))
         /\ hello' = HelloAfter(1) /\ compress' = CompressAfter(1)
         /\ flight' = [i \in 1..(Len(flight) - 1) |->
                         [flight[i + 1] EXCEPT !.upto = @ - flight[1].upto]]
<1>1. Parsed.st = "ok"
  BY DEF ReturnPacket
<1>2. flight # <<>> /\ flight[1].upto <= Len(buffer)
  <2>1. ~(flight = <<>> \/ flight[1].upto > Len(buffer))
    BY <1>1, ParsedPart
  <2>2. flight # <<>>
    BY <2>1
  <2>3. flight[1].upto \in Nat
    BY <2>2, FirstInFlight
  <2>4. Len(buffer) \in Nat
    BY DEF FramingInv, FrameTypeOK
  <2> QED BY <2>1, <2>2, <2>3, <2>4
<1>3. Parsed = [st |-> "ok", val |-> Understood(flight[1].packet, hello), pos |-> flight[1].upto]
  BY <1>2, ParsedWhole
<1>4. Parsed.val = Understood(flight[1].packet, hello) /\ Parsed.pos = flight[1].upto
  BY <1>3
<1> DEFINE m == Understood(flight[1].packet, hello)
<1>5. /\ delivered' = Append(delivered, m)
      /\ SwitchCompress(m) /\ Advance(flight[1].upto) /\ StoreHello(m)
      /\ flight' = [i \in 1..(Len(flight) - 1) |->
                      [flight[i + 1] EXCEPT !.upto = @ - flight[1].upto]]
      /\ pc' = "parse" /\ wire' = wire
  BY <1>4 DEF ReturnPacket, ParseFirst
<1>6. /\ m.type = flight[1].packet.type
      /\ flight[1].packet.type = "hello" => m.val = flight[1].packet.val
      /\ flight[1].packet.type = "query" => ReadsCompression(m) = AsksCompression(flight[1].packet)
  BY <1>2, FirstInFlight, OneMeaning
<1>7. flight[1].hello = hello /\ flight[1].compress = compress
  <2>1. 1 \in 1..Len(flight)
    BY <1>2, EmptySeq DEF FramingInv, FrameTypeOK
  <2>2. Carried(1)
    BY <2>1 DEF FramingInv, InFlight
  <2> QED BY <2>2 DEF Carried, HelloAfter, CompressAfter
<1> HIDE DEF m
<1>8. hello' = HelloAfter(1) /\ compress' = CompressAfter(1)
  BY <1>5, <1>6, <1>7 DEF SwitchCompress, StoreHello, HelloAfter, CompressAfter
<1> QED BY <1>2, <1>5, <1>8 DEF Advance, m

(* The bytes of the stream move up with the buffer. *)
LEMMA StreamMoves ==
  ASSUME FramingInv, NEW u \in 0..Len(buffer), wire' = wire,
         buffer' = SubSeq(buffer, u + 1, Len(buffer))
  PROVE  /\ buffer' \in Seq(Nat) /\ Len(Stream') = Len(Stream) - u /\ Len(Stream) \in Nat
         /\ \A k \in 1..(Len(Stream) - u) : Stream'[k] = Stream[u + k]
<1>1. buffer \in Seq(Nat) /\ wire \in Seq(Nat) /\ Len(buffer) \in Nat /\ Len(wire) \in Nat
  BY DEF FramingInv, FrameTypeOK
<1>2. /\ buffer' \in Seq(Nat) /\ Len(buffer') = Len(buffer) - u
      /\ \A k \in 1..(Len(buffer) - u) : buffer'[k] = buffer[u + k]
  BY <1>1
<1>3. /\ Len(Stream) = Len(buffer) + Len(wire)
      /\ \A k \in 1..(Len(buffer) + Len(wire)) :
           Stream[k] = IF k <= Len(buffer) THEN buffer[k] ELSE wire[k - Len(buffer)]
  BY <1>1, ConcatProperties DEF Stream
<1>4. Stream' = buffer' \o wire
  BY DEF Stream
<1>5. /\ Len(Stream') = Len(buffer') + Len(wire)
      /\ \A k \in 1..(Len(buffer') + Len(wire)) :
           Stream'[k] = IF k <= Len(buffer') THEN buffer'[k] ELSE wire[k - Len(buffer')]
  BY <1>1, <1>2, <1>4, ConcatProperties
<1>6. ASSUME NEW k \in 1..(Len(Stream) - u) PROVE Stream'[k] = Stream[u + k]
  <2>1. /\ k \in 1..(Len(buffer') + Len(wire)) /\ u + k \in 1..(Len(buffer) + Len(wire))
        /\ k <= Len(buffer') <=> u + k <= Len(buffer)
        /\ k - Len(buffer') = (u + k) - Len(buffer)
    <3>1. /\ k \in Int /\ u \in Int /\ Len(buffer) \in Int /\ Len(wire) \in Int
          /\ 1 <= k /\ k <= (Len(buffer) + Len(wire)) - u /\ 0 <= u
      BY <1>1, <1>3
    <3>2. Len(buffer') = Len(buffer) - u
      BY <1>2
    <3>3. k \in 1..(Len(buffer') + Len(wire))
      BY <3>1, <3>2
    <3>4. u + k \in 1..(Len(buffer) + Len(wire))
      BY <3>1
    <3>5. k <= Len(buffer') <=> u + k <= Len(buffer)
      BY <3>1, <3>2
    <3>6. k - Len(buffer') = (u + k) - Len(buffer)
      <4>1. \A a, b, c \in Int : a - (b - c) = (c + a) - b
        OBVIOUS
      <4>2. k - (Len(buffer) - u) = (u + k) - Len(buffer)
        BY <3>1, <4>1
      <4> QED BY <3>2, <4>2
    <3> QED BY <3>3, <3>4, <3>5, <3>6
  <2>2. CASE k <= Len(buffer')
    <3>1. k \in 1..(Len(buffer) - u)
      BY <1>1, <1>2, <2>2
    <3> QED BY <1>2, <1>3, <1>5, <2>1, <2>2, <3>1
  <2>3. CASE ~(k <= Len(buffer'))
    BY <1>3, <1>5, <2>1, <2>3
  <2> QED BY <2>2, <2>3
<1> QED BY <1>1, <1>2, <1>3, <1>5, <1>6

(* The server returns a packet. *)
LEMMA ReturnStep ==
  ASSUME SelfDelimiting, FramingInv, Server, ReturnPacket
  PROVE  FramingInv'
<1>0. PICK u : u = flight[1].upto
  OBVIOUS
<1>1. PICK n \in Nat : n = Len(flight)
  BY WhereTheyEnd
<1> DEFINE m == Understood(flight[1].packet, hello)
<1>2. /\ flight # <<>> /\ u <= Len(buffer) /\ pc' = "parse" /\ wire' = wire
      /\ delivered' = Append(delivered, m)
      /\ buffer' = SubSeq(buffer, u + 1, Len(buffer))
      /\ hello' = HelloAfter(1) /\ compress' = CompressAfter(1)
      /\ flight' = [i \in 1..(n - 1) |-> [flight[i + 1] EXCEPT !.upto = @ - u]]
      /\ peer' = peer /\ sent' = sent /\ speaks' = speaks
  BY <1>0, <1>1, WhatIsReturned DEF Server
<1>3. /\ flight \in Seq(Frames) /\ 1 \in 1..n /\ n >= 1 /\ Len(flight) = n
      /\ delivered \in Seq(Meanings) /\ Len(delivered) \in Nat
      /\ sent \in Seq(Meanings) /\ Len(sent) = Len(delivered) + n
  <2>1. flight \in Seq(Frames) /\ delivered \in Seq(Meanings) /\ sent \in Seq(Meanings)
        /\ Len(sent) = Len(delivered) + Len(flight)
    BY DEF FramingInv, FrameTypeOK, Accounted
  <2>2. Len(flight) \in Nat \ {0}
    BY <1>2, <2>1, EmptySeq
  <2> QED BY <1>1, <2>1, <2>2
<1>4. /\ u \in Nat \ {0} /\ u \in 0..Len(buffer) /\ m \in Meanings
      /\ sent[Len(delivered) + 1] = m /\ flight[1].packet \in Packets
  <2>1. u \in Nat \ {0} /\ sent[Len(delivered) + 1] = m
        /\ flight[1].packet \in Packets /\ hello \in HelloValues
    BY <1>0, <1>2, FirstInFlight
  <2>2. Len(buffer) \in Nat
    BY DEF FramingInv, FrameTypeOK
  <2> QED BY <1>2, <2>1, <2>2, OneMeaning
<1> HIDE DEF m
<1>5. /\ buffer' \in Seq(Nat) /\ Len(Stream') = Len(Stream) - u /\ Len(Stream) \in Nat
      /\ \A k \in 1..(Len(Stream) - u) : Stream'[k] = Stream[u + k]
  BY <1>2, <1>4, StreamMoves
<1>6. ASSUME NEW i \in 1..(n - 1)
      PROVE  /\ i + 1 \in 1..n /\ i + 1 # 1 /\ (i + 1) - 1 = i /\ i \in 1..n
             /\ flight[i + 1] \in Frames /\ flight[i + 1].upto - u \in Nat
             /\ flight'[i] = [flight[i + 1] EXCEPT !.upto = flight[i + 1].upto - u]
             /\ flight'[i] \in Frames
  <2>1. i + 1 \in 1..n /\ 1 < i + 1 /\ i + 1 # 1 /\ (i + 1) - 1 = i /\ i \in 1..n
    BY <1>3
  <2>2. flight[i + 1] \in Frames
    BY <1>3, <2>1, ElementOfSeq
  <2>3. u < flight[i + 1].upto
    BY <1>0, <1>3, <2>1 DEF FramingInv, Ascending
  <2>4. flight[i + 1].upto - u \in Nat
    BY <1>4, <2>2, <2>3 DEF Frames
  <2>5. flight'[i] = [flight[i + 1] EXCEPT !.upto = flight[i + 1].upto - u]
    BY <1>2
  <2> QED BY <2>1, <2>2, <2>4, <2>5 DEF Frames
<1>7. ASSUME NEW i \in 1..(n - 1)
      PROVE  /\ flight'[i].packet = flight[i + 1].packet /\ flight'[i].hello = flight[i + 1].hello
             /\ flight'[i].compress = flight[i + 1].compress
             /\ flight'[i].bytes = flight[i + 1].bytes
             /\ flight'[i].upto = flight[i + 1].upto - u
  <2>1. /\ flight[i + 1] \in Frames /\ flight[i + 1].upto - u \in Nat
        /\ flight'[i] = [flight[i + 1] EXCEPT !.upto = flight[i + 1].upto - u]
    BY <1>6
  <2>2. ASSUME NEW r \in Frames, NEW v \in Nat
        PROVE  /\ [r EXCEPT !.upto = v].packet = r.packet /\ [r EXCEPT !.upto = v].hello = r.hello
               /\ [r EXCEPT !.upto = v].compress = r.compress
               /\ [r EXCEPT !.upto = v].bytes = r.bytes /\ [r EXCEPT !.upto = v].upto = v
    BY DEF Frames
  <2> QED BY <2>1, <2>2
<1>8. flight' \in Seq(Frames) /\ Len(flight') = n - 1
  <2>1. flight' \in [1..(n - 1) -> Frames] /\ n - 1 \in Nat
    BY <1>2, <1>3, <1>6, SMTT(20)
  <2> QED BY <2>1
<1>9. /\ delivered' \in Seq(Meanings) /\ Len(delivered') = Len(delivered) + 1
      /\ delivered'[Len(delivered) + 1] = m
      /\ \A i \in 1..Len(delivered) : delivered'[i] = delivered[i]
  <2>1. delivered' = Append(delivered, m)
    BY <1>2
  <2> QED BY <1>3, <1>4, <2>1, AppendProperties
<1>10. FrameTypeOK'
  <2>1. flight[1].hello \in HelloValues /\ flight[1].compress \in BOOLEAN
    <3>1. flight[1] \in Frames
      BY <1>3, ElementOfSeq
    <3> QED BY <3>1 DEF Frames
  <2>2. hello' \in HelloValues /\ compress' \in BOOLEAN
    BY <1>2, <1>4, <2>1, FieldTypes DEF HelloAfter, CompressAfter
  <2>3. \A i \in 1..Len(delivered') : delivered'[i] \in Meanings
    BY <1>9, ElementOfSeq
  <2>4. \A i \in 1..Len(delivered') : delivered'[i].type = "query" \/ delivered'[i] \in Packets
    BY <2>3, MeaningTypes
  <2>5. TypeOK'
    BY <1>2, <2>2, <2>4 DEF FramingInv, FrameTypeOK, TypeOK
  <2> QED BY <1>2, <1>5, <1>8, <1>9, <2>5 DEF FramingInv, FrameTypeOK
<1>11. ASSUME NEW i \in 1..n
       PROVE  Begins(i)' = Begins(i + 1) - u /\ Begins(i + 1) \in Nat
  <2>1. Begins(i + 1) \in Nat /\ Begins(i + 1) = flight[i].upto
    <3>1. i + 1 \in 1..(n + 1) /\ i + 1 # 1 /\ (i + 1) - 1 = i
      BY <1>3
    <3> QED BY <1>1, <3>1, WhereTheyEnd DEF Begins
  <2>2. CASE i = 1
    <3>1. Begins(i)' = 0
      BY <2>2 DEF Begins
    <3> QED BY <1>0, <1>4, <2>1, <2>2, <3>1
  <2>3. CASE i # 1
    <3>1. i - 1 \in 1..(n - 1) /\ (i - 1) + 1 = i
      BY <1>3, <2>3
    <3>2. flight'[i - 1].upto = flight[i].upto - u
      BY <1>7, <3>1
    <3> QED BY <2>1, <2>3, <3>2 DEF Begins
  <2> QED BY <2>2, <2>3
<1>12. ASSUME NEW i \in 0..(n - 1)
       PROVE  HelloAfter(i)' = HelloAfter(i + 1) /\ CompressAfter(i)' = CompressAfter(i + 1)
  <2>1. CASE i = 0
    BY <1>2, <2>1 DEF HelloAfter, CompressAfter
  <2>2. CASE i # 0
    <3>1. i \in 1..(n - 1) /\ i + 1 # 0
      BY <1>3, <2>2
    <3> QED BY <1>7, <2>2, <3>1 DEF HelloAfter, CompressAfter
  <2> QED BY <2>1, <2>2
<1>13. ASSUME NEW i \in 1..(n - 1) PROVE Carried(i)'
  <2>1. Carried(i + 1) /\ i + 1 \in 1..n /\ (i + 1) - 1 = i /\ i \in 1..n
    BY <1>3, <1>6 DEF FramingInv, InFlight
  <2>2. Begins(i)' = Begins(i + 1) - u /\ Begins(i + 1) \in Nat
    BY <1>11, <2>1
  <2>3. Len(flight[i + 1].bytes) \in Nat /\ flight[i + 1].upto \in Nat
    <3>1. flight[i + 1] \in Frames
      BY <1>6
    <3> QED BY <3>1 DEF Frames
  <2>4. flight'[i].upto = Begins(i)' + Len(flight'[i].bytes) /\ flight'[i].upto <= Len(Stream')
    <3>1. /\ flight[i + 1].upto = Begins(i + 1) + Len(flight[i + 1].bytes)
          /\ flight[i + 1].upto <= Len(Stream)
      BY <2>1 DEF Carried
    <3>2. flight'[i].upto = flight[i + 1].upto - u /\ flight'[i].bytes = flight[i + 1].bytes
      BY <1>7
    <3>3. flight'[i].upto = Begins(i)' + Len(flight'[i].bytes)
      BY <1>4, <2>2, <2>3, <3>1, <3>2, SMTT(20)
    <3>4. flight'[i].upto <= Len(Stream')
      BY <1>4, <1>5, <2>3, <3>1, <3>2
    <3> QED BY <3>3, <3>4
  <2>5. \A k \in 1..Len(flight'[i].bytes) : Stream'[Begins(i)' + k] = flight'[i].bytes[k]
    <3> SUFFICES ASSUME NEW k \in 1..Len(flight[i + 1].bytes)
                 PROVE  Stream'[Begins(i)' + k] = flight[i + 1].bytes[k]
      BY <1>7
    <3>1. Begins(i)' \in Nat
      <4>1. Begins(i + 1) = flight[i].upto
        BY <1>6 DEF Begins
      <4>2. i = 1 \/ u < flight[i].upto
        BY <1>0, <1>3, <2>1 DEF FramingInv, Ascending
      <4> QED BY <1>0, <1>4, <2>2, <4>1, <4>2
    <3>2. Begins(i)' + k \in 1..(Len(Stream) - u) /\ u + (Begins(i)' + k) = Begins(i + 1) + k
      <4>1. /\ flight[i + 1].upto = Begins(i + 1) + Len(flight[i + 1].bytes)
            /\ flight[i + 1].upto <= Len(Stream)
        BY <2>1 DEF Carried
      <4>2. k \in Nat /\ 1 <= k /\ k <= Len(flight[i + 1].bytes)
        BY <2>3
      <4>3. u \in Nat /\ Len(Stream) \in Nat
        BY <1>4, <1>5
      <4>4. u + (Begins(i)' + k) = Begins(i + 1) + k
        BY <2>2, <3>1, <4>2, <4>3
      <4>5. Begins(i + 1) + k <= Len(Stream)
        BY <2>2, <2>3, <4>1, <4>2, <4>3
      <4>6. Begins(i)' + k \in Nat /\ 1 <= Begins(i)' + k
        BY <3>1, <4>2
      <4> QED BY <4>3, <4>4, <4>5, <4>6
    <3>3. Stream'[Begins(i)' + k] = Stream[u + (Begins(i)' + k)]
      BY <1>5, <3>2
    <3> QED BY <2>1, <3>2, <3>3 DEF Carried
  <2>6. flight'[i].hello = HelloAfter(i - 1)' /\ flight'[i].compress = CompressAfter(i - 1)'
    <3>1. i - 1 \in 0..(n - 1) /\ (i - 1) + 1 = i
      BY <1>3
    <3> QED BY <1>7, <1>12, <2>1, <3>1 DEF Carried
  <2>7. sent'[Len(delivered') + i] = Understood(flight'[i].packet, flight'[i].hello)
    <3>1. Len(delivered') + i = Len(delivered) + (i + 1)
      BY <1>3, <1>9
    <3> QED BY <1>2, <1>7, <2>1, <3>1 DEF Carried
  <2>8. /\ Speakable(flight'[i].packet, flight'[i].hello)
        /\ \E s \in Splits :
             flight'[i].bytes = Encode(flight'[i].packet, flight'[i].hello, flight'[i].compress, s)
    BY <1>7, <2>1 DEF Carried
  <2> QED BY <2>4, <2>5, <2>6, <2>7, <2>8 DEF Carried
<1>14. Ascending'
  <2> SUFFICES ASSUME NEW i \in 1..(n - 1), NEW j \in 1..(n - 1), i < j
               PROVE  flight'[i].upto < flight'[j].upto
    BY <1>8 DEF Ascending
  <2>1. flight[i + 1].upto < flight[j + 1].upto
    BY <1>3, <1>6 DEF FramingInv, Ascending
  <2>2. flight[i + 1].upto \in Nat /\ flight[j + 1].upto \in Nat
    BY <1>6 DEF Frames
  <2> QED BY <1>4, <1>7, <2>1, <2>2
<1>15. LastInFlight'
  <2>1. n - 1 \in 0..(n - 1) /\ (n - 1) + 1 = n /\ n \in 1..n /\ Len(flight') = n - 1
    BY <1>3, <1>8
  <2>2. HelloAfter(n - 1)' = HelloAfter(n) /\ CompressAfter(n - 1)' = CompressAfter(n)
    BY <1>12, <2>1
  <2>3. Begins(n)' = Begins(n + 1) - u /\ Begins(n + 1) \in Nat
    BY <1>11, <2>1
  <2>4. Remains' = Len(Stream') - Begins(n)' /\ Remains = Len(Stream) - Begins(n + 1)
    BY <1>3, <2>1 DEF Remains, Begins
  <2>5. Remains' = Remains /\ Remains \in Nat
    <3>1. Begins(n + 1) <= Len(Stream)
      BY <1>1, <1>3, WhereTheyEnd
    <3> QED BY <1>4, <1>5, <2>3, <2>4, <3>1
  <2>6. HelloAfter(Len(flight))' = HelloAfter(Len(flight))
        /\ CompressAfter(Len(flight))' = CompressAfter(Len(flight))
    BY <1>3, <2>1, <2>2 DEF HelloAfter, CompressAfter
  <2>7. CASE peer # "cut"
    BY <1>2, <2>5, <2>6, <2>7 DEF FramingInv, LastInFlight
  <2>8. CASE peer = "cut"
    <3>1. PICK p \in Packets :
            /\ Speakable(p, speaks.hello)
            /\ Remains \in 1..(Len(Encoded(p, 0)) - 1)
            /\ \A k \in 1..Remains : Stream[Begins(Len(flight) + 1) + k] = Encoded(p, 0)[k]
      BY <2>8 DEF FramingInv, LastInFlight
    <3>2. Encoded(p, 0)' = Encoded(p, 0)
      BY <1>2 DEF Encoded
    <3>3. ASSUME NEW k \in 1..Remains PROVE Stream'[Begins(n)' + k] = Encoded(p, 0)[k]
      <4>1. Begins(n)' \in Nat
        <5>1. Begins(n + 1) = flight[n].upto
          BY <1>3 DEF Begins
        <5>2. n = 1 \/ u < flight[n].upto
          BY <1>0, <1>3 DEF FramingInv, Ascending
        <5> QED BY <1>0, <1>4, <2>3, <5>1, <5>2
      <4>2. Begins(n)' + k \in 1..(Len(Stream) - u) /\ u + (Begins(n)' + k) = Begins(n + 1) + k
        <5>1. k \in Int /\ 1 <= k /\ k <= Len(Stream) - Begins(n + 1)
          BY <2>4, <2>5
        <5> QED BY <1>4, <1>5, <2>3, <4>1, <5>1, SMTT(20)
      <4>3. Stream'[Begins(n)' + k] = Stream[u + (Begins(n)' + k)]
        BY <1>5, <4>2
      <4> QED BY <1>3, <3>1, <4>2, <4>3
    <3>4. Begins(Len(flight) + 1)' = Begins(n)'
      BY <2>1 DEF Begins
    <3> QED BY <1>2, <2>5, <2>6, <3>1, <3>2, <3>3, <3>4, ZenonT(40) DEF FramingInv, LastInFlight
  <2> QED BY <2>7, <2>8
<1>16. Accounted'
  <2>1. IsPrefix(delivered, sent)
    BY DEF FramingInv, Accounted, DeliveredInOrder
  <2>2. \A i \in 1..Len(delivered) : delivered[i] = sent[i]
    BY <1>3, <2>1, PrefixElements
  <2>3. Len(delivered') <= Len(sent) /\ \A i \in 1..Len(delivered') : delivered'[i] = sent[i]
    <3>1. \A i \in 1..Len(delivered') : i \in 1..Len(delivered) \/ i = Len(delivered) + 1
      BY <1>3, <1>9
    <3> QED BY <1>3, <1>4, <1>9, <2>2, <3>1
  <2>4. IsPrefix(delivered', sent)
    BY <1>3, <1>9, <2>3, PrefixElements
  <2> QED BY <1>2, <1>3, <1>8, <1>9, <2>4 DEF Accounted, DeliveredInOrder
<1>17. LoopPlace'
  BY <1>2 DEF LoopPlace
<1>18. InFlight'
  BY <1>8, <1>13 DEF InFlight
<1> QED BY <1>10, <1>14, <1>15, <1>16, <1>17, <1>18 DEF FramingInv

-----------------------------------------------------------------------------
(* Every step. *)
LEMMA FramingStep ==
  ASSUME SelfDelimiting, FramingInv, [Next]_vars PROVE FramingInv'
<1>1. ASSUME NEW p \in Packets, NEW s \in Splits, ClientWrite(p, s) PROVE FramingInv'
  BY <1>1, WriteStep
<1>2. CASE ClientClose
  BY <1>2, CloseStep
<1>3. ASSUME NEW p \in Packets, ClientCut(p) PROVE FramingInv'
  BY <1>3, CutStep
<1>4. CASE Server
  <2>1. CASE ReturnPacket
    BY <1>4, <2>1, ReturnStep
  <2>2. CASE WouldBlock
    BY <1>4, <2>2, BlockStep
  <2>3. CASE ReadEof
    BY <1>4, <2>3, EofStep
  <2>4. ASSUME NEW n \in 1..Len(wire), ReadBuf(n) PROVE FramingInv'
    BY <1>4, <2>4, ReadStep
  <2> QED BY <1>4, <2>1, <2>2, <2>3, <2>4 DEF Server
<1>5. CASE UNCHANGED vars
  BY <1>5, FramingStutter
<1> QED BY <1>1, <1>2, <1>3, <1>4, <1>5 DEF Next

(* FramingInv holds in every reachable state, for every codec whose packets   *)
(* are read back whatever follows them.                                       *)
THEOREM FramingInvariance ==
  ASSUME SelfDelimiting PROVE Spec => []FramingInv
<1>1. FramingInv /\ [Next]_vars => FramingInv'
  BY FramingStep
<1> QED BY <1>1, InitFraming, PTL DEF Spec

(* Type correctness: in particular the Hello the parser is given is always    *)
(* one that a client sent.                                                    *)
THEOREM FramingTypeCorrect ==
  ASSUME SelfDelimiting PROVE Spec => []TypeOK
<1>1. FramingInv => TypeOK
  BY DEF FramingInv, FrameTypeOK
<1> QED BY <1>1, FramingInvariance, PTL

(* read_packet returns the packets of the stream unchanged and in order,      *)
(* however they are cut into reads, and however compression and revision      *)
(* change on the way.                                                         *)
THEOREM PacketsInOrder ==
  ASSUME SelfDelimiting PROVE Spec => []DeliveredInOrder
<1>1. FramingInv => DeliveredInOrder
  BY DEF FramingInv, Accounted
<1> QED BY <1>1, FramingInvariance, PTL

(* parse_packet never takes the beginning of a valid stream for an error.     *)
THEOREM PrefixIsNotRejected ==
  ASSUME SelfDelimiting PROVE Spec => []NeverRejected
<1>1. FramingInv => NeverRejected
  <2> SUFFICES ASSUME FramingInv PROVE NeverRejected
    OBVIOUS
  <2>1. CASE flight = <<>> \/ flight[1].upto > Len(buffer)
    BY <2>1, ParsedPart DEF NeverRejected
  <2>2. CASE ~(flight = <<>> \/ flight[1].upto > Len(buffer))
    <3>1. flight # <<>>
      BY <2>2
    <3>2. flight[1].upto \in Nat /\ Len(buffer) \in Nat
      BY <3>1, FirstInFlight DEF FramingInv, FrameTypeOK
    <3>3. flight[1].upto <= Len(buffer)
      BY <2>2, <3>2
    <3>4. Parsed.st = "ok"
      BY <3>1, <3>3, ParsedWhole
    <3> QED BY <3>4 DEF NeverRejected
  <2> QED BY <2>1, <2>2
<1> QED BY <1>1, FramingInvariance, PTL

(* The end of the stream is told from a broken packet, and is reported only   *)
(* when every packet has been returned.                                       *)
THEOREM EndIsReported ==
  ASSUME SelfDelimiting PROVE Spec => []EofReported
<1>1. FramingInv => EofReported
  <2> SUFFICES ASSUME FramingInv, pc \in {"none", "reset"}
               PROVE  /\ delivered = sent
                      /\ pc = "none" => peer = "closed"
                      /\ pc = "reset" => peer = "cut"
    BY DEF EofReported
  <2>1. wire = <<>> /\ peer # "open" /\ flight = <<>> /\ (pc = "none" <=> buffer = <<>>)
    BY DEF FramingInv, LoopPlace
  <2>2. /\ buffer \in Seq(Nat) /\ wire \in Seq(Nat) /\ peer \in {"open", "closed", "cut"}
        /\ delivered \in Seq(Meanings) /\ sent \in Seq(Meanings)
        /\ Len(sent) = Len(delivered) + Len(flight) /\ IsPrefix(delivered, sent)
    BY DEF FramingInv, FrameTypeOK, TypeOK, Accounted, DeliveredInOrder
  <2>3. Len(flight) = 0 /\ Len(delivered) \in Nat /\ Len(sent) = Len(delivered)
    BY <2>1, <2>2
  <2>4. delivered = sent
    <3>1. \A i \in 1..Len(delivered) : delivered[i] = sent[i]
      BY <2>2, PrefixElements
    <3> QED BY <2>2, <2>3, <3>1, SeqEqual
  <2>5. Remains = Len(buffer)
    <3>1. Begins(Len(flight) + 1) = 0
      BY <2>3 DEF Begins
    <3>2. Len(Stream) = Len(buffer) /\ Len(buffer) \in Nat
      <4>1. Len(wire) = 0
        BY <2>1
      <4> QED BY <2>2, <4>1, StreamIs
    <3> QED BY <3>1, <3>2 DEF Remains
  <2>6. peer = "cut" <=> buffer # <<>>
    <3>1. peer = "cut" => Remains # 0
      BY DEF FramingInv, LastInFlight
    <3>2. peer # "cut" => Remains = 0
      BY DEF FramingInv, LastInFlight
    <3>3. buffer = <<>> <=> Len(buffer) = 0
      BY <2>2, EmptySeq
    <3> QED BY <2>5, <3>1, <3>2, <3>3
  <2> QED BY <2>1, <2>2, <2>4, <2>6
<1> QED BY <1>1, FramingInvariance, PTL
=============================================================================
