-------------------------------- MODULE Wire --------------------------------
(***************************************************************************)
(* The decoders of the client packets and the encoders they answer to, as  *)
(* functions on sequences of bytes: read_ex.rs, uvarint.rs, encoder.rs,    *)
(* parser.rs, protocol_hello.rs, protocol_query.rs, block_info.rs, and the *)
(* load and write of blocks with and without compression.                  *)
(*                                                                         *)
(* A decoder reads buf from position pos and returns "ok" with a value and *)
(* the new position, "block" (io::ErrorKind::WouldBlock: buf ends too      *)
(* early), "err", or "panic".  Bytes are scaled down: the runs give a      *)
(* varint byte fewer bits than 7 and a word fewer than 64, in the same     *)
(* proportion (Uvarint).  A fixed-width scalar is one symbol.              *)
(***************************************************************************)
EXTENDS Uvarint, SequencesExt, Bitwise

\* `|`.  (Bound by set constructors, here and below, so that TLC computes each
\* operand once.)
BitOr(x, y) == CHOOSE z \in {IF a = 0 THEN b ELSE a | b : a \in {x}, b \in {y}} : TRUE

\* DBMS_MIN_REVISION_WITH_..., in their order.
CLIENT_INFO == 1
SERVER_TIMEZONE == 2
QUOTA_KEY == 3
SERVER_DISPLAY_NAME == 4
VERSION_PATCH == 5
CLIENT_WRITE_INFO == 6

TCP == 1
HTTP == 2
INITIAL_QUERY == 1
LZ4 == 130                  \* 0x82
MAX_COMPRESSED_SIZE == 500  \* DBMS_MAX_COMPRESSED_SIZE

\* The `?` operator: go on with the value and the position of r.
Then(r, F(_)) == CHOOSE t \in {IF v.st = "ok" THEN F(v) ELSE v : v \in {r}} : TRUE

-----------------------------------------------------------------------------
(* ReadEx *)

\* read_bytes
ReadBytes(buf, pos, n) ==
  IF pos + n <= Len(buf) THEN Ok(SubSeq(buf, pos + 1, pos + n), pos + n) ELSE Fault("block")

\* read_scalar of a one-symbol value
ReadScalar(buf, pos) == Then(ReadBytes(buf, pos, 1), LAMBDA r : Ok(r.val[1], r.pos))

\* read_string
ReadString(buf, pos) == Then(ReadUvarint(buf, pos), LAMBDA r : ReadBytes(buf, r.pos, r.val))

\* One field after the other, stopping at the first that fails.
RECURSIVE ReadFields(_, _, _)
ReadFields(kinds, buf, pos) ==
  IF kinds = <<>> THEN Ok(<<>>, pos)
  ELSE Then(CASE Head(kinds) = "u8" -> ReadScalar(buf, pos)
              [] Head(kinds) = "var" -> ReadUvarint(buf, pos)
              [] Head(kinds) = "str" -> ReadString(buf, pos),
            LAMBDA r : Then(ReadFields(Tail(kinds), buf, r.pos),
                            LAMBDA rest : Ok(<<r.val>> \o rest.val, rest.pos)))

-----------------------------------------------------------------------------
(* Encoder *)

PutString(s) == PutUvarint(Len(s)) \o s

PutFields(kinds, vals) ==
  FlattenSeq([i \in 1..Len(kinds) |->
    CASE kinds[i] = "u8" -> <<vals[i]>>
      [] kinds[i] = "var" -> PutUvarint(vals[i])
      [] kinds[i] = "str" -> PutString(vals[i])])

-----------------------------------------------------------------------------
(* HelloRequest::read_from *)

HelloFields == <<"str", "var", "var", "var", "str", "str", "str">>
HelloRevision(h) == h[4]

ReadHello(buf, pos) ==
  Then(ReadFields(HelloFields, buf, pos), LAMBDA r :
    IF r.val[6] = <<>> THEN Fault("err")      \* no user
    ELSE Ok([type |-> "hello", val |-> r.val], r.pos))

(* QueryClientInfo::read_from *)

ClientInfoHead == <<"str", "str", "str", "u8">>

InterfaceFields(interface) ==
  CASE interface = TCP -> <<"str", "str", "str", "var", "var", "var">>
    [] interface = HTTP -> <<"u8", "str">>
    [] OTHER -> <<>>

\* The fields that depend on the revision in the client info itself.
RevisionFields(interface, revision) ==
  (IF revision >= QUOTA_KEY THEN <<"str">> ELSE <<>>)
    \o (IF interface = TCP /\ revision >= VERSION_PATCH THEN <<"var">> ELSE <<>>)

InfoRevision(interface, vals) == IF interface = TCP THEN vals[6] ELSE 0

ReadClientInfo(buf, pos) ==
  Then(ReadScalar(buf, pos), LAMBDA kind :
    IF kind.val = 0 THEN Ok(<<0>>, kind.pos)
    ELSE Then(ReadFields(ClientInfoHead, buf, kind.pos), LAMBDA h :
      Then(ReadFields(InterfaceFields(h.val[4]), buf, h.pos), LAMBDA f :
        Then(ReadFields(RevisionFields(h.val[4], InfoRevision(h.val[4], f.val)), buf, f.pos),
             LAMBDA g : Ok(<<kind.val, h.val, f.val, g.val>>, g.pos)))))

\* What QueryRequest::read_from makes of the client info: without one it
\* stands in the Hello, and the interface is always TCP.
FillInfo(info, hello) ==
  IF info[1] = 0 THEN <<INITIAL_QUERY, hello>> ELSE [info EXCEPT ![2][4] = TCP]

\* The settings loop: known names with a varint that is thrown away, ended by
\* an empty name.
Known == { <<1>>, <<2>> }   \* "max_block_size", "max_threads"

RECURSIVE ReadSettings(_, _)
ReadSettings(buf, pos) ==
  Then(ReadString(buf, pos), LAMBDA name :
    IF name.val = <<>> THEN Ok(<<>>, name.pos)
    ELSE IF name.val \notin Known THEN Fault("err")     \* UnknownSetting
    ELSE Then(ReadUvarint(buf, name.pos), LAMBDA v : ReadSettings(buf, v.pos)))

\* QueryRequest::read_from, after the given Hello
ReadQuery(buf, pos, hello) ==
  Then(ReadString(buf, pos), LAMBDA id :
    Then(IF HelloRevision(hello) >= CLIENT_INFO
           THEN ReadClientInfo(buf, id.pos) ELSE Ok(<<0>>, id.pos), LAMBDA info :
      Then(ReadSettings(buf, info.pos), LAMBDA set :
        Then(ReadFields(<<"var", "var", "str">>, buf, set.pos), LAMBDA r :
          Ok([type |-> "query", val |-> <<id.val, FillInfo(info.val, hello), r.val>>], r.pos)))))

Compression(query) == query.val[3][2]

-----------------------------------------------------------------------------
(* Block::raw_load: BlockInfo, the numbers of columns and rows, the columns. *)

InfoFields == <<"var", "u8", "var", "u8", "var">>
BlockInfo == <<1, 0, 2, 255, 0>>

RECURSIVE ReadColumns(_, _, _, _)
ReadColumns(buf, pos, n, rows) ==
  IF n = 0 THEN Ok(<<>>, pos)
  ELSE Then(ReadFields(<<"str", "str">>, buf, pos), LAMBDA h :
         Then(ReadBytes(buf, h.pos, rows), LAMBDA d :
           Then(ReadColumns(buf, d.pos, n - 1, rows), LAMBDA rest :
             Ok(<< <<h.val[1], h.val[2], d.val>> >> \o rest.val, rest.pos))))

RawLoad(buf, pos) ==
  Then(ReadFields(InfoFields \o <<"var", "var">>, buf, pos), LAMBDA h :
    ReadColumns(buf, h.pos, h.val[6], h.val[7]))

RowCount(cols) == IF cols = <<>> THEN 0 ELSE Len(cols[1][3])

RawWrite(cols) ==
  PutFields(InfoFields, BlockInfo) \o PutUvarint(Len(cols)) \o PutUvarint(RowCount(cols))
    \o FlattenSeq([i \in 1..Len(cols) |->
         PutString(cols[i][1]) \o PutString(cols[i][2]) \o cols[i][3]])

-----------------------------------------------------------------------------
(* The compressed form: a checksum, the method, both sizes and the payload.  *)
(* LZ4 and CityHash are external: any invertible code and any checksum.      *)

Squeeze(data) == [i \in DOMAIN data |-> data[i] + 1000]
Unsqueeze(data) == [i \in DOMAIN data |-> data[i] - 1000]
Hash(data) == FoldSeq(LAMBDA x, y : (x + 3 * y) % 97, 7, data)

HeaderLen == 3              \* 9 bytes: method, compressed size, original size

CompressedWrite(data) ==
  LET buf == <<LZ4, HeaderLen + Len(data), Len(data)>> \o Squeeze(data)
  IN  <<Hash(buf)>> \o buf

HashMatches(hash, data) == hash = Hash(data)

\* buffer[9..] of a buffer of the compressed size, which the header fills up
PayloadLen(compressed) == IF compressed < HeaderLen THEN 0 ELSE compressed - HeaderLen

\* decompress_buffer; compressed - 9 underflows when the size is too small
Decompress(buf, pos) ==
  Then(ReadFields(<<"u8", "u8">>, buf, pos), LAMBDA h :
    IF h.val[2] # LZ4 THEN Fault("err")
    ELSE Then(ReadFields(<<"u8", "u8">>, buf, h.pos), LAMBDA n :
      IF n.val[1] > MAX_COMPRESSED_SIZE THEN Fault("err")
      ELSE Then(ReadBytes(buf, n.pos, PayloadLen(n.val[1])), LAMBDA d :
        IF ~HashMatches(h.val[1], <<LZ4>> \o n.val \o d.val) THEN Fault("err")
        ELSE IF n.val[1] < HeaderLen THEN Fault(IF Release THEN "err" ELSE "panic")
        ELSE Ok(Unsqueeze(d.val), d.pos))))

\* raw_load through a CompressedReader: when the decompressed bytes run out,
\* fill decompresses the next frame; an empty frame reads as WouldBlock.
RECURSIVE CompressedLoad(_, _, _)
CompressedLoad(buf, pos, data) ==
  Then(Decompress(buf, pos), LAMBDA d :
    IF d.val = <<>> THEN Fault("block")
    ELSE LET r == RawLoad(data \o d.val, 0) IN
           IF r.st = "block" THEN CompressedLoad(buf, d.pos, data \o d.val)
           ELSE Then(r, LAMBDA s : Ok(s.val, d.pos)))

ReadData(buf, pos, compress) ==
  Then(ReadString(buf, pos), LAMBDA table :
    Then(IF compress THEN CompressedLoad(buf, table.pos, <<>>) ELSE RawLoad(buf, table.pos),
         LAMBDA b : Ok([type |-> "data", val |-> b.val], b.pos)))

-----------------------------------------------------------------------------
(* Parser::parse_packet.  hello is <<>> before the first Hello.              *)

ClientHello == 0
ClientQuery == 1
ClientData == 2
ClientCancel == 3
\* CLIENT_PING (4) and CLIENT_SCALAR (7), which is read like CLIENT_DATA
ClientPing == 4
ClientScalar == 7

ParsePacket(buf, hello, compress) ==
  Then(ReadUvarint(buf, 0), LAMBDA t :
    CASE t.val = ClientPing -> Ok([type |-> "ping", val |-> <<>>], t.pos)
      [] t.val = ClientCancel -> Ok([type |-> "cancel", val |-> <<>>], t.pos)
      [] t.val \in {ClientData, ClientScalar} -> ReadData(buf, t.pos, compress)
      [] t.val = ClientQuery /\ hello # <<>> -> ReadQuery(buf, t.pos, hello)
      [] t.val = ClientHello -> ReadHello(buf, t.pos)
      [] OTHER -> Fault("err"))   \* UnknownPacket, or a Query before Hello

-----------------------------------------------------------------------------
(* What a client writes.  The Data packet is Block::send_client_data; the    *)
(* others are external, the inverse of the readers above.                    *)

PutClientInfo(info) ==
  IF info[1] = 0 THEN <<0>>
  ELSE LET interface == info[2][4] IN
       <<info[1]>> \o PutFields(ClientInfoHead, info[2])
         \o PutFields(InterfaceFields(interface), info[3])
         \o PutFields(SubSeq(<<"str", "var">>, 1, Len(info[4])), info[4])

PutQuery(v, hello) ==
  PutString(v[1]) \o (IF HelloRevision(hello) >= CLIENT_INFO THEN PutClientInfo(v[2]) ELSE <<>>)
    \o FlattenSeq([i \in 1..Len(v[3]) |-> PutString(v[3][i][1]) \o PutUvarint(v[3][i][2])])
    \o PutString(<<>>) \o PutFields(<<"var", "var", "str">>, v[4])

\* split: the writer starts a second compressed frame after so many bytes.
PutData(cols, compress, split) ==
  LET raw == RawWrite(cols) IN
  IF ~compress THEN raw
  ELSE IF split = 0 THEN CompressedWrite(raw)
  ELSE CompressedWrite(SubSeq(raw, 1, split)) \o CompressedWrite(SubSeq(raw, split + 1, Len(raw)))

PutPacket(p, hello, compress, split) ==
  CASE p.type = "ping" -> PutUvarint(ClientPing)
    [] p.type = "cancel" -> PutUvarint(ClientCancel)
    [] p.type = "hello" -> PutUvarint(ClientHello) \o PutFields(HelloFields, p.val)
    [] p.type = "query" -> PutUvarint(ClientQuery) \o PutQuery(p.val, hello)
    [] p.type = "data" -> PutUvarint(ClientData) \o PutString(<<>>) \o PutData(p.val, compress, split)

\* Hello before any Query, and no client info for a revision without one.
Speaks(p, hello) ==
  p.type = "query" => /\ hello # <<>>
                      /\ HelloRevision(hello) < CLIENT_INFO => p.val[2] = <<0>>

\* What the server is to make of the packet: settings are dropped.
Meaning(p, hello) ==
  IF p.type # "query" THEN p
  ELSE [p EXCEPT !.val = <<p.val[1], FillInfo(p.val[2], hello), p.val[4]>>]

\* The compression a Query asks for, in what is written and in what is read.
Asks(p) == p.val[4][2] > 0
Reads(p) == Compression(p) > 0
=============================================================================
