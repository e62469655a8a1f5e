------------------------------ MODULE Transfer ------------------------------
(***************************************************************************)
(* Blocks on their way from one end of a connection to the other: a block  *)
(* is filled row by row, cut into chunks of at most InsertBlockSize rows,  *)
(* written behind the header of a data packet (send_server_data, or        *)
(* send_client_data, which has the same body) and read back packet by      *)
(* packet (parse_packet and Block::load).                                  *)
(*                                                                         *)
(* The columns of a block all have the types in `types`, and so has a row. *)
(* Column names and block info are one symbol each on the wire; a reader   *)
(* that meets another symbol where it expects one of them fails.           *)
(***************************************************************************)
EXTENDS Columns

CONSTANTS
  BlockTypes,        \* the column types of the blocks, a set of sequences of types
  Values(_),         \* the values of a type that rows are made of
  InsertBlockSize,   \* INSERT_BLOCK_SIZE
  MaxRows,           \* bound: rows in all blocks together
  MaxBlocks          \* bound: blocks that are sent

ASSUME TransferAssumption ==
  /\ InsertBlockSize \in Nat \ {0}
  /\ MaxRows \in Nat /\ MaxBlocks \in Nat

DATA == 900          \* SERVER_DATA, CLIENT_DATA
INFO == 901          \* BlockInfo
HEADER == 902        \* the name of a column

VARIABLES
  types,       \* the types of the columns
  block,       \* the columns of the block that is being filled
  rows,        \* history: the rows of that block
  wire,        \* what has been written and not been read yet
  sent,        \* history: the blocks that were sent, as their rows and who wrote them
  received,    \* the blocks that were read
  failed       \* a packet could not be read

vars == <<types, block, rows, wire, sent, received, failed>>

EmptyBlock == [i \in DOMAIN types |-> ColumnFrom(types[i], <<>>)]

Init ==
  /\ types \in BlockTypes
  /\ block = EmptyBlock
  /\ rows = <<>> /\ wire = <<>> /\ sent = <<>> /\ received = <<>> /\ failed = FALSE

RowCount(b) == IF b = <<>> THEN 0 ELSE Length(b[1])

-----------------------------------------------------------------------------
(* ChunkIterator *)

\* The blocks that chunks(size) yields: next adds `size` to position until it
\* reaches the number of rows, and an empty block is one empty chunk.
Chunks(b, size) ==
  LET m == RowCount(b) IN
  IF m = 0 THEN <<[i \in DOMAIN b |-> Slice(b[i], 0, 0)]>>
  ELSE [k \in 1..((m + size - 1) \div size) |->
          [i \in DOMAIN b |-> Slice(b[i], (k - 1) * size, Min({k * size, m}))]]

\* Column::write: the name of the column, the name of its type, and its rows.
WriteColumn(c, name) == <<HEADER>> \o PutString(name) \o Save(c, 0, Length(c))

\* Block::write, with the names of the types
WriteAs(b, names) ==
  <<INFO, Len(b), RowCount(b)>> \o FlattenSeq([i \in DOMAIN b |-> WriteColumn(b[i], names[i])])

RowsBeforeColumns(b) ==
  <<INFO, RowCount(b), Len(b)>>
    \o FlattenSeq([i \in DOMAIN b |-> WriteColumn(b[i], TypeName(SqlType(b[i])))])

WriteBlock(b) == WriteAs(b, [i \in DOMAIN b |-> TypeName(SqlType(b[i]))])

\* Column::read of n rows
ReadColumn(n, w) ==
  IF Len(w) < 2 \/ w[1] # HEADER \/ Len(w) < 2 + w[2] THEN NotLoaded
  ELSE LoadData(SubSeq(w, 3, 2 + w[2]), n, SubSeq(w, 3 + w[2], Len(w)))

\* append_column
Appended(columns, col) == Append(columns, col)

\* Column::read, column after column, into the columns `done`
RECURSIVE LoadColumns(_, _, _, _)

AppendRead(done, columns, n, read) ==
  IF read.ok THEN LoadColumns(Appended(done, read.col), columns - 1, n, read.rest) ELSE NotLoaded

LoadColumns(done, columns, n, w) ==
  IF columns = 0 THEN Loaded(done, w) ELSE AppendRead(done, columns, n, ReadColumn(n, w))

\* raw_load
RawLoad(w) ==
  IF Len(w) >= 3 /\ w[1] = INFO THEN LoadColumns(<<>>, w[2], w[3], SubSeq(w, 4, Len(w))) ELSE NotLoaded

\* parse_packet and parse_data: the type of the packet, the name of the
\* temporary table and one block.
ParsePacket(w) ==
  IF Len(w) >= 2 /\ w[1] = DATA /\ w[2] = 0 THEN RawLoad(SubSeq(w, 3, Len(w))) ELSE NotLoaded

\* PartialEq of Block
BlockEq(a, b) == Len(a) = Len(b) /\ \A i \in DOMAIN a : ColumnEq(a[i], b[i])

-----------------------------------------------------------------------------
(* The names that another implementation of the protocol gives to types: an  *)
(* alias, a DateTime64 without its time zone, quotes with backslashes.       *)

Escaped(chars) ==
  FlattenSeq([i \in DOMAIN chars |->
    IF chars[i] \in {Mark.quote, Mark.backslash} THEN <<Mark.backslash, chars[i]>> ELSE <<chars[i]>>])

PeerLeafName(t) ==
  CASE t.k = "decimal" /\ t.p = DigitsOfI32 -> WithParams(Word.Decimal32, <<t.s>>)
    [] t.k = "decimal" /\ t.p = DigitsOfI64 -> WithParams(Word.Decimal64, <<t.s>>)
    [] t.k = "enum" ->
         EnumName([t EXCEPT !.values = [i \in DOMAIN @ |-> <<Escaped(@[i][1]), @[i][2]>>]])
    [] t.k = "datetime64" -> WithParams(Word.DateTime64, <<t.p>>)
    [] \E i \in 1..4 : SimpleTypes[i] = t -> <<Alias(CHOOSE i \in 1..4 : SimpleTypes[i] = t)>>
    [] OTHER -> LeafName(t)

PeerName(type) == Nested(type, PeerLeafName(Last(type)))

-----------------------------------------------------------------------------
\* A row, one value for each column.
Row == {r \in [DOMAIN types -> UNION {Values(types[i]) : i \in DOMAIN types}] :
          \A i \in DOMAIN types : r[i] \in Values(types[i])}

HasRoom ==
  /\ types # <<>>
  /\ Len(rows) + FoldSeq(LAMBDA b, n : n + Len(b.rows), 0, sent) < MaxRows /\ Len(sent) < MaxBlocks

\* Block::push of a row that has a value for every column.  There is no Value
\* for a time with nanoseconds.
PushRow(r) ==
  /\ HasRoom
  /\ \A i \in DOMAIN types : Last(types[i]) # Chrono /\ Accepts(types[i], r[i])
  /\ block' = [i \in DOMAIN block |-> Push(block[i], r[i])]
  /\ rows' = Append(rows, r)
  /\ UNCHANGED <<types, wire, sent, received, failed>>

\* Block::column for every column, with vectors of the rows so far and r.
FromVectors(r) ==
  /\ HasRoom
  /\ rows' = Append(rows, r)
  /\ LET vector(i) == [j \in DOMAIN rows' |-> rows'[j][i]] IN
       /\ \A i \in DOMAIN types : VectorType(types[i], vector(i)) = types[i]
       /\ block' = [i \in DOMAIN types |-> ColumnFrom(types[i], vector(i))]
  /\ UNCHANGED <<types, wire, sent, received, failed>>

\* push of a value that panics, or save of a column that cannot be saved: the
\* block goes with its task, and nothing of it has been written.
Panic ==
  /\ \E i \in DOMAIN types :
       ~CanSave(types[i]) \/ \E v \in Values(types[i]) : ~Accepts(types[i], v)
  /\ block' = EmptyBlock /\ rows' = <<>>
  /\ UNCHANGED <<types, wire, sent, received, failed>>

\* send_server_data and send_client_data
SendData ==
  /\ Len(sent) < MaxBlocks
  /\ \A i \in DOMAIN types : CanSave(types[i])
  /\ wire' = wire \o <<DATA, 0>> \o
       FlattenSeq([k \in DOMAIN Chunks(block, InsertBlockSize) |->
                     WriteBlock(Chunks(block, InsertBlockSize)[k])])
  /\ sent' = Append(sent, [rows |-> rows, by |-> "crate"])
  /\ block' = EmptyBlock /\ rows' = <<>>
  /\ UNCHANGED <<types, received, failed>>

\* The same block from another implementation, which has neither Chrono nor
\* enums without values, and can write a DateTime64.
PeerData ==
  /\ Len(sent) < MaxBlocks
  /\ \A i \in DOMAIN types : Last(types[i]) # Chrono /\ (Last(types[i]).k = "enum" => Last(types[i]).values # <<>>)
  /\ wire' = wire \o <<DATA, 0>> \o WriteAs(block, [i \in DOMAIN types |-> PeerName(types[i])])
  /\ sent' = Append(sent, [rows |-> rows, by |-> "peer"])
  /\ block' = EmptyBlock /\ rows' = <<>>
  /\ UNCHANGED <<types, received, failed>>

\* The next packet on the wire is parsed.
ReadPacket ==
  /\ wire # <<>> /\ ~failed
  /\ \E r \in {ParsePacket(wire)} :
       /\ failed' = ~r.ok
       /\ wire' = r.rest
       /\ received' = IF r.ok THEN Append(received, r.col) ELSE received
  /\ UNCHANGED <<types, block, rows, sent>>

Next ==
  \/ \E r \in Row : PushRow(r) \/ FromVectors(r)
  \/ Panic \/ SendData \/ PeerData \/ ReadPacket

Spec == Init /\ [][Next]_vars

-----------------------------------------------------------------------------
RowsOf(b) == [j \in 1..RowCount(b) |-> [i \in DOMAIN b |-> At(b[i], j - 1)]]

(* A block holds the rows that were pushed into it, cell by cell and none    *)
(* more, however its columns nest, and the iterator over chunks of any size  *)
(* cuts them into parts that are all there and do not overlap: written and   *)
(* loaded on its own, each chunk is the part of the rows it stands for, and  *)
(* the loader stops where the chunk ends.                                    *)
ChunksRoundTrip ==
  \A size \in 1..MaxRows :
    LET chunks == Chunks(block, size)
        loads == [k \in DOMAIN chunks |-> RawLoad(WriteBlock(chunks[k]))]
    IN  /\ \A k \in DOMAIN loads : loads[k].ok /\ loads[k].rest = <<>>
        /\ FlattenSeq([k \in DOMAIN loads |-> RowsOf(loads[k].col)]) = rows

\* to_string gives the type a name that load_data reads: an enum from a vector
\* has no values, and quotes and backslashes in names are printed as they are.
HasName(type) ==
  Last(type).k = "enum" =>
    /\ Last(type).values # <<>>
    /\ \A pair \in Range(Last(type).values) : Range(pair[1]) \cap {Mark.quote, Mark.backslash} = {}

(* The same of blocks without Array columns that can be saved, NULLs and     *)
(* strings of different lengths included.                                    *)
FlatChunksRoundTrip ==
  (\A i \in DOMAIN types : Array \notin Range(types[i]) /\ CanSave(types[i]) /\ HasName(types[i]))
    => ChunksRoundTrip

\* A block of at most INSERT_BLOCK_SIZE rows, from this crate if its types have
\* names: larger ones are chunks behind a single packet header.
Sendable(b) ==
  b.by = "crate" => Len(b.rows) <= InsertBlockSize /\ \A i \in DOMAIN types : HasName(types[i])

(* Every packet that was sent can be read, whoever wrote it and however it   *)
(* spells the types, and the k-th block received has the rows of the k-th    *)
(* block sent under the types they were sent with: no cell, row or block is  *)
(* lost, and none is read twice.  Up to the first block that is not Sendable.*)
ReceivedIsSent ==
  LET sendable(k) == \A j \in 1..k : Sendable(sent[j])
  IN  /\ sendable(Len(sent)) =>
           /\ ~failed
           /\ Len(received) <= Len(sent)
           /\ wire = <<>> => Len(received) = Len(sent)
      /\ \A k \in DOMAIN received : sendable(Min({k, Len(sent)})) =>
           /\ RowsOf(received[k]) = sent[k].rows
           /\ [i \in DOMAIN received[k] |-> SqlType(received[k][i])] = types

(* `==` of blocks is equality of their types and cells, also between a block *)
(* that was filled and one that was loaded, if no cell is an address or UUID.*)
EqualIsSameRows ==
  (\A i \in DOMAIN types : Last(types[i]).k \notin IpKinds) =>
    \A a, b \in {block} \cup Range(received) :
      BlockEq(a, b) <=>
        /\ [i \in DOMAIN a |-> SqlType(a[i])] = [i \in DOMAIN b |-> SqlType(b[i])]
        /\ RowsOf(a) = RowsOf(b)

Abs(n) == IF n < 0 THEN -n ELSE n

\* n at scale s is m at scale t, digits beyond t dropped.
Dropped(m, t, n, s) ==
  /\ Abs(m) * 10^s <= Abs(n) * 10^t /\ Abs(n) * 10^t < (Abs(m) + 1) * 10^s
  /\ m * n >= 0

\* A time up to the next unit.
Within(time, from, unit) == from.nanos <= time.nanos /\ time.nanos < from.nanos + unit

\* x, of type t, is what a cell v becomes.
CastOf(x, v, t) ==
  CASE t.k = "string" -> x = Leaf(Str, BytesOf(v))
    [] t.k = "fixed" -> x = Leaf(Str, Resize(BytesOf(v), t.w))
    [] t.k = "enum" -> x = Leaf(t, v.bytes)
    [] t.k = "decimal" ->
         Abs(Signed(v.bytes)) * 10^t.s < 10^(t.p + v.leaf.s) =>
           x.leaf = t /\ Dropped(Signed(x.bytes), t.s, Signed(v.bytes), v.leaf.s)
    [] t.k = "datetime" -> TimeOf(v).nanos >= 0 => Within(TimeOf(v), TimeOf(x), Second)
    [] t.k = "datetime64" ->
         TimeOf(v).nanos >= 0 => Within(TimeOf(v), TimeOf(x), 10^(NanoDigits - t.p))

CastTypes ==
  LET leaves == {FixedString(2), Decimal(1, 0), Decimal(1, 1), Decimal(3, 1), Decimal(3, 3),
                 Enum8(<<<<<<3>>, 1>>>>), DateTime, DateTime64(0), DateTime64(1), DateTime64(2)}
  IN  {<<Str>>} \cup {<<t>> : t \in leaves} \cup {<<Nullable, t>> : t \in leaves}

(* cast_to changes the type of a column and none of its rows: written under  *)
(* the new type and loaded again, NULL is still NULL, a string is the same   *)
(* bytes, cut or padded with zeros to the length of the FixedString, a       *)
(* decimal that has a place in the new type loses the digits beyond its      *)
(* scale and nothing else, and a time from 1970 on loses what the precision  *)
(* of the new type does not hold.                                            *)
CastKeepsRows ==
  \A i \in DOMAIN types, dst \in CastTypes :
    CanCast(dst, types[i]) /\ (dst # types[i] \/ CanSave(dst)) =>
      LET n == Length(block[i])
          r == LoadData(TypeName(dst), n, Save(CastTo(block[i], dst), 0, n))
      IN  /\ SqlType(CastTo(block[i], dst)) = dst
          /\ r.ok /\ r.rest = <<>> /\ Length(r.col) = n
          /\ \A j \in 1..n :
               LET x == At(r.col, j - 1)
                   v == rows[j][i]
               IN  IF Head(dst) = Nullable
                   THEN /\ NullFlag(x) = NullFlag(v)
                        /\ NullFlag(v) = 0 => CastOf(x.some, v.some, dst[2])
                   ELSE CastOf(x, v, dst[1])

(* The block being filled has columns of the agreed types, all as long as    *)
(* the rows put into it, and what has been sent are rows of those types.     *)
TypeOK ==
  /\ types \in BlockTypes
  /\ \A i \in DOMAIN block : SqlType(block[i]) = types[i] /\ Length(block[i]) = Len(rows)
  /\ \A k \in DOMAIN sent : sent[k].by \in {"crate", "peer"} /\ sent[k].rows \in Seq(Row)
  /\ failed \in BOOLEAN
=============================================================================
