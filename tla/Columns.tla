------------------------------ MODULE Columns ------------------------------
(***************************************************************************)
(* The columns of a block (types/column/): how rows are stored, read back, *)
(* cut into chunks, written to the wire and loaded from it.                *)
(*                                                                         *)
(* Like a type (SqlTypes) a column is a sequence of layers, outermost      *)
(* first, each a constructor with the data of that layer alone:            *)
(* Array(Nullable(UInt8)) is a layer of offsets over a layer of null flags *)
(* over a layer of bytes.  Rows are numbered from 0, as in the code.  A    *)
(* string's length and an array's offset are one symbol on the wire        *)
(* (Varint has the varints).  Scalars has the arithmetic of decimals and   *)
(* times.                                                                  *)
(***************************************************************************)
EXTENDS SqlTypes, ChunkSearch

(* Layers that are not constructors of a type *)
Chunk(s, e) == [k |-> "chunk", s |-> s, e |-> e]   \* ChunkColumnData
Adapter(type) == [k |-> "adapter", to |-> type]    \* the adapters of cast_to

(* Value: each carries what SqlType::from(value) needs. *)
Leaf(t, bs) == [leaf |-> t, bytes |-> bs]
Null(type) == [null |-> type]                      \* Nullable(Left(type))
Some(v) == [some |-> v]                            \* Nullable(Right(v))
ArrayOf(type, vs) == [of |-> type, items |-> vs]
DecimalOf(t, n) == Leaf(t, IntBytes(n, I64))       \* the underlying number is an i64
Is(v, tag) == tag \in DOMAIN v

RECURSIVE TypeOfValue(_)
TypeOfValue(v) ==
  CASE Is(v, "leaf") -> <<v.leaf>>
    [] Is(v, "null") -> <<Nullable>> \o v.null
    [] Is(v, "some") -> <<Nullable>> \o TypeOfValue(v.some)
    [] Is(v, "of") -> <<Array>> \o v.of

Zeros(n) == [i \in 1..n |-> 0]

\* Vec::resize(n, 0)
Resize(s, n) == [i \in 1..n |-> IF i <= Len(s) THEN s[i] ELSE 0]

\* Value::default
Default(type) ==
  CASE Head(type).k = "fixed" -> Leaf(Str, Zeros(Head(type).w))
    [] Head(type).k = "decimal" -> DecimalOf(Head(type), 0)
    [] Head(type).k = "datetime64" -> Leaf(DateTime64(1), Zeros(I64))
    [] Head(type).k = "chrono" -> Leaf(DateTime, Zeros(U32))
    [] Head(type).k \in FlatKinds \ {"fixed", "decimal", "datetime64"} ->
         Leaf(Head(type), Zeros(Head(type).w))
    [] Head(type).k = "string" -> Leaf(Str, <<>>)
    [] Head(type).k = "nullable" -> Null(Tail(type))
    [] Head(type).k = "array" -> ArrayOf(Tail(type), <<>>)

-----------------------------------------------------------------------------
Layer(t, data) == [t |-> t, data |-> data]

\* sql_type
RECURSIVE SqlType(_)
SqlType(c) ==
  CASE Head(c).t.k = "chunk" -> SqlType(Tail(c))
    [] Head(c).t.k = "adapter" -> Head(c).t.to
    [] Len(c) = 1 -> <<c[1].t>>
    [] OTHER -> <<Head(c).t>> \o SqlType(Tail(c))

\* IpColumnData::with_capacity: `capacity` rows of zeros
IpWithCapacity(t, capacity) == Zeros(capacity * t.w)

\* from_type: the vectors of the other columns start empty.
FromType(type, capacity) ==
  [i \in DOMAIN type |->
     Layer(IF type[i] = Chrono THEN DateTime ELSE type[i],
           IF type[i].k \in IpKinds THEN IpWithCapacity(type[i], capacity) ELSE <<>>)]

RECURSIVE Length(_)
Length(c) ==
  LET top == Head(c) IN
  CASE top.t.k \in FlatKinds -> Len(top.data) \div top.t.w
    [] top.t.k \in {"string", "array", "chrono"} -> Len(top.data)
    [] top.t.k = "chunk" -> top.t.e - top.t.s
    [] OTHER -> Length(Tail(c))

\* The value that NullableColumnData::push hands to the column inside.
InnerValue(v) ==
  CASE Is(v, "null") -> Default(v.null)
    [] Is(v, "some") -> v.some
    [] OTHER -> v

\* From<Value> for DateTime.  A DateTime<Tz> in a vector is Leaf(Chrono, time).
TimeOf(v) ==
  CASE v.leaf.k = "datetime" -> Time(Unsigned(v.bytes) * Second)
    [] v.leaf.k = "datetime64" -> ToDatetime(Signed(v.bytes), v.leaf.p)
    [] v.leaf.k = "chrono" -> v.bytes

\* push does not panic on v: it has the type that the column stores.
RECURSIVE Accepts(_, _)
Accepts(type, v) ==
  CASE Head(type).k \in {"string", "fixed"} -> Is(v, "leaf") /\ v.leaf = Str
    [] Head(type).k = "nullable" -> Accepts(Tail(type), InnerValue(v))
    [] Head(type).k = "array" -> Is(v, "of") /\ \A i \in DOMAIN v.items : Accepts(Tail(type), v.items[i])
    [] Head(type).k \in TimeKinds ->
         Is(v, "leaf") /\ v.leaf.k \in TimeKinds /\ TimeOf(v) # NoTime
    [] Head(type).k = "decimal" -> Is(v, "leaf") /\ v.leaf.k = "decimal"
    [] Head(type).k = "enum" -> Is(v, "leaf") /\ v.leaf.k = "enum" /\ v.leaf.w = Head(type).w
    [] OTHER -> Is(v, "leaf") /\ v.leaf = Head(type)

\* What FixedStringColumnData::push leaves in its buffer.
FixedExtend(buffer, str_len, bs) ==
  LET l == Min({Len(bs), str_len})
  IN  Resize(buffer \o SubSeq(bs, 1, l), Len(buffer) + (str_len - l))

LastOffset(offsets) == IF offsets = <<>> THEN 0 ELSE Last(offsets)

\* The flag of a value
NullFlag(v) == IF Is(v, "null") THEN 1 ELSE 0

\* get_stamp of a u16: From<Value> for Date, and get_days of that date
DateStamp(v) == IntBytes(LocalDay(Unsigned(v.bytes)), U16)

\* get_stamp of a u32
DateTimeStamp(v) == IntBytes(Timestamp(TimeOf(v)), U32)

DateTime64Stamp(v, precision) == IntBytes(FromDatetime(TimeOf(v), precision), I64)

\* The underlying number of a decimal whole, whatever the width of the column
StampUncut(t, v) ==
  CASE t.k = "date" -> DateStamp(v)
    [] t.k = "datetime" -> DateTimeStamp(v)
    [] t.k = "datetime64" -> DateTime64Stamp(v, t.p)
    [] OTHER -> v.bytes

\* What push adds to the buffer of a column of rows of one width.
Stamp(t, v) ==
  CASE t.k = "decimal" -> AsWidth(v.bytes, t.w)
    [] t.k = "date" -> DateStamp(v)
    [] t.k = "datetime" -> DateTimeStamp(v)
    [] t.k = "datetime64" -> DateTime64Stamp(v, t.p)
    [] OTHER -> v.bytes

\* ColumnData::push
RECURSIVE Push(_, _)

PushNullable(c, v) ==
  <<[Head(c) EXCEPT !.data = Append(@, NullFlag(v))]>> \o Push(Tail(c), InnerValue(v))

PushArray(c, v) ==
  <<[Head(c) EXCEPT !.data = Append(@, LastOffset(@) + Len(v.items))]>>
    \o FoldLeft(LAMBDA col, x : Push(col, x), Tail(c), v.items)

Push(c, v) ==
  LET top == Head(c) IN
  CASE top.t.k = "fixed" -> <<[top EXCEPT !.data = FixedExtend(@, top.t.w, v.bytes)]>>
    [] top.t.k \in FlatKinds \ {"fixed"} -> <<[top EXCEPT !.data = @ \o Stamp(top.t, v)]>>
    [] top.t.k = "chrono" -> <<[top EXCEPT !.data = Append(@, TimeOf(v))]>>
    [] top.t.k = "string" -> <<[top EXCEPT !.data = Append(@, v.bytes)]>>
    [] top.t.k = "nullable" -> PushNullable(c, v)
    [] top.t.k = "array" -> PushArray(c, v)

\* The type that column_from gives to a vector of values of a type: decimals
\* have 18 digits and the scale of the first one, enums no names, and times
\* are kept with their nanoseconds.
VectorType(type, vs) ==
  LET t == Last(type)
      present == SelectSeq(vs, LAMBDA v : ~Is(v, "null"))
  IN  CASE t.k = "decimal" -> Front(type) \o <<Decimal(DigitsOfI64, IF present = <<>> THEN 4 ELSE t.s)>>
        [] t.k = "enum" -> Front(type) \o <<[t EXCEPT !.values = <<>>]>>
        [] t.k \in TimeKinds -> Front(type) \o <<Chrono>>
        [] OTHER -> type

\* at of a Chrono column: whole seconds
AtChrono(time) == Leaf(DateTime, IntBytes(Timestamp(time), U32))

\* What column_from pushes for a value: in a vector of vectors, times lose
\* their nanoseconds.
InVector(type, v) ==
  IF type = <<Array, Chrono>>
  THEN ArrayOf(v.of, [i \in DOMAIN v.items |-> AtChrono(v.items[i].bytes)])
  ELSE v

\* ColumnFrom::column_from: an empty column, and a push of every value; dates
\* are stored as they are.
ColumnFrom(type, vs) ==
  IF type = <<Date>> THEN <<Layer(Date, FlattenSeq([i \in DOMAIN vs |-> vs[i].bytes]))>>
  ELSE FoldLeft(LAMBDA col, x : Push(col, InVector(type, x)),
                [i \in DOMAIN type |-> Layer(type[i], <<>>)], vs)

OffsetAt(offsets, i) == IF i > 0 THEN offsets[i] ELSE 0

\* ColumnData::at
RECURSIVE At(_, _)

AtNullable(c, i) ==
  IF Head(c).data[i + 1] = 1 THEN Null(SqlType(Tail(c))) ELSE Some(At(Tail(c), i))

AtArray(c, i) ==
  LET start == OffsetAt(Head(c).data, i)
  IN  ArrayOf(SqlType(Tail(c)), [j \in 1..(Head(c).data[i + 1] - start) |-> At(Tail(c), start + j - 1)])

AtChunk(c, i) == At(Tail(c), i + Head(c).t.s)

\* The bytes of a row as a value
AtFlat(t, bs) ==
  CASE t.k = "decimal" -> Leaf(t, AsWidth(bs, I64))
    [] t.k = "fixed" -> Leaf(Str, bs)
    [] OTHER -> Leaf(t, bs)

\* A decimal at the scale of t
Rescaled(v, t) == DecimalOf(t, SetScale(Signed(v.bytes), v.leaf.s, t.s))

\* unimplemented!()
Unimplemented == [panic |-> "not implemented"]

\* at of the adapters.  Those of strings and enums hand out the cells as they
\* are, and that of times is not there.
AtAdapter(c, i) ==
  LET to == Head(c).t.to
      v == At(Tail(c), i)
  IN  CASE Head(to).k \in TimeKinds -> Unimplemented
        [] Head(to).k = "decimal" -> Rescaled(v, to[1])
        [] Head(to).k = "nullable" /\ Last(to).k \in {"decimal", "enum"} ->
             IF Is(v, "null") THEN Null(to)
             ELSE Some(IF to[2].k = "decimal" THEN Rescaled(v.some, to[2]) ELSE Leaf(to[2], v.some.bytes))
        [] OTHER -> v

At(c, i) ==
  LET top == Head(c) IN
  CASE top.t.k \in FlatKinds -> AtFlat(top.t, SubSeq(top.data, i * top.t.w + 1, (i + 1) * top.t.w))
    [] top.t.k = "chrono" -> AtChrono(top.data[i + 1])
    [] top.t.k = "string" -> Leaf(Str, top.data[i + 1])
    [] top.t.k = "nullable" -> AtNullable(c, i)
    [] top.t.k = "array" -> AtArray(c, i)
    [] top.t.k = "chunk" -> AtChunk(c, i)
    [] top.t.k = "adapter" -> AtAdapter(c, i)

Rows(c) == [i \in 1..Length(c) |-> At(c, i - 1)]

-----------------------------------------------------------------------------
(* `==` of cells and of columns. *)

\* PartialEq of Decimal
DecimalEq(a, b) ==
  LET n == Signed(a.bytes)
      m == Signed(b.bytes)
  IN  IF a.leaf.s <= b.leaf.s THEN n * 10^(b.leaf.s - a.leaf.s) = m
      ELSE m * 10^(a.leaf.s - b.leaf.s) = n

\* PartialEq of ValueRef, which has no case for addresses and UUIDs.
LeafEq(a, b) ==
  CASE a.leaf.k \in IpKinds -> FALSE
    [] a.leaf.k = "date" -> LocalDay(Unsigned(a.bytes)) = LocalDay(Unsigned(b.bytes))
    [] a.leaf.k = "datetime64" -> TimeOf(a) = TimeOf(b)
    [] a.leaf.k = "decimal" -> DecimalEq(a, b)
    [] OTHER -> a = b

RECURSIVE ValueEq(_, _)
ValueEq(a, b) ==
  CASE Is(a, "leaf") -> LeafEq(a, b)
    [] Is(a, "null") \/ Is(b, "null") -> a = b
    [] Is(a, "some") /\ Is(b, "some") -> ValueEq(a.some, b.some)
    [] Is(a, "of") ->
         /\ a.of = b.of /\ Len(a.items) = Len(b.items)
         /\ \A i \in DOMAIN a.items : ValueEq(a.items[i], b.items[i])

ColumnEqFromSecond(c, d) ==
  /\ Length(c) = Length(d) /\ SqlType(c) = SqlType(d)
  /\ \A i \in 1..(Length(c) - 1) : ValueEq(At(c, i), At(d, i))

\* PartialEq of Column; the names are not compared.
ColumnEq(c, d) ==
  /\ Length(c) = Length(d) /\ SqlType(c) = SqlType(d)
  /\ \A i \in 0..(Length(c) - 1) : ValueEq(At(c, i), At(d, i))

-----------------------------------------------------------------------------
(* Chunks of a column, several columns as one, and casts. *)

Slice(c, s, e) == <<Layer(Chunk(s, e), <<>>)>> \o c

\* build_index
BuildIndex(sizes) == FoldLeft(LAMBDA index, n : Append(index, Last(index) + n), <<0>>, sizes)

\* find_chunk: pass after pass, from s on
RECURSIVE Search(_, _, _)
Search(index, ix, s) == IF Looping(s) THEN Search(index, ix, Narrow(index, ix, s)) ELSE s.chunk

FindChunk(index, ix) == Search(index, ix, Start(index))

\* ConcatColumnData::at and len of the columns cs
Index(cs) == BuildIndex([n \in DOMAIN cs |-> Length(cs[n])])

ChunkOf(cs, i) == FindChunk(Index(cs), i)

ConcatAt(cs, i) == At(cs[ChunkOf(cs, i) + 1], i - Index(cs)[ChunkOf(cs, i) + 1])

ConcatLength(cs) == Last(Index(cs))

\* Types that differ in the parameters of their last constructor only.
SameShape(dst, src) ==
  Len(dst) = Len(src) /\ Front(dst) = Front(src) /\ Last(dst).k = Last(src).k

\* The types between which cast_to has an adapter for the whole column.
HasAdapter(dst, src) ==
  \/ Head(dst).k = "fixed" /\ src \in {<<Str>>, <<Array, Num(1)>>}
  \/ dst = <<Str>> /\ src = <<Array, Num(1)>>
  \/ Len(dst) = 2 /\ dst[1] = Nullable /\ dst[2].k = "fixed" /\ src = <<Nullable, Str>>
  \/ /\ SameShape(dst, src) /\ Front(dst) \in {<<>>, <<Nullable>>}
     /\ \/ Last(dst).k = "decimal"
        \/ Last(dst).k = "enum" /\ Last(dst).w = Last(src).w

\* ColumnData::cast_to: Nullable and Array cast the column inside.
CastInside(dst, src) ==
  Len(dst) = Len(src) /\ Front(dst) = Front(src) /\ Last(src) = Chrono /\ Last(dst).k \in TimeKinds

CanCast(dst, src) == dst = src \/ HasAdapter(dst, src) \/ CastInside(dst, src)

\* Column::cast_to, where it does not return InvalidType.
CastTo(c, dst) ==
  LET src == SqlType(c) IN
  CASE dst = src -> c
    [] Head(dst).k = "fixed" /\ src = <<Array, Num(1)>> ->
         <<Layer(Adapter(dst), <<>>), Layer(Adapter(<<Str>>), <<>>)>> \o c
    [] dst # src /\ CastInside(dst, src) -> Front(c) \o <<Layer(Adapter(<<Last(dst)>>), <<>>), Last(c)>>
    [] OTHER -> <<Layer(Adapter(dst), <<>>)>> \o c

-----------------------------------------------------------------------------
(* The wire. *)

PutString(bs) == <<Len(bs)>> \o bs

\* as_bytes of a String, Vec<u8>::from_sql of an Array(UInt8)
BytesOf(v) == IF Is(v, "leaf") THEN v.bytes ELSE FlattenSeq([i \in DOMAIN v.items |-> v.items[i].bytes])

\* What is written of the rows s to e - 1, row after row.
EachRow(s, e, saved) == FlattenSeq([i \in 1..(e - s) |-> saved[s + i - 1]])

\* A string as a FixedString(n): buffer.resize(str_len, 0)
Padded(bs, n) == Resize(bs, n)

\* What the adapters write for a cell.
SavedFixed(v, n) == Padded(BytesOf(v), n)

SavedString(v) == PutString(BytesOf(v))

SavedDecimal(v, t) == AsWidth(v.bytes, t.w)

SavedEnum(v) == v.bytes

SavedCell(v, t) ==
  CASE t.k = "fixed" -> SavedFixed(v, t.w)
    [] t.k = "string" -> SavedString(v)
    [] t.k = "decimal" -> SavedDecimal(v, t)
    [] t.k = "enum" -> SavedEnum(v)

\* ChronoDateTimeAdapter::save reads the times, not the cells.
SavedTime(time, t) ==
  IF t.k = "datetime64" THEN IntBytes(FromDatetime(time, t.p), I64)
  ELSE IntBytes(Timestamp(time), U32)

\* save of the nullable adapters: the flags, and a cell or zeros for each row
SaveNullableAdapter(c, t, s, e) ==
  EachRow(s, e, [i \in s..(e - 1) |-> <<NullFlag(At(c, i))>>])
    \o EachRow(s, e, [i \in s..(e - 1) |->
         IF Is(At(c, i), "null") THEN Zeros(t.w) ELSE SavedCell(At(c, i).some, t)])

SaveAdapter(c, s, e) ==
  LET to == Head(c).t.to IN
  CASE to[1].k = "nullable" -> SaveNullableAdapter(c, to[2], s, e)
    [] to[1].k \in TimeKinds -> EachRow(s, e, [i \in s..(e - 1) |-> SavedTime(c[2].data[i + 1], to[1])])
    [] OTHER -> EachRow(s, e, [i \in s..(e - 1) |-> SavedCell(At(c, i), to[1])])

SliceStartIgnored(chunk, s) == s

\* Where ChunkColumnData::save starts.
SliceStart(chunk, s) == chunk.s + s

\* ColumnData::save of rows s..e
RECURSIVE Save(_, _, _)

\* save is unimplemented!() in columns of DateTime64 and of Chrono.
CanSave(type) == Last(type).k \notin {"datetime64", "chrono"}

\* save_data
SaveFlat(top, s, e) == SubSeq(top.data, s * top.t.w + 1, e * top.t.w)

SaveStrings(top, s, e) == FlattenSeq([i \in 1..(e - s) |-> PutString(top.data[s + i])])

SaveNullable(c, s, e) == SubSeq(Head(c).data, s + 1, e) \o Save(Tail(c), s, e)

\* The offsets of the rows, and the inner rows from the first one.
SaveArray(c, s, e) ==
  SubSeq(Head(c).data, s + 1, e) \o Save(Tail(c), 0, IF s < e THEN Head(c).data[e] ELSE 0)

SaveChunk(c, s, e) ==
  LET chunk == Head(c).t IN Save(Tail(c), SliceStart(chunk, s), Min({chunk.e, chunk.s + e}))

Save(c, s, e) ==
  LET top == Head(c) IN
  CASE top.t.k \in FlatKinds -> SaveFlat(top, s, e)
    [] top.t.k = "string" -> SaveStrings(top, s, e)
    [] top.t.k = "nullable" -> SaveNullable(c, s, e)
    [] top.t.k = "array" -> SaveArray(c, s, e)
    [] top.t.k = "chunk" -> SaveChunk(c, s, e)
    [] top.t.k = "adapter" -> SaveAdapter(c, s, e)

Loaded(c, rest) == [ok |-> TRUE, col |-> c, rest |-> rest]
NotLoaded == [ok |-> FALSE, col |-> <<>>, rest |-> <<>>]

\* n bytes from the wire as the data of a layer, and then the layer below.
LoadFlat(t, n, wire) ==
  IF n <= Len(wire) THEN Loaded(<<Layer(t, SubSeq(wire, 1, n))>>, SubSeq(wire, n + 1, Len(wire)))
  ELSE NotLoaded

RECURSIVE LoadStrings(_, _, _)
LoadStrings(done, n, wire) ==
  CASE n = 0 -> Loaded(<<Layer(Str, done)>>, wire)
    [] n > 0 /\ (wire = <<>> \/ Len(wire) <= Head(wire)) -> NotLoaded
    [] OTHER -> LoadStrings(Append(done, SubSeq(wire, 2, 1 + Head(wire))), n - 1,
                            SubSeq(wire, 2 + Head(wire), Len(wire)))

\* The layer that was read, over the column that was read after it.
OverInner(own, inner) ==
  IF inner.ok THEN Loaded(own.col \o inner.col, inner.rest) ELSE NotLoaded

\* load_data of n rows of the type with the given name
RECURSIVE LoadData(_, _, _)

LoadNullable(name, n, wire) ==
  LET own == LoadFlat(Nullable, n, wire)
  IN  IF own.ok THEN OverInner(own, LoadData(InnerName(name), n, own.rest)) ELSE NotLoaded

\* The last offset is the number of the rows inside.
LoadArray(name, n, wire) ==
  LET own == LoadFlat(Array, n, wire)
  IN  IF own.ok
      THEN OverInner(own, LoadData(InnerName(name), LastOffset(own.col[1].data), own.rest))
      ELSE NotLoaded

\* load of the column class that a constructor stands for
LoadAs(t, name, n, wire) ==
  CASE t.k \in FlatKinds -> LoadFlat(t, n * t.w, wire)
    [] t.k = "string" -> LoadStrings(<<>>, n, wire)
    [] t.k = "nullable" -> LoadNullable(name, n, wire)
    [] t.k = "array" -> LoadArray(name, n, wire)
    [] t.k = "unsupported" -> NotLoaded

LoadData(name, n, wire) == LoadAs(Constructor(name), name, n, wire)
=============================================================================
