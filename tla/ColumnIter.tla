----------------------------- MODULE ColumnIter -----------------------------
(***************************************************************************)
(* The iterators over a column (types/column/iter/): they walk the buffers *)
(* of the layers with raw pointers and share nothing with at.  A simple    *)
(* iterator has a cursor for each layer; ComplexIterator goes through the  *)
(* columns of a concatenation and opens a simple iterator on each.         *)
(*                                                                         *)
(* The columns have come from the wire.  iter may be asked for the items   *)
(* of any type; one iterator that it gives out is followed.                *)
(***************************************************************************)
EXTENDS Columns

CONSTANTS
  Types,     \* the types of the columns
  NullFlags, \* what a peer may write for NULL: 1, or another byte
  Values(_), \* the values of a type
  MaxRows,   \* bound: rows of a column, over all its parts
  MaxParts   \* bound: columns in a concatenation

ASSUME IterAssumption == MaxRows \in Nat /\ MaxParts \in Nat /\ NullFlags \subseteq Nat \ {0}

VARIABLES
  type,      \* the type of the column
  parts,     \* the columns of the concatenation; one, for a simple column
  complex,   \* the column is a ConcatColumnData
  status,    \* "closed", "open", "invalid" (iter returned an error) or "panic"
  fits,      \* the items that iter was asked for are those of the column
  index,     \* current_index: the parts that have been opened
  cursors,   \* current: the cursors of the open iterator, <<>> for None
  passed,    \* history: rows that the calls so far have gone past
  result     \* what the last call returned

vars == <<type, parts, complex, status, fits, index, cursors, passed, result>>

None == [some |-> FALSE]
Item(v) == [some |-> TRUE, item |-> v]

\* The column of the rows vs as load_data makes it from the wire.
Arrived(vs) ==
  LET sent == CASE Head(type).k = "fixed" -> CastTo(ColumnFrom(<<Str>>, vs), type)
                [] Last(type).k \in TimeKinds -> CastTo(ColumnFrom(VectorType(type, vs), vs), type)
                [] OTHER -> ColumnFrom(type, vs)
  IN  LoadData(TypeName(type), Len(vs), Save(sent, 0, Len(vs))).col

\* The ways to spread the rows vs over n columns, some of them empty.
Split(vs, n) ==
  {[i \in 1..n |-> Arrived(SubSeq(vs, ends[i - 1] + 1, ends[i]))] :
     ends \in {f \in [0..n -> 0..Len(vs)] :
                 f[0] = 0 /\ f[n] = Len(vs) /\ \A i \in 1..n : f[i - 1] <= f[i]}}

\* A column with another byte for NULL
WithFlag(c, flag) ==
  [d \in DOMAIN c |->
     IF c[d].t = Nullable
     THEN Layer(Nullable, [i \in DOMAIN c[d].data |-> IF c[d].data[i] = 0 THEN 0 ELSE flag])
     ELSE c[d]]

\* NullFlags: the bytes that the peer writes for NULL
Init ==
  /\ type \in Types
  /\ complex \in BOOLEAN
  /\ \E vs \in UNION {[1..m -> Values(type)] : m \in 0..MaxRows} :
       \E cols \in IF complex THEN UNION {Split(vs, n) : n \in 1..MaxParts} ELSE Split(vs, 1) :
         parts \in {[k \in DOMAIN cols |-> WithFlag(cols[k], flag)] : flag \in NullFlags}
  /\ status = "closed" /\ fits = TRUE
  /\ index = 0 /\ cursors = <<>>
  /\ passed = 0 /\ result = None

-----------------------------------------------------------------------------
(* Iterable::iter *)

\* iter::<T> where T are the items of a column of type `items`.  The
\* iterators over addresses and UUIDs do not look at the type.
RECURSIVE IsIterable(_, _)
IsIterable(items, t) ==
  LET leaf == Head(items).k IN
  CASE leaf \in {"nullable", "array"} -> Head(t).k = leaf /\ IsIterable(Tail(items), Tail(t))
    [] leaf \in {"string", "fixed"} -> Head(t).k \in {"string", "fixed"}
    [] leaf \in TimeKinds -> Head(t).k \in TimeKinds
    [] leaf \in {"decimal", "date"} -> Head(t).k = leaf
    [] leaf = "num" -> t = items
    [] leaf \in IpKinds -> TRUE

\* SqlType::level
Level(t) == Len(t) - 1

\* get_internal: the layer of column c that is asked for by its level
RECURSIVE Internal(_, _)
Internal(c, level) == IF Level(SqlType(c)) = level THEN Head(c) ELSE Internal(Tail(c), level)

\* The buffers that the nested iterators over column c get their pointers to
Buffers(c) == [d \in DOMAIN type |-> Internal(c, Level(SubSeq(type, d, Len(type))))]

\* The pointers and indexes of the nested iterators: at the start
Opened == [d \in DOMAIN type |-> 0]

-----------------------------------------------------------------------------
(* next, nth and len of the iterators on buffers c *)

\* next_unchecked of the iterators over addresses and UUIDs
Address(t, bs) ==
  CASE t.k = "ipv4" -> Reverse(bs)
    [] t.k = "uuid" -> Reverse(SubSeq(bs, 1, t.w \div 2)) \o Reverse(SubSeq(bs, t.w \div 2 + 1, t.w))
    [] OTHER -> bs

\* next_unchecked of DecimalIterator
DecimalItem(t, bs) == DecimalOf(t, Signed(bs))

\* A date, as its days since 1970, and a time, or the panic of to_datetime
DateItem(bs) == [days |-> LocalDay(Unsigned(bs))]

DateTimeItem(t, bs) ==
  IF t.k = "datetime" THEN Time(Unsigned(bs) * Second) ELSE ToDatetime(Signed(bs), t.p)

\* next_unchecked of the iterators with a pointer to the bytes bs
PointedAt(t, bs) ==
  CASE t.k = "decimal" -> DecimalItem(t, bs)
    [] t.k = "date" -> DateItem(bs)
    [] t.k \in TimeKinds -> DateTimeItem(t, bs)
    [] OTHER -> Leaf(t, Address(t, bs))

Step(cs, d, n) == [cs EXCEPT ![d] = @ + n]

Found(v, cs) == [r |-> Item(v), cs |-> cs]
NotFound(cs) == [r |-> None, cs |-> cs]

\* The flag is read after the pointer has moved.
FlagOfNext(flags, ptr) == IF ptr + 2 <= Len(flags) THEN flags[ptr + 2] ELSE 0

\* The flag of NullableIterator::next
FlagAt(flags, ptr) == flags[ptr + 1]

\* next of the iterator on layers d.. of column c, with the cursors cs: a
\* pointer for the flat layers (in bytes) and the null flags, an index into
\* strings, FixedStrings and offsets.
RECURSIVE NextOf(_, _, _)
RECURSIVE TakeOf(_, _, _, _, _)
NextOf(c, d, cs) ==
  LET t == c[d].t
      data == c[d].data
  IN
  CASE t.k = "string" ->
         IF cs[d] = Len(data) THEN NotFound(cs) ELSE Found(Leaf(Str, data[cs[d] + 1]), Step(cs, d, 1))
    [] t.k = "fixed" ->
         IF cs[d] >= Len(data) \div t.w THEN NotFound(cs)
         ELSE Found(Leaf(Str, SubSeq(data, cs[d] * t.w + 1, (cs[d] + 1) * t.w)), Step(cs, d, 1))
    [] t.k \in FlatKinds \ {"fixed"} ->
         IF cs[d] = Len(data) THEN NotFound(cs)
         ELSE Found(PointedAt(t, SubSeq(data, cs[d] + 1, cs[d] + t.w)), Step(cs, d, t.w))
    [] t.k = "nullable" ->
         IF cs[d] = Len(data) THEN NotFound(cs)
         ELSE LET inner == NextOf(c, d + 1, cs) IN
              IF ~inner.r.some THEN NotFound(inner.cs)
              ELSE Found(IF FlagAt(data, cs[d]) # 0
                         THEN Null([i \in 1..(Len(c) - d) |-> c[d + i].t]) ELSE Some(inner.r.item),
                         Step(inner.cs, d, 1))
    [] t.k = "array" ->
         IF cs[d] = Len(data) THEN NotFound(cs)
         ELSE LET n == data[cs[d] + 1] - OffsetAt(data, cs[d])
                  taken == TakeOf(c, d + 1, cs, n, <<>>)
              IN  Found(ArrayOf([i \in 1..(Len(c) - d) |-> c[d + i].t], taken.items),
                        Step(taken.cs, d, 1))

\* The loop of ArrayIterator::next: n times next of the iterator below.
TakeOf(c, d, cs, n, items) ==
  IF n = 0 THEN [items |-> items, cs |-> cs]
  ELSE LET x == NextOf(c, d, cs) IN
       TakeOf(c, d, x.cs, n - 1, IF x.r.some THEN Append(items, x.r.item) ELSE items)

\* What a cursor of the outermost layer adds for a row.
Stride(c) == IF c[1].t.k \in FlatKinds \ {"fixed"} THEN c[1].t.w ELSE 1

\* ExactSizeIterator::len
Rest(c, cs) ==
  IF c[1].t.k = "fixed" THEN Len(c[1].data) \div c[1].t.w - cs[1]
  ELSE (Len(c[1].data) - cs[1]) \div Stride(c)

\* Iterator::nth where it is not overridden: next, n times, and next.
RECURSIVE NthByNext(_, _, _)
NthByNext(c, cs, n) ==
  LET x == NextOf(c, 1, cs)
  IN  IF n = 0 \/ ~x.r.some THEN x ELSE NthByNext(c, x.cs, n - 1)

StaysThere(c, cs) == cs

\* `This iterator is now empty.`
SkipToEnd(c, cs) == [cs EXCEPT ![1] = @ + Rest(c, cs) * Stride(c)]

\* nth of the iterators over flat layers and strings
NthBySkip(c, cs, n) ==
  IF n >= Rest(c, cs) THEN NotFound(SkipToEnd(c, cs))
  ELSE NextOf(c, 1, Step(cs, 1, n * Stride(c)))

NthOf(c, cs, n) ==
  IF c[1].t.k \in {"nullable", "array"} THEN NthByNext(c, cs, n) ELSE NthBySkip(c, cs, n)

LastNotOpened(i, cs) == i + 1 = Len(parts) /\ cs = <<>>

\* Every part has been opened, and the last one is exhausted.
NothingLeft(i, cs) == i = Len(parts) /\ cs = <<>>

StartsOver(i) == [r |-> None, index |-> 0, cs |-> <<>>]

Ended(i) == [r |-> None, index |-> i, cs |-> <<>>]

\* ComplexIterator::next from the parts that are left: the open iterator's
\* next item, or, when it has none, that of the parts after it.
RECURSIVE ComplexNext(_, _)
ComplexNext(i, cs) ==
  IF NothingLeft(i, cs) THEN Ended(i)
  ELSE LET opened == IF cs = <<>> THEN i + 1 ELSE i
           x == NextOf(Buffers(parts[opened]), 1, IF cs = <<>> THEN Opened ELSE cs)
       IN  IF x.r.some THEN [r |-> x.r, index |-> opened, cs |-> x.cs]
           ELSE ComplexNext(opened, <<>>)

-----------------------------------------------------------------------------
Total == ConcatLength(parts)

\* The rows a call goes past: n + 1, or what is left.
Pass(n) == passed' = Min({passed + n + 1, Total})

\* Column::iter.  A ComplexIterator is opened whatever it is asked for.
\* (External: a caller that asks for addresses asks for those of the column.)
Iter(items) ==
  /\ status # "open"
  /\ IsIterable(items, type) /\ Last(items).k \in IpKinds => items = type
  /\ fits' = IsIterable(items, type)
  /\ status' = IF complex \/ fits' THEN "open" ELSE "invalid"
  /\ index' = (IF complex THEN 0 ELSE 1)
  /\ cursors' = (IF complex \/ ~fits' THEN <<>> ELSE Opened)
  /\ passed' = 0 /\ result' = None
  /\ UNCHANGED <<type, parts, complex>>

\* The unwrap in ComplexIterator::next of the iter of the first part
UnwrapFails ==
  /\ status = "open" /\ complex /\ ~fits
  /\ status' = "panic"
  /\ UNCHANGED <<type, parts, complex, fits, index, cursors, passed, result>>

CallNext ==
  /\ status = "open" /\ fits
  /\ IF complex
     THEN LET x == ComplexNext(index, cursors) IN
            /\ index' = x.index /\ cursors' = x.cs /\ result' = x.r
     ELSE LET x == NextOf(Buffers(parts[1]), 1, cursors) IN
            /\ index' = index /\ cursors' = x.cs /\ result' = x.r
  /\ Pass(0)
  /\ UNCHANGED <<type, parts, complex, status, fits>>

\* nth on a simple column
CallNth(n) ==
  /\ status = "open" /\ ~complex
  /\ LET x == NthOf(Buffers(parts[1]), cursors, n) IN cursors' = x.cs /\ result' = x.r
  /\ Pass(n)
  /\ UNCHANGED <<type, parts, complex, status, fits, index>>

Next ==
  \/ \E items \in Types : Iter(items)
  \/ UnwrapFails
  \/ CallNext
  \/ \E n \in 1..MaxRows : CallNth(n)

Spec == Init /\ [][Next]_vars

-----------------------------------------------------------------------------
\* decode_ipv4, decode_ipv6, and from_sql of a Uuid
Decoded(t, bs) ==
  LET half == t.w \div 2 IN
  CASE t.k = "ipv4" -> Reverse(bs)
    [] t.k = "ipv6" -> bs
    [] t.k = "uuid" -> [i \in 1..t.w |-> IF i <= half THEN bs[half + 1 - i] ELSE bs[half + t.w + 1 - i]]

\* T::from_sql of a cell
RECURSIVE FromSql(_)
FromSql(v) ==
  CASE Is(v, "leaf") ->
         CASE v.leaf.k \in IpKinds -> Leaf(v.leaf, Decoded(v.leaf, v.bytes))
           [] v.leaf.k = "date" -> [days |-> LocalDay(Unsigned(v.bytes))]
           [] v.leaf.k \in TimeKinds -> TimeOf(v)
           [] OTHER -> v
    [] Is(v, "null") -> v
    [] Is(v, "some") -> Some(FromSql(v.some))
    [] Is(v, "of") -> ArrayOf(v.of, [i \in DOMAIN v.items |-> FromSql(v.items[i])])

(* The concatenation of columns has the rows of all of them in order: the    *)
(* binary search of find_chunk ends in the part that holds the row, empty    *)
(* parts anywhere between the others included.  (No iterator changes the     *)
(* parts: a column without one shows all there is.)                          *)
ConcatIsAll ==
  status = "closed" =>
  LET all == FlattenSeq([k \in DOMAIN parts |-> Rows(parts[k])])
  IN  /\ Total = Len(all)
      /\ \A i \in DOMAIN all :
           LET chunk == ChunkOf(parts, i - 1) IN
             /\ i - 1 - Index(parts)[chunk + 1] \in 0..(Length(parts[chunk + 1]) - 1)
             /\ ConcatAt(parts, i - 1) = all[i]

\* The parts with flags that at understands
Normal == [k \in DOMAIN parts |-> WithFlag(parts[k], 1)]

(* Whatever mix of next and nth has been called, an iterator returns the row *)
(* that get, which goes through at, returns for the position it has reached. *)
(* The pointers of nested layers stay in step, empty arrays, NULLs and empty *)
(* parts of a concatenation included, and an iterator over other items than  *)
(* the column's returns none.  Flags: an iterator takes every flag but 0 for *)
(* NULL and at only 1, so the row is that of the column with 1 for NULL.     *)
ItemIsRow ==
  result.some => fits /\ passed > 0 /\ result.item = FromSql(ConcatAt(Normal, passed - 1))

\* The step is a call of next or nth that returns.
CallsOpen == status = "open" /\ status' = "open"

(* An iterator returns None only when every row has been passed, and it does *)
(* not stop at an empty part that other parts follow.                        *)
NoneIsTheEnd == [][CallsOpen /\ ~result'.some => passed' = Total]_vars

(* A call that starts at the end returns None, as FusedIterator promises: no *)
(* pointer runs past the end of its buffer, where next_unchecked would read, *)
(* and ComplexIterator does not start over.                                  *)
EndIsNone == [][CallsOpen /\ passed = Total => ~result'.some]_vars

(* len, which size_hint and count report, is the number of rows that are     *)
(* left, in the middle of the iteration and after nth too.                   *)
LenIsRest ==
  status = "open" /\ ~complex => Rest(Buffers(parts[1]), cursors) = Total - passed
=============================================================================
