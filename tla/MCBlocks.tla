------------------------------ MODULE MCBlocks ------------------------------
(* The rows and the received blocks of the runs of Blocks.                   *)
EXTENDS Blocks, Columns

CONSTANT Capacity   \* of a new block, DEFAULT_CAPACITY

MCEmptyFor(v) == FromType(TypeOfValue(v), Capacity)

MCFromWire(col) ==
  LET wire == FlattenSeq([j \in DOMAIN col.vals |->
                IF col.type = <<Str>> THEN PutString(col.vals[j].bytes) ELSE col.vals[j].bytes])
  IN  LoadData(TypeName(col.type), Len(col.vals), wire).col

MCTakes(c, v) == Accepts(SqlType(c), v)

\* A value that is not optional becomes one in a Nullable column.
MCStored(c, v) == IF Head(SqlType(c)) = Nullable /\ ~Is(v, "null") /\ ~Is(v, "some") THEN Some(v) ELSE v

Bytes == 0..255

IsLayer(l, t, S) == l = Layer(t, l.data) /\ l.data \in Seq(S)

\* The columns of the types that are pushed here: as many flags as rows
MCWhole(c) ==
  \/ Len(c) = 1 /\ c = <<c[1]>> /\ IsLayer(c[1], Num(1), Bytes)
  \/ Len(c) = 1 /\ c = <<c[1]>> /\ IsLayer(c[1], Str, Seq(Bytes))
  \/ /\ Len(c) = 2 /\ c = <<c[1], c[2]>> /\ IsLayer(c[1], Nullable, {0, 1}) /\ IsLayer(c[2], Str, Seq(Bytes))
     /\ Len(c[1].data) = Len(c[2].data)

U8(b) == Leaf(Num(1), <<b>>)
Text(bs) == Leaf(Str, bs)

\* Rows of two columns in both orders, and rows that lack one of them.
MCRows ==
  {<<<<"a", U8(1)>>, <<"b", Some(Text(<<2>>))>>>>,
   <<<<"b", Null(<<Str>>)>>, <<"a", U8(3)>>>>,
   <<<<"b", Some(Text(<<>>))>>>>,
   <<<<"a", U8(4)>>>>}

\* Every row has a value of the column's type for every column.
MCFullRows ==
  {<<<<"a", U8(1)>>, <<"b", Some(Text(<<2>>))>>>>,
   <<<<"b", Null(<<Str>>)>>, <<"a", U8(3)>>>>}

MCReceived == {<<[name |-> "a", type |-> <<Num(1)>>, vals |-> <<U8(9)>>],
                 [name |-> "b", type |-> <<Str>>, vals |-> <<Text(<<8>>)>>]>>}
MCNone == {}

MCCells == {U8(b) : b \in {1, 3, 4, 9}} \cup {Text(<<8>>), Null(<<Str>>), Some(Text(<<>>)), Some(Text(<<2>>))}

\* The columns of at most two rows; push adds to each of them the row that it
\* should.
MCColumns ==
  {<<Layer(Num(1), s)>> : s \in UNION {[1..n -> {1, 3}] : n \in 0..2}} \cup
  {<<Layer(Str, s)>> : s \in UNION {[1..n -> {<<>>, <<2>>}] : n \in 0..2}} \cup
  UNION {{<<Layer(Nullable, f), Layer(Str, s)>> : f \in [1..n -> {0, 1}], s \in [1..n -> {<<>>, <<2>>}]} : n \in 0..2}

ASSUME PushAssumption == \A c \in MCColumns : \A v \in MCCells : PushAdds(c, v)
=============================================================================
