----------------------------- MODULE MCTransfer -----------------------------
(* Small values of every type, and the column types of the runs of Transfer. *)
EXTENDS Transfer

RECURSIVE MCValues(_)
MCValues(type) ==
  LET t == Head(type) IN
  CASE t.k = "string" -> {Leaf(Str, <<>>), Leaf(Str, <<1>>), Leaf(Str, <<1, 2, 3>>)}
    [] t.k = "decimal" -> {DecimalOf(t, n) : n \in IF t.w = I32 THEN {-9, 7} ELSE {-999, 5, 123}}
    [] t.k = "enum" -> {Leaf(t, IntBytes(n, t.w)) : n \in {1, -1}}
    [] t.k = "date" -> {Leaf(t, <<0>>), Leaf(t, <<7>>)}
    [] t.k = "datetime64" -> {Leaf(t, IntBytes(n, I64)) : n \in {15, -15}}
    [] t.k = "chrono" -> {Leaf(t, Time(n)) : n \in {0, 105, 1999, -150}}
    [] t.k \in {"num", "ipv4", "ipv6", "uuid", "datetime"} -> {Leaf(t, [i \in 1..t.w |-> b + i]) : b \in {0, 4}}
    [] t.k = "nullable" -> {Null(Tail(type))} \cup {Some(v) : v \in MCValues(Tail(type))}
    [] t.k = "array" ->
         LET vs == MCValues(Tail(type))
             v == CHOOSE x \in vs : TRUE
         IN  {ArrayOf(Tail(type), s) : s \in {<<>>, <<v>>} \cup {<<x, v>> : x \in vs}}

\* Blocks without columns, of one and of two columns, and of nested columns.
MCBlockTypes ==
  {<<>>,
   <<<<Num(2)>>, <<Str>>>>,
   <<<<Nullable, Str>>>>,
   <<<<Array, Num(1)>>>>,
   <<<<Array, Nullable, Num(1)>>, <<Uuid>>>>,
   <<<<Array, Array, Num(1)>>>>,
   <<<<Decimal(3, 2)>>, <<Date>>>>,
   <<<<Nullable, Decimal(1, 0)>>>>,
   <<<<Enum8(<<<<<<1>>, 1>>, <<<<2>>, -2>>>>)>>, <<DateTime>>>>,
   <<<<Enum8(<<>>)>>>>,
   <<<<Nullable, Enum16(<<<<<<1, Mark.quote, Mark.backslash>>, 9>>>>)>>>>,
   <<<<DateTime64(1)>>>>,
   <<<<Chrono>>>>,
   <<<<Nullable, Chrono>>>>,
   <<<<Array, Chrono>>>>}

MCArrayTypes == {<<<<Array, Num(1)>>>>}
=============================================================================
