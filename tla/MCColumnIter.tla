---------------------------- MODULE MCColumnIter ----------------------------
(* Two values of every type, and the column types of the run of ColumnIter.  *)
EXTENDS ColumnIter

RECURSIVE MCValues(_)
MCValues(t) ==
  CASE t[1].k = "string" -> {Leaf(Str, <<>>), Leaf(Str, <<1, 2>>)}
    [] t[1].k = "fixed" -> {Leaf(Str, <<0, 0>>), Leaf(Str, <<1, 2>>)}
    [] t[1].k = "decimal" -> {DecimalOf(t[1], n) : n \in IF t[1].w = I32 THEN {-9, 7} ELSE {-999, 123}}
    [] t[1].k \in TimeKinds -> {Leaf(Chrono, Time(n)) : n \in {105, -150}}
    [] t[1].k \in {"num", "ipv4", "ipv6", "uuid", "date"} -> {Leaf(t[1], [i \in 1..t[1].w |-> b + i]) : b \in {0, 4}}
    [] t[1].k = "nullable" -> {Null(Tail(t))} \cup {Some(v) : v \in MCValues(Tail(t))}
    [] t[1].k = "array" ->
         {ArrayOf(Tail(t), s) : s \in {<<>>} \cup {<<x>> : x \in MCValues(Tail(t))}
                                          \cup {<<x, x>> : x \in MCValues(Tail(t))}}

MCTypes == {<<Num(2)>>, <<Ipv4>>, <<Ipv6>>, <<Uuid>>, <<Str>>, <<FixedString(2)>>, <<Nullable, Uuid>>,
            <<Decimal(1, 0)>>, <<Decimal(3, 1)>>, <<Date>>, <<DateTime64(1)>>, <<Nullable, DateTime>>,
            <<Array, Str>>, <<Array, Nullable, Num(1)>>, <<Array, Array, Num(1)>>}

\* The fold of build_index solves the equations the proofs start from.
ASSUME IndexAssumption ==
  \A n \in 0..3 : \A sizes \in [1..n -> 0..2] : BuiltFrom(BuildIndex(sizes), sizes)
=============================================================================
