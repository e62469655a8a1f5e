------------------------------- MODULE Blocks -------------------------------
(***************************************************************************)
(* Blocks that are filled row by row (types/block/builder.rs), cloned and  *)
(* dropped.  A clone shares the columns of the original: a column is an    *)
(* Arc, and so is the column inside a Nullable or an Array, and push       *)
(* writes in place when nothing else holds the Arc.                        *)
(*                                                                         *)
(* heap maps the address of an Arc to the layer of a column it holds, and  *)
(* a column is the chain of the addresses of its layers.  Each block       *)
(* belongs to a task, which a panic ends and which drops its block.        *)
(***************************************************************************)
EXTENDS Integers, Sequences, FiniteSetsExt, Functions

CONSTANTS
  Tasks,         \* the tasks, each with at most one block
  Names,         \* the names of columns
  Cells,         \* the values
  RowsToPush,    \* what push may be given: sequences of <<key, value>>
  Received,      \* blocks from the wire: sequences of [name, vals, ...]
  MaxLen,        \* bound: rows of a column
  \* A column is the sequence of its layers, and these are its operations.
  EmptyFor(_),   \* the column that put_param makes for a value
  FromWire(_),   \* the column that load_data makes of one from the wire
  LengthOf(_),   \* len
  Takes(_, _),   \* push does not panic on a value: it has the type of the column
  Pushed(_, _),  \* push
  RowsOf(_),     \* every at
  Stored(_, _),  \* a value as it comes back from a column
  Whole(_)       \* the layers have the types of a column and lengths that agree, as len asserts

\* A column is a sequence of layers, and has the rows vs.
HasRows(c, vs) ==
  /\ Len(c) \in Nat \ {0} /\ c = [k \in 1..Len(c) |-> c[k]]
  /\ Whole(c) /\ RowsOf(c) = [j \in DOMAIN vs |-> Stored(c, vs[j])]

ASSUME BlocksAssumption ==
  /\ MaxLen \in Nat
  /\ \A row \in RowsToPush : row \in Seq(Names \X Cells)
  /\ \A cols \in Received :
       /\ cols \in Seq(Range(cols))
       /\ \A i \in DOMAIN cols : cols[i].name \in Names /\ cols[i].vals \in Seq(Cells)
       /\ \A i \in DOMAIN cols : HasRows(FromWire(cols[i]), cols[i].vals)
  /\ \A v \in Cells : HasRows(EmptyFor(v), <<>>)

VARIABLES
  heap,      \* the layers behind the Arcs, by address
  blocks,    \* task -> the columns of its block, [name, ids]
  alive,     \* the tasks that have a block
  ended,     \* how the last call ended
  told       \* history: task -> for each column the values that were put into it

vars == <<heap, blocks, alive, ended, told>>

Init ==
  /\ heap = <<>>
  /\ blocks = [t \in Tasks |-> <<>>]
  /\ alive = {}
  /\ ended = "ok"
  /\ told = [t \in Tasks |-> <<>>]

-----------------------------------------------------------------------------
(* The steps of a call work on a copy of the state, with the number of Arcs  *)
(* that are new in this call and how the call ends.                          *)

Here == [heap |-> heap, blocks |-> blocks, told |-> told, new |-> 0, end |-> "ok"]

Chain(s, ids) == [d \in DOMAIN ids |-> s.heap[ids[d]]]

ColumnAt(s, t, i) == Chain(s, s.blocks[t][i].ids)

\* The columns of all blocks, and the pairs of a layer and the layer inside it
Holders(s) == UNION {{t} \X DOMAIN s.blocks[t] : t \in Tasks}

IdsOf(s, x) == s.blocks[x[1]][x[2]].ids

InsideOf(ids) == {<<ids[d], ids[d + 1]>> : d \in 1..(Len(ids) - 1)}

Inside(s) == UNION {InsideOf(IdsOf(s, x)) : x \in Holders(s)}

\* Arc::strong_count is 1: there is one pointer to the Arc, in a column or in
\* the layer around it.
IsUnique(s, id) ==
  LET tops == {x \in Holders(s) : IdsOf(s, x)[1] = id}
      around == {p \in Inside(s) : p[2] = id}
  IN  \/ around = {} /\ \E x \in tops : tops = {x}
      \/ tops = {} /\ \E p \in around : around = {p}

\* The addresses of n new Arcs
Fresh(s, n) == [d \in 1..n |-> <<s.new + d>>]

\* The heap with layers written at the addresses ids
Written(h, ids, layers) ==
  [id \in DOMAIN h \cup Range(ids) |->
     IF id \in Range(ids) THEN layers[CHOOSE d \in DOMAIN ids : ids[d] = id] ELSE h[id]]

\* Where a pointer to an Arc is: level d of column x[2] of task x[1]
Places(s) == UNION {{x} \X DOMAIN IdsOf(s, x) : x \in Holders(s)}

IdAt(s, p) == IdsOf(s, p[1])[p[2]]

Live(s) == {IdAt(s, p) : p \in Places(s)}

\* Between two calls the address of an Arc is one of the places of its
\* pointers: addresses are compared and nothing else.
Name(s, id) == CHOOSE p \in Places(s) : IdAt(s, p) = id

\* Arcs that nothing holds any more are freed.
Collected(s) ==
  [s EXCEPT !.heap = [p \in {Name(s, id) : id \in Live(s)} |-> s.heap[IdAt(s, p)]],
            !.blocks = [t \in Tasks |-> [i \in DOMAIN s.blocks[t] |->
               [name |-> s.blocks[t][i].name,
                ids |-> [d \in DOMAIN s.blocks[t][i].ids |-> Name(s, s.blocks[t][i].ids[d])]]]]]

\* append_column of a column whose Arcs are new; vs are the values in it
WithColumn(s, t, name, layers, vs) ==
  LET ids == Fresh(s, Len(layers))
  IN  [s EXCEPT !.heap = Written(s.heap, ids, layers), !.new = s.new + Len(layers),
                !.blocks[t] = Append(s.blocks[t], [name |-> name, ids |-> ids]),
                !.told[t] = Append(s.told[t], vs)]

Columns(s, t) == DOMAIN s.blocks[t]

RowCount(s, t) == IF Columns(s, t) = {} THEN 0 ELSE LengthOf(ColumnAt(s, t, 1))

\* get_index of a name: the positions it is found at
Positions(s, t, name) == {i \in Columns(s, t) : s.blocks[t][i].name = name}

-----------------------------------------------------------------------------
NeverCopied(s, t, i) == s

\* The loop of Column::push: a column that is shared is replaced by
\* clone_instance, a new Arc over the same inner Arc.
Unshared(s, t, i) ==
  LET top == s.blocks[t][i].ids[1] IN
  IF IsUnique(s, top) THEN s
  ELSE [s EXCEPT !.heap = Written(s.heap, Fresh(s, 1), <<s.heap[top]>>), !.new = s.new + 1,
                 !.blocks[t][i].ids[1] = Fresh(s, 1)[1]]

InnerAnyway(s, ids) == TRUE

\* Arc::get_mut(&mut self.inner).unwrap() of Nullable and Array
InnerIsOurs(s, ids) == Len(ids) > 1 => IsUnique(s, ids[2])

\* push on the layers at the addresses of a column
WriteCell(s, t, i, v) ==
  LET ids == s.blocks[t][i].ids
  IN  [s EXCEPT !.heap = Written(s.heap, ids, Pushed(Chain(s, ids), v)),
                !.told[t][i] = Append(s.told[t][i], v)]

\* Column::push
PushCell(s, t, i, v) ==
  LET u == Unshared(s, t, i)
      ids == u.blocks[t][i].ids
  IN  IF InnerIsOurs(u, ids) /\ Takes(Chain(u, ids), v) THEN WriteCell(u, t, i, v)
      ELSE [u EXCEPT !.end = "panic"]

\* A column that is not there is added during the first row only.
MayAddColumn(s, t) == RowCount(s, t) <= 1

\* put_param
PutParam(s, t, key, v) ==
  CASE s.end # "ok" -> s
    [] s.end = "ok" /\ Positions(s, t, key) # {} -> PushCell(s, t, Min(Positions(s, t, key)), v)
    [] s.end = "ok" /\ Positions(s, t, key) = {} /\ MayAddColumn(s, t) ->
         PushCell(WithColumn(s, t, key, EmptyFor(v), <<>>), t, Len(s.blocks[t]) + 1, v)
    [] OTHER -> [s EXCEPT !.end = "err"]

\* RowBuilder::apply, of RCons and of Vec<(String, Value)>
Apply(s, t, row) ==
  LET after[n \in 0..Len(row)] ==
        IF n = 0 THEN s ELSE PutParam(after[n - 1], t, row[n][1], row[n][2])
  IN  after[Len(row)]

\* raw_load: one column after the other
Load(s, t, cols) ==
  LET after[n \in 0..Len(cols)] ==
        IF n = 0 THEN s
        ELSE WithColumn(after[n - 1], t, cols[n].name, FromWire(cols[n]), cols[n].vals)
  IN  after[Len(cols)]

Dropped(s, t) == [s EXCEPT !.blocks[t] = <<>>, !.told[t] = <<>>]

\* How a call of task t ends: a panic takes the task and its block with it.
Finish(t, s) ==
  LET r == Collected(IF s.end = "panic" THEN Dropped(s, t) ELSE s)
  IN  /\ heap' = r.heap /\ blocks' = r.blocks /\ told' = r.told
      /\ alive' = IF s.end = "panic" THEN alive \ {t} ELSE alive \cup {t}
      /\ ended' = s.end

-----------------------------------------------------------------------------
\* Block::new
NewBlock(t) == t \notin alive /\ Finish(t, Here)

\* Block::push
PushRow(t, row) ==
  /\ t \in alive
  /\ \A i \in Columns(Here, t) : LengthOf(ColumnAt(Here, t, i)) < MaxLen
  /\ Finish(t, Apply(Here, t, row))

\* Block::clone, into a task that has no block
CloneBlock(t, u) ==
  /\ t \in alive /\ u \notin alive
  /\ Finish(u, [Here EXCEPT !.blocks[u] = blocks[t], !.told[u] = told[t]])

DropBlock(t) ==
  /\ t \in alive
  /\ LET r == Collected(Dropped(Here, t)) IN heap' = r.heap /\ blocks' = r.blocks /\ told' = r.told
  /\ alive' = alive \ {t}
  /\ ended' = "ok"

\* Block::column with a column of another block, or of this one: column_from
\* of a Column keeps its Arc.  Bound: a name is used once in a block.
AddShared(t, u, i, name) ==
  /\ {t, u} \subseteq alive /\ i \in Columns(Here, u) /\ Positions(Here, t, name) = {}
  /\ Finish(t, IF Columns(Here, t) # {} /\ RowCount(Here, t) # LengthOf(ColumnAt(Here, u, i))
               THEN [Here EXCEPT !.end = "panic"]
               ELSE [Here EXCEPT !.blocks[t] = Append(blocks[t], [name |-> name, ids |-> blocks[u][i].ids]),
                                 !.told[t] = Append(told[t], told[u][i])])

\* Block::load: the block of a data packet
Receive(t, cols) == t \notin alive /\ Finish(t, Load(Here, t, cols))

Next ==
  \E t \in Tasks :
    \/ NewBlock(t)
    \/ \E row \in RowsToPush : PushRow(t, row)
    \/ \E u \in Tasks : CloneBlock(t, u)
    \/ DropBlock(t)
    \/ \E u \in Tasks, name \in Names : \E i \in Columns(Here, u) : AddShared(t, u, i, name)
    \/ \E cols \in Received : Receive(t, cols)

Spec == Init /\ [][Next]_vars

-----------------------------------------------------------------------------
(* A column holds the values that its own task put into it, or that were in  *)
(* the column it was cloned from, in order and nothing else: a push never    *)
(* writes through an Arc that another block holds, whatever the order of     *)
(* clones, drops, rows that end with an error half way, and panics.          *)
ColumnsHoldWhatWasPut ==
  \A t \in alive : \A i \in DOMAIN blocks[t] :
    LET c == ColumnAt(Here, t, i)
    IN  RowsOf(c) = [j \in DOMAIN told[t][i] |-> Stored(c, told[t][i][j])]

(* push takes a row into the block or returns an error; it does not panic    *)
(* when the values have the types of the columns.                            *)
PushReturns == ended # "panic"

(* The Arcs in use are those of the columns of some block, and each column   *)
(* passes the assertion of Nullable's len: as many flags as rows.            *)
TypeOK ==
  /\ alive \subseteq Tasks
  /\ ended \in {"ok", "err", "panic"}
  /\ \A t \in Tasks \ alive : blocks[t] = <<>>
  /\ DOMAIN heap = Live(Here)
  /\ \A x \in Holders(Here) : Whole(ColumnAt(Here, x[1], x[2]))

-----------------------------------------------------------------------------
(* The inductive invariant, of the state and of the copy a call works on. *)

\* What push is trusted to do with a column: it adds the row at the end.
PushAdds(c, v) ==
  Whole(c) /\ Takes(c, v) =>
    LET after == Pushed(c, v) IN
      /\ after = [k \in DOMAIN c |-> after[k]]
      /\ Whole(after) /\ RowsOf(after) = Append(RowsOf(c), Stored(c, v))
      /\ \A w \in Cells : Stored(after, w) = Stored(c, w)

PushesAdd == \A c : \A v \in Cells : PushAdds(c, v)

Address == ((Tasks \X Nat) \X Nat) \cup [{1} -> Nat]

StateOK(s) ==
  /\ s = [heap |-> s.heap, blocks |-> s.blocks, told |-> s.told, new |-> s.new, end |-> s.end]
  /\ s.blocks \in [Tasks -> Seq([name : Names, ids : Seq(Address) \ {<<>>}])]
  /\ s.told \in [Tasks -> Seq(Seq(Cells))]
  /\ \A t \in Tasks : Len(s.told[t]) = Len(s.blocks[t])
  /\ s.new \in Nat /\ s.end \in {"ok", "err", "panic"}
  /\ s.heap = [id \in DOMAIN s.heap |-> s.heap[id]]
  /\ \A id \in DOMAIN s.heap : id \in Address /\ (id \in [{1} -> Nat] => id[1] <= s.new)

\* A pointer to an Arc has an Arc.
Pointing(s) == \A p \in Places(s) : IdAt(s, p) \in DOMAIN s.heap

\* Two columns that have an Arc in common have it at the same level, and share
\* all the levels below the first.
SharingBelow(s) ==
  \A p, q \in Places(s) : IdAt(s, p) = IdAt(s, q) =>
    p[2] = q[2] /\ Tail(IdsOf(s, p[1])) = Tail(IdsOf(s, q[1]))

\* Every column is whole and has what was put into it.
Holding(s) ==
  \A x \in Holders(s) : LET c == ColumnAt(s, x[1], x[2]) IN
    Whole(c) /\ RowsOf(c) = [j \in DOMAIN s.told[x[1]][x[2]] |-> Stored(c, s.told[x[1]][x[2]][j])]

CallInv(s) == StateOK(s) /\ Pointing(s) /\ SharingBelow(s) /\ Holding(s)

BlockInv ==
  /\ CallInv(Here)
  /\ DOMAIN heap = Live(Here) /\ DOMAIN heap \subseteq (Tasks \X Nat) \X Nat
  /\ alive \subseteq Tasks /\ ended \in {"ok", "err", "panic"}
  /\ \A t \in Tasks \ alive : blocks[t] = <<>>
=============================================================================
