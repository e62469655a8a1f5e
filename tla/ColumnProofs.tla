---------------------------- MODULE ColumnProofs ----------------------------
(***************************************************************************)
(* Proofs about columns.  First: find_chunk ends and finds the part that   *)
(* holds the row, for every index with any number of parts, empty ones     *)
(* anywhere among them.  Then: blocks that share columns keep what was put *)
(* into them, for any tasks and any kinds of columns whose push adds one   *)
(* row.                                                                    *)
(***************************************************************************)
EXTENDS Blocks, ChunkSearch, TLAPS, SequenceTheorems, WellFoundedInduction

(* What the search relies on: an index ascends from 0. *)
IsIndex(index) ==
  /\ index \in Seq(Nat) /\ Len(index) >= 1 /\ index[1] = 0
  /\ \A i, j \in 1..Len(index) : i <= j => index[i] <= index[j]

Searches == [lo : Nat, hi : Nat, done : BOOLEAN, chunk : Nat]

(* Row ix is in the part with the given number. *)
Holds(index, ix, chunk) ==
  chunk + 2 \in 1..Len(index) /\ index[chunk + 1] <= ix /\ ix < index[chunk + 2]

(* The loop invariant: the row is between lo and hi, or its part is found. *)
Between(index, ix, s) ==
  /\ s \in Searches
  /\ s.done => Holds(index, ix, s.chunk)
  /\ ~s.done => s.hi < Len(index) /\ s.lo < s.hi /\ index[s.lo + 1] <= ix /\ ix < index[s.hi + 1]

(* The states of the loop, up to some pass. *)
IsRun(index, ix, t) ==
  /\ t # <<>> /\ t[1] = Start(index)
  /\ \A i \in 1..(Len(t) - 1) : Looping(t[i]) /\ t[i + 1] = Narrow(index, ix, t[i])

-----------------------------------------------------------------------------
(* A set of natural numbers has a least one. *)
LEMMA LeastNatural ==
  ASSUME NEW T, T \subseteq Nat, T # {}
  PROVE  \E x \in T : \A y \in T : x <= y
<1> DEFINE R == OpToRel(<, Nat)
<1>1. IsWellFoundedOn(R, Nat)
  BY NatLessThanWellFounded
<1> HIDE DEF R
<1>2. PICK x \in T : \A y \in T : ~(<<y, x>> \in R)
  BY <1>1, WFMin
<1>3. \A y \in T : ~(y < x)
  BY <1>2 DEF R, OpToRel
<1> QED BY <1>3

(* Induction, for a set instead of a predicate. *)
LEMMA SetInduction ==
  ASSUME NEW G, 0 \in G, \A n \in Nat : n \in G => n + 1 \in G
  PROVE  Nat \subseteq G
<1> DEFINE T == Nat \ G
<1>1. SUFFICES ASSUME T # {} PROVE FALSE
  OBVIOUS
<1>2. PICK x \in T : \A y \in T : x <= y
  BY <1>1, LeastNatural
<1>3. x # 0 /\ x - 1 \in Nat /\ x - 1 \notin T
  BY <1>2
<1> QED BY <1>2, <1>3

-----------------------------------------------------------------------------
(* The middle is between the bounds. *)
LEMMA MidIsBetween ==
  ASSUME NEW s \in Searches, s.lo < s.hi
  PROVE  Mid(s) \in Nat /\ s.lo <= Mid(s) /\ Mid(s) < s.hi
BY DEF Searches, Mid

(* lo is raised. *)
LEMMA RaiseLo ==
  ASSUME NEW s \in Searches, ~s.done, NEW v \in Nat
  PROVE  /\ [s EXCEPT !.lo = v] \in Searches /\ [s EXCEPT !.lo = v].lo = v
         /\ [s EXCEPT !.lo = v].hi = s.hi /\ ~[s EXCEPT !.lo = v].done
BY DEF Searches

(* A row of the column is between the first bounds. *)
LEMMA StartsBetween ==
  ASSUME NEW index, IsIndex(index), NEW ix \in Nat, ix < index[Len(index)]
  PROVE  Between(index, ix, Start(index)) /\ ~Start(index).done
<1>1. Len(index) \in Nat /\ Len(index) # 1 /\ index[Len(index)] \in Nat
  BY DEF IsIndex
<1>2. Start(index) \in Searches
  BY <1>1 DEF Start, Searches, IsIndex
<1> QED BY <1>1, <1>2 DEF Between, Start, IsIndex

(* Each pass keeps the loop invariant, reads index within its bounds, and     *)
(* returns or brings the bounds closer together.                              *)
THEOREM PassKeepsBetween ==
  ASSUME NEW index, IsIndex(index), NEW ix \in Nat, NEW s, Between(index, ix, s), ~s.done
  PROVE  /\ s.lo + 2 \in 1..Len(index) /\ Mid(s) + 2 \in 1..Len(index)
         /\ Between(index, ix, Narrow(index, ix, s))
         /\ ~Narrow(index, ix, s).done =>
              Narrow(index, ix, s).hi - Narrow(index, ix, s).lo < s.hi - s.lo
<1> DEFINE n == Narrow(index, ix, s)
           mid == Mid(s)
<1>1. /\ s \in Searches /\ s.hi < Len(index) /\ s.lo < s.hi
      /\ index[s.lo + 1] <= ix /\ ix < index[s.hi + 1]
  BY DEF Between
<1>2. /\ mid \in Nat /\ s.lo <= mid /\ mid < s.hi
  BY <1>1, MidIsBetween
<1> HIDE DEF mid
<1>3. s.lo \in Nat /\ s.hi \in Nat /\ Len(index) \in Nat /\ index \in Seq(Nat)
  BY <1>1 DEF Searches, IsIndex
<1>4. /\ s.lo + 2 \in 1..Len(index) /\ mid + 2 \in 1..Len(index)
      /\ s.hi + 1 \in 1..Len(index)
  <2>1. \A a, b, m, l \in Nat : a < b /\ b < l /\ m < b =>
          a + 2 \in 1..l /\ m + 2 \in 1..l /\ b + 1 \in 1..l
    OBVIOUS
  <2> QED BY <1>1, <1>2, <1>3, <2>1
<1>5. \A i \in 1..Len(index) : index[i] \in Nat
  BY <1>3
<1>6. \A i, j \in 1..Len(index) : i <= j => index[i] <= index[j]
  BY DEF IsIndex
<1>7. CASE index[s.lo + 1] = index[s.lo + 2]
  <2>1. n = [s EXCEPT !.lo = s.lo + 1]
    BY <1>7 DEF Narrow
  <2> HIDE DEF n
  <2>2. n \in Searches /\ n.lo = s.lo + 1 /\ n.hi = s.hi /\ ~n.done
    <3>1. s.lo + 1 \in Nat
      BY <1>3
    <3> QED BY <1>1, <2>1, <3>1, RaiseLo
  <2>3. index[n.lo + 1] <= ix
    <3>1. n.lo + 1 = s.lo + 2
      BY <1>3, <2>2
    <3> QED BY <1>1, <1>7, <3>1
  <2>4. n.lo < n.hi
    <3>1. s.hi + 1 \in 1..Len(index) /\ s.lo + 2 \in 1..Len(index)
      BY <1>4
    <3>2. index[s.lo + 2] < index[s.hi + 1]
      BY <1>1, <1>5, <1>7, <3>1
    <3>3. s.lo + 2 # s.hi + 1
      BY <1>5, <3>1, <3>2
    <3> QED BY <1>1, <1>3, <2>2, <3>3
  <2>5. Between(index, ix, n)
    BY <1>1, <2>2, <2>3, <2>4 DEF Between
  <2>6. n.hi - n.lo < s.hi - s.lo
    BY <1>3, <2>2
  <2> QED BY <1>4, <2>5, <2>6 DEF n, mid
<1>8. CASE index[s.lo + 1] # index[s.lo + 2] /\ ix < index[mid + 1]
  <2>1. n = [s EXCEPT !.hi = mid]
    BY <1>8 DEF Narrow, mid
  <2> HIDE DEF n
  <2>2. n \in Searches /\ n.lo = s.lo /\ n.hi = mid /\ n.done = FALSE
    BY <1>1, <1>2, <1>3, <2>1 DEF Searches
  <2>3. n.lo < n.hi
    <3>1. mid # s.lo
      BY <1>1, <1>3, <1>4, <1>5, <1>8
    <3> QED BY <1>2, <1>3, <2>2, <3>1
  <2>4. n.hi < Len(index)
    BY <1>1, <1>2, <1>3, <2>2
  <2>5. Between(index, ix, n)
    BY <1>1, <1>8, <2>2, <2>3, <2>4 DEF Between
  <2>6. n.hi - n.lo < s.hi - s.lo
    BY <1>2, <1>3, <2>2
  <2> QED BY <1>4, <2>5, <2>6 DEF n, mid
<1>9. CASE index[s.lo + 1] # index[s.lo + 2] /\ ~(ix < index[mid + 1]) /\ ix >= index[mid + 2]
  <2>1. n = [s EXCEPT !.lo = mid + 1]
    BY <1>9 DEF Narrow, mid, Beyond
  <2> HIDE DEF n
  <2>2. n \in Searches /\ n.lo = mid + 1 /\ n.hi = s.hi /\ ~n.done
    <3>1. mid + 1 \in Nat
      BY <1>2
    <3> QED BY <1>1, <2>1, <3>1, RaiseLo
  <2>3. n.lo < n.hi
    <3>1. s.hi + 1 \in 1..Len(index)
      BY <1>4
    <3>2. mid + 2 # s.hi + 1
      BY <1>1, <1>4, <1>5, <1>9, <3>1
    <3> QED BY <1>2, <1>3, <2>2, <3>2
  <2>4. index[n.lo + 1] <= ix
    <3>1. n.lo + 1 = mid + 2
      BY <1>2, <2>2
    <3> QED BY <1>4, <1>5, <1>9, <3>1
  <2>5. Between(index, ix, n)
    BY <1>1, <2>2, <2>3, <2>4 DEF Between
  <2>6. n.hi - n.lo < s.hi - s.lo
    BY <1>2, <1>3, <2>2
  <2> QED BY <1>4, <2>5, <2>6 DEF n, mid
<1>10. CASE index[s.lo + 1] # index[s.lo + 2] /\ ~(ix < index[mid + 1]) /\ ~(ix >= index[mid + 2])
  <2>1. n = [s EXCEPT !.done = TRUE, !.chunk = mid]
    BY <1>10 DEF Narrow, mid, Beyond
  <2> HIDE DEF n
  <2>2. n \in Searches /\ n.chunk = mid /\ n.done = TRUE
    BY <1>1, <1>2, <1>3, <2>1 DEF Searches
  <2>3. Holds(index, ix, mid)
    <3>1. mid + 1 \in 1..Len(index)
      BY <1>2, <1>4
    <3> QED BY <1>4, <1>5, <1>10, <3>1 DEF Holds
  <2> QED BY <1>4, <2>2, <2>3 DEF Between, n, mid
<1> QED BY <1>7, <1>8, <1>9, <1>10

(* find_chunk: the loop makes no more passes than there are parts, and what   *)
(* it returns is the part that holds the row; it is never left through        *)
(* lo = hi with the default 0.                                                *)
THEOREM FindChunkFinds ==
  ASSUME NEW index, IsIndex(index), NEW ix \in Nat, ix < index[Len(index)],
         NEW t \in Seq(Searches), IsRun(index, ix, t)
  PROVE  /\ Len(t) <= Len(index)
         /\ ~Looping(t[Len(t)]) => Holds(index, ix, t[Len(t)].chunk)
<1> DEFINE Kept(i) == /\ Between(index, ix, t[i])
                      /\ i <= Len(index)
                      /\ ~t[i].done => t[i].hi - t[i].lo <= Len(index) - i
           G == {n \in Nat : n + 1 \in 1..Len(t) => Kept(n + 1)}
<1>1. Len(t) \in Nat \ {0} /\ Len(index) \in Nat \ {0}
  BY EmptySeq DEF IsRun, IsIndex
<1>2. 0 \in G
  <2>1. t[1] = Start(index)
    BY DEF IsRun
  <2>2. Between(index, ix, t[1])
    BY <2>1, StartsBetween
  <2>3. t[1].hi - t[1].lo <= Len(index) - 1
    BY <1>1, <2>1 DEF Start
  <2> QED BY <1>1, <2>2, <2>3
<1>3. ASSUME NEW n \in Nat, n \in G PROVE n + 1 \in G
  <2> SUFFICES ASSUME (n + 1) + 1 \in 1..Len(t) PROVE Kept((n + 1) + 1)
    OBVIOUS
  <2> DEFINE a == t[n + 1]
             b == t[(n + 1) + 1]
  <2>1. n + 1 \in 1..Len(t) /\ n + 1 \in 1..(Len(t) - 1)
    BY <1>1
  <2>2. Kept(n + 1)
    BY <1>3, <2>1
  <2>3. Looping(a) /\ b = Narrow(index, ix, a)
    BY <2>1 DEF IsRun
  <2>4. Between(index, ix, a) /\ ~a.done /\ a.lo < a.hi /\ a.hi - a.lo <= Len(index) - (n + 1)
    BY <2>2, <2>3 DEF Looping
  <2>5. Between(index, ix, b) /\ (~b.done => b.hi - b.lo < a.hi - a.lo)
    BY <2>3, <2>4, PassKeepsBetween
  <2>6. /\ a.lo \in Nat /\ a.hi \in Nat /\ b.lo \in Nat /\ b.hi \in Nat
    BY <2>4, <2>5 DEF Between, Searches
  <2> HIDE DEF a, b
  <2>7. (n + 1) + 1 <= Len(index)
    BY <1>1, <2>4, <2>6
  <2>8. ~b.done => b.hi - b.lo <= Len(index) - ((n + 1) + 1)
    BY <1>1, <2>4, <2>5, <2>6
  <2> QED BY <2>5, <2>7, <2>8 DEF b
<1>4. Nat \subseteq G
  <2> HIDE DEF G
  <2> QED BY <1>2, <1>3, SetInduction
<1>5. Kept(Len(t))
  <2>1. Len(t) - 1 \in Nat /\ (Len(t) - 1) + 1 = Len(t) /\ Len(t) \in 1..Len(t)
    BY <1>1
  <2>2. Len(t) - 1 \in G
    BY <1>4, <2>1
  <2> QED BY <2>1, <2>2
<1>6. ASSUME ~Looping(t[Len(t)]) PROVE t[Len(t)].done
  BY <1>5, <1>6 DEF Looping, Between
<1> QED BY <1>5, <1>6 DEF Between

(* What build_index makes ascends. *)
LEMMA IndexAscends ==
  ASSUME NEW index, NEW sizes, BuiltFrom(index, sizes)
  PROVE  IsIndex(index)
<1> DEFINE G == {d \in Nat : \A i \in 1..Len(index) : i + d \in 1..Len(index) => index[i] <= index[i + d]}
<1>1. /\ index \in Seq(Nat) /\ sizes \in Seq(Nat) /\ Len(index) = Len(sizes) + 1
      /\ Len(sizes) \in Nat /\ Len(index) \in Nat /\ index[1] = 0
  BY DEF BuiltFrom
<1>2. \A i \in 1..Len(index) : index[i] \in Nat
  BY <1>1
<1>3. 0 \in G
  BY <1>2
<1>4. ASSUME NEW d \in Nat, d \in G PROVE d + 1 \in G
  <2> SUFFICES ASSUME NEW i \in 1..Len(index), i + (d + 1) \in 1..Len(index)
               PROVE  index[i] <= index[i + (d + 1)]
    OBVIOUS
  <2>1. i + d \in 1..Len(sizes) /\ i + d \in 1..Len(index) /\ i + (d + 1) = (i + d) + 1
    BY <1>1
  <2>2. index[(i + d) + 1] = index[i + d] + sizes[i + d] /\ sizes[i + d] \in Nat
    <3>1. index[(i + d) + 1] = index[i + d] + sizes[i + d]
      BY <2>1 DEF BuiltFrom
    <3>2. sizes[i + d] \in Nat
      BY <1>1, <2>1, ElementOfSeq
    <3> QED BY <3>1, <3>2
  <2>3. index[i] <= index[i + d]
    BY <1>4, <2>1
  <2>4. index[i] \in Nat /\ index[i + d] \in Nat
    BY <1>2, <2>1
  <2> QED BY <2>1, <2>2, <2>3, <2>4
<1>5. Nat \subseteq G
  <2> HIDE DEF G
  <2> QED BY <1>3, <1>4, SetInduction
<1>6. ASSUME NEW i \in 1..Len(index), NEW j \in 1..Len(index), i <= j PROVE index[i] <= index[j]
  <2>1. j - i \in Nat /\ i + (j - i) = j
    BY <1>6
  <2>2. j - i \in G
    BY <1>5, <2>1
  <2> QED BY <2>1, <2>2
<1> QED BY <1>1, <1>6 DEF IsIndex

(* ConcatColumnData::at: for parts of any sizes, the search for a row of the  *)
(* column ends, and the row it then asks the part for is a row of that part.  *)
THEOREM RowIsInPart ==
  ASSUME NEW index, NEW sizes, BuiltFrom(index, sizes),
         NEW ix \in Nat, ix < index[Len(index)],
         NEW t \in Seq(Searches), IsRun(index, ix, t)
  PROVE  /\ Len(t) <= Len(index)
         /\ ~Looping(t[Len(t)]) =>
              LET chunk == t[Len(t)].chunk IN
              /\ chunk + 1 \in 1..Len(sizes)
              /\ ix - index[chunk + 1] \in 0..(sizes[chunk + 1] - 1)
<1>1. IsIndex(index)
  BY IndexAscends
<1>2. Len(t) <= Len(index) /\ (~Looping(t[Len(t)]) => Holds(index, ix, t[Len(t)].chunk))
  BY <1>1, FindChunkFinds
<1>3. ASSUME ~Looping(t[Len(t)])
      PROVE  LET chunk == t[Len(t)].chunk IN
             /\ chunk + 1 \in 1..Len(sizes)
             /\ ix - index[chunk + 1] \in 0..(sizes[chunk + 1] - 1)
  <2>1. PICK c : c = t[Len(t)].chunk
    OBVIOUS
  <2>2. c \in Nat
    <3>1. Len(t) \in 1..Len(t)
      BY EmptySeq DEF IsRun
    <3>2. t[Len(t)] \in Searches
      BY <3>1, ElementOfSeq
    <3> QED BY <2>1, <3>2 DEF Searches
  <2>3. c + 2 \in 1..Len(index) /\ index[c + 1] <= ix /\ ix < index[c + 2]
    BY <1>2, <1>3, <2>1 DEF Holds
  <2>4. /\ Len(index) = Len(sizes) + 1 /\ Len(sizes) \in Nat
        /\ sizes \in Seq(Nat) /\ index \in Seq(Nat)
    BY DEF BuiltFrom
  <2>5. c + 1 \in 1..Len(sizes) /\ (c + 1) + 1 = c + 2 /\ c + 1 \in 1..Len(index)
    BY <2>2, <2>3, <2>4
  <2>6. index[c + 2] = index[c + 1] + sizes[c + 1]
    BY <2>5 DEF BuiltFrom
  <2>7. index[c + 1] \in Nat /\ sizes[c + 1] \in Nat
    BY <2>4, <2>5, SMTT(20)
  <2>8. ix - index[c + 1] \in 0..(sizes[c + 1] - 1)
    BY <2>3, <2>6, <2>7
  <2> QED BY <2>1, <2>5, <2>8
<1> QED BY <1>2, <1>3

-----------------------------------------------------------------------------
(* A column of a block, as BlockInv has it *)
Column == [name : Names, ids : Seq(Address) \ {<<>>}]

(* The columns of the blocks and the pointers in them. *)
LEMMA Held ==
  ASSUME NEW s, StateOK(s)
  PROVE  /\ \A x : x \in Holders(s) <=>
              \E t \in Tasks : \E i \in 1..Len(s.blocks[t]) : x = <<t, i>>
         /\ \A t \in Tasks : Len(s.blocks[t]) \in Nat /\ DOMAIN s.blocks[t] = 1..Len(s.blocks[t])
         /\ \A x \in Holders(s) :
              /\ x[1] \in Tasks /\ x[2] \in 1..Len(s.blocks[x[1]]) /\ x = <<x[1], x[2]>>
              /\ s.blocks[x[1]][x[2]] \in Column
              /\ IdsOf(s, x) = s.blocks[x[1]][x[2]].ids
              /\ IdsOf(s, x) \in Seq(Address) /\ Len(IdsOf(s, x)) \in Nat \ {0}
              /\ DOMAIN IdsOf(s, x) = 1..Len(IdsOf(s, x))
              /\ s.told[x[1]][x[2]] \in Seq(Cells)
<1>1. s.blocks \in [Tasks -> Seq(Column)] /\ s.told \in [Tasks -> Seq(Seq(Cells))]
      /\ \A t \in Tasks : Len(s.told[t]) = Len(s.blocks[t])
  BY DEF StateOK, Column
<1>2. \A t \in Tasks : /\ s.blocks[t] \in Seq(Column) /\ Len(s.blocks[t]) \in Nat
                       /\ DOMAIN s.blocks[t] = 1..Len(s.blocks[t])
                       /\ s.told[t] \in Seq(Seq(Cells))
  BY <1>1
<1>3. \A x : x \in Holders(s) <=> \E t \in Tasks : x \in {t} \X DOMAIN s.blocks[t]
  BY DEF Holders
<1>4. \A x : x \in Holders(s) <=> \E t \in Tasks : \E i \in 1..Len(s.blocks[t]) : x = <<t, i>>
  BY <1>2, <1>3
<1>5. ASSUME NEW x \in Holders(s)
      PROVE  /\ x[1] \in Tasks /\ x[2] \in 1..Len(s.blocks[x[1]]) /\ x = <<x[1], x[2]>>
             /\ s.blocks[x[1]][x[2]] \in Column
             /\ IdsOf(s, x) = s.blocks[x[1]][x[2]].ids
             /\ IdsOf(s, x) \in Seq(Address) /\ Len(IdsOf(s, x)) \in Nat \ {0}
             /\ DOMAIN IdsOf(s, x) = 1..Len(IdsOf(s, x))
             /\ s.told[x[1]][x[2]] \in Seq(Cells)
  <2>0. PICK t \in Tasks : \E i \in 1..Len(s.blocks[t]) : x = <<t, i>>
    BY <1>4
  <2>1. PICK i \in 1..Len(s.blocks[t]) : x = <<t, i>>
    BY <2>0
  <2>2. x[1] = t /\ x[2] = i
    BY <2>1
  <2>3. s.blocks[t][i] \in Column
    BY <1>2
  <2>4. s.blocks[t][i].ids \in Seq(Address) /\ s.blocks[t][i].ids # <<>>
    BY <2>3 DEF Column
  <2>5. Len(s.blocks[t][i].ids) \in Nat \ {0} /\ DOMAIN s.blocks[t][i].ids = 1..Len(s.blocks[t][i].ids)
    BY <2>4, EmptySeq
  <2>6. s.told[t][i] \in Seq(Cells)
    BY <1>1, <1>2
  <2> QED BY <2>1, <2>2, <2>3, <2>4, <2>5, <2>6 DEF IdsOf
<1> QED BY <1>2, <1>4, <1>5

(* The same of the places. *)
LEMMA PlaceIs ==
  ASSUME NEW s, StateOK(s)
  PROVE  /\ \A p : p \in Places(s) <=>
              \E x \in Holders(s) : \E d \in 1..Len(IdsOf(s, x)) : p = <<x, d>>
         /\ \A p \in Places(s) :
              /\ p[1] \in Holders(s) /\ p[2] \in 1..Len(IdsOf(s, p[1])) /\ p = <<p[1], p[2]>>
              /\ IdAt(s, p) = IdsOf(s, p[1])[p[2]]
              /\ IdAt(s, p) \in Address
<1>1. \A p : p \in Places(s) <=> \E x \in Holders(s) : p \in {x} \X DOMAIN IdsOf(s, x)
  BY DEF Places
<1>2. \A x \in Holders(s) : IdsOf(s, x) \in Seq(Address) /\ DOMAIN IdsOf(s, x) = 1..Len(IdsOf(s, x))
  BY Held
<1>3. \A p : p \in Places(s) <=> \E x \in Holders(s) : \E d \in 1..Len(IdsOf(s, x)) : p = <<x, d>>
  BY <1>1, <1>2
<1>4. ASSUME NEW p \in Places(s)
      PROVE  /\ p[1] \in Holders(s) /\ p[2] \in 1..Len(IdsOf(s, p[1])) /\ p = <<p[1], p[2]>>
             /\ IdAt(s, p) = IdsOf(s, p[1])[p[2]]
             /\ IdAt(s, p) \in Address
  <2>0. PICK x \in Holders(s) : \E d \in 1..Len(IdsOf(s, x)) : p = <<x, d>>
    BY <1>3
  <2>1. PICK d \in 1..Len(IdsOf(s, x)) : p = <<x, d>>
    BY <2>0
  <2>2. p[1] = x /\ p[2] = d
    BY <2>1
  <2>3. IdsOf(s, x)[d] \in Address
    BY <1>2
  <2> QED BY <2>1, <2>2, <2>3 DEF IdAt
<1> QED BY <1>3, <1>4

(* Two pointers to an Arc, without places. *)
LEMMA Shared ==
  ASSUME NEW s, StateOK(s), SharingBelow(s), NEW x \in Holders(s), NEW y \in Holders(s),
         NEW d \in 1..Len(IdsOf(s, x)), NEW e \in 1..Len(IdsOf(s, y)),
         IdsOf(s, x)[d] = IdsOf(s, y)[e]
  PROVE  d = e /\ Tail(IdsOf(s, x)) = Tail(IdsOf(s, y))
<1>1. <<x, d>> \in Places(s) /\ <<y, e>> \in Places(s)
  BY PlaceIs
<1>2. IdAt(s, <<x, d>>) = IdAt(s, <<y, e>>)
  BY DEF IdAt
<1> QED BY <1>1, <1>2 DEF SharingBelow

(* A pointer has an Arc. *)
LEMMA Pointed ==
  ASSUME NEW s, StateOK(s), Pointing(s), NEW x \in Holders(s), NEW d \in 1..Len(IdsOf(s, x))
  PROVE  IdsOf(s, x)[d] \in DOMAIN s.heap
<1>1. <<x, d>> \in Places(s)
  BY PlaceIs
<1> QED BY <1>1 DEF Pointing, IdAt

(* The layers of a column. *)
LEMMA ChainIs ==
  ASSUME NEW s, NEW a, NEW n \in Nat, DOMAIN a = 1..n
  PROVE  Chain(s, a) = [d \in 1..n |-> s.heap[a[d]]]
BY DEF Chain

(* The invariant of a call, column by column. *)
Fills(s, x) ==
  /\ Whole(Chain(s, IdsOf(s, x)))
  /\ RowsOf(Chain(s, IdsOf(s, x))) =
       [j \in DOMAIN s.told[x[1]][x[2]] |-> Stored(Chain(s, IdsOf(s, x)), s.told[x[1]][x[2]][j])]

Sharing(s, x, y) ==
  \A d \in 1..Len(IdsOf(s, x)), e \in 1..Len(IdsOf(s, y)) :
    IdsOf(s, x)[d] = IdsOf(s, y)[e] => d = e /\ Tail(IdsOf(s, x)) = Tail(IdsOf(s, y))

LEMMA ByColumns ==
  ASSUME NEW s, StateOK(s)
  PROVE  CallInv(s) <=>
           /\ \A x \in Holders(s) : \A d \in 1..Len(IdsOf(s, x)) : IdsOf(s, x)[d] \in DOMAIN s.heap
           /\ \A x, y \in Holders(s) : Sharing(s, x, y)
           /\ \A x \in Holders(s) : Fills(s, x)
<1>1. Pointing(s) <=> \A x \in Holders(s) : \A d \in 1..Len(IdsOf(s, x)) : IdsOf(s, x)[d] \in DOMAIN s.heap
  <2>1. ASSUME \A x \in Holders(s) : \A d \in 1..Len(IdsOf(s, x)) : IdsOf(s, x)[d] \in DOMAIN s.heap
        PROVE  Pointing(s)
    BY <2>1, PlaceIs DEF Pointing
  <2> QED BY <2>1, Pointed
<1>2. SharingBelow(s) <=> \A x, y \in Holders(s) : Sharing(s, x, y)
  <2>1. ASSUME \A x, y \in Holders(s) : Sharing(s, x, y) PROVE SharingBelow(s)
    BY <2>1, PlaceIs DEF SharingBelow, Sharing
  <2>2. ASSUME SharingBelow(s) PROVE \A x, y \in Holders(s) : Sharing(s, x, y)
    BY <2>2, Shared DEF Sharing
  <2> QED BY <2>1, <2>2
<1>3. Holding(s) <=> \A x \in Holders(s) : Fills(s, x)
  BY DEF Holding, Fills, ColumnAt, IdsOf
<1> QED BY <1>1, <1>2, <1>3 DEF CallInv

(* f is a function. *)
IsMap(f) == f = [z \in DOMAIN f |-> f[z]]

(* What is in memory after layers have been written at distinct addresses. *)
LEMMA WrittenIs ==
  ASSUME NEW h, NEW a, NEW layers, NEW n \in Nat, DOMAIN a = 1..n,
         \A d, e \in 1..n : a[d] = a[e] => d = e
  PROVE  /\ \A id : id \in DOMAIN Written(h, a, layers) <=> id \in DOMAIN h \/ \E d \in 1..n : id = a[d]
         /\ IsMap(Written(h, a, layers))
         /\ \A d \in 1..n : Written(h, a, layers)[a[d]] = layers[d]
         /\ \A id \in DOMAIN h : (\A d \in 1..n : a[d] # id) => Written(h, a, layers)[id] = h[id]
<1>1. Range(a) = {a[d] : d \in 1..n}
  BY DEF Range
<1>2. /\ \A id : id \in DOMAIN Written(h, a, layers) <=> id \in DOMAIN h \/ \E d \in 1..n : id = a[d]
      /\ IsMap(Written(h, a, layers))
  BY <1>1 DEF Written, IsMap
<1>3. ASSUME NEW d \in 1..n PROVE Written(h, a, layers)[a[d]] = layers[d]
  <2>1. (CHOOSE e \in DOMAIN a : a[e] = a[d]) = d
    <3>1. \A e \in DOMAIN a : a[e] = a[d] => e = d
      OBVIOUS
    <3>2. d \in DOMAIN a /\ a[d] = a[d]
      OBVIOUS
    <3> QED BY <3>1, <3>2
  <2>2. a[d] \in Range(a)
    BY <1>1
  <2> QED BY <2>1, <2>2 DEF Written
<1>4. ASSUME NEW id \in DOMAIN h, \A d \in 1..n : a[d] # id PROVE Written(h, a, layers)[id] = h[id]
  <2>1. id \notin Range(a)
    BY <1>1, <1>4
  <2> QED BY <2>1 DEF Written
<1> QED BY <1>2, <1>3, <1>4

(* New addresses are not in use. *)
LEMMA FreshIs ==
  ASSUME NEW s, StateOK(s), NEW n \in Nat \ {0}
  PROVE  /\ Fresh(s, n) \in Seq(Address) \ {<<>>} /\ Len(Fresh(s, n)) = n
         /\ DOMAIN Fresh(s, n) = 1..n
         /\ \A d \in 1..n : /\ Fresh(s, n)[d] = <<s.new + d>> /\ s.new + d \in Nat
                            /\ Fresh(s, n)[d] \notin DOMAIN s.heap
         /\ \A d, e \in 1..n : Fresh(s, n)[d] = Fresh(s, n)[e] => d = e
<1> DEFINE a == Fresh(s, n)
<1>1. s.new \in Nat /\ \A id \in DOMAIN s.heap : id \in [{1} -> Nat] => id[1] <= s.new
  BY DEF StateOK
<1>2. ASSUME NEW d \in 1..n
      PROVE  a[d] = <<s.new + d>> /\ s.new + d \in Nat /\ a[d] \in [{1} -> Nat] /\ a[d][1] = s.new + d
  <2>1. a[d] = <<s.new + d>> /\ s.new + d \in Nat
    BY <1>1 DEF Fresh
  <2>2. ASSUME NEW k \in Nat PROVE <<k>> \in [{1} -> Nat] /\ <<k>>[1] = k
    OBVIOUS
  <2> QED BY <2>1, <2>2
<1>3. ASSUME NEW d \in 1..n PROVE a[d] \notin DOMAIN s.heap
  <2>1. ~ (s.new + d <= s.new)
    BY <1>1
  <2> QED BY <1>1, <1>2, <2>1
<1>4. a \in [1..n -> Address]
  <2>1. \A d \in 1..n : a[d] \in Address
    BY <1>2 DEF Address
  <2>2. a = [d \in 1..n |-> a[d]]
    BY DEF Fresh
  <2> QED BY <2>1, <2>2
<1>5. a \in Seq(Address) /\ Len(a) = n /\ DOMAIN a = 1..n
  BY <1>4
<1>6. a # <<>>
  BY <1>5
<1>7. ASSUME NEW d \in 1..n, NEW e \in 1..n, a[d] = a[e] PROVE d = e
  <2>1. s.new + d = s.new + e
    BY <1>2, <1>7
  <2> QED BY <1>1, <2>1
<1> QED BY <1>2, <1>3, <1>5, <1>6, <1>7

(* A sequence with an element more. *)
LEMMA LongerBy ==
  ASSUME NEW S, NEW q \in Seq(S), NEW z \in S, NEW n, n = Len(q)
  PROVE  /\ Append(q, z) \in Seq(S) /\ Len(Append(q, z)) = n + 1 /\ Append(q, z)[n + 1] = z
         /\ \A i \in 1..n : Append(q, z)[i] = q[i]
BY AppendProperties

(* A column is added at the end of a block. *)
Appended(s, w, t, col, vs) ==
  /\ w.blocks = [s.blocks EXCEPT ![t] = Append(s.blocks[t], col)]
  /\ w.told = [s.told EXCEPT ![t] = Append(s.told[t], vs)]

LEMMA AppendedIs ==
  ASSUME NEW s, NEW w, NEW t, NEW col, NEW vs, NEW x,
         StateOK(s), t \in Tasks, col \in Column, vs \in Seq(Cells),
         Appended(s, w, t, col, vs), x = <<t, Len(s.blocks[t]) + 1>>
  PROVE  /\ w.blocks \in [Tasks -> Seq(Column)] /\ w.told \in [Tasks -> Seq(Seq(Cells))]
         /\ \A u \in Tasks : Len(w.told[u]) = Len(w.blocks[u])
         /\ x \notin Holders(s) /\ Holders(w) = Holders(s) \cup {x}
         /\ \A y \in Holders(s) : IdsOf(w, y) = IdsOf(s, y) /\ w.told[y[1]][y[2]] = s.told[y[1]][y[2]]
         /\ IdsOf(w, x) = col.ids /\ w.told[x[1]][x[2]] = vs
<1> DEFINE n == Len(s.blocks[t])
<1>1. /\ s.blocks \in [Tasks -> Seq(Column)] /\ s.told \in [Tasks -> Seq(Seq(Cells))]
      /\ \A u \in Tasks : Len(s.told[u]) = Len(s.blocks[u])
  BY DEF StateOK, Column
<1>2. /\ s.blocks[t] \in Seq(Column) /\ s.told[t] \in Seq(Seq(Cells)) /\ n \in Nat /\ Len(s.told[t]) = n
  BY <1>1
<1>3. /\ Append(s.blocks[t], col) \in Seq(Column) /\ Len(Append(s.blocks[t], col)) = n + 1
      /\ Append(s.blocks[t], col)[n + 1] = col
      /\ \A i \in 1..n : Append(s.blocks[t], col)[i] = s.blocks[t][i]
  BY <1>2, LongerBy
<1>4. /\ Append(s.told[t], vs) \in Seq(Seq(Cells)) /\ Len(Append(s.told[t], vs)) = n + 1
      /\ Append(s.told[t], vs)[n + 1] = vs
      /\ \A i \in 1..n : Append(s.told[t], vs)[i] = s.told[t][i]
  <2>1. PICK S, q : S = Seq(Cells) /\ q = s.told[t]
    OBVIOUS
  <2>2. q \in Seq(S) /\ vs \in S /\ n = Len(q)
    BY <1>2, <2>1
  <2>3. /\ Append(q, vs) \in Seq(S) /\ Len(Append(q, vs)) = n + 1 /\ Append(q, vs)[n + 1] = vs
        /\ \A i \in 1..n : Append(q, vs)[i] = q[i]
    BY <2>2, LongerBy
  <2> QED BY <2>1, <2>3
<1>5. /\ w.blocks[t] = Append(s.blocks[t], col) /\ w.told[t] = Append(s.told[t], vs)
      /\ \A u \in Tasks : u # t => w.blocks[u] = s.blocks[u] /\ w.told[u] = s.told[u]
      /\ w.blocks \in [Tasks -> Seq(Column)] /\ w.told \in [Tasks -> Seq(Seq(Cells))]
  BY <1>1, <1>3, <1>4 DEF Appended
<1>6. \A u \in Tasks : Len(w.told[u]) = Len(w.blocks[u])
  BY <1>1, <1>3, <1>4, <1>5
<1>7. \A y : y \in Holders(w) <=> \E u \in Tasks : \E i \in 1..Len(w.blocks[u]) : y = <<u, i>>
  <2>1. \A u \in Tasks : DOMAIN w.blocks[u] = 1..Len(w.blocks[u])
    BY <1>5
  <2> QED BY <2>1 DEF Holders
<1>8. \A y : y \in Holders(s) <=> \E u \in Tasks : \E i \in 1..Len(s.blocks[u]) : y = <<u, i>>
  BY Held
<1>9. x \notin Holders(s)
  BY <1>2, <1>8
<1>10. ASSUME NEW y \in Holders(w) PROVE y \in Holders(s) \/ y = x
  <2>1. PICK u \in Tasks : \E i \in 1..Len(w.blocks[u]) : y = <<u, i>>
    BY <1>7
  <2>2. PICK i \in 1..Len(w.blocks[u]) : y = <<u, i>>
    BY <2>1
  <2>3. CASE u # t
    BY <1>5, <1>8, <2>2, <2>3
  <2>4. CASE u = t
    <3>1. i \in 1..n \/ i = n + 1
      BY <1>2, <1>3, <1>5, <2>4, SMTT(20)
    <3> QED BY <1>8, <2>2, <2>4, <3>1
  <2> QED BY <2>3, <2>4
<1>11. ASSUME NEW y \in Holders(s)
       PROVE  /\ y \in Holders(w) /\ IdsOf(w, y) = IdsOf(s, y)
              /\ w.told[y[1]][y[2]] = s.told[y[1]][y[2]]
  <2>1. y[1] \in Tasks /\ y[2] \in 1..Len(s.blocks[y[1]]) /\ y = <<y[1], y[2]>>
    BY Held
  <2>2. CASE y[1] # t
    BY <1>5, <1>7, <2>1, <2>2 DEF IdsOf
  <2>3. CASE y[1] = t
    <3>1. y[2] \in 1..n /\ y[2] \in 1..Len(w.blocks[t])
      BY <1>2, <1>3, <1>5, <2>1, <2>3
    <3>2. y \in Holders(w)
      BY <1>7, <2>1, <2>3, <3>1
    <3>3. w.blocks[y[1]][y[2]] = s.blocks[y[1]][y[2]] /\ w.told[y[1]][y[2]] = s.told[y[1]][y[2]]
      <4>1. w.blocks[t][y[2]] = s.blocks[t][y[2]]
        BY <1>3, <1>5, <3>1
      <4>2. w.told[t][y[2]] = s.told[t][y[2]]
        BY <1>4, <1>5, <3>1, SMTT(20)
      <4> QED BY <2>3, <4>1, <4>2
    <3> QED BY <3>2, <3>3 DEF IdsOf
  <2> QED BY <2>2, <2>3
<1>12. x \in Holders(w) /\ IdsOf(w, x) = col.ids /\ w.told[x[1]][x[2]] = vs
  <2>1. x[1] = t /\ x[2] = n + 1 /\ n + 1 \in 1..Len(w.blocks[t])
    BY <1>2, <1>3, <1>5
  <2> QED BY <1>3, <1>4, <1>5, <1>7, <2>1 DEF IdsOf
<1> QED BY <1>5, <1>6, <1>9, <1>10, <1>11, <1>12

(* A column whose pointers and layers are the same is the same. *)
LEMMA ColumnKept ==
  ASSUME NEW s, StateOK(s), NEW w, NEW x \in Holders(s), IdsOf(w, x) = IdsOf(s, x),
         w.told[x[1]][x[2]] = s.told[x[1]][x[2]],
         \A d \in 1..Len(IdsOf(s, x)) : w.heap[IdsOf(s, x)[d]] = s.heap[IdsOf(s, x)[d]]
  PROVE  Chain(w, IdsOf(w, x)) = Chain(s, IdsOf(s, x)) /\ (Fills(s, x) => Fills(w, x))
<1>1. Len(IdsOf(s, x)) \in Nat /\ DOMAIN IdsOf(s, x) = 1..Len(IdsOf(s, x))
  BY Held
<1>2. Chain(w, IdsOf(w, x)) = Chain(s, IdsOf(s, x))
  BY <1>1, ChainIs
<1> QED BY <1>2 DEF Fills

(* The state after a column has been added. *)
LEMMA AppendedInv ==
  ASSUME NEW s, CallInv(s), NEW w, StateOK(w), NEW t \in Tasks, NEW col \in Column, NEW vs \in Seq(Cells),
         Appended(s, w, t, col, vs), NEW x, x = <<t, Len(s.blocks[t]) + 1>>,
         \A id \in DOMAIN s.heap : id \in DOMAIN w.heap /\ w.heap[id] = s.heap[id],
         \A d \in 1..Len(col.ids) : col.ids[d] \in DOMAIN w.heap,
         \A y \in Holders(s) \cup {x} : Sharing(w, x, y),
         Fills(w, x)
  PROVE  CallInv(w)
<1>1. StateOK(s)
  BY DEF CallInv
<1>2. /\ Holders(w) = Holders(s) \cup {x}
      /\ \A y \in Holders(s) : IdsOf(w, y) = IdsOf(s, y) /\ w.told[y[1]][y[2]] = s.told[y[1]][y[2]]
      /\ IdsOf(w, x) = col.ids
  BY <1>1, AppendedIs
<1>3. /\ \A y \in Holders(s) : \A d \in 1..Len(IdsOf(s, y)) : IdsOf(s, y)[d] \in DOMAIN s.heap
      /\ \A y, z \in Holders(s) : Sharing(s, y, z)
      /\ \A y \in Holders(s) : Fills(s, y)
  BY <1>1, ByColumns
<1>4. ASSUME NEW y \in Holders(s) PROVE Fills(w, y)
  BY <1>1, <1>2, <1>3, ColumnKept
<1>5. ASSUME NEW y \in Holders(w), NEW z \in Holders(w) PROVE Sharing(w, y, z)
  <2>1. CASE y = x
    BY <1>2, <2>1
  <2>2. CASE z = x /\ y \in Holders(s)
    <3>1. Sharing(w, x, y)
      BY <2>2
    <3> QED BY <2>2, <3>1 DEF Sharing
  <2>3. CASE y \in Holders(s) /\ z \in Holders(s)
    BY <1>2, <1>3, <2>3 DEF Sharing
  <2> QED BY <1>2, <2>1, <2>2, <2>3
<1>6. ASSUME NEW y \in Holders(w), NEW d \in 1..Len(IdsOf(w, y)) PROVE IdsOf(w, y)[d] \in DOMAIN w.heap
  BY <1>2, <1>3
<1>7. \A y \in Holders(w) : Fills(w, y)
  BY <1>2, <1>4
<1> QED BY <1>5, <1>6, <1>7, ByColumns

(* append_column of a new column. *)
LEMMA WithColumnInv ==
  ASSUME NEW s, CallInv(s), NEW t \in Tasks, NEW name \in Names, NEW layers, NEW vs \in Seq(Cells),
         HasRows(layers, vs)
  PROVE  /\ CallInv(WithColumn(s, t, name, layers, vs)) /\ WithColumn(s, t, name, layers, vs).end = s.end
         /\ Len(s.blocks[t]) + 1 \in DOMAIN WithColumn(s, t, name, layers, vs).blocks[t]
<1>0. PICK w, n, a, col, x :
        /\ w = WithColumn(s, t, name, layers, vs) /\ n = Len(layers) /\ a = Fresh(s, n) /\ col = [name |-> name, ids |-> a]
        /\ x = <<t, Len(s.blocks[t]) + 1>>
  OBVIOUS
<1>1. StateOK(s) /\ n \in Nat \ {0} /\ layers = [k \in 1..n |-> layers[k]]
  BY <1>0 DEF CallInv, HasRows
<1>2. /\ a \in Seq(Address) \ {<<>>} /\ Len(a) = n /\ DOMAIN a = 1..n
      /\ \A d \in 1..n : a[d] = <<s.new + d>> /\ s.new + d \in Nat /\ a[d] \notin DOMAIN s.heap
      /\ \A d, e \in 1..n : a[d] = a[e] => d = e
  BY <1>0, <1>1, FreshIs
<1>3. col \in Column /\ col.ids = a
  BY <1>0, <1>2 DEF Column
<1>4. w = [heap |-> Written(s.heap, a, layers),
           blocks |-> [s.blocks EXCEPT ![t] = Append(s.blocks[t], col)],
           told |-> [s.told EXCEPT ![t] = Append(s.told[t], vs)],
           new |-> s.new + n, end |-> s.end]
  <2>1. s = [heap |-> s.heap, blocks |-> s.blocks, told |-> s.told, new |-> s.new, end |-> s.end]
    BY <1>1 DEF StateOK
  <2> QED BY <1>0, <2>1 DEF WithColumn
<1>5. /\ w.heap = Written(s.heap, a, layers) /\ w.new = s.new + n /\ w.end = s.end
      /\ Appended(s, w, t, col, vs)
      /\ w = [heap |-> w.heap, blocks |-> w.blocks, told |-> w.told, new |-> w.new, end |-> w.end]
  BY <1>4 DEF Appended
<1>6. /\ w.blocks \in [Tasks -> Seq(Column)] /\ w.told \in [Tasks -> Seq(Seq(Cells))]
      /\ \A u \in Tasks : Len(w.told[u]) = Len(w.blocks[u])
      /\ x \notin Holders(s) /\ Holders(w) = Holders(s) \cup {x}
      /\ \A y \in Holders(s) : IdsOf(w, y) = IdsOf(s, y)
      /\ IdsOf(w, x) = a /\ w.told[x[1]][x[2]] = vs
  <2>1. Appended(s, w, t, col, vs) /\ x = <<t, Len(s.blocks[t]) + 1>>
    BY <1>0, <1>5
  <2>2. /\ w.blocks \in [Tasks -> Seq(Column)] /\ w.told \in [Tasks -> Seq(Seq(Cells))]
        /\ \A u \in Tasks : Len(w.told[u]) = Len(w.blocks[u])
        /\ x \notin Holders(s) /\ Holders(w) = Holders(s) \cup {x}
        /\ \A y \in Holders(s) : IdsOf(w, y) = IdsOf(s, y)
        /\ IdsOf(w, x) = col.ids /\ w.told[x[1]][x[2]] = vs
    <3>1. StateOK(s) /\ col \in Column
      BY <1>1, <1>3
    <3> QED BY <2>1, <3>1, AppendedIs
  <2> QED BY <1>3, <2>2
<1>7. /\ \A id : id \in DOMAIN w.heap <=> id \in DOMAIN s.heap \/ \E d \in 1..n : id = a[d]
      /\ IsMap(w.heap)
      /\ \A d \in 1..n : w.heap[a[d]] = layers[d]
      /\ \A id \in DOMAIN s.heap : w.heap[id] = s.heap[id]
  <2>1. n \in Nat
    BY <1>1
  <2>2. PICK h : h = s.heap
    OBVIOUS
  <2>3. /\ \A id : id \in DOMAIN Written(h, a, layers) <=> id \in DOMAIN h \/ \E d \in 1..n : id = a[d]
        /\ IsMap(Written(h, a, layers))
        /\ \A d \in 1..n : Written(h, a, layers)[a[d]] = layers[d]
        /\ \A id \in DOMAIN h : (\A d \in 1..n : a[d] # id) => Written(h, a, layers)[id] = h[id]
    <3>1. DOMAIN a = 1..n /\ \A d, e \in 1..n : a[d] = a[e] => d = e
      BY <1>2
    <3> QED BY <2>1, <3>1, WrittenIs
  <2>4. \A id \in DOMAIN h : \A d \in 1..n : a[d] # id
    BY <1>2, <2>2
  <2> QED BY <1>5, <2>2, <2>3, <2>4
<1>8. StateOK(w)
  <2>1. s.new \in Nat /\ \A id \in DOMAIN s.heap : id \in Address /\ (id \in [{1} -> Nat] => id[1] <= s.new)
    BY <1>1 DEF StateOK
  <2>2. w.new \in Nat /\ s.new <= w.new
    BY <1>1, <1>5, <2>1
  <2>3. ASSUME NEW id \in DOMAIN w.heap PROVE id \in Address /\ (id \in [{1} -> Nat] => id[1] <= w.new)
    <3>1. CASE id \in DOMAIN s.heap
      <4>1. ASSUME id \in [{1} -> Nat] PROVE id[1] <= w.new
        <5>1. id[1] \in Nat /\ id[1] <= s.new
          BY <2>1, <3>1, <4>1
        <5> QED BY <2>1, <2>2, <5>1
      <4> QED BY <2>1, <3>1, <4>1
    <3>2. ASSUME NEW d \in 1..n, id = a[d] PROVE id \in Address /\ id[1] <= w.new
      <4>1. id \in Address /\ id[1] = s.new + d
        BY <1>2, <3>2
      <4> QED BY <1>1, <1>5, <2>1, <4>1
    <3> QED BY <1>7, <3>1, <3>2
  <2>4. s.end \in {"ok", "err", "panic"}
    BY <1>1 DEF StateOK
  <2> QED BY <1>5, <1>6, <1>7, <2>2, <2>3, <2>4 DEF StateOK, Column, IsMap
<1>9. \A y \in Holders(s) : \A d \in 1..Len(IdsOf(s, y)) : IdsOf(s, y)[d] \in DOMAIN s.heap
  BY <1>1, ByColumns
<1>10. ASSUME NEW y \in Holders(s) \cup {x} PROVE Sharing(w, x, y)
  <2>1. CASE y = x
    BY <1>2, <1>6, <2>1 DEF Sharing
  <2>2. CASE y \in Holders(s)
    <3>1. IdsOf(w, x) = a /\ IdsOf(w, y) = IdsOf(s, y)
      BY <1>6, <2>2
    <3>2. \A d \in 1..n : \A e \in 1..Len(IdsOf(s, y)) : a[d] # IdsOf(s, y)[e]
      BY <1>2, <1>9, <2>2
    <3> QED BY <1>2, <3>1, <3>2 DEF Sharing
  <2> QED BY <2>1, <2>2
<1>11. Fills(w, x)
  <2>1. Chain(w, a) = layers
    <3>1. Chain(w, a) = [d \in 1..n |-> w.heap[a[d]]]
      <4>1. n \in Nat
        BY <1>1
      <4> QED BY <1>2, <4>1, ChainIs
    <3> QED BY <1>1, <1>7, <3>1
  <2> QED BY <1>6, <2>1 DEF Fills, HasRows
<1>12. CallInv(w)
  <2>1. \A d \in 1..Len(col.ids) : col.ids[d] \in DOMAIN w.heap
    BY <1>2, <1>3, <1>7
  <2>2. \A id \in DOMAIN s.heap : id \in DOMAIN w.heap /\ w.heap[id] = s.heap[id]
    BY <1>7
  <2> QED BY <1>0, <1>3, <1>5, <1>8, <1>10, <1>11, <2>1, <2>2, AppendedInv
<1>13. Len(s.blocks[t]) + 1 \in DOMAIN w.blocks[t]
  <2>1. x \in Holders(w) /\ x[1] = t /\ x[2] = Len(s.blocks[t]) + 1
    BY <1>0, <1>6
  <2> QED BY <1>8, <2>1, Held
<1> QED BY <1>0, <1>5, <1>12, <1>13

-----------------------------------------------------------------------------
(* Nothing else points to the first layer of a column. *)
Alone(s, x) == \A y \in Holders(s) : y # x => IdsOf(s, y)[1] # IdsOf(s, x)[1]

(* The first pointer of a column is replaced. *)
WithFirst(a, f) == [a EXCEPT ![1] = f]

Replaced(s, w, t, i, f) == w.blocks = [s.blocks EXCEPT ![t][i].ids[1] = f]

LEMMA ReplacedIs ==
  ASSUME NEW s, NEW w, NEW t, NEW i, NEW f, NEW x, StateOK(s), x = <<t, i>>, x \in Holders(s),
         f \in Address, Replaced(s, w, t, i, f)
  PROVE  /\ w.blocks \in [Tasks -> Seq(Column)]
         /\ \A u \in Tasks : Len(w.blocks[u]) = Len(s.blocks[u])
         /\ Holders(w) = Holders(s)
         /\ \A y \in Holders(s) : y # x => IdsOf(w, y) = IdsOf(s, y)
         /\ IdsOf(w, x) = WithFirst(IdsOf(s, x), f)
<1>0. t \in Tasks /\ i \in 1..Len(s.blocks[t])
  <2>1. x[1] \in Tasks /\ x[2] \in 1..Len(s.blocks[x[1]])
    BY Held
  <2> QED BY <2>1
<1>1. s.blocks \in [Tasks -> Seq(Column)]
  BY DEF StateOK, Column
<1>2. PICK q, n : q = s.blocks[t] /\ n = Len(s.blocks[t])
  OBVIOUS
<1>3. q \in Seq(Column) /\ n \in Nat /\ Len(q) = n /\ i \in 1..n
  BY <1>0, <1>1, <1>2
<1>4. q[i] \in Column /\ q[i].ids \in Seq(Address) /\ q[i].ids # <<>>
  <2>1. q[i] \in Column
    BY <1>3
  <2> QED BY <2>1 DEF Column
<1>5. PICK b : b = [q[i].ids EXCEPT ![1] = f]
  OBVIOUS
<1>6. b \in Seq(Address) \ {<<>>}
  <2>0. PICK m : m = Len(q[i].ids)
    OBVIOUS
  <2>1. m \in Nat \ {0} /\ q[i].ids \in [1..m -> Address]
    BY <1>4, <2>0, EmptySeq
  <2>2. b \in [1..m -> Address]
    BY <1>5, <2>1
  <2>3. b \in Seq(Address) /\ Len(b) = m
    BY <2>1, <2>2
  <2> QED BY <2>1, <2>3
<1>7. PICK c : c = [q[i] EXCEPT !.ids = b]
  OBVIOUS
<1>8. c \in Column /\ c.ids = b
  BY <1>4, <1>6, <1>7 DEF Column
<1>9. PICK r : r = [q EXCEPT ![i] = c]
  OBVIOUS
<1>10. r \in Seq(Column) /\ Len(r) = n /\ r[i] = c /\ \A j \in 1..n : j # i => r[j] = q[j]
  BY <1>3, <1>8, <1>9
<1>11. w.blocks = [s.blocks EXCEPT ![t] = r]
  BY <1>2, <1>5, <1>7, <1>9 DEF Replaced
<1>12. /\ w.blocks[t] = r /\ \A u \in Tasks : u # t => w.blocks[u] = s.blocks[u]
       /\ w.blocks \in [Tasks -> Seq(Column)]
  BY <1>0, <1>1, <1>10, <1>11
<1>13. \A u \in Tasks : Len(w.blocks[u]) = Len(s.blocks[u])
  BY <1>2, <1>10, <1>12
<1>14. Holders(w) = Holders(s)
  <2>1. \A u \in Tasks : DOMAIN w.blocks[u] = DOMAIN s.blocks[u]
    BY <1>1, <1>12, <1>13
  <2> QED BY <2>1 DEF Holders
<1>15. ASSUME NEW y \in Holders(s), y # x PROVE IdsOf(w, y) = IdsOf(s, y)
  <2>1. y[1] \in Tasks /\ y[2] \in 1..Len(s.blocks[y[1]]) /\ y = <<y[1], y[2]>>
    BY Held
  <2>2. CASE y[1] # t
    BY <1>12, <2>1, <2>2 DEF IdsOf
  <2>3. CASE y[1] = t
    <3>1. y[2] \in 1..n /\ y[2] # i
      BY <1>2, <1>15, <2>1, <2>3
    <3> QED BY <1>2, <1>10, <1>12, <2>3, <3>1 DEF IdsOf
  <2> QED BY <2>2, <2>3
<1>16. IdsOf(w, <<t, i>>) = WithFirst(IdsOf(s, <<t, i>>), f)
  <2>1. IdsOf(w, <<t, i>>) = r[i].ids
    BY <1>12 DEF IdsOf
  <2>2. IdsOf(s, <<t, i>>) = q[i].ids
    BY <1>2 DEF IdsOf
  <2> QED BY <1>5, <1>8, <1>10, <2>1, <2>2 DEF WithFirst
<1> QED BY <1>12, <1>13, <1>14, <1>15, <1>16

(* Column::push has a first layer of its own. *)
LEMMA UnsharedInv ==
  ASSUME NEW s, CallInv(s), NEW t \in Tasks, NEW i \in 1..Len(s.blocks[t])
  PROVE  /\ CallInv(Unshared(s, t, i)) /\ Unshared(s, t, i).end = s.end
         /\ <<t, i>> \in Holders(Unshared(s, t, i)) /\ Alone(Unshared(s, t, i), <<t, i>>)
<1>0. PICK u, x, a, n, f :
        /\ u = Unshared(s, t, i) /\ x = <<t, i>> /\ a = IdsOf(s, x) /\ n = Len(a)
        /\ f = <<s.new + 1>>
  OBVIOUS
<1>1. StateOK(s)
  BY DEF CallInv
<1>2. x \in Holders(s)
  BY <1>0, <1>1, Held
<1>3. a \in Seq(Address) /\ n \in Nat \ {0} /\ Len(a) = n /\ DOMAIN a = 1..n /\ a = s.blocks[t][i].ids
  BY <1>0, <1>1, <1>2, Held
<1>4. CASE IsUnique(s, a[1])
  <2>1. u = s
    BY <1>0, <1>3, <1>4 DEF Unshared
  <2>2. Alone(s, x)
    <3>1. PICK tops : tops = {y \in Holders(s) : IdsOf(s, y)[1] = a[1]}
      OBVIOUS
    <3>2. x \in tops
      BY <1>0, <1>2, <3>1
    <3>3. \E y \in tops : tops = {y}
      BY <1>4, <3>1, <3>2 DEF IsUnique
    <3> QED BY <1>0, <3>1, <3>2, <3>3 DEF Alone
  <2> QED BY <1>0, <1>2, <2>1, <2>2
<1>5. CASE ~IsUnique(s, a[1])
  <2>1. s.new \in Nat /\ 1 \in 1..1 /\ Fresh(s, 1)[1] = f /\ f \in Address /\ f \notin DOMAIN s.heap
        /\ Fresh(s, 1) \in Seq(Address) /\ DOMAIN Fresh(s, 1) = 1..1
    <3>1. PICK k \in Nat \ {0} : k = 1
      OBVIOUS
    <3>2. /\ Fresh(s, k) \in Seq(Address) /\ DOMAIN Fresh(s, k) = 1..k
          /\ \A d \in 1..k : Fresh(s, k)[d] = <<s.new + d>> /\ Fresh(s, k)[d] \notin DOMAIN s.heap
      BY <1>1, FreshIs
    <3>3. s.new \in Nat /\ 1 \in 1..1
      BY <1>1 DEF StateOK
    <3>4. Fresh(s, 1)[1] = <<s.new + 1>> /\ Fresh(s, 1)[1] \notin DOMAIN s.heap /\ Fresh(s, 1) \in Seq(Address)
          /\ DOMAIN Fresh(s, 1) = 1..1
      BY <3>1, <3>2, <3>3
    <3>5. Fresh(s, 1)[1] \in Address
      BY <3>3, <3>4
    <3> QED BY <1>0, <3>3, <3>4, <3>5
  <2>2. u = [heap |-> Written(s.heap, Fresh(s, 1), <<s.heap[a[1]]>>),
             blocks |-> [s.blocks EXCEPT ![t][i].ids[1] = f],
             told |-> s.told, new |-> s.new + 1, end |-> s.end]
    <3>1. s = [heap |-> s.heap, blocks |-> s.blocks, told |-> s.told, new |-> s.new, end |-> s.end]
      BY <1>1 DEF StateOK
    <3> QED BY <1>0, <1>3, <1>5, <2>1, <3>1 DEF Unshared
  <2>3. /\ u.heap = Written(s.heap, Fresh(s, 1), <<s.heap[a[1]]>>)
        /\ u.blocks = [s.blocks EXCEPT ![t][i].ids[1] = f]
        /\ u.told = s.told /\ u.new = s.new + 1 /\ u.end = s.end
        /\ u = [heap |-> u.heap, blocks |-> u.blocks, told |-> u.told, new |-> u.new, end |-> u.end]
    BY <2>2
  <2>4. PICK b : b = [a EXCEPT ![1] = f]
    OBVIOUS
  <2>5. /\ u.blocks \in [Tasks -> Seq(Column)]
        /\ \A v \in Tasks : Len(u.blocks[v]) = Len(s.blocks[v])
        /\ Holders(u) = Holders(s)
        /\ \A y \in Holders(s) : y # x => IdsOf(u, y) = IdsOf(s, y)
        /\ IdsOf(u, x) = b
    <3>1. Replaced(s, u, t, i, f) /\ f \in Address
      BY <2>1, <2>3 DEF Replaced
    <3>2. /\ u.blocks \in [Tasks -> Seq(Column)]
          /\ \A v \in Tasks : Len(u.blocks[v]) = Len(s.blocks[v])
          /\ Holders(u) = Holders(s)
          /\ \A y \in Holders(s) : y # x => IdsOf(u, y) = IdsOf(s, y)
          /\ IdsOf(u, x) = WithFirst(IdsOf(s, x), f)
      <4>1. x = <<t, i>>
        BY <1>0
      <4> QED BY <1>1, <1>2, <3>1, <4>1, ReplacedIs
    <3> QED BY <1>0, <2>4, <3>2 DEF WithFirst
  <2>6. /\ b \in Seq(Address) /\ Len(b) = n /\ b[1] = f /\ \A d \in 2..n : b[d] = a[d]
        /\ Tail(b) = Tail(a)
    <3>1. a \in [1..n -> Address]
      BY <1>3
    <3>2. b \in [1..n -> Address] /\ b[1] = f /\ \A d \in 2..n : b[d] = a[d]
      BY <1>3, <2>1, <2>4, <3>1
    <3>3. b \in Seq(Address) /\ Len(b) = n
      BY <1>3, <3>2
    <3>4. Tail(b) = Tail(a)
      <4>1. a # <<>> /\ b # <<>>
        BY <1>3, <3>3
      <4>2. /\ Tail(a) \in Seq(Address) /\ Len(Tail(a)) = n - 1 /\ \A k \in 1..(n - 1) : Tail(a)[k] = a[k + 1]
        BY <1>3, <4>1, HeadTailProperties
      <4>3. /\ Tail(b) \in Seq(Address) /\ Len(Tail(b)) = n - 1 /\ \A k \in 1..(n - 1) : Tail(b)[k] = b[k + 1]
        BY <3>3, <4>1, HeadTailProperties
      <4>4. \A k \in 1..(n - 1) : b[k + 1] = a[k + 1]
        BY <1>3, <3>2
      <4> QED BY <4>2, <4>3, <4>4, SeqEqual
    <3> QED BY <3>2, <3>3, <3>4
  <2>7. /\ \A id : id \in DOMAIN u.heap <=> id \in DOMAIN s.heap \/ id = f
        /\ IsMap(u.heap) /\ u.heap[f] = s.heap[a[1]]
        /\ \A id \in DOMAIN s.heap : u.heap[id] = s.heap[id]
    <3>1. PICK h, g, l, k : h = s.heap /\ g = Fresh(s, 1) /\ l = <<s.heap[a[1]]>> /\ k = 1
      OBVIOUS
    <3>2. k \in Nat /\ DOMAIN g = 1..k /\ \A d, e \in 1..k : g[d] = g[e] => d = e
      BY <2>1, <3>1
    <3>3. /\ \A id : id \in DOMAIN Written(h, g, l) <=> id \in DOMAIN h \/ \E d \in 1..k : id = g[d]
          /\ IsMap(Written(h, g, l))
          /\ \A d \in 1..k : Written(h, g, l)[g[d]] = l[d]
          /\ \A id \in DOMAIN h : (\A d \in 1..k : g[d] # id) => Written(h, g, l)[id] = h[id]
      BY <3>2, WrittenIs
    <3>4. 1 \in 1..k /\ \A d \in 1..k : d = 1 /\ g[d] = f
      BY <2>1, <3>1
    <3>5. l[1] = s.heap[a[1]] /\ \A id \in DOMAIN h : id # f
      BY <2>1, <3>1
    <3> QED BY <2>1, <2>3, <3>1, <3>3, <3>4, <3>5
  <2>8. StateOK(u)
    <3>1. /\ s.new \in Nat /\ s.end \in {"ok", "err", "panic"} /\ s.told \in [Tasks -> Seq(Seq(Cells))]
          /\ \A v \in Tasks : Len(s.told[v]) = Len(s.blocks[v])
          /\ \A id \in DOMAIN s.heap : id \in Address /\ (id \in [{1} -> Nat] => id[1] <= s.new)
      BY <1>1 DEF StateOK
    <3>2. ASSUME NEW id \in DOMAIN u.heap PROVE id \in Address /\ (id \in [{1} -> Nat] => id[1] <= u.new)
      <4>1. CASE id = f
        <5>1. f[1] = s.new + 1
          BY <1>0
        <5> QED BY <2>1, <2>3, <3>1, <4>1, <5>1
      <4>2. CASE id \in DOMAIN s.heap
        <5>1. ASSUME id \in [{1} -> Nat] PROVE id[1] <= u.new
          <6>1. id[1] \in Nat /\ id[1] <= s.new
            BY <3>1, <4>2, <5>1
          <6> QED BY <2>3, <3>1, <6>1
        <5> QED BY <3>1, <4>2, <5>1
      <4> QED BY <2>7, <4>1, <4>2
    <3>3. \A v \in Tasks : Len(u.told[v]) = Len(u.blocks[v])
      BY <2>3, <2>5, <3>1
    <3>4. u.new \in Nat
      BY <2>3, <3>1
    <3> QED BY <2>3, <2>5, <2>7, <3>1, <3>2, <3>3, <3>4 DEF StateOK, Column, IsMap
  <2>9. /\ \A y \in Holders(s) : \A d \in 1..Len(IdsOf(s, y)) : IdsOf(s, y)[d] \in DOMAIN s.heap
        /\ \A y, z \in Holders(s) : Sharing(s, y, z)
        /\ \A y \in Holders(s) : Fills(s, y)
    BY <1>1, ByColumns
  <2>10. ASSUME NEW y \in Holders(u), NEW d \in 1..Len(IdsOf(u, y)) PROVE IdsOf(u, y)[d] \in DOMAIN u.heap
    <3>1. CASE y = x
      <4>1. IdsOf(u, y) = b /\ d \in 1..n
        BY <2>5, <2>6, <3>1
      <4>2. d = 1 \/ d \in 2..n
        BY <1>3, <4>1
      <4> QED BY <1>0, <1>2, <2>6, <2>7, <2>9, <4>1, <4>2
    <3>2. CASE y # x
      BY <2>5, <2>7, <2>9, <3>2
    <3> QED BY <3>1, <3>2
  <2>11. ASSUME NEW y \in Holders(s), y # x PROVE Sharing(u, x, y)
    <3>1. IdsOf(u, x) = b /\ IdsOf(u, y) = IdsOf(s, y)
      BY <2>5, <2>11
    <3>2. ASSUME NEW d \in 1..n, NEW e \in 1..Len(IdsOf(s, y)), b[d] = IdsOf(s, y)[e]
          PROVE  d = e /\ Tail(b) = Tail(IdsOf(s, y))
      <4>1. d # 1
        BY <2>1, <2>6, <2>9, <3>2
      <4>2. d \in 2..n
        BY <1>3, <4>1
      <4>3. a[d] = IdsOf(s, y)[e]
        BY <2>6, <3>2, <4>2
      <4>4. Sharing(s, x, y)
        BY <1>2, <2>9
      <4> QED BY <1>0, <2>6, <4>3, <4>4 DEF Sharing
    <3> QED BY <2>6, <3>1, <3>2 DEF Sharing
  <2>12. Sharing(u, x, x)
    <3>1. ASSUME NEW d \in 1..n, NEW e \in 1..n, b[d] = b[e] PROVE d = e
      <4>1. Sharing(s, x, x)
        BY <1>2, <2>9
      <4>2. \A k \in 1..n : a[k] \in DOMAIN s.heap
        BY <1>0, <1>2, <2>9
      <4>3. (d = 1 \/ d \in 2..n) /\ (e = 1 \/ e \in 2..n)
        BY <1>3
      <4>4. d \in 2..n /\ e \in 2..n => a[d] = a[e]
        BY <2>6, <3>1
      <4>5. d \in 2..n /\ e \in 2..n => d = e
        BY <1>0, <4>1, <4>4 DEF Sharing
      <4>6. ~(d = 1 /\ e \in 2..n) /\ ~(e = 1 /\ d \in 2..n)
        BY <2>1, <2>6, <3>1, <4>2
      <4> QED BY <4>3, <4>5, <4>6
    <3> QED BY <2>5, <2>6, <3>1 DEF Sharing
  <2>13. ASSUME NEW y \in Holders(u), NEW z \in Holders(u) PROVE Sharing(u, y, z)
    <3>1. CASE y # x /\ z # x
      BY <2>5, <2>9, <3>1 DEF Sharing
    <3>2. CASE y = x /\ z # x
      BY <2>5, <2>11, <3>2
    <3>3. CASE y # x /\ z = x
      <4>1. Sharing(u, x, y)
        BY <2>5, <2>11, <3>3
      <4> QED BY <3>3, <4>1 DEF Sharing
    <3> QED BY <2>12, <3>1, <3>2, <3>3
  <2>14. ASSUME NEW y \in Holders(u) PROVE Fills(u, y)
    <3>1. CASE y # x
      BY <1>1, <2>3, <2>5, <2>7, <2>9, <3>1, ColumnKept
    <3>2. CASE y = x
      <4>1. Chain(u, b) = [d \in 1..n |-> u.heap[b[d]]] /\ Chain(s, a) = [d \in 1..n |-> s.heap[a[d]]]
        <5>1. n \in Nat /\ DOMAIN a = 1..n /\ DOMAIN b = 1..n
          BY <1>3, <2>6
        <5> QED BY <5>1, ChainIs
      <4>2. ASSUME NEW d \in 1..n PROVE u.heap[b[d]] = s.heap[a[d]]
        <5>1. d = 1 \/ d \in 2..n
          BY <1>3
        <5> QED BY <1>0, <1>2, <2>6, <2>7, <2>9, <5>1
      <4>3. Chain(u, b) = Chain(s, a)
        BY <4>1, <4>2
      <4>4. /\ Fills(s, x) /\ IdsOf(u, x) = b /\ IdsOf(s, x) = a
            /\ u.told[x[1]][x[2]] = s.told[x[1]][x[2]]
        BY <1>0, <1>2, <2>3, <2>5, <2>9
      <4> QED BY <3>2, <4>3, <4>4 DEF Fills
    <3> QED BY <3>1, <3>2
  <2>15. Alone(u, x)
    <3>1. ASSUME NEW y \in Holders(u), y # x PROVE IdsOf(u, y)[1] # IdsOf(u, x)[1]
      <4>1. IdsOf(u, y) = IdsOf(s, y) /\ y \in Holders(s)
        BY <2>5, <3>1
      <4>2. 1 \in 1..Len(IdsOf(s, y))
        BY <1>1, <4>1, Held
      <4> QED BY <2>1, <2>5, <2>6, <2>9, <4>1, <4>2
    <3> QED BY <3>1 DEF Alone
  <2>16. CallInv(u)
    BY <2>8, <2>10, <2>13, <2>14, ByColumns
  <2> QED BY <1>0, <1>2, <2>3, <2>5, <2>15, <2>16
<1> QED BY <1>4, <1>5

(* The column that is written to shares no layer with another one. *)
LEMMA OnlyOurs ==
  ASSUME NEW s, CallInv(s), NEW x \in Holders(s), Alone(s, x), InnerIsOurs(s, IdsOf(s, x)),
         NEW y \in Holders(s), y # x, NEW d \in 1..Len(IdsOf(s, x)), NEW e \in 1..Len(IdsOf(s, y))
  PROVE  IdsOf(s, x)[d] # IdsOf(s, y)[e]
<1> SUFFICES ASSUME IdsOf(s, x)[d] = IdsOf(s, y)[e] PROVE FALSE
  OBVIOUS
<1>0. PICK a, b, n, m : a = IdsOf(s, x) /\ b = IdsOf(s, y) /\ n = Len(a) /\ m = Len(b)
  OBVIOUS
<1>1. StateOK(s)
  BY DEF CallInv
<1>2. a \in Seq(Address) /\ b \in Seq(Address) /\ n \in Nat \ {0} /\ m \in Nat \ {0} /\ Len(a) = n /\ Len(b) = m
  BY <1>0, <1>1, Held
<1>3. d = e /\ Tail(a) = Tail(b) /\ d \in 1..n /\ e \in 1..m
  <2>1. SharingBelow(s)
    BY DEF CallInv
  <2> QED BY <1>0, <1>1, <2>1, Shared
<1>4. a[1] # b[1]
  BY <1>0 DEF Alone
<1>5. d # 1
  BY <1>0, <1>3, <1>4
<1>6. n > 1 /\ m > 1
  BY <1>2, <1>3, <1>5
<1>7. a[2] = b[2]
  <2>1. a # <<>> /\ b # <<>>
    BY <1>2
  <2>2. 1 \in 1..Len(Tail(a)) /\ 1 \in 1..Len(Tail(b))
    BY <1>2, <1>6, <2>1, HeadTailProperties
  <2>3. Tail(a)[1] = a[1 + 1] /\ Tail(b)[1] = b[1 + 1]
    BY <1>2, <2>1, <2>2, HeadTailProperties
  <2>4. 1 + 1 = 2
    OBVIOUS
  <2>5. Tail(a)[1] = a[2] /\ Tail(b)[1] = b[2]
    BY <2>3, <2>4
  <2>6. Tail(a)[1] = Tail(b)[1]
    BY <1>3
  <2> QED BY <2>5, <2>6
<1>8. /\ <<a[1], a[2]>> \in Inside(s) /\ <<b[1], b[2]>> \in Inside(s)
  <2>1. ASSUME NEW f, Len(f) \in Nat, Len(f) > 1 PROVE <<f[1], f[2]>> \in InsideOf(f)
    <3>1. PICK k : k = 1
      OBVIOUS
    <3>2. k \in 1..(Len(f) - 1) /\ k + 1 = 2
      BY <2>1, <3>1
    <3>3. <<f[k], f[k + 1]>> \in InsideOf(f)
      BY <3>2 DEF InsideOf
    <3> QED BY <3>1, <3>2, <3>3
  <2>2. <<a[1], a[2]>> \in InsideOf(a) /\ <<b[1], b[2]>> \in InsideOf(b)
    BY <1>2, <1>6, <2>1
  <2> QED BY <1>0, <2>2 DEF Inside
<1>9. IsUnique(s, a[2])
  BY <1>0, <1>6 DEF InnerIsOurs
<1>10. PICK around : around = {p \in Inside(s) : p[2] = a[2]}
  OBVIOUS
<1>11. <<a[1], a[2]>> \in around /\ <<b[1], b[2]>> \in around
  BY <1>7, <1>8, <1>10
<1>12. \E p \in around : around = {p}
  BY <1>9, <1>10, <1>11 DEF IsUnique
<1>13. <<a[1], a[2]>> = <<b[1], b[2]>>
  BY <1>11, <1>12
<1> QED BY <1>4, <1>13

(* The values of a column, with one more. *)
LEMMA RowsLonger ==
  ASSUME NEW c, NEW vs \in Seq(Cells), NEW v \in Cells, NEW r,
         r = [j \in DOMAIN vs |-> Stored(c, vs[j])]
  PROVE  Append(r, Stored(c, v)) = [j \in DOMAIN Append(vs, v) |-> Stored(c, Append(vs, v)[j])]
<1>0. PICK m, S : m = Len(vs) /\ S = {Stored(c, z) : z \in Cells}
  OBVIOUS
<1>1. m \in Nat /\ DOMAIN vs = 1..m /\ \A j \in 1..m : vs[j] \in Cells
  BY <1>0
<1>2. r \in [1..m -> S] /\ Stored(c, v) \in S
  BY <1>0, <1>1
<1>3. r \in Seq(S) /\ Len(r) = m /\ m = Len(vs)
  BY <1>0, <1>1, <1>2
<1>4. /\ Append(r, Stored(c, v)) \in Seq(S) /\ Len(Append(r, Stored(c, v))) = m + 1
      /\ Append(r, Stored(c, v))[m + 1] = Stored(c, v) /\ \A j \in 1..m : Append(r, Stored(c, v))[j] = r[j]
  BY <1>2, <1>3, LongerBy
<1>5. /\ Append(vs, v) \in Seq(Cells) /\ Len(Append(vs, v)) = m + 1
      /\ Append(vs, v)[m + 1] = v /\ \A j \in 1..m : Append(vs, v)[j] = vs[j]
  BY <1>3, LongerBy
<1>6. PICK f, g : f = Append(r, Stored(c, v)) /\ g = Append(vs, v)
  OBVIOUS
<1>7. f = [j \in 1..(m + 1) |-> f[j]] /\ DOMAIN g = 1..(m + 1)
  <2>1. f \in Seq(S) /\ Len(f) = m + 1 /\ g \in Seq(Cells) /\ Len(g) = m + 1
    BY <1>4, <1>5, <1>6
  <2>2. f \in [1..Len(f) -> S] /\ DOMAIN g = 1..Len(g)
    BY <2>1, LenProperties
  <2> QED BY <2>1, <2>2
<1>8. ASSUME NEW j \in 1..(m + 1) PROVE f[j] = Stored(c, g[j])
  <2>1. j \in 1..m \/ j = m + 1
    BY <1>1
  <2>2. \A k \in 1..m : r[k] = Stored(c, vs[k])
    BY <1>1
  <2> QED BY <1>4, <1>5, <1>6, <2>1, <2>2
<1>9. f = [j \in DOMAIN g |-> Stored(c, g[j])]
  BY <1>7, <1>8
<1> QED BY <1>6, <1>9

(* push on a column that nothing else holds. *)
LEMMA WriteCellInv ==
  ASSUME NEW s, CallInv(s), NEW t \in Tasks, NEW i \in 1..Len(s.blocks[t]), NEW v \in Cells,
         PushesAdd, Alone(s, <<t, i>>), InnerIsOurs(s, IdsOf(s, <<t, i>>)),
         Takes(Chain(s, IdsOf(s, <<t, i>>)), v)
  PROVE  CallInv(WriteCell(s, t, i, v)) /\ WriteCell(s, t, i, v).end = s.end
<1>0. PICK w, x, a, n, c, after, q :
        /\ w = WriteCell(s, t, i, v) /\ x = <<t, i>> /\ a = IdsOf(s, x) /\ n = Len(a)
        /\ c = Chain(s, a) /\ after = Pushed(c, v) /\ q = s.told[t][i]
  OBVIOUS
<1>1. StateOK(s)
  BY DEF CallInv
<1>2. x \in Holders(s) /\ x[1] = t /\ x[2] = i
  BY <1>0, <1>1, Held
<1>3. a \in Seq(Address) /\ n \in Nat /\ n # 0 /\ Len(a) = n /\ DOMAIN a = 1..n /\ a = s.blocks[t][i].ids
      /\ q \in Seq(Cells)
  BY <1>0, <1>1, <1>2, Held
<1>4. /\ \A y \in Holders(s) : \A d \in 1..Len(IdsOf(s, y)) : IdsOf(s, y)[d] \in DOMAIN s.heap
      /\ \A y, z \in Holders(s) : Sharing(s, y, z)
      /\ \A y \in Holders(s) : Fills(s, y)
  BY <1>1, ByColumns
<1>5. w = [heap |-> Written(s.heap, a, after), blocks |-> s.blocks,
           told |-> [s.told EXCEPT ![t][i] = Append(q, v)], new |-> s.new, end |-> s.end]
  <2>1. s = [heap |-> s.heap, blocks |-> s.blocks, told |-> s.told, new |-> s.new, end |-> s.end]
    BY <1>1 DEF StateOK
  <2> QED BY <1>0, <1>3, <2>1 DEF WriteCell
<1>6. /\ w.heap = Written(s.heap, a, after) /\ w.blocks = s.blocks
      /\ w.told = [s.told EXCEPT ![t][i] = Append(q, v)] /\ w.new = s.new /\ w.end = s.end
      /\ w = [heap |-> w.heap, blocks |-> w.blocks, told |-> w.told, new |-> w.new, end |-> w.end]
  BY <1>5
<1>7. Append(q, v) \in Seq(Cells)
  BY <1>3, LongerBy
<1>8. /\ w.told \in [Tasks -> Seq(Seq(Cells))]
      /\ \A u \in Tasks : Len(w.told[u]) = Len(w.blocks[u])
      /\ w.told[t][i] = Append(q, v)
      /\ \A y \in Holders(s) : y # x => w.told[y[1]][y[2]] = s.told[y[1]][y[2]]
  <2>1. s.told \in [Tasks -> Seq(Seq(Cells))] /\ \A u \in Tasks : Len(s.told[u]) = Len(s.blocks[u])
    BY <1>1 DEF StateOK
  <2>2. PICK p, k, S, z : p = s.told[t] /\ k = Len(p) /\ S = Seq(Cells) /\ z = Append(q, v)
    OBVIOUS
  <2>3. p \in Seq(S) /\ k \in Nat /\ Len(p) = k /\ i \in 1..k /\ z \in S
    BY <1>7, <2>1, <2>2
  <2>4. PICK r : r = [p EXCEPT ![i] = z]
    OBVIOUS
  <2>5. r \in Seq(S) /\ Len(r) = k /\ r[i] = z /\ \A j \in 1..k : j # i => r[j] = p[j]
    BY <2>3, <2>4
  <2>6. w.told = [s.told EXCEPT ![t] = r]
    BY <1>6, <2>2, <2>4
  <2>7. /\ w.told[t] = r /\ \A u \in Tasks : u # t => w.told[u] = s.told[u]
        /\ w.told \in [Tasks -> Seq(Seq(Cells))]
    BY <2>1, <2>2, <2>5, <2>6
  <2>8. \A u \in Tasks : Len(w.told[u]) = Len(w.blocks[u])
    BY <1>6, <2>1, <2>2, <2>5, <2>7
  <2>9. ASSUME NEW y \in Holders(s), y # x PROVE w.told[y[1]][y[2]] = s.told[y[1]][y[2]]
    <3>1. y[1] \in Tasks /\ y[2] \in 1..Len(s.blocks[y[1]]) /\ y = <<y[1], y[2]>>
      BY <1>1, Held
    <3>2. CASE y[1] # t
      BY <2>7, <3>1, <3>2
    <3>3. CASE y[1] = t
      <4>1. y[2] # i /\ y[2] \in 1..k
        BY <1>0, <2>1, <2>2, <2>9, <3>1, <3>3
      <4> QED BY <2>2, <2>5, <2>7, <3>3, <4>1
    <3> QED BY <3>2, <3>3
  <2> QED BY <2>2, <2>5, <2>7, <2>8, <2>9
<1>9. /\ \A id : id \in DOMAIN w.heap <=> id \in DOMAIN s.heap
      /\ IsMap(w.heap) /\ \A d \in 1..n : w.heap[a[d]] = after[d]
      /\ \A id \in DOMAIN s.heap : (\A d \in 1..n : a[d] # id) => w.heap[id] = s.heap[id]
  <2>1. PICK h : h = s.heap
    OBVIOUS
  <2>2. \A d, e \in 1..n : a[d] = a[e] => d = e
    <3>1. Sharing(s, x, x)
      BY <1>2, <1>4
    <3> QED BY <1>0, <3>1 DEF Sharing
  <2>3. n \in Nat /\ DOMAIN a = 1..n
    BY <1>3
  <2>4. /\ \A id : id \in DOMAIN Written(h, a, after) <=> id \in DOMAIN h \/ \E d \in 1..n : id = a[d]
        /\ IsMap(Written(h, a, after))
        /\ \A d \in 1..n : Written(h, a, after)[a[d]] = after[d]
        /\ \A id \in DOMAIN h : (\A d \in 1..n : a[d] # id) => Written(h, a, after)[id] = h[id]
    BY <2>2, <2>3, WrittenIs
  <2>5. \A d \in 1..n : a[d] \in DOMAIN h
    BY <1>0, <1>2, <1>4, <2>1
  <2> QED BY <1>6, <2>1, <2>4, <2>5
<1>10. StateOK(w)
  BY <1>1, <1>6, <1>8, <1>9 DEF StateOK, IsMap
<1>11. Holders(w) = Holders(s) /\ \A y \in Holders(s) : IdsOf(w, y) = IdsOf(s, y)
  BY <1>6 DEF Holders, IdsOf
<1>12. ASSUME NEW y \in Holders(s), y # x PROVE Fills(w, y)
  <2>1. ASSUME NEW e \in 1..Len(IdsOf(s, y)) PROVE w.heap[IdsOf(s, y)[e]] = s.heap[IdsOf(s, y)[e]]
    <3>1. \A d \in 1..n : a[d] # IdsOf(s, y)[e]
      BY <1>0, <1>2, <1>12, OnlyOurs
    <3>2. IdsOf(s, y)[e] \in DOMAIN s.heap
      BY <1>4
    <3> QED BY <1>9, <3>1, <3>2
  <2>2. IdsOf(w, y) = IdsOf(s, y) /\ w.told[y[1]][y[2]] = s.told[y[1]][y[2]] /\ Fills(s, y)
    BY <1>4, <1>8, <1>11, <1>12
  <2> QED BY <1>1, <2>1, <2>2, ColumnKept
<1>13. Fills(w, x)
  <2>1. Whole(c) /\ RowsOf(c) = [j \in DOMAIN q |-> Stored(c, q[j])]
    <3>1. Fills(s, x)
      BY <1>2, <1>4
    <3> QED BY <1>0, <1>2, <3>1 DEF Fills
  <2>2. Takes(c, v)
    BY <1>0
  <2>3. /\ after = [k \in DOMAIN c |-> after[k]] /\ Whole(after)
        /\ RowsOf(after) = Append(RowsOf(c), Stored(c, v)) /\ \A z \in Cells : Stored(after, z) = Stored(c, z)
    <3>1. PushAdds(c, v)
      BY DEF PushesAdd
    <3> QED BY <1>0, <2>1, <2>2, <3>1 DEF PushAdds
  <2>4. DOMAIN c = 1..n
    <3>1. c = [d \in 1..n |-> s.heap[a[d]]]
      <4>1. n \in Nat /\ DOMAIN a = 1..n
        BY <1>3
      <4>2. Chain(s, a) = [d \in 1..n |-> s.heap[a[d]]]
        BY <4>1, ChainIs
      <4> QED BY <1>0, <4>2
    <3> QED BY <3>1
  <2>5. Chain(w, a) = after
    <3>1. n \in Nat /\ DOMAIN a = 1..n
      BY <1>3
    <3>2. Chain(w, a) = [d \in 1..n |-> w.heap[a[d]]]
      BY <3>1 DEF Chain
    <3> QED BY <1>9, <2>3, <2>4, <3>2
  <2>6. RowsOf(after) = [j \in DOMAIN Append(q, v) |-> Stored(c, Append(q, v)[j])]
    <3>1. PICK r : r = RowsOf(c)
      OBVIOUS
    <3>2. r = [j \in DOMAIN q |-> Stored(c, q[j])]
      BY <2>1, <3>1
    <3>3. Append(r, Stored(c, v)) = [j \in DOMAIN Append(q, v) |-> Stored(c, Append(q, v)[j])]
      BY <1>3, <3>2, RowsLonger
    <3> QED BY <2>3, <3>1, <3>3
  <2>7. \A j \in DOMAIN Append(q, v) : Stored(c, Append(q, v)[j]) = Stored(after, Append(q, v)[j])
    BY <1>7, <2>3
  <2>8. RowsOf(after) = [j \in DOMAIN Append(q, v) |-> Stored(after, Append(q, v)[j])]
    BY <2>6, <2>7
  <2>9. IdsOf(w, x) = a /\ w.told[x[1]][x[2]] = Append(q, v)
    BY <1>0, <1>2, <1>8, <1>11
  <2> QED BY <2>3, <2>5, <2>8, <2>9 DEF Fills
<1>14. CallInv(w)
  <2>1. \A y, z \in Holders(w) : Sharing(w, y, z)
    BY <1>4, <1>11 DEF Sharing
  <2>2. \A y \in Holders(w) : \A d \in 1..Len(IdsOf(w, y)) : IdsOf(w, y)[d] \in DOMAIN w.heap
    BY <1>4, <1>9, <1>11
  <2>3. \A y \in Holders(w) : Fills(w, y)
    BY <1>11, <1>12, <1>13
  <2> QED BY <1>10, <2>1, <2>2, <2>3, ByColumns
<1> QED BY <1>0, <1>6, <1>14

(* The blocks of the other tasks are not touched. *)
Elsewhere(s, w, t) == \A u \in Tasks : u # t => w.blocks[u] = s.blocks[u]

LEMMA ElsewhereSame ==
  ASSUME NEW s, StateOK(s), NEW t \in Tasks, NEW name, NEW layers, NEW vs, NEW i, NEW v, NEW e
  PROVE  /\ Elsewhere(s, WithColumn(s, t, name, layers, vs), t) /\ Elsewhere(s, Unshared(s, t, i), t)
         /\ Elsewhere(s, WriteCell(s, t, i, v), t) /\ Elsewhere(s, [s EXCEPT !.end = e], t)
<1>1. /\ s = [heap |-> s.heap, blocks |-> s.blocks, told |-> s.told, new |-> s.new, end |-> s.end]
      /\ s.blocks \in [Tasks -> Seq(Column)]
  BY DEF StateOK, Column
<1>2. Elsewhere(s, WithColumn(s, t, name, layers, vs), t)
  <2>1. PICK q : q = Append(s.blocks[t], [name |-> name, ids |-> Fresh(s, Len(layers))])
    OBVIOUS
  <2>2. WithColumn(s, t, name, layers, vs).blocks = [s.blocks EXCEPT ![t] = q]
    BY <1>1, <2>1 DEF WithColumn
  <2> QED BY <1>1, <2>2 DEF Elsewhere
<1>3. Elsewhere(s, Unshared(s, t, i), t)
  <2>1. CASE IsUnique(s, s.blocks[t][i].ids[1])
    BY <2>1 DEF Unshared, Elsewhere
  <2>2. CASE ~IsUnique(s, s.blocks[t][i].ids[1])
    <3>1. Unshared(s, t, i).blocks = [s.blocks EXCEPT ![t][i].ids[1] = Fresh(s, 1)[1]]
      BY <1>1, <2>2 DEF Unshared
    <3> QED BY <1>1, <3>1 DEF Elsewhere
  <2> QED BY <2>1, <2>2
<1>4. Elsewhere(s, WriteCell(s, t, i, v), t)
  BY <1>1 DEF WriteCell, Elsewhere
<1>5. Elsewhere(s, [s EXCEPT !.end = e], t)
  BY <1>1 DEF Elsewhere
<1> QED BY <1>2, <1>3, <1>4, <1>5

(* How a call ends says nothing of the columns. *)
LEMMA EndedInv ==
  ASSUME NEW s, CallInv(s), NEW e \in {"ok", "err", "panic"}
  PROVE  CallInv([s EXCEPT !.end = e]) /\ [s EXCEPT !.end = e].end = e
<1>0. PICK w : w = [s EXCEPT !.end = e]
  OBVIOUS
<1>1. s = [heap |-> s.heap, blocks |-> s.blocks, told |-> s.told, new |-> s.new, end |-> s.end]
  BY DEF CallInv, StateOK
<1>2. w = [heap |-> s.heap, blocks |-> s.blocks, told |-> s.told, new |-> s.new, end |-> e]
  BY <1>0, <1>1
<1>3. w.heap = s.heap /\ w.blocks = s.blocks /\ w.told = s.told /\ w.new = s.new /\ w.end = e
  BY <1>2
<1>4. StateOK(w)
  BY <1>2, <1>3 DEF CallInv, StateOK
<1>5. Holders(w) = Holders(s) /\ \A x : IdsOf(w, x) = IdsOf(s, x)
  BY <1>3 DEF Holders, IdsOf
<1>6. Places(w) = Places(s) /\ \A p : IdAt(w, p) = IdAt(s, p)
  BY <1>5 DEF Places, IdAt
<1>7. Pointing(w)
  BY <1>3, <1>6 DEF CallInv, Pointing
<1>8. SharingBelow(w)
  BY <1>5, <1>6 DEF CallInv, SharingBelow
<1>9. Holding(w)
  BY <1>3, <1>5 DEF CallInv, Holding, ColumnAt, Chain
<1> QED BY <1>0, <1>3, <1>4, <1>7, <1>8, <1>9 DEF CallInv

(* Column::push *)
LEMMA PushCellInv ==
  ASSUME NEW s, CallInv(s), NEW t \in Tasks, NEW i \in 1..Len(s.blocks[t]), NEW v \in Cells, PushesAdd
  PROVE  CallInv(PushCell(s, t, i, v)) /\ Elsewhere(s, PushCell(s, t, i, v), t)
<1>0. PICK u : u = Unshared(s, t, i)
  OBVIOUS
<1>1. CallInv(u) /\ <<t, i>> \in Holders(u) /\ Alone(u, <<t, i>>)
  BY <1>0, UnsharedInv
<1>2. StateOK(u)
  BY <1>1 DEF CallInv
<1>3. i \in 1..Len(u.blocks[t])
  <2>1. PICK x : x = <<t, i>>
    OBVIOUS
  <2>2. x[2] \in 1..Len(u.blocks[x[1]])
    BY <1>1, <1>2, <2>1, Held
  <2> QED BY <2>1, <2>2
<1>4. IdsOf(u, <<t, i>>) = u.blocks[t][i].ids
  BY DEF IdsOf
<1>5. Elsewhere(s, u, t)
  BY <1>0, ElsewhereSame DEF CallInv
<1>6. CASE InnerIsOurs(u, IdsOf(u, <<t, i>>)) /\ Takes(Chain(u, IdsOf(u, <<t, i>>)), v)
  <2>1. CallInv(WriteCell(u, t, i, v))
    BY <1>1, <1>3, <1>6, WriteCellInv
  <2>2. PushCell(s, t, i, v) = WriteCell(u, t, i, v)
    BY <1>0, <1>4, <1>6 DEF PushCell
  <2>3. Elsewhere(u, WriteCell(u, t, i, v), t)
    BY <1>2, ElsewhereSame
  <2> QED BY <1>5, <2>1, <2>2, <2>3 DEF Elsewhere
<1>7. CASE ~(InnerIsOurs(u, IdsOf(u, <<t, i>>)) /\ Takes(Chain(u, IdsOf(u, <<t, i>>)), v))
  <2>1. PICK e : e = "panic"
    OBVIOUS
  <2>2. CallInv([u EXCEPT !.end = e])
    BY <1>1, <2>1, EndedInv
  <2>3. PushCell(s, t, i, v) = [u EXCEPT !.end = e]
    BY <1>0, <1>4, <1>7, <2>1 DEF PushCell
  <2>4. Elsewhere(u, [u EXCEPT !.end = e], t)
    BY <1>2, ElsewhereSame
  <2> QED BY <1>5, <2>2, <2>3, <2>4 DEF Elsewhere
<1> QED BY <1>6, <1>7

(* put_param *)
LEMMA PutParamInv ==
  ASSUME NEW s, CallInv(s), NEW t \in Tasks, NEW key \in Names, NEW v \in Cells, PushesAdd
  PROVE  CallInv(PutParam(s, t, key, v)) /\ Elsewhere(s, PutParam(s, t, key, v), t)
<1>0. PICK P : P = Positions(s, t, key)
  OBVIOUS
<1>1. StateOK(s)
  BY DEF CallInv
<1>2. s.end \in {"ok", "err", "panic"}
  BY <1>1 DEF StateOK
<1>3. P \subseteq 1..Len(s.blocks[t]) /\ Len(s.blocks[t]) \in Nat
  <2>1. Len(s.blocks[t]) \in Nat /\ DOMAIN s.blocks[t] = 1..Len(s.blocks[t])
    BY <1>1, Held
  <2> QED BY <1>0, <2>1 DEF Positions, Columns
<1>4. CASE s.end # "ok"
  BY <1>4 DEF PutParam, Elsewhere
<1>5. CASE s.end = "ok" /\ P # {}
  <2>1. PICK i : i = Min(P)
    OBVIOUS
  <2>2. i \in P
    <3>1. P \subseteq Nat
      BY <1>3
    <3>2. \E x \in P : \A y \in P : x <= y
      BY <1>5, <3>1, LeastNatural
    <3> QED BY <2>1, <3>2 DEF Min
  <2>3. i \in 1..Len(s.blocks[t])
    BY <1>3, <2>2
  <2>4. CallInv(PushCell(s, t, i, v)) /\ Elsewhere(s, PushCell(s, t, i, v), t)
    BY <2>3, PushCellInv
  <2>5. PutParam(s, t, key, v) = PushCell(s, t, i, v)
    BY <1>0, <1>5, <2>1 DEF PutParam
  <2> QED BY <2>4, <2>5
<1>6. CASE s.end = "ok" /\ P = {} /\ MayAddColumn(s, t)
  <2>1. PICK e, c, w, i : /\ e = <<>> /\ c = EmptyFor(v) /\ w = WithColumn(s, t, key, c, e)
                       /\ i = Len(s.blocks[t]) + 1
    OBVIOUS
  <2>2. e \in Seq(Cells) /\ HasRows(c, e)
    BY <2>1, BlocksAssumption
  <2>3. CallInv(w) /\ i \in DOMAIN w.blocks[t]
    BY <2>1, <2>2, WithColumnInv
  <2>4. i \in 1..Len(w.blocks[t])
    BY <2>3, Held DEF CallInv
  <2>5. CallInv(PushCell(w, t, i, v)) /\ Elsewhere(w, PushCell(w, t, i, v), t)
    BY <2>3, <2>4, PushCellInv
  <2>6. PutParam(s, t, key, v) = PushCell(w, t, i, v)
    BY <1>0, <1>6, <2>1 DEF PutParam
  <2>7. Elsewhere(s, w, t)
    BY <1>1, <2>1, ElsewhereSame
  <2> QED BY <2>5, <2>6, <2>7 DEF Elsewhere
<1>7. CASE s.end = "ok" /\ P = {} /\ ~MayAddColumn(s, t)
  <2>1. PICK e : e = "err"
    OBVIOUS
  <2>2. CallInv([s EXCEPT !.end = e])
    BY <2>1, EndedInv
  <2>3. PutParam(s, t, key, v) = [s EXCEPT !.end = e]
    BY <1>0, <1>7, <2>1 DEF PutParam
  <2>4. Elsewhere(s, [s EXCEPT !.end = e], t)
    BY <1>1, ElsewhereSame
  <2> QED BY <2>2, <2>3, <2>4
<1> QED BY <1>4, <1>5, <1>6, <1>7

(* RowBuilder::apply, one value after the other. *)
ApplyPasses(g, s, t, row, m) ==
  g = [n \in 0..m |-> IF n = 0 THEN s ELSE PutParam(g[n - 1], t, row[n][1], row[n][2])]

LEMMA ApplyInv ==
  ASSUME NEW s, CallInv(s), NEW t \in Tasks, NEW row \in RowsToPush, PushesAdd
  PROVE  CallInv(Apply(s, t, row)) /\ Elsewhere(s, Apply(s, t, row), t)
<1>0. PICK l : l = Len(row)
  OBVIOUS
<1>1. l \in Nat /\ \A n \in 1..l : row[n][1] \in Names /\ row[n][2] \in Cells
  <2>1. row \in Seq(Names \X Cells)
    BY BlocksAssumption
  <2> QED BY <1>0, <2>1
<1>2. \E g : ApplyPasses(g, s, t, row, l)
  <2> DEFINE G == {m \in Nat : \E g : ApplyPasses(g, s, t, row, m)}
  <2>1. 0 \in G
    <3>1. ApplyPasses([n \in 0..0 |-> s], s, t, row, 0)
      BY DEF ApplyPasses
    <3> QED BY <3>1
  <2>2. ASSUME NEW m \in Nat, m \in G PROVE m + 1 \in G
    <3>1. PICK g : ApplyPasses(g, s, t, row, m)
      BY <2>2
    <3> DEFINE h == [n \in 0..(m + 1) |-> IF n <= m THEN g[n] ELSE PutParam(g[m], t, row[n][1], row[n][2])]
    <3>2. ASSUME NEW n \in 0..(m + 1)
          PROVE  h[n] = IF n = 0 THEN s ELSE PutParam(h[n - 1], t, row[n][1], row[n][2])
      <4>1. CASE n = 0
        <5>1. g[0] = s /\ 0 <= m
          BY <3>1 DEF ApplyPasses
        <5> QED BY <4>1, <5>1
      <4>2. CASE n # 0 /\ n <= m
        <5>1. n \in 0..m /\ n - 1 \in 0..(m + 1) /\ n - 1 <= m
          BY <4>2
        <5>2. g[n] = PutParam(g[n - 1], t, row[n][1], row[n][2])
          BY <3>1, <4>2, <5>1 DEF ApplyPasses
        <5>3. h[n] = g[n] /\ h[n - 1] = g[n - 1]
          BY <4>2, <5>1
        <5> QED BY <4>2, <5>2, <5>3
      <4>3. CASE n = m + 1
        <5>1. n - 1 = m /\ m \in 0..(m + 1) /\ ~(n <= m) /\ n # 0
          BY <4>3
        <5>2. h[n] = PutParam(g[m], t, row[n][1], row[n][2]) /\ h[m] = g[m]
          BY <5>1
        <5> QED BY <5>1, <5>2
      <4> QED BY <4>1, <4>2, <4>3
    <3>3. ApplyPasses(h, s, t, row, m + 1)
      BY <3>2 DEF ApplyPasses
    <3> QED BY <3>3
  <2>3. Nat \subseteq G
    BY <2>1, <2>2, SetInduction
  <2> QED BY <1>1, <2>3
<1>3. PICK after : ApplyPasses(after, s, t, row, l) /\ Apply(s, t, row) = after[l]
  <2> DEFINE f == CHOOSE g : ApplyPasses(g, s, t, row, l)
  <2>1. ApplyPasses(f, s, t, row, l)
    BY <1>2
  <2>2. Apply(s, t, row) = f[l]
    BY <1>0 DEF Apply, ApplyPasses
  <2> QED BY <2>1, <2>2
<1>4. after[0] = s /\ \A n \in 1..l : after[n] = PutParam(after[n - 1], t, row[n][1], row[n][2])
  BY <1>1, <1>3 DEF ApplyPasses
<1> DEFINE H == {m \in Nat : m <= l => CallInv(after[m]) /\ Elsewhere(s, after[m], t)}
<1>5. 0 \in H
  BY <1>4 DEF Elsewhere
<1>6. ASSUME NEW m \in Nat, m \in H PROVE m + 1 \in H
  <2>1. SUFFICES ASSUME m + 1 <= l PROVE CallInv(after[m + 1]) /\ Elsewhere(s, after[m + 1], t)
    OBVIOUS
  <2>2. m + 1 \in 1..l /\ (m + 1) - 1 = m /\ m <= l
    BY <1>1, <2>1
  <2>3. PICK z, k, u : z = after[m] /\ k = row[m + 1][1] /\ u = row[m + 1][2]
    OBVIOUS
  <2>4. CallInv(z) /\ Elsewhere(s, z, t) /\ k \in Names /\ u \in Cells
    BY <1>1, <1>6, <2>2, <2>3
  <2>5. CallInv(PutParam(z, t, k, u)) /\ Elsewhere(z, PutParam(z, t, k, u), t)
    BY <2>4, PutParamInv
  <2>6. after[m + 1] = PutParam(z, t, k, u)
    BY <1>4, <2>2, <2>3
  <2> QED BY <2>4, <2>5, <2>6 DEF Elsewhere
<1>7. Nat \subseteq H
  BY <1>5, <1>6, SetInduction
<1> QED BY <1>1, <1>3, <1>7

(* raw_load, one column after the other. *)
LoadPasses(g, s, t, cols, m) ==
  g = [n \in 0..m |-> IF n = 0 THEN s
                      ELSE WithColumn(g[n - 1], t, cols[n].name, FromWire(cols[n]), cols[n].vals)]

LEMMA LoadInv ==
  ASSUME NEW s, CallInv(s), NEW t \in Tasks, NEW cols \in Received
  PROVE  CallInv(Load(s, t, cols)) /\ Elsewhere(s, Load(s, t, cols), t)
<1>0. PICK l : l = Len(cols)
  OBVIOUS
<1>1. l \in Nat /\ \A n \in 1..l : /\ cols[n].name \in Names /\ cols[n].vals \in Seq(Cells)
                                   /\ HasRows(FromWire(cols[n]), cols[n].vals)
  <2>1. cols \in Seq(Range(cols))
    BY BlocksAssumption
  <2>2. l \in Nat /\ DOMAIN cols = 1..l
    BY <1>0, <2>1
  <2> QED BY <2>2, BlocksAssumption
<1>2. \E g : LoadPasses(g, s, t, cols, l)
  <2> DEFINE F(z, n) == WithColumn(z, t, cols[n].name, FromWire(cols[n]), cols[n].vals)
             G == {m \in Nat : \E g : LoadPasses(g, s, t, cols, m)}
  <2>1. 0 \in G
    <3>1. LoadPasses([n \in 0..0 |-> s], s, t, cols, 0)
      BY DEF LoadPasses
    <3> QED BY <3>1
  <2>2. ASSUME NEW m \in Nat, m \in G PROVE m + 1 \in G
    <3>1. PICK g : LoadPasses(g, s, t, cols, m)
      BY <2>2
    <3>0. g = [n \in 0..m |-> IF n = 0 THEN s ELSE F(g[n - 1], n)]
      BY <3>1 DEF LoadPasses
    <3> HIDE DEF F
    <3> DEFINE h == [n \in 0..(m + 1) |-> IF n <= m THEN g[n] ELSE F(g[m], n)]
    <3>2. ASSUME NEW n \in 0..(m + 1)
          PROVE  h[n] = IF n = 0 THEN s ELSE F(h[n - 1], n)
      <4>1. CASE n = 0
        <5>1. g[0] = s /\ 0 <= m
          BY <3>0
        <5> QED BY <4>1, <5>1
      <4>2. CASE n # 0 /\ n <= m
        <5>1. n \in 0..m /\ n - 1 \in 0..(m + 1) /\ n - 1 <= m
          BY <4>2
        <5>2. g[n] = F(g[n - 1], n)
          BY <3>0, <4>2, <5>1
        <5>3. h[n] = g[n] /\ h[n - 1] = g[n - 1]
          BY <4>2, <5>1
        <5> QED BY <4>2, <5>2, <5>3
      <4>3. CASE n = m + 1
        <5>1. n - 1 = m /\ m \in 0..(m + 1) /\ ~(n <= m) /\ n # 0
          BY <4>3
        <5>2. h[n] = F(g[m], n) /\ h[m] = g[m]
          BY <5>1
        <5> QED BY <5>1, <5>2
      <4> QED BY <4>1, <4>2, <4>3
    <3>3. h = [n \in 0..(m + 1) |-> IF n = 0 THEN s ELSE F(h[n - 1], n)]
      BY <3>2
    <3>4. \E f : f = [n \in 0..(m + 1) |-> IF n = 0 THEN s ELSE F(f[n - 1], n)]
      BY <3>3
    <3>5. \E f : LoadPasses(f, s, t, cols, m + 1)
      BY <3>4 DEF LoadPasses, F
    <3> QED BY <3>5
  <2>3. Nat \subseteq G
    BY <2>1, <2>2, SetInduction
  <2> QED BY <1>1, <2>3
<1>3. PICK after : LoadPasses(after, s, t, cols, l) /\ Load(s, t, cols) = after[l]
  <2> DEFINE f == CHOOSE g : LoadPasses(g, s, t, cols, l)
  <2>1. LoadPasses(f, s, t, cols, l)
    BY <1>2
  <2>2. Load(s, t, cols) = f[l]
    BY <1>0 DEF Load, LoadPasses
  <2> QED BY <2>1, <2>2
<1>4. /\ after[0] = s
      /\ \A n \in 1..l : after[n] = WithColumn(after[n - 1], t, cols[n].name, FromWire(cols[n]), cols[n].vals)
  BY <1>1, <1>3 DEF LoadPasses
<1> DEFINE H == {m \in Nat : m <= l => CallInv(after[m]) /\ Elsewhere(s, after[m], t)}
<1>5. 0 \in H
  BY <1>4 DEF Elsewhere
<1>6. ASSUME NEW m \in Nat, m \in H PROVE m + 1 \in H
  <2>1. SUFFICES ASSUME m + 1 <= l PROVE CallInv(after[m + 1]) /\ Elsewhere(s, after[m + 1], t)
    OBVIOUS
  <2>2. m + 1 \in 1..l /\ (m + 1) - 1 = m /\ m <= l
    BY <1>1, <2>1
  <2>3. PICK z, k, c, u : /\ z = after[m] /\ k = cols[m + 1].name /\ c = FromWire(cols[m + 1])
                          /\ u = cols[m + 1].vals
    OBVIOUS
  <2>4. CallInv(z) /\ Elsewhere(s, z, t) /\ k \in Names /\ u \in Seq(Cells) /\ HasRows(c, u)
    BY <1>1, <1>6, <2>2, <2>3
  <2>5. CallInv(WithColumn(z, t, k, c, u)) /\ Elsewhere(z, WithColumn(z, t, k, c, u), t)
    <3>1. StateOK(z)
      BY <2>4 DEF CallInv
    <3> QED BY <2>4, <3>1, WithColumnInv, ElsewhereSame
  <2>6. after[m + 1] = WithColumn(z, t, k, c, u)
    BY <1>4, <2>2, <2>3
  <2> QED BY <2>4, <2>5, <2>6 DEF Elsewhere
<1>7. Nat \subseteq H
  BY <1>5, <1>6, SetInduction
<1> QED BY <1>1, <1>3, <1>7

-----------------------------------------------------------------------------
(* The state in which columns are no longer held, or are held once more: each
   column is one that was there. *)
LEMMA MirrorInv ==
  ASSUME NEW s, CallInv(s), NEW w, StateOK(w), w.heap = s.heap,
         \A y \in Holders(w) : \E z \in Holders(s) :
           IdsOf(w, y) = IdsOf(s, z) /\ w.told[y[1]][y[2]] = s.told[z[1]][z[2]]
  PROVE  CallInv(w)
<1>1. StateOK(s)
  BY DEF CallInv
<1>2. /\ \A y \in Holders(s) : \A d \in 1..Len(IdsOf(s, y)) : IdsOf(s, y)[d] \in DOMAIN s.heap
      /\ \A y, z \in Holders(s) : Sharing(s, y, z)
      /\ \A y \in Holders(s) : Fills(s, y)
  BY <1>1, ByColumns
<1>3. ASSUME NEW y \in Holders(w), NEW d \in 1..Len(IdsOf(w, y)) PROVE IdsOf(w, y)[d] \in DOMAIN w.heap
  BY <1>2
<1>4. ASSUME NEW y \in Holders(w), NEW z \in Holders(w) PROVE Sharing(w, y, z)
  <2>1. PICK f \in Holders(s) : IdsOf(w, y) = IdsOf(s, f)
    OBVIOUS
  <2>2. PICK g \in Holders(s) : IdsOf(w, z) = IdsOf(s, g)
    OBVIOUS
  <2>3. Sharing(s, f, g)
    BY <1>2
  <2> QED BY <2>1, <2>2, <2>3 DEF Sharing
<1>5. ASSUME NEW y \in Holders(w) PROVE Fills(w, y)
  <2>1. PICK z \in Holders(s) : IdsOf(w, y) = IdsOf(s, z) /\ w.told[y[1]][y[2]] = s.told[z[1]][z[2]]
    OBVIOUS
  <2>2. Chain(w, IdsOf(w, y)) = Chain(s, IdsOf(s, z))
    BY <2>1 DEF Chain
  <2>3. Fills(s, z)
    BY <1>2
  <2> QED BY <2>1, <2>2, <2>3 DEF Fills
<1> QED BY <1>3, <1>4, <1>5, ByColumns

(* A block is dropped. *)
LEMMA DroppedInv ==
  ASSUME NEW s, CallInv(s), NEW t \in Tasks
  PROVE  /\ CallInv(Dropped(s, t)) /\ Dropped(s, t).blocks[t] = <<>>
         /\ \A u \in Tasks : u # t => Dropped(s, t).blocks[u] = s.blocks[u]
<1>0. PICK w : w = Dropped(s, t)
  OBVIOUS
<1>1. StateOK(s)
  BY DEF CallInv
<1>2. /\ s.blocks \in [Tasks -> Seq(Column)] /\ s.told \in [Tasks -> Seq(Seq(Cells))]
      /\ \A u \in Tasks : Len(s.told[u]) = Len(s.blocks[u])
  BY <1>1 DEF StateOK, Column
<1>3. w = [heap |-> s.heap, blocks |-> [s.blocks EXCEPT ![t] = <<>>], told |-> [s.told EXCEPT ![t] = <<>>],
           new |-> s.new, end |-> s.end]
  <2>1. s = [heap |-> s.heap, blocks |-> s.blocks, told |-> s.told, new |-> s.new, end |-> s.end]
    BY <1>1 DEF StateOK
  <2> QED BY <1>0, <2>1 DEF Dropped
<1>4. /\ w.heap = s.heap /\ w.new = s.new /\ w.end = s.end
      /\ w.blocks = [s.blocks EXCEPT ![t] = <<>>] /\ w.told = [s.told EXCEPT ![t] = <<>>]
      /\ w = [heap |-> w.heap, blocks |-> w.blocks, told |-> w.told, new |-> w.new, end |-> w.end]
  BY <1>3
<1>5. /\ w.blocks[t] = <<>> /\ w.told[t] = <<>>
      /\ \A u \in Tasks : u # t => w.blocks[u] = s.blocks[u] /\ w.told[u] = s.told[u]
      /\ w.blocks \in [Tasks -> Seq(Column)] /\ w.told \in [Tasks -> Seq(Seq(Cells))]
  BY <1>2, <1>4
<1>6. \A u \in Tasks : Len(w.told[u]) = Len(w.blocks[u])
  BY <1>2, <1>5
<1>7. StateOK(w)
  BY <1>1, <1>4, <1>5, <1>6 DEF StateOK, Column
<1>8. ASSUME NEW y \in Holders(w)
      PROVE  /\ y \in Holders(s) /\ IdsOf(w, y) = IdsOf(s, y)
             /\ w.told[y[1]][y[2]] = s.told[y[1]][y[2]]
  <2>1. y[1] \in Tasks /\ y[2] \in 1..Len(w.blocks[y[1]]) /\ y = <<y[1], y[2]>>
    BY <1>7, Held
  <2>2. y[1] # t
    BY <1>5, <2>1
  <2>3. w.blocks[y[1]] = s.blocks[y[1]] /\ w.told[y[1]] = s.told[y[1]]
    BY <1>5, <2>1, <2>2
  <2>4. y \in Holders(s)
    BY <1>1, <2>1, <2>3, Held
  <2> QED BY <2>3, <2>4 DEF IdsOf
<1>9. CallInv(w)
  <2>1. /\ w.heap = s.heap
        /\ \A y \in Holders(w) : \E z \in Holders(s) :
             IdsOf(w, y) = IdsOf(s, z) /\ w.told[y[1]][y[2]] = s.told[z[1]][z[2]]
    BY <1>4, <1>8
  <2> QED BY <1>7, <2>1, MirrorInv
<1> QED BY <1>0, <1>5, <1>9

(* The addresses between two calls: every Arc in use has one of its own. *)
LEMMA NameIs ==
  ASSUME NEW s, StateOK(s), NEW id \in Live(s)
  PROVE  /\ Name(s, id) \in Places(s) /\ IdAt(s, Name(s, id)) = id
         /\ Name(s, id) \in (Tasks \X Nat) \X Nat
<1>1. \E p \in Places(s) : IdAt(s, p) = id
  BY DEF Live
<1>2. Name(s, id) \in Places(s) /\ IdAt(s, Name(s, id)) = id
  BY <1>1 DEF Name
<1>3. PICK p : p = Name(s, id)
  OBVIOUS
<1>4. p[1] \in Holders(s) /\ p[2] \in 1..Len(IdsOf(s, p[1])) /\ p = <<p[1], p[2]>>
  BY <1>2, <1>3, PlaceIs
<1>5. PICK x : x = p[1]
  OBVIOUS
<1>6. /\ x[1] \in Tasks /\ x[2] \in 1..Len(s.blocks[x[1]]) /\ x = <<x[1], x[2]>>
      /\ Len(s.blocks[x[1]]) \in Nat /\ Len(IdsOf(s, x)) \in Nat
  BY <1>4, <1>5, Held
<1>7. x \in Tasks \X Nat /\ p[2] \in Nat
  BY <1>4, <1>5, <1>6
<1>8. p \in (Tasks \X Nat) \X Nat
  BY <1>4, <1>5, <1>7
<1> QED BY <1>2, <1>3, <1>8

(* A pair is not the address of a new Arc. *)
LEMMA NotNew ==
  ASSUME NEW id \in (Tasks \X Nat) \X Nat
  PROVE  id \in Address /\ id \notin [{1} -> Nat]
<1>1. DOMAIN id = 1..2
  OBVIOUS
<1>2. \A f \in [{1} -> Nat] : DOMAIN f = {1}
  OBVIOUS
<1>3. 2 \in 1..2 /\ 2 \notin {1}
  OBVIOUS
<1> QED BY <1>1, <1>2, <1>3 DEF Address

(* The state between two calls: heap and columns are renamed, and what nothing
   points to is gone. *)
Renamed(s, a) == [d \in 1..Len(a) |-> Name(s, a[d])]

Kept(s, w) ==
  /\ w = [heap |-> w.heap, blocks |-> w.blocks, told |-> w.told, new |-> 0, end |-> "ok"]
  /\ w.heap = Collected(s).heap /\ w.blocks = Collected(s).blocks /\ w.told = Collected(s).told

LEMMA KeptHeap ==
  ASSUME NEW s, StateOK(s), NEW w, Kept(s, w)
  PROVE  /\ w.told = s.told /\ w.new = 0 /\ w.end = "ok" /\ IsMap(w.heap)
         /\ \A id \in Live(s) : Name(s, id) \in DOMAIN w.heap /\ w.heap[Name(s, id)] = s.heap[id]
         /\ \A p \in DOMAIN w.heap : \E id \in Live(s) : p = Name(s, id)
<1>1. s = [heap |-> s.heap, blocks |-> s.blocks, told |-> s.told, new |-> s.new, end |-> s.end]
  BY DEF StateOK
<1>2. /\ w.told = s.told
      /\ w.heap = [p \in {Name(s, id) : id \in Live(s)} |-> s.heap[IdAt(s, p)]]
  <2>1. /\ Collected(s).told = s.told
        /\ Collected(s).heap = [p \in {Name(s, id) : id \in Live(s)} |-> s.heap[IdAt(s, p)]]
    BY <1>1 DEF Collected
  <2> QED BY <2>1 DEF Kept
<1>3. IsMap(w.heap) /\ \A p : p \in DOMAIN w.heap <=> \E id \in Live(s) : p = Name(s, id)
  BY <1>2 DEF IsMap
<1>4. ASSUME NEW id \in Live(s) PROVE w.heap[Name(s, id)] = s.heap[id]
  <2>1. IdAt(s, Name(s, id)) = id
    BY NameIs
  <2> QED BY <1>2, <2>1
<1>5. w.new = 0 /\ w.end = "ok"
  BY DEF Kept
<1> QED BY <1>2, <1>3, <1>4, <1>5

LEMMA KeptColumns ==
  ASSUME NEW s, CallInv(s), NEW w, Kept(s, w)
  PROVE  /\ w.blocks \in [Tasks -> Seq(Column)]
         /\ \A t \in Tasks : Len(w.blocks[t]) = Len(s.blocks[t])
         /\ Holders(w) = Holders(s)
         /\ \A x \in Holders(s) :
              /\ IdsOf(w, x) = Renamed(s, IdsOf(s, x))
              /\ \A d \in 1..Len(IdsOf(s, x)) : IdsOf(s, x)[d] \in Live(s)
<1>1. StateOK(s)
  BY DEF CallInv
<1>2. s = [heap |-> s.heap, blocks |-> s.blocks, told |-> s.told, new |-> s.new, end |-> s.end]
  BY <1>1 DEF StateOK
<1>3. w.blocks = [t \in Tasks |-> [i \in DOMAIN s.blocks[t] |->
         [name |-> s.blocks[t][i].name,
          ids |-> [d \in DOMAIN s.blocks[t][i].ids |-> Name(s, s.blocks[t][i].ids[d])]]]]
  <2>1. Collected(s).blocks = [t \in Tasks |-> [i \in DOMAIN s.blocks[t] |->
         [name |-> s.blocks[t][i].name,
          ids |-> [d \in DOMAIN s.blocks[t][i].ids |-> Name(s, s.blocks[t][i].ids[d])]]]]
    BY <1>2 DEF Collected
  <2> QED BY <2>1 DEF Kept
<1>4. ASSUME NEW x \in Holders(s), NEW d \in 1..Len(IdsOf(s, x)) PROVE IdsOf(s, x)[d] \in Live(s)
  <2>1. <<x, d>> \in Places(s)
    BY <1>1, PlaceIs
  <2>2. IdAt(s, <<x, d>>) = IdsOf(s, x)[d]
    BY DEF IdAt
  <2> QED BY <2>1, <2>2 DEF Live
<1>5. ASSUME NEW t \in Tasks, NEW i \in 1..Len(s.blocks[t])
      PROVE  /\ w.blocks[t][i] \in Column
             /\ w.blocks[t][i].ids = Renamed(s, IdsOf(s, <<t, i>>))
  <2>0. PICK x, a, n, b, nm : /\ x = <<t, i>> /\ a = IdsOf(s, x) /\ n = Len(a) /\ b = Renamed(s, a)
                              /\ nm = s.blocks[t][i].name
    OBVIOUS
  <2>1. x \in Holders(s)
    BY <1>1, <2>0, Held
  <2>2. /\ a \in Seq(Address) /\ n \in Nat \ {0} /\ DOMAIN a = 1..n /\ a = s.blocks[t][i].ids
        /\ nm \in Names
    <3>1. x[1] = t /\ x[2] = i
      BY <2>0
    <3>2. s.blocks[t][i] \in Column
      BY <1>1, <2>1, <3>1, Held
    <3>3. nm \in Names
      BY <2>0, <3>2 DEF Column
    <3> QED BY <1>1, <2>0, <2>1, <3>1, <3>3, Held
  <2>3. b \in [1..n -> Address]
    <3>1. ASSUME NEW d \in 1..n PROVE Name(s, a[d]) \in Address
      <4>1. a[d] \in Live(s)
        BY <1>4, <2>0, <2>1
      <4>2. Name(s, a[d]) \in (Tasks \X Nat) \X Nat
        BY <1>1, <4>1, NameIs
      <4> QED BY <4>2, NotNew
    <3> QED BY <2>0, <3>1 DEF Renamed
  <2>4. b \in Seq(Address) /\ Len(b) = n
    BY <2>2, <2>3
  <2>5. b # <<>>
    BY <2>2, <2>4
  <2>6. DOMAIN s.blocks[t] = 1..Len(s.blocks[t])
    BY <1>1, Held
  <2>7. w.blocks[t][i] = [name |-> nm, ids |-> [d \in DOMAIN s.blocks[t][i].ids |-> Name(s, s.blocks[t][i].ids[d])]]
    BY <1>3, <2>0, <2>6
  <2>8. [d \in DOMAIN s.blocks[t][i].ids |-> Name(s, s.blocks[t][i].ids[d])] = b
    BY <2>0, <2>2 DEF Renamed
  <2>9. w.blocks[t][i] = [name |-> nm, ids |-> b]
    BY <2>7, <2>8
  <2>10. w.blocks[t][i] \in Column /\ w.blocks[t][i].ids = b
    BY <2>2, <2>4, <2>5, <2>9 DEF Column
  <2> QED BY <2>0, <2>10
<1>6. ASSUME NEW t \in Tasks
      PROVE  /\ w.blocks[t] \in Seq(Column) /\ Len(w.blocks[t]) = Len(s.blocks[t])
             /\ DOMAIN w.blocks[t] = DOMAIN s.blocks[t]
  <2>0. PICK m, q : m = Len(s.blocks[t]) /\ q = w.blocks[t]
    OBVIOUS
  <2>1. m \in Nat /\ DOMAIN s.blocks[t] = 1..m
    BY <1>1, <2>0, Held
  <2>2. DOMAIN q = 1..m /\ IsMap(q)
    BY <1>3, <2>0, <2>1 DEF IsMap
  <2>3. \A i \in 1..m : q[i] \in Column
    BY <1>5, <2>0
  <2>4. q \in [1..m -> Column]
    BY <2>2, <2>3 DEF IsMap
  <2>5. q \in Seq(Column) /\ Len(q) = m
    BY <2>1, <2>4
  <2> QED BY <2>0, <2>1, <2>2, <2>5
<1>7. w.blocks \in [Tasks -> Seq(Column)]
  <2>1. w.blocks = [t \in Tasks |-> w.blocks[t]]
    BY <1>3
  <2> QED BY <1>6, <2>1
<1>8. Holders(w) = Holders(s)
  BY <1>6 DEF Holders
<1>9. ASSUME NEW x \in Holders(s) PROVE IdsOf(w, x) = Renamed(s, IdsOf(s, x))
  <2>1. x[1] \in Tasks /\ x[2] \in 1..Len(s.blocks[x[1]]) /\ x = <<x[1], x[2]>>
    BY <1>1, Held
  <2>2. w.blocks[x[1]][x[2]].ids = Renamed(s, IdsOf(s, <<x[1], x[2]>>))
    BY <1>5, <2>1
  <2> QED BY <2>1, <2>2 DEF IdsOf
<1> QED BY <1>4, <1>6, <1>7, <1>8, <1>9

LEMMA KeptInv ==
  ASSUME NEW s, CallInv(s), NEW w, Kept(s, w)
  PROVE  /\ CallInv(w) /\ DOMAIN w.heap = Live(w) /\ DOMAIN w.heap \subseteq (Tasks \X Nat) \X Nat
         /\ \A t \in Tasks : s.blocks[t] = <<>> => w.blocks[t] = <<>>
<1>1. StateOK(s)
  BY DEF CallInv
<1>2. /\ w.told = s.told /\ w.new = 0 /\ w.end = "ok" /\ IsMap(w.heap)
      /\ \A id \in Live(s) : Name(s, id) \in DOMAIN w.heap /\ w.heap[Name(s, id)] = s.heap[id]
      /\ \A p \in DOMAIN w.heap : \E id \in Live(s) : p = Name(s, id)
  BY <1>1, KeptHeap
<1>3. /\ w.blocks \in [Tasks -> Seq(Column)]
      /\ \A t \in Tasks : Len(w.blocks[t]) = Len(s.blocks[t])
      /\ Holders(w) = Holders(s)
      /\ \A x \in Holders(s) :
           /\ IdsOf(w, x) = Renamed(s, IdsOf(s, x))
           /\ \A d \in 1..Len(IdsOf(s, x)) : IdsOf(s, x)[d] \in Live(s)
  BY KeptColumns
<1>4. \A id \in Live(s) : IdAt(s, Name(s, id)) = id /\ Name(s, id) \in (Tasks \X Nat) \X Nat
  BY <1>1, NameIs
<1>5. DOMAIN w.heap \subseteq (Tasks \X Nat) \X Nat
  BY <1>2, <1>4
<1>6. StateOK(w)
  <2>1. /\ s.told \in [Tasks -> Seq(Seq(Cells))]
        /\ \A t \in Tasks : Len(s.told[t]) = Len(s.blocks[t])
    BY <1>1 DEF StateOK
  <2>2. \A id \in DOMAIN w.heap : id \in Address /\ (id \in [{1} -> Nat] => id[1] <= w.new)
    BY <1>5, NotNew
  <2>3. w = [heap |-> w.heap, blocks |-> w.blocks, told |-> w.told, new |-> w.new, end |-> w.end]
    <3>1. w = [heap |-> w.heap, blocks |-> w.blocks, told |-> w.told, new |-> 0, end |-> "ok"]
      BY DEF Kept
    <3> QED BY <1>2, <3>1
  <2>4. \A t \in Tasks : Len(w.told[t]) = Len(w.blocks[t])
    BY <1>2, <1>3, <2>1
  <2>5. /\ w.new \in Nat /\ w.end \in {"ok", "err", "panic"} /\ w.told \in [Tasks -> Seq(Seq(Cells))]
        /\ w.heap = [id \in DOMAIN w.heap |-> w.heap[id]]
    BY <1>2, <2>1 DEF IsMap
  <2>6. w.blocks \in [Tasks -> Seq([name : Names, ids : Seq(Address) \ {<<>>}])]
    BY <1>3 DEF Column
  <2> QED BY <2>2, <2>3, <2>4, <2>5, <2>6 DEF StateOK
<1>7. ASSUME NEW x \in Holders(s)
      PROVE  /\ Len(IdsOf(w, x)) = Len(IdsOf(s, x)) /\ Len(IdsOf(s, x)) \in Nat \ {0}
             /\ DOMAIN IdsOf(w, x) = 1..Len(IdsOf(s, x)) /\ DOMAIN IdsOf(s, x) = 1..Len(IdsOf(s, x))
             /\ IdsOf(w, x) \in Seq(Address) /\ IdsOf(s, x) \in Seq(Address)
             /\ \A d \in 1..Len(IdsOf(s, x)) : IdsOf(w, x)[d] = Name(s, IdsOf(s, x)[d])
  <2>1. /\ Len(IdsOf(s, x)) \in Nat \ {0} /\ DOMAIN IdsOf(s, x) = 1..Len(IdsOf(s, x))
        /\ IdsOf(s, x) \in Seq(Address)
    BY <1>1, Held
  <2>2. x \in Holders(w)
    BY <1>3
  <2>3. /\ Len(IdsOf(w, x)) \in Nat \ {0} /\ DOMAIN IdsOf(w, x) = 1..Len(IdsOf(w, x))
        /\ IdsOf(w, x) \in Seq(Address)
    BY <1>6, <2>2, Held
  <2>4. IdsOf(w, x) = [d \in 1..Len(IdsOf(s, x)) |-> Name(s, IdsOf(s, x)[d])]
    BY <1>3 DEF Renamed
  <2>5. DOMAIN IdsOf(w, x) = 1..Len(IdsOf(s, x))
    BY <2>4
  <2>6. Len(IdsOf(w, x)) = Len(IdsOf(s, x))
    <3>1. ASSUME NEW k \in Nat \ {0}, NEW n \in Nat \ {0}, 1..k = 1..n PROVE k = n
      <4>1. k \in 1..n /\ n \in 1..k
        BY <3>1
      <4> QED BY <4>1
    <3> QED BY <2>1, <2>3, <2>5, <3>1
  <2> QED BY <2>1, <2>3, <2>4, <2>5, <2>6
<1>8. ASSUME NEW x \in Holders(w), NEW d \in 1..Len(IdsOf(w, x)) PROVE IdsOf(w, x)[d] \in DOMAIN w.heap
  BY <1>2, <1>3, <1>7
<1>9. ASSUME NEW x \in Holders(w), NEW y \in Holders(w) PROVE Sharing(w, x, y)
  <2>0. PICK a, b, f, g, n, m :
          /\ a = IdsOf(s, x) /\ b = IdsOf(s, y) /\ f = IdsOf(w, x) /\ g = IdsOf(w, y) /\ n = Len(a) /\ m = Len(b)
    OBVIOUS
  <2>1. /\ n \in Nat \ {0} /\ m \in Nat \ {0} /\ Len(a) = n /\ Len(b) = m /\ Len(f) = n /\ Len(g) = m
        /\ a \in Seq(Address) /\ b \in Seq(Address) /\ f \in Seq(Address) /\ g \in Seq(Address)
        /\ \A d \in 1..n : f[d] = Name(s, a[d]) /\ a[d] \in Live(s)
        /\ \A d \in 1..m : g[d] = Name(s, b[d]) /\ b[d] \in Live(s)
    BY <1>3, <1>7, <2>0
  <2>2. ASSUME NEW d \in 1..n, NEW e \in 1..m, f[d] = g[e] PROVE d = e /\ Tail(f) = Tail(g)
    <3>1. a[d] = b[e]
      BY <1>4, <2>1, <2>2
    <3>2. d = e /\ Tail(a) = Tail(b)
      <4>1. SharingBelow(s) /\ x \in Holders(s) /\ y \in Holders(s)
        BY <1>3 DEF CallInv
      <4> QED BY <1>1, <2>0, <3>1, <4>1, Shared
    <3>3. a # <<>> /\ b # <<>> /\ f # <<>> /\ g # <<>>
      BY <2>1
    <3>4. /\ Len(Tail(a)) = n - 1 /\ \A k \in 1..(n - 1) : Tail(a)[k] = a[k + 1]
      BY <2>1, <3>3, HeadTailProperties
    <3>5. /\ Len(Tail(b)) = m - 1 /\ \A k \in 1..(m - 1) : Tail(b)[k] = b[k + 1]
      BY <2>1, <3>3, HeadTailProperties
    <3>6. n = m
      BY <2>1, <3>2, <3>4, <3>5
    <3>7. /\ Tail(f) \in Seq(Address) /\ Len(Tail(f)) = n - 1 /\ \A k \in 1..(n - 1) : Tail(f)[k] = f[k + 1]
      BY <2>1, <3>3, HeadTailProperties
    <3>8. /\ Tail(g) \in Seq(Address) /\ Len(Tail(g)) = m - 1 /\ \A k \in 1..(m - 1) : Tail(g)[k] = g[k + 1]
      BY <2>1, <3>3, HeadTailProperties
    <3>9. ASSUME NEW k \in 1..(n - 1) PROVE f[k + 1] = g[k + 1]
      <4>1. k + 1 \in 1..n /\ k + 1 \in 1..m
        BY <2>1, <3>6
      <4>2. a[k + 1] = b[k + 1]
        BY <3>2, <3>4, <3>5, <3>6
      <4> QED BY <2>1, <4>1, <4>2
    <3>10. \A k \in 1..(n - 1) : Tail(f)[k] = Tail(g)[k]
      BY <3>6, <3>7, <3>8, <3>9
    <3>11. Tail(f) = Tail(g)
      BY <3>6, <3>7, <3>8, <3>10, SeqEqual
    <3> QED BY <3>2, <3>11
  <2> QED BY <2>0, <2>1, <2>2 DEF Sharing
<1>10. ASSUME NEW x \in Holders(w) PROVE Fills(w, x)
  <2>0. PICK a, f, n : a = IdsOf(s, x) /\ f = IdsOf(w, x) /\ n = Len(a)
    OBVIOUS
  <2>1. n \in Nat /\ DOMAIN a = 1..n /\ DOMAIN f = 1..n
    BY <1>3, <1>7, <2>0
  <2>2. Chain(w, f) = [d \in 1..n |-> w.heap[f[d]]] /\ Chain(s, a) = [d \in 1..n |-> s.heap[a[d]]]
    BY <2>1, ChainIs
  <2>3. \A d \in 1..n : w.heap[f[d]] = s.heap[a[d]]
    BY <1>2, <1>3, <1>7, <2>0
  <2>4. Chain(w, f) = Chain(s, a)
    BY <2>2, <2>3
  <2>5. Fills(s, x)
    BY <1>1, <1>3, ByColumns
  <2> QED BY <1>2, <2>0, <2>4, <2>5 DEF Fills
<1>11. CallInv(w)
  BY <1>6, <1>8, <1>9, <1>10, ByColumns
<1>12. DOMAIN w.heap = Live(w)
  <2>1. ASSUME NEW p \in DOMAIN w.heap PROVE p \in Live(w)
    <3>1. PICK id \in Live(s) : p = Name(s, id)
      BY <1>2
    <3>2. PICK q \in Places(s) : IdAt(s, q) = id
      BY DEF Live
    <3>3. q[1] \in Holders(s) /\ q[2] \in 1..Len(IdsOf(s, q[1])) /\ id = IdsOf(s, q[1])[q[2]] /\ q = <<q[1], q[2]>>
      BY <1>1, <3>2, PlaceIs
    <3>4. q[1] \in Holders(w) /\ q[2] \in 1..Len(IdsOf(w, q[1])) /\ IdsOf(w, q[1])[q[2]] = p
      BY <1>3, <1>7, <3>1, <3>3
    <3>5. q \in Places(w) /\ IdAt(w, q) = p
      BY <1>6, <3>3, <3>4, PlaceIs
    <3> QED BY <3>5 DEF Live
  <2>2. ASSUME NEW p \in Live(w) PROVE p \in DOMAIN w.heap
    <3>1. PICK q \in Places(w) : IdAt(w, q) = p
      BY DEF Live
    <3> QED BY <1>11, <3>1 DEF CallInv, Pointing
  <2> QED BY <2>1, <2>2
<1>13. ASSUME NEW t \in Tasks, s.blocks[t] = <<>> PROVE w.blocks[t] = <<>>
  <2>1. w.blocks[t] \in Seq(Column) /\ Len(w.blocks[t]) = 0
    BY <1>3, <1>13
  <2> QED BY <2>1, EmptySeq
<1> QED BY <1>5, <1>11, <1>12, <1>13

-----------------------------------------------------------------------------
(* The end of a call. *)
LEMMA FinishInv ==
  ASSUME NEW t \in Tasks, NEW s, CallInv(s), alive \subseteq Tasks,
         \A u \in Tasks : u \notin alive /\ u # t => s.blocks[u] = <<>>,
         Finish(t, s)
  PROVE  BlockInv'
<1>0. PICK z, w : /\ z = (IF s.end = "panic" THEN Dropped(s, t) ELSE s)
                  /\ w = [heap |-> heap', blocks |-> blocks', told |-> told', new |-> 0, end |-> "ok"]
  OBVIOUS
<1>1. CallInv(z)
  <2>1. CASE s.end = "panic"
    BY <1>0, <2>1, DroppedInv
  <2>2. CASE s.end # "panic"
    BY <1>0, <2>2
  <2> QED BY <2>1, <2>2
<1>2. w.heap = heap' /\ w.blocks = blocks' /\ w.told = told'
  BY <1>0
<1>3. Kept(z, w)
  <2>1. heap' = Collected(z).heap /\ blocks' = Collected(z).blocks /\ told' = Collected(z).told
    BY <1>0 DEF Finish
  <2>2. w = [heap |-> w.heap, blocks |-> w.blocks, told |-> w.told, new |-> 0, end |-> "ok"]
    BY <1>0
  <2> QED BY <1>2, <2>1, <2>2 DEF Kept
<1>4. /\ CallInv(w) /\ DOMAIN w.heap = Live(w) /\ DOMAIN w.heap \subseteq (Tasks \X Nat) \X Nat
      /\ \A u \in Tasks : z.blocks[u] = <<>> => w.blocks[u] = <<>>
  BY <1>1, <1>3, KeptInv
<1>5. s.end \in {"ok", "err", "panic"}
  BY DEF CallInv, StateOK
<1>6. alive' \subseteq Tasks /\ ended' \in {"ok", "err", "panic"}
  BY <1>5 DEF Finish
<1>7. ASSUME NEW u \in Tasks \ alive' PROVE blocks'[u] = <<>>
  <2>1. z.blocks[u] = <<>>
    <3>1. CASE s.end = "panic"
      <4>1. z = Dropped(s, t) /\ alive' = alive \ {t}
        BY <1>0, <3>1 DEF Finish
      <4>2. /\ Dropped(s, t).blocks[t] = <<>>
            /\ \A v \in Tasks : v # t => Dropped(s, t).blocks[v] = s.blocks[v]
        BY DroppedInv
      <4> QED BY <1>7, <4>1, <4>2
    <3>2. CASE s.end # "panic"
      <4>1. z = s /\ alive' = alive \cup {t}
        BY <1>0, <3>2 DEF Finish
      <4> QED BY <1>7, <4>1
    <3> QED BY <3>1, <3>2
  <2> QED BY <1>2, <1>4, <1>7, <2>1
<1>8. Here' = w
  BY <1>0 DEF Here
<1>9. CallInv(Here)'
  BY <1>4, <1>8
<1>10. Live(Here)' = Live(w)
  BY <1>8
<1>11. DOMAIN heap' = Live(Here)' /\ DOMAIN heap' \subseteq (Tasks \X Nat) \X Nat
  BY <1>2, <1>4, <1>10
<1> QED BY <1>6, <1>7, <1>9, <1>11 DEF BlockInv

(* The state a call begins with. *)
LEMMA HereIs ==
  ASSUME BlockInv
  PROVE  /\ CallInv(Here) /\ StateOK(Here) /\ alive \subseteq Tasks
         /\ Here.heap = heap /\ Here.blocks = blocks /\ Here.told = told /\ Here.new = 0 /\ Here.end = "ok"
         /\ \A u \in Tasks : u \notin alive => Here.blocks[u] = <<>>
<1>1. Here.heap = heap /\ Here.blocks = blocks /\ Here.told = told /\ Here.new = 0 /\ Here.end = "ok"
  BY DEF Here
<1> QED BY <1>1 DEF BlockInv, CallInv

(* Block::new *)
LEMMA NewBlockInv ==
  ASSUME BlockInv, NEW t \in Tasks, NewBlock(t)
  PROVE  BlockInv'
BY HereIs, FinishInv DEF NewBlock

(* Block::push *)
LEMMA PushRowInv ==
  ASSUME BlockInv, NEW t \in Tasks, NEW row \in RowsToPush, PushesAdd, PushRow(t, row)
  PROVE  BlockInv'
<1>0. PICK s : s = Apply(Here, t, row)
  OBVIOUS
<1>1. CallInv(s) /\ Elsewhere(Here, s, t)
  BY <1>0, HereIs, ApplyInv
<1>2. \A u \in Tasks : u \notin alive /\ u # t => s.blocks[u] = <<>>
  BY <1>1, HereIs DEF Elsewhere
<1>3. Finish(t, s)
  BY <1>0 DEF PushRow
<1> QED BY <1>1, <1>2, <1>3, HereIs, FinishInv

(* Block::load *)
LEMMA ReceiveInv ==
  ASSUME BlockInv, NEW t \in Tasks, NEW cols \in Received, Receive(t, cols)
  PROVE  BlockInv'
<1>0. PICK s : s = Load(Here, t, cols)
  OBVIOUS
<1>1. CallInv(s) /\ Elsewhere(Here, s, t)
  BY <1>0, HereIs, LoadInv
<1>2. \A u \in Tasks : u \notin alive /\ u # t => s.blocks[u] = <<>>
  BY <1>1, HereIs DEF Elsewhere
<1>3. Finish(t, s)
  BY <1>0 DEF Receive
<1> QED BY <1>1, <1>2, <1>3, HereIs, FinishInv

(* Block::clone *)
LEMMA CloneBlockInv ==
  ASSUME BlockInv, NEW t \in Tasks, NEW u \in Tasks, CloneBlock(t, u)
  PROVE  BlockInv'
<1>0. PICK s, h : s = [Here EXCEPT !.blocks[u] = blocks[t], !.told[u] = told[t]] /\ h = Here
  OBVIOUS
<1>1. /\ CallInv(h) /\ StateOK(h) /\ h.heap = heap /\ h.blocks = blocks /\ h.told = told /\ alive \subseteq Tasks
      /\ \A v \in Tasks : v \notin alive => h.blocks[v] = <<>>
  BY <1>0, HereIs
<1>2. /\ h.blocks \in [Tasks -> Seq(Column)] /\ h.told \in [Tasks -> Seq(Seq(Cells))]
      /\ \A v \in Tasks : Len(h.told[v]) = Len(h.blocks[v])
  BY <1>1 DEF StateOK, Column
<1>3. s = [heap |-> h.heap, blocks |-> [h.blocks EXCEPT ![u] = h.blocks[t]],
           told |-> [h.told EXCEPT ![u] = h.told[t]], new |-> h.new, end |-> h.end]
  <2>1. h = [heap |-> h.heap, blocks |-> h.blocks, told |-> h.told, new |-> h.new, end |-> h.end]
    BY <1>1 DEF StateOK
  <2> QED BY <1>0, <1>1, <2>1
<1>4. /\ s.heap = h.heap /\ s.new = h.new /\ s.end = h.end
      /\ s.blocks = [h.blocks EXCEPT ![u] = h.blocks[t]] /\ s.told = [h.told EXCEPT ![u] = h.told[t]]
      /\ s = [heap |-> s.heap, blocks |-> s.blocks, told |-> s.told, new |-> s.new, end |-> s.end]
  BY <1>3
<1>5. /\ s.blocks[u] = h.blocks[t] /\ s.told[u] = h.told[t]
      /\ \A v \in Tasks : v # u => s.blocks[v] = h.blocks[v] /\ s.told[v] = h.told[v]
      /\ s.blocks \in [Tasks -> Seq(Column)] /\ s.told \in [Tasks -> Seq(Seq(Cells))]
  BY <1>2, <1>4
<1>6. \A v \in Tasks : Len(s.told[v]) = Len(s.blocks[v])
  BY <1>2, <1>5
<1>7. StateOK(s)
  BY <1>1, <1>4, <1>5, <1>6 DEF StateOK, Column
<1>8. ASSUME NEW y \in Holders(s)
      PROVE  \E z \in Holders(h) : IdsOf(s, y) = IdsOf(h, z) /\ s.told[y[1]][y[2]] = h.told[z[1]][z[2]]
  <2>1. y[1] \in Tasks /\ y[2] \in 1..Len(s.blocks[y[1]]) /\ y = <<y[1], y[2]>>
    BY <1>7, Held
  <2>2. CASE y[1] = u
    <3>1. PICK z : z = <<t, y[2]>>
      OBVIOUS
    <3>2. z \in Holders(h) /\ z[1] = t /\ z[2] = y[2]
      BY <1>1, <1>5, <2>1, <2>2, <3>1, Held
    <3> QED BY <1>5, <2>2, <3>2 DEF IdsOf
  <2>3. CASE y[1] # u
    <3>1. y \in Holders(h)
      BY <1>1, <1>5, <2>1, <2>3, Held
    <3> QED BY <1>5, <2>1, <2>3, <3>1 DEF IdsOf
  <2> QED BY <2>2, <2>3
<1>9. CallInv(s)
  <2>1. s.heap = h.heap /\ CallInv(h)
    BY <1>1, <1>4
  <2> QED BY <1>7, <1>8, <2>1, MirrorInv
<1>10. \A v \in Tasks : v \notin alive /\ v # u => s.blocks[v] = <<>>
  BY <1>1, <1>5
<1>11. Finish(u, s)
  BY <1>0 DEF CloneBlock
<1>12. alive \subseteq Tasks
  BY <1>1
<1> QED BY <1>9, <1>10, <1>11, <1>12, FinishInv

(* A block is dropped. *)
LEMMA DropBlockInv ==
  ASSUME BlockInv, NEW t \in Tasks, DropBlock(t)
  PROVE  BlockInv'
<1>0. PICK z, w : /\ z = Dropped(Here, t)
                  /\ w = [heap |-> heap', blocks |-> blocks', told |-> told', new |-> 0, end |-> "ok"]
  OBVIOUS
<1>1. /\ CallInv(z) /\ z.blocks[t] = <<>>
      /\ \A u \in Tasks : u # t => z.blocks[u] = Here.blocks[u]
  BY <1>0, HereIs, DroppedInv
<1>2. w.heap = heap' /\ w.blocks = blocks' /\ w.told = told'
  BY <1>0
<1>3. Kept(z, w)
  <2>1. heap' = Collected(z).heap /\ blocks' = Collected(z).blocks /\ told' = Collected(z).told
    BY <1>0 DEF DropBlock
  <2>2. w = [heap |-> w.heap, blocks |-> w.blocks, told |-> w.told, new |-> 0, end |-> "ok"]
    BY <1>0
  <2> QED BY <1>2, <2>1, <2>2 DEF Kept
<1>4. /\ CallInv(w) /\ DOMAIN w.heap = Live(w) /\ DOMAIN w.heap \subseteq (Tasks \X Nat) \X Nat
      /\ \A u \in Tasks : z.blocks[u] = <<>> => w.blocks[u] = <<>>
  BY <1>1, <1>3, KeptInv
<1>5. alive' = alive \ {t} /\ ended' = "ok" /\ alive \subseteq Tasks
  BY HereIs DEF DropBlock
<1>6. ASSUME NEW u \in Tasks \ alive' PROVE blocks'[u] = <<>>
  <2>1. z.blocks[u] = <<>>
    BY <1>1, <1>5, <1>6, HereIs
  <2> QED BY <1>2, <1>4, <1>6, <2>1
<1>7. Here' = w
  BY <1>0 DEF Here
<1>8. CallInv(Here)' /\ Live(Here)' = Live(w)
  BY <1>4, <1>7
<1>9. DOMAIN heap' = Live(Here)' /\ DOMAIN heap' \subseteq (Tasks \X Nat) \X Nat
  BY <1>2, <1>4, <1>8
<1> QED BY <1>5, <1>6, <1>8, <1>9 DEF BlockInv

(* Block::column with a column of a block *)
LEMMA AddSharedInv ==
  ASSUME BlockInv, NEW t \in Tasks, NEW u \in Tasks, NEW i \in Columns(Here, u), NEW name \in Names,
         AddShared(t, u, i, name)
  PROVE  BlockInv'
<1>0. PICK h : h = Here
  OBVIOUS
<1>1. /\ CallInv(h) /\ StateOK(h) /\ h.heap = heap /\ h.blocks = blocks /\ h.told = told /\ alive \subseteq Tasks
      /\ \A v \in Tasks : v \notin alive => h.blocks[v] = <<>>
  BY <1>0, HereIs
<1>2. PICK c : c = (Columns(h, t) # {} /\ RowCount(h, t) # LengthOf(ColumnAt(h, u, i)))
  OBVIOUS
<1>3. CASE c
  <2>1. PICK e, s : e = "panic" /\ s = [h EXCEPT !.end = e]
    OBVIOUS
  <2>2. CallInv(s) /\ Elsewhere(h, s, t)
    <3>1. e \in {"ok", "err", "panic"}
      BY <2>1
    <3>2. CallInv([h EXCEPT !.end = e]) /\ Elsewhere(h, [h EXCEPT !.end = e], t)
      BY <1>1, <3>1, EndedInv, ElsewhereSame
    <3> QED BY <2>1, <3>2
  <2>3. \A v \in Tasks : v \notin alive /\ v # t => s.blocks[v] = <<>>
    BY <1>1, <2>2 DEF Elsewhere
  <2>4. Finish(t, s)
    BY <1>0, <1>2, <1>3, <2>1 DEF AddShared
  <2>5. alive \subseteq Tasks /\ CallInv(s)
    BY <1>1, <2>2
  <2> QED BY <2>3, <2>4, <2>5, FinishInv
<1>4. CASE ~c
  <2>0. PICK col, vs, s, x, y : /\ col = [name |-> name, ids |-> blocks[u][i].ids] /\ vs = told[u][i]
                             /\ s = [h EXCEPT !.blocks[t] = Append(blocks[t], col), !.told[t] = Append(told[t], vs)]
                             /\ x = <<t, Len(h.blocks[t]) + 1>> /\ y = <<u, i>>
    OBVIOUS
  <2>1. y \in Holders(h) /\ y[1] = u /\ y[2] = i
    BY <1>0, <1>1, <2>0, Held DEF Columns
  <2>2. /\ IdsOf(h, y) \in Seq(Address) /\ Len(IdsOf(h, y)) # 0 /\ IdsOf(h, y) = blocks[u][i].ids
        /\ vs \in Seq(Cells) /\ vs = h.told[y[1]][y[2]]
    BY <1>1, <2>0, <2>1, Held
  <2>3. col \in Column /\ col.ids = IdsOf(h, y)
    <3>1. IdsOf(h, y) # <<>>
      BY <2>2
    <3> QED BY <2>0, <2>2, <3>1 DEF Column
  <2>4. s = [heap |-> h.heap, blocks |-> [h.blocks EXCEPT ![t] = Append(h.blocks[t], col)],
             told |-> [h.told EXCEPT ![t] = Append(h.told[t], vs)], new |-> h.new, end |-> h.end]
    <3>1. h = [heap |-> h.heap, blocks |-> h.blocks, told |-> h.told, new |-> h.new, end |-> h.end]
      BY <1>1 DEF StateOK
    <3> QED BY <1>1, <2>0, <3>1
  <2>5. /\ s.heap = h.heap /\ s.new = h.new /\ s.end = h.end /\ Appended(h, s, t, col, vs)
        /\ s = [heap |-> s.heap, blocks |-> s.blocks, told |-> s.told, new |-> s.new, end |-> s.end]
    BY <2>4 DEF Appended
  <2>6. /\ s.blocks \in [Tasks -> Seq(Column)] /\ s.told \in [Tasks -> Seq(Seq(Cells))]
        /\ \A v \in Tasks : Len(s.told[v]) = Len(s.blocks[v])
        /\ Holders(s) = Holders(h) \cup {x}
        /\ \A z \in Holders(h) : IdsOf(s, z) = IdsOf(h, z) /\ s.told[z[1]][z[2]] = h.told[z[1]][z[2]]
        /\ IdsOf(s, x) = col.ids /\ s.told[x[1]][x[2]] = vs
    <3>1. x = <<t, Len(h.blocks[t]) + 1>> /\ vs \in Seq(Cells) /\ StateOK(h) /\ col \in Column
      BY <1>1, <2>0, <2>2, <2>3
    <3>2. Appended(h, s, t, col, vs)
      BY <2>5
    <3> QED BY <3>1, <3>2, AppendedIs, SMTT(20)
  <2>7. StateOK(s)
    BY <1>1, <2>5, <2>6 DEF StateOK, Column
  <2>8. \A z \in Holders(s) : \E f \in Holders(h) :
          IdsOf(s, z) = IdsOf(h, f) /\ s.told[z[1]][z[2]] = h.told[f[1]][f[2]]
    BY <2>1, <2>2, <2>3, <2>6
  <2>9. CallInv(s)
    BY <1>1, <2>5, <2>7, <2>8, MirrorInv
  <2>10. \A v \in Tasks : v \notin alive /\ v # t => s.blocks[v] = <<>>
    <3>1. s.blocks = [h.blocks EXCEPT ![t] = Append(h.blocks[t], col)] /\ h.blocks \in [Tasks -> Seq(Column)]
      BY <1>1, <2>4 DEF StateOK, Column
    <3>2. \A v \in Tasks : v # t => s.blocks[v] = h.blocks[v]
      BY <3>1
    <3> QED BY <1>1, <3>2
  <2>11. Finish(t, s)
    BY <1>0, <1>2, <1>4, <2>0 DEF AddShared
  <2>12. alive \subseteq Tasks
    BY <1>1
  <2> QED BY <2>9, <2>10, <2>11, <2>12, FinishInv
<1> QED BY <1>2, <1>3, <1>4

-----------------------------------------------------------------------------
(* No block, no Arc. *)
LEMMA InitInv ==
  ASSUME Init
  PROVE  BlockInv
<1>0. PICK h : h = Here
  OBVIOUS
<1>1. h = [heap |-> <<>>, blocks |-> [t \in Tasks |-> <<>>], told |-> [t \in Tasks |-> <<>>], new |-> 0, end |-> "ok"]
  BY <1>0 DEF Init, Here
<1>2. /\ h.heap = <<>> /\ DOMAIN h.heap = {} /\ h.new = 0 /\ h.end = "ok"
      /\ \A t \in Tasks : h.blocks[t] = <<>> /\ h.told[t] = <<>>
      /\ h.blocks \in [Tasks -> Seq(Column)] /\ h.told \in [Tasks -> Seq(Seq(Cells))]
  BY <1>1
<1>3. StateOK(h)
  <2>1. \A t \in Tasks : Len(h.told[t]) = Len(h.blocks[t])
    BY <1>2
  <2>2. h.heap = [id \in DOMAIN h.heap |-> h.heap[id]]
    BY <1>2
  <2>3. h = [heap |-> h.heap, blocks |-> h.blocks, told |-> h.told, new |-> h.new, end |-> h.end]
    BY <1>1
  <2> QED BY <1>2, <2>1, <2>2, <2>3 DEF StateOK, Column
<1>4. Holders(h) = {}
  <2>1. \A t \in Tasks : Len(h.blocks[t]) = 0
    BY <1>2
  <2> QED BY <1>3, <2>1, Held
<1>5. CallInv(h)
  BY <1>3, <1>4, ByColumns
<1>6. Live(h) = {}
  <2>1. Places(h) = {}
    BY <1>3, <1>4, PlaceIs
  <2> QED BY <2>1 DEF Live
<1>7. DOMAIN heap = {} /\ alive = {} /\ ended = "ok" /\ \A t \in Tasks : blocks[t] = <<>>
  BY DEF Init
<1> QED BY <1>0, <1>5, <1>6, <1>7 DEF BlockInv

(* BlockInv is an invariant: between any two calls every column has its Arcs,  *)
(* two columns that share an Arc share all the levels below the first, and     *)
(* every column is whole and has the rows that were put into it.  Unshared     *)
(* makes the first level the column's own, and get_mut().unwrap() of the inner *)
(* one then answers for all the levels below.                                  *)
THEOREM BlocksInvariance ==
  ASSUME PushesAdd
  PROVE  Spec => []BlockInv
<1>1. Init => BlockInv
  BY InitInv
<1>2. ASSUME BlockInv, [Next]_vars PROVE BlockInv'
  <2>1. CASE UNCHANGED vars
    <3>1. heap' = heap /\ blocks' = blocks /\ told' = told /\ alive' = alive /\ ended' = ended
      BY <2>1 DEF vars
    <3>2. Here' = Here
      BY <3>1 DEF Here
    <3>3. CallInv(Here)' /\ Live(Here)' = Live(Here)
      BY <1>2, <3>2 DEF BlockInv
    <3> QED BY <1>2, <3>1, <3>3 DEF BlockInv
  <2>2. CASE Next
    <3>1. PICK t \in Tasks :
            \/ NewBlock(t)
            \/ \E row \in RowsToPush : PushRow(t, row)
            \/ \E u \in Tasks : CloneBlock(t, u)
            \/ DropBlock(t)
            \/ \E u \in Tasks, name \in Names : \E i \in Columns(Here, u) : AddShared(t, u, i, name)
            \/ \E cols \in Received : Receive(t, cols)
      BY <2>2 DEF Next
    <3>2. CASE NewBlock(t)
      BY <1>2, <3>2, NewBlockInv
    <3>3. CASE \E row \in RowsToPush : PushRow(t, row)
      BY <1>2, <3>3, PushRowInv
    <3>4. CASE \E u \in Tasks : CloneBlock(t, u)
      BY <1>2, <3>4, CloneBlockInv
    <3>5. CASE DropBlock(t)
      BY <1>2, <3>5, DropBlockInv
    <3>6. CASE \E u \in Tasks, name \in Names : \E i \in Columns(Here, u) : AddShared(t, u, i, name)
      BY <1>2, <3>6, AddSharedInv
    <3>7. CASE \E cols \in Received : Receive(t, cols)
      BY <1>2, <3>7, ReceiveInv
    <3> QED BY <3>1, <3>2, <3>3, <3>4, <3>5, <3>6, <3>7
  <2> QED BY <1>2, <2>1, <2>2
<1> QED BY <1>1, <1>2, PTL DEF Spec

(* A column holds what was put into it, whatever other blocks share its Arcs:  *)
(* no push writes through an Arc that another column holds, for any tasks,     *)
(* rows, received blocks and kinds of columns whose push adds one row.         *)
THEOREM ColumnsHold ==
  ASSUME PushesAdd
  PROVE  Spec => []ColumnsHoldWhatWasPut
<1>1. BlockInv => ColumnsHoldWhatWasPut
  <2>1. SUFFICES ASSUME BlockInv, NEW t \in alive, NEW i \in DOMAIN blocks[t]
                 PROVE  RowsOf(ColumnAt(Here, t, i)) =
                          [j \in DOMAIN told[t][i] |-> Stored(ColumnAt(Here, t, i), told[t][i][j])]
    BY DEF ColumnsHoldWhatWasPut
  <2>2. PICK h, x : h = Here /\ x = <<t, i>>
    OBVIOUS
  <2>3. CallInv(h) /\ StateOK(h) /\ h.blocks = blocks /\ h.told = told /\ t \in Tasks
    BY <2>1, <2>2, HereIs
  <2>4. x \in Holders(h) /\ x[1] = t /\ x[2] = i
    BY <2>2, <2>3, Held
  <2>5. RowsOf(ColumnAt(h, x[1], x[2])) =
          [j \in DOMAIN h.told[x[1]][x[2]] |-> Stored(ColumnAt(h, x[1], x[2]), h.told[x[1]][x[2]][j])]
    BY <2>3, <2>4 DEF CallInv, Holding
  <2> QED BY <2>2, <2>3, <2>4, <2>5
<1>2. Spec => []BlockInv
  BY BlocksInvariance
<1> QED BY <1>1, <1>2, PTL

(* The Arcs in use are those of the columns of some block, none is freed under *)
(* a pointer and none is kept, and every column passes the assertion of len.   *)
THEOREM BlocksTypeCorrect ==
  ASSUME PushesAdd
  PROVE  Spec => []TypeOK
<1>1. BlockInv => TypeOK
  BY DEF BlockInv, CallInv, Holding, TypeOK
<1>2. Spec => []BlockInv
  BY BlocksInvariance
<1> QED BY <1>1, <1>2, PTL
=============================================================================
