-------------------------- MODULE StringPoolProofs --------------------------
(***************************************************************************)
(* Proofs for module StringPool: for every capacity, and for strings of    *)
(* every length, get stays inside its chunk and returns what was put in.   *)
(***************************************************************************)
EXTENDS StringPool, TLAPS

(* A new chunk has room for the string it is reserved for.                   *)
LEMMA ChunkSizeFits ==
  ASSUME NEW size \in Sizes
  PROVE  ChunkSize(size) \in Nat /\ ChunkSize(size) >= size
<1>1. Capacity * AVG_STR_SIZE \in Nat /\ size \in Nat
  BY PoolAssumption
<1> QED
  BY <1>1 DEF ChunkSize

(* What allocate finds, or what reserve leaves it, is a last chunk with room *)
(* for the string at Start, zero from there on; the other chunks are the     *)
(* ones that were there.                                                     *)
LEMMA RoomAtStart ==
  ASSUME PoolInv, NEW size \in Sizes,
         NEW r, r = Reserved(size),
         NEW c, c = Len(r)
  PROVE  /\ r \in Seq(Seq(Nat)) /\ c \in Nat /\ c > 0
         /\ Start(size) \in Nat
         /\ Start(size) + size <= Len(r[c])
         /\ \A k \in (Start(size) + 1)..Len(r[c]) : r[c][k] = 0
         /\ Len(chunks) <= c
         /\ \A j \in 1..Len(chunks) : r[j] = chunks[j]
         /\ \A i \in 1..Len(pointers) :
              pointers[i].chunk = c => pointers[i].shift + pointers[i].len <= Start(size)
<1> USE DEF PoolInv, TypeOK
<1>0. size \in Nat
  BY PoolAssumption
<1>1. CASE Fits(size)
  <2>1. chunks # <<>> /\ FreeSpace >= size /\ r = chunks /\ Start(size) = position
    BY <1>1 DEF Fits, Reserved, Start
  <2>2. c \in Nat /\ c > 0 /\ c = Len(chunks)
    BY <2>1
  <2>3. FreeSpace = Len(chunks[c]) - position /\ Len(chunks[c]) \in Nat
    BY <2>1, <2>2 DEF FreeSpace
  <2>4. \A k \in (position + 1)..Len(chunks[c]) : chunks[c][k] = 0
    BY <2>1, <2>2 DEF FreeIsZero
  <2>5. \A i \in 1..Len(pointers) :
          pointers[i].chunk = c => pointers[i].shift + pointers[i].len <= position
    BY <2>2 DEF PointersBelow
  <2> QED
    BY <1>0, <2>1, <2>2, <2>3, <2>4, <2>5
<1>2. CASE ~Fits(size)
  <2> DEFINE new == [i \in 1..ChunkSize(size) |-> 0]
  <2>1. r = Append(chunks, new) /\ Start(size) = 0
    BY <1>2 DEF Reserved, Start
  <2>2. new \in Seq(Nat) /\ Len(new) = ChunkSize(size) /\ \A k \in 1..Len(new) : new[k] = 0
    BY ChunkSizeFits
  <2> HIDE DEF new
  <2>3. r \in Seq(Seq(Nat)) /\ c = Len(chunks) + 1 /\ r[c] = new
    BY <2>1, <2>2
  <2>4. \A j \in 1..Len(chunks) : r[j] = chunks[j]
    BY <2>1, <2>2
  <2>5. \A i \in 1..Len(pointers) : pointers[i].chunk # c
    BY <2>3 DEF InBounds
  <2> QED
    BY <1>0, <2>1, <2>2, <2>3, <2>4, <2>5, ChunkSizeFits
<1> QED
  BY <1>1, <1>2

(* push keeps the invariant: it writes only into the free space, which no    *)
(* earlier pointer reaches.                                                  *)
LEMMA PushStep ==
  ASSUME PoolInv, NEW size \in Sizes, Push(size)
  PROVE  PoolInv'
<1> DEFINE r == Reserved(size)
           c == Len(r)
           start == Start(size)
           n == Len(pushed) + 1
           w == Written(r[c], start, size, n)
           p == [chunk |-> c, shift |-> start, len |-> size]
<1>0. size \in Nat
  BY PoolAssumption
<1>1. /\ r \in Seq(Seq(Nat)) /\ c \in Nat /\ c > 0
      /\ start \in Nat
      /\ start + size <= Len(r[c])
      /\ \A k \in (start + 1)..Len(r[c]) : r[c][k] = 0
      /\ Len(chunks) <= c
      /\ \A j \in 1..Len(chunks) : r[j] = chunks[j]
      /\ \A i \in 1..Len(pointers) :
           pointers[i].chunk = c => pointers[i].shift + pointers[i].len <= start
  BY RoomAtStart
<1>2. /\ chunks' = [r EXCEPT ![c] = w]
      /\ pointers' = Append(pointers, p)
      /\ position' = start + size
      /\ pushed' = Append(pushed, size)
  BY DEF Push, Advanced
<1>3. /\ chunks \in Seq(Seq(Nat)) /\ pointers \in Seq(Pointer)
      /\ pushed \in Seq(Nat) /\ Len(pointers) = Len(pushed) /\ n \in Nat
  BY DEF PoolInv, TypeOK
<1>4. p \in Pointer /\ p.chunk = c /\ p.shift = start /\ p.len = size
  BY <1>0, <1>1 DEF Pointer
<1>5. r[c] \in Seq(Nat) /\ Len(r[c]) \in Nat
  BY <1>1
<1>6. /\ w \in Seq(Nat) /\ Len(w) = Len(r[c])
      /\ \A k \in 1..Len(w) : w[k] = IF k \in (start + 1)..(start + size) THEN n ELSE r[c][k]
  BY <1>3, <1>5 DEF Written
<1>c. c = Len(r) /\ c \in 1..Len(r)
  BY <1>1
<1> HIDE DEF r, c, start, w, p
<1>s. start \in Nat /\ start + size <= Len(w) /\ Len(w) \in Nat
  BY <1>1, <1>5, <1>6
<1>7. /\ chunks' \in Seq(Seq(Nat)) /\ Len(chunks') = c /\ chunks'[c] = w
      /\ \A j \in 1..c : j # c => chunks'[j] = r[j]
  <2>1. r \in Seq(Seq(Nat)) /\ w \in Seq(Nat)
    BY <1>1, <1>6
  <2> QED
    BY <2>1, <1>2, <1>c
<1>8. /\ pointers' \in Seq(Pointer) /\ Len(pointers') = n /\ pointers'[n] = p
      /\ \A i \in 1..Len(pointers) : pointers'[i] = pointers[i]
  BY <1>2, <1>3, <1>4
<1>9. /\ pushed' \in Seq(Nat) /\ Len(pushed') = n /\ pushed'[n] = size
      /\ \A i \in 1..Len(pushed) : pushed'[i] = pushed[i]
  BY <1>0, <1>2, <1>3
<1>10. \A i \in 1..Len(pointers) :
         /\ pointers[i] \in Pointer
         /\ pointers[i].chunk \in 1..c /\ pointers[i].shift \in Nat /\ pointers[i].len \in Nat
         /\ pointers[i].shift + pointers[i].len <= Len(r[pointers[i].chunk])
         /\ \A k \in 1..pointers[i].len : r[pointers[i].chunk][pointers[i].shift + k] = i
  <2> SUFFICES ASSUME NEW i \in 1..Len(pointers)
               PROVE  /\ pointers[i] \in Pointer
                      /\ pointers[i].chunk \in 1..c
                      /\ pointers[i].shift \in Nat /\ pointers[i].len \in Nat
                      /\ pointers[i].shift + pointers[i].len <= Len(r[pointers[i].chunk])
                      /\ \A k \in 1..pointers[i].len :
                           r[pointers[i].chunk][pointers[i].shift + k] = i
    OBVIOUS
  <2>1. pointers[i] \in Pointer
    BY <1>3
  <2>2. pointers[i].shift \in Nat /\ pointers[i].len \in Nat
    BY <2>1 DEF Pointer
  <2>3. /\ pointers[i].chunk \in 1..Len(chunks)
        /\ pointers[i].shift + pointers[i].len <= Len(chunks[pointers[i].chunk])
        /\ \A k \in 1..pointers[i].len :
             chunks[pointers[i].chunk][pointers[i].shift + k] = i
    BY DEF PoolInv, InBounds, GetReturnsPushed
  <2>4. r[pointers[i].chunk] = chunks[pointers[i].chunk]
    BY <2>3, <1>1
  <2>5. pointers[i].chunk \in 1..c
    <3>1. c \in Nat /\ Len(chunks) <= c /\ Len(chunks) \in Nat
      BY <1>1, <1>3
    <3> QED
      BY <2>3, <3>1
  <2> QED
    BY <2>1, <2>2, <2>3, <2>4, <2>5
<1>11. \A i \in 1..n : i = n \/ i \in 1..Len(pointers)
  BY <1>3
<1>12. TypeOK'
  BY <1>0, <1>1, <1>2, <1>7, <1>8, <1>9 DEF TypeOK
<1>13. InBounds'
  <2> SUFFICES ASSUME NEW i \in 1..n
               PROVE  /\ pointers'[i].chunk \in 1..c
                      /\ pointers'[i].shift + pointers'[i].len <= Len(chunks'[pointers'[i].chunk])
    BY <1>7, <1>8 DEF InBounds
  <2>1. CASE i = n
    BY <2>1, <1>1, <1>4, <1>6, <1>7, <1>8
  <2>2. CASE i \in 1..Len(pointers)
    <3>1. Len(chunks'[pointers[i].chunk]) = Len(r[pointers[i].chunk])
      BY <2>2, <1>6, <1>7, <1>10
    <3> QED
      BY <2>2, <3>1, <1>8, <1>10
  <2> QED
    BY <2>1, <2>2, <1>11
<1>14. GetReturnsPushed'
  <2> SUFFICES ASSUME NEW i \in 1..n
               PROVE  /\ pointers'[i].len = pushed'[i]
                      /\ \A k \in 1..pointers'[i].len :
                           chunks'[pointers'[i].chunk][pointers'[i].shift + k] = i
    BY <1>8 DEF GetReturnsPushed
  <2>1. CASE i = n
    <3> SUFFICES ASSUME NEW k \in 1..size
                 PROVE  w[start + k] = n
      BY <2>1, <1>4, <1>7, <1>8, <1>9
    <3>1. start + k \in 1..Len(w) /\ start + k \in (start + 1)..(start + size)
      BY <1>0, <1>s
    <3> QED
      BY <3>1, <1>6
  <2>2. CASE i \in 1..Len(pointers)
    <3>1. pointers'[i] = pointers[i] /\ pointers[i].len = pushed'[i]
      BY <2>2, <1>3, <1>8, <1>9 DEF PoolInv, GetReturnsPushed
    <3> SUFFICES ASSUME NEW k \in 1..pointers[i].len
                 PROVE  chunks'[pointers[i].chunk][pointers[i].shift + k] = i
      BY <3>1
    <3>2. r[pointers[i].chunk][pointers[i].shift + k] = i
      BY <2>2, <1>10
    <3>3. CASE pointers[i].chunk # c
      BY <2>2, <3>2, <3>3, <1>7, <1>10
    <3>4. CASE pointers[i].chunk = c
      <4> DEFINE b == pointers[i].shift + k
      <4>1. pointers[i].shift \in Nat /\ pointers[i].len \in Nat
        BY <2>2, <1>10
      <4>2. pointers[i].shift + pointers[i].len <= start
        BY <2>2, <3>4, <1>1
      <4>3. b \in Nat /\ b >= 1 /\ b <= start
        BY <4>1, <4>2, <1>s
      <4>4. b \in 1..Len(w) /\ b \notin (start + 1)..(start + size)
        BY <4>3, <1>0, <1>s
      <4> QED
        BY <3>2, <3>4, <4>4, <1>6, <1>7
    <3> QED
      BY <3>3, <3>4
  <2> QED
    BY <2>1, <2>2, <1>11
<1>15. FreeIsZero'
  <2>1. (FreeSpace >= 0)'
    BY <1>0, <1>1, <1>2, <1>5, <1>6, <1>7 DEF FreeSpace
  <2>2. ASSUME NEW k \in (start + size + 1)..Len(w)
        PROVE  w[k] = 0
    BY <1>0, <1>1, <1>5, <1>6
  <2> QED
    BY <2>1, <2>2, <1>2, <1>7 DEF FreeIsZero
<1>16. PointersBelow'
  <2> SUFFICES ASSUME NEW i \in 1..n, pointers'[i].chunk = c
               PROVE  pointers'[i].shift + pointers'[i].len <= start + size
    BY <1>2, <1>7, <1>8 DEF PointersBelow
  <2>1. CASE i = n
    BY <2>1, <1>0, <1>1, <1>4, <1>8
  <2>2. CASE i \in 1..Len(pointers)
    <3>1. pointers'[i] = pointers[i] /\ pointers[i].shift + pointers[i].len <= start
      BY <2>2, <1>1, <1>8
    <3>2. pointers[i].shift \in Nat /\ pointers[i].len \in Nat
      BY <2>2, <1>10
    <3> QED
      BY <3>1, <3>2, <1>0, <1>s
  <2> QED
    BY <2>1, <2>2, <1>11
<1> QED
  BY <1>12, <1>13, <1>14, <1>15, <1>16 DEF PoolInv

(* The inductive invariant holds in every state of the pool.                 *)
THEOREM PoolInvariance == Spec => []PoolInv
<1>1. ASSUME chunks = <<>>, pointers = <<>>, position = 0, pushed = <<>>
      PROVE  PoolInv
  BY <1>1 DEF PoolInv, TypeOK, InBounds, GetReturnsPushed, FreeIsZero, PointersBelow
<1>2. Init => PoolInv
  BY <1>1 DEF Init
<1>3. PoolInv /\ [Next]_vars => PoolInv'
  <2> SUFFICES ASSUME PoolInv, [Next]_vars
               PROVE  PoolInv'
    OBVIOUS
  <2>1. ASSUME NEW size \in Sizes, Push(size)
        PROVE  PoolInv'
    BY <2>1, PushStep
  <2>2. CASE LoadFails
    BY <2>2 DEF LoadFails, PoolInv, TypeOK, InBounds, GetReturnsPushed, FreeIsZero,
                PointersBelow
  <2>3. CASE UNCHANGED vars
    BY <2>3 DEF vars, PoolInv, TypeOK, InBounds, GetReturnsPushed, FreeIsZero,
                PointersBelow, FreeSpace
  <2> QED
    BY <2>1, <2>2, <2>3 DEF Next
<1> QED
  BY <1>2, <1>3, PTL DEF Spec

(* The chunks and the pointers keep their types, and there is one pointer    *)
(* for every string that was put in.                                         *)
THEOREM PoolTypeCorrect == Spec => []TypeOK
<1>1. PoolInv => TypeOK
  BY DEF PoolInv
<1> QED
  BY <1>1, PoolInvariance, PTL

(* get and get_unchecked never read outside a chunk, for every capacity and  *)
(* every sequence of string lengths.                                         *)
THEOREM GetStaysInBounds == Spec => []InBounds
<1>1. PoolInv => InBounds
  BY DEF PoolInv
<1> QED
  BY <1>1, PoolInvariance, PTL

(* get(i) returns exactly the bytes that were put in as string i.            *)
THEOREM GetIsFaithful == Spec => []GetReturnsPushed
<1>1. PoolInv => GetReturnsPushed
  BY DEF PoolInv
<1> QED
  BY <1>1, PoolInvariance, PTL

(* allocate always returns a buffer of zeros.                                *)
THEOREM AllocatedIsZero == Spec => []FreeIsZero
<1>1. PoolInv => FreeIsZero
  BY DEF PoolInv
<1> QED
  BY <1>1, PoolInvariance, PTL
=============================================================================
