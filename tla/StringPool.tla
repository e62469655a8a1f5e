----------------------------- MODULE StringPool -----------------------------
(***************************************************************************)
(* StringPool (types/column/string_pool.rs), the storage of a String       *)
(* column: strings are packed into chunks of memory, and get reads them    *)
(* back through pointers without a bounds check.                           *)
(*                                                                         *)
(* A string is its number, and all its bytes carry that number, so that a  *)
(* byte that is overwritten, or read from the wrong place, shows; 0 is the *)
(* byte a new chunk is filled with.  Byte k of a chunk (from 0) is element *)
(* k + 1 of its sequence, and chunks are numbered from 1.                  *)
(***************************************************************************)
EXTENDS Integers, Sequences

CONSTANTS
  Capacity,    \* capacity: the number of strings expected
  AVG_STR_SIZE,
  Sizes,       \* lengths of the strings
  MaxStrings   \* bound: strings in the pool

ASSUME PoolAssumption ==
  /\ Capacity \in Nat /\ AVG_STR_SIZE \in Nat /\ MaxStrings \in Nat
  /\ Sizes \subseteq Nat

VARIABLES
  chunks,     \* self.chunks
  pointers,   \* self.pointers
  position,   \* self.position, where the free space of the last chunk starts
  pushed      \* history: the lengths of the strings that were put in

vars == <<chunks, pointers, position, pushed>>

\* with_capacity
Init == chunks = <<>> /\ pointers = <<>> /\ position = 0 /\ pushed = <<>>

-----------------------------------------------------------------------------
FreeSpace == IF chunks = <<>> THEN 0 ELSE Len(chunks[Len(chunks)]) - position

FitsOneMore(size) == chunks # <<>> /\ FreeSpace + 1 >= size

\* allocate goes on without reserve.
Fits(size) == chunks # <<>> /\ FreeSpace >= size

\* The length of the chunk that reserve adds.
ChunkSize(size) ==
  IF Capacity * AVG_STR_SIZE >= size THEN Capacity * AVG_STR_SIZE ELSE size

StartKept(size) == position

\* Where try_allocate puts a string: reserve has set position to 0.
Start(size) == IF Fits(size) THEN position ELSE 0

AdvancedShort(size) == IF size > 0 THEN Start(size) + size - 1 ELSE Start(size)

AdvancedBack(size) == Start(size) - size

\* self.position += size
Advanced(size) == Start(size) + size

\* The chunks after reserve, if it is called.
Reserved(size) ==
  IF Fits(size) THEN chunks ELSE Append(chunks, [i \in 1..ChunkSize(size) |-> 0])

\* A chunk after string n of the given size has been written at start.
Written(chunk, start, size, n) ==
  [i \in 1..Len(chunk) |-> IF i \in (start + 1)..(start + size) THEN n ELSE chunk[i]]

\* allocate, and the caller copies the string into the buffer it returns: push,
\* From<Vec<T>> and read_str_into_buffer.
Push(size) ==
  /\ Len(pushed) < MaxStrings
  /\ LET c == Len(Reserved(size)) IN
       /\ chunks' = [Reserved(size) EXCEPT ![c] =
                       Written(Reserved(size)[c], Start(size), size, Len(pushed) + 1)]
       /\ pointers' = Append(pointers, [chunk |-> c, shift |-> Start(size), len |-> size])
  /\ position' = Advanced(size)
  /\ pushed' = Append(pushed, size)

\* read_bytes of read_str_into_buffer fails: load returns the error, the pool
\* is dropped, and the parse of the packet starts again with a new one.
LoadFails ==
  /\ pushed # <<>>
  /\ chunks' = <<>> /\ pointers' = <<>> /\ position' = 0 /\ pushed' = <<>>

Next == (\E size \in Sizes : Push(size)) \/ LoadFails

Spec == Init /\ [][Next]_vars

-----------------------------------------------------------------------------
Pointer == [chunk : Nat \ {0}, shift : Nat, len : Nat]

TypeOK ==
  /\ chunks \in Seq(Seq(Nat))
  /\ pointers \in Seq(Pointer)
  /\ position \in Nat
  /\ pushed \in Seq(Nat)
  /\ Len(pointers) = Len(pushed)

(* get_by_pointer stays inside the chunk: every pointer that get, which does  *)
(* not check, may follow lies within the memory of a chunk that exists.       *)
InBounds ==
  \A i \in 1..Len(pointers) :
    /\ pointers[i].chunk \in 1..Len(chunks)
    /\ pointers[i].shift + pointers[i].len <= Len(chunks[pointers[i].chunk])

(* get(i) returns string i as it was put in, all its bytes and no other       *)
(* string's, whatever was put in after it and however the chunks filled up.   *)
GetReturnsPushed ==
  \A i \in 1..Len(pointers) :
    /\ pointers[i].len = pushed[i]
    /\ \A k \in 1..pointers[i].len :
         chunks[pointers[i].chunk][pointers[i].shift + k] = i

(* The buffer that allocate returns next is zero, as test_allocate asserts:   *)
(* no string reaches into the free space of the last chunk.                   *)
FreeIsZero ==
  chunks # <<>> =>
    /\ FreeSpace >= 0
    /\ \A k \in (position + 1)..Len(chunks[Len(chunks)]) : chunks[Len(chunks)][k] = 0

\* Strings in the last chunk end before its free space.
PointersBelow ==
  \A i \in 1..Len(pointers) :
    pointers[i].chunk = Len(chunks) => pointers[i].shift + pointers[i].len <= position

\* The inductive invariant of module StringPoolProofs.
PoolInv == TypeOK /\ InBounds /\ GetReturnsPushed /\ FreeIsZero /\ PointersBelow
=============================================================================
