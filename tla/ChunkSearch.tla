---------------------------- MODULE ChunkSearch -----------------------------
(***************************************************************************)
(* The binary search of find_chunk (concat.rs) for the part of a           *)
(* concatenated column that holds a row, as the passes of its loop.  index *)
(* is the result of build_index: where each part begins, and at last where *)
(* the last one ends.  The code counts from 0, sequences from 1.           *)
(***************************************************************************)
EXTENDS Integers, Sequences

\* build_index, as the equations it solves: it begins with 0 and adds one size
\* after the other.
BuiltFrom(index, sizes) ==
  /\ sizes \in Seq(Nat) /\ index \in Seq(Nat) /\ Len(index) = Len(sizes) + 1
  /\ index[1] = 0 /\ \A i \in 1..Len(sizes) : index[i + 1] = index[i] + sizes[i]

\* The variables of the loop, and the result: 0 if the loop ends by itself.
Start(index) == [lo |-> 0, hi |-> Len(index) - 1, done |-> FALSE, chunk |-> 0]

Looping(s) == ~s.done /\ s.lo < s.hi

Mid(s) == s.lo + (s.hi - s.lo) \div 2

\* `ix > index[mid + 1]`
BeyondLate(index, ix, mid) == ix > index[mid + 2]

Beyond(index, ix, mid) == ix >= index[mid + 2]

\* One pass: skip an empty part, halve what is left, or return.
Narrow(index, ix, s) ==
  IF index[s.lo + 1] = index[s.lo + 2] THEN [s EXCEPT !.lo = s.lo + 1]
  ELSE IF ix < index[Mid(s) + 1] THEN [s EXCEPT !.hi = Mid(s)]
  ELSE IF Beyond(index, ix, Mid(s)) THEN [s EXCEPT !.lo = Mid(s) + 1]
  ELSE [s EXCEPT !.done = TRUE, !.chunk = Mid(s)]
=============================================================================
