------------------------------ MODULE Uvarint -------------------------------
(***************************************************************************)
(* Varints: read_uvarint of read_ex.rs and put_uvarint of uvarint.rs, pass *)
(* by pass of their loops.  A byte of a varint carries DigitBits bits of   *)
(* the number, lowest first, and a continuation bit.                       *)
(*                                                                         *)
(* A reader takes buf from position pos and returns "ok" with a value and  *)
(* the new position, "block" (io::ErrorKind::WouldBlock: buf ends too      *)
(* early), "err", or "panic".                                              *)
(***************************************************************************)
EXTENDS Integers, Sequences

CONSTANTS
  DigitBits,   \* 7: payload bits of a varint byte
  WordBits,    \* 64: bits of u64
  LastIndex,   \* 9: index of the last byte of the longest varint
  Release,     \* TRUE: a build without overflow checks masks shift amounts
  WordOr(_, _) \* `|` of two words

\* 2^n (a function that the provers know by its equations)
Pow2[n \in Nat] == IF n = 0 THEN 1 ELSE 2 * Pow2[n - 1]

Radix == Pow2[DigitBits]    \* 0x80: the continuation bit
Word == Pow2[WordBits]

\* The last byte of the longest varint carries one bit of a word, and `|` of
\* words that have no bit in common is their sum.
ASSUME UvarintAssumption ==
  /\ DigitBits \in Nat \ {0} /\ WordBits \in Nat \ {0} /\ LastIndex \in Nat
  /\ WordBits = DigitBits * LastIndex + 1
  /\ Release \in BOOLEAN
  /\ \A x, y \in 0..(Word - 1) : WordOr(x, y) \in 0..(Word - 1)
  /\ \A s \in 0..WordBits : \A x \in 0..(Pow2[s] - 1), y \in 0..(Word - 1) :
       y * Pow2[s] < Word => WordOr(x, y * Pow2[s]) = x + y * Pow2[s]

Ok(v, p) == [st |-> "ok", val |-> v, pos |-> p]
Fault(s) == [st |-> s, val |-> <<>>, pos |-> 0]

-----------------------------------------------------------------------------
(* read_uvarint *)

\* u64::from(b) << s
Shl(b, s) == (b * Pow2[IF s < WordBits THEN s ELSE s % WordBits]) % Word

OverflowsUnchecked(i, b) == FALSE

\* The only overflow the reader detects.
Overflows(i, b) == i = LastIndex /\ b > 1

\* A build with overflow checks panics at a shift by the width of a word.
ShiftPanics(s) == s >= WordBits /\ ~Release

\* The passes of the loop that go on: over the bytes with a continuation bit.
GoesOn(buf, pos, n) ==
  /\ \A i \in 1..n : buf[pos + i] >= Radix
  /\ pos + n < Len(buf) => buf[pos + n + 1] < Radix

PassesOn(buf, pos) == CHOOSE n \in 0..(Len(buf) - pos) : GoesOn(buf, pos, n)

\* x after n of them
Gathered(buf, pos, n) ==
  LET x[i \in 0..n] ==
        IF i = 0 THEN 0 ELSE WordOr(x[i - 1], Shl(buf[pos + i] % Radix, DigitBits * (i - 1)))
  IN  x[n]

\* The pass that returns: byte n of the varint is b and x has been gathered.
LastPass(x, n, b, pos) ==
  IF Overflows(n, b) THEN Fault("err")
  ELSE IF ShiftPanics(DigitBits * n) THEN Fault("panic")
  ELSE Ok(WordOr(x, Shl(b, DigitBits * n)), pos + n + 1)

ZeroAtEnd(x, pos) == Ok(x, pos)

\* read_scalar at the end of the buffer
OutOfBytes(x, pos) == Fault("block")

ReadUvarint(buf, pos) ==
  LET n == PassesOn(buf, pos)
      x == Gathered(buf, pos, n)
  IN  IF n > 0 /\ ShiftPanics(DigitBits * (n - 1)) THEN Fault("panic")
      ELSE IF pos + n = Len(buf) THEN OutOfBytes(x, pos)
      ELSE LastPass(x, n, buf[pos + n + 1], pos)

-----------------------------------------------------------------------------
(* put_uvarint *)

\* `mx > 0x80`
ContinuesLate(mx) == mx > Radix

\* `while mx >= 0x80`
Continues(mx) == mx >= Radix

\* mx after i passes: each shifts it by DigitBits bits
Mx(x, i) == x \div Pow2[DigitBits * i]

\* The passes of the loop; the buffer has room for one byte more.
Passes(x) ==
  CHOOSE n \in 0..LastIndex : ~Continues(Mx(x, n)) /\ \A i \in 0..(n - 1) : Continues(Mx(x, i))

PutUvarint(x) ==
  LET n == Passes(x)
  IN  [i \in 1..(n + 1) |-> IF i <= n THEN Radix + (Mx(x, i - 1) % Radix) ELSE Mx(x, i - 1)]
=============================================================================
