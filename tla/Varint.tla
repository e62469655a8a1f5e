------------------------------- MODULE Varint -------------------------------
(***************************************************************************)
(* read_uvarint against the arithmetic it stands for.  The bytes of a      *)
(* varint arrive one at a time and the buffer is read again from its start *)
(* each time, as read_packet does.                                         *)
(***************************************************************************)
EXTENDS Uvarint

CONSTANT MaxBytes   \* bound: bytes that arrive

VARIABLES
  bytes,   \* the bytes that have arrived
  result   \* what read_uvarint returns for them

vars == <<bytes, result>>

Init == bytes = <<>> /\ result = ReadUvarint(<<>>, 0)

Arrive(b) ==
  /\ Len(bytes) < MaxBytes
  /\ bytes' = Append(bytes, b)
  /\ result' = ReadUvarint(bytes', 0)

Next ==
  \/ \E b \in 0..(2 * Radix - 1) : Arrive(b)
  \/ Len(bytes) = MaxBytes /\ UNCHANGED vars

Spec == Init /\ [][Next]_vars

-----------------------------------------------------------------------------
\* The last byte of the varint at the start of bytes: the first one without a
\* continuation bit; 0 if it has not arrived.
LastByte ==
  LET ends == {n \in 1..Len(bytes) : bytes[n] < Radix}
  IN  IF ends = {} THEN 0 ELSE CHOOSE n \in ends : \A m \in ends : n <= m

\* The number that the first n bytes denote: digits of DigitBits bits, lowest
\* first.
Denoted(n) ==
  LET sum[k \in 0..n] ==
        IF k = 0 THEN 0 ELSE sum[k - 1] + (bytes[k] % Radix) * Pow2[DigitBits * (k - 1)]
  IN  sum[n]

Value == Denoted(LastByte)

(* read_uvarint of at most ten bytes is the number they denote, read to its   *)
(* last byte and not beyond it; it overflows exactly when the number does not *)
(* fit u64, and it waits exactly while the last byte is missing.  A build     *)
(* with overflow checks panics at the eleventh byte.                          *)
ExactUpToTen ==
  LastByte <= LastIndex + 1 =>
    result = CASE LastByte = 0 /\ (Release \/ Len(bytes) <= LastIndex + 1) -> Fault("block")
               [] LastByte = 0 /\ ~Release /\ Len(bytes) > LastIndex + 1 -> Fault("panic")
               [] LastByte > 0 /\ Value >= Word -> Fault("err")
               [] LastByte > 0 /\ Value < Word -> Ok(Value, LastByte)

(* Bytes that arrive after a varint is complete never change how it is read.  *)
Stable == [][result.st = "ok" => result' = result]_vars

(* put_uvarint writes for every u64 the bytes that read_uvarint takes, and no *)
(* longer ones: what is read from the shortest form is written back as it.    *)
RoundTrip ==
  result.st = "ok" /\ (LastByte > 1 => bytes[LastByte] # 0) /\ LastByte <= LastIndex + 1 =>
    PutUvarint(result.val) = SubSeq(bytes, 1, LastByte)
=============================================================================
