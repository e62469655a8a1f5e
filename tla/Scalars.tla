------------------------------ MODULE Scalars ------------------------------
(***************************************************************************)
(* Integers of a fixed width, decimals and times as columns store them.    *)
(*                                                                         *)
(* Widths are scaled down.  A byte has eight values; a u16 has one byte,   *)
(* i32 and u32 two, i64 four, so that an i32 holds -32..31 and an i64      *)
(* -2048..2047.  As in the code, powers of ten fit with little to spare:   *)
(* 1 digit into an i32 (9 there) and 3 into an i64 (18 there).  A second   *)
(* has 10^NanoDigits nanoseconds and a day DaySeconds seconds.  Arithmetic *)
(* wraps, as in a release build.                                           *)
(***************************************************************************)
EXTENDS Integers, Sequences, SequencesExt

CONSTANT TzOffset   \* seconds by which the time zone of the values is ahead of UTC

ByteValues == 8
U16 == 1
U32 == 2
I32 == 2
I64 == 4
DigitsOfI32 == 1
DigitsOfI64 == 3
NanoDigits == 2
DaySeconds == 3

ASSUME ScalarsAssumption == TzOffset \in (1 - DaySeconds)..(DaySeconds - 1)

\* n as w bytes, least significant byte first, and what bytes denote.
IntBytes(n, w) == [i \in 1..w |-> (n \div ByteValues^(i - 1)) % ByteValues]

Unsigned(bs) == FoldRight(LAMBDA b, acc : b + ByteValues * acc, bs, 0)

Signed(bs) ==
  IF bs # <<>> /\ 2 * Last(bs) >= ByteValues THEN Unsigned(bs) - ByteValues^Len(bs) ELSE Unsigned(bs)

\* `as` between integers of different width
AsWidth(bs, w) == IntBytes(Signed(bs), w)

\* The division of the language: the quotient is rounded towards zero.
Quot(a, b) == IF a >= 0 THEN a \div b ELSE -((-a) \div b)

-----------------------------------------------------------------------------
(* Decimal *)

\* NoBits::from_precision, as a width
NoBits(precision) == IF precision <= DigitsOfI32 THEN I32 ELSE I64

\* A loss of digits rounds down.
ScaleFloored(underlying, scale, to) ==
  CASE to < scale -> underlying \div 10^(scale - to)
    [] to = scale -> underlying
    [] to > scale -> underlying * 10^(to - scale)

\* Decimal::set_scale of an underlying number
SetScale(underlying, scale, to) ==
  CASE to < scale -> Quot(underlying, 10^(scale - to))
    [] to = scale -> underlying
    [] to > scale -> underlying * 10^(to - scale)

-----------------------------------------------------------------------------
(* Times, in nanoseconds since 1970, and the panic of tz.timestamp. *)

NoTime == [panic |-> "invalid or out-of-range datetime"]
Time(nanos) == [nanos |-> nanos]

Second == 10^NanoDigits

\* DateTime::timestamp, of chrono: the second in which the time is
Timestamp(time) == time.nanos \div Second

\* from_datetime
FromDatetime(time, precision) == Quot(time.nanos, 10^(NanoDigits - precision))

\* to_datetime: value in nanoseconds
NanosOf(value, precision) == Signed(IntBytes(value * 10^(NanoDigits - precision), I64))

\* to_datetime.  A negative rest becomes a u32 that tz.timestamp rejects.
ToDatetime(value, precision) ==
  LET nano == NanosOf(value, precision)
      sec == Quot(nano, Second)
      nsec == nano - sec * Second
  IN  IF nsec < 0 THEN NoTime ELSE Time(sec * Second + nsec)

\* tz.timestamp(days * 24 * 3600, 0).date(), as a number of days: the date
\* that a clock in the time zone shows at midnight UTC.
LocalDay(days) == (days * DaySeconds + TzOffset) \div DaySeconds
=============================================================================
