------------------------------ MODULE SqlTypes ------------------------------
(***************************************************************************)
(* SqlType, the names under which types are on the wire                    *)
(* (SqlType::to_string) and the parsers that column/factory.rs reads them  *)
(* with, one constructor at a time.                                        *)
(*                                                                         *)
(* A type is the sequence of its constructors, outermost first.  A name is *)
(* a sequence of tokens: words, marks and numbers, and the characters      *)
(* between quotes.  Spaces and the case of letters are left out.  Num(w)   *)
(* stands for the number types of that width.  Widths in bytes are scaled  *)
(* down as in Scalars.                                                     *)
(***************************************************************************)
EXTENDS Scalars, FiniteSetsExt

(* SqlType *)
Num(w) == [k |-> "num", w |-> w]        \* UInt8 .. Float64, VectorColumnData
Ipv4 == [k |-> "ipv4", w |-> 2]
Ipv6 == [k |-> "ipv6", w |-> 2]
Uuid == [k |-> "uuid", w |-> 4]
FixedString(n) == [k |-> "fixed", w |-> n]
Decimal(p, s) == [k |-> "decimal", w |-> NoBits(p), p |-> p, s |-> s]
Enum8(values) == [k |-> "enum", w |-> 1, values |-> values]    \* a sequence of
Enum16(values) == [k |-> "enum", w |-> 2, values |-> values]   \* <<name, number>>
Date == [k |-> "date", w |-> U16]
DateTime == [k |-> "datetime", w |-> U32]                    \* DateTime32
DateTime64(p) == [k |-> "datetime64", w |-> I64, p |-> p]
Chrono == [k |-> "chrono"]                                   \* ChronoDateTimeColumnData
Str == [k |-> "string"]
Nullable == [k |-> "nullable"]
Array == [k |-> "array"]

IpKinds == {"ipv4", "ipv6", "uuid"}
TimeKinds == {"datetime", "datetime64", "chrono"}            \* SqlType::is_datetime
FlatKinds == IpKinds \cup {"num", "fixed", "decimal", "enum", "date", "datetime", "datetime64"}

-----------------------------------------------------------------------------
(* Tokens *)

Mark == [open |-> 801, close |-> 802, comma |-> 803, equals |-> 804, quote |-> 805, backslash |-> 806]

Word == [Nullable |-> 811, Array |-> 812, FixedString |-> 813, Decimal |-> 814, Decimal32 |-> 815,
         Decimal64 |-> 816, Enum8 |-> 817, Enum16 |-> 818, DateTime64 |-> 819]

\* The names of one word, and some of the aliases of load_data: TinyInt,
\* SmallInt, Varchar and Timestamp for the first four.
SimpleTypes == <<Num(1), Num(2), Str, DateTime, Date, Ipv4, Ipv6, Uuid>>
Simple(i) == 820 + i
Alias(i) == 830 + i

SimpleType ==
  [c \in {Simple(i) : i \in 1..8} \cup {Alias(i) : i \in 1..4} |-> SimpleTypes[c % 10]]

Zone == 840     \* the characters of the time zone's name

-----------------------------------------------------------------------------
(* SqlType::to_string *)

WithParams(word, params) == <<word, Mark.open>> \o params \o <<Mark.close>>

Quoted(chars) == <<Mark.quote>> \o chars \o <<Mark.quote>>

CommaSeparated(items) ==
  FlattenSeq([i \in DOMAIN items |-> IF i = 1 THEN items[1] ELSE <<Mark.comma>> \o items[i]])

\* Names are printed as they are, whatever characters they have.
EnumName(t) ==
  WithParams(IF t.w = 1 THEN Word.Enum8 ELSE Word.Enum16,
    CommaSeparated([i \in DOMAIN t.values |-> Quoted(t.values[i][1]) \o <<Mark.equals, t.values[i][2]>>]))

\* A Chrono column has the name of a DateTime.
LeafName(t) ==
  CASE t.k = "fixed" -> WithParams(Word.FixedString, <<t.w>>)
    [] t.k = "decimal" -> WithParams(Word.Decimal, <<t.p, Mark.comma, t.s>>)
    [] t.k = "enum" -> EnumName(t)
    [] t.k = "datetime64" -> WithParams(Word.DateTime64, <<t.p, Mark.comma>> \o Quoted(<<Zone>>))
    [] t.k = "chrono" -> <<Simple(4)>>
    [] OTHER -> <<Simple(CHOOSE i \in DOMAIN SimpleTypes : SimpleTypes[i] = t)>>

\* The name of a type around the name of its innermost constructor
Nested(type, leaf) ==
  FoldRight(LAMBDA t, name : WithParams(IF t = Nullable THEN Word.Nullable ELSE Word.Array, name),
            Front(type), leaf)

TypeName(type) == Nested(type, LeafName(Last(type)))

-----------------------------------------------------------------------------
(* The parsers: what each makes of a name, or NoType for None. *)

NoType == [k |-> "unsupported"]

\* What is between the first bracket and the last character.
InnerName(name) == SubSeq(name, 3, Len(name) - 1)

ParseNullable(name) == IF InnerName(name)[1] = Word.Nullable THEN NoType ELSE Nullable

\* A token that digits are
IsNumber(token) == token < Mark.open

ParseFixedString(name) == IF Len(name) = 4 /\ IsNumber(name[3]) THEN FixedString(name[3]) ELSE NoType

ParseDecimal(name) ==
  LET params == InnerName(name) IN
  CASE name[1] = Word.Decimal /\ Len(params) = 3 /\ params[3] <= params[1] /\ params[1] <= DigitsOfI64 ->
         Decimal(params[1], params[3])
    [] name[1] = Word.Decimal32 /\ Len(params) = 1 -> Decimal(DigitsOfI32, params[1])
    [] name[1] = Word.Decimal64 /\ Len(params) = 1 -> Decimal(DigitsOfI64, params[1])
    [] OTHER -> NoType

\* The characters up to the next quote that no backslash precedes.
RECURSIVE ReadWord(_, _)
ReadWord(done, chars) ==
  CASE chars = <<>> \/ chars = <<Mark.backslash>> -> [ok |-> FALSE, chars |-> <<>>, rest |-> <<>>]
    [] chars # <<>> /\ Head(chars) = Mark.quote -> [ok |-> TRUE, chars |-> done, rest |-> Tail(chars)]
    [] Len(chars) > 1 /\ Head(chars) = Mark.backslash ->
         ReadWord(Append(done, chars[2]), SubSeq(chars, 3, Len(chars)))
    [] OTHER -> ReadWord(Append(done, Head(chars)), Tail(chars))

\* A number that i16 holds
IsI16(n) == Signed(IntBytes(n, 2)) = n

\* One or more pairs, commas between them, and the bracket that ends the
\* name; <<>> if the name is anything else.
RECURSIVE ReadPairs(_, _)

\* The rest of a pair behind its word, and what follows the pair
AfterWord(done, word) ==
  LET pairs == Append(done, <<word.chars, word.rest[2]>>)
  IN  IF ~word.ok \/ Len(word.rest) < 3 \/ word.rest[1] # Mark.equals \/ ~IsI16(word.rest[2]) THEN <<>>
      ELSE CASE SubSeq(word.rest, 3, Len(word.rest)) = <<Mark.close>> -> pairs
             [] word.rest[3] = Mark.comma -> ReadPairs(pairs, SubSeq(word.rest, 4, Len(word.rest)))
             [] OTHER -> <<>>

ReadPairs(done, name) ==
  IF name = <<>> \/ Head(name) # Mark.quote THEN <<>> ELSE AfterWord(done, ReadWord(<<>>, Tail(name)))

\* parse_enum8 reads the numbers as i16, too, and cuts them to i8.
EnumOf(word, pairs) ==
  CASE pairs = <<>> -> NoType
    [] pairs # <<>> /\ word = Word.Enum16 -> Enum16(pairs)
    [] OTHER -> Enum8([i \in DOMAIN pairs |-> <<pairs[i][1], Signed(IntBytes(pairs[i][2], 1))>>])

ParseEnum(name) == EnumOf(name[1], ReadPairs(<<>>, SubSeq(name, 3, Len(name))))

\* With or without a time zone; get_timezone fails if it is not the name of one.
ParseDateTime64(name) ==
  CASE Len(name) = 4 -> DateTime64(name[3])
    [] Len(name) > 5 /\ name[4] = Mark.comma /\ name[5] = Mark.quote ->
         LET zone == ReadWord(<<>>, SubSeq(name, 6, Len(name)))
         IN  IF zone.ok /\ zone.rest = <<Mark.close>> /\ zone.chars = <<Zone>>
             THEN DateTime64(name[3]) ELSE NoType
    [] OTHER -> NoType

\* The outermost constructor of a name, as load_data finds it.
Constructor(name) ==
  LET word == IF name = <<>> THEN 0 ELSE Head(name) IN
  CASE Len(name) = 1 /\ word \in DOMAIN SimpleType -> SimpleType[word]
    [] word = Word.Nullable -> ParseNullable(name)
    [] word = Word.FixedString -> ParseFixedString(name)
    [] word = Word.Array -> Array
    [] word \in {Word.Decimal, Word.Decimal32, Word.Decimal64} -> ParseDecimal(name)
    [] word \in {Word.Enum8, Word.Enum16} -> ParseEnum(name)
    [] word = Word.DateTime64 -> ParseDateTime64(name)
    [] OTHER -> NoType
=============================================================================
