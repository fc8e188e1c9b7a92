----------------------------- MODULE RowCodec -----------------------------
(***************************************************************************)
(* Values, their textual form and rows of them as bytes: common/datatypes,  *)
(* core/row_builder, core/row_reader and the checks of TableHandle.         *)
(*                                                                          *)
(* A byte is a number below Base and a string a sequence of bytes; a value  *)
(* is [type, value].  A text is what a query contains: its characters, the  *)
(* number they all together write in decimal, if any, and whether it has a  *)
(* minus sign in front.  F64, which differs from the other numbers in its   *)
(* texts and in NaN, is left out.                                           *)
(***************************************************************************)
EXTENDS RowLists, Sequences, SequencesExt

CONSTANTS
  Base,          \* 2^8
  LengthBytes,   \* sizeof(String::length_t)
  Width,         \* Width[t]: sizeof(value) of the fixed width type t
  NotANumber     \* a text that from_chars does not read to its end

TypeIds == {"I32", "String", "U32", "I64"}
Signed == {"I32", "I64"}

ASSUME CodecAssumption ==
  /\ Base \in Nat \ {0, 1} /\ LengthBytes \in Nat \ {0}
  /\ Width \in [TypeIds \ {"String"} -> Nat \ {0}]
  /\ NotANumber \notin Int

\* What a function that can fail returns instead of a value.
Invalid == [type |-> "invalid", value |-> 0]
IsValid(v) == v.type \in TypeIds

\* How many numbers there are in w bytes: Base ^ w.
Power[w \in Nat] == IF w = 0 THEN 1 ELSE Base * Power[w - 1]

\* std::numeric_limits<length_t>::max()
MaxLength == Power[LengthBytes] - 1

\* The numbers of a fixed width type.
InRange(t, n) ==
  LET numbers == Power[Width[t]] IN
    IF t \in Signed THEN -(numbers \div 2) <= n /\ n < numbers \div 2
                    ELSE 0 <= n /\ n < numbers

\* from_string of the number types: the whole text is a number that std::from_chars
\* takes for the type (no minus sign for an unsigned one, "-0" included), and it fits.
NumberFromString(t, text) ==
  IF text.number # NotANumber /\ InRange(t, text.number) /\ (text.minus => t \in Signed)
  THEN [type |-> t, value |-> text.number] ELSE Invalid

\* String::from_string.
StringFromString(text) ==
  IF Len(text.chars) <= MaxLength THEN [type |-> "String", value |-> text.chars] ELSE Invalid

\* from_string of the type asked for.
ValueFromString(t, text) ==
  IF t = "String" THEN StringFromString(text) ELSE NumberFromString(t, text)

\* The texts of a query, and the objects of the value types.
IsText(text) ==
  /\ text.chars \in Seq(0 .. Base - 1)
  /\ text.number \in Int \cup {NotANumber} /\ text.minus \in BOOLEAN
IsValue(v) ==
  /\ v = [type |-> v.type, value |-> v.value]
  /\ \/ v.type = "String" /\ v.value \in Seq(0 .. Base - 1)
     \/ v.type \in TypeIds \ {"String"} /\ v.value \in Int /\ InRange(v.type, v.value)

-----------------------------------------------------------------------------
(* Bytes of a value. *)

\* The native representation of n in w bytes, the low one first.
FixedToBytes(n, w) == [i \in 1 .. w |-> (n \div Power[i - 1]) % Base]

\* The number in bytes b.
Unsigned(b) ==
  LET low[i \in 0 .. Len(b)] == IF i = 0 THEN 0 ELSE low[i - 1] + b[i] * Power[i - 1]
  IN low[Len(b)]
FixedFromBytes(t, b) ==
  LET n == Unsigned(b) IN
    IF InRange(t, n) THEN n ELSE n - Power[Width[t]]

\* to_bytes can fail: a string has its length in front.
Encodable(v) == v.type = "String" => Len(v.value) <= MaxLength
ToBytes(v) ==
  IF v.type = "String" THEN FixedToBytes(Len(v.value), LengthBytes) \o v.value
                       ELSE FixedToBytes(v.value, Width[v.type])

-----------------------------------------------------------------------------
(* Rows. *)

\* TableHandle::BuildRow throws unless count, types and lengths are right.
Buildable(values, schema) ==
  /\ Len(values) = Len(schema)
  /\ \A i \in DOMAIN values : values[i].type = schema[i].type /\ Encodable(values[i])

\* TableHandle::BuildRow, RowBuilder::Push: the values one after the other.
BuildRow(values) == FlattenSeq([i \in DOMAIN values |-> ToBytes(values[i])])

\* n bytes from an offset, counted from 0; zeros behind the end.
Bytes(row, offset, n) ==
  [i \in 1 .. n |-> IF offset + i <= Len(row) THEN row[offset + i] ELSE 0]

\* String::serialized_size(buffer): the prefix and the length in it.
StringSize(row, offset) == LengthBytes + Unsigned(Bytes(row, offset, LengthBytes))

\* RowReader::SizeAt.
SizeAt(t, row, offset) == IF t = "String" THEN StringSize(row, offset) ELSE Width[t]

\* RowReader::CalculateOffset: the sizes of the fields in front.
CalculateOffset(row, schema, pos) ==
  LET offset[i \in 1 .. pos] ==
        IF i = 1 THEN 0 ELSE offset[i - 1] + SizeAt(schema[i - 1].type, row, offset[i - 1])
  IN offset[pos]

\* RowReader::GetSize.
GetSize(row, schema, pos) == SizeAt(schema[pos].type, row, CalculateOffset(row, schema, pos))

\* String::from_bytes of exactly the bytes of a string.
StringFromBytes(b) == SubSeq(b, LengthBytes + 1, Len(b))

\* RowReader::Get and GetValue; a field that reaches behind the end of the row fails an
\* assertion.
GetValue(row, schema, pos) ==
  LET t == schema[pos].type
      offset == CalculateOffset(row, schema, pos)
      size == GetSize(row, schema, pos)
      field == Bytes(row, offset, size)
  IN IF offset + size > Len(row) THEN Invalid
     ELSE [type |-> t,
           value |-> IF t = "String" THEN StringFromBytes(field)
                                     ELSE FixedFromBytes(t, field)]

\* All values of a row, as ResultPrinter reads them.
GetValues(row, schema) == [pos \in DOMAIN schema |-> GetValue(row, schema, pos)]
=============================================================================
