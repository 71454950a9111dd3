---------------------------- MODULE PayloadCodec ----------------------------
(***************************************************************************)
(* The binary codec of payloads (localcache-format/src/payload_codec): a   *)
(* value is written as its type directs, and read back from bytes that are *)
(* not trusted to be what was written.                                     *)
(*                                                                         *)
(* A type is a record [t, of]: its kind in the data model of serde and the *)
(* types inside it (of an enum, for each variant the types of its fields). *)
(* An optional, newtype or tuple value is the sequence of what is in it; a *)
(* sequence or map is [len, items], with the length its Serialize declares *)
(* (a map's items are pairs); an enum is [index, fields]; text is bytes.   *)
(***************************************************************************)
EXTENDS Integers, Sequences

CONSTANTS Base,        \* 256: a byte is below it
          LenBytes,    \* 8: of a length or a count
          IndexBytes,  \* 4: of the index of a variant
          IntBytes,    \* of an integer
          UsizeMax,    \* the largest length of this platform
          DepthLimit,  \* 128
          Utf8Width,   \* by first byte: the bytes of its character, or 0
          Chars,       \* the encoded characters
          Unknown,     \* the length of what does not know it
          Cases,       \* values to write: records [type, value]
          Types,       \* types to read ...
          Inputs,      \* ... from these bytes
          Tails,       \* bytes that may follow a value
          NoValue, NoResult

Byte == 0..Base - 1

ASSUME CodecAssumption ==
  /\ {Base, LenBytes, IndexBytes, IntBytes} \subseteq Nat \ {0}
  /\ {UsizeMax, DepthLimit} \subseteq Nat
  /\ Utf8Width \in [Byte -> 0..4]
  /\ \A c \in Chars : c \in Seq(Byte) /\ c # <<>> /\ Utf8Width[c[1]] = Len(c)
  /\ Inputs \cup Tails \subseteq Seq(Byte)
  /\ Unknown \notin Nat

VARIABLES step,    \* "writing", "refused", "stored" or "read"
          type,
          value,   \* what is written, or NoValue
          bytes,   \* what is stored
          result   \* of the reading, or NoResult

vars == <<step, type, value, bytes, result>>

-----------------------------------------------------------------------------
(* Little-endian numbers of a fixed width.                                 *)
ToLe(n, width) == [i \in 1..width |-> (n \div Base^(i - 1)) % Base]

RECURSIVE FromLe(_)
FromLe(b) == IF b = <<>> THEN 0 ELSE Head(b) + Base * FromLe(Tail(b))

RECURSIVE IsUtf8(_)
IsUtf8(b) == b = <<>> \/ \E n \in 1..Len(b) :
                           SubSeq(b, 1, n) \in Chars /\ IsUtf8(SubSeq(b, n + 1, Len(b)))

(* A map is written and read as a sequence of its pairs.                   *)
ElementOf(tp) == IF tp.t = "map" THEN [t |-> "pair", of |-> tp.of] ELSE tp.of[1]

-----------------------------------------------------------------------------
(* The encoder: bytes, or why there are none.                              *)
Written(b) == [ok |-> TRUE, out |-> b]
Refused(e) == [ok |-> FALSE, error |-> e]

After(prefix, w) == IF w.ok THEN Written(prefix \o w.out) ELSE w

(* A sequence or map must write as many items as it declared.              *)
Finish(v, w) == IF w.ok /\ v.len # Len(v.items) THEN Refused("LengthMismatch") ELSE w

EncodeScalar(tp, v) ==
  CASE tp.t = "bool"  -> Written(IF v THEN <<1>> ELSE <<0>>)
    [] tp.t = "int"   -> Written(ToLe(v, IntBytes))
    [] tp.t = "char"  -> Written(v)
    [] tp.t \in {"str", "bytes"} -> Written(ToLe(Len(v), LenBytes) \o v)
    [] tp.t = "unit"  -> Written(<<>>)

RECURSIVE Encode(_, _, _)

(* The items in their order.                                               *)
RECURSIVE EncodeEach(_, _, _)
EncodeEach(types, values, depth) ==
  IF types = <<>> THEN Written(<<>>)
  ELSE LET first == Encode(Head(types), Head(values), depth)
       IN  IF ~first.ok THEN first
           ELSE After(first.out, EncodeEach(Tail(types), Tail(values), depth))

(* Mutant: the writer admits one level more than the reader.               *)
EncodeInsideDeeper(types, values, depth) ==
  IF depth > DepthLimit THEN Refused("TooDeep") ELSE EncodeEach(types, values, depth + 1)

(* nested, or enter and leave: what is inside is one level deeper.         *)
EncodeInside(types, values, depth) ==
  IF depth >= DepthLimit THEN Refused("TooDeep") ELSE EncodeEach(types, values, depth + 1)

(* An untagged enum writes the value alone; a pair adds no level.          *)
Encode(tp, v, depth) ==
  CASE tp.t = "option" -> IF v = <<>> THEN Written(<<0>>)
                          ELSE After(<<1>>, EncodeInside(tp.of, v, depth))
    [] tp.t \in {"newtype", "tuple"} -> EncodeInside(tp.of, v, depth)
    [] tp.t \in {"seq", "map"} ->
         IF v.len = Unknown THEN Refused("UnknownLength")
         ELSE Finish(v, After(ToLe(v.len, LenBytes),
                EncodeInside([i \in DOMAIN v.items |-> ElementOf(tp)], v.items, depth)))
    [] tp.t = "enum" -> After(ToLe(v.index, IndexBytes),
                              EncodeInside(tp.of[v.index + 1], v.fields, depth))
    [] tp.t = "untagged" -> Encode(tp.of[1], v, depth)
    [] tp.t = "pair" -> EncodeEach(tp.of, v, depth)
    [] OTHER -> EncodeScalar(tp, v)

-----------------------------------------------------------------------------
(* The decoder: a cursor, the depth, the elements that may still be        *)
(* claimed and, for the properties, how many have been begun.              *)
Decoder(b) == [input |-> b, depth |-> 0, budget |-> Len(b), work |-> 0]

Got(v, s)  == [ok |-> TRUE, value |-> v, s |-> s]
Fail(e, s) == [ok |-> FALSE, error |-> e, s |-> s]

(* take and array: only bytes that exist.                                  *)
Take(s, n) ==
  IF n > Len(s.input) THEN Fail("UnexpectedEnd", s)
  ELSE Got(SubSeq(s.input, 1, n), [s EXCEPT !.input = SubSeq(@, n + 1, Len(@))])

(* A fixed-width number.                                                   *)
Number(s, width) ==
  LET r == Take(s, width) IN IF r.ok THEN Got(FromLe(r.value), r.s) ELSE r

Length(s) ==
  LET r == Number(s, LenBytes)
  IN  IF r.ok /\ r.value > UsizeMax THEN Fail("LengthOverflow", s) ELSE r

(* Mutant: each count is checked alone.                                    *)
CountUnbudgeted(s) ==
  LET r == Length(s)
  IN  IF r.ok /\ r.value > Len(r.s.input) THEN Fail("CountExceedsInput", s) ELSE r

(* No more elements than bytes are left, and no more in one decode than    *)
(* its input has bytes.                                                    *)
Count(s) ==
  LET r == Length(s)
  IN  IF ~r.ok THEN r
      ELSE IF r.value > Len(r.s.input) \/ r.value > r.s.budget
           THEN Fail("CountExceedsInput", s)
           ELSE Got(r.value, [r.s EXCEPT !.budget = @ - r.value])

Text(s, utf8) ==
  LET n == Length(s)
      r == Take(n.s, n.value)
  IN  IF ~n.ok THEN n
      ELSE IF r.ok /\ utf8 /\ ~IsUtf8(r.value) THEN Fail("InvalidUtf8", s) ELSE r

Character(s) ==
  LET first == Take(s, 1)
      width == Utf8Width[first.value[1]]
      r     == Take(s, width)
  IN  IF ~first.ok THEN first
      ELSE IF width = 0 THEN Fail("InvalidChar", s)
      ELSE IF r.ok /\ r.value \notin Chars THEN Fail("InvalidChar", s) ELSE r

(* Mutant: every byte but 0 is true.                                       *)
TruthOfAny(s) ==
  LET r == Take(s, 1) IN IF r.ok THEN Got(r.value[1] # 0, r.s) ELSE r

Truth(s) ==
  LET r == Take(s, 1)
  IN  IF ~r.ok THEN r
      ELSE IF r.value[1] \in {0, 1} THEN Got(r.value[1] = 1, r.s) ELSE Fail("InvalidBool", s)

DecodeScalar(tp, s) ==
  CASE tp.t = "bool"  -> Truth(s)
    [] tp.t = "int"   -> Number(s, IntBytes)
    [] tp.t = "char"  -> Character(s)
    [] tp.t = "str"   -> Text(s, TRUE)
    [] tp.t = "bytes" -> Text(s, FALSE)
    [] tp.t = "unit"  -> Got(<<>>, s)

RECURSIVE Decode(_, _)

(* One value after the other; `cost` is 1 for the elements of a sequence   *)
(* or map, whose number the input decides.                                 *)
RECURSIVE DecodeEach(_, _, _)
DecodeEach(types, cost, s) ==
  IF types = <<>> THEN Got(<<>>, s)
  ELSE LET first == Decode(Head(types), [s EXCEPT !.work = @ + cost])
           rest  == DecodeEach(Tail(types), cost, first.s)
       IN  IF ~first.ok THEN first
           ELSE IF rest.ok THEN Got(<<first.value>> \o rest.value, rest.s) ELSE rest

(* nested: what is inside is one level deeper.                             *)
TooDeep(s) == s.depth >= DepthLimit
Enter(s)   == [s EXCEPT !.depth = @ + 1]
Leave(r)   == [r EXCEPT !.s.depth = @ - 1]

DecodeInside(types, cost, s) ==
  IF TooDeep(s) THEN Fail("TooDeep", s) ELSE Leave(DecodeEach(types, cost, Enter(s)))

DecodeOption(tp, s) ==
  LET tag == Take(s, 1)
  IN  IF ~tag.ok THEN tag
      ELSE CASE tag.value[1] = 0 -> Got(<<>>, tag.s)
             [] tag.value[1] = 1 -> DecodeInside(tp.of, 0, tag.s)
             [] OTHER -> Fail("InvalidOptionTag", s)

(* The count comes before the level.                                       *)
DecodeCounted(tp, s) ==
  LET n == Count(s)
      r == DecodeInside([i \in 1..n.value |-> ElementOf(tp)], 1, n.s)
  IN  IF ~n.ok THEN n
      ELSE IF r.ok THEN Got([len |-> n.value, items |-> r.value], r.s) ELSE r

(* The level comes before the index; the fields of a variant add none.     *)
DecodeEnum(tp, s) ==
  LET index == Number(Enter(s), IndexBytes)
      r     == DecodeEach(tp.of[index.value + 1], 0, index.s)
  IN  IF TooDeep(s) THEN Fail("TooDeep", s)
      ELSE IF ~index.ok THEN index
      ELSE IF index.value >= Len(tp.of) THEN Fail("Message", s)
      ELSE IF r.ok THEN Leave(Got([index |-> index.value, fields |-> r.value], r.s)) ELSE r

(* An untagged enum asks what is there (deserialize_any).                  *)
Decode(tp, s) ==
  CASE tp.t = "option" -> DecodeOption(tp, s)
    [] tp.t \in {"newtype", "tuple"} -> DecodeInside(tp.of, 0, s)
    [] tp.t \in {"seq", "map"} -> DecodeCounted(tp, s)
    [] tp.t = "enum" -> DecodeEnum(tp, s)
    [] tp.t = "untagged" -> Fail("Unsupported", s)
    [] tp.t = "pair" -> DecodeEach(tp.of, 0, s)
    [] OTHER -> DecodeScalar(tp, s)

-----------------------------------------------------------------------------
Init ==
  /\ result = NoResult
  /\ \/ \E c \in Cases : /\ step = "writing" /\ bytes = <<>>
                         /\ type = c.type /\ value = c.value
     \/ /\ step = "stored" /\ value = NoValue
        /\ type \in Types /\ bytes \in Inputs

(* to_vec: a set whose value is refused stores nothing.                    *)
ToVec ==
  /\ step = "writing"
  /\ LET w == Encode(type, value, 0)
     IN  IF w.ok THEN step' = "stored" /\ bytes' = w.out
                 ELSE step' = "refused" /\ UNCHANGED bytes
  /\ UNCHANGED <<type, value, result>>

(* from_slice: bytes after the value are ignored.                          *)
FromSlice(tail) ==
  /\ step = "stored"
  /\ step' = "read"
  /\ bytes' = bytes \o tail
  /\ result' = Decode(type, Decoder(bytes'))
  /\ UNCHANGED <<type, value>>

Next == ToVec \/ \E tail \in Tails : FromSlice(tail)

Spec == Init /\ [][Next]_vars

-----------------------------------------------------------------------------
(* Whether a value of the type takes a byte at least.                      *)
RECURSIVE TakesBytes(_)
TakesBytes(tp) ==
  CASE tp.t = "unit" -> FALSE
    [] tp.t \in {"newtype", "tuple", "pair", "untagged"} ->
         \E i \in DOMAIN tp.of : TakesBytes(tp.of[i])
    [] OTHER -> TRUE

(* A type without untagged enums, which describe themselves nowhere, and   *)
(* without elements of zero bytes, whose count cannot be told from a       *)
(* forged one (RFC 028 R5).                                                *)
RECURSIVE IsReadable(_)
IsReadable(tp) ==
  /\ tp.t # "untagged"
  /\ tp.t \in {"seq", "map"} => TakesBytes(ElementOf(tp))
  /\ IF tp.t = "enum"
     THEN \A i \in DOMAIN tp.of : \A j \in DOMAIN tp.of[i] : IsReadable(tp.of[i][j])
     ELSE \A i \in DOMAIN tp.of : IsReadable(tp.of[i])

(* What was written is read back as it was, whatever follows it, at every  *)
(* depth the encoder admits and with every count of the decoder in force:  *)
(* no limit of the reader refuses what the writer let through, and no item *)
(* is lost to a length that was declared wrongly (to_vec, from_slice).     *)
WrittenIsReadBack ==
  step = "read" /\ value # NoValue /\ IsReadable(type) =>
    result.ok /\ result.value = value

(* Whatever bytes are stored, what they are read as is what they are: it   *)
(* can be written again, at the same depth, and gives the very bytes that  *)
(* were read.  No two inputs are one value (Decoder).                      *)
ReadIsWhatIsThere ==
  step = "read" /\ result.ok =>
    LET w == Encode(type, result.value, 0)
    IN  w.ok /\ w.out \o result.s.input = bytes

(* No input, however it claims to nest empty elements, makes the decoder   *)
(* begin more elements than it has bytes, also when it fails in the end    *)
(* ("bounds the work ... to the input's length instead of its square").    *)
WorkIsBounded == step = "read" => result.s.work <= Len(bytes)
=============================================================================
