--------------------------- MODULE MCPayloadCodec ---------------------------
(* Instances of PayloadCodec for model checking.                           *)
EXTENDS PayloadCodec, TLC

Scalar(t)   == [t |-> t, of |-> <<>>]
Of(t, tp)   == [t |-> t, of |-> <<tp>>]
Of2(t, a, b) == [t |-> t, of |-> <<a, b>>]

Unit == Scalar("unit")
Bool == Scalar("bool")
Int2 == Scalar("int")

(* Bytes 0 and 1 are characters, 2 begins one of two bytes, 3 ends it.     *)
Widths == [b \in 0..3 |-> CASE b \in {0, 1} -> 1 [] b = 2 -> 2 [] b = 3 -> 0]
TwoChars == {<<0>>, <<1>>, <<2, 3>>}

UpTo(n) == UNION {[1..k -> 0..3] : k \in 0..n}
SomeInputs == UpTo(5)
SomeTails  == {<<>>, <<1>>, <<0, 3>>}

(* Every kind, alone and in others, to one level more than the limit of 2. *)
Flag == [t |-> "enum", of |-> << <<>>, <<Bool>>, <<Unit, Int2>> >>]
Plain == {Bool, Int2, Unit, Scalar("char"), Scalar("str"), Scalar("bytes")}
Wrapped ==
  {Of("option", Bool), Of("newtype", Scalar("str")), Of("seq", Bool), Of("seq", Unit),
   Of2("tuple", Bool, Scalar("char")), Of2("map", Bool, Unit), Flag, Of("untagged", Bool)}
Deep ==
  {Of("seq", tp) : tp \in {Of("option", Bool), Of("seq", Unit), Flag, Of2("tuple", Unit, Unit)}}
  \cup {Of("option", Flag), Of("newtype", Of("newtype", Of("option", Bool))),
        Of("option", Of("seq", Of("option", Bool)))}

AllTypes == Plain \cup Wrapped \cup Deep

RECURSIVE Values(_)
Items(tp) == LET vs == Values(tp) IN {<<>>} \cup [1..1 -> vs] \cup [1..2 -> vs]
Fields(tps) ==
  CASE Len(tps) = 0 -> {<<>>}
    [] Len(tps) = 1 -> {<<v>> : v \in Values(tps[1])}
    [] Len(tps) = 2 -> {<<v, w>> : v \in Values(tps[1]), w \in Values(tps[2])}

(* Small values; a sequence or map may know its length, or declare another.*)
Values(tp) ==
  CASE tp.t = "bool" -> BOOLEAN
    [] tp.t = "int" -> {0, 1, 7, 15}
    [] tp.t = "unit" -> {<<>>}
    [] tp.t = "char" -> TwoChars
    [] tp.t = "str" -> {<<>>, <<1>>, <<2, 3>>}
    [] tp.t = "bytes" -> {<<>>, <<3>>, <<2, 0>>}
    [] tp.t = "option" -> {<<>>} \cup Fields(tp.of)
    [] tp.t \in {"newtype", "tuple"} -> Fields(tp.of)
    [] tp.t \in {"pair"} -> Fields(tp.of)
    [] tp.t = "untagged" -> Values(tp.of[1])
    [] tp.t = "enum" -> UNION {{[index |-> i - 1, fields |-> f] : f \in Fields(tp.of[i])} :
                                 i \in DOMAIN tp.of}
    [] tp.t \in {"seq", "map"} ->
         {[len |-> n, items |-> s] : n \in 0..2 \cup {Unknown}, s \in Items(ElementOf(tp))}

AllCases == UNION {{[type |-> tp, value |-> v] : v \in Values(tp)} : tp \in AllTypes}
=============================================================================
