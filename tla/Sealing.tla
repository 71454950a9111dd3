------------------------------ MODULE Sealing ------------------------------
(***************************************************************************)
(* How a stored payload is sealed, opened and sealed again                 *)
(* (localcache-format): the tag says the codec (`base`) and the sealing,   *)
(* and a bound seal also covers the tag and the path.                      *)
(*                                                                         *)
(* A payload is its tag (base, seal) and what its bytes are: `text` in the *)
(* clear when key is NoKey, else `text` encrypted under `key` with the     *)
(* associated data `aad`.  Bytes are never looked into further.            *)
(***************************************************************************)
CONSTANTS Base,        \* the codecs a tag may name
          KnownBase,   \* the codecs of this build
          Key, NoKey, NoAad,
          Path, Text

ASSUME SealingAssumption == KnownBase \subseteq Base /\ NoKey \notin Key

Payload == [base : Base, seal : {"plain", "unbound", "bound"},
            key : Key \cup {NoKey}, aad : (Base \X Path) \cup {NoAad}, text : Text]

Plain(text)   == [status |-> "ok", text |-> text]
Refused(why)  == [status |-> why]

(* AES-GCM: the bytes open under the key and associated data they were     *)
(* sealed with, and under no other.                                        *)
Opens(p, k, aad) == p.key = k /\ p.aad = aad

AssociatedData(base, path) == <<base, path>>

(* encode_payload: a keyed engine writes only bound payloads.              *)
Encode(text, base, path, k) ==
  IF k = NoKey
    THEN [base |-> base, seal |-> "plain", key |-> NoKey, aad |-> NoAad, text |-> text]
    ELSE [base |-> base, seal |-> "bound", key |-> k,
          aad |-> AssociatedData(base, path), text |-> text]

(* decode_payload.                                                         *)
Decode(p, path, k) ==
  CASE p.seal = "plain" /\ p.base \notin KnownBase -> Refused("UnknownEncoding")
    [] p.seal = "plain" /\ p.base \in KnownBase /\ k # NoKey -> Refused("UnsealedEntry")
    [] p.seal = "plain" /\ p.base \in KnownBase /\ k = NoKey -> Plain(p.text)
    [] p.seal # "plain" /\ k = NoKey -> Refused("MissingEncryptionKey")
    [] p.seal # "plain" /\ k # NoKey /\ p.base \notin KnownBase -> Refused("UnknownEncoding")
    [] p.seal = "unbound" /\ k # NoKey /\ p.base \in KnownBase -> Refused("UnsealedEntry")
    [] p.seal = "bound" /\ k # NoKey /\ p.base \in KnownBase ->
         IF Opens(p, k, AssociatedData(p.base, path)) THEN Plain(p.text)
         ELSE Refused("EncryptionError")

(* reseal, whatever state the payload is in.                               *)
Resealable(p, path, old) ==
  /\ p.base \in KnownBase
  /\ p.seal = "unbound" => Opens(p, old, NoAad)
  /\ p.seal = "bound" => Opens(p, old, AssociatedData(p.base, path))

Reseal(p, path, new) == Encode(p.text, p.base, path, new)
=============================================================================
