----------------------------- MODULE Detection -----------------------------
(***************************************************************************)
(* Change detection (detection/): what is recorded of a file when an entry *)
(* is stored, and how each mode compares it with the file later.           *)
(*                                                                         *)
(* A file is its contents and its mtime.  BLAKE3 is taken as injective: a  *)
(* full hash stands for the contents, a partial one for the sampled head   *)
(* and tail.  `stored` is a row with the fields mtime, size and hash.      *)
(***************************************************************************)
CONSTANTS Contents, Sizes, Samples,
          Size,      \* the size of contents
          Sample,    \* the first and last 64 KiB of contents
          Mtime, NoHash

ASSUME DetectionAssumption ==
  /\ Size \in [Contents -> Sizes]
  /\ Sample \in [Contents -> Samples]

Mode == {"MetadataOnly", "MetadataThenPartialHash", "MetadataThenFullHash", "StrictFullHash"}

File     == [contents : Contents, mtime : Mtime]
Metadata == [mtime : Mtime, size : Sizes]

NoneHash       == [kind |-> "none", of |-> NoHash]
FullHash(c)    == [kind |-> "full", of |-> c]
PartialHash(c) == [kind |-> "partial", of |-> Sample[c]]

Hash == {NoneHash} \cup {FullHash(c) : c \in Contents} \cup {PartialHash(c) : c \in Contents}

CollectMetadata(f) == [mtime |-> f.mtime, size |-> Size[f.contents]]

(* Mutant: every mode that hashes samples.                                 *)
HashOfSamples(mode, c) == IF mode = "MetadataOnly" THEN NoneHash ELSE PartialHash(c)

(* compute_hash_for_mode                                                   *)
HashForMode(mode, c) ==
  CASE mode = "MetadataOnly" -> NoneHash
    [] mode = "MetadataThenPartialHash" -> PartialHash(c)
    [] mode \in {"MetadataThenFullHash", "StrictFullHash"} -> FullHash(c)

MetadataMatches(stored, md) == stored.mtime = md.mtime /\ stored.size = md.size

(* What the metadata decides: "hash" is left to the hash.                  *)
AfterMetadata(mode, stored, md) ==
  CASE mode = "StrictFullHash" -> "hash"
    [] mode # "StrictFullHash" /\ MetadataMatches(stored, md) -> "Fresh"
    [] mode # "StrictFullHash" /\ ~MetadataMatches(stored, md) ->
         IF mode = "MetadataOnly" \/ stored.size # md.size THEN "Stale" ELSE "hash"

(* Mutant: a partial hash is evidence enough for every mode.               *)
AfterAnyHash(mode, stored, c) ==
  IF stored.hash \in {FullHash(c), PartialHash(c)} THEN "Fresh" ELSE "Stale"

(* No hash was stored, or the full-hash modes meet a partial one: stale.   *)
(* Otherwise the kind that was stored is computed again.                   *)
AfterHash(mode, stored, c) ==
  IF \/ stored.hash = FullHash(c)
     \/ mode = "MetadataThenPartialHash" /\ stored.hash = PartialHash(c)
  THEN "Fresh" ELSE "Stale"

(* detect_change of a file that does not change meanwhile.                 *)
DetectChange(mode, stored, f) ==
  LET first == AfterMetadata(mode, stored, CollectMetadata(f))
  IN  IF first = "hash" THEN AfterHash(mode, stored, f.contents) ELSE first
=============================================================================
