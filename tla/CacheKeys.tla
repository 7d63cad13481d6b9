----------------------------- MODULE CacheKeys ------------------------------
(***************************************************************************)
(* What a result is cached under: `Tool.cache_key_parts` and `hash_parts`,  *)
(* up to SHA-256, which is given the bytes that `Digested` puts together.   *)
(***************************************************************************)
EXTENDS Sequences, SequencesExt

\* `cache_key_parts`: a request is the pairs of a field's name and of its value, which
\* is the bytes of a file or the `repr` of anything else, in the order of the names.
KeyParts(name, version, fields) ==
  <<name, version>> \o FlattenSeq(fields)

\* `hash_parts`: the length of each part, and the part.
Digested(parts) ==
  FlattenSeq([i \in DOMAIN parts |-> <<Len(parts[i])>> \o parts[i]])

=============================================================================
