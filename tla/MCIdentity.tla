----------------------------- MODULE MCIdentity -----------------------------
(***************************************************************************)
(* Identity on small instances.                                            *)
(***************************************************************************)
EXTENDS Identity, TLC

\* Every wallet's clock is behind by a moment or two: a signature is older than
\* the moment it arrives.
Late == -1

Symmetry == Permutations(Pubkey) \cup Permutations(Nonce) \cup Permutations(Target)

=============================================================================
