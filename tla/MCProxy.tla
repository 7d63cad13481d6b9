------------------------------ MODULE MCProxy -------------------------------
(***************************************************************************)
(* Proxy on a small instance.                                              *)
(***************************************************************************)
EXTENDS Proxy, TLC

CONSTANTS reangle, mesh, shared, own

\* One tool has an endpoint of its own.
OwnEndpoint == mesh :> own

Symmetry == Permutations(Pubkey)

=============================================================================
