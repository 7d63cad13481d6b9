--------------------------- MODULE MCFailedCalls ----------------------------
(***************************************************************************)
(* FailedCalls on one endpoint.                                            *)
(***************************************************************************)
EXTENDS FailedCalls, TLC

\* No tool has an endpoint of its own.
NoOwnEndpoint == [tool \in {} |-> EndpointId]

=============================================================================
