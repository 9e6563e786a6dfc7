------------------------------- MODULE MCNonces -------------------------------
(***************************************************************************)
(* One call of the control plane and one gateway request under two handler *)
(* threads, which serve two deliveries of one call, or one of each.        *)
(***************************************************************************)
EXTENDS SignatureNonce

CONSTANTS c1, g1

MCCall == {c1, g1}
MCToPlugin == {g1}

=============================================================================
