--------------------------- MODULE MCProvisioning ---------------------------
(***************************************************************************)
(* Small instances of Provisioning.                                        *)
(***************************************************************************)
EXTENDS Provisioning, TLC

Handlers == Permutations(Handler)
=============================================================================
