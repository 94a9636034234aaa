---------------------------- MODULE MCImageRepo ----------------------------
(***************************************************************************)
(* Small instances of ImageRepo.                                           *)
(***************************************************************************)
EXTENDS ImageRepo, TLC

SomeImages == SUBSET Image
NotAList == {0}
ServerRoles == {"snapshot", "timestamp"}

Clients == Permutations(Client)
=============================================================================
