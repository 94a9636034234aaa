--------------------------- MODULE MCTufMetadata ---------------------------
(***************************************************************************)
(* Instances of TufMetadata for TLC.                                       *)
(***************************************************************************)
EXTENDS TufMetadata

(* The director repository: the server counts every version.               *)
AllRoles == Role
=============================================================================
