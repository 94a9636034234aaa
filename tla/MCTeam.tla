------------------------------- MODULE MCTeam -------------------------------
(***************************************************************************)
(* Instances of Team for TLC.  There is no symmetry: one of the properties *)
(* is a liveness property.                                                 *)
(***************************************************************************)
EXTENDS Team
=============================================================================
