--------------------------- MODULE TufRepository ---------------------------
(***************************************************************************)
(* The steps of a director repository as a robot would like to see it: one *)
(* targets, one snapshot and one timestamp document that change together.  *)
(* Publishing a rollout moves all three versions and the payload; a        *)
(* refresh moves the version of a role and of every role that hashes it,   *)
(* and nothing else.                                                       *)
(***************************************************************************)
EXTENDS Naturals

CONSTANT Payload

VARIABLE current    \* [versions: [role -> Nat], payload: Payload]

Above(role) ==
    CASE role = "targets"   -> {"targets", "snapshot", "timestamp"}
      [] role = "snapshot"  -> {"snapshot", "timestamp"}
      [] role = "timestamp" -> {"timestamp"}

Bumped(role) ==
    [r \in {"targets", "snapshot", "timestamp"} |->
        IF r \in Above(role) THEN current.versions[r] + 1 ELSE current.versions[r]]

Publish ==
    \E p \in Payload :
        current' = [versions |-> Bumped("targets"), payload |-> p]

Refresh ==
    \E role \in {"targets", "snapshot", "timestamp"} :
        current' = [current EXCEPT !.versions = Bumped(role)]
=============================================================================
