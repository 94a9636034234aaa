--------------------------- MODULE MCDirectorRepo ---------------------------
(***************************************************************************)
(* Small instances of DirectorRepo.                                        *)
(***************************************************************************)
EXTENDS DirectorRepo, TLC

CONSTANTS r1, e1, e2

(* A robot that registers its ECUs together or one by one.                 *)
OneByOne == r1 :> {{e1}, {e2}}
SomeReports == r1 :> {[ecus |-> {e1}, counter |-> 1, sound |-> TRUE],
                      [ecus |-> {e1, e2}, counter |-> 2, sound |-> FALSE]}

Handlers == Permutations(Handler)
=============================================================================
