----------------------------- MODULE MCRollout -----------------------------
(***************************************************************************)
(* Small fleets for model checking Rollout.                                *)
(***************************************************************************)
EXTENDS Rollout, TLC

CONSTANTS b1, b2, e1, e2, h1, h2, i1, i2

(* A robot with two ECUs of different hardware.                            *)
OneOwner == [e \in {e1, e2} |-> b1]
OneHwid  == (e1 :> h1) @@ (e2 :> h2)
OneMaps  == {(h1 :> i1) @@ (h2 :> i2)}

(* Two robots: one to update, one whose hardware no rollout is for.        *)
MixedOwner == (e1 :> b1) @@ (e2 :> b2)
MixedHwid  == (e1 :> h1) @@ (e2 :> h2)
MixedMaps  == {(h1 :> i1) @@ (h2 :> NoImage)}

(* A robot with two ECUs of the same hardware.                             *)
TwinOwner == [e \in {e1, e2} |-> b1]
TwinHwid  == [e \in {e1, e2} |-> h1]
TwinMaps  == {h1 :> i1}

(* Runs of the worker are alike.                                           *)
WorkerSymmetry == Permutations(Worker)
=============================================================================
