----------------------------- MODULE MCWorld ------------------------------
(***************************************************************************)
(* Two rooms joined both ways, one of them with an exit back to itself.     *)
(***************************************************************************)
EXTENDS WorldSpec, TLC

CONSTANTS a1, a2, a3, a4, Hall, Yard

MCExits == (Hall :> {Hall, Yard}) @@ (Yard :> {Hall})
MCActors3 == {a1, a2, a3}
MCActors4 == {a1, a2, a3, a4}
MCSymmetry == Permutations(Actors)
=============================================================================
