---------------------------- MODULE MCSessions -----------------------------
(***************************************************************************)
(* Small instances of the server.                                           *)
(***************************************************************************)
EXTENDS Sessions, TLC

CONSTANTS p1, p2, p3, a1, a2, a3, Hall, Yard, ann, eve, bob, Bob

\* An exit that leads back to the room it leaves.
MCLoop == Hall :> {Hall}

\* Two rooms, joined both ways.
MCPair == Hall :> {Yard} @@ Yard :> {Hall}

MCLength == [u \in Usernames |-> 5]
MCLower == [n \in Names |-> n]

\* Usernames of 31 characters; of 5 and of 31.
MCLengthLong == [u \in Usernames |-> 31]
MCLengthMixed == ann :> 5 @@ eve :> 31
\* "Bob" is typed with a capital, and stored as "bob".
MCLowerMixed == [n \in Names |-> bob]

MCSymmetry ==
    { p @@ a @@ u : p \in Permutations(Players), a \in Permutations(Actors),
                    u \in Permutations(Usernames) }
=============================================================================
