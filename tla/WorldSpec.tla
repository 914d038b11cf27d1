----------------------------- MODULE WorldSpec -----------------------------
(***************************************************************************)
(* The world on its own, driven by players who enter, look, move and leave  *)
(* in any order.                                                            *)
(***************************************************************************)
EXTENDS World

Init == WorldInit /\ server = "running"

Act(a) ==
    \/ LeaveWorld(a) /\ UNCHANGED server
    \/ LookAround(a)
    \/ \E to \in Rooms : WalkTo(a, to)

\* The process has stopped.
Stopped ==
    /\ server # "running"
    /\ UNCHANGED <<server, worldVars>>

Next ==
    \/ /\ server = "running"
       /\ \/ \E a \in Actors, n \in Names, r \in Rooms, p \in Players :
                EnterWorld(a, n, r, p)
          \/ \E a \in Actors : actors[a] # NULL /\ Act(a)
    \/ Stopped

Spec == Init /\ [][Next]_<<server, worldVars>>

-----------------------------------------------------------------------------
(* Properties.                                                              *)

\* Every pointer of the world is NULL or the address of a cell.
TypeOK == server \in Statuses /\ WorldTypeOK

\* Perceiving "to the actor's location and all actors in it" (act.h): the walk
\* over the contents of a room ends, and the live actors it meets are exactly
\* those whose location_id is that room.
ContentsMatchLocations ==
    \A r \in Rooms :
        LET met == Visited(contents[r], next_contents)
        IN  /\ ~Endless(contents[r], next_contents)
            /\ { a \in met : actors[a] # NULL }
                 = { a \in Actors : actors[a] # NULL /\ actors[a].location = r }

\* calloc hands out an address that the list of some room still holds.
HandsOutListed ==
    \E a \in Actors, r \in Rooms :
        actors[a] = NULL /\ actors'[a] # NULL /\ a \in Visited(contents[r], next_contents)

\* Reuse of a listed address breaks the lists, always, and nothing else does: a
\* step from lists that match the locations leads to lists that match unless it
\* hands out an address some list still holds, through any order of enter, move
\* and leave and whatever addresses the allocator picks.  Nor does any other such
\* step walk in a loop or end at the CHECK of actor_add_contents.
ContentsBreakExactlyOnReuse ==
    [][ContentsMatchLocations =>
         /\ ContentsMatchLocations' <=> ~HandsOutListed
         /\ ~HandsOutListed => server' \notin {"hung", "contents_located"}
      ]_<<server, worldVars>>
=============================================================================
