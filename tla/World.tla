------------------------------- MODULE World -------------------------------
(***************************************************************************)
(* The game world: actors that stand in rooms, and the list of contents    *)
(* every room keeps.                                                        *)
(*                                                                          *)
(* An actor is a heap cell; Actors is the set of addresses the allocator    *)
(* may hand out.  A room's contents is a singly linked list threaded        *)
(* through the cells: contents[r] is location->contents and                 *)
(* next_contents[a] is actor->next_contents.  world_remove_actor unlinks an *)
(* actor from world_actors but not from the contents list of its location,  *)
(* and actor_free then releases the cell: the list keeps pointing at it.    *)
(* A freed cell is modelled as keeping its next_contents until it is handed *)
(* out again; a walk that reads one may also end in "undefined".            *)
(*                                                                          *)
(* Rooms are created at boot (room_load_all) and never leave the world.     *)
(* An actor is in world_actors from world_add_actor to world_remove_actor,  *)
(* which every caller follows with actor_free: an allocated cell is exactly *)
(* one whose dead flag is false, so there is no separate field for it.      *)
(***************************************************************************)
EXTENDS ServerStatus

CONSTANTS
    Actors,       \* addresses of actor cells
    Rooms,        \* ids of the rooms loaded at boot
    Exits,        \* [Rooms -> SUBSET Rooms]: where the open exits of a room lead
    Players,      \* addresses of Player structs
    Unused        \* the next_contents of a cell never handed out

Actor == [name: Names, location: Rooms, player: Players]

ASSUME WorldAssumption ==
    /\ IsFiniteSet(Actors)
    /\ Exits \in [Rooms -> SUBSET Rooms]
    /\ NULL \notin Actors \cup Rooms \cup Players \cup Actor
    /\ Unused \notin Actors \cup {NULL}

VARIABLES
    actors,         \* the actor cells; NULL for an address that is free
    next_contents,  \* actor->next_contents of every cell, freed ones included
    contents        \* location->contents of every room

worldVars == <<actors, next_contents, contents>>

WorldTypeOK ==
    /\ actors \in [Actors -> Actor \cup {NULL}]
    /\ next_contents \in [Actors -> Actors \cup {NULL, Unused}]
    /\ contents \in [Rooms -> Actors \cup {NULL}]

WorldInit ==
    /\ actors = [a \in Actors |-> NULL]
    /\ next_contents = [a \in Actors |-> Unused]
    /\ contents = [r \in Rooms |-> NULL]

-----------------------------------------------------------------------------
(* Walking a list of contents. *)

\* The cells `for (c = head; c; c = c->next_contents)` reaches, by position.
\* There are Cardinality(Actors) cells, so a walk that has not ended by that
\* position never ends.
Walk(head, next) ==
    LET cell[k \in 0 .. Cardinality(Actors)] ==
          IF k = 0 THEN head
          ELSE IF cell[k-1] = NULL THEN NULL ELSE next[cell[k-1]]
    IN  cell

Visited(head, next) ==
    { Walk(head, next)[k] : k \in 0 .. Cardinality(Actors) } \ {NULL}

Endless(head, next) == Walk(head, next)[Cardinality(Actors)] # NULL

\* What a walk over the list may do to the process.  `cells` are the actor
\* cells at the time of the walk.
WalkOutcomes(cells, head, next) ==
    (IF Endless(head, next) THEN {"hung"} ELSE {"running"})
      \cup (IF \E a \in Visited(head, next) : cells[a] = NULL
            THEN {"undefined"} ELSE {})

-----------------------------------------------------------------------------
(* The operations on the lists, as the value they leave in next_contents    *)
(* and contents.                                                            *)

\* actor_add_contents: push in front of the list of r.
PushNext(next, heads, a, r) == [next EXCEPT ![a] = heads[r]]
PushHead(heads, a, r)       == [heads EXCEPT ![r] = a]

\* actor_remove_contents: the first link to `a` that the walk from r meets is
\* redirected past it; `a` keeps its own next_contents.
LinkTo(next, heads, a, r) ==
    LET w == Walk(heads[r], next)
        first == CHOOSE k \in 1 .. Cardinality(Actors) :
                   w[k] = a /\ \A j \in 0 .. k-1 : w[j] # a
    IN  w[first - 1]

\* Cuts the list at `a`.
PopNext_cut(next, heads, a, r) ==
    IF heads[r] = a THEN next
    ELSE [next EXCEPT ![LinkTo(next, heads, a, r)] = NULL]

PopNext(next, heads, a, r) ==
    IF heads[r] = a THEN next
    ELSE [next EXCEPT ![LinkTo(next, heads, a, r)] = next[a]]
PopHead(next, heads, a, r) ==
    IF heads[r] = a THEN [heads EXCEPT ![r] = next[a]] ELSE heads

\* actor_move_contents between two different rooms.
MovedHeads(a, from, to) ==
    PushHead(PopHead(next_contents, contents, a, from), a, to)
MovedNext(a, from, to) ==
    PushNext(PopNext(next_contents, contents, a, from),
             PopHead(next_contents, contents, a, from), a, to)

-----------------------------------------------------------------------------
(* What an actor, or the player that owns it, does in the world.            *)

\* actor_new: calloc hands out any free address, one that was freed included.
Allocatable(a) == actors[a] = NULL

\* player_state_enter_playing from world_add_actor on: the new actor is pushed
\* on the contents of r and looks around.
EnterWorld(a, n, r, p) ==
    /\ Allocatable(a)
    /\ actors' = [actors EXCEPT ![a] = [name |-> n, location |-> r, player |-> p]]
    /\ next_contents' = PushNext(next_contents, contents, a, r)
    /\ contents' = PushHead(contents, a, r)
    /\ server' \in WalkOutcomes(actors', contents'[r], next_contents')

\* Cleans the actor up and keeps it.
LeaveWorld_kept(a) ==
    /\ actors' = [actors EXCEPT ![a].player = NULL]
    /\ UNCHANGED <<next_contents, contents>>

\* world_remove_actor, then actor_free: no list of contents is touched.
LeaveWorld(a) ==
    /\ actors' = [actors EXCEPT ![a] = NULL]
    /\ UNCHANGED <<next_contents, contents>>

\* Whatever only walks the contents of the actor's room: act_examine_location,
\* a move through an exit that leads back to the same room, and the first
\* perception of a move when that walk never ends.
LookAround(a) ==
    /\ server' \in WalkOutcomes(actors, contents[actors[a].location], next_contents)
    /\ UNCHANGED worldVars

\* A move through an open exit: everybody in the room perceives the departure,
\* the actor changes lists, everybody in the new room perceives the arrival.
\* When the list of the room has lost the actor, actor_remove_contents leaves
\* its location_id alone and CHECK(location_id == INVALID_ACTOR_ID) of
\* actor_add_contents aborts.
WalkTo(a, to) ==
    LET from     == actors[a].location
        departed == WalkOutcomes(actors, contents[from], next_contents) \ {"running"}
    IN
    /\ to \in Exits[from] \ {from}
    /\ ~Endless(contents[from], next_contents)
    /\ IF a \in Visited(contents[from], next_contents)
       THEN /\ actors' = [actors EXCEPT ![a].location = to]
            /\ next_contents' = MovedNext(a, from, to)
            /\ contents' = MovedHeads(a, from, to)
            /\ server' \in departed
                 \cup WalkOutcomes(actors', contents'[to], next_contents')
       ELSE /\ server' \in departed \cup {"contents_located"}
            /\ UNCHANGED worldVars
=============================================================================
