---------------------------- MODULE World_proofs ----------------------------
(***************************************************************************)
(* The operations of World keep the world well typed.                       *)
(***************************************************************************)
EXTENDS World, TLAPS

\* A cell that is handed out has been linked to something.
CellsLinked == \A a \in Actors : actors[a] # NULL => next_contents[a] # Unused

WorldInv == WorldTypeOK /\ CellsLinked

\* A walk leaves the process running, in a loop, or in undefined behaviour.
LEMMA WalkOutcomesType ==
    ASSUME NEW cells, NEW head, NEW next
    PROVE  WalkOutcomes(cells, head, next) \subseteq {"running", "hung", "undefined"}
  BY DEF WalkOutcomes

\* The invariant holds in an empty world.
LEMMA WorldInitInv == WorldInit => WorldInv
  BY WorldAssumption DEF WorldInit, WorldInv, WorldTypeOK, CellsLinked

\* world_add_actor links the new cell in front of a list of cells.
LEMMA EnterWorldInv ==
    ASSUME WorldInv,
           NEW a \in Actors, NEW n \in Names, NEW r \in Rooms, NEW p \in Players,
           EnterWorld(a, n, r, p)
    PROVE  WorldInv' /\ server' \in Statuses
  <1>1. server' \in Statuses
    BY WalkOutcomesType DEF EnterWorld, Statuses
  <1>2. [name |-> n, location |-> r, player |-> p] \in Actor
    BY DEF Actor
  <1>3. WorldTypeOK'
    BY <1>2 DEF EnterWorld, PushNext, PushHead, WorldInv, WorldTypeOK
  <1>4. CellsLinked'
    BY WorldAssumption DEF EnterWorld, PushNext, WorldInv, WorldTypeOK, CellsLinked
  <1> QED BY <1>1, <1>3, <1>4 DEF WorldInv

\* actor_free releases a cell and leaves the lists alone.
LEMMA LeaveWorldInv ==
    ASSUME WorldInv, NEW a \in Actors, LeaveWorld(a)
    PROVE  WorldInv'
  BY DEF LeaveWorld, WorldInv, WorldTypeOK, CellsLinked

\* A walk alone changes nothing.
LEMMA LookAroundInv ==
    ASSUME WorldInv, NEW a \in Actors, LookAround(a)
    PROVE  WorldInv' /\ server' \in Statuses
  BY WalkOutcomesType
  DEF LookAround, worldVars, WorldInv, WorldTypeOK, CellsLinked, Statuses

\* Unlinking a live cell leaves links to cells only.
LEMMA PopType ==
    ASSUME WorldInv, NEW a \in Actors, actors[a] # NULL, NEW r \in Rooms
    PROVE  /\ PopNext(next_contents, contents, a, r)
                 \in [Actors -> Actors \cup {NULL, Unused}]
           /\ PopHead(next_contents, contents, a, r) \in [Rooms -> Actors \cup {NULL}]
           /\ \A b \in Actors : actors[b] # NULL =>
                 PopNext(next_contents, contents, a, r)[b] # Unused
  <1>1. next_contents[a] \in Actors \cup {NULL}
    BY DEF WorldInv, WorldTypeOK, CellsLinked
  <1> QED
    BY <1>1 DEF PopNext, PopHead, WorldInv, WorldTypeOK, CellsLinked

\* A move changes the links of two lists and the location of the mover.
LEMMA WalkToInv ==
    ASSUME WorldInv, NEW a \in Actors, actors[a] # NULL, NEW to \in Rooms, WalkTo(a, to)
    PROVE  WorldInv' /\ server' \in Statuses
  <1> DEFINE from == actors[a].location
  <1>1. from \in Rooms /\ actors[a] \in Actor
    BY DEF WorldInv, WorldTypeOK, Actor
  <1>2. CASE a \in Visited(contents[from], next_contents)
    <2>1. /\ actors' = [actors EXCEPT ![a].location = to]
          /\ next_contents' = MovedNext(a, from, to)
          /\ contents' = MovedHeads(a, from, to)
          /\ server' \in WalkOutcomes(actors, contents[from], next_contents)
               \cup WalkOutcomes(actors', contents'[to], next_contents')
      BY <1>2 DEF WalkTo
    <2>2. /\ PopNext(next_contents, contents, a, from)
                 \in [Actors -> Actors \cup {NULL, Unused}]
          /\ PopHead(next_contents, contents, a, from) \in [Rooms -> Actors \cup {NULL}]
          /\ \A b \in Actors : actors[b] # NULL =>
                 PopNext(next_contents, contents, a, from)[b] # Unused
      BY <1>1, PopType
    <2>3. actors' \in [Actors -> Actor \cup {NULL}]
      BY <2>1, <1>1 DEF WorldInv, WorldTypeOK, Actor
    <2>4. contents' \in [Rooms -> Actors \cup {NULL}]
      BY <2>1, <2>2 DEF MovedHeads, PushHead
    <2>5. next_contents' \in [Actors -> Actors \cup {NULL, Unused}]
      BY <2>1, <2>2 DEF MovedNext, PushNext
    <2>6. CellsLinked'
      BY <2>1, <2>2, WorldAssumption DEF MovedNext, PushNext, CellsLinked, WorldInv, WorldTypeOK
    <2>7. server' \in Statuses
      BY <2>1, WalkOutcomesType DEF Statuses
    <2> QED BY <2>3, <2>4, <2>5, <2>6, <2>7 DEF WorldInv, WorldTypeOK
  <1>3. CASE a \notin Visited(contents[from], next_contents)
    <2>1. UNCHANGED worldVars
      BY <1>3 DEF WalkTo
    <2>2. server' \in WalkOutcomes(actors, contents[from], next_contents)
                        \cup {"contents_located"}
      BY <1>3 DEF WalkTo
    <2>3. server' \in Statuses
      BY <2>2, WalkOutcomesType DEF Statuses, CheckFailures
    <2> QED BY <2>1, <2>3 DEF worldVars, WorldInv, WorldTypeOK, CellsLinked
  <1> QED BY <1>2, <1>3
=============================================================================
