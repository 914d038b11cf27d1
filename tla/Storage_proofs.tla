--------------------------- MODULE Storage_proofs ---------------------------
(***************************************************************************)
(* Theorems: ids of actors in the world are never given out twice; what is  *)
(* read, loaded and written is well typed; accounts list their characters;  *)
(* the rooms of rooms.txt are loaded as it describes them, without stopping *)
(* the server, and the characters that were saved can be played.            *)
(*                                                                          *)
(* The last three follow from one invariant, BootInv.  While a file is read *)
(* it says where in the file the readers are and that what they have built  *)
(* so far is what was written before that place: each field and section is  *)
(* shown to be read back as it was written, then an actor, a part of        *)
(* rooms.txt and the whole of it.                                           *)
(***************************************************************************)
EXTENDS Storage, ChunkFile_proofs

\* The readers that fill in an actor that is there; they are always innermost.
Parts == {"appearance", "room"}
Inside == readers # <<>> /\ Last(readers) \in Parts

StackInv ==
    /\ readers \in Seq(Readers)
    /\ \A k \in 1 .. Len(readers) - 1 : readers[k] \notin Parts

\* An id below on_actor_id: of rooms.txt, or given out by actor_init.
Issued(a) == "id" \in DOMAIN a /\ a.id \in 1 .. on_actor_id - 1

\* No actor of the world has the id, unless rooms.txt gave it.
Fresh(a) ==
    \A k \in 1 .. Len(world) : world[k].id > MAX_PERSISTENT_ACTOR_ID => world[k].id # a.id

\* The actor that is being built can be added to the world.
ActorInv == actor # NULL \/ Inside => Issued(actor) /\ Fresh(actor)

WorldInv ==
    /\ \E S : world \in Seq(S)
    /\ \A k \in 1 .. Len(world) : Issued(world[k])
    /\ IdsUnique

IdInv ==
    /\ on_actor_id \in MAX_PERSISTENT_ACTOR_ID + 1 .. MAX_ACTOR_ID
    /\ StackInv
    /\ WorldInv
    /\ ActorInv
    /\ saving # "none" => readers = <<>>

-----------------------------------------------------------------------------
(* The stack of readers. *)

LEMMA CallStack ==
    ASSUME StackInv, NEW r \in Readers, readers' = Append(readers, r), ~Inside
    PROVE  StackInv' /\ (Inside' <=> r \in Parts)
  BY DEF StackInv, Inside, Last

LEMMA FrontOf ==
    ASSUME NEW S, NEW s \in Seq(S), Len(s) > 0
    PROVE  /\ Front(s) \in Seq(S) /\ Len(Front(s)) = Len(s) - 1
           /\ \A k \in 1 .. Len(s) - 1 : Front(s)[k] = s[k]
  <1>1. PICK n \in Nat : n = Len(s) - 1
    OBVIOUS
  <1>2. /\ SubSeq(s, 1, n) \in Seq(S) /\ Len(SubSeq(s, 1, n)) = n
        /\ \A k \in 1 .. n : SubSeq(s, 1, n)[k] = s[k]
    BY <1>1
  <1>3. Front(s) = SubSeq(s, 1, n)
    BY <1>1 DEF Front
  <1> QED BY <1>1, <1>2, <1>3

LEMMA ReturnStack ==
    ASSUME StackInv, readers # <<>>, readers' = Front(readers)
    PROVE  StackInv' /\ ~Inside'
  <1>1. Len(readers) \in Nat \ {0}
    BY DEF StackInv
  <1>2. /\ readers' \in Seq(Readers) /\ Len(readers') = Len(readers) - 1
        /\ \A k \in 1 .. Len(readers) - 1 : readers'[k] = readers[k]
    BY <1>1, FrontOf DEF StackInv
  <1>3. readers' # <<>> => Len(readers') \in 1 .. Len(readers) - 1
    BY <1>1, <1>2
  <1> QED BY <1>1, <1>2, <1>3 DEF StackInv, Inside, Last

LEMMA KeepStack ==
    ASSUME StackInv, UNCHANGED readers
    PROVE  StackInv' /\ Inside' = Inside
  BY DEF StackInv, Inside, Last

\* A reader that starts on a file of its own, or none.
LEMMA NewStack ==
    ASSUME NEW r \in Readers \ Parts, readers' \in {<<>>, <<r>>}
    PROVE  StackInv' /\ ~Inside'
  <1>1. CASE readers' = <<>>
    BY <1>1 DEF StackInv, Inside
  <1>2. CASE readers' = <<r>>
    BY <1>2 DEF StackInv, Inside, Last
  <1> QED BY <1>1, <1>2

-----------------------------------------------------------------------------
(* The world. *)

\* As long as no actor comes, ids stay unique.
LEMMA KeepWorld ==
    ASSUME IdInv, UNCHANGED <<on_actor_id, world>>
    PROVE  WorldInv'
  BY DEF IdInv, WorldInv, Issued, IdsUnique

\* An id that was never given out makes no difference to the actors there.
LEMMA GrowWorld ==
    ASSUME IdInv, on_actor_id' \in on_actor_id .. MAX_ACTOR_ID, UNCHANGED world
    PROVE  WorldInv'
  BY StorageAssumption DEF IdInv, WorldInv, Issued, IdsUnique

\* The sequences of world_add_actor and of world_remove_actor.
LEMMA Prepended ==
    ASSUME NEW S, NEW s \in Seq(S), NEW a
    PROVE  /\ <<a>> \o s \in Seq(S \cup {a})
           /\ Len(<<a>> \o s) = Len(s) + 1
           /\ (<<a>> \o s)[1] = a
           /\ \A k \in 2 .. Len(s) + 1 : (<<a>> \o s)[k] = s[k - 1]
  <1>1. s \in Seq(S \cup {a}) /\ <<a>> \in Seq(S \cup {a})
    OBVIOUS
  <1> QED BY <1>1

LEMMA Removed ==
    ASSUME NEW S, NEW s \in Seq(S), NEW i \in 1 .. Len(s)
    PROVE  /\ RemoveAt(s, i) \in Seq(S)
           /\ Len(RemoveAt(s, i)) = Len(s) - 1
           /\ \A k \in 1 .. Len(s) - 1 :
                RemoveAt(s, i)[k] = IF k < i THEN s[k] ELSE s[k + 1]
  <1>1. SubSeq(s, 1, i - 1) \in Seq(S) /\ Len(SubSeq(s, 1, i - 1)) = i - 1
        /\ \A k \in 1 .. i - 1 : SubSeq(s, 1, i - 1)[k] = s[k]
    OBVIOUS
  <1>2. SubSeq(s, i + 1, Len(s)) \in Seq(S) /\ Len(SubSeq(s, i + 1, Len(s))) = Len(s) - i
        /\ \A k \in 1 .. Len(s) - i : SubSeq(s, i + 1, Len(s))[k] = s[i + k]
    OBVIOUS
  <1> DEFINE front == SubSeq(s, 1, i - 1)
             back  == SubSeq(s, i + 1, Len(s))
  <1>3. RemoveAt(s, i) = front \o back
    BY DEF RemoveAt
  <1>4. front \in Seq(S) /\ Len(front) = i - 1 /\ \A k \in 1 .. i - 1 : front[k] = s[k]
    BY <1>1
  <1>5. back \in Seq(S) /\ Len(back) = Len(s) - i /\ \A k \in 1 .. Len(s) - i : back[k] = s[i + k]
    BY <1>2
  <1> HIDE DEF front, back
  <1>6. front \o back \in Seq(S) /\ Len(front \o back) = Len(s) - 1
    BY <1>4, <1>5
  <1>7. ASSUME NEW k \in 1 .. Len(s) - 1
        PROVE  (front \o back)[k] = IF k < i THEN s[k] ELSE s[k + 1]
    <2>1. CASE k < i
      BY <1>4, <1>5, <2>1
    <2>2. CASE ~(k < i)
      <3>1. k - (i - 1) \in 1 .. Len(s) - i /\ i + (k - (i - 1)) = k + 1
        BY <2>2
      <3>2. (front \o back)[k] = back[k - (i - 1)]
        BY <1>4, <1>5, <2>2
      <3> QED BY <1>5, <2>2, <3>1, <3>2
    <2> QED BY <2>1, <2>2
  <1> QED BY <1>3, <1>6, <1>7

\* world_add_actor of an actor whose id is issued and fresh.
LEMMA AddedToWorld ==
    ASSUME IdInv, NEW a, Issued(a), Fresh(a), AddToWorld(a), UNCHANGED on_actor_id
    PROVE  WorldInv'
  <1> DEFINE b == [a EXCEPT !.dead = FALSE]
  <1>1. "id" \in DOMAIN b /\ b.id = a.id
    BY DEF Issued
  <1>2. PICK S : world \in Seq(S)
    BY DEF IdInv, WorldInv
  <1>3. world' = <<b>> \o world
    BY DEF AddToWorld
  <1> HIDE DEF b
  <1>4. /\ world' \in Seq(S \cup {b}) /\ Len(world') = Len(world) + 1
        /\ world'[1] = b
        /\ \A k \in 2 .. Len(world) + 1 : world'[k] = world[k - 1]
    BY <1>2, <1>3, Prepended
  <1>5. Len(world) \in Nat
    BY <1>2
  <1>6. \A k \in 1 .. Len(world') : Issued(world'[k])
    <2>1. Issued(b)
      BY <1>1 DEF Issued
    <2>2. ASSUME NEW k \in 2 .. Len(world) + 1
          PROVE  Issued(world'[k])
      <3>1. k - 1 \in 1 .. Len(world)
        BY <1>5
      <3> QED BY <1>4, <3>1 DEF IdInv, WorldInv
    <2> QED BY <1>4, <1>5, <2>1, <2>2
  <1>7. b.id \in Nat /\ \A k \in 1 .. Len(world) : world[k].id \in Nat
    BY <1>1, StorageAssumption DEF IdInv, WorldInv, Issued
  <1>8. IdsUnique'
    <2> SUFFICES ASSUME NEW j \in 1 .. Len(world'), NEW k \in 1 .. Len(world')
                 PROVE  /\ world'[j].id # INVALID_ACTOR_ID
                        /\ j # k /\ world'[j].id > MAX_PERSISTENT_ACTOR_ID =>
                             world'[j].id # world'[k].id
      BY DEF IdsUnique
    <2>1. world'[j].id # INVALID_ACTOR_ID
      BY <1>6, StorageAssumption DEF Issued
    <2>2. CASE j = 1 /\ k # 1
      <3>1. world'[k] = world[k - 1] /\ k - 1 \in 1 .. Len(world)
        BY <1>4, <1>5, <2>2
      <3> QED BY <1>1, <1>4, <1>7, <2>1, <2>2, <3>1, StorageAssumption DEF Fresh
    <2>3. CASE j # 1 /\ k = 1
      <3>1. world'[j] = world[j - 1] /\ j - 1 \in 1 .. Len(world)
        BY <1>4, <1>5, <2>3
      <3> QED BY <1>1, <1>4, <2>1, <2>3, <3>1 DEF Fresh
    <2>4. CASE j # 1 /\ k # 1
      <3>1. /\ world'[j] = world[j - 1] /\ j - 1 \in 1 .. Len(world)
            /\ world'[k] = world[k - 1] /\ k - 1 \in 1 .. Len(world)
        BY <1>4, <1>5, <2>4
      <3> QED BY <2>1, <2>4, <3>1 DEF IdInv, WorldInv, IdsUnique
    <2> QED BY <2>1, <2>2, <2>3, <2>4
  <1> QED BY <1>4, <1>6, <1>8 DEF WorldInv, Issued

LEMMA QuitWorld ==
    ASSUME IdInv, NEW i \in 1 .. Len(world), world' = RemoveAt(world, i), UNCHANGED on_actor_id
    PROVE  WorldInv' /\ \A a : Fresh(a) => Fresh(a)'
  <1>1. PICK S : world \in Seq(S)
    BY DEF IdInv, WorldInv
  <1>2. /\ world' \in Seq(S) /\ Len(world') = Len(world) - 1 /\ Len(world) \in Nat
        /\ \A k \in 1 .. Len(world') : world'[k] = IF k < i THEN world[k] ELSE world[k + 1]
    <2>1. Len(world) \in Nat
      BY <1>1
    <2> QED BY <1>1, <2>1, Removed
  <1>3. \A k \in 1 .. Len(world') : \E m \in 1 .. Len(world) :
          world'[k] = world[m] /\ m = IF k < i THEN k ELSE k + 1
    BY <1>2
  <1>4. \A k \in 1 .. Len(world') : Issued(world'[k])
    BY <1>3 DEF IdInv, WorldInv, Issued
  <1>5. IdsUnique'
    <2> SUFFICES ASSUME NEW j \in 1 .. Len(world'), NEW k \in 1 .. Len(world')
                 PROVE  /\ world'[j].id # INVALID_ACTOR_ID
                        /\ j # k /\ world'[j].id > MAX_PERSISTENT_ACTOR_ID =>
                             world'[j].id # world'[k].id
      BY DEF IdsUnique
    <2>1. PICK m \in 1 .. Len(world) : world'[j] = world[m] /\ m = IF j < i THEN j ELSE j + 1
      BY <1>3
    <2>2. PICK n \in 1 .. Len(world) : world'[k] = world[n] /\ n = IF k < i THEN k ELSE k + 1
      BY <1>3
    <2>3. j # k => m # n
      BY <1>2, <2>1, <2>2
    <2> QED BY <2>1, <2>2, <2>3 DEF IdInv, WorldInv, IdsUnique
  <1>6. \A a : Fresh(a) => Fresh(a)'
    BY <1>3 DEF Fresh
  <1>7. WorldInv'
    BY <1>2, <1>4, <1>5 DEF WorldInv, Issued
  <1> QED BY <1>6, <1>7

-----------------------------------------------------------------------------
(* The ways in which a step treats the actor that is being built. *)

\* Nothing reads a file while another is written.
SaveApart == saving # "none" => readers = <<>>

\* The actor stays, or keeps its id.
LEMMA SameId ==
    ASSUME IdInv, UNCHANGED <<on_actor_id, world>>, StackInv', SaveApart',
           actor' # NULL \/ Inside' =>
              /\ actor # NULL \/ Inside
              /\ "id" \in DOMAIN actor => "id" \in DOMAIN actor' /\ actor'.id = actor.id
    PROVE  IdInv'
  <1>1. ActorInv'
    BY DEF IdInv, ActorInv, Issued, Fresh
  <1> QED BY <1>1, KeepWorld DEF IdInv, SaveApart

\* There is none any more.
LEMMA NoActor ==
    ASSUME IdInv, UNCHANGED <<on_actor_id, world>>, StackInv', SaveApart', actor' = NULL, ~Inside'
    PROVE  IdInv'
  BY SameId

\* actor_init made it.
LEMMA NewId ==
    ASSUME IdInv, IdsLeft, on_actor_id' = NextId, UNCHANGED world, StackInv', SaveApart',
           "id" \in DOMAIN actor', actor'.id = on_actor_id
    PROVE  IdInv'
  <1>1. on_actor_id' = on_actor_id + 1 /\ on_actor_id' \in on_actor_id .. MAX_ACTOR_ID
    BY StorageAssumption DEF IdInv, IdsLeft, NextId
  <1>2. Issued(actor)' /\ Fresh(actor)'
    BY <1>1, StorageAssumption DEF IdInv, WorldInv, Issued, Fresh
  <1>3. ActorInv'
    BY <1>2 DEF ActorInv
  <1> QED BY <1>1, <1>3, GrowWorld, StorageAssumption DEF IdInv, SaveApart

\* actor_init_persistent made it.
LEMMA PersistentId ==
    ASSUME IdInv, NEW id \in Nat, Persistent(id), UNCHANGED <<on_actor_id, world>>, StackInv',
           SaveApart', actor' = actor_init_persistent(id)
    PROVE  IdInv'
  <1>1. "id" \in DOMAIN actor' /\ actor'.id = id
    BY DEF actor_init_persistent, actor_init_internal
  <1>2. Issued(actor)' /\ Fresh(actor)'
    BY <1>1, StorageAssumption DEF IdInv, WorldInv, Issued, Fresh, Persistent
  <1>3. ActorInv'
    BY <1>2 DEF ActorInv
  <1> QED BY <1>3, KeepWorld DEF IdInv, SaveApart

\* The server stops, and everything stays.
LEMMA FailStep ==
    ASSUME IdInv, NEW why, Fail(why)
    PROVE  IdInv'
  <1>1. StackInv' /\ Inside' = Inside
    BY KeepStack DEF Fail, IdInv
  <1> QED BY <1>1, SameId DEF Fail, IdInv, SaveApart, diskVars

\* A chunk is read by a function that changes no id.
LEMMA ReadStep ==
    ASSUME IdInv, UNCHANGED <<on_actor_id, world, saving>>, readers # <<>>,
           \/ Continue /\ UNCHANGED actor
           \/ /\ Continue /\ Inside
              /\ "id" \in DOMAIN actor => "id" \in DOMAIN actor' /\ actor'.id = actor.id
           \/ Return /\ (UNCHANGED actor \/ actor' = NULL)
           \/ ~Inside /\ Call("skip") /\ UNCHANGED actor
           \/ ~Inside /\ Call("room_actor") /\ actor' = NULL
    PROVE  IdInv'
  <1>1. SaveApart'
    BY DEF IdInv, SaveApart
  <1>2. CASE Continue
    <2>1. StackInv' /\ Inside' = Inside
      BY <1>2, KeepStack DEF Continue, IdInv
    <2>2. CASE UNCHANGED actor
      BY <1>1, <2>1, <2>2, SameId
    <2>3. CASE Inside /\ ("id" \in DOMAIN actor => "id" \in DOMAIN actor' /\ actor'.id = actor.id)
      BY <1>1, <2>1, <2>3, SameId
    <2>4. CASE actor' = NULL /\ ~Inside
      BY <1>1, <2>1, <2>4, SameId
    <2>5. CASE actor' = NULL /\ Return
      <3>1. Front(readers) # readers
        <4>1. Len(Front(readers)) = Len(readers) - 1 /\ Len(readers) \in Nat
          BY FrontOf DEF IdInv, StackInv
        <4> QED BY <4>1
      <3> QED BY <1>2, <2>5, <3>1 DEF Continue, Return
    <2> QED BY <2>2, <2>3, <2>4, <2>5
  <1>3. CASE Return /\ (UNCHANGED actor \/ actor' = NULL)
    BY <1>1, <1>3, ReturnStack, SameId DEF Return, IdInv
  <1>4. CASE ~Inside /\ Call("skip") /\ UNCHANGED actor
    BY <1>1, <1>4, CallStack, SameId DEF Call, IdInv, Readers, Parts
  <1>5. CASE ~Inside /\ Call("room_actor") /\ actor' = NULL
    BY <1>1, <1>5, CallStack, SameId DEF Call, IdInv, Readers, Parts
  <1> QED BY <1>2, <1>3, <1>4, <1>5

-----------------------------------------------------------------------------
(* The steps. *)

\* Of room_load_all, of file_chunk_skip_section and of account_load.
LEMMA OuterSteps ==
    ASSUME IdInv, LoadRoom \/ SkipTopLevel \/ SkipEnds \/ SkipChunk \/ AccountField
    PROVE  IdInv'
  <1>1. CASE LoadRoom
    BY <1>1, ReadStep DEF LoadRoom, GotSection, Got, Reading, Inside, Parts, Unread, diskVars
  <1>2. CASE SkipTopLevel
    BY <1>2, ReadStep DEF SkipTopLevel, Reading, Inside, Parts, Unread, diskVars
  <1>3. CASE SkipEnds
    BY <1>3, ReadStep DEF SkipEnds, Got, Reading, Unread, diskVars
  <1>4. CASE SkipChunk
    BY <1>4, ReadStep DEF SkipChunk, Reading, Unread, diskVars
  <1>5. CASE AccountField
    BY <1>5, ReadStep DEF AccountField, Got, Reading, diskVars
  <1> QED BY <1>1, <1>2, <1>3, <1>4, <1>5

\* Of appearance_read_section and room_read_section.
LEMMA PartSteps ==
    ASSUME IdInv, AppearanceEnds \/ AppearanceField \/ RoomEnds \/ RoomExit \/ PassOver
    PROVE  IdInv'
  <1>1. CASE AppearanceEnds
    BY <1>1, ReadStep DEF AppearanceEnds, GotSection, Got, Reading, Unread, diskVars
  <1>2. CASE AppearanceField
    <2>1. Inside /\ readers # <<>> /\ Continue /\ UNCHANGED <<on_actor_id, world, saving>>
      BY <1>2 DEF AppearanceField, Got, Reading, Inside, Parts, Unread, diskVars
    <2>2. "id" \in DOMAIN actor => "id" \in DOMAIN actor' /\ actor'.id = actor.id
      BY <1>2 DEF AppearanceField
    <2> QED BY <2>1, <2>2, ReadStep
  <1>3. CASE RoomEnds
    BY <1>3, ReadStep DEF RoomEnds, GotSection, Got, Reading, Unread, diskVars
  <1>4. CASE RoomExit
    <2>1. Inside /\ readers # <<>>
      BY <1>4 DEF RoomExit, GotSection, Got, Reading, Inside, Parts
    <2>2. CASE Fail("undefined")
      BY <2>2, FailStep
    <2>3. CASE ~Fail("undefined")
      <3> DEFINE parsed == ParsedExit(Chunk.value)
      <3>1. /\ actor' = [actor EXCEPT !.room[parsed.dir] = parsed.exit]
            /\ Continue /\ UNCHANGED on_actor_id /\ Unread
        BY <1>4, <2>3 DEF RoomExit
      <3> HIDE DEF parsed
      <3>2. "id" \in DOMAIN actor => "id" \in DOMAIN actor' /\ actor'.id = actor.id
        BY <3>1
      <3> QED BY <2>1, <3>1, <3>2, ReadStep DEF Unread, diskVars
    <2> QED BY <2>2, <2>3
  <1>5. CASE PassOver
    <2>1. readers # <<>>
      BY <1>5 DEF PassOver, Reading
    <2> QED BY <1>5, <2>1, ReadStep DEF PassOver, Unread, diskVars
  <1> QED BY <1>1, <1>2, <1>3, <1>4, <1>5

\* A chunk is read for the actor, which is there or made by actor_init.
LEMMA ForActor ==
    ASSUME IdInv, WithActor, StackInv',
           "id" \in DOMAIN ActorAtHand =>
             "id" \in DOMAIN actor' /\ actor'.id = ActorAtHand.id
    PROVE  IdInv'
  <1>1. UNCHANGED <<world, saving>> /\ readers # <<>>
    BY DEF WithActor, NeedsActor, Reading, Unread, diskVars
  <1>2. SaveApart'
    BY <1>1 DEF IdInv, SaveApart
  <1>3. CASE actor = NULL
    <2>1. IdsLeft /\ on_actor_id' = NextId /\ ActorAtHand = actor_init
      BY <1>3 DEF WithActor, ActorAtHand
    <2>2. "id" \in DOMAIN actor_init /\ actor_init.id = on_actor_id
      BY DEF actor_init, actor_init_internal
    <2> QED BY <1>1, <1>2, <2>1, <2>2, NewId
  <1>4. CASE actor # NULL
    <2>1. UNCHANGED on_actor_id /\ ActorAtHand = actor
      BY <1>4 DEF WithActor, ActorAtHand
    <2> QED BY <1>1, <1>2, <1>4, <2>1, SameId
  <1> QED BY <1>3, <1>4

\* Of actor_load, but for its end.
LEMMA ActorSteps ==
    ASSUME IdInv, ReadActor
    PROVE  IdInv'
  <1>1. CASE ActorId
    <2>1. readers # <<>> /\ atoi(Chunk.value) \in Nat
      <3>1. DOMAIN Numeral \subseteq Nat
        BY StorageAssumption
      <3> QED BY <1>1, <3>1 DEF ActorId, GotId, GotSection, Got, Reading, atoi
    <2>2. CASE Fail("actor_id") \/ Fail("out_of_ids")
      BY <2>2, FailStep
    <2>3. CASE ~(Fail("actor_id") \/ Fail("out_of_ids"))
      <3>1. /\ Persistent(atoi(Chunk.value))
            /\ actor' = actor_init_persistent(atoi(Chunk.value))
            /\ Continue /\ UNCHANGED on_actor_id /\ Unread
        BY <1>1, <2>3 DEF ActorId
      <3>2. StackInv' /\ SaveApart'
        BY <3>1, KeepStack DEF Continue, IdInv, SaveApart, Unread, diskVars
      <3> QED BY <2>1, <3>1, <3>2, PersistentId DEF Unread
    <2> QED BY <2>2, <2>3
  <1>2. CASE OutOfIds
    BY <1>2, FailStep DEF OutOfIds
  <1>3. CASE ActorField
    <2>1. WithActor /\ Continue
      BY <1>3 DEF ActorField
    <2>2. StackInv'
      BY <2>1, KeepStack DEF Continue, IdInv
    <2>3. "id" \in DOMAIN ActorAtHand => "id" \in DOMAIN actor' /\ actor'.id = ActorAtHand.id
      BY <1>3 DEF ActorField
    <2> QED BY <2>1, <2>2, <2>3, ForActor
  <1>4. CASE ActorSection
    <2>1. WithActor /\ ~Inside
      BY <1>4 DEF ActorSection, WithActor, NeedsActor, Reading, Inside, ActorReaders, Parts
    <2>2. \E r \in {"appearance", "room", "skip"} : Call(r)
      BY <1>4 DEF ActorSection
    <2>3. StackInv'
      BY <2>1, <2>2, CallStack DEF Call, IdInv, Readers
    <2>4. "id" \in DOMAIN ActorAtHand => "id" \in DOMAIN actor' /\ actor'.id = ActorAtHand.id
      BY <1>4 DEF ActorSection
    <2> QED BY <2>1, <2>3, <2>4, ForActor
  <1>5. CASE ActorStrayEnd
    <2>1. WithActor /\ Continue /\ actor' = ActorAtHand
      BY <1>5 DEF ActorStrayEnd
    <2>2. StackInv'
      BY <2>1, KeepStack DEF Continue, IdInv
    <2> QED BY <2>1, <2>2, ForActor
  <1> QED BY <1>1, <1>2, <1>3, <1>4, <1>5 DEF ReadActor

\* The actor enters the world, or not, and is gone from actor_load.
LEMMA ActorTaken ==
    ASSUME IdInv, UNCHANGED on_actor_id, actor' = NULL, StackInv', ~Inside', SaveApart',
           \/ UNCHANGED world
           \/ \E a : AddToWorld(a) /\ actor # NULL /\
                ("id" \in DOMAIN actor => "id" \in DOMAIN a /\ a.id = actor.id)
    PROVE  IdInv'
  <1>1. ActorInv'
    BY DEF ActorInv
  <1>2. CASE UNCHANGED world
    BY <1>1, <1>2, KeepWorld DEF IdInv, SaveApart
  <1>3. ASSUME NEW a, AddToWorld(a), actor # NULL,
               "id" \in DOMAIN actor => "id" \in DOMAIN a /\ a.id = actor.id
        PROVE  IdInv'
    <2>1. Issued(a) /\ Fresh(a)
      BY <1>3 DEF IdInv, ActorInv, Issued, Fresh
    <2> QED BY <1>1, <1>3, <2>1, AddedToWorld DEF IdInv, SaveApart
  <1> QED BY <1>2, <1>3

\* What is added to the world has the id of the actor that was loaded.
LEMMA RoomTaken ==
    ASSUME TakeRoom
    PROVE  UNCHANGED world \/ (AddToWorld(actor) /\ actor # NULL)
  BY DEF TakeRoom

LEMMA CharacterEnters ==
    ASSUME NEW b, EnterPlaying(b)
    PROVE  \/ UNCHANGED world
           \/ \E a : AddToWorld(a) /\ b # NULL /\
                ("id" \in DOMAIN b => "id" \in DOMAIN a /\ a.id = b.id)
  <1> DEFINE a == [b EXCEPT !.long_name = b.name, !.player = playing]
  <1>1. "id" \in DOMAIN b => "id" \in DOMAIN a /\ a.id = b.id
    OBVIOUS
  <1>2. UNCHANGED world \/ (AddToWorld(a) /\ b # NULL)
    BY DEF EnterPlaying, CharacterValid
  <1> HIDE DEF a
  <1> QED BY <1>1, <1>2

LEMMA Closed ==
    ASSUME IdInv, CloseFile
    PROVE  StackInv' /\ ~Inside' /\ SaveApart' /\ actor' = NULL
  BY NewStack DEF CloseFile, SaveApart, Readers, Parts

LEMMA EndSteps ==
    ASSUME IdInv, RoomActorEnds \/ CharacterRejected \/ EndOfFile \/ AccountEnds \/ NoColon
    PROVE  IdInv'
  <1>1. CASE RoomActorEnds
    <2>1. readers # <<>> /\ Return /\ actor' = NULL /\ UNCHANGED <<on_actor_id, saving>> /\ TakeRoom
      BY <1>1 DEF RoomActorEnds, GotSection, Got, Reading, diskVars
    <2>2. StackInv' /\ ~Inside' /\ SaveApart'
      BY <2>1, ReturnStack DEF Return, IdInv, SaveApart
    <2> QED BY <2>1, <2>2, RoomTaken, ActorTaken
  <1>2. CASE CharacterRejected
    <2>1. CloseFile /\ EnterPlaying(NULL) /\ UNCHANGED on_actor_id
      BY <1>2 DEF CharacterRejected
    <2>2. UNCHANGED world
      BY <2>1 DEF EnterPlaying, CharacterValid
    <2> QED BY <2>1, <2>2, Closed, ActorTaken
  <1>3. CASE EndOfFile
    <2>1. CloseFile /\ UNCHANGED on_actor_id
      BY <1>3 DEF EndOfFile
    <2>2. EnterPlaying(actor) \/ TakeRoom \/ UNCHANGED world
      BY <1>3 DEF EndOfFile
    <2> QED BY <2>1, <2>2, Closed, RoomTaken, CharacterEnters, ActorTaken
  <1>4. CASE AccountEnds
    BY <1>4, Closed, ActorTaken DEF AccountEnds
  <1>5. CASE NoColon
    BY <1>5, FailStep DEF NoColon
  <1> QED BY <1>1, <1>2, <1>3, <1>4, <1>5

\* What a client asks for, while no file is read.
LEMMA ClientSteps ==
    ASSUME IdInv, Client
    PROVE  IdInv'
  <1>1. readers = <<>> /\ ~Inside /\ saving = "none"
    BY DEF Client, LogIn, LogOut, CreateAccount, CreateCharacter, Play, Quit, Idle, Inside
  <1>2. CASE LogIn
    <2>1. StackInv' /\ ~Inside'
      BY <1>2, NewStack DEF LogIn, Readers, Parts
    <2> QED BY <1>1, <1>2, <2>1, SameId DEF LogIn, diskVars, SaveApart
  <1>3. CASE LogOut
    BY <1>1, <1>3, KeepStack, SameId DEF LogOut, diskVars, SaveApart, IdInv
  <1>4. CASE CreateAccount
    BY <1>1, <1>4, KeepStack, SameId DEF CreateAccount, SaveApart, IdInv
  <1>5. ASSUME NEW n \in TypedNames, CreateCharacter(n)
        PROVE  IdInv'
    <2>1. CASE Fail("out_of_ids")
      BY <2>1, FailStep
    <2>2. CASE ~Fail("out_of_ids")
      <3>1. /\ IdsLeft /\ on_actor_id' = NextId /\ actor' = NewCharacter(n)
            /\ UNCHANGED <<world, readers>>
        BY <1>5, <2>2 DEF CreateCharacter
      <3>2. "id" \in DOMAIN actor' /\ actor'.id = on_actor_id
        BY <3>1 DEF NewCharacter, actor_init, actor_init_internal
      <3>3. StackInv' /\ SaveApart'
        BY <1>1, <3>1, KeepStack DEF IdInv, SaveApart
      <3> QED BY <3>1, <3>2, <3>3, NewId
    <2> QED BY <2>1, <2>2
  <1>6. ASSUME NEW n \in TypedNames, Play(n)
        PROVE  IdInv'
    <2>1. StackInv' /\ ~Inside'
      BY <1>1, <1>6, NewStack DEF Play, Readers, Parts
    <2> QED BY <1>1, <1>6, <2>1, NoActor DEF Play, SaveApart
  <1>7. ASSUME NEW k \in Characters, Quit(k)
        PROVE  IdInv'
    <2>1. k \in 1 .. Len(world) /\ world' = RemoveAt(world, k)
      BY <1>7 DEF Quit, Characters
    <2>2. WorldInv' /\ \A a : Fresh(a) => Fresh(a)'
      BY <1>7, <2>1, QuitWorld DEF Quit
    <2>3. ActorInv'
      BY <1>1, <1>7, <2>2 DEF Quit, IdInv, ActorInv, Issued, Inside
    <2>4. StackInv'
      BY <1>7, KeepStack DEF Quit, IdInv
    <2> QED BY <1>1, <1>7, <2>2, <2>3, <2>4 DEF Quit, IdInv, diskVars
  <1> QED BY <1>2, <1>3, <1>4, <1>5, <1>6, <1>7 DEF Client

LEMMA SaveSteps ==
    ASSUME IdInv, Save
    PROVE  IdInv'
  <1>1. readers = <<>> /\ UNCHANGED <<readers, on_actor_id, world>>
    BY DEF IdInv, Save, SaveCharacter, OpenAccount, SaveAccount
  <1>2. StackInv' /\ ~Inside /\ ~Inside' /\ SaveApart'
    BY <1>1, KeepStack DEF IdInv, Inside, SaveApart
  <1>3. UNCHANGED actor \/ actor' = NULL
    BY DEF Save, SaveCharacter, OpenAccount, SaveAccount
  <1> QED BY <1>1, <1>2, <1>3, SameId

\* The process starts, for the first time or again.
LEMMA BootStep ==
    ASSUME NEW r, r \in {<<>>, <<"rooms">>}
    PROVE  /\ r \in Seq(Readers) /\ (r = <<>> \/ Last(r) \notin Parts)
           /\ \A k \in 1 .. Len(r) - 1 : r[k] \notin Parts
  <1>1. CASE r = <<>>
    BY <1>1
  <1>2. CASE r = <<"rooms">>
    BY <1>2 DEF Readers, Parts, Last
  <1> QED BY <1>1, <1>2

LEMMA IdInvariant == Spec => []IdInv
  <1>1. Init => IdInv
    <2> SUFFICES ASSUME Init
                 PROVE  IdInv
      OBVIOUS
    <2>1. readers \in {<<>>, <<"rooms">>} /\ world = <<>> /\ actor = NULL /\ saving = "none"
      BY DEF Init
    <2>2. StackInv /\ ~Inside
      BY <2>1, BootStep DEF StackInv, Inside
    <2>3. on_actor_id \in MAX_PERSISTENT_ACTOR_ID + 1 .. MAX_ACTOR_ID
      BY StorageAssumption DEF Init
    <2>4. world \in Seq({}) /\ Len(world) = 0
      BY <2>1
    <2>5. WorldInv
      BY <2>4 DEF WorldInv, IdsUnique
    <2> QED BY <2>1, <2>2, <2>3, <2>5 DEF IdInv, ActorInv
  <1>2. IdInv /\ [Next]_vars => IdInv'
    <2> SUFFICES ASSUME IdInv, [Next]_vars
                 PROVE  IdInv'
      OBVIOUS
    <2>1. CASE ReadRooms
      BY <2>1, OuterSteps, EndSteps DEF ReadRooms
    <2>2. CASE ReadActor
      BY <2>2, ActorSteps
    <2>3. CASE ReadPart
      BY <2>3, OuterSteps, PartSteps DEF ReadPart
    <2>4. CASE ReadAccount
      BY <2>4, OuterSteps, EndSteps DEF ReadAccount
    <2>5. CASE NoColon \/ CharacterRejected \/ EndOfFile
      BY <2>5, EndSteps
    <2>6. CASE Client
      BY <2>6, ClientSteps
    <2>7. CASE Save
      BY <2>7, SaveSteps
    <2>8. CASE Restart
      <3>1. /\ readers' \in {<<>>, <<"rooms">>} /\ world' = <<>> /\ actor' = NULL
            /\ saving' = "none" /\ on_actor_id' = MAX_PERSISTENT_ACTOR_ID + 1
        BY <2>8 DEF Restart, Boot
      <3>2. StackInv' /\ ~Inside'
        BY <3>1, BootStep DEF StackInv, Inside
      <3>3. world' \in Seq({}) /\ Len(world') = 0
        BY <3>1
      <3>4. WorldInv'
        BY <3>3 DEF WorldInv, IdsUnique
      <3> QED BY <3>1, <3>2, <3>4, StorageAssumption DEF IdInv, ActorInv
    <2>9. CASE UNCHANGED vars
      BY <2>9, KeepStack, SameId DEF vars, diskVars, SaveApart, IdInv
    <2> QED BY <2>1, <2>2, <2>3, <2>4, <2>5, <2>6, <2>7, <2>8, <2>9 DEF Next
  <1> QED BY <1>1, <1>2, PTL DEF Spec

\* No actor in the world has the id of another, or none, however often rooms and
\* characters are loaded, created and left, and the server is started again:
\* actor_init gives no id out twice (actor.c:30).
THEOREM IdsAreUnique == Spec => []IdsUnique
  <1>1. IdInv => IdsUnique
    BY DEF IdInv, WorldInv
  <1> QED BY <1>1, IdInvariant, PTL

-----------------------------------------------------------------------------
(* Letters. *)

LEMMA LowerOfLetter ==
    /\ \A c \in DOMAIN Capital : LowerOf(c) = c /\ LowerOf(Capital[c]) = c
    /\ \A l \in Letters : LowerOf(l) \in DOMAIN Capital
    /\ \A x : x \notin Letters => LowerOf(x) = x
  <1>1. ASSUME NEW c \in DOMAIN Capital
        PROVE  LowerOf(c) = c
    <2>1. ~ \E d \in DOMAIN Capital : Capital[d] = c
      BY NamesAssumption
    <2> QED BY <2>1 DEF LowerOf
  <1>2. ASSUME NEW c \in DOMAIN Capital
        PROVE  LowerOf(Capital[c]) = c
    <2>1. \A d \in DOMAIN Capital : Capital[d] = Capital[c] => d = c
      BY NamesAssumption
    <2> QED BY <2>1 DEF LowerOf
  <1>3. \A x : x \notin Letters => LowerOf(x) = x
    BY DEF LowerOf, Letters
  <1> QED BY <1>1, <1>2, <1>3 DEF Letters

LEMMA LetterTokens ==
    /\ Letters \subseteq Tokens /\ DOMAIN Capital \subseteq Letters
    /\ Letters \cap (Whitespace \cup {"#", ":", "~"}) = {}
  BY NamesAssumption DEF Letters

\* str_to_lower and str_capitalize change the letters, one by one.
LEMMA LowerString ==
    ASSUME NEW n \in Name
    PROVE  /\ str_to_lower(n) \in Seq(DOMAIN Capital) /\ str_to_lower(n) \in Name
           /\ Len(str_to_lower(n)) = Len(n)
           /\ \A k \in 1 .. Len(n) : str_to_lower(n)[k] = LowerOf(n[k])
  <1>1. n \in Seq(Letters) /\ n # <<>> /\ Len(n) \in Nat /\ Len(n) # 0
    BY DEF Name
  <1>2. \A k \in 1 .. Len(n) : LowerOf(n[k]) \in DOMAIN Capital
    BY <1>1, LowerOfLetter
  <1> DEFINE low == [k \in 1 .. Len(n) |-> LowerOf(n[k])]
  <1>3. /\ low \in Seq(DOMAIN Capital) /\ Len(low) = Len(n)
        /\ \A k \in 1 .. Len(n) : low[k] = LowerOf(n[k])
    BY <1>1, <1>2
  <1>4. str_to_lower(n) = low
    BY DEF str_to_lower
  <1> HIDE DEF low
  <1>5. low \in Seq(Letters) /\ low # <<>>
    BY <1>1, <1>3, LetterTokens
  <1> QED BY <1>3, <1>4, <1>5 DEF Name

LEMMA CapitalString ==
    ASSUME NEW n \in Name
    PROVE  /\ str_capitalize(n) \in Name
           /\ str_to_lower(str_capitalize(n)) = str_to_lower(n)
  <1>1. n \in Seq(Letters) /\ n # <<>> /\ Len(n) \in Nat /\ Len(n) # 0
    BY DEF Name
  <1> DEFINE T(k) == IF k = 1 /\ LowerOf(n[1]) \in DOMAIN Capital
                     THEN Capital[LowerOf(n[1])] ELSE LowerOf(n[k])
             cap == [k \in 1 .. Len(n) |-> T(k)]
  <1>2. ASSUME NEW k \in 1 .. Len(n)
        PROVE  T(k) \in Letters /\ LowerOf(T(k)) = LowerOf(n[k])
    <2>1. LowerOf(n[k]) \in DOMAIN Capital
      BY <1>1, LowerOfLetter
    <2>2. CASE k = 1
      BY <2>1, <2>2, LowerOfLetter DEF Letters
    <2>3. CASE k # 1
      BY <2>1, <2>3, LowerOfLetter DEF Letters
    <2> QED BY <2>2, <2>3
  <1> HIDE DEF T
  <1>3. cap \in Seq(Letters) /\ Len(cap) = Len(n) /\ \A k \in 1 .. Len(n) : cap[k] = T(k)
    BY <1>1, <1>2
  <1>4. str_capitalize(n) = cap
    BY DEF str_capitalize, T
  <1> HIDE DEF cap
  <1>5. cap \in Name
    BY <1>1, <1>3 DEF Name
  <1>6. str_to_lower(cap) = str_to_lower(n)
    <2>1. str_to_lower(cap) = [k \in 1 .. Len(n) |-> LowerOf(cap[k])]
      BY <1>3 DEF str_to_lower
    <2>2. str_to_lower(n) = [k \in 1 .. Len(n) |-> LowerOf(n[k])]
      BY DEF str_to_lower
    <2>3. \A k \in 1 .. Len(n) : LowerOf(cap[k]) = LowerOf(n[k])
      BY <1>2, <1>3
    <2> QED BY <2>1, <2>2, <2>3
  <1> QED BY <1>4, <1>5, <1>6

-----------------------------------------------------------------------------
(* Types of what is written.                                                 *)

LEMMA TextOf ==
    Name \subseteq Text /\ NULL \notin Text /\ <<>> \in Text
  <1>1. Seq(Letters) \subseteq Seq(Tokens)
    BY LetterTokens
  <1> QED BY <1>1, NullAssumption DEF Name, Text

LEMMA WordText ==
    /\ \A w \in Words : w \in Tokens /\ <<w>> \in Text
    /\ {"id", "location_id", "dead", "true", "false", "appearance", "name", "long_name",
        "description", "room", "exit", "username", "password_hash", "character_names",
        "ann", "$6$", "end", " ", "\n", "#", ":", "~"} \subseteq Words
  <1>1. \A w \in Tokens : <<w>> \in Seq(Tokens)
    OBVIOUS
  <1> QED BY <1>1, WordsAssumption DEF Words, Text

LEMMA ThreeTokens ==
    ASSUME NEW T, NEW a \in T, NEW b \in T, NEW c \in T
    PROVE  <<a, b, c>> \in Seq(T)
  OBVIOUS

LEMMA FiveTokens ==
    ASSUME NEW T, NEW a \in T, NEW b \in T, NEW c \in T, NEW d \in T, NEW e \in T
    PROVE  <<a, b, c, d, e>> \in Seq(T)
  OBVIOUS

LEMMA FieldText ==
    ASSUME NEW tag \in Tokens, NEW value \in Text
    PROVE  file_chunk_write_field(tag, value) \in Text
  <1>1. <<tag, ":">> \in Seq(Tokens) /\ <<"~", "\n">> \in Seq(Tokens)
    <2>1. ":" \in Tokens /\ "~" \in Tokens /\ "\n" \in Tokens
      BY WordText
    <2> QED BY <2>1
  <1>2. <<tag, ":">> \o value \in Seq(Tokens)
    BY <1>1 DEF Text
  <1> QED BY <1>1, <1>2 DEF file_chunk_write_field, Text

LEMMA FieldUnlessText ==
    ASSUME NEW tag \in Tokens, NEW absent \in BOOLEAN, NEW value, ~absent => value \in Text
    PROVE  FieldUnless(absent, tag, value) \in Text
  BY FieldText, TextOf DEF FieldUnless

LEMMA Joined ==
    ASSUME NEW s \in Text, NEW t \in Text
    PROVE  s \o t \in Text
  BY DEF Text

\* The actor that player_create_character made for a name.
Made(a, n) ==
    /\ a \in Actor
    /\ a.name = str_capitalize(n) /\ a.long_name = NULL /\ a.description = NULL
    /\ ~Persistent(a.id) /\ a.location_id = StartLocation /\ a.dead
    /\ a.room = NULL /\ a.player = NULL

LEMMA MadeIsSaved ==
    ASSUME NEW n \in Name, NEW a, Made(a, n)
    PROVE  actor_save(a) \in Text
  <1>1. a.name \in Text /\ a.name # NULL
    BY CapitalString, TextOf DEF Made
  <1>2. <<Numeral[a.location_id]>> \in Text
    BY StorageAssumption DEF Made, Text
  <1> DEFINE id    == FieldUnless(~Persistent(a.id), "id", <<Numeral[a.id]>>)
             place == FieldUnless(a.location_id = INVALID_ACTOR_ID, "location_id", <<Numeral[a.location_id]>>)
             dead  == FieldUnless(~a.dead, "dead", <<"true">>)
             name  == FieldUnless(a.name = NULL, "name", a.name)
             long  == FieldUnless(a.long_name = NULL, "long_name", a.long_name)
             desc  == FieldUnless(a.description = NULL, "description", a.description)
             start == file_chunk_write_section_start("appearance")
             end   == file_chunk_write_section_end("appearance")
  <1>3. id \in Text
    BY FieldUnlessText, WordText DEF Made
  <1>4. place \in Text
    BY <1>2, FieldUnlessText, WordText
  <1>5. dead \in Text
    <2>1. <<"true">> \in Text /\ (~a.dead) \in BOOLEAN
      BY WordText
    <2> QED BY <2>1, FieldUnlessText, WordText
  <1>6. name \in Text
    BY <1>1, FieldUnlessText, WordText
  <1>7. long \in Text /\ desc \in Text
    BY FieldUnlessText, WordText DEF Made
  <1>8. start \in Text /\ end \in Text
    <2>1. /\ "#" \in Tokens /\ "end" \in Tokens /\ " " \in Tokens /\ "\n" \in Tokens
          /\ "appearance" \in Tokens
      BY WordText
    <2>2. <<"#", "appearance", "\n">> \in Seq(Tokens)
      BY <2>1, ThreeTokens
    <2>3. <<"#", "end", " ", "appearance", "\n">> \in Seq(Tokens)
      BY <2>1, FiveTokens
    <2> QED BY <2>2, <2>3 DEF file_chunk_write_section_start, file_chunk_write_section_end, Text
  <1>9. a.room = NULL
    BY DEF Made
  <1>10. actor_save(a) = id \o place \o dead \o (start \o name \o long \o desc \o end) \o <<>>
    BY <1>9 DEF actor_save, appearance_write_section
  <1> HIDE DEF id, place, dead, name, long, desc, start, end
  <1>11. start \o name \o long \o desc \o end \in Text
    BY <1>6, <1>7, <1>8, Joined
  <1>12. id \o place \o dead \in Text
    BY <1>3, <1>4, <1>5, Joined
  <1> QED BY <1>10, <1>11, <1>12, Joined, TextOf

LEMMA AccountIsSaved ==
    ASSUME NEW acct \in Account, acct.password_hash \in Text
    PROVE  account_save(acct) \in Text
  <1>1. acct.username \in Text /\ acct.character_names \in Text
    BY DEF Account
  <1>2. /\ file_chunk_write_field("username", acct.username) \in Text
        /\ file_chunk_write_field("password_hash", acct.password_hash) \in Text
        /\ file_chunk_write_field("character_names", acct.character_names) \in Text
    BY <1>1, FieldText, WordText
  <1> QED BY <1>2, Joined DEF account_save

\* str_to_lower of a list of names.
LEMMA LowerType ==
    ASSUME NEW s \in Text
    PROVE  str_to_lower(s) \in Text
  <1>1. \A k \in 1 .. Len(s) : LowerOf(s[k]) \in Tokens
    <2>1. \A k \in 1 .. Len(s) : s[k] \in Tokens
      BY DEF Text
    <2>2. \A x \in Tokens : LowerOf(x) \in Tokens
      <3>1. \A x : x \in Letters \/ LowerOf(x) = x
        BY LowerOfLetter
      <3> QED BY <3>1, LowerOfLetter, LetterTokens
    <2> QED BY <2>1, <2>2
  <1>2. Len(s) \in Nat
    BY DEF Text
  <1> QED BY <1>1, <1>2 DEF str_to_lower, Text

LEMMA AddedCharacterType ==
    ASSUME NEW acct \in Account, NEW name \in Text
    PROVE  /\ account_add_character(acct, name) \in Account
           /\ account_add_character(acct, name).password_hash = acct.password_hash
           /\ account_add_character(acct, name).username = acct.username
  <1> DEFINE list == IF acct.character_names = <<>> THEN name
                     ELSE acct.character_names \o <<" ">> \o name
  <1>1. list \in Text
    <2>1. acct.character_names \in Text /\ <<" ">> \in Text
      BY WordText DEF Account
    <2> QED BY <2>1, Joined
  <1>2. account_add_character(acct, name) = [acct EXCEPT !.character_names = str_to_lower(list)]
    BY DEF account_add_character
  <1> HIDE DEF list
  <1>3. str_to_lower(list) \in Text
    BY <1>1, LowerType
  <1> QED BY <1>2, <1>3 DEF Account

-----------------------------------------------------------------------------
(* Types: what TypeOK rests on.                                              *)

\* account_load reads the file of an account alone.
InAccount == readers # <<>> /\ Last(readers) = "account"
AccountAlone == \A k \in 1 .. Len(readers) : readers[k] = "account" => Len(readers) = 1

\* The readers that open a file.
Openers == {"rooms", "character", "account"}
Opened == readers # <<>> => readers[1] \in Openers

FilesOK ==
    /\ disk \in Disks
    /\ account_file \in TextOrNull
    /\ DOMAIN pcs = DOMAIN disk.pcs
    /\ \A n \in DOMAIN pcs : pcs[n] \in TextOrNull
    /\ created \subseteq DOMAIN pcs

ReadingOK ==
    /\ StackInv /\ AccountAlone /\ Opened
    /\ file \in Text /\ pos \in Nat \ {0}

ActorOK ==
    /\ actor \in Actor \cup {NULL}
    /\ Inside => actor \in Actor
    /\ Inside /\ Last(readers) = "room" => actor.room \in Room

AccountOK ==
    /\ account \in Account \cup {NULL}
    /\ InAccount => account \in Account
    /\ server = "running" /\ ~InAccount /\ account # NULL => account.password_hash \in Text

\* What is written is an account, and before it the actor that was made.
SavingOK ==
    /\ saving \in {"none", "character", "account_next", "account"}
    /\ saving # "none" => /\ readers = <<>>
                          /\ account \in Account /\ account.password_hash \in Text
    /\ saving \in {"character", "account_next"} => actor # NULL
    /\ saving # "none" /\ actor # NULL => \E n \in TypedNames : Made(actor, n)
    /\ saving = "none" /\ readers = <<>> => actor = NULL

WorldOK ==
    /\ server \in {"running"} \cup Failures
    /\ playing \in TextOrNull
    /\ on_actor_id \in MAX_PERSISTENT_ACTOR_ID + 1 .. MAX_ACTOR_ID
    /\ world \in Seq(Actor)
    /\ answer \in {"none", "entered", "error"}

StorageInv ==
    FilesOK /\ ReadingOK /\ ActorOK /\ AccountOK /\ SavingOK /\ WorldOK

\* The chunk that is read.
LEMMA ChunkFacts ==
    ASSUME ReadingOK
    PROVE  /\ Chunk.tag \in Text /\ Chunk.value \in Text /\ Chunk.next \in Nat \ {0}
           /\ Chunk.type \in {"field", "start", "end"}
  <1>1. file \in Seq(Tokens) /\ pos \in Nat \ {0}
    BY DEF ReadingOK, Text
  <1>2. Chunk \in Chunks(Tokens)
    BY <1>1, ChunkType DEF Chunk
  <1> QED BY <1>2 DEF Chunks, Text

\* A number that atoi reads is an id.
LEMMA AtoiType == \A s : atoi(s) \in ActorIDs
  <1>1. DOMAIN Numeral = 1 .. MAX_ACTOR_ID
    BY StorageAssumption
  <1>2. DOMAIN Numeral \subseteq ActorIDs /\ 0 \in ActorIDs
    BY <1>1, StorageAssumption DEF ActorIDs
  <1> QED BY <1>2 DEF atoi

\* While a file is read, nothing is saved, and the reading changes no file.
LEMMA FilesStay ==
    ASSUME StorageInv, readers # <<>>, UNCHANGED diskVars, readers' = <<>> => actor' = NULL
    PROVE  FilesOK' /\ SavingOK'
  <1>1. FilesOK'
    BY DEF diskVars, StorageInv, FilesOK
  <1>2. saving = "none" /\ saving' = "none"
    BY DEF diskVars, StorageInv, SavingOK
  <1> QED BY <1>1, <1>2 DEF SavingOK

LEMMA StackFacts ==
    ASSUME StorageInv, readers # <<>>
    PROVE  /\ StackInv /\ AccountAlone /\ Opened
           /\ file \in Text /\ Chunk.next \in Nat \ {0}
           /\ readers \in Seq(Readers) /\ Len(readers) \in Nat \ {0}
  <1>1. StackInv /\ AccountAlone /\ Opened /\ file \in Text /\ Chunk.next \in Nat \ {0}
    BY ChunkFacts DEF StorageInv, ReadingOK
  <1> QED BY <1>1 DEF StackInv

LEMMA ContinueReading ==
    ASSUME StorageInv, readers # <<>>, Continue
    PROVE  ReadingOK' /\ UNCHANGED readers /\ Inside' = Inside /\ InAccount' = InAccount
  <1>1. file' \in Text /\ pos' \in Nat \ {0} /\ UNCHANGED readers
    BY StackFacts DEF Continue
  <1>2. StackInv' /\ Inside' = Inside /\ AccountAlone' /\ Opened' /\ InAccount' = InAccount
    BY <1>1, StackFacts, KeepStack DEF AccountAlone, Opened, InAccount
  <1> QED BY <1>1, <1>2 DEF ReadingOK

LEMMA ReturnReading ==
    ASSUME StorageInv, readers # <<>>, Last(readers) \notin Openers, Return
    PROVE  ReadingOK' /\ ~Inside' /\ ~InAccount' /\ readers' # <<>>
  <1>1. file' \in Text /\ pos' \in Nat \ {0} /\ readers' = Front(readers)
    BY StackFacts DEF Return
  <1>2. StackInv' /\ ~Inside'
    BY <1>1, StackFacts, ReturnStack
  <1>3. /\ Len(readers') = Len(readers) - 1 /\ readers' \in Seq(Readers)
        /\ \A k \in 1 .. Len(readers) - 1 : readers'[k] = readers[k]
    BY <1>1, StackFacts, FrontOf
  <1>4. \A k \in 1 .. Len(readers') : readers'[k] # "account"
    <2> SUFFICES ASSUME NEW k \in 1 .. Len(readers'), readers'[k] = "account"
                 PROVE  FALSE
      OBVIOUS
    <2>1. k \in 1 .. Len(readers) /\ readers[k] = "account"
      BY <1>3, StackFacts
    <2> QED BY <1>3, <2>1, StackFacts DEF AccountAlone
  <1>5. AccountAlone' /\ ~InAccount'
    BY <1>3, <1>4, StackFacts DEF AccountAlone, InAccount, Last
  <1>6. Len(readers) # 1
    BY StackFacts DEF Opened, Last
  <1>7. Opened' /\ readers' # <<>>
    <2>1. Len(readers) \in Nat \ {0} /\ Opened
      BY StackFacts
    <2>2. \A m \in Nat : m # 0 /\ m # 1 => 1 \in 1 .. m - 1 /\ m - 1 # 0
      OBVIOUS
    <2>3. 1 \in 1 .. Len(readers) - 1 /\ Len(readers) - 1 # 0
      BY <1>6, <2>1, <2>2
    <2>4. readers'[1] = readers[1] /\ readers' # <<>> /\ readers # <<>>
      BY <1>3, <2>3
    <2> QED BY <2>1, <2>4 DEF Opened
  <1> QED BY <1>1, <1>2, <1>5, <1>7 DEF ReadingOK

LEMMA CallReading ==
    ASSUME StorageInv, readers # <<>>, ~Inside, ~InAccount,
           NEW r \in Readers \ {"account"}, Call(r)
    PROVE  /\ ReadingOK' /\ ~InAccount' /\ (Inside' <=> r \in Parts)
           /\ readers' # <<>> /\ Last(readers') = r
  <1>1. file' \in Text /\ pos' \in Nat \ {0} /\ readers' = Append(readers, r)
    BY StackFacts DEF Call
  <1>2. StackInv' /\ (Inside' <=> r \in Parts)
    BY <1>1, StackFacts, CallStack
  <1>3. /\ Len(readers') = Len(readers) + 1 /\ readers'[Len(readers) + 1] = r
        /\ \A k \in 1 .. Len(readers) : readers'[k] = readers[k]
    BY <1>1, StackFacts
  <1>4. \A k \in 1 .. Len(readers) : readers[k] # "account"
    BY StackFacts DEF AccountAlone, InAccount, Last
  <1>5. AccountAlone' /\ ~InAccount'
    BY <1>3, <1>4, StackFacts DEF AccountAlone, InAccount, Last
  <1>6. readers' # <<>> /\ Last(readers') = r
    BY <1>1, <1>3, StackFacts DEF Last
  <1>7. Opened'
    BY <1>3, <1>6, StackFacts DEF Opened
  <1> QED BY <1>1, <1>2, <1>5, <1>6, <1>7 DEF ReadingOK

\* The steps that read for rooms.txt and for what is skipped.
LEMMA OuterTypes ==
    ASSUME StorageInv, LoadRoom \/ SkipTopLevel \/ SkipEnds \/ SkipChunk
    PROVE  StorageInv'
  <1>1. /\ readers # <<>> /\ server = "running" /\ ~Inside /\ ~InAccount
        /\ UNCHANGED <<diskVars, server, account, world, answer, on_actor_id>>
    BY DEF LoadRoom, SkipTopLevel, SkipEnds, SkipChunk, GotSection, Got, Reading, Unread,
           Inside, InAccount, Parts
  <1>3. WorldOK'
    BY <1>1 DEF StorageInv, WorldOK, diskVars
  <1>4. ReadingOK' /\ ~Inside' /\ ~InAccount' /\ readers' # <<>>
    <2>1. CASE LoadRoom
      BY <1>1, <2>1, CallReading DEF LoadRoom, Readers, Parts
    <2>2. CASE SkipTopLevel
      BY <1>1, <2>2, CallReading DEF SkipTopLevel, Readers, Parts
    <2>3. CASE SkipEnds
      BY <1>1, <2>3, ReturnReading DEF SkipEnds, Got, Reading, Openers
    <2>4. CASE SkipChunk
      BY <1>1, <2>4, ContinueReading DEF SkipChunk
    <2> QED BY <2>1, <2>2, <2>3, <2>4
  <1>2. FilesOK' /\ SavingOK'
    BY <1>1, <1>4, FilesStay
  <1>5. ActorOK'
    BY <1>4 DEF LoadRoom, SkipTopLevel, SkipEnds, SkipChunk, StorageInv, ActorOK
  <1>6. AccountOK'
    BY <1>1, <1>4 DEF StorageInv, AccountOK
  <1> QED BY <1>2, <1>3, <1>4, <1>5, <1>6 DEF StorageInv

\* The server stops, and everything stays.
LEMMA FailTypes ==
    ASSUME StorageInv, NEW why \in Failures, Fail(why)
    PROVE  StorageInv'
  <1>1. FilesOK' /\ SavingOK'
    BY DEF Fail, diskVars, StorageInv, FilesOK, SavingOK
  <1>2. StackInv' /\ Inside' = Inside
    BY KeepStack DEF Fail, StorageInv, ReadingOK
  <1>3. ReadingOK'
    BY <1>2 DEF Fail, StorageInv, ReadingOK, AccountAlone, Opened
  <1>4. ActorOK'
    BY <1>2 DEF Fail, StorageInv, ActorOK
  <1>5. AccountOK'
    BY DEF Fail, Failures, StorageInv, AccountOK, InAccount
  <1>6. WorldOK'
    BY DEF Fail, diskVars, StorageInv, WorldOK
  <1> QED BY <1>1, <1>3, <1>4, <1>5, <1>6 DEF StorageInv

\* A step that reads, while a file is open, changes the actor alone.
LEMMA ReaderStep ==
    ASSUME StorageInv, server = "running", readers # <<>>, ~InAccount,
           UNCHANGED <<diskVars, server, account, world, answer>>,
           on_actor_id' \in MAX_PERSISTENT_ACTOR_ID + 1 .. MAX_ACTOR_ID,
           ReadingOK', ActorOK', ~InAccount', readers' # <<>>
    PROVE  StorageInv'
  <1>1. FilesOK' /\ SavingOK'
    BY FilesStay
  <1>2. WorldOK'
    BY DEF StorageInv, WorldOK, diskVars
  <1>3. AccountOK'
    BY DEF StorageInv, AccountOK
  <1> QED BY <1>1, <1>2, <1>3 DEF StorageInv

LEMMA DirectionType == \A w : string_to_direction(w) \in 1 .. Len(Directions) + 1
  <1> SUFFICES ASSUME NEW w
               PROVE  string_to_direction(w) \in 1 .. Len(Directions) + 1
    OBVIOUS
  <1>1. Len(Directions) \in Nat
    BY DEF Directions
  <1> DEFINE n == Len(Directions)
             places == { k \in 1 .. n : w = <<Directions[k]>> } \cup {n + 1}
  <1>2. places \in SUBSET Nat /\ places # {} /\ places \subseteq 1 .. n + 1
    <2> HIDE DEF n
    <2> QED BY <1>1 DEF n
  <1>3. Min(places) \in places
    <2> HIDE DEF places
    <2> QED BY <1>2, MinOf
  <1> HIDE DEF n
  <1> QED BY <1>2, <1>3 DEF string_to_direction, n

LEMMA ExitType ==
    ASSUME NEW args \in Text
    PROVE  /\ ParsedExit(args).exit \in Exit
           /\ ParsedExit(args).dir \in 1 .. Len(Directions) + 1
  <1> DEFINE dir    == str_parse_word(args)
             to     == str_parse_word(dir.rest)
             closed == str_parse_word(to.rest)
  <1>1. dir.rest \in Text
    BY ParsedWordType DEF Text
  <1> HIDE DEF dir
  <1>2. to.rest \in Text
    BY <1>1, ParsedWordType DEF Text
  <1> HIDE DEF to
  <1>3. closed.rest \in Text
    BY <1>2, ParsedWordType DEF Text
  <1> HIDE DEF closed
  <1>4. ParsedExit(args) =
          [dir  |-> string_to_direction(dir.word),
           exit |-> [to_room |-> atoi(to.word), closed |-> closed.word = <<"true">>,
                     keyword |-> IF closed.rest = <<>> THEN NULL ELSE closed.rest]]
    BY DEF ParsedExit, dir, to, closed
  <1>5. atoi(to.word) \in ActorIDs
    BY AtoiType
  <1> DEFINE keyword == IF closed.rest = <<>> THEN NULL ELSE closed.rest
             shut == closed.word = <<"true">>
             number == atoi(to.word)
  <1>6. keyword \in TextOrNull /\ shut \in BOOLEAN
    BY <1>3 DEF TextOrNull
  <1>7. ParsedExit(args).exit = [to_room |-> number, closed |-> shut, keyword |-> keyword]
    BY <1>4
  <1> HIDE DEF keyword, shut, number
  <1>8. ParsedExit(args).exit \in Exit
    BY <1>5, <1>6, <1>7 DEF Exit, number
  <1> QED BY <1>4, <1>8, DirectionType

\* appearance_read_section and room_read_section leave an actor an actor.
LEMMA PartTypes ==
    ASSUME StorageInv, AppearanceEnds \/ AppearanceField \/ RoomEnds \/ RoomExit \/ PassOver
    PROVE  StorageInv'
  <1>1. server = "running" /\ readers # <<>> /\ Inside /\ ~InAccount
    BY DEF AppearanceEnds, AppearanceField, RoomEnds, RoomExit, PassOver, GotSection, Got,
           Reading, Inside, InAccount, Parts
  <1>2. CASE Fail("undefined")
    BY <1>2, FailTypes DEF Failures
  <1>3. CASE ~Fail("undefined")
    <2>1. Unread /\ UNCHANGED on_actor_id
      BY <1>3 DEF AppearanceEnds, AppearanceField, RoomEnds, RoomExit, PassOver
    <2>2. /\ UNCHANGED <<diskVars, server, account, world, answer>>
          /\ on_actor_id' \in MAX_PERSISTENT_ACTOR_ID + 1 .. MAX_ACTOR_ID
      BY <2>1 DEF Unread, StorageInv, WorldOK
    <2>3. CASE (AppearanceEnds \/ RoomEnds) /\ Return /\ UNCHANGED actor
      <3>1. Last(readers) \notin Openers
        BY <2>3 DEF AppearanceEnds, RoomEnds, GotSection, Got, Reading, Openers
      <3>2. ReadingOK' /\ ~Inside' /\ ~InAccount' /\ readers' # <<>>
        BY <1>1, <2>3, <3>1, ReturnReading
      <3>3. ActorOK'
        BY <2>3, <3>2 DEF StorageInv, ActorOK
      <3> QED BY <1>1, <2>2, <3>2, <3>3, ReaderStep
    <2>4. CASE PassOver
      <3>1. Continue /\ UNCHANGED actor
        BY <2>4 DEF PassOver
      <3>2. ReadingOK' /\ UNCHANGED readers /\ Inside' = Inside /\ InAccount' = InAccount
        BY <1>1, <3>1, ContinueReading
      <3>3. ActorOK'
        BY <3>1, <3>2 DEF StorageInv, ActorOK
      <3> QED BY <1>1, <2>2, <3>2, <3>3, ReaderStep
    <2>5. CASE AppearanceField
      <3>1. Continue /\ actor \in Actor /\ Chunk.value \in TextOrNull
        BY <1>1, <2>5, ChunkFacts DEF AppearanceField, StorageInv, ActorOK, TextOrNull
      <3>2. ReadingOK' /\ UNCHANGED readers /\ Inside' = Inside /\ InAccount' = InAccount
        BY <1>1, <3>1, ContinueReading
      <3>3. \/ actor' = [actor EXCEPT !.name = Chunk.value]
            \/ actor' = [actor EXCEPT !.long_name = Chunk.value]
            \/ actor' = [actor EXCEPT !.description = Chunk.value]
            \/ actor' = actor
        BY <2>5 DEF AppearanceField
      <3>4. actor' \in Actor /\ actor'.room = actor.room
        BY <3>1, <3>3 DEF Actor
      <3>5. ActorOK'
        BY <3>2, <3>4 DEF StorageInv, ActorOK
      <3> QED BY <1>1, <2>2, <3>2, <3>5, ReaderStep
    <2>6. CASE RoomExit
      <3> DEFINE parsed == ParsedExit(Chunk.value)
      <3>1. /\ Continue /\ ~(parsed.dir > Len(Directions))
            /\ actor' = [actor EXCEPT !.room[parsed.dir] = parsed.exit]
        BY <1>3, <2>6 DEF RoomExit
      <3>2. Last(readers) = "room" /\ actor \in Actor /\ actor.room \in Room
        BY <1>1, <2>6 DEF RoomExit, GotSection, Got, Reading, StorageInv, ActorOK
      <3>3. parsed.exit \in Exit /\ parsed.dir \in 1 .. Len(Directions) + 1
        BY <1>1, ChunkFacts, ExitType DEF StorageInv
      <3> HIDE DEF parsed
      <3>4. ReadingOK' /\ UNCHANGED readers /\ Inside' = Inside /\ InAccount' = InAccount
        BY <1>1, <3>1, ContinueReading
      <3>5. Len(Directions) \in Nat
        BY DEF Directions
      <3>6. parsed.dir \in 1 .. Len(Directions)
        BY <3>1, <3>3, <3>5
      <3> DEFINE room == [actor.room EXCEPT ![parsed.dir] = parsed.exit]
      <3>7. room \in Room
        BY <3>2, <3>3, <3>6 DEF Room
      <3>8. actor' = [actor EXCEPT !.room = room]
        BY <3>1, <3>2 DEF Actor
      <3> HIDE DEF room
      <3>9. actor' \in Actor /\ actor'.room \in Room
        BY <3>2, <3>7, <3>8 DEF Actor
      <3>10. ActorOK'
        BY <3>9 DEF ActorOK
      <3> QED BY <1>1, <2>2, <3>4, <3>10, ReaderStep
    <2> QED BY <1>3, <2>3, <2>4, <2>5, <2>6 DEF AppearanceEnds, RoomEnds
  <1> QED BY <1>2, <1>3

LEMMA InitTypes ==
    /\ \A id \in ActorIDs : actor_init_persistent(id) \in Actor
    /\ on_actor_id \in ActorIDs => /\ actor_init \in Actor /\ actor_init.room = NULL
                                   /\ actor_init.id = on_actor_id
  <1>1. 0 \in ActorIDs /\ NULL \in TextOrNull /\ INVALID_ACTOR_ID = 0
    BY StorageAssumption DEF ActorIDs, TextOrNull
  <1>2. actor_init_internal \in Actor
    BY <1>1 DEF Actor, actor_init_internal
  <1> QED BY <1>2 DEF Actor, actor_init_persistent, actor_init, actor_init_internal

\* Ids are given out as long as they last.
LEMMA NextIdType ==
    ASSUME WorldOK, IdsLeft
    PROVE  NextId \in MAX_PERSISTENT_ACTOR_ID + 1 .. MAX_ACTOR_ID
  <1>1. NextId = on_actor_id + 1
    BY StorageAssumption DEF WorldOK, IdsLeft, NextId
  <1> QED BY <1>1, StorageAssumption DEF WorldOK, IdsLeft

LEMMA IdIsActorId ==
    ASSUME WorldOK
    PROVE  on_actor_id \in ActorIDs /\ on_actor_id > MAX_PERSISTENT_ACTOR_ID /\ on_actor_id # 0
  BY StorageAssumption DEF WorldOK, ActorIDs

\* The actor that a chunk is for.
LEMMA ForActorTypes ==
    ASSUME StorageInv, WithActor,
           \/ Continue /\ actor' \in Actor
           \/ Call("appearance") /\ actor' \in Actor
           \/ Call("skip") /\ actor' \in Actor
           \/ Call("room") /\ actor' \in Actor /\ actor'.room \in Room
    PROVE  StorageInv'
  <1>1. server = "running" /\ readers # <<>> /\ ~Inside /\ ~InAccount
    BY DEF WithActor, NeedsActor, Reading, ActorReaders, Inside, InAccount, Parts
  <1>2. /\ UNCHANGED <<diskVars, server, account, world, answer>>
        /\ on_actor_id' \in MAX_PERSISTENT_ACTOR_ID + 1 .. MAX_ACTOR_ID
    BY NextIdType DEF WithActor, Unread, StorageInv, WorldOK
  <1>3. CASE Continue /\ actor' \in Actor
    <2>1. ReadingOK' /\ UNCHANGED readers /\ Inside' = Inside /\ InAccount' = InAccount
      BY <1>1, <1>3, ContinueReading
    <2>2. ActorOK'
      BY <1>1, <1>3, <2>1 DEF ActorOK
    <2> QED BY <1>1, <1>2, <2>1, <2>2, ReaderStep
  <1>4. ASSUME NEW r \in {"appearance", "skip", "room"}, Call(r), actor' \in Actor,
               r = "room" => actor'.room \in Room
        PROVE  StorageInv'
    <2>1. r \in Readers \ {"account"}
      BY DEF Readers
    <2>2. ReadingOK' /\ ~InAccount' /\ readers' # <<>> /\ Last(readers') = r
      BY <1>1, <1>4, <2>1, CallReading
    <2>3. ActorOK'
      BY <1>4, <2>2 DEF ActorOK
    <2> QED BY <1>1, <1>2, <2>2, <2>3, ReaderStep
  <1> QED BY <1>3, <1>4

LEMMA ActorTypes ==
    ASSUME StorageInv, ReadActor
    PROVE  StorageInv'
  <1>1. CASE Fail("actor_id") \/ Fail("out_of_ids")
    BY <1>1, FailTypes DEF Failures
  <1>2. CASE ActorId /\ ~Fail("actor_id") /\ ~Fail("out_of_ids")
    <2>1. server = "running" /\ readers # <<>> /\ ~Inside /\ ~InAccount
      BY <1>2 DEF ActorId, GotId, GotSection, Got, Reading, ActorReaders, Inside, InAccount, Parts
    <2>2. /\ Continue /\ UNCHANGED on_actor_id /\ Unread
          /\ actor' = actor_init_persistent(atoi(Chunk.value))
      BY <1>2 DEF ActorId
    <2>3. actor' \in Actor
      BY <2>2, AtoiType, InitTypes
    <2>4. ReadingOK' /\ UNCHANGED readers /\ Inside' = Inside /\ InAccount' = InAccount
      BY <2>1, <2>2, ContinueReading
    <2>5. ActorOK'
      BY <2>1, <2>3, <2>4 DEF ActorOK
    <2>6. /\ UNCHANGED <<diskVars, server, account, world, answer>>
          /\ on_actor_id' \in MAX_PERSISTENT_ACTOR_ID + 1 .. MAX_ACTOR_ID
      BY <2>2 DEF Unread, StorageInv, WorldOK
    <2> QED BY <2>1, <2>4, <2>5, <2>6, ReaderStep
  <1>3. CASE ActorField \/ ActorSection \/ ActorStrayEnd
    <2>1. WithActor
      BY <1>3 DEF ActorField, ActorSection, ActorStrayEnd
    <2>2. ActorAtHand \in Actor
      BY IdIsActorId, InitTypes DEF ActorAtHand, StorageInv, ActorOK
    <2>3. CASE ActorField
      <3>1. \/ actor' = [ActorAtHand EXCEPT !.location_id = atoi(Chunk.value)]
            \/ actor' = [ActorAtHand EXCEPT !.dead = (Chunk.value = <<"true">>)]
            \/ actor' = ActorAtHand
        BY <2>3 DEF ActorField
      <3>2. PICK n, b : n = atoi(Chunk.value) /\ b = (Chunk.value = <<"true">>)
        OBVIOUS
      <3>3. n \in ActorIDs /\ b \in BOOLEAN
        BY <3>2, AtoiType
      <3>4. actor' \in Actor
        BY <2>2, <3>1, <3>2, <3>3 DEF Actor
      <3> QED BY <2>1, <2>3, <3>4, ForActorTypes DEF ActorField
    <2>4. CASE ActorSection
      <3>1. NoExits \in Room
        BY DEF NoExits, Room
      <3>2. [ActorAtHand EXCEPT !.room = NoExits] \in Actor
            /\ [ActorAtHand EXCEPT !.room = NoExits].room \in Room
        BY <2>2, <3>1 DEF Actor
      <3> QED BY <2>1, <2>2, <2>4, <3>2, ForActorTypes DEF ActorSection
    <2>5. CASE ActorStrayEnd
      BY <2>1, <2>2, <2>5, ForActorTypes DEF ActorStrayEnd
    <2> QED BY <1>3, <2>3, <2>4, <2>5
  <1> QED BY <1>1, <1>2, <1>3 DEF ReadActor, OutOfIds

\* Actors enter the world.
LEMMA AddedTypes ==
    ASSUME world \in Seq(Actor), NEW a \in Actor, AddToWorld(a)
    PROVE  world' \in Seq(Actor)
  <1> DEFINE b == [a EXCEPT !.dead = FALSE]
  <1>1. b \in Actor
    BY DEF Actor
  <1>2. world' = <<b>> \o world
    BY DEF AddToWorld
  <1> HIDE DEF b
  <1> QED BY <1>1, <1>2

LEMMA EnterTypes ==
    ASSUME WorldOK, NEW a \in Actor \cup {NULL}, EnterPlaying(a)
    PROVE  world' \in Seq(Actor) /\ answer' \in {"none", "entered", "error"}
  <1>1. CASE ~(CharacterValid(a) /\ LocationFound(a))
    BY <1>1 DEF EnterPlaying, WorldOK
  <1>2. CASE CharacterValid(a) /\ LocationFound(a)
    <2> DEFINE c == [a EXCEPT !.long_name = a.name, !.player = playing]
    <2>1. a \in Actor /\ playing \in TextOrNull
      BY <1>2 DEF CharacterValid, WorldOK
    <2>2. c \in Actor
      BY <2>1 DEF Actor
    <2>3. AddToWorld(c) /\ answer' = "entered"
      BY <1>2 DEF EnterPlaying
    <2> HIDE DEF c
    <2> QED BY <2>2, <2>3, AddedTypes DEF WorldOK
  <1> QED BY <1>1, <1>2

LEMMA TakeTypes ==
    ASSUME WorldOK, actor \in Actor \cup {NULL}, server = "running", TakeRoom
    PROVE  world' \in Seq(Actor) /\ server' \in {"running"} \cup Failures
  <1>1. AddToWorld(actor) /\ actor \in Actor => world' \in Seq(Actor)
    BY AddedTypes DEF WorldOK
  <1> QED BY <1>1 DEF TakeRoom, WorldOK, Failures

\* The file is closed.
LEMMA ClosedTypes ==
    ASSUME StorageInv, readers # <<>>, CloseFile, UNCHANGED diskVars
    PROVE  FilesOK' /\ ReadingOK' /\ ActorOK' /\ SavingOK' /\ ~InAccount'
  <1>1. /\ readers' = <<>> /\ file' = <<>> /\ pos' = 1 /\ actor' = NULL
    BY DEF CloseFile
  <1>2. FilesOK' /\ SavingOK'
    BY <1>1, FilesStay
  <1>3. StackInv' /\ ~Inside'
    BY <1>1, NewStack DEF Readers, Parts
  <1>4. ReadingOK'
    BY <1>1, <1>3, TextOf DEF ReadingOK, AccountAlone, Opened
  <1> QED BY <1>1, <1>2, <1>3, <1>4 DEF ActorOK, InAccount

LEMMA EndTypes ==
    ASSUME StorageInv, RoomActorEnds \/ CharacterRejected \/ EndOfFile \/ NoColon
    PROVE  StorageInv'
  <1>1. CASE NoColon
    BY <1>1, FailTypes DEF NoColon, Failures
  <1>2. CASE RoomActorEnds
    <2>1. /\ server = "running" /\ readers # <<>> /\ Last(readers) \notin Openers /\ ~InAccount
          /\ TakeRoom /\ Return /\ actor' = NULL
          /\ UNCHANGED <<diskVars, account, on_actor_id, answer>>
      BY <1>2 DEF RoomActorEnds, GotSection, Got, Reading, Openers, InAccount
    <2>2. ReadingOK' /\ ~Inside' /\ ~InAccount' /\ readers' # <<>>
      BY <2>1, ReturnReading
    <2>3. FilesOK' /\ SavingOK'
      BY <2>1, FilesStay
    <2>4. world' \in Seq(Actor) /\ server' \in {"running"} \cup Failures
      BY <2>1, TakeTypes DEF StorageInv, ActorOK
    <2>5. WorldOK'
      BY <2>1, <2>4 DEF StorageInv, WorldOK, diskVars
    <2>6. ActorOK'
      BY <2>1, <2>2 DEF ActorOK
    <2>7. AccountOK'
      BY <2>1, <2>2 DEF StorageInv, AccountOK
    <2> QED BY <2>2, <2>3, <2>5, <2>6, <2>7 DEF StorageInv
  <1>3. CASE CharacterRejected \/ EndOfFile
    <2>1. /\ server = "running" /\ readers # <<>> /\ ~InAccount /\ CloseFile
          /\ UNCHANGED <<diskVars, account, on_actor_id>>
      BY <1>3 DEF CharacterRejected, EndOfFile, Got, Reading, InAccount
    <2>2. FilesOK' /\ ReadingOK' /\ ActorOK' /\ SavingOK' /\ ~InAccount'
      BY <2>1, ClosedTypes
    <2>3. \/ EnterPlaying(NULL) /\ UNCHANGED server
          \/ EnterPlaying(actor) /\ UNCHANGED server
          \/ TakeRoom /\ UNCHANGED answer
          \/ UNCHANGED <<server, world, answer>>
      BY <1>3 DEF CharacterRejected, EndOfFile
    <2>4. /\ world' \in Seq(Actor) /\ answer' \in {"none", "entered", "error"}
          /\ server' \in {"running"} \cup Failures
      BY <2>1, <2>3, EnterTypes, TakeTypes DEF StorageInv, ActorOK, WorldOK
    <2>5. WorldOK'
      BY <2>1, <2>4 DEF StorageInv, WorldOK, diskVars
    <2>6. AccountOK'
      BY <2>1, <2>2 DEF StorageInv, AccountOK
    <2> QED BY <2>2, <2>5, <2>6 DEF StorageInv
  <1> QED BY <1>1, <1>2, <1>3

LEMMA AccountTypes ==
    ASSUME StorageInv, ReadAccount
    PROVE  StorageInv'
  <1>1. /\ server = "running" /\ readers # <<>> /\ InAccount /\ account \in Account
        /\ UNCHANGED <<diskVars, on_actor_id, world, answer>>
    BY DEF ReadAccount, AccountField, AccountEnds, Got, Reading, InAccount, StorageInv, AccountOK
  <1>2. WorldOK' <=> server' \in {"running"} \cup Failures
    BY <1>1 DEF StorageInv, WorldOK, diskVars
  <1>3. CASE AccountField
    <2>1. Continue /\ UNCHANGED <<server, actor>> /\ Chunk.value \in Text
      BY <1>3, ChunkFacts DEF AccountField, StorageInv
    <2>2. ReadingOK' /\ UNCHANGED readers /\ Inside' = Inside /\ InAccount' = InAccount
      BY <1>1, <2>1, ContinueReading
    <2>3. \/ account' = [account EXCEPT !.username = Chunk.value]
          \/ account' = [account EXCEPT !.password_hash = Chunk.value]
          \/ account' = [account EXCEPT !.character_names = @ \o Chunk.value]
          \/ account' = account
      BY <1>3 DEF AccountField
    <2>4. account.character_names \o Chunk.value \in Text
      BY <1>1, <2>1, Joined DEF Account
    <2>5. account' \in Account
      BY <1>1, <2>1, <2>3, <2>4 DEF Account, TextOrNull
    <2>6. FilesOK' /\ SavingOK'
      BY <1>1, <2>2, FilesStay
    <2>7. ActorOK'
      BY <2>1, <2>2 DEF StorageInv, ActorOK
    <2>8. AccountOK'
      BY <1>1, <2>2, <2>5 DEF AccountOK
    <2> QED BY <1>2, <2>1, <2>2, <2>6, <2>7, <2>8 DEF StorageInv, WorldOK
  <1>4. CASE AccountEnds
    <2>1. AccountRead /\ CloseFile /\ UNCHANGED account
      BY <1>4 DEF AccountEnds
    <2>2. FilesOK' /\ ReadingOK' /\ ActorOK' /\ SavingOK' /\ ~InAccount'
      BY <1>1, <2>1, ClosedTypes
    <2>3. /\ server' \in {"running", "malformed_account"}
          /\ server' = "running" => account.password_hash # NULL
      BY <2>1 DEF AccountRead
    <2>4. AccountOK'
      BY <1>1, <2>1, <2>2, <2>3 DEF AccountOK, Account, TextOrNull
    <2> QED BY <1>2, <2>2, <2>3, <2>4 DEF StorageInv, Failures
  <1> QED BY <1>3, <1>4 DEF ReadAccount

\* Names that a client types have a file, by their lower case.
LEMMA FileOfName ==
    ASSUME FilesOK, NEW n \in TypedNames
    PROVE  /\ n \in Name /\ str_to_lower(n) \in DOMAIN pcs
           /\ str_to_lower(str_capitalize(n)) = str_to_lower(n)
  <1>1. n \in Name
    BY NamesAssumption
  <1>2. str_to_lower(n) \in DOMAIN disk.pcs
    BY DisksAssumption DEF FilesOK
  <1> QED BY <1>1, <1>2, CapitalString DEF FilesOK

LEMMA NewCharacterMade ==
    ASSUME WorldOK, NEW n \in Name
    PROVE  Made(NewCharacter(n), n)
  <1>1. on_actor_id \in ActorIDs /\ ~Persistent(on_actor_id)
    <2>1. /\ on_actor_id \in ActorIDs /\ on_actor_id > MAX_PERSISTENT_ACTOR_ID
          /\ on_actor_id \in Nat /\ MAX_PERSISTENT_ACTOR_ID \in Nat
      BY IdIsActorId, StorageAssumption DEF WorldOK
    <2>2. ~(on_actor_id <= MAX_PERSISTENT_ACTOR_ID)
      BY <2>1
    <2> QED BY <2>1, <2>2 DEF Persistent
  <1>2. StartLocation \in ActorIDs /\ str_capitalize(n) \in TextOrNull
    BY CapitalString, TextOf, StorageAssumption DEF ActorIDs, TextOrNull
  <1>3. actor_init \in Actor
    BY <1>1, InitTypes
  <1>4. /\ NewCharacter(n).id = on_actor_id
        /\ NewCharacter(n).location_id = StartLocation /\ NewCharacter(n).name = str_capitalize(n)
        /\ NewCharacter(n).long_name = NULL /\ NewCharacter(n).description = NULL
        /\ NewCharacter(n).dead /\ NewCharacter(n).room = NULL /\ NewCharacter(n).player = NULL
    BY DEF NewCharacter, actor_init, actor_init_internal
  <1>5. NewCharacter(n) \in Actor
    BY <1>2, <1>3 DEF Actor, NewCharacter
  <1> QED BY <1>1, <1>4, <1>5 DEF Made

\* What a client asks for, while the server waits.
LEMMA ClientTypes ==
    ASSUME StorageInv, Client
    PROVE  StorageInv'
  <1>1. /\ readers = <<>> /\ ~Inside /\ ~InAccount /\ saving = "none" /\ server = "running"
        /\ actor = NULL
    <2>1. Idle
      BY DEF Client, LogIn, LogOut, CreateAccount, CreateCharacter, Play, Quit
    <2> QED BY <2>1 DEF Idle, Inside, InAccount, StorageInv, SavingOK
  <1>2. account # NULL => account \in Account /\ account.password_hash \in Text
    BY <1>1 DEF StorageInv, AccountOK
  <1>3. CASE LogIn
    <2>1. /\ UNCHANGED <<diskVars, server, actor, on_actor_id, world, answer>>
          /\ readers' = <<"account">> /\ file' = account_file /\ pos' = 1 /\ account_file # NULL
          /\ account' = [username |-> <<>>, password_hash |-> NULL, character_names |-> <<>>]
      BY <1>3 DEF LogIn
    <2>2. account' \in Account
      BY <2>1, TextOf DEF Account, TextOrNull
    <2>3. StackInv' /\ ~Inside'
      BY <2>1, NewStack DEF Readers, Parts
    <2>4. AccountAlone' /\ Opened' /\ InAccount' /\ Len(readers') = 1
      BY <2>1 DEF AccountAlone, Opened, Openers, InAccount, Last
    <2>5. ReadingOK'
      BY <2>1, <2>3, <2>4 DEF ReadingOK, StorageInv, FilesOK, TextOrNull
    <2>6. FilesOK' /\ WorldOK'
      BY <2>1 DEF StorageInv, FilesOK, WorldOK, diskVars
    <2>7. SavingOK'
      BY <1>1, <2>1 DEF SavingOK, diskVars
    <2>8. ActorOK' /\ AccountOK'
      BY <1>1, <2>1, <2>2, <2>3, <2>4 DEF StorageInv, ActorOK, AccountOK
    <2> QED BY <2>5, <2>6, <2>7, <2>8 DEF StorageInv
  <1>4. ASSUME UNCHANGED readers
        PROVE  StackInv' /\ ~Inside' /\ ~InAccount' /\ AccountAlone' /\ Opened'
    BY <1>1, <1>4, KeepStack DEF StorageInv, ReadingOK, Inside, InAccount, AccountAlone, Opened
  <1>5. CASE LogOut
    <2>1. /\ UNCHANGED <<diskVars, server, readers, file, pos, actor, on_actor_id, world, answer>>
          /\ account' = NULL
      BY <1>5 DEF LogOut
    <2>2. ReadingOK' /\ FilesOK' /\ WorldOK' /\ ActorOK'
      BY <1>4, <2>1 DEF StorageInv, ReadingOK, FilesOK, WorldOK, ActorOK, diskVars
    <2>3. AccountOK' /\ SavingOK'
      BY <1>1, <1>4, <2>1 DEF AccountOK, SavingOK, diskVars
    <2> QED BY <2>2, <2>3 DEF StorageInv
  <1>6. CASE CreateAccount
    <2>1. /\ UNCHANGED <<disk, pcs, created, playing, server, readers, file, pos, actor,
                         on_actor_id, world, answer>>
          /\ account' = [username |-> <<"ann">>, password_hash |-> <<"$6$">>, character_names |-> <<>>]
          /\ account_file' = <<>> /\ saving' = "account"
      BY <1>6 DEF CreateAccount
    <2>2. account' \in Account /\ account'.password_hash \in Text
      <3>1. <<"ann">> \in Text /\ <<"$6$">> \in Text
        BY WordText
      <3> QED BY <2>1, <3>1, TextOf DEF Account, TextOrNull
    <2>3. ReadingOK' /\ FilesOK' /\ WorldOK' /\ ActorOK'
      BY <1>4, <2>1, TextOf DEF StorageInv, ReadingOK, FilesOK, WorldOK, ActorOK, TextOrNull
    <2>4. AccountOK' /\ SavingOK'
      BY <1>1, <1>4, <2>1, <2>2 DEF AccountOK, SavingOK
    <2> QED BY <2>3, <2>4 DEF StorageInv
  <1>7. ASSUME NEW n \in TypedNames, CreateCharacter(n)
        PROVE  StorageInv'
    <2>1. CASE Fail("out_of_ids")
      BY <2>1, FailTypes DEF Failures
    <2>2. CASE ~Fail("out_of_ids")
      <3>1. /\ UNCHANGED <<disk, account_file, created, playing, server, readers, file,
                           pos, account, world, answer>>
            /\ on_actor_id' = NextId /\ IdsLeft /\ account # NULL
            /\ actor' = NewCharacter(n)
            /\ pcs' = [pcs EXCEPT ![str_to_lower(n)] = <<>>]
            /\ saving' = "character"
        BY <1>7, <2>2 DEF CreateCharacter
      <3>2. Made(actor', n) /\ actor' \in Actor /\ actor' # NULL
        BY <3>1, FileOfName, NewCharacterMade, NullAssumption DEF StorageInv, Made
      <3>3. FilesOK'
        BY <3>1, TextOf DEF StorageInv, FilesOK, TextOrNull
      <3>4. on_actor_id' \in MAX_PERSISTENT_ACTOR_ID + 1 .. MAX_ACTOR_ID
        BY <3>1, NextIdType DEF StorageInv
      <3>5. ReadingOK' /\ WorldOK' /\ ActorOK'
        BY <1>4, <3>1, <3>2, <3>4 DEF StorageInv, ReadingOK, WorldOK, ActorOK
      <3>6. AccountOK' /\ SavingOK'
        BY <1>1, <1>2, <1>4, <3>1, <3>2 DEF AccountOK, SavingOK
      <3> QED BY <3>3, <3>5, <3>6 DEF StorageInv
    <2> QED BY <2>1, <2>2
  <1>8. ASSUME NEW n \in TypedNames, Play(n)
        PROVE  StorageInv'
    <2>1. /\ UNCHANGED <<disk, account_file, pcs, saving, created, server, account,
                         on_actor_id, world>>
          /\ playing' = n /\ actor' = NULL
          /\ \/ answer' = "error" /\ UNCHANGED <<readers, file, pos>>
             \/ /\ pcs[str_to_lower(n)] # NULL
                /\ readers' = <<"character">> /\ file' = pcs[str_to_lower(n)] /\ pos' = 1
                /\ UNCHANGED answer
      BY <1>8 DEF Play
    <2>2. n \in Text /\ str_to_lower(n) \in DOMAIN pcs
      BY FileOfName, TextOf DEF StorageInv
    <2>3. FilesOK' /\ WorldOK'
      BY <2>1, <2>2 DEF StorageInv, FilesOK, WorldOK, TextOrNull
    <2>4. StackInv' /\ ~Inside'
      BY <1>1, <2>1, NewStack DEF Readers, Parts
    <2>5. AccountAlone' /\ Opened' /\ ~InAccount'
      BY <1>4, <2>1 DEF AccountAlone, Opened, Openers, InAccount, Last
    <2>6. file' \in Text /\ pos' \in Nat \ {0}
      BY <2>1, <2>2 DEF StorageInv, FilesOK, ReadingOK, TextOrNull
    <2>7. ReadingOK'
      BY <2>4, <2>5, <2>6 DEF ReadingOK
    <2>8. ActorOK' /\ SavingOK'
      BY <1>1, <2>1, <2>4 DEF ActorOK, SavingOK
    <2>9. AccountOK'
      BY <1>2, <2>1, <2>5 DEF StorageInv, AccountOK
    <2> QED BY <2>3, <2>7, <2>8, <2>9 DEF StorageInv
  <1>9. ASSUME NEW k \in Characters, Quit(k)
        PROVE  StorageInv'
    <2>1. /\ UNCHANGED <<diskVars, server, readers, file, pos, actor, account, on_actor_id, answer>>
          /\ world' = RemoveAt(world, k) /\ k \in 1 .. Len(world) /\ world \in Seq(Actor)
      BY <1>9 DEF Quit, Characters, StorageInv, WorldOK
    <2>2. world' \in Seq(Actor)
      BY <2>1, Removed
    <2>3. ReadingOK' /\ FilesOK' /\ WorldOK' /\ ActorOK'
      BY <1>4, <2>1, <2>2 DEF StorageInv, ReadingOK, FilesOK, WorldOK, ActorOK, diskVars
    <2>4. AccountOK' /\ SavingOK'
      BY <1>1, <1>2, <1>4, <2>1 DEF StorageInv, AccountOK, SavingOK, diskVars
    <2> QED BY <2>3, <2>4 DEF StorageInv
  <1> QED BY <1>3, <1>5, <1>6, <1>7, <1>8, <1>9 DEF Client

\* What is written to the files.
LEMMA SaveTypes ==
    ASSUME StorageInv, Save
    PROVE  StorageInv'
  <1>1. /\ UNCHANGED <<disk, playing, server, readers, file, pos, on_actor_id, world, answer>>
        /\ saving # "none" /\ server = "running"
    BY DEF Save, SaveCharacter, OpenAccount, SaveAccount
  <1>2. /\ readers = <<>> /\ account \in Account /\ account.password_hash \in Text
        /\ ~InAccount /\ ~Inside
    BY <1>1 DEF StorageInv, SavingOK, InAccount, Inside
  <1>3. ReadingOK' /\ ~InAccount' /\ ~Inside'
    BY <1>1, <1>2, KeepStack DEF StorageInv, ReadingOK, AccountAlone, Opened, InAccount, Inside
  <1>4. WorldOK'
    BY <1>1 DEF StorageInv, WorldOK
  <1>5. actor # NULL => \E n \in TypedNames : Made(actor, n)
    BY <1>1 DEF StorageInv, SavingOK
  <1>6. CASE SaveCharacter
    <2>1. /\ pcs' = [pcs EXCEPT ![str_to_lower(actor.name)] = actor_save(actor)]
          /\ account' = account_add_character(account, actor.name)
          /\ saving' = "account_next" /\ UNCHANGED <<account_file, created, actor>>
          /\ saving = "character"
      BY <1>6 DEF SaveCharacter
    <2>2. actor # NULL
      BY <2>1 DEF StorageInv, SavingOK
    <2>3. PICK n \in TypedNames : Made(actor, n)
      BY <1>5, <2>2
    <2>4. actor_save(actor) \in Text /\ actor.name \in Text
      BY <2>3, FileOfName, MadeIsSaved, CapitalString, TextOf DEF StorageInv, Made
    <2>5. account' \in Account /\ account'.password_hash \in Text
      BY <1>2, <2>1, <2>4, AddedCharacterType
    <2>6. FilesOK'
      BY <1>1, <2>1, <2>4 DEF StorageInv, FilesOK, TextOrNull
    <2>7. ActorOK'
      BY <1>3, <2>1 DEF StorageInv, ActorOK
    <2>8. AccountOK' /\ SavingOK'
      BY <1>1, <1>2, <1>3, <2>1, <2>2, <2>3, <2>5 DEF AccountOK, SavingOK, Made
    <2> QED BY <1>3, <1>4, <2>6, <2>7, <2>8 DEF StorageInv
  <1>7. CASE OpenAccount
    <2>1. /\ account_file' = <<>> /\ saving' = "account" /\ UNCHANGED <<pcs, created, actor, account>>
      BY <1>7 DEF OpenAccount
    <2>2. FilesOK'
      BY <1>1, <2>1, TextOf DEF StorageInv, FilesOK, TextOrNull
    <2>3. ActorOK'
      BY <1>3, <2>1 DEF StorageInv, ActorOK
    <2>4. SavingOK'
      BY <1>1, <1>2, <1>5, <2>1 DEF SavingOK, Made
    <2>5. AccountOK'
      BY <1>2, <1>3, <2>1 DEF AccountOK
    <2> QED BY <1>3, <1>4, <2>2, <2>3, <2>4, <2>5 DEF StorageInv
  <1>8. CASE SaveAccount
    <2>1. /\ account_file' = account_save(account) /\ saving' = "none" /\ actor' = NULL
          /\ UNCHANGED <<pcs, account>>
          /\ created' = IF actor = NULL THEN created ELSE created \cup {str_to_lower(actor.name)}
      BY <1>8 DEF SaveAccount
    <2>2. account_file' \in Text
      BY <1>2, <2>1, AccountIsSaved
    <2>3. actor # NULL => str_to_lower(actor.name) \in DOMAIN pcs
      BY <1>5, FileOfName DEF StorageInv, Made
    <2>4. FilesOK'
      BY <1>1, <2>1, <2>2, <2>3 DEF StorageInv, FilesOK, TextOrNull
    <2>5. ActorOK' /\ SavingOK'
      BY <1>3, <2>1 DEF ActorOK, SavingOK
    <2>6. AccountOK'
      BY <1>2, <1>3, <2>1 DEF AccountOK
    <2> QED BY <1>3, <1>4, <2>4, <2>5, <2>6 DEF StorageInv
  <1> QED BY <1>6, <1>7, <1>8 DEF Save

LEMMA StorageInit == Init => StorageInv
  <1> SUFFICES ASSUME Init
               PROVE  StorageInv
    OBVIOUS
  <1>1. /\ readers \in {<<>>, <<"rooms">>} /\ actor = NULL /\ account = NULL /\ saving = "none"
        /\ disk \in Disks /\ world = <<>>
    BY DEF Init
  <1>2. StackInv /\ ~Inside /\ AccountAlone /\ Opened /\ ~InAccount
    BY <1>1, BootStep DEF StackInv, Inside, AccountAlone, Opened, Openers, InAccount, Last
  <1>3. /\ disk.rooms \in TextOrNull /\ disk.account \in TextOrNull
        /\ \A n \in DOMAIN disk.pcs : disk.pcs[n] \in TextOrNull
    BY <1>1, DisksAssumption
  <1>4. file \in Text /\ pos \in Nat \ {0}
    BY <1>3, TextOf DEF Init, TextOrNull
  <1>5. FilesOK
    BY <1>1, <1>3 DEF FilesOK, Init
  <1>6. ReadingOK /\ ActorOK /\ AccountOK /\ SavingOK
    BY <1>1, <1>2, <1>4 DEF ReadingOK, ActorOK, AccountOK, SavingOK
  <1>7. WorldOK
    BY <1>1, StorageAssumption DEF WorldOK, Init, TextOrNull
  <1> QED BY <1>5, <1>6, <1>7 DEF StorageInv

LEMMA RestartTypes ==
    ASSUME StorageInv, Restart
    PROVE  StorageInv'
  <1>1. /\ readers' \in {<<>>, <<"rooms">>} /\ actor' = NULL /\ account' = NULL /\ saving' = "none"
        /\ disk' = disk /\ disk \in Disks /\ world' = <<>>
    BY DEF Restart, Boot, StorageInv, FilesOK
  <1>2. StackInv' /\ ~Inside' /\ AccountAlone' /\ Opened' /\ ~InAccount'
    BY <1>1, BootStep DEF StackInv, Inside, AccountAlone, Opened, Openers, InAccount, Last
  <1>3. disk.rooms \in TextOrNull
    BY <1>1, DisksAssumption
  <1>4. file' \in Text /\ pos' \in Nat \ {0}
    BY <1>3, TextOf DEF Restart, Boot, TextOrNull
  <1>5. FilesOK'
    BY DEF FilesOK, Restart, StorageInv
  <1>6. ReadingOK' /\ ActorOK' /\ AccountOK' /\ SavingOK'
    BY <1>1, <1>2, <1>4 DEF ReadingOK, ActorOK, AccountOK, SavingOK
  <1>7. WorldOK'
    BY <1>1, StorageAssumption DEF WorldOK, Restart, Boot, TextOrNull
  <1> QED BY <1>5, <1>6, <1>7 DEF StorageInv

LEMMA StillTypes ==
    ASSUME StorageInv, UNCHANGED vars
    PROVE  StorageInv'
  <1>1. StackInv' /\ Inside' = Inside
    BY KeepStack DEF vars, StorageInv, ReadingOK
  <1>2. FilesOK' /\ ReadingOK' /\ WorldOK'
    BY <1>1 DEF vars, diskVars, StorageInv, FilesOK, ReadingOK, AccountAlone, Opened, WorldOK
  <1>3. ActorOK' /\ SavingOK'
    BY <1>1 DEF vars, diskVars, StorageInv, ActorOK, SavingOK
  <1>4. AccountOK'
    BY DEF vars, StorageInv, AccountOK, InAccount
  <1> QED BY <1>2, <1>3, <1>4 DEF StorageInv

LEMMA StorageStep ==
    ASSUME StorageInv, [Next]_vars
    PROVE  StorageInv'
  <1>1. CASE ReadRooms
    BY <1>1, OuterTypes, EndTypes DEF ReadRooms
  <1>2. CASE ReadActor
    BY <1>2, ActorTypes
  <1>3. CASE ReadPart
    BY <1>3, OuterTypes, PartTypes DEF ReadPart
  <1>4. CASE ReadAccount
    BY <1>4, AccountTypes
  <1>5. CASE NoColon \/ CharacterRejected \/ EndOfFile
    BY <1>5, EndTypes
  <1>6. CASE Client \/ Save
    BY <1>6, ClientTypes, SaveTypes
  <1>7. CASE Restart
    BY <1>7, RestartTypes
  <1>8. CASE UNCHANGED vars
    BY <1>8, StillTypes
  <1> QED BY <1>1, <1>2, <1>3, <1>4, <1>5, <1>6, <1>7, <1>8 DEF Next

LEMMA StorageInvariant == Spec => []StorageInv
  BY StorageInit, StorageStep, PTL DEF Spec

\* Whatever is in the files, cut off or damaged, what is read of them is text,
\* actors and accounts, with ids and rooms in their ranges, and a name that is
\* played or created has a file (file_chunk_read, actor_load, account_load).
THEOREM StorageTypeCorrect == Spec => []TypeOK
  <1>1. StorageInv => TypeOK
    <2> SUFFICES ASSUME StorageInv
                 PROVE  TypeOK
      OBVIOUS
    <2>1. on_actor_id \in ActorIDs
      BY IdIsActorId DEF StorageInv
    <2>2. readers \in Seq(Readers) /\ file \in Text /\ pos \in Nat
      BY DEF StorageInv, ReadingOK, StackInv
    <2> QED BY <2>1, <2>2
            DEF TypeOK, StorageInv, FilesOK, ActorOK, AccountOK, SavingOK, WorldOK
  <1> QED BY <1>1, StorageInvariant, PTL

-----------------------------------------------------------------------------
(* The list of an account.                                                   *)

LEMMA LowerIs ==
    ASSUME NEW s \in Text
    PROVE  /\ Len(str_to_lower(s)) = Len(s)
           /\ \A k \in 1 .. Len(s) : str_to_lower(s)[k] = LowerOf(s[k])
  <1>1. PICK n \in Nat : n = Len(s)
    BY DEF Text
  <1>2. str_to_lower(s) = [k \in 1 .. n |-> LowerOf(s[k])]
    BY <1>1 DEF str_to_lower
  <1>3. Len(str_to_lower(s)) = n
    BY <1>2
  <1> QED BY <1>1, <1>2, <1>3

\* What separates the names of a list is no letter.
LEMMA LowerOfBlank == LowerOf(" ") = " "
  <1>1. " " \notin Letters
    BY LetterTokens DEF Whitespace
  <1> QED BY <1>1, LowerOfLetter

\* A list without capitals, and a name behind it.
LEMMA LowerAdded ==
    ASSUME NEW s \in Text, str_to_lower(s) = s, NEW e \in Tokens, LowerOf(e) = e, NEW n \in Name
    PROVE  str_to_lower(s \o <<e>> \o n) = s \o <<e>> \o str_to_lower(n)
  <1> DEFINE a == s \o <<e>> \o n
             b == s \o <<e>> \o str_to_lower(n)
  <1>1. PICK m \in Nat : m = Len(s)
    BY DEF Text
  <1>2. PICK q \in Nat : q = Len(n)
    BY DEF Name
  <1>3. n \in Text /\ str_to_lower(n) \in Text /\ Len(str_to_lower(n)) = q
    BY <1>2, LowerString, TextOf
  <1>4. a \in Seq(Tokens) /\ AddedTo(a, s, e, n, m, q)
    <2>1. s \in Seq(Tokens) /\ n \in Seq(Tokens)
      BY <1>3 DEF Text
    <2> QED BY <1>1, <1>2, <2>1, AddedIs
  <1>5. b \in Seq(Tokens) /\ AddedTo(b, s, e, str_to_lower(n), m, q)
    <2>1. s \in Seq(Tokens) /\ str_to_lower(n) \in Seq(Tokens)
      BY <1>3 DEF Text
    <2> QED BY <1>1, <1>3, <2>1, AddedIs
  <1> HIDE DEF a, b
  <1>6. /\ str_to_lower(a) \in Seq(Tokens) /\ Len(str_to_lower(a)) = Len(a)
        /\ \A k \in 1 .. Len(a) : str_to_lower(a)[k] = LowerOf(a[k])
    <2>1. a \in Text
      BY <1>4 DEF Text
    <2> QED BY <2>1, LowerType, LowerIs DEF Text
  <1>7. \A k \in 1 .. m : LowerOf(s[k]) = s[k]
    BY <1>1, LowerIs
  <1>8. \A k \in 1 .. q : LowerOf(n[k]) = str_to_lower(n)[k]
    BY <1>2, LowerString
  <1>9. ASSUME NEW k \in 1 .. m + 1 + q
         PROVE  LowerOf(a[k]) = b[k]
    <2>1. CASE k \in 1 .. m
      BY <1>4, <1>5, <1>7, <2>1 DEF AddedTo
    <2>2. CASE k = m + 1
      BY <1>4, <1>5, <2>2 DEF AddedTo
    <2>3. CASE k > m + 1
      <3>1. PICK j \in 1 .. q : k = m + 1 + j
        <4>1. k - (m + 1) \in 1 .. q /\ k = m + 1 + (k - (m + 1))
          BY <2>3
        <4> QED BY <4>1
      <3>2. a[m + 1 + j] = n[j] /\ b[m + 1 + j] = str_to_lower(n)[j]
        BY <1>4, <1>5 DEF AddedTo
      <3> QED BY <1>8, <3>1, <3>2
    <2> QED BY <2>1, <2>2, <2>3
  <1>10. Len(a) = m + 1 + q /\ Len(b) = m + 1 + q
    BY <1>4, <1>5 DEF AddedTo
  <1>11. \A k \in 1 .. Len(str_to_lower(a)) : str_to_lower(a)[k] = b[k]
    BY <1>6, <1>9, <1>10
  <1>12. str_to_lower(a) = b
    BY <1>5, <1>6, <1>10, <1>11, SeqEqual
  <1> QED BY <1>12 DEF a, b

\* Names are words of a list, and their lower case has no capitals left.
LEMMA NameWord ==
    ASSUME NEW n \in Name
    PROVE  /\ n \in Word(Tokens) /\ str_to_lower(str_to_lower(n)) = str_to_lower(n)
           /\ Trimmed(n) /\ \A k \in 1 .. Len(n) : n[k] # "~" /\ n[k] \notin Whitespace
  <1>1. n \in Seq(Letters) /\ n # <<>> /\ n \in Seq(Tokens)
    BY TextOf DEF Name, Text
  <1>2. \A k \in 1 .. Len(n) : n[k] \in Letters
    BY <1>1
  <1>3. \A l \in Letters : l # " " /\ l # "~" /\ l \notin Whitespace
    BY LetterTokens DEF Whitespace
  <1>4. n \in Word(Tokens)
    BY <1>1, <1>2, <1>3 DEF Word
  <1>5. 1 \in 1 .. Len(n) /\ Len(n) \in 1 .. Len(n)
    <2>1. Len(n) \in Nat \ {0}
      BY <1>1, EmptyOrFull
    <2> QED BY <2>1
  <1>6. Trimmed(n)
    BY <1>2, <1>3, <1>5 DEF Trimmed
  <1>7. str_to_lower(str_to_lower(n)) = str_to_lower(n)
    <2> DEFINE low == str_to_lower(n)
    <2>1. /\ low \in Seq(DOMAIN Capital) /\ low \in Name /\ Len(low) = Len(n)
      BY LowerString
    <2>2. /\ str_to_lower(low) \in Name /\ Len(str_to_lower(low)) = Len(low)
          /\ \A k \in 1 .. Len(low) : str_to_lower(low)[k] = LowerOf(low[k])
      BY <2>1, LowerString
    <2> HIDE DEF low
    <2>3. \A k \in 1 .. Len(low) : LowerOf(low[k]) = low[k]
      <3>1. \A k \in 1 .. Len(low) : low[k] \in DOMAIN Capital
        BY <2>1
      <3> QED BY <3>1, LowerOfLetter
    <2>4. low \in Seq(Letters) /\ str_to_lower(low) \in Seq(Letters)
      BY <2>1, <2>2 DEF Name
    <2>5. str_to_lower(low) = low
      <3>1. \A k \in 1 .. Len(str_to_lower(low)) : str_to_lower(low)[k] = low[k]
        BY <2>2, <2>3
      <3> QED BY <2>2, <2>4, <3>1, SeqEqual
    <2> QED BY <2>5 DEF low
  <1> QED BY <1>2, <1>3, <1>4, <1>6, <1>7

\* The list has the names of S and no others, and can be written as it is.
Roster(list, S) ==
    /\ list \in Text /\ Trimmed(list) /\ \A k \in 1 .. Len(list) : list[k] # "~"
    /\ str_to_lower(list) = list
    /\ \A n \in Name : str_token_contains(list, n) <=> n \in S

LEMMA EmptyRoster == Roster(<<>>, {})
  <1>1. str_to_lower(<<>>) = <<>>
    <2>1. /\ str_to_lower(<<>>) \in Text /\ Len(str_to_lower(<<>>)) = Len(<<>>)
      BY TextOf, LowerType, LowerIs
    <2> QED BY <2>1 DEF Text
  <1>2. <<>> \in Text /\ Len(<<>>) = 0
    BY TextOf
  <1> QED BY <1>1, <1>2, WordInNothing DEF Roster, Trimmed

LEMMA RosterAdded ==
    ASSUME NEW acct \in Account, NEW S, Roster(acct.character_names, S), NEW name \in Name
    PROVE  Roster(account_add_character(acct, name).character_names, S \cup {str_to_lower(name)})
  <1> DEFINE list == acct.character_names
             low  == str_to_lower(name)
  <1>1. low \in Name /\ low \in Text /\ low \in Word(Tokens)
    BY LowerString, TextOf, NameWord
  <1>2. \A n \in Name : n \in Word(Tokens)
    BY NameWord
  <1>3. account_add_character(acct, name).character_names =
          str_to_lower(IF list = <<>> THEN name ELSE list \o <<" ">> \o name)
    BY DEF account_add_character, Account
  <1>4. /\ list \in Text /\ Trimmed(list) /\ \A k \in 1 .. Len(list) : list[k] # "~"
        /\ str_to_lower(list) = list
        /\ \A n \in Name : str_token_contains(list, n) <=> n \in S
    BY DEF Roster
  <1> HIDE DEF list, low
  <1>5. CASE list = <<>>
    <2>1. account_add_character(acct, name).character_names = low
      BY <1>3, <1>5 DEF low
    <2>2. \A n \in Name : str_token_contains(low, n) <=> n = low
      BY <1>1, <1>2, WordInOne
    <2>3. \A n \in Name : n \notin S
      BY <1>4, <1>5, WordInNothing
    <2>4. str_to_lower(low) = low /\ Trimmed(low) /\ \A k \in 1 .. Len(low) : low[k] # "~"
      BY <1>1, NameWord DEF low
    <2> QED BY <1>1, <2>1, <2>2, <2>3, <2>4 DEF Roster, low
  <1>6. CASE list # <<>>
    <2>1. PICK e \in Tokens : e = " " /\ LowerOf(e) = e
      BY WordText, LowerOfBlank
    <2> DEFINE more == list \o <<e>> \o low
    <2>2. account_add_character(acct, name).character_names = more
      BY <1>3, <1>4, <1>6, <2>1, LowerAdded DEF low
    <2>3. PICK m \in Nat \ {0} : m = Len(list)
      BY <1>4, <1>6, EmptyOrFull DEF Text
    <2>4. PICK q \in Nat \ {0} : q = Len(low)
      BY <1>1, WordIs
    <2>5. more \in Seq(Tokens) /\ AddedTo(more, list, e, low, m, q)
      <3>1. list \in Seq(Tokens) /\ low \in Seq(Tokens) /\ m \in Nat /\ q \in Nat
        BY <1>1, <1>4 DEF Text
      <3> QED BY <2>3, <2>4, <3>1, AddedIs
    <2>6. str_to_lower(more) = more
      <3>1. str_to_lower(more) = list \o <<e>> \o str_to_lower(low)
        BY <1>1, <1>4, <2>1, LowerAdded
      <3>2. str_to_lower(low) = low
        BY NameWord DEF low
      <3> QED BY <3>1, <3>2
    <2>7. \A n \in Name : str_token_contains(more, n) <=> str_token_contains(list, n) \/ n = low
      <3> SUFFICES ASSUME NEW n \in Name
                   PROVE  str_token_contains(more, n) <=> str_token_contains(list, n) \/ n = low
        OBVIOUS
      <3>1. list \in Seq(Tokens) /\ n \in Word(Tokens)
        BY <1>2, <1>4 DEF Text
      <3> QED BY <1>1, <1>6, <2>1, <3>1, WordInMore
    <2> HIDE DEF more
    <2>8. \A k \in 1 .. q : low[k] # "~" /\ low[k] \notin Whitespace
      BY <1>1, <2>4, NameWord
    <2>9. ASSUME NEW k \in 1 .. m + 1 + q
          PROVE  more[k] # "~"
      <3>1. CASE k \in 1 .. m
        BY <1>4, <2>3, <2>5, <3>1 DEF AddedTo
      <3>2. CASE k = m + 1
        BY <2>1, <2>5, <3>2 DEF AddedTo
      <3>3. CASE k > m + 1
        <4>1. PICK j \in 1 .. q : k = m + 1 + j
          <5>1. k - (m + 1) \in 1 .. q /\ k = m + 1 + (k - (m + 1))
            BY <3>3
          <5> QED BY <5>1
        <4> QED BY <2>5, <2>8, <4>1 DEF AddedTo
      <3> QED BY <3>1, <3>2, <3>3
    <2>10. Len(more) = m + 1 + q
      BY <2>5 DEF AddedTo
    <2>11. Trimmed(more)
      <3>1. 1 \in 1 .. m /\ q \in 1 .. q
        OBVIOUS
      <3>2. more[1] = list[1] /\ list[1] \notin Whitespace
        BY <1>4, <1>6, <2>5, <3>1 DEF AddedTo, Trimmed
      <3>3. more[m + 1 + q] = low[q] /\ low[q] \notin Whitespace
        BY <2>5, <2>8, <3>1 DEF AddedTo
      <3> QED BY <2>10, <3>2, <3>3 DEF Trimmed
    <2> QED BY <1>4, <2>2, <2>5, <2>6, <2>7, <2>9, <2>10, <2>11 DEF Roster, Text, low
  <1> QED BY <1>5, <1>6

-----------------------------------------------------------------------------
(* The account on disk, as it is read, and as it is logged in to.            *)

AccountOf(list) ==
    [username |-> <<"ann">>, password_hash |-> <<"$6$">>, character_names |-> list]

NothingRead == [username |-> <<>>, password_hash |-> NULL, character_names |-> <<>>]

LEMMA AccountFields ==
    ASSUME NEW list, NEW S, Roster(list, S)
    PROVE  /\ Writable(Tokens, "username", <<"ann">>)
           /\ Writable(Tokens, "password_hash", <<"$6$">>)
           /\ Writable(Tokens, "character_names", list)
  <1>1. {":", "~", "\n"} \subseteq Tokens
    BY WordText
  <1>2. ASSUME NEW w \in Tokens, Plain(w)
        PROVE  /\ <<w>> \in Seq(Tokens) /\ Trimmed(<<w>>)
               /\ \A k \in 1 .. Len(<<w>>) : <<w>>[k] # "~"
    BY <1>2 DEF Plain, Trimmed
  <1>3. Plain("ann") /\ Plain("$6$") /\ Plain("username") /\ Plain("password_hash")
          /\ Plain("character_names")
    BY DEF Plain, Whitespace, Newlines
  <1>4. {"ann", "$6$", "username", "password_hash", "character_names"} \subseteq Tokens
    BY WordText
  <1>5. Writable(Tokens, "username", <<"ann">>)
    BY <1>1, <1>2, <1>3, <1>4 DEF Writable
  <1>6. Writable(Tokens, "password_hash", <<"$6$">>)
    BY <1>1, <1>2, <1>3, <1>4 DEF Writable
  <1>7. Writable(Tokens, "character_names", list)
    BY <1>1, <1>3, <1>4 DEF Writable, Roster, Text
  <1> QED BY <1>5, <1>6, <1>7

\* account_load finds the fields that account_save wrote.
LEMMA AccountFileRead ==
    ASSUME NEW list, NEW S, Roster(list, S), NEW text, text = account_save(AccountOf(list))
    PROVE  /\ text \in Text /\ text # <<>> /\ Len(list) \in Nat
           /\ FieldAt(text, 0, "username", <<"ann">>)
           /\ FieldAt(text, 5, "password_hash", <<"$6$">>)
           /\ FieldAt(text, 10, "character_names", list)
           /\ file_chunk_read(text, Len(list) + 15).result = "eof"
  <1>1. PICK v1 : v1 = <<"ann">>
    OBVIOUS
  <1>2. PICK v2 : v2 = <<"$6$">>
    OBVIOUS
  <1>3. PICK m \in Nat : m = Len(list)
    BY DEF Roster, Text
  <1>4. Len(v1) = 1 /\ Len(v2) = 1
    BY <1>1, <1>2
  <1>5. text = file_chunk_write_field("username", v1) \o file_chunk_write_field("password_hash", v2)
                 \o file_chunk_write_field("character_names", list)
    BY <1>1, <1>2 DEF account_save, AccountOf
  <1>6. /\ Writable(Tokens, "username", v1) /\ Writable(Tokens, "password_hash", v2)
        /\ Writable(Tokens, "character_names", list)
    BY <1>1, <1>2, AccountFields
  <1>7. PICK n1 \in Nat : n1 = 5 /\ n1 = Len(v1) + 4
    BY <1>4
  <1>8. PICK n2 \in Nat : n2 = 10 /\ n2 = n1 + Len(v2) + 4
    BY <1>4, <1>7
  <1>9. PICK n3 \in Nat : n3 = m + 14 /\ n3 = n2 + Len(list) + 4 /\ n3 + 1 = Len(list) + 15
    BY <1>3, <1>8
  <1>10. /\ text \in Seq(Tokens) /\ Len(text) = n3
         /\ FieldAt(text, 0, "username", v1) /\ FieldAt(text, n1, "password_hash", v2)
         /\ FieldAt(text, n2, "character_names", list)
         /\ file_chunk_read(text, n3 + 1).result = "eof"
    <2>1. ThreeFields(Tokens, text, "username", v1, "password_hash", v2, "character_names", list,
                      n1, n2, n3)
      BY <1>5, <1>6, <1>7, <1>8, <1>9, ThreeFieldsRead, Zenon
    <2> QED BY <2>1, Zenon DEF ThreeFields
  <1>11. text # <<>>
    <2>1. Len(text) # 0
      BY <1>3, <1>9, <1>10
    <2> QED BY <2>1
  <1> QED BY <1>1, <1>2, <1>3, <1>7, <1>8, <1>9, <1>10, <1>11 DEF Text

\* How far account_load has come in the file of an account.
ReadUpTo(list) ==
    \/ pos = 1 /\ account = NothingRead
    \/ pos = 6 /\ account = [NothingRead EXCEPT !.username = <<"ann">>]
    \/ pos = 11 /\ account = AccountOf(<<>>)
    \/ pos = Len(list) + 15 /\ account = AccountOf(list)

\* The characters that the account in memory lists: the one that is being saved
\* is listed before its creation is reported.
Listed ==
    IF saving \in {"account_next", "account"} /\ actor # NULL
    THEN created \cup {str_to_lower(actor.name)} ELSE created

\* The file is missing, is cut off before its first character, or lists the
\* characters that were reported.
FileLists ==
    /\ account_file = NULL => created = {}
    /\ account_file \notin {NULL, <<>>} =>
         \E list : Roster(list, created) /\ account_file = account_save(AccountOf(list))

BeingRead ==
    /\ account_file # NULL /\ file = account_file
    /\ file = <<>> => pos = 1 /\ account = NothingRead
    /\ file # <<>> => \E list : /\ Roster(list, created) /\ file = account_save(AccountOf(list))
                                /\ ReadUpTo(list)

LoggedIn == account # NULL => \E list : Roster(list, Listed) /\ account = AccountOf(list)

ListInv ==
    disk.sound =>
        /\ FileLists
        /\ server = "running" /\ InAccount => BeingRead
        /\ server = "running" /\ ~InAccount => LoggedIn

\* Reading anything but an account, and a restart, leave the list alone.
LEMMA ListKept ==
    ASSUME ListInv, UNCHANGED <<disk, account_file, created>>,
           server' = "running" => ~InAccount' /\ LoggedIn'
    PROVE  ListInv'
  <1>1. disk.sound => FileLists'
    BY DEF ListInv, FileLists
  <1> QED BY <1>1 DEF ListInv

\* The steps of the other readers.
LEMMA OtherReaders ==
    ASSUME StorageInv,
           ReadRooms \/ ReadActor \/ ReadPart \/ NoColon \/ CharacterRejected \/ EndOfFile
    PROVE  /\ UNCHANGED <<diskVars, account>>
           /\ server' = "running" =>
                readers # <<>> /\ server = "running" /\ ~InAccount /\ ~InAccount'
  <1>1. CASE ReadRooms
    <2>1. /\ readers # <<>> /\ server = "running" /\ ~InAccount /\ ~Inside
          /\ UNCHANGED <<diskVars, account>>
      BY <1>1 DEF ReadRooms, LoadRoom, SkipTopLevel, RoomActorEnds, GotSection, Got, Reading,
                  InAccount, Inside, Parts, Unread
    <2>2. CASE LoadRoom \/ SkipTopLevel
      BY <2>1, <2>2, CallReading DEF LoadRoom, SkipTopLevel, Readers
    <2>3. CASE RoomActorEnds
      BY <2>1, <2>3, ReturnReading DEF RoomActorEnds, GotSection, Got, Reading, Openers
    <2> QED BY <1>1, <2>1, <2>2, <2>3 DEF ReadRooms
  <1>2. CASE ReadActor
    <2>1. CASE \E why : why # "running" /\ Fail(why)
      BY <2>1 DEF Fail
    <2>2. CASE /\ Reading(ActorReaders) /\ Unread
               /\ Continue \/ (\E r \in Readers \ {"account"} : Call(r))
      <3>1. /\ readers # <<>> /\ server = "running" /\ ~InAccount /\ ~Inside
            /\ UNCHANGED <<diskVars, account>>
        BY <2>2 DEF Reading, ActorReaders, InAccount, Inside, Parts, Unread
      <3> QED BY <2>2, <3>1, CallReading, ContinueReading
    <2>3. ReadActor => \/ \E why : why # "running" /\ Fail(why)
                       \/ /\ Reading(ActorReaders) /\ Unread
                          /\ Continue \/ (\E r \in Readers \ {"account"} : Call(r))
      BY DEF ReadActor, ActorId, OutOfIds, ActorField, ActorSection, ActorStrayEnd, GotId, GotSection,
             Got, NeedsActor, WithActor, Reading, Readers
    <2> QED BY <1>2, <2>1, <2>2, <2>3
  <1>3. CASE ReadPart
    <2>1. CASE \E why : why # "running" /\ Fail(why)
      BY <2>1 DEF Fail
    <2>2. CASE /\ Reading({"appearance", "room", "skip"}) /\ Unread
               /\ Continue \/ Return
      <3>1. /\ readers # <<>> /\ server = "running" /\ ~InAccount /\ Last(readers) \notin Openers
            /\ UNCHANGED <<diskVars, account>>
        BY <2>2 DEF Reading, InAccount, Openers, Unread
      <3> QED BY <2>2, <3>1, ReturnReading, ContinueReading
    <2>3. ReadPart => \/ \E why : why # "running" /\ Fail(why)
                      \/ /\ Reading({"appearance", "room", "skip"}) /\ Unread
                         /\ Continue \/ Return
      BY DEF ReadPart, AppearanceEnds, AppearanceField, RoomEnds, RoomExit, PassOver, SkipEnds,
             SkipChunk, GotSection, Got, Reading
    <2> QED BY <1>3, <2>1, <2>2, <2>3
  <1>4. CASE NoColon
    BY <1>4 DEF NoColon, Fail
  <1>5. CASE CharacterRejected \/ EndOfFile
    <2>1. /\ server = "running" /\ readers # <<>> /\ ~InAccount /\ CloseFile
          /\ UNCHANGED <<diskVars, account>>
      BY <1>5 DEF CharacterRejected, EndOfFile, Got, Reading, InAccount
    <2> QED BY <2>1 DEF CloseFile, InAccount
  <1> QED BY <1>1, <1>2, <1>3, <1>4, <1>5

LEMMA OtherReadersList ==
    ASSUME StorageInv, ListInv,
           ReadRooms \/ ReadActor \/ ReadPart \/ NoColon \/ CharacterRejected \/ EndOfFile
    PROVE  ListInv'
  <1>1. /\ UNCHANGED <<disk, account_file, created, saving, account>>
        /\ server' = "running" =>
             readers # <<>> /\ server = "running" /\ ~InAccount /\ ~InAccount'
    BY OtherReaders DEF diskVars
  <1>2. readers # <<>> => Listed = created /\ Listed' = created'
    BY <1>1 DEF StorageInv, SavingOK, Listed
  <1>3. CASE ~disk.sound
    BY <1>1, <1>3 DEF ListInv
  <1>4. CASE disk.sound /\ server' = "running"
    <2>1. LoggedIn
      BY <1>1, <1>4 DEF ListInv
    <2>2. LoggedIn'
      BY <1>1, <1>2, <1>4, <2>1 DEF LoggedIn
    <2> QED BY <1>1, <1>4, <2>2, ListKept
  <1>5. CASE server' # "running"
    BY <1>1, <1>5, ListKept
  <1> QED BY <1>3, <1>4, <1>5

\* A field of the account is read.
LEMMA AccountFieldList ==
    ASSUME StorageInv, ListInv, AccountField
    PROVE  ListInv'
  <1>1. /\ server = "running" /\ readers # <<>> /\ InAccount /\ account \in Account /\ Continue
        /\ UNCHANGED <<disk, account_file, created, server>>
        /\ Chunk.result = "chunk"
    BY DEF AccountField, Got, Reading, InAccount, StorageInv, AccountOK, diskVars
  <1>2. UNCHANGED <<readers, file>> /\ InAccount' = InAccount /\ pos' = Chunk.next
    BY <1>1, ContinueReading DEF Continue
  <1> SUFFICES ASSUME disk.sound
               PROVE  ListInv'
    BY <1>1 DEF ListInv
  <1>3. FileLists /\ BeingRead
    BY <1>1 DEF ListInv
  <1>4. FileLists'
    BY <1>1, <1>3 DEF FileLists
  <1>5. file # <<>>
    <2> SUFFICES ASSUME file = <<>>
                 PROVE  FALSE
      OBVIOUS
    <2>1. pos = Len(file) + 1 /\ file \in Seq(Tokens)
      BY <1>3 DEF BeingRead, StorageInv, ReadingOK, Text
    <2>2. Chunk.result = "eof"
      BY <2>1, NothingLeft DEF Chunk
    <2> QED BY <1>1, <2>2
  <1>6. PICK list : /\ Roster(list, created) /\ file = account_save(AccountOf(list))
                    /\ ReadUpTo(list)
    BY <1>3, <1>5 DEF BeingRead
  <1>7. /\ FieldAt(file, 0, "username", <<"ann">>)
        /\ FieldAt(file, 5, "password_hash", <<"$6$">>)
        /\ FieldAt(file, 10, "character_names", list)
        /\ file_chunk_read(file, Len(list) + 15).result = "eof"
        /\ Len(list) \in Nat /\ list \in Seq(Tokens)
    BY <1>6, AccountFileRead DEF Roster, Text
  <1>8. ReadUpTo(list)'
    <2>1. CASE pos = 1 /\ account = NothingRead
      <3>1. Chunk = Read("chunk", "field", <<"username">>, <<"ann">>, 6)
        BY <1>7, <2>1 DEF FieldAt, Chunk
      <3>2. account' = [account EXCEPT !.username = <<"ann">>]
        BY <3>1 DEF AccountField, Read
      <3> QED BY <1>2, <2>1, <3>1, <3>2 DEF ReadUpTo, Read
    <2>2. CASE pos = 6 /\ account = [NothingRead EXCEPT !.username = <<"ann">>]
      <3>1. Chunk = Read("chunk", "field", <<"password_hash">>, <<"$6$">>, 11)
        BY <1>7, <2>2 DEF FieldAt, Chunk
      <3>2. account' = [account EXCEPT !.password_hash = <<"$6$">>]
        BY <3>1 DEF AccountField, Read
      <3>3. account' = AccountOf(<<>>)
        <4>1. \A u, p, c, q :
                [[username |-> u, password_hash |-> p, character_names |-> c] EXCEPT !.password_hash = q]
                  = [username |-> u, password_hash |-> q, character_names |-> c]
          OBVIOUS
        <4>2. account = [username |-> <<"ann">>, password_hash |-> NULL, character_names |-> <<>>]
          BY <2>2 DEF NothingRead
        <4> QED BY <3>2, <4>1, <4>2, Zenon DEF AccountOf
      <3> QED BY <1>2, <3>1, <3>3 DEF ReadUpTo, Read
    <2>3. CASE pos = 11 /\ account = AccountOf(<<>>)
      <3>1. Chunk = Read("chunk", "field", <<"character_names">>, list, 10 + Len(list) + 5)
        BY <1>7, <2>3 DEF FieldAt, Chunk
      <3>2. account' = [account EXCEPT !.character_names = @ \o list]
        BY <3>1 DEF AccountField, Read
      <3>3. <<>> \o list = list
        BY <1>7
      <3>4. account' = AccountOf(list)
        BY <2>3, <3>2, <3>3 DEF AccountOf
      <3>5. pos' = Len(list) + 15
        <4>1. 10 + Len(list) + 5 = Len(list) + 15
          BY <1>7
        <4> QED BY <1>2, <3>1, <4>1 DEF Read
      <3> QED BY <3>4, <3>5 DEF ReadUpTo
    <2>4. pos # Len(list) + 15
      BY <1>1, <1>7 DEF Chunk
    <2> QED BY <1>6, <2>1, <2>2, <2>3, <2>4 DEF ReadUpTo
  <1>9. BeingRead'
    BY <1>1, <1>2, <1>3, <1>5, <1>6, <1>8 DEF BeingRead
  <1> QED BY <1>1, <1>2, <1>4, <1>9 DEF ListInv

\* The account has been read: it is whole, or the server stops.
LEMMA AccountEndsList ==
    ASSUME StorageInv, ListInv, AccountEnds
    PROVE  ListInv'
  <1>1. /\ server = "running" /\ readers # <<>> /\ InAccount /\ AccountRead
        /\ UNCHANGED <<diskVars, disk, account_file, created, account>>
        /\ CloseFile
        /\ Chunk.result = "eof" \/ Chunk.type # "field"
    BY DEF AccountEnds, Reading, InAccount, diskVars
  <1>2. ~InAccount' /\ saving' = "none"
    BY <1>1 DEF CloseFile, InAccount, StorageInv, SavingOK, diskVars
  <1>3. ASSUME disk.sound, server' = "running"
        PROVE  LoggedIn'
    <2>1. BeingRead
      BY <1>1, <1>3 DEF ListInv
    <2>2. account.username # <<>>
      BY <1>1, <1>3 DEF AccountRead
    <2>3. file # <<>>
      BY <2>1, <2>2 DEF BeingRead, NothingRead
    <2>4. PICK list : /\ Roster(list, created) /\ file = account_save(AccountOf(list))
                      /\ ReadUpTo(list)
      BY <2>1, <2>3 DEF BeingRead
    <2>5. /\ FieldAt(file, 0, "username", <<"ann">>)
          /\ FieldAt(file, 5, "password_hash", <<"$6$">>)
          /\ FieldAt(file, 10, "character_names", list)
      BY <2>4, AccountFileRead
    <2>6. pos \notin {1, 6, 11}
      <3>1. Chunk.result = "chunk" /\ Chunk.type = "field" => FALSE
        BY <1>1
      <3>2. CASE pos = 1
        BY <2>5, <3>1, <3>2 DEF FieldAt, Chunk, Read
      <3>3. CASE pos = 6
        BY <2>5, <3>1, <3>3 DEF FieldAt, Chunk, Read
      <3>4. CASE pos = 11
        BY <2>5, <3>1, <3>4 DEF FieldAt, Chunk, Read
      <3> QED BY <3>2, <3>3, <3>4
    <2>7. account = AccountOf(list)
      BY <2>4, <2>6 DEF ReadUpTo
    <2>8. Listed' = created
      BY <1>1, <1>2 DEF Listed
    <2> QED BY <1>1, <2>4, <2>7, <2>8 DEF LoggedIn
  <1>4. CASE disk.sound
    BY <1>1, <1>2, <1>3, <1>4, ListKept
  <1>5. CASE ~disk.sound
    BY <1>1, <1>5 DEF ListInv
  <1> QED BY <1>4, <1>5

LEMMA RestartList ==
    ASSUME ListInv, Restart
    PROVE  ListInv'
  <1>1. /\ UNCHANGED <<disk, account_file, created>> /\ account' = NULL
        /\ readers' \in {<<>>, <<"rooms">>}
    BY DEF Restart, Boot
  <1>2. ~InAccount' /\ LoggedIn'
    BY <1>1 DEF InAccount, LoggedIn, Last
  <1> QED BY <1>1, <1>2, ListKept

LEMMA InitList == Init => ListInv
  <1> SUFFICES ASSUME Init, disk.sound
               PROVE  FileLists /\ ~InAccount /\ LoggedIn
    BY DEF ListInv
  <1>1. disk.account = NULL
    BY DisksAssumption DEF Init
  <1>2. readers \in {<<>>, <<"rooms">>} /\ account = NULL /\ created = {} /\ account_file = NULL
    BY <1>1 DEF Init
  <1> QED BY <1>2 DEF FileLists, InAccount, LoggedIn, Last

\* What a client asks for.
LEMMA ClientList ==
    ASSUME StorageInv, ListInv, Client
    PROVE  ListInv'
  <1>1. /\ readers = <<>> /\ ~InAccount /\ saving = "none" /\ server = "running" /\ actor = NULL
    <2>1. Idle
      BY DEF Client, LogIn, LogOut, CreateAccount, CreateCharacter, Play, Quit
    <2> QED BY <2>1 DEF Idle, InAccount, StorageInv, SavingOK
  <1>2. Listed = created
    BY <1>1 DEF Listed
  <1>3. UNCHANGED <<disk, created>>
    BY DEF Client, LogIn, LogOut, CreateAccount, CreateCharacter, Play, Quit, Fail, diskVars
  <1> SUFFICES ASSUME disk.sound
               PROVE  ListInv'
    BY <1>3 DEF ListInv
  <1>4. FileLists /\ LoggedIn
    BY <1>1 DEF ListInv
  <1>5. CASE LogIn
    <2>1. /\ readers' = <<"account">> /\ file' = account_file /\ pos' = 1 /\ account' = NothingRead
          /\ account_file # NULL /\ UNCHANGED account_file
      BY <1>5 DEF LogIn, NothingRead, diskVars
    <2>2. FileLists'
      BY <1>3, <1>4, <2>1 DEF FileLists
    <2>3. InAccount'
      BY <2>1 DEF InAccount, Last
    <2>4. BeingRead'
      BY <1>3, <1>4, <2>1 DEF BeingRead, FileLists, ReadUpTo
    <2> QED BY <2>2, <2>3, <2>4 DEF ListInv
  <1>6. CASE CreateAccount
    <2>1. /\ account_file = NULL /\ account' = AccountOf(<<>>) /\ account_file' = <<>>
          /\ UNCHANGED <<readers, actor>>
      BY <1>6 DEF CreateAccount, AccountOf
    <2>2. FileLists' /\ ~InAccount' /\ Listed' = created'
      BY <1>1, <2>1, TextOf DEF FileLists, InAccount, Listed
    <2>3. created' = {}
      BY <1>3, <1>4, <2>1 DEF FileLists
    <2>4. LoggedIn'
      BY <2>1, <2>2, <2>3, EmptyRoster DEF LoggedIn
    <2> QED BY <2>2, <2>4 DEF ListInv
  <1>7. CASE LogOut \/ (\E n \in TypedNames : CreateCharacter(n) \/ Play(n))
               \/ (\E k \in Characters : Quit(k))
    <2>1. /\ UNCHANGED account_file /\ account' \in {account, NULL}
          /\ readers' \in {<<>>, <<"character">>}
          /\ saving' \in {"none", "character"}
      BY <1>1, <1>7 DEF LogOut, CreateCharacter, Play, Quit, Fail, diskVars
    <2>2. ~InAccount' /\ Listed' = created'
      BY <2>1 DEF InAccount, Listed, Last
    <2>3. LoggedIn'
      BY <1>2, <1>3, <1>4, <2>1, <2>2 DEF LoggedIn
    <2> QED BY <1>3, <2>1, <2>2, <2>3, ListKept
  <1> QED BY <1>5, <1>6, <1>7 DEF Client

\* What is written of the account.
LEMMA SaveList ==
    ASSUME StorageInv, ListInv, Save
    PROVE  ListInv'
  <1>1. /\ UNCHANGED <<disk, server, readers>> /\ saving # "none" /\ server = "running"
        /\ readers = <<>> /\ ~InAccount /\ ~InAccount'
    BY DEF Save, SaveCharacter, OpenAccount, SaveAccount, StorageInv, SavingOK, InAccount
  <1> SUFFICES ASSUME disk.sound
               PROVE  ListInv'
    BY <1>1 DEF ListInv
  <1>2. FileLists /\ LoggedIn /\ account \in Account
    BY <1>1 DEF ListInv, StorageInv, SavingOK
  <1>3. PICK list : Roster(list, Listed) /\ account = AccountOf(list)
    BY <1>2, NullAssumption DEF LoggedIn
  <1>4. CASE SaveCharacter
    <2>1. /\ saving = "character" /\ saving' = "account_next" /\ UNCHANGED <<account_file, created, actor>>
          /\ account' = account_add_character(account, actor.name)
      BY <1>4 DEF SaveCharacter
    <2>2. actor # NULL
      BY <2>1 DEF StorageInv, SavingOK
    <2>3. PICK n \in TypedNames : Made(actor, n)
      BY <1>1, <2>2 DEF StorageInv, SavingOK
    <2>4. PICK name \in Name : name = actor.name
      BY <2>3, FileOfName, CapitalString DEF StorageInv, Made
    <2>5. Listed = created /\ Listed' = created \cup {str_to_lower(name)}
      BY <2>1, <2>2, <2>4 DEF Listed
    <2>6. PICK more : more = account_add_character(account, name).character_names
      OBVIOUS
    <2>7. account' = AccountOf(more)
      BY <1>3, <2>1, <2>4, <2>6 DEF account_add_character, AccountOf
    <2>8. Roster(more, created \cup {str_to_lower(name)})
      <3>1. Roster(account.character_names, created)
        BY <1>3, <2>5 DEF AccountOf
      <3> QED BY <1>2, <2>6, <3>1, RosterAdded
    <2>9. LoggedIn'
      BY <2>5, <2>7, <2>8 DEF LoggedIn
    <2> QED BY <1>1, <2>1, <2>9, ListKept
  <1>5. CASE OpenAccount
    <2>1. /\ account_file' = <<>> /\ saving = "account_next" /\ saving' = "account"
          /\ UNCHANGED <<created, actor, account>>
      BY <1>5 DEF OpenAccount
    <2>2. FileLists'
      BY <2>1, TextOf DEF FileLists
    <2>3. Listed' = Listed
      BY <2>1 DEF Listed
    <2>4. LoggedIn'
      BY <1>2, <2>1, <2>3 DEF LoggedIn
    <2> QED BY <1>1, <2>2, <2>4 DEF ListInv
  <1>6. CASE SaveAccount
    <2>1. /\ account_file' = account_save(account) /\ saving = "account" /\ saving' = "none"
          /\ actor' = NULL /\ UNCHANGED account
          /\ created' = IF actor = NULL THEN created ELSE created \cup {str_to_lower(actor.name)}
      BY <1>6 DEF SaveAccount
    <2>2. Listed = created' /\ Listed' = created'
      BY <2>1 DEF Listed
    <2>3. account_file' = account_save(AccountOf(list)) /\ Roster(list, created')
      BY <1>3, <2>1, <2>2
    <2>4. account_file' # NULL
      BY <2>3, AccountFileRead, TextOf
    <2>5. FileLists'
      BY <2>3, <2>4 DEF FileLists
    <2>6. LoggedIn'
      BY <1>3, <2>1, <2>2, <2>3 DEF LoggedIn
    <2> QED BY <1>1, <2>5, <2>6 DEF ListInv
  <1> QED BY <1>4, <1>5, <1>6 DEF Save

LEMMA ListStep ==
    ASSUME StorageInv, ListInv, [Next]_vars
    PROVE  ListInv'
  <1>1. CASE ReadRooms \/ ReadActor \/ ReadPart \/ NoColon \/ CharacterRejected \/ EndOfFile
    BY <1>1, OtherReadersList
  <1>2. CASE ReadAccount
    BY <1>2, AccountFieldList, AccountEndsList DEF ReadAccount
  <1>3. CASE Client \/ Save
    BY <1>3, ClientList, SaveList
  <1>4. CASE Restart
    BY <1>4, RestartList
  <1>5. CASE UNCHANGED vars
    BY <1>5 DEF vars, diskVars, ListInv, FileLists, BeingRead, LoggedIn, InAccount, ReadUpTo, Listed
  <1> QED BY <1>1, <1>2, <1>3, <1>4, <1>5 DEF Next

LEMMA ListInvariant == Spec => []ListInv
  BY InitList, ListStep, StorageInvariant, PTL DEF Spec

\* Whatever names are created, with letters of whatever case, and wherever the
\* server is killed between two writes, a logged in account has the characters
\* whose creation was reported and no others (account_add_character,
\* account_save, account_load, account_has_character).
THEOREM ListedAsReported == Spec => []CharacterListExact
  <1>1. StorageInv /\ ListInv => CharacterListExact
    <2> SUFFICES ASSUME StorageInv, ListInv, disk.sound, Idle, account # NULL, NEW n \in DOMAIN pcs
                 PROVE  account_has_character(account, n) <=> n \in created
      BY DEF CharacterListExact
    <2>1. server = "running" /\ ~InAccount /\ Listed = created
      BY DEF Idle, InAccount, Listed
    <2>2. PICK list : Roster(list, created) /\ account = AccountOf(list)
      BY <2>1 DEF ListInv, LoggedIn
    <2>3. n \in Name
      <3>1. n \in DOMAIN disk.pcs /\ disk \in Disks
        BY DEF StorageInv, FilesOK
      <3> QED BY <3>1, DisksAssumption
    <2> QED BY <2>2, <2>3 DEF Roster, account_has_character, AccountOf
  <1> QED BY <1>1, StorageInvariant, ListInvariant, PTL

-----------------------------------------------------------------------------
(* Pieces of text that are read as one chunk.                                *)

\* From behind n to behind m the file has the chunk, or, if it is absent, nothing.
Piece(f, n, m, here, type, tag, value) ==
    IF here THEN ChunkAt(f, n, type, tag, value, m) ELSE m = n

\* Wherever the text stands in a file, it is the chunk.
PieceOf(w, here, type, tag, value) ==
    /\ Proper(Tokens, w)
    /\ \A f, n, m : HoldsTo(Tokens, f, n, w, m) => Piece(f, n, m, here, type, tag, value)

LEMMA TokensOf ==
    /\ "#" \in Tokens /\ ":" \in Tokens /\ "~" \in Tokens /\ "end" \in Tokens
    /\ "\n" \in Tokens /\ Space \in Tokens
  BY WordText, Zenon DEF Space

Tag(w) == w \in Tokens /\ Plain(w) /\ w # "end"

LEMMA TagWords ==
    /\ Tag("id") /\ Tag("location_id") /\ Tag("dead") /\ Tag("appearance") /\ Tag("name")
    /\ Tag("long_name") /\ Tag("description") /\ Tag("room") /\ Tag("exit")
  <1>1. /\ "id" \in Tokens /\ "location_id" \in Tokens /\ "dead" \in Tokens
        /\ "appearance" \in Tokens /\ "name" \in Tokens /\ "long_name" \in Tokens
        /\ "description" \in Tokens /\ "room" \in Tokens /\ "exit" \in Tokens
    BY WordText
  <1>2. /\ Plain("id") /\ Plain("location_id") /\ Plain("dead") /\ Plain("appearance")
        /\ Plain("name") /\ Plain("long_name") /\ Plain("description") /\ Plain("room")
        /\ Plain("exit")
    BY Zenon DEF Plain, Whitespace, Newlines
  <1> QED BY <1>1, <1>2 DEF Tag

LEMMA NothingPiece ==
    ASSUME NEW type, NEW tag, NEW value
    PROVE  PieceOf(<<>>, FALSE, type, tag, value)
  <1>1. Proper(Tokens, <<>>)
    BY ProperNothing
  <1>2. \A f, n, m : HoldsTo(Tokens, f, n, <<>>, m) => m = n
    BY NothingTo
  <1> QED BY <1>1, <1>2 DEF PieceOf, Piece

LEMMA FieldPiece ==
    ASSUME NEW tag, Tag(tag), NEW absent \in BOOLEAN, NEW value,
           ~absent => value \in Text /\ Readable(value)
    PROVE  PieceOf(FieldUnless(absent, tag, value), ~absent, "field", tag, value)
  <1>1. CASE absent
    <2>1. FieldUnless(absent, tag, value) = <<>>
      BY <1>1 DEF FieldUnless
    <2>2. (~absent) = FALSE
      BY <1>1
    <2> QED BY <2>1, <2>2, NothingPiece
  <1>2. CASE ~absent
    <2>1. FieldUnless(absent, tag, value) = file_chunk_write_field(tag, value)
      BY <1>2 DEF FieldUnless
    <2>2. Writable(Tokens, tag, value)
      BY <1>2, TokensOf DEF Writable, Readable, Text, Tag
    <2>3. /\ Proper(Tokens, file_chunk_write_field(tag, value))
          /\ \A f, n, m : HoldsTo(Tokens, f, n, file_chunk_write_field(tag, value), m) =>
               ChunkAt(f, n, "field", tag, value, m)
      BY <2>2, FieldTo
    <2> QED BY <1>2, <2>1, <2>3 DEF PieceOf, Piece
  <1> QED BY <1>1, <1>2

LEMMA StartPiece ==
    ASSUME NEW tag, Tag(tag)
    PROVE  PieceOf(file_chunk_write_section_start(tag), TRUE, "start", tag, <<>>)
  <1>1. /\ Proper(Tokens, file_chunk_write_section_start(tag))
        /\ \A f, n, m : HoldsTo(Tokens, f, n, file_chunk_write_section_start(tag), m) =>
             ChunkAt(f, n, "start", tag, <<>>, m)
    BY TokensOf, StartTo DEF Tag
  <1> QED BY <1>1 DEF PieceOf, Piece

LEMMA EndPiece ==
    ASSUME NEW tag, tag \in Tokens, Plain(tag), NEW blank \in {<<>>, <<"\n">>}
    PROVE  PieceOf(file_chunk_write_section_end(tag) \o blank, TRUE, "end", tag, <<>>)
  <1>1. PICK size \in Nat : Blank(Tokens, blank, size)
    <2>1. Blank(Tokens, <<>>, 0) /\ Blank(Tokens, <<"\n">>, 1)
      BY TokensOf, BlankIs
    <2>2. 0 \in Nat /\ 1 \in Nat
      OBVIOUS
    <2> QED BY <2>1, <2>2, Zenon
  <1>2. /\ Proper(Tokens, file_chunk_write_section_end(tag) \o blank)
        /\ \A f, n, m : HoldsTo(Tokens, f, n, file_chunk_write_section_end(tag) \o blank, m) =>
             ChunkAt(f, n, "end", tag, <<>>, m)
    <2> HIDE DEF Blank
    <2> QED BY <1>1, TokensOf, EndTo
  <1> QED BY <1>2 DEF PieceOf, Piece

\* The end of a section with nothing behind it.
LEMMA PlainEndPiece ==
    ASSUME NEW tag, tag \in Tokens, Plain(tag)
    PROVE  PieceOf(file_chunk_write_section_end(tag), TRUE, "end", tag, <<>>)
  <1>1. PieceOf(file_chunk_write_section_end(tag) \o <<>>, TRUE, "end", tag, <<>>)
    BY EndPiece, Zenon
  <1>2. file_chunk_write_section_end(tag) \in Seq(Tokens)
    <2>1. file_chunk_write_section_end(tag) = <<"#", "end", Space, tag, "\n">>
      BY EndWritten
    <2>2. <<"#", "end", Space, tag, "\n">> \in Seq(Tokens)
      BY TokensOf, FiveTokens
    <2> QED BY <2>1, <2>2
  <1>3. PICK e \in Seq(Tokens) : e = file_chunk_write_section_end(tag)
    BY <1>2
  <1>4. e \o <<>> = e
    OBVIOUS
  <1> QED BY <1>1, <1>3, <1>4, Zenon

LEMMA ExitPiece ==
    ASSUME NEW args, OneLine(Tokens, args)
    PROVE  PieceOf(file_chunk_write_section_inline("exit", args), TRUE, "start", "exit", args)
  <1>1. "exit" \in Tokens /\ Plain("exit") /\ "exit" # "end"
    BY TagWords DEF Tag
  <1>2. /\ Proper(Tokens, file_chunk_write_section_inline("exit", args))
        /\ \A f, n, m : HoldsTo(Tokens, f, n, file_chunk_write_section_inline("exit", args), m) =>
             ChunkAt(f, n, "start", "exit", args, m)
    BY <1>1, TokensOf, InlineTo
  <1> QED BY <1>2 DEF PieceOf, Piece

-----------------------------------------------------------------------------
(* Exits: what ParsedExit makes of what ExitArgs writes.                     *)

DirectionPlaces == 1 .. 6

LEMMA DirectionsAre ==
    /\ Len(Directions) = 6 /\ 1 .. Len(Directions) = DirectionPlaces
    /\ \A d \in DirectionPlaces : Directions[d] \in Tokens /\ Plain(Directions[d])
    /\ \A d, e \in DirectionPlaces : Directions[d] = Directions[e] => d = e
  <1>1. Len(Directions) = 6
    BY DEF Directions
  <1>2. \A d \in DirectionPlaces : d = 1 \/ d = 2 \/ d = 3 \/ d = 4 \/ d = 5 \/ d = 6
    BY DEF DirectionPlaces
  <1>3. /\ Directions[1] = "north" /\ Directions[2] = "south" /\ Directions[3] = "east"
        /\ Directions[4] = "west" /\ Directions[5] = "up" /\ Directions[6] = "down"
    BY DEF Directions
  <1>4. /\ Plain("north") /\ Plain("south") /\ Plain("east") /\ Plain("west") /\ Plain("up")
        /\ Plain("down")
    BY Zenon DEF Plain, Whitespace, Newlines
  <1>5. \A d \in DirectionPlaces : Plain(Directions[d])
    <2> TAKE d \in DirectionPlaces
    <2> QED BY <1>2, <1>3, <1>4
  <1>6. \A d \in DirectionPlaces : Directions[d] \in Range(Directions)
    <2>1. DOMAIN Directions = DirectionPlaces
      BY <1>1 DEF DirectionPlaces, Directions
    <2> QED BY <2>1 DEF Range
  <1>7. Range(Directions) \subseteq Tokens
    BY WordsAssumption, Zenon DEF Words
  <1>8. \A d, e \in DirectionPlaces : Directions[d] = Directions[e] => d = e
    <2> TAKE d, e \in DirectionPlaces
    <2> QED BY <1>2, <1>3
  <1> QED BY <1>1, <1>5, <1>6, <1>7, <1>8 DEF DirectionPlaces

LEMMA DirectionFound ==
    ASSUME NEW d \in DirectionPlaces
    PROVE  string_to_direction(<<Directions[d]>>) = d
  <1> DEFINE S == { k \in 1 .. Len(Directions) : <<Directions[d]>> = <<Directions[k]>> }
                    \cup {Len(Directions) + 1}
  <1>1. d \in Nat /\ d <= 6
    BY DEF DirectionPlaces
  <1>2. S = {d, 7}
    <2>1. \A k : <<Directions[d]>> = <<Directions[k]>> => Directions[d] = Directions[k]
      OBVIOUS
    <2>2. \A k \in DirectionPlaces : <<Directions[d]>> = <<Directions[k]>> <=> k = d
      BY <2>1, DirectionsAre
    <2>3. Len(Directions) + 1 = 7
      BY DirectionsAre
    <2> QED BY <2>2, <2>3, DirectionsAre, Zenon
  <1>3. Min(S) = d
    <2>1. S \in SUBSET Nat /\ S # {}
      BY <1>1, <1>2
    <2>2. Min(S) \in S /\ \A k \in S : Min(S) <= k
      BY <2>1, MinOf
    <2>3. Min(S) \in {d, 7} /\ Min(S) <= d
      BY <1>2, <2>2
    <2>4. PICK m : m = Min(S)
      OBVIOUS
    <2>5. m = d
      BY <1>1, <2>3, <2>4
    <2> QED BY <2>4, <2>5
  <1> QED BY <1>3 DEF string_to_direction

LEMMA NumeralsAre ==
    ASSUME NEW n \in ActorIDs, n # 0
    PROVE  /\ Numeral[n] \in Tokens /\ Plain(Numeral[n]) /\ atoi(<<Numeral[n]>>) = n
           /\ <<Numeral[n]>> \in Text /\ Readable(<<Numeral[n]>>)
  <1>1. DOMAIN Numeral = 1 .. MAX_ACTOR_ID /\ n \in DOMAIN Numeral
    BY StorageAssumption DEF ActorIDs
  <1>2. Numeral[n] \in Tokens
    BY <1>1, StorageAssumption
  <1>3. Plain(Numeral[n])
    BY <1>1, NumeralAssumption, Zenon
  <1>4. PICK w \in Seq(Tokens) : w = <<Numeral[n]>> /\ Len(w) = 1 /\ w[1] = Numeral[n]
    BY <1>2, OneToken
  <1>5. w # <<>> /\ Head(w) = Numeral[n]
    BY <1>4
  <1>6. \A k \in DOMAIN Numeral : Numeral[k] = Head(w) <=> k = n
    BY <1>1, <1>5, NumeralAssumption, Zenon
  <1>7. atoi(w) = n
    <2>1. (CHOOSE k \in DOMAIN Numeral : Numeral[k] = Head(w)) = n
      BY <1>1, <1>6, Zenon
    <2> QED BY <1>1, <1>5, <1>6, <2>1, Zenon DEF atoi
  <1>8. Readable(w)
    BY <1>3, <1>4 DEF Readable, Trimmed, Plain
  <1> QED BY <1>2, <1>3, <1>4, <1>7, <1>8 DEF Text

LEMMA ExitArgsIs ==
    ASSUME NEW d, NEW exit
    PROVE  ExitArgs(d, exit) =
             <<Directions[d], Space, Numeral[exit.to_room], Space,
               IF exit.closed THEN "true" ELSE "false">>
               \o (IF exit.keyword = NULL THEN <<>> ELSE <<Space>> \o exit.keyword)
  BY Zenon DEF ExitArgs, Space

\* An exit is read back from the line that is written for it.
LEMMA ExitRead ==
    ASSUME NEW d \in DirectionPlaces, NEW exit \in Exit, ReadableExit(exit)
    PROVE  /\ OneLine(Tokens, ExitArgs(d, exit))
           /\ ParsedExit(ExitArgs(d, exit)) = [dir |-> d, exit |-> exit]
  <1>1. PICK z : z = IF exit.closed THEN "true" ELSE "false"
    OBVIOUS
  <1>2. z \in Tokens /\ Plain(z) /\ (<<z>> = <<"true">> <=> exit.closed)
    <2>1. "true" \in Tokens /\ "false" \in Tokens
      BY WordText
    <2>2. Plain("true") /\ Plain("false")
      BY Zenon DEF Plain, Whitespace, Newlines
    <2>3. <<"true">> # <<"false">>
      BY SMT
    <2>4. CASE exit.closed
      BY <1>1, <2>1, <2>2, <2>4
    <2>5. CASE ~exit.closed
      BY <1>1, <2>1, <2>2, <2>3, <2>5
    <2> QED BY <2>4, <2>5
  <1>3. PICK rest : rest = IF exit.keyword = NULL THEN <<>> ELSE exit.keyword
    OBVIOUS
  <1>4. /\ exit.to_room \in ActorIDs /\ exit.to_room # 0 /\ exit.keyword \in TextOrNull
        /\ exit.closed \in BOOLEAN
    BY StorageAssumption DEF Exit, ReadableExit
  <1>5. exit.keyword # NULL => OneLine(Tokens, rest) /\ rest # <<>>
    BY <1>3, <1>4 DEF ReadableExit, ReadableKeyword, Readable, OneLine, TextOrNull, Text
  <1>6. rest = <<>> \/ OneLine(Tokens, rest)
    BY <1>3, <1>5
  <1>7. exit.keyword = IF rest = <<>> THEN NULL ELSE rest
    BY <1>3, <1>5
  <1>8. PICK more : more = IF rest = <<>> THEN <<>> ELSE <<Space>> \o rest
    OBVIOUS
  <1>9. more = IF exit.keyword = NULL THEN <<>> ELSE <<Space>> \o exit.keyword
    BY <1>3, <1>5, <1>8
  <1>10. PICK x, y : x = Directions[d] /\ y = Numeral[exit.to_room]
    OBVIOUS
  <1>11. PICK line : line = <<x, Space, y, Space, z>> \o more
    OBVIOUS
  <1>12. ExitArgs(d, exit) = line
    BY <1>1, <1>9, <1>10, <1>11, ExitArgsIs, Zenon
  <1>13. x \in Tokens /\ Plain(x) /\ y \in Tokens /\ Plain(y) /\ Space \in Tokens
    BY <1>4, <1>10, DirectionsAre, NumeralsAre, TokensOf
  <1>14. ThreeWords(Tokens, line, x, y, z, rest)
    BY <1>2, <1>6, <1>8, <1>11, <1>13, ThreeWordsRead
  <1>15. PICK r1, r2 : WordParsed(line, x, r1) /\ WordParsed(r1, y, r2) /\ WordParsed(r2, z, rest)
    BY <1>14 DEF ThreeWords
  <1>16. string_to_direction(<<x>>) = d /\ atoi(<<y>>) = exit.to_room
    BY <1>4, <1>10, DirectionFound, NumeralsAre
  <1>17. ParsedExit(line) = [dir |-> d, exit |-> [to_room |-> exit.to_room, closed |-> exit.closed,
                                                  keyword |-> exit.keyword]]
    <2>1. /\ str_parse_word(line).word = <<x>> /\ str_parse_word(line).rest = r1
          /\ str_parse_word(r1).word = <<y>> /\ str_parse_word(r1).rest = r2
          /\ str_parse_word(r2).word = <<z>> /\ str_parse_word(r2).rest = rest
      BY <1>15 DEF WordParsed
    <2>2. (<<z>> = <<"true">>) = exit.closed
      BY <1>2, <1>4
    <2> QED BY <1>7, <1>16, <2>1, <2>2 DEF ParsedExit
  <1>18. exit = [to_room |-> exit.to_room, closed |-> exit.closed, keyword |-> exit.keyword]
    BY DEF Exit
  <1>19. OneLine(Tokens, line)
    BY <1>14 DEF ThreeWords
  <1> QED BY <1>12, <1>17, <1>18, <1>19

-----------------------------------------------------------------------------
(* The pieces of a saved actor.                                              *)

\* The exits of a room, and the lines around them.
RoomAt(f, n, m, room) ==
    \E e \in [1 .. 7 -> Nat] :
        /\ Piece(f, n, e[1], room # NULL, "start", "room", <<>>)
        /\ \A d \in DirectionPlaces : \A j \in 1 .. 7 : j = d + 1 =>
             Piece(f, e[d], e[j], room # NULL /\ room[d] # NULL, "start", "exit",
                   ExitArgs(d, room[d]))
        /\ Piece(f, e[7], m, room # NULL, "end", "room", <<>>)

ReadableRoom(room) ==
    room # NULL =>
      \A d \in DirectionPlaces : room[d] # NULL => room[d] \in Exit /\ ReadableExit(room[d])

RoomText(room) == IF room = NULL THEN <<>> ELSE room_write_section(room)

\* A text that is read as the exits of the room.
RoomOf(w, room) ==
    Proper(Tokens, w) /\ \A f, n, m : HoldsTo(Tokens, f, n, w, m) => RoomAt(f, n, m, room)

LEMMA NoRoomOf == RoomOf(<<>>, NULL)
  <1>1. ASSUME NEW f, NEW n, NEW m, HoldsTo(Tokens, f, n, <<>>, m)
        PROVE  RoomAt(f, n, m, NULL)
    <2>1. n \in Nat /\ m = n
      BY <1>1, NothingTo, PartedType, Zenon
    <2>2. PICK e \in [1 .. 7 -> Nat] : \A k \in 1 .. 7 : e[k] = n
      <3>1. [k \in 1 .. 7 |-> n] \in [1 .. 7 -> Nat]
        BY <2>1
      <3> QED BY <3>1
    <2>3. e[1] = n /\ e[7] = n
      BY <2>2
    <2>4. \A d \in DirectionPlaces : \A j \in 1 .. 7 : j = d + 1 => e[d] = e[j]
      BY <2>2 DEF DirectionPlaces
    <2> QED BY <2>1, <2>2, <2>3, <2>4 DEF RoomAt, Piece
  <1>2. Proper(Tokens, <<>>)
    BY ProperNothing
  <1> QED BY <1>1, <1>2, Zenon DEF RoomOf

LEMMA SomeRoomOf ==
    ASSUME NEW room, room # NULL, ReadableRoom(room)
    PROVE  RoomOf(room_write_section(room), room)
  <1>1. PICK start, end : /\ start = file_chunk_write_section_start("room")
                          /\ end = file_chunk_write_section_end("room")
    OBVIOUS
  <1>2. /\ PieceOf(start, TRUE, "start", "room", <<>>) /\ PieceOf(end, TRUE, "end", "room", <<>>)
    BY <1>1, TagWords, StartPiece, PlainEndPiece DEF Tag
  <1>3. PICK P : P = [d \in DirectionPlaces |-> IF room[d] = NULL THEN <<>>
                       ELSE file_chunk_write_section_inline("exit", ExitArgs(d, room[d]))]
    OBVIOUS
  <1>4. \A d \in DirectionPlaces :
          PieceOf(P[d], room[d] # NULL, "start", "exit", ExitArgs(d, room[d]))
    <2> TAKE d \in DirectionPlaces
    <2>1. CASE room[d] = NULL
      <3>1. P[d] = <<>> /\ (room[d] # NULL) = FALSE
        BY <1>3, <2>1
      <3> QED BY <3>1, NothingPiece
    <2>2. CASE room[d] # NULL
      <3>1. P[d] = file_chunk_write_section_inline("exit", ExitArgs(d, room[d])) /\ (room[d] # NULL) = TRUE
        BY <1>3, <2>2
      <3>2. OneLine(Tokens, ExitArgs(d, room[d]))
        BY <2>2, ExitRead DEF ReadableRoom
      <3> QED BY <3>1, <3>2, ExitPiece
    <2> QED BY <2>1, <2>2
  <1>5. /\ \A d \in DirectionPlaces : Proper(Tokens, P[d])
        /\ \A d \in DirectionPlaces : \A f, n, m : HoldsTo(Tokens, f, n, P[d], m) =>
             Piece(f, n, m, room[d] # NULL, "start", "exit", ExitArgs(d, room[d]))
    BY <1>4, Zenon DEF PieceOf
  <1>6. DOMAIN P = 1 .. 6 /\ DirectionPlaces = 1 .. 6 /\ Len(P) = 6
    <2>1. DOMAIN P = 1 .. 6
      BY <1>3 DEF DirectionPlaces
    <2>2. \A d \in 1 .. 6 : P[d] \in Seq(Tokens)
      BY <1>5 DEF Proper, DirectionPlaces
    <2>3. P \in Seq(Seq(Tokens)) /\ Len(P) = 6
      <3>1. P = [d \in 1 .. 6 |-> P[d]]
        BY <1>3 DEF DirectionPlaces
      <3> HIDE DEF Tokens
      <3> QED BY <2>2, <3>1
    <2> QED BY <2>1, <2>3 DEF DirectionPlaces
  <1>7. PICK flat : flat = FlattenSeq(P)
    OBVIOUS
  <1>71. 6 \in Nat /\ 6 = Len(P) /\ (6 = 0 => P = <<>>) /\ \A k \in 1 .. 6 : Proper(Tokens, P[k])
    BY <1>5, <1>6
  <1>8. Proper(Tokens, flat)
    BY <1>7, <1>71, ProperFlat, Zenon
  <1>9. \A f, n, m : HoldsTo(Tokens, f, n, flat, m) =>
          \E e : HoldsAll(Tokens, f, e, P, 6) /\ e[1] = n /\ e[7] = m
    <2> TAKE f, n, m
    <2> HAVE HoldsTo(Tokens, f, n, flat, m)
    <2>1. FlatAt(Tokens, f, P, 6, n, m)
      BY <1>7, <1>71, FlatTo, Zenon
    <2> QED BY <2>1 DEF FlatAt
  <1>10. Proper(Tokens, start) /\ Proper(Tokens, end)
    BY <1>2 DEF PieceOf
  <1>11. PICK w : w = start \o flat \o end
    OBVIOUS
  <1>12. Proper(Tokens, w)
    BY <1>8, <1>10, <1>11, ThreeParted
  <1>13. ASSUME NEW f, NEW n, NEW m, HoldsTo(Tokens, f, n, w, m)
         PROVE  RoomAt(f, n, m, room)
    <2>1. PICK k1, k2 \in Nat : /\ HoldsTo(Tokens, f, n, start, k1) /\ HoldsTo(Tokens, f, k1, flat, k2)
                                /\ HoldsTo(Tokens, f, k2, end, m)
      BY <1>8, <1>10, <1>11, <1>13, ThreeParted
    <2>2. PICK e : HoldsAll(Tokens, f, e, P, 6) /\ e[1] = k1 /\ e[7] = k2
      BY <1>9, <2>1
    <2>3. e \in [1 .. 7 -> Nat] /\ \A i \in 1 .. 6 : \A j \in 1 .. 7 : j = i + 1 =>
            HoldsTo(Tokens, f, e[i], P[i], e[j])
      BY <2>2 DEF HoldsAll
    <2>4. \A d \in DirectionPlaces : \A j \in 1 .. 7 : j = d + 1 =>
             Piece(f, e[d], e[j], room # NULL /\ room[d] # NULL, "start", "exit", ExitArgs(d, room[d]))
      <3> TAKE d \in DirectionPlaces
      <3> TAKE j \in 1 .. 7
      <3> HAVE j = d + 1
      <3>1. HoldsTo(Tokens, f, e[d], P[d], e[j])
        BY <1>6, <2>3
      <3>2. Piece(f, e[d], e[j], room[d] # NULL, "start", "exit", ExitArgs(d, room[d]))
        BY <1>5, <3>1
      <3> QED BY <3>2 DEF Piece
    <2>5. Piece(f, n, e[1], TRUE, "start", "room", <<>>) /\ Piece(f, e[7], m, TRUE, "end", "room", <<>>)
      BY <1>2, <2>1, <2>2 DEF PieceOf
    <2>6. (room # NULL) = TRUE
      OBVIOUS
    <2> QED BY <2>3, <2>4, <2>5, <2>6, Zenon DEF RoomAt
  <1>14. room_write_section(room) = w
    <2>1. 1 .. Len(Directions) = DirectionPlaces
      BY DirectionsAre
    <2> QED BY <1>1, <1>3, <1>7, <1>11, <2>1, Zenon DEF room_write_section
  <1> QED BY <1>12, <1>13, <1>14, Zenon DEF RoomOf

\* Where the chunks of a saved actor are: the one numbered i begins behind at[i].
SavedAt(f, at, a) ==
    /\ at \in [1 .. 17 -> Nat]
    /\ Piece(f, at[1], at[2], Persistent(a.id), "field", "id", <<Numeral[a.id]>>)
    /\ Piece(f, at[2], at[3], a.location_id # 0, "field", "location_id", <<Numeral[a.location_id]>>)
    /\ Piece(f, at[3], at[4], a.dead, "field", "dead", <<"true">>)
    /\ Piece(f, at[4], at[5], TRUE, "start", "appearance", <<>>)
    /\ Piece(f, at[5], at[6], a.name # NULL, "field", "name", a.name)
    /\ Piece(f, at[6], at[7], a.long_name # NULL, "field", "long_name", a.long_name)
    /\ Piece(f, at[7], at[8], a.description # NULL, "field", "description", a.description)
    /\ Piece(f, at[8], at[9], TRUE, "end", "appearance", <<>>)
    /\ Piece(f, at[9], at[10], a.room # NULL, "start", "room", <<>>)
    /\ \A d \in DirectionPlaces : \A i, j \in 1 .. 17 : i = d + 9 /\ j = d + 10 =>
         Piece(f, at[i], at[j], a.room # NULL /\ a.room[d] # NULL, "start", "exit",
               ExitArgs(d, a.room[d]))
    /\ Piece(f, at[16], at[17], a.room # NULL, "end", "room", <<>>)

Saved(f, n, m, a) == \E at : SavedAt(f, at, a) /\ at[1] = n /\ at[17] = m

LEMMA ReadableText ==
    ASSUME NEW a \in Actor, ReadableActor(a)
    PROVE  /\ a.name # NULL => a.name \in Text /\ Readable(a.name)
           /\ a.long_name # NULL => a.long_name \in Text /\ Readable(a.long_name)
           /\ a.description # NULL => a.description \in Text /\ Readable(a.description)
           /\ ReadableRoom(a.room)
  <1>1. /\ a.name \in TextOrNull /\ a.long_name \in TextOrNull /\ a.description \in TextOrNull
        /\ a.room \in Room \cup {NULL}
    BY DEF Actor
  <1>2. /\ a.name # NULL => Readable(a.name)
        /\ a.long_name # NULL => Readable(a.long_name)
        /\ a.description # NULL => Readable(a.description)
    BY Zenon DEF ReadableActor
  <1>3. ReadableRoom(a.room)
    <2>1. a.room # NULL => a.room \in Room
      BY <1>1
    <2>2. a.room # NULL => \A d \in DirectionPlaces : a.room[d] # NULL => ReadableExit(a.room[d])
      BY DirectionsAre, Zenon DEF ReadableActor
    <2>3. a.room # NULL => \A d \in DirectionPlaces : a.room[d] # NULL => a.room[d] \in Exit
      BY <2>1, DirectionsAre DEF Room
    <2> QED BY <2>2, <2>3 DEF ReadableRoom
  <1> QED BY <1>1, <1>2, <1>3 DEF TextOrNull

LEMMA ElementType ==
    ASSUME NEW T, NEW s, s \in Seq(T)
    PROVE  \A i \in 1 .. Len(s) : s[i] \in T
  OBVIOUS

\* The pieces of an actor in one list of places.
LEMMA PiecesJoined ==
    ASSUME NEW f, NEW a, NEW k1 \in Nat, NEW k2 \in Nat, NEW k3 \in Nat, NEW k4 \in Nat,
           NEW k5 \in Nat, NEW k6 \in Nat, NEW k7 \in Nat, NEW k8 \in Nat, NEW k9 \in Nat, NEW m \in Nat,
           Piece(f, k1, k2, Persistent(a.id), "field", "id", <<Numeral[a.id]>>),
           Piece(f, k2, k3, a.location_id # 0, "field", "location_id", <<Numeral[a.location_id]>>),
           Piece(f, k3, k4, a.dead, "field", "dead", <<"true">>),
           Piece(f, k4, k5, TRUE, "start", "appearance", <<>>),
           Piece(f, k5, k6, a.name # NULL, "field", "name", a.name),
           Piece(f, k6, k7, a.long_name # NULL, "field", "long_name", a.long_name),
           Piece(f, k7, k8, a.description # NULL, "field", "description", a.description),
           Piece(f, k8, k9, TRUE, "end", "appearance", <<>>),
           RoomAt(f, k9, m, a.room)
    PROVE  Saved(f, k1, m, a)
  <1>1. PICK e \in [1 .. 7 -> Nat] :
          /\ Piece(f, k9, e[1], a.room # NULL, "start", "room", <<>>)
          /\ \A d \in DirectionPlaces : \A j \in 1 .. 7 : j = d + 1 =>
               Piece(f, e[d], e[j], a.room # NULL /\ a.room[d] # NULL, "start", "exit",
                     ExitArgs(d, a.room[d]))
          /\ Piece(f, e[7], m, a.room # NULL, "end", "room", <<>>)
    BY DEF RoomAt
  <1>2. PICK at : at = <<k1, k2, k3, k4, k5, k6, k7, k8, k9, e[1], e[2], e[3], e[4], e[5], e[6], e[7], m>>
    OBVIOUS
  <1>3. /\ at[1] = k1 /\ at[2] = k2 /\ at[3] = k3 /\ at[4] = k4 /\ at[5] = k5 /\ at[6] = k6
        /\ at[7] = k7 /\ at[8] = k8 /\ at[9] = k9 /\ at[10] = e[1] /\ at[16] = e[7] /\ at[17] = m
    BY <1>2
  <1>4. \A d \in 1 .. 7 : \A i \in 1 .. 17 : i = d + 9 => at[i] = e[d]
    <2>1. \A d \in 1 .. 7 : d = 1 \/ d = 2 \/ d = 3 \/ d = 4 \/ d = 5 \/ d = 6 \/ d = 7
      OBVIOUS
    <2>2. /\ at[11] = e[2] /\ at[12] = e[3] /\ at[13] = e[4] /\ at[14] = e[5] /\ at[15] = e[6]
      BY <1>2
    <2>3. ASSUME NEW d \in 1 .. 7, NEW i \in 1 .. 17, i = d + 9
          PROVE  at[i] = e[d]
      <3>1. CASE d = 1
        <4>1. i = 10
          BY <2>3, <3>1
        <4> QED BY <1>3, <3>1, <4>1
      <3>2. CASE d = 2
        <4>1. i = 11
          BY <2>3, <3>2
        <4> QED BY <2>2, <3>2, <4>1
      <3>3. CASE d = 3
        <4>1. i = 12
          BY <2>3, <3>3
        <4> QED BY <2>2, <3>3, <4>1
      <3>4. CASE d = 4
        <4>1. i = 13
          BY <2>3, <3>4
        <4> QED BY <2>2, <3>4, <4>1
      <3>5. CASE d = 5
        <4>1. i = 14
          BY <2>3, <3>5
        <4> QED BY <2>2, <3>5, <4>1
      <3>6. CASE d = 6
        <4>1. i = 15
          BY <2>3, <3>6
        <4> QED BY <2>2, <3>6, <4>1
      <3>7. CASE d = 7
        <4>1. i = 16
          BY <2>3, <3>7
        <4> QED BY <1>3, <3>7, <4>1
      <3> QED BY <2>1, <3>1, <3>2, <3>3, <3>4, <3>5, <3>6, <3>7, Zenon
    <2> QED BY <2>3
  <1>5. at \in [1 .. 17 -> Nat]
    <2>1. /\ e[1] \in Nat /\ e[2] \in Nat /\ e[3] \in Nat /\ e[4] \in Nat /\ e[5] \in Nat
          /\ e[6] \in Nat /\ e[7] \in Nat
      BY <1>1
    <2>2. at \in Seq(Nat) /\ Len(at) = 17
      BY <1>2, <2>1
    <2>3. at = [i \in 1 .. 17 |-> at[i]]
      BY <1>2
    <2>4. \A i \in 1 .. 17 : at[i] \in Nat
      <3>1. \A i \in 1 .. Len(at) : at[i] \in Nat
        BY <2>2, ElementType, Zenon
      <3> QED BY <2>2, <3>1, Zenon
    <2> QED BY <2>3, <2>4
  <1>6. ASSUME NEW d \in DirectionPlaces, NEW i \in 1 .. 17, NEW j \in 1 .. 17, i = d + 9, j = d + 10
        PROVE  Piece(f, at[i], at[j], a.room # NULL /\ a.room[d] # NULL, "start", "exit",
                     ExitArgs(d, a.room[d]))
    <2>1. PICK c \in 1 .. 7 : c = d + 1
      <3>1. d + 1 \in 1 .. 7
        BY DEF DirectionPlaces
      <3> QED BY <3>1
    <2>2. d \in 1 .. 7 /\ j = c + 9
      BY <1>6, <2>1 DEF DirectionPlaces
    <2>3. at[i] = e[d] /\ at[j] = e[c]
      BY <1>4, <1>6, <2>2
    <2> QED BY <1>1, <2>1, <2>3
  <1>7. SavedAt(f, at, a)
    BY <1>1, <1>3, <1>5, <1>6, Zenon DEF SavedAt
  <1> QED BY <1>3, <1>7 DEF Saved

\* A text that is read as the actor.
ActorOf(w, a) ==
    Proper(Tokens, w) /\ \A f, n, m : HoldsTo(Tokens, f, n, w, m) => Saved(f, n, m, a)

\* What actor_save writes of an actor is read, chunk by chunk, wherever it stands.
LEMMA SavedActor ==
    ASSUME NEW a \in Actor, ReadableActor(a)
    PROVE  ActorOf(actor_save(a), a)
  <1>1. PICK id, place, dead :
          /\ id = FieldUnless(~Persistent(a.id), "id", <<Numeral[a.id]>>)
          /\ place = FieldUnless(a.location_id = INVALID_ACTOR_ID, "location_id", <<Numeral[a.location_id]>>)
          /\ dead = FieldUnless(~a.dead, "dead", <<"true">>)
    OBVIOUS
  <1>2. PICK name, long, desc, start, end :
          /\ name = FieldUnless(a.name = NULL, "name", a.name)
          /\ long = FieldUnless(a.long_name = NULL, "long_name", a.long_name)
          /\ desc = FieldUnless(a.description = NULL, "description", a.description)
          /\ start = file_chunk_write_section_start("appearance")
          /\ end = file_chunk_write_section_end("appearance")
    OBVIOUS
  <1>3. PICK look : look = start \o name \o long \o desc \o end
    OBVIOUS
  <1>4. PICK room : room = RoomText(a.room)
    OBVIOUS
  <1>5. actor_save(a) = id \o place \o dead \o look \o room
    BY <1>1, <1>2, <1>3, <1>4, Zenon DEF actor_save, appearance_write_section, RoomText
  <1>6. a.id \in ActorIDs /\ a.location_id \in ActorIDs /\ a.dead \in BOOLEAN /\ INVALID_ACTOR_ID = 0
    BY StorageAssumption DEF Actor
  <1>7. PieceOf(id, Persistent(a.id), "field", "id", <<Numeral[a.id]>>)
    <2>1. Persistent(a.id) \in BOOLEAN /\ (~Persistent(a.id)) \in BOOLEAN
      BY DEF Persistent
    <2>2. Persistent(a.id) => <<Numeral[a.id]>> \in Text /\ Readable(<<Numeral[a.id]>>)
      BY <1>6, NumeralsAre DEF Persistent
    <2>3. (~(~Persistent(a.id))) = Persistent(a.id)
      BY <2>1
    <2>4. PieceOf(id, ~(~Persistent(a.id)), "field", "id", <<Numeral[a.id]>>)
      BY <1>1, <2>1, <2>2, TagWords, FieldPiece
    <2> QED BY <2>3, <2>4
  <1>8. PieceOf(place, a.location_id # 0, "field", "location_id", <<Numeral[a.location_id]>>)
    <2>1. a.location_id # 0 => <<Numeral[a.location_id]>> \in Text /\ Readable(<<Numeral[a.location_id]>>)
      BY <1>6, NumeralsAre
    <2>2. (a.location_id = INVALID_ACTOR_ID) \in BOOLEAN
      OBVIOUS
    <2>3. PieceOf(place, ~(a.location_id = INVALID_ACTOR_ID), "field", "location_id", <<Numeral[a.location_id]>>)
      BY <1>1, <1>6, <2>1, <2>2, TagWords, FieldPiece
    <2> QED BY <1>6, <2>3
  <1>9. PieceOf(dead, a.dead, "field", "dead", <<"true">>)
    <2>1. <<"true">> \in Text
      BY WordText
    <2>2. Readable(<<"true">>)
      <3>1. Plain("true")
        BY Zenon DEF Plain, Whitespace, Newlines
      <3>2. Len(<<"true">>) = 1 /\ <<"true">>[1] = "true"
        OBVIOUS
      <3> QED BY <3>1, <3>2 DEF Readable, Trimmed, Plain
    <2>3. (~a.dead) \in BOOLEAN /\ (~(~a.dead)) = a.dead
      BY <1>6
    <2>4. PieceOf(dead, ~(~a.dead), "field", "dead", <<"true">>)
      BY <1>1, <2>1, <2>2, <2>3, TagWords, FieldPiece
    <2> QED BY <2>3, <2>4
  <1>10. /\ PieceOf(start, TRUE, "start", "appearance", <<>>)
         /\ PieceOf(end, TRUE, "end", "appearance", <<>>)
    BY <1>2, TagWords, StartPiece, PlainEndPiece DEF Tag
  <1>11. /\ PieceOf(name, a.name # NULL, "field", "name", a.name)
         /\ PieceOf(long, a.long_name # NULL, "field", "long_name", a.long_name)
         /\ PieceOf(desc, a.description # NULL, "field", "description", a.description)
    <2>1. ASSUME NEW tag, Tag(tag), NEW text, text # NULL => text \in Text /\ Readable(text)
          PROVE  PieceOf(FieldUnless(text = NULL, tag, text), text # NULL, "field", tag, text)
      <3>1. (text = NULL) \in BOOLEAN
        OBVIOUS
      <3>2. PieceOf(FieldUnless(text = NULL, tag, text), ~(text = NULL), "field", tag, text)
        BY <2>1, <3>1, FieldPiece
      <3> QED BY <3>2
    <2> QED BY <1>2, <2>1, TagWords, ReadableText
  <1>12. RoomOf(room, a.room)
    <2>1. CASE a.room = NULL
      BY <1>4, <2>1, NoRoomOf DEF RoomText
    <2>2. CASE a.room # NULL
      BY <1>4, <2>2, ReadableText, SomeRoomOf DEF RoomText
    <2> QED BY <2>1, <2>2
  <1>13. /\ Proper(Tokens, id) /\ Proper(Tokens, place) /\ Proper(Tokens, dead)
         /\ Proper(Tokens, start) /\ Proper(Tokens, name) /\ Proper(Tokens, long)
         /\ Proper(Tokens, desc) /\ Proper(Tokens, end) /\ Proper(Tokens, room)
    BY <1>7, <1>8, <1>9, <1>10, <1>11, <1>12 DEF PieceOf, RoomOf
  <1>14. /\ Proper(Tokens, look)
         /\ \A f, n, m : HoldsTo(Tokens, f, n, look, m) => InFive(Tokens, f, n, m, start, name, long, desc, end)
    BY <1>3, <1>13, FiveParted
  <1>15. PICK w : w = id \o place \o dead \o look \o room
    OBVIOUS
  <1>16. /\ Proper(Tokens, w)
         /\ \A f, n, m : HoldsTo(Tokens, f, n, w, m) => InFive(Tokens, f, n, m, id, place, dead, look, room)
    BY <1>13, <1>14, <1>15, FiveParted
  <1>17. ASSUME NEW f, NEW n, NEW m, HoldsTo(Tokens, f, n, w, m)
         PROVE  Saved(f, n, m, a)
    <2>1. n \in Nat /\ m \in Nat
      BY <1>17, PartedType
    <2>2. PICK k2, k3, k4, k9 \in Nat :
            /\ HoldsTo(Tokens, f, n, id, k2) /\ HoldsTo(Tokens, f, k2, place, k3)
            /\ HoldsTo(Tokens, f, k3, dead, k4) /\ HoldsTo(Tokens, f, k4, look, k9)
            /\ HoldsTo(Tokens, f, k9, room, m)
      BY <1>16, <1>17 DEF InFive
    <2>3. PICK k5, k6, k7, k8 \in Nat :
            /\ HoldsTo(Tokens, f, k4, start, k5) /\ HoldsTo(Tokens, f, k5, name, k6)
            /\ HoldsTo(Tokens, f, k6, long, k7) /\ HoldsTo(Tokens, f, k7, desc, k8)
            /\ HoldsTo(Tokens, f, k8, end, k9)
      BY <1>14, <2>2 DEF InFive
    <2>4. /\ Piece(f, n, k2, Persistent(a.id), "field", "id", <<Numeral[a.id]>>)
          /\ Piece(f, k2, k3, a.location_id # 0, "field", "location_id", <<Numeral[a.location_id]>>)
          /\ Piece(f, k3, k4, a.dead, "field", "dead", <<"true">>)
      BY <1>7, <1>8, <1>9, <2>2 DEF PieceOf
    <2>5. /\ Piece(f, k4, k5, TRUE, "start", "appearance", <<>>)
          /\ Piece(f, k5, k6, a.name # NULL, "field", "name", a.name)
          /\ Piece(f, k6, k7, a.long_name # NULL, "field", "long_name", a.long_name)
          /\ Piece(f, k7, k8, a.description # NULL, "field", "description", a.description)
          /\ Piece(f, k8, k9, TRUE, "end", "appearance", <<>>)
      BY <1>10, <1>11, <2>3 DEF PieceOf
    <2>6. RoomAt(f, k9, m, a.room)
      BY <1>12, <2>2 DEF RoomOf
    <2> QED BY <2>1, <2>2, <2>3, <2>4, <2>5, <2>6, PiecesJoined
  <1> QED BY <1>5, <1>15, <1>16, <1>17, Zenon DEF ActorOf

-----------------------------------------------------------------------------
(* rooms.txt: sections that are skipped, and rooms.                          *)

\* Behind p are fields and then the end of a section, which ends behind m.
Skipped(f, p, m) ==
    \E n \in Nat : \E s \in [1 .. n + 1 -> Nat] : \E i \in 1 .. n + 1 :
        /\ p = s[i]
        /\ \A k \in 1 .. n : \A j \in 1 .. n + 1 : j = k + 1 =>
             \E tag, value : ChunkAt(f, s[k], "field", tag, value, s[j])
        /\ \E tag : ChunkAt(f, s[n + 1], "end", tag, <<>>, m)

\* The next of them.
LEMMA SkippedNext ==
    ASSUME NEW f, NEW p, NEW m, Skipped(f, p, m)
    PROVE  \/ \E tag : ChunkAt(f, p, "end", tag, <<>>, m)
           \/ \E tag, value, q : ChunkAt(f, p, "field", tag, value, q) /\ Skipped(f, q, m)
  <1>1. PICK n, s, i :
          /\ n \in Nat /\ s \in [1 .. n + 1 -> Nat] /\ i \in 1 .. n + 1
          /\ p = s[i]
          /\ \A k \in 1 .. n : \A j \in 1 .. n + 1 : j = k + 1 =>
               \E tag, value : ChunkAt(f, s[k], "field", tag, value, s[j])
          /\ \E tag : ChunkAt(f, s[n + 1], "end", tag, <<>>, m)
    BY DEF Skipped
  <1>2. CASE i = n + 1
    BY <1>1, <1>2
  <1>3. CASE i # n + 1
    <2>1. PICK j : j = i + 1
      OBVIOUS
    <2>2. i \in 1 .. n /\ j \in 1 .. n + 1
      <3>1. n \in Nat /\ i \in 1 .. n + 1
        BY <1>1
      <3> QED BY <1>3, <2>1, <3>1
    <2>3. PICK tag, value : ChunkAt(f, s[i], "field", tag, value, s[j])
      BY <1>1, <2>1, <2>2
    <2>4. Skipped(f, s[j], m)
      BY <1>1, <2>2, Zenon DEF Skipped
    <2> QED BY <1>1, <2>3, <2>4, Zenon
  <1> QED BY <1>2, <1>3

\* The section that note is, or nothing.
NoteAt(f, p, note, m) ==
    IF note = NULL THEN m = p
    ELSE \E q : ChunkAt(f, p, "start", note.tag, <<>>, q) /\ Skipped(f, q, m)

NoteOf(w, note) ==
    Proper(Tokens, w) /\ \A f, n, m : HoldsTo(Tokens, f, n, w, m) => NoteAt(f, n, note, m)

\* A section with fields in it and nothing else.
Flatly(note) ==
    note # NULL => /\ note \in Note /\ Tag(note.tag) /\ note.inner = <<>>
                   /\ \A k \in 1 .. Len(note.fields) :
                        Plain(note.fields[k].tag) /\ Readable(note.fields[k].value)

LEMMA FieldsSkipped ==
    ASSUME NEW note, note # NULL, Flatly(note), NEW flat,
           flat = FlattenSeq([k \in 1 .. Len(note.fields) |->
                    file_chunk_write_field(note.fields[k].tag, note.fields[k].value)])
    PROVE  /\ Proper(Tokens, flat)
           /\ \A f, p, q, m, tag : HoldsTo(Tokens, f, p, flat, q) /\ ChunkAt(f, q, "end", tag, <<>>, m) =>
                Skipped(f, p, m)
  <1>1. note.fields \in Seq(Field)
    BY DEF Flatly, Note
  <1>2. PICK n \in Nat : n = Len(note.fields)
    BY <1>1
  <1>3. \A k \in 1 .. n : note.fields[k] \in Field
    BY <1>1, <1>2, ElementType, Zenon
  <1>4. PICK P : P = [k \in 1 .. n |-> file_chunk_write_field(note.fields[k].tag, note.fields[k].value)]
    OBVIOUS
  <1>5. \A k \in 1 .. n :
          /\ Proper(Tokens, P[k])
          /\ \A f, p, m : HoldsTo(Tokens, f, p, P[k], m) =>
               ChunkAt(f, p, "field", note.fields[k].tag, note.fields[k].value, m)
    <2> TAKE k \in 1 .. n
    <2>1. PICK tag, value : tag = note.fields[k].tag /\ value = note.fields[k].value
      OBVIOUS
    <2>2. tag \in Tokens /\ value \in Text /\ Plain(tag) /\ Readable(value)
      BY <1>2, <1>3, <2>1 DEF Field, Flatly
    <2>3. Writable(Tokens, tag, value)
      BY <2>2, TokensOf DEF Writable, Readable, Text
    <2>4. P[k] = file_chunk_write_field(tag, value)
      BY <1>4, <2>1
    <2>5. /\ Proper(Tokens, file_chunk_write_field(tag, value))
          /\ \A f, p, m : HoldsTo(Tokens, f, p, file_chunk_write_field(tag, value), m) =>
               ChunkAt(f, p, "field", tag, value, m)
      BY <2>3, FieldTo
    <2> QED BY <2>1, <2>4, <2>5, Zenon
  <1>6. n = Len(P) /\ (n = 0 => P = <<>>) /\ flat = FlattenSeq(P)
    <2>1. \A k \in 1 .. n : P[k] \in Seq(Tokens)
      BY <1>5 DEF Proper
    <2>2. P = [k \in 1 .. n |-> P[k]]
      BY <1>4
    <2>3. P \in Seq(Seq(Tokens)) /\ Len(P) = n
      BY <2>1, <2>2
    <2>4. n = 0 => P = <<>>
      BY <2>3
    <2>5. flat = FlattenSeq(P)
      BY <1>2, <1>4, Zenon
    <2> QED BY <2>3, <2>4, <2>5
  <1>7. \A k \in 1 .. n : Proper(Tokens, P[k])
    BY <1>5
  <1>8. Proper(Tokens, flat)
    BY <1>6, <1>7, ProperFlat, Zenon
  <1>9. ASSUME NEW f, NEW p, NEW q, NEW m, NEW tag,
               HoldsTo(Tokens, f, p, flat, q), ChunkAt(f, q, "end", tag, <<>>, m)
        PROVE  Skipped(f, p, m)
    <2>1. FlatAt(Tokens, f, P, n, p, q)
      <3>1. HoldsTo(Tokens, f, p, FlattenSeq(P), q)
        BY <1>6, <1>9
      <3> QED BY <1>6, <1>7, <3>1, FlatTo, Zenon
    <2>2. PICK s : HoldsAll(Tokens, f, s, P, n) /\ s[1] = p /\ s[n + 1] = q
      BY <2>1 DEF FlatAt
    <2>3. /\ s \in [1 .. n + 1 -> Nat]
          /\ \A k \in 1 .. n : \A j \in 1 .. n + 1 : j = k + 1 => HoldsTo(Tokens, f, s[k], P[k], s[j])
      BY <2>2 DEF HoldsAll
    <2>4. \A k \in 1 .. n : \A j \in 1 .. n + 1 : j = k + 1 =>
             \E t, value : ChunkAt(f, s[k], "field", t, value, s[j])
      BY <1>5, <2>3, Zenon
    <2>5. 1 \in 1 .. n + 1
      OBVIOUS
    <2> QED BY <1>9, <2>2, <2>3, <2>4, <2>5, Zenon DEF Skipped
  <1> QED BY <1>8, <1>9

LEMMA NoteWritten ==
    ASSUME NEW note, Flatly(note)
    PROVE  NoteOf(NoteText(note), note)
  <1>1. CASE note = NULL
    <2>1. NoteText(note) = <<>>
      BY <1>1 DEF NoteText
    <2>2. \A f, n, m : HoldsTo(Tokens, f, n, <<>>, m) => m = n
      BY NothingTo
    <2>3. Proper(Tokens, <<>>)
      BY ProperNothing
    <2> QED BY <1>1, <2>1, <2>2, <2>3 DEF NoteOf, NoteAt
  <1>2. CASE note # NULL
    <2>1. PICK start, end, flat :
            /\ start = file_chunk_write_section_start(note.tag)
            /\ end = file_chunk_write_section_end(note.tag)
            /\ flat = FlattenSeq([k \in 1 .. Len(note.fields) |->
                        file_chunk_write_field(note.fields[k].tag, note.fields[k].value)])
      OBVIOUS
    <2>2. /\ Proper(Tokens, flat)
          /\ \A f, p, q, m, tag : HoldsTo(Tokens, f, p, flat, q) /\ ChunkAt(f, q, "end", tag, <<>>, m) =>
               Skipped(f, p, m)
      BY <1>2, <2>1, FieldsSkipped
    <2>3. /\ PieceOf(start, TRUE, "start", note.tag, <<>>)
          /\ PieceOf(end, TRUE, "end", note.tag, <<>>)
      BY <1>2, <2>1, StartPiece, PlainEndPiece DEF Flatly, Tag
    <2>4. Proper(Tokens, start) /\ Proper(Tokens, end)
      BY <2>3 DEF PieceOf
    <2>5. NoteText(note) = start \o flat \o end
      <3>1. NoteText(note) = start \o flat \o <<>> \o end
        BY <1>2, <2>1, Zenon DEF NoteText, Flatly
      <3>2. PICK u : u = start \o flat /\ Proper(Tokens, u)
        BY <2>2, <2>4, ProperJoined, Zenon
      <3>3. u \o <<>> = u
        BY <3>2 DEF Proper
      <3> QED BY <3>1, <3>2, <3>3, Zenon
    <2>6. PICK w : w = start \o flat \o end
      OBVIOUS
    <2>7. Proper(Tokens, w)
      BY <2>2, <2>4, <2>6, ThreeParted
    <2>8. ASSUME NEW f, NEW n, NEW m, HoldsTo(Tokens, f, n, w, m)
          PROVE  NoteAt(f, n, note, m)
      <3>1. PICK k1, k2 \in Nat : /\ HoldsTo(Tokens, f, n, start, k1) /\ HoldsTo(Tokens, f, k1, flat, k2)
                                  /\ HoldsTo(Tokens, f, k2, end, m)
        BY <2>2, <2>4, <2>6, <2>8, ThreeParted
      <3>2. /\ ChunkAt(f, n, "start", note.tag, <<>>, k1)
            /\ ChunkAt(f, k2, "end", note.tag, <<>>, m)
        BY <2>3, <3>1 DEF PieceOf, Piece
      <3>3. Skipped(f, k1, m)
        BY <2>2, <3>1, <3>2, Zenon
      <3> QED BY <1>2, <3>2, <3>3, Zenon DEF NoteAt
    <2> QED BY <2>5, <2>6, <2>7, <2>8, Zenon DEF NoteOf
  <1> QED BY <1>1, <1>2

\* The text of a part: a section or none, and the section of the room.
PartAt(f, p, part, m) ==
    \E q1, q2, q3, q4 :
        /\ NoteAt(f, p, part.before, q1)
        /\ ChunkAt(f, q1, "start", "room", <<>>, q2)
        /\ Saved(f, q2, q3, part.room)
        /\ NoteAt(f, q3, part.inside, q4)
        /\ ChunkAt(f, q4, "end", "room", <<>>, m)

WrittenPart(part) ==
    /\ part \in Part /\ ReadableActor(part.room) /\ Flatly(part.before) /\ Flatly(part.inside)

LEMMA PartWritten ==
    ASSUME NEW part, WrittenPart(part)
    PROVE  /\ Proper(Tokens, PartText(part))
           /\ \A f, n, m : HoldsTo(Tokens, f, n, PartText(part), m) => PartAt(f, n, part, m)
  <1>1. PICK before, start, room, inside, end :
          /\ before = NoteText(part.before)
          /\ start = file_chunk_write_section_start("room")
          /\ room = actor_save(part.room)
          /\ inside = NoteText(part.inside)
          /\ end = file_chunk_write_section_end("room") \o part.blank
    OBVIOUS
  <1>2. PartText(part) = before \o start \o room \o inside \o end
    BY <1>1, Zenon DEF PartText
  <1>3. NoteOf(before, part.before) /\ NoteOf(inside, part.inside)
    BY <1>1, NoteWritten DEF WrittenPart
  <1>4. part.room \in Actor /\ part.blank \in {<<>>, <<"\n">>} /\ ReadableActor(part.room)
    BY DEF WrittenPart, Part
  <1>5. ActorOf(room, part.room)
    BY <1>1, <1>4, SavedActor
  <1>6. PieceOf(start, TRUE, "start", "room", <<>>)
    BY <1>1, TagWords, StartPiece
  <1>7. PieceOf(end, TRUE, "end", "room", <<>>)
    <2>1. "room" \in Tokens /\ Plain("room")
      BY TagWords DEF Tag
    <2> QED BY <1>1, <1>4, <2>1, EndPiece, Zenon
  <1>8. /\ Proper(Tokens, before) /\ Proper(Tokens, start) /\ Proper(Tokens, room)
        /\ Proper(Tokens, inside) /\ Proper(Tokens, end)
    BY <1>3, <1>5, <1>6, <1>7 DEF NoteOf, ActorOf, PieceOf
  <1>9. PICK w : w = before \o start \o room \o inside \o end
    OBVIOUS
  <1>10. /\ Proper(Tokens, w)
         /\ \A f, n, m : HoldsTo(Tokens, f, n, w, m) =>
              InFive(Tokens, f, n, m, before, start, room, inside, end)
    BY <1>8, <1>9, FiveParted
  <1>11. ASSUME NEW f, NEW n, NEW m, HoldsTo(Tokens, f, n, w, m)
         PROVE  PartAt(f, n, part, m)
    <2>1. PICK k1, k2, k3, k4 \in Nat :
            /\ HoldsTo(Tokens, f, n, before, k1) /\ HoldsTo(Tokens, f, k1, start, k2)
            /\ HoldsTo(Tokens, f, k2, room, k3) /\ HoldsTo(Tokens, f, k3, inside, k4)
            /\ HoldsTo(Tokens, f, k4, end, m)
      BY <1>10, <1>11 DEF InFive
    <2>2. /\ NoteAt(f, n, part.before, k1) /\ NoteAt(f, k3, part.inside, k4)
          /\ Saved(f, k2, k3, part.room)
      BY <1>3, <1>5, <2>1 DEF NoteOf, ActorOf
    <2>3. ChunkAt(f, k1, "start", "room", <<>>, k2) /\ ChunkAt(f, k4, "end", "room", <<>>, m)
      BY <1>6, <1>7, <2>1 DEF PieceOf, Piece
    <2> QED BY <2>2, <2>3, Zenon DEF PartAt
  <1> QED BY <1>2, <1>9, <1>10, <1>11, Zenon

\* Where the parts of a file are.
FileAt(f, parts, at) ==
    /\ at \in [1 .. Len(parts) + 1 -> Nat] /\ at[1] = 0
    /\ \A k \in 1 .. Len(parts) : \A j \in 1 .. Len(parts) + 1 : j = k + 1 =>
         PartAt(f, at[k], parts[k], at[j])
    /\ file_chunk_read(f, at[Len(parts) + 1] + 1).result = "eof"

\* rooms.txt consists of the parts that it was written from.
LEMMA RoomsWritten ==
    ASSUME NEW parts, parts # <<>>, parts \in Seq(Part), \A k \in 1 .. Len(parts) : WrittenPart(parts[k])
    PROVE  RoomsText(parts) \in Text /\ \E at : FileAt(RoomsText(parts), parts, at)
  <1>1. PICK n \in Nat : n = Len(parts)
    OBVIOUS
  <1>2. PICK P : P = [k \in 1 .. n |-> PartText(parts[k])]
    OBVIOUS
  <1>3. \A k \in 1 .. n :
          /\ Proper(Tokens, P[k])
          /\ \A f, p, m : HoldsTo(Tokens, f, p, P[k], m) => PartAt(f, p, parts[k], m)
    <2> TAKE k \in 1 .. n
    <2>1. WrittenPart(parts[k]) /\ P[k] = PartText(parts[k])
      BY <1>1, <1>2
    <2> QED BY <2>1, PartWritten
  <1>4. PICK text : text = RoomsText(parts)
    OBVIOUS
  <1>5. n = Len(P) /\ (n = 0 => P = <<>>) /\ text = FlattenSeq(P)
    <2>1. \A k \in 1 .. n : P[k] \in Seq(Tokens)
      BY <1>3 DEF Proper
    <2>2. P = [k \in 1 .. n |-> P[k]]
      BY <1>2
    <2>3. P \in Seq(Seq(Tokens)) /\ Len(P) = n
      BY <2>1, <2>2
    <2>4. n = 0 => P = <<>>
      BY <2>3
    <2>5. text = FlattenSeq(P)
      BY <1>1, <1>2, <1>4, Zenon DEF RoomsText
    <2> QED BY <2>3, <2>4, <2>5
  <1>6. \A k \in 1 .. n : Proper(Tokens, P[k])
    BY <1>3
  <1>7. text \in Seq(Tokens)
    <2>1. Proper(Tokens, text)
      BY <1>5, <1>6, ProperFlat, Zenon
    <2> QED BY <2>1 DEF Proper
  <1>8. HoldsTo(Tokens, text, 0, FlattenSeq(P), Len(text))
    <2>1. Holds(Tokens, text, 0, text)
      BY <1>7, HoldsWhole
    <2>2. Len(text) = 0 + Len(text)
      BY <1>7
    <2> QED BY <1>5, <2>1, <2>2, Zenon DEF HoldsTo
  <1>9. PICK at : HoldsAll(Tokens, text, at, P, n) /\ at[1] = 0 /\ at[n + 1] = Len(text)
    <2>1. FlatAt(Tokens, text, P, n, 0, Len(text))
      BY <1>5, <1>6, <1>8, FlatTo, Zenon
    <2> QED BY <2>1 DEF FlatAt
  <1>10. /\ at \in [1 .. n + 1 -> Nat]
         /\ \A k \in 1 .. n : \A j \in 1 .. n + 1 : j = k + 1 => HoldsTo(Tokens, text, at[k], P[k], at[j])
    BY <1>9 DEF HoldsAll
  <1>11. \A k \in 1 .. n : \A j \in 1 .. n + 1 : j = k + 1 => PartAt(text, at[k], parts[k], at[j])
    BY <1>3, <1>10, Zenon
  <1>12. file_chunk_read(text, at[n + 1] + 1).result = "eof"
    BY <1>7, <1>9, NothingLeft
  <1>13. FileAt(text, parts, at)
    BY <1>1, <1>9, <1>10, <1>11, <1>12, Zenon DEF FileAt
  <1> QED BY <1>4, <1>7, <1>13 DEF Text

\* A room of rooms.txt.
GoodRoom(a) ==
    a \in Actor /\ Persistent(a.id) /\ ~a.dead /\ a.player = NULL /\ ReadableActor(a)

\* The rooms of a disk that was written by the server.
LEMMA RoomsOnDisk ==
    ASSUME NEW d \in Disks, d.sound, NoNesting(d)
    PROVE  /\ d.parts \in Seq(Part)
           /\ \A k \in 1 .. Len(d.parts) :
                /\ WrittenPart(d.parts[k]) /\ GoodRoom(d.parts[k].room) /\ SavedRoom(d.parts, k)
                /\ d.parts[k].before # NULL => Skippable(d.parts[k].before, {<<"room">>})
                /\ d.parts[k].inside # NULL =>
                     Skippable(d.parts[k].inside, {<<"appearance">>, <<"room">>})
           /\ d.parts = <<>> => d.rooms = NULL
           /\ d.parts # <<>> => d.rooms # NULL /\ \E at : FileAt(d.rooms, d.parts, at)
  <1>1. /\ d.parts \in Seq(Part)
        /\ d.rooms = IF d.parts = <<>> THEN NULL ELSE RoomsText(d.parts)
        /\ \A k \in 1 .. Len(d.parts) :
             /\ SavedRoom(d.parts, k)
             /\ d.parts[k].before # NULL => Skippable(d.parts[k].before, {<<"room">>})
             /\ d.parts[k].inside # NULL =>
                  Skippable(d.parts[k].inside, {<<"appearance">>, <<"room">>})
    BY RoomsAssumption, Zenon
  <1>2. \A k \in 1 .. Len(d.parts) : d.parts[k] \in Part
    BY <1>1, ElementType, Zenon
  <1>3. ASSUME NEW k \in 1 .. Len(d.parts)
        PROVE  WrittenPart(d.parts[k]) /\ GoodRoom(d.parts[k].room)
    <2>1. ASSUME NEW note, NEW tags, note \in Note \cup {NULL}, note # NULL => Skippable(note, tags),
                 note # NULL => note.inner = <<>>
          PROVE  Flatly(note)
      <3>1. ASSUME note # NULL
            PROVE  Tag(note.tag) /\ note \in Note
        <4>1. note.tag \in Tokens /\ note \in Note
          BY <2>1, <3>1 DEF Note
        <4>2. Plain(note.tag) /\ <<note.tag>> # <<"end">>
          BY <2>1, <3>1, Zenon DEF Skippable
        <4>3. note.tag # "end"
          BY <4>2
        <4> QED BY <4>1, <4>2, <4>3 DEF Tag
      <3>2. note # NULL => \A i \in 1 .. Len(note.fields) :
                        Plain(note.fields[i].tag) /\ Readable(note.fields[i].value)
        BY <2>1, Zenon DEF Skippable
      <3> QED BY <2>1, <3>1, <3>2 DEF Flatly
    <2>2. /\ d.parts[k].before \in Note \cup {NULL} /\ d.parts[k].inside \in Note \cup {NULL}
          /\ d.parts[k].room \in Actor
      BY <1>2 DEF Part
    <2>3. /\ d.parts[k].before # NULL => d.parts[k].before.inner = <<>>
          /\ d.parts[k].inside # NULL => d.parts[k].inside.inner = <<>>
      BY Zenon DEF NoNesting
    <2>4. Flatly(d.parts[k].before) /\ Flatly(d.parts[k].inside)
      BY <1>1, <2>1, <2>2, <2>3
    <2>5. LET room == d.parts[k].room
          IN  Persistent(room.id) /\ ~room.dead /\ room.player = NULL /\ ReadableActor(room)
      BY <1>1, Zenon DEF SavedRoom
    <2> QED BY <1>2, <2>2, <2>4, <2>5 DEF WrittenPart, GoodRoom
  <1>4. d.parts # <<>> => d.rooms # NULL /\ \E at : FileAt(d.rooms, d.parts, at)
    <2>1. ASSUME d.parts # <<>>
          PROVE  d.rooms # NULL /\ \E at : FileAt(d.rooms, d.parts, at)
      <3>1. d.rooms = RoomsText(d.parts)
        BY <1>1, <2>1
      <3>2. RoomsText(d.parts) \in Text /\ \E at : FileAt(RoomsText(d.parts), d.parts, at)
        BY <1>1, <1>3, <2>1, RoomsWritten
      <3> QED BY <3>1, <3>2, TextOf
    <2> QED BY <2>1
  <1>5. d.parts = <<>> => d.rooms = NULL
    BY <1>1
  <1> QED BY <1>1, <1>3, <1>4, <1>5

-----------------------------------------------------------------------------
(* Which step reads a chunk.                                                 *)

Reads ==
    ReadRooms \/ ReadActor \/ ReadPart \/ ReadAccount \/ NoColon \/ CharacterRejected \/ EndOfFile

\* While a file is read nothing else happens but a restart.
LEMMA OnlyReads ==
    ASSUME StorageInv, readers # <<>>, Next
    PROVE  Reads \/ Restart
  <1>1. ~Client
    BY DEF Client, LogIn, LogOut, CreateAccount, CreateCharacter, Play, Quit, Idle
  <1>2. ~Save
    BY DEF StorageInv, SavingOK, Save, SaveCharacter, OpenAccount, SaveAccount
  <1> QED BY <1>1, <1>2 DEF Next, Reads

\* The reader in charge.
Reader == Last(readers)

\* A start or an end that the readers look for.
Marks(type, tag) == Chunk.type = type /\ Chunk.tag = <<tag>>

LEMMA RoomsGuards ==
    /\ LoadRoom => Reader = "rooms" /\ Marks("start", "room")
    /\ SkipTopLevel => Reader = "rooms" /\ ~Marks("start", "room")
    /\ RoomActorEnds => Reader = "room_actor" /\ Marks("end", "room")
    /\ SkipEnds => Reader = "skip" /\ Chunk.type = "end"
    /\ SkipChunk => Reader = "skip" /\ Chunk.type # "end"
    /\ CharacterRejected => Reader = "character" /\ Chunk.type = "end"
    /\ NoColon => Chunk.result = "no_colon"
    /\ EndOfFile => Chunk.result = "eof" /\ Reader # "account"
    /\ ReadAccount => Reader = "account"
  <1>1. LoadRoom => Reader = "rooms" /\ Marks("start", "room")
    BY DEF LoadRoom, GotSection, Got, Reading, Reader, Marks
  <1>2. SkipTopLevel => Reader = "rooms" /\ ~Marks("start", "room")
    BY DEF SkipTopLevel, GotSection, Got, Reading, Reader, Marks
  <1>3. RoomActorEnds => Reader = "room_actor" /\ Marks("end", "room")
    BY DEF RoomActorEnds, GotSection, Got, Reading, Reader, Marks
  <1>4. SkipEnds => Reader = "skip" /\ Chunk.type = "end"
    BY DEF SkipEnds, Got, Reading, Reader
  <1>5. SkipChunk => Reader = "skip" /\ Chunk.type # "end"
    BY DEF SkipChunk, Reading, Reader
  <1>6. CharacterRejected => Reader = "character" /\ Chunk.type = "end"
    BY DEF CharacterRejected, Got, Reading, Reader
  <1>7. NoColon => Chunk.result = "no_colon"
    BY DEF NoColon
  <1>8. EndOfFile => Chunk.result = "eof" /\ Reader # "account"
    BY DEF EndOfFile, Reading, Reader, Readers
  <1>9. ReadAccount => Reader = "account"
    BY DEF ReadAccount, AccountField, AccountEnds, Got, Reading, Reader
  <1> QED BY <1>1, <1>2, <1>3, <1>4, <1>5, <1>6, <1>7, <1>8, <1>9

LEMMA PartGuards ==
    /\ AppearanceEnds => Reader = "appearance" /\ Marks("end", "appearance")
    /\ AppearanceField => Reader = "appearance" /\ Chunk.type = "field"
    /\ RoomEnds => Reader = "room" /\ Marks("end", "room")
    /\ RoomExit => Reader = "room" /\ Marks("start", "exit")
    /\ PassOver => \/ Reader = "appearance" /\ ~Marks("end", "appearance") /\ Chunk.type # "field"
                   \/ Reader = "room" /\ ~Marks("end", "room") /\ ~Marks("start", "exit")
  <1>1. AppearanceEnds => Reader = "appearance" /\ Marks("end", "appearance")
    BY DEF AppearanceEnds, GotSection, Got, Reading, Reader, Marks
  <1>2. AppearanceField => Reader = "appearance" /\ Chunk.type = "field"
    BY DEF AppearanceField, Got, Reading, Reader
  <1>3. RoomEnds => Reader = "room" /\ Marks("end", "room")
    BY DEF RoomEnds, GotSection, Got, Reading, Reader, Marks
  <1>4. RoomExit => Reader = "room" /\ Marks("start", "exit")
    BY DEF RoomExit, GotSection, Got, Reading, Reader, Marks
  <1>5. PassOver => \/ Reader = "appearance" /\ ~Marks("end", "appearance") /\ Chunk.type # "field"
                    \/ Reader = "room" /\ ~Marks("end", "room") /\ ~Marks("start", "exit")
    BY DEF PassOver, GotSection, Got, Reading, Reader, Marks
  <1> QED BY <1>1, <1>2, <1>3, <1>4, <1>5

LEMMA ActorGuards ==
    /\ ReadActor => Reader \in ActorReaders
    /\ ActorId => Marks("field", "id")
    /\ OutOfIds \/ ActorField \/ ActorSection \/ ActorStrayEnd =>
         ~Marks("field", "id") /\ ~(Reader = "room_actor" /\ Marks("end", "room"))
    /\ ActorField => Chunk.type = "field"
    /\ ActorSection => Chunk.type = "start"
    /\ ActorStrayEnd => Chunk.type = "end"
  <1>1. ActorId => Reader \in ActorReaders /\ Marks("field", "id")
    BY DEF ActorId, GotId, GotSection, Got, Reading, Reader, Marks
  <1>2. NeedsActor => /\ Reader \in ActorReaders /\ ~Marks("field", "id")
                      /\ ~(Reader = "room_actor" /\ Marks("end", "room"))
    BY DEF NeedsActor, ActorDone, GotId, GotSection, Got, Reading, Reader, Marks
  <1>3. OutOfIds \/ ActorField \/ ActorSection \/ ActorStrayEnd => NeedsActor
    BY DEF OutOfIds, ActorField, ActorSection, ActorStrayEnd, WithActor
  <1>4. /\ ActorField => Chunk.type = "field"
        /\ ActorSection => Chunk.type = "start"
        /\ ActorStrayEnd => Chunk.type = "end"
    BY DEF ActorField, ActorSection, ActorStrayEnd
  <1> QED BY <1>1, <1>2, <1>3, <1>4 DEF ReadActor

\* The chunk behind n, where the reader stands.
NowAt(type, tag, value, m) ==
    /\ Chunk.result = "chunk" /\ Chunk.type = type /\ Chunk.tag = <<tag>>
    /\ Chunk.value = value /\ Chunk.next = m + 1

LEMMA NowIs ==
    ASSUME NEW n, pos = n + 1, NEW type, NEW tag, NEW value, NEW m, ChunkAt(file, n, type, tag, value, m)
    PROVE  NowAt(type, tag, value, m)
  <1>1. Chunk = Read("chunk", type, <<tag>>, value, m + 1)
    BY DEF ChunkAt, Chunk
  <1> QED BY <1>1 DEF NowAt, Read

LEMMA MarksIs ==
    ASSUME NEW type, NEW tag, NEW value, NEW m, NowAt(type, tag, value, m)
    PROVE  \A y, g : Marks(y, g) <=> type = y /\ tag = g
  BY DEF NowAt, Marks

LEMMA TopReads ==
    ASSUME Reads, Reader = "rooms", NEW type, NEW tag, NEW value, NEW m, NowAt(type, tag, value, m)
    PROVE  IF type = "start" /\ tag = "room" THEN LoadRoom ELSE SkipTopLevel
  <1>1. Chunk.result = "chunk" /\ \A y, g : Marks(y, g) <=> type = y /\ tag = g
    BY MarksIs DEF NowAt
  <1>2. ~NoColon /\ ~EndOfFile /\ ~CharacterRejected /\ ~ReadAccount /\ ~RoomActorEnds /\ ~SkipEnds /\ ~SkipChunk
    BY <1>1, RoomsGuards
  <1>3. ~ReadActor
    BY ActorGuards DEF ActorReaders
  <1>4. ~ReadPart
    BY <1>2, PartGuards DEF ReadPart
  <1>5. LoadRoom \/ SkipTopLevel
    BY <1>2, <1>3, <1>4 DEF Reads, ReadRooms
  <1> QED BY <1>1, <1>5, RoomsGuards

LEMMA SkipReads ==
    ASSUME Reads, Reader = "skip", NEW type, NEW tag, NEW value, NEW m, NowAt(type, tag, value, m)
    PROVE  IF type = "end" THEN SkipEnds ELSE SkipChunk
  <1>1. Chunk.result = "chunk" /\ Chunk.type = type
    BY DEF NowAt
  <1>2. ~NoColon /\ ~EndOfFile /\ ~CharacterRejected /\ ~ReadAccount /\ ~RoomActorEnds /\ ~LoadRoom /\ ~SkipTopLevel
    BY <1>1, RoomsGuards
  <1>3. ~ReadActor
    BY ActorGuards DEF ActorReaders
  <1>4. ReadPart => SkipEnds \/ SkipChunk
    BY PartGuards DEF ReadPart
  <1>5. SkipEnds \/ SkipChunk
    BY <1>2, <1>3, <1>4 DEF Reads, ReadRooms
  <1> QED BY <1>1, <1>5, RoomsGuards

LEMMA AppearanceReads ==
    ASSUME Reads, Reader = "appearance", NEW type, NEW tag, NEW value, NEW m, NowAt(type, tag, value, m)
    PROVE  /\ type = "field" => AppearanceField
           /\ type = "end" /\ tag = "appearance" => AppearanceEnds
  <1>1. Chunk.result = "chunk" /\ Chunk.type = type /\ \A y, g : Marks(y, g) <=> type = y /\ tag = g
    BY MarksIs DEF NowAt
  <1>2. /\ ~NoColon /\ ~EndOfFile /\ ~CharacterRejected /\ ~ReadAccount /\ ~RoomActorEnds
        /\ ~LoadRoom /\ ~SkipTopLevel /\ ~SkipEnds /\ ~SkipChunk
    BY <1>1, RoomsGuards
  <1>3. ~ReadActor
    BY ActorGuards DEF ActorReaders
  <1>4. ReadPart => AppearanceEnds \/ AppearanceField \/ PassOver
    BY <1>2, PartGuards DEF ReadPart
  <1>5. AppearanceEnds \/ AppearanceField \/ PassOver
    BY <1>2, <1>3, <1>4 DEF Reads, ReadRooms
  <1> QED BY <1>1, <1>5, PartGuards

LEMMA RoomReads ==
    ASSUME Reads, Reader = "room", NEW type, NEW tag, NEW value, NEW m, NowAt(type, tag, value, m)
    PROVE  /\ type = "start" /\ tag = "exit" => RoomExit
           /\ type = "end" /\ tag = "room" => RoomEnds
  <1>1. Chunk.result = "chunk" /\ Chunk.type = type /\ \A y, g : Marks(y, g) <=> type = y /\ tag = g
    BY MarksIs DEF NowAt
  <1>2. /\ ~NoColon /\ ~EndOfFile /\ ~CharacterRejected /\ ~ReadAccount /\ ~RoomActorEnds
        /\ ~LoadRoom /\ ~SkipTopLevel /\ ~SkipEnds /\ ~SkipChunk
    BY <1>1, RoomsGuards
  <1>3. ~ReadActor
    BY ActorGuards DEF ActorReaders
  <1>4. ReadPart => RoomEnds \/ RoomExit \/ PassOver
    BY <1>2, PartGuards DEF ReadPart
  <1>5. RoomEnds \/ RoomExit \/ PassOver
    BY <1>2, <1>3, <1>4 DEF Reads, ReadRooms
  <1> QED BY <1>1, <1>5, PartGuards

LEMMA ActorReads ==
    ASSUME Reads, Reader \in ActorReaders, NEW type, NEW tag, NEW value, NEW m, NowAt(type, tag, value, m)
    PROVE  /\ type = "field" /\ tag = "id" => ActorId
           /\ type = "field" /\ tag # "id" => OutOfIds \/ ActorField
           /\ type = "start" => OutOfIds \/ ActorSection
           /\ type = "end" /\ tag = "room" /\ Reader = "room_actor" => RoomActorEnds
  <1>1. Chunk.result = "chunk" /\ Chunk.type = type /\ \A y, g : Marks(y, g) <=> type = y /\ tag = g
    BY MarksIs DEF NowAt
  <1>2. Reader = "room_actor" \/ Reader = "character"
    BY DEF ActorReaders
  <1>3. ~NoColon /\ ~EndOfFile /\ ~ReadAccount /\ ~LoadRoom /\ ~SkipTopLevel /\ ~SkipEnds /\ ~SkipChunk
    BY <1>1, <1>2, RoomsGuards
  <1>4. ~ReadPart
    BY <1>2, <1>3, PartGuards DEF ReadPart
  <1>5. ReadActor \/ RoomActorEnds \/ CharacterRejected
    BY <1>3, <1>4 DEF Reads, ReadRooms
  <1> QED BY <1>1, <1>5, RoomsGuards, ActorGuards DEF ReadActor

LEMMA EofReads ==
    ASSUME Reads, Reader # "account", Chunk.result = "eof"
    PROVE  EndOfFile
  <1>1. ~NoColon /\ ~ReadAccount
    BY RoomsGuards
  <1>2. ReadRooms \/ ReadActor \/ ReadPart \/ CharacterRejected => Chunk.result = "chunk"
    <2>1. ReadRooms \/ CharacterRejected => Chunk.result = "chunk"
      BY DEF ReadRooms, LoadRoom, SkipTopLevel, RoomActorEnds, CharacterRejected, GotSection, Got
    <2>2. ReadActor => Chunk.result = "chunk"
      BY DEF ReadActor, ActorId, GotId, OutOfIds, ActorField, ActorSection, ActorStrayEnd, WithActor,
             NeedsActor, GotSection, Got
    <2>3. ReadPart => Chunk.result = "chunk"
      BY DEF ReadPart, AppearanceEnds, AppearanceField, RoomEnds, RoomExit, PassOver, SkipEnds,
             SkipChunk, GotSection, Got
    <2> QED BY <2>1, <2>2, <2>3
  <1> QED BY <1>1, <1>2 DEF Reads

-----------------------------------------------------------------------------
(* An actor as far as it has been read.                                      *)

\* The exits that the first i chunks have.
ExitsRead(room, i) ==
    IF room = NULL \/ i < 9 THEN NULL
    ELSE [d \in DirectionPlaces |-> IF d + 9 <= i THEN room[d] ELSE NULL]

\* What the first i chunks of the actor a have made of the actor r.
IsRead(r, a, i) ==
    /\ Persistent(a.id) => r.id = a.id
    /\ r.location_id = IF i < 2 THEN 0 ELSE a.location_id
    /\ r.dead = TRUE
    /\ r.name = IF i < 5 THEN NULL ELSE a.name
    /\ r.long_name = IF i < 6 THEN NULL ELSE a.long_name
    /\ r.description = IF i < 7 THEN NULL ELSE a.description
    /\ r.room = ExitsRead(a.room, i)
    /\ r.player = NULL

\* Before its room.
LEMMA NoExitsYet ==
    ASSUME NEW room
    PROVE  \A i \in 0 .. 8 : ExitsRead(room, i) = NULL
  BY DEF ExitsRead

\* What each chunk adds.
LEMMA FieldsAdded ==
    ASSUME NEW a, NEW r \in Actor
    PROVE  /\ IsRead(r, a, 1) => IsRead([r EXCEPT !.location_id = a.location_id], a, 2)
           /\ IsRead(r, a, 2) => IsRead([r EXCEPT !.dead = TRUE], a, 3)
           /\ IsRead(r, a, 4) => IsRead([r EXCEPT !.name = a.name], a, 5)
           /\ IsRead(r, a, 5) => IsRead([r EXCEPT !.long_name = a.long_name], a, 6)
           /\ IsRead(r, a, 6) => IsRead([r EXCEPT !.description = a.description], a, 7)
           /\ a.room # NULL /\ IsRead(r, a, 8) => IsRead([r EXCEPT !.room = NoExits], a, 9)
  <1>1. /\ ExitsRead(a.room, 1) = NULL /\ ExitsRead(a.room, 2) = NULL /\ ExitsRead(a.room, 3) = NULL
        /\ ExitsRead(a.room, 4) = NULL /\ ExitsRead(a.room, 5) = NULL /\ ExitsRead(a.room, 6) = NULL
        /\ ExitsRead(a.room, 7) = NULL /\ ExitsRead(a.room, 8) = NULL
    BY NoExitsYet
  <1>2. IsRead(r, a, 1) => IsRead([r EXCEPT !.location_id = a.location_id], a, 2)
    BY <1>1 DEF IsRead, Actor
  <1>3. IsRead(r, a, 2) => IsRead([r EXCEPT !.dead = TRUE], a, 3)
    BY <1>1 DEF IsRead, Actor
  <1>4. IsRead(r, a, 4) => IsRead([r EXCEPT !.name = a.name], a, 5)
    BY <1>1 DEF IsRead, Actor
  <1>5. IsRead(r, a, 5) => IsRead([r EXCEPT !.long_name = a.long_name], a, 6)
    BY <1>1 DEF IsRead, Actor
  <1>6. IsRead(r, a, 6) => IsRead([r EXCEPT !.description = a.description], a, 7)
    BY <1>1 DEF IsRead, Actor
  <1>7. ASSUME a.room # NULL, IsRead(r, a, 8)
        PROVE  IsRead([r EXCEPT !.room = NoExits], a, 9)
    <2>1. ExitsRead(a.room, 9) = NoExits
      <3>1. \A d \in DirectionPlaces : ~(d + 9 <= 9)
        BY DEF DirectionPlaces
      <3>2. ExitsRead(a.room, 9) = [d \in DirectionPlaces |-> IF d + 9 <= 9 THEN a.room[d] ELSE NULL]
        BY <1>7 DEF ExitsRead
      <3>3. NoExits = [d \in DirectionPlaces |-> NULL]
        BY DirectionsAre, Zenon DEF NoExits
      <3> QED BY <3>1, <3>2, <3>3
    <2> HIDE DEF NoExits
    <2> QED BY <1>7, <2>1 DEF IsRead, Actor
  <1> QED BY <1>2, <1>3, <1>4, <1>5, <1>6, <1>7

\* What is not there adds nothing.
LEMMA NothingAdded ==
    ASSUME NEW a, NEW r
    PROVE  /\ a.location_id = 0 /\ IsRead(r, a, 1) => IsRead(r, a, 2)
           /\ IsRead(r, a, 2) => IsRead(r, a, 3)
           /\ IsRead(r, a, 3) => IsRead(r, a, 4)
           /\ a.name = NULL /\ IsRead(r, a, 4) => IsRead(r, a, 5)
           /\ a.long_name = NULL /\ IsRead(r, a, 5) => IsRead(r, a, 6)
           /\ a.description = NULL /\ IsRead(r, a, 6) => IsRead(r, a, 7)
           /\ IsRead(r, a, 7) => IsRead(r, a, 8)
           /\ a.room = NULL /\ IsRead(r, a, 8) => IsRead(r, a, 9)
           /\ IsRead(r, a, 15) => IsRead(r, a, 16)
  <1>1. /\ ExitsRead(a.room, 1) = NULL /\ ExitsRead(a.room, 2) = NULL /\ ExitsRead(a.room, 3) = NULL
        /\ ExitsRead(a.room, 4) = NULL /\ ExitsRead(a.room, 5) = NULL /\ ExitsRead(a.room, 6) = NULL
        /\ ExitsRead(a.room, 7) = NULL /\ ExitsRead(a.room, 8) = NULL
    BY NoExitsYet
  <1>2. a.location_id = 0 /\ IsRead(r, a, 1) => IsRead(r, a, 2)
    BY <1>1 DEF IsRead
  <1>3. IsRead(r, a, 2) => IsRead(r, a, 3)
    BY <1>1 DEF IsRead
  <1>4. IsRead(r, a, 3) => IsRead(r, a, 4)
    BY <1>1 DEF IsRead
  <1>5. a.name = NULL /\ IsRead(r, a, 4) => IsRead(r, a, 5)
    BY <1>1 DEF IsRead
  <1>6. a.long_name = NULL /\ IsRead(r, a, 5) => IsRead(r, a, 6)
    BY <1>1 DEF IsRead
  <1>7. a.description = NULL /\ IsRead(r, a, 6) => IsRead(r, a, 7)
    BY <1>1 DEF IsRead
  <1>8. IsRead(r, a, 7) => IsRead(r, a, 8)
    BY <1>1 DEF IsRead
  <1>9. a.room = NULL /\ IsRead(r, a, 8) => IsRead(r, a, 9)
    <2>1. a.room = NULL => ExitsRead(a.room, 9) = NULL
      BY DEF ExitsRead
    <2> QED BY <1>1, <2>1 DEF IsRead
  <1>10. IsRead(r, a, 15) => IsRead(r, a, 16)
    <2>1. ExitsRead(a.room, 16) = ExitsRead(a.room, 15)
      <3>1. CASE a.room = NULL
        BY <3>1 DEF ExitsRead
      <3>2. CASE a.room # NULL
        <4>1. \A d \in DirectionPlaces : d + 9 <= 15 /\ d + 9 <= 16
          BY DEF DirectionPlaces
        <4>2. /\ ExitsRead(a.room, 16) = [d \in DirectionPlaces |-> IF d + 9 <= 16 THEN a.room[d] ELSE NULL]
              /\ ExitsRead(a.room, 15) = [d \in DirectionPlaces |-> IF d + 9 <= 15 THEN a.room[d] ELSE NULL]
          BY <3>2 DEF ExitsRead
        <4> QED BY <4>1, <4>2
      <3> QED BY <3>1, <3>2
    <2> QED BY <2>1 DEF IsRead
  <1> QED BY <1>2, <1>3, <1>4, <1>5, <1>6, <1>7, <1>8, <1>9, <1>10

\* An exit more.
LEMMA ExitAdded ==
    ASSUME NEW a, a.room # NULL, NEW d \in DirectionPlaces, NEW i, i = d + 8, NEW j, j = d + 9,
           NEW r \in Actor, IsRead(r, a, i)
    PROVE  IsRead([r EXCEPT !.room[d] = a.room[d]], a, j)
  <1>1. i \in Nat /\ j \in Nat /\ j = i + 1 /\ i >= 9 /\ j >= 9
    BY DEF DirectionPlaces
  <1>2. /\ ExitsRead(a.room, i) = [c \in DirectionPlaces |-> IF c + 9 <= i THEN a.room[c] ELSE NULL]
        /\ ExitsRead(a.room, j) = [c \in DirectionPlaces |-> IF c + 9 <= j THEN a.room[c] ELSE NULL]
    BY <1>1 DEF ExitsRead
  <1>3. \A c \in DirectionPlaces : (c + 9 <= j) <=> (c + 9 <= i \/ c = d)
    BY DEF DirectionPlaces
  <1>4. ExitsRead(a.room, j) = [ExitsRead(a.room, i) EXCEPT ![d] = a.room[d]]
    BY <1>2, <1>3
  <1>5. PICK room : room = [ExitsRead(a.room, i) EXCEPT ![d] = a.room[d]]
    OBVIOUS
  <1>6. [r EXCEPT !.room[d] = a.room[d]] = [r EXCEPT !.room = room]
    BY <1>5 DEF IsRead
  <1>7. PICK q : q = [r EXCEPT !.room = room]
    OBVIOUS
  <1>8. /\ q.id = r.id /\ q.location_id = r.location_id /\ q.dead = r.dead /\ q.name = r.name
        /\ q.long_name = r.long_name /\ q.description = r.description /\ q.player = r.player
        /\ q.room = room
    BY <1>7 DEF Actor
  <1>9. IsRead(q, a, j)
    BY <1>1, <1>4, <1>5, <1>8 DEF IsRead
  <1> QED BY <1>6, <1>7, <1>9

\* An exit that the room does not have.
LEMMA ExitAbsent ==
    ASSUME NEW a, NEW d \in DirectionPlaces, a.room = NULL \/ a.room[d] = NULL,
           NEW i, i = d + 8, NEW j, j = d + 9, NEW r, IsRead(r, a, i)
    PROVE  IsRead(r, a, j)
  <1>1. i \in Nat /\ j \in Nat /\ j = i + 1 /\ i >= 9 /\ j >= 9
    BY DEF DirectionPlaces
  <1>2. ExitsRead(a.room, i) = ExitsRead(a.room, j)
    <2>1. CASE a.room = NULL
      BY <2>1 DEF ExitsRead
    <2>2. CASE a.room # NULL
      <3>1. /\ ExitsRead(a.room, i) = [c \in DirectionPlaces |-> IF c + 9 <= i THEN a.room[c] ELSE NULL]
            /\ ExitsRead(a.room, j) = [c \in DirectionPlaces |-> IF c + 9 <= j THEN a.room[c] ELSE NULL]
        BY <1>1, <2>2 DEF ExitsRead
      <3>2. \A c \in DirectionPlaces : (c + 9 <= j) <=> (c + 9 <= i \/ c = d)
        BY DEF DirectionPlaces
      <3>3. \A c \in DirectionPlaces :
              (IF c + 9 <= i THEN a.room[c] ELSE NULL) = (IF c + 9 <= j THEN a.room[c] ELSE NULL)
        BY <2>2, <3>2
      <3> QED BY <3>1, <3>3
    <2> QED BY <2>1, <2>2
  <1> QED BY <1>1, <1>2 DEF IsRead

\* The actor, whole but for what is not saved.
LEMMA AllRead ==
    ASSUME NEW a \in Actor, NEW r \in Actor, IsRead(r, a, 16)
    PROVE  /\ r.location_id = a.location_id /\ r.name = a.name /\ r.long_name = a.long_name
           /\ r.description = a.description /\ r.room = a.room /\ r.player = NULL
           /\ Persistent(a.id) => r.id = a.id
  <1>1. ExitsRead(a.room, 16) = a.room
    <2>1. CASE a.room = NULL
      BY <2>1 DEF ExitsRead
    <2>2. CASE a.room # NULL
      <3>1. a.room \in [DirectionPlaces -> Exit \cup {NULL}]
        BY <2>2, DirectionsAre DEF Actor, Room
      <3>2. \A d \in DirectionPlaces : d + 9 <= 16
        BY DEF DirectionPlaces
      <3>3. ExitsRead(a.room, 16) = [d \in DirectionPlaces |-> IF d + 9 <= 16 THEN a.room[d] ELSE NULL]
        BY <2>2 DEF ExitsRead
      <3>4. a.room = [d \in DirectionPlaces |-> a.room[d]]
        BY <3>1
      <3> QED BY <3>2, <3>3, <3>4
    <2> QED BY <2>1, <2>2
  <1> QED BY <1>1 DEF IsRead

\* A room, whole and alive again.
LEMMA WholeRoom ==
    ASSUME NEW a, GoodRoom(a), NEW r \in Actor, IsRead(r, a, 16)
    PROVE  [r EXCEPT !.dead = FALSE] = a
  <1>1. a \in Actor /\ ~a.dead /\ a.player = NULL /\ Persistent(a.id)
    BY DEF GoodRoom
  <1>2. /\ r.location_id = a.location_id /\ r.name = a.name /\ r.long_name = a.long_name
        /\ r.description = a.description /\ r.room = a.room /\ r.player = NULL /\ r.id = a.id
    BY <1>1, AllRead
  <1> QED BY <1>1, <1>2 DEF Actor

-----------------------------------------------------------------------------
(* actor_load, chunk by chunk.                                               *)

\* An actor that is read back as it was saved.
GoodActor(a) ==
    a \in Actor /\ ReadableActor(a) /\ (Persistent(a.id) \/ a.location_id # 0)

ActorTops == {<<"rooms", "room_actor">>, <<"character">>}

LEMMA Pushed ==
    ASSUME NEW S, NEW s \in Seq(S), NEW x \in S
    PROVE  Append(s, x) # <<>> /\ Last(Append(s, x)) = x /\ Front(Append(s, x)) = s
  <1>1. PICK n \in Nat : n = Len(s)
    OBVIOUS
  <1>2. PICK u \in Seq(S) : u = Append(s, x) /\ Len(u) = n + 1 /\ u[n + 1] = x
                           /\ \A k \in 1 .. n : u[k] = s[k]
    <2>1. PICK u : u = Append(s, x)
      OBVIOUS
    <2>2. u \in Seq(S) /\ Len(u) = n + 1 /\ u[n + 1] = x /\ \A k \in 1 .. n : u[k] = s[k]
      BY <1>1, <2>1
    <2> QED BY <2>1, <2>2
  <1>3. /\ Front(u) \in Seq(S) /\ Len(Front(u)) = n
        /\ \A k \in 1 .. n : Front(u)[k] = u[k]
    <2>1. Len(u) > 0 /\ Len(u) - 1 = n
      BY <1>2
    <2>2. /\ Front(u) \in Seq(S) /\ Len(Front(u)) = Len(u) - 1
          /\ \A k \in 1 .. Len(u) - 1 : Front(u)[k] = u[k]
      BY <2>1, FrontOf
    <2> QED BY <2>1, <2>2, Zenon
  <1>4. Front(u) = s
    BY <1>1, <1>2, <1>3, SeqEqual
  <1> QED BY <1>2, <1>4 DEF Last

LEMMA TopFacts ==
    ASSUME NEW top \in ActorTops, NEW x \in Readers
    PROVE  /\ top # <<>> /\ Last(top) \in ActorReaders
           /\ Append(top, x) # <<>> /\ Last(Append(top, x)) = x /\ Front(Append(top, x)) = top
  <1>1. top \in Seq(Readers) /\ top # <<>> /\ Last(top) \in ActorReaders
    <2>1. CASE top = <<"rooms", "room_actor">>
      BY <2>1 DEF Last, ActorReaders, Readers
    <2>2. CASE top = <<"character">>
      BY <2>2 DEF Last, ActorReaders, Readers
    <2> QED BY <2>1, <2>2 DEF ActorTops
  <1> QED BY <1>1, Pushed

\* The readers while the first i chunks of a have been read.
BuildReaders(top, a, i) ==
    IF i \in 4 .. 7 THEN Append(top, "appearance")
    ELSE IF i \in 9 .. 15 /\ a.room # NULL THEN Append(top, "room")
    ELSE top

ActorUpTo(a, i) ==
    IF i = 0 \/ (i = 1 /\ ~Persistent(a.id)) THEN actor = NULL
    ELSE actor \in Actor /\ IsRead(actor, a, i)

\* The first i chunks of a, which are at the places, have been read.
Building(top, a, at, i) ==
    /\ SavedAt(file, at, a) /\ i \in 0 .. 16
    /\ \A j \in 1 .. 17 : j = i + 1 => pos = at[j] + 1
    /\ readers = BuildReaders(top, a, i)
    /\ ActorUpTo(a, i)

LEMMA BuildingAt ==
    ASSUME NEW top, NEW a, NEW at, NEW i \in 0 .. 16, NEW j \in 1 .. 17, j = i + 1,
           SavedAt(file, at, a), pos = at[j] + 1, readers = BuildReaders(top, a, i), ActorUpTo(a, i)
    PROVE  Building(top, a, at, i)
  <1>1. \A k \in 1 .. 17 : k = i + 1 => k = j
    OBVIOUS
  <1> QED BY <1>1 DEF Building

LEMMA BuildingNext ==
    ASSUME NEW top, NEW a, NEW at, NEW i \in 1 .. 16, NEW j \in 1 .. 17, j = i + 1,
           SavedAt(file, at, a), UNCHANGED file, pos' = at[j] + 1, readers' = BuildReaders(top, a, i),
           actor' \in Actor, IsRead(actor', a, i), i = 1 => Persistent(a.id)
    PROVE  Building(top, a, at, i)'
  <1>1. \A k \in 1 .. 17 : k = i + 1 => k = j
    OBVIOUS
  <1>2. SavedAt(file', at, a) /\ i \in 0 .. 16
    OBVIOUS
  <1>3. ActorUpTo(a, i)'
    BY DEF ActorUpTo
  <1> QED BY <1>1, <1>2, <1>3 DEF Building

LEMMA BuildingIs ==
    ASSUME NEW top, NEW a, NEW at, NEW i, Building(top, a, at, i)
    PROVE  /\ i \in 0 .. 16 /\ SavedAt(file, at, a) /\ readers = BuildReaders(top, a, i) /\ ActorUpTo(a, i)
           /\ \A j \in 1 .. 17 : j = i + 1 => pos = at[j] + 1
  BY DEF Building

\* The chunk numbered i is in the file.
Here(a, i) ==
    \/ i = 1 /\ Persistent(a.id)
    \/ i = 2 /\ a.location_id # 0
    \/ i = 3 /\ a.dead
    \/ i = 4 \/ i = 8
    \/ i = 5 /\ a.name # NULL
    \/ i = 6 /\ a.long_name # NULL
    \/ i = 7 /\ a.description # NULL
    \/ (i = 9 \/ i = 16) /\ a.room # NULL
    \/ \E d \in DirectionPlaces : i = d + 9 /\ a.room # NULL /\ a.room[d] # NULL

\* Where there is nothing the reader need not move.
LEMMA AbsentPlaces ==
    ASSUME NEW f, NEW at, NEW a, SavedAt(f, at, a)
    PROVE  /\ ~Persistent(a.id) => at[2] = at[1]
           /\ a.location_id = 0 => at[3] = at[2]
           /\ ~a.dead => at[4] = at[3]
           /\ a.name = NULL => at[6] = at[5]
           /\ a.long_name = NULL => at[7] = at[6]
           /\ a.description = NULL => at[8] = at[7]
           /\ a.room = NULL => at[10] = at[9] /\ at[17] = at[16]
  BY DEF SavedAt, Piece

\* The exit in direction d is the chunk numbered i, and j is the next.
ExitPlace(d, i, j) == d \in DirectionPlaces /\ {i, j} \subseteq 1 .. 17 /\ i = d + 9 /\ j = d + 10

LEMMA AbsentExit ==
    ASSUME NEW f, NEW at, NEW a, SavedAt(f, at, a), NEW d, NEW i, NEW j, ExitPlace(d, i, j),
           a.room = NULL \/ a.room[d] = NULL
    PROVE  at[j] = at[i]
  <1>1. d \in DirectionPlaces /\ i \in 1 .. 17 /\ j \in 1 .. 17 /\ i = d + 9 /\ j = d + 10
    BY DEF ExitPlace
  <1>2. Piece(f, at[i], at[j], a.room # NULL /\ a.room[d] # NULL, "start", "exit",
              ExitArgs(d, a.room[d]))
    BY <1>1, Zenon DEF SavedAt
  <1> QED BY <1>2 DEF Piece

LEMMA PresentPieces ==
    ASSUME NEW f, NEW at, NEW a, SavedAt(f, at, a)
    PROVE  /\ Persistent(a.id) => ChunkAt(f, at[1], "field", "id", <<Numeral[a.id]>>, at[2])
           /\ a.location_id # 0 => ChunkAt(f, at[2], "field", "location_id", <<Numeral[a.location_id]>>, at[3])
           /\ a.dead => ChunkAt(f, at[3], "field", "dead", <<"true">>, at[4])
           /\ ChunkAt(f, at[4], "start", "appearance", <<>>, at[5])
           /\ a.name # NULL => ChunkAt(f, at[5], "field", "name", a.name, at[6])
           /\ a.long_name # NULL => ChunkAt(f, at[6], "field", "long_name", a.long_name, at[7])
           /\ a.description # NULL => ChunkAt(f, at[7], "field", "description", a.description, at[8])
           /\ ChunkAt(f, at[8], "end", "appearance", <<>>, at[9])
           /\ a.room # NULL => /\ ChunkAt(f, at[9], "start", "room", <<>>, at[10])
                               /\ ChunkAt(f, at[16], "end", "room", <<>>, at[17])
           /\ \A d \in DirectionPlaces : \A i, j \in 1 .. 17 : i = d + 9 /\ j = d + 10 =>
                (a.room # NULL /\ a.room[d] # NULL =>
                   ChunkAt(f, at[i], "start", "exit", ExitArgs(d, a.room[d]), at[j]))
  BY DEF SavedAt, Piece

\* Chunks that are not in the file are passed at once.
LEMMA StageSkipped ==
    ASSUME NEW top, NEW a, NEW at, GoodActor(a), NEW i \in 0 .. 15, NEW j \in 1 .. 16, j = i + 1,
           Building(top, a, at, i), ~Here(a, j)
    PROVE  Building(top, a, at, j)
  <1>1. /\ SavedAt(file, at, a) /\ readers = BuildReaders(top, a, i) /\ ActorUpTo(a, i)
        /\ \A k \in 1 .. 17 : k = i + 1 => pos = at[k] + 1
    BY BuildingIs
  <1>2. INVALID_ACTOR_ID = 0 /\ a.dead \in BOOLEAN
    BY StorageAssumption DEF GoodActor, Actor

  <1>3. CASE i = 0
    <2>1. j = 1 /\ ~Persistent(a.id)
      BY <1>2, <1>3 DEF Here
    <2>2. at[2] = at[1] /\ pos = at[1] + 1
      <3>1. at[2] = at[1]
        BY <1>1, <2>1, AbsentPlaces
      <3>2. pos = at[1] + 1
        BY <1>1, <1>3
      <3> QED BY <3>1, <3>2
    <2>3. BuildReaders(top, a, 1) = BuildReaders(top, a, 0)
      BY <2>1 DEF BuildReaders
    <2>4. ActorUpTo(a, 1)
      BY <1>1, <1>3, <2>1 DEF ActorUpTo
    <2> QED BY <1>1, <1>3, <2>1, <2>2, <2>3, <2>4, BuildingAt
  <1>4. CASE i = 1
    <2>1. j = 2 /\ a.location_id = 0 /\ Persistent(a.id)
      BY <1>2, <1>4 DEF Here, GoodActor
    <2>2. at[3] = at[2] /\ pos = at[2] + 1
      <3>1. at[3] = at[2]
        BY <1>1, <2>1, AbsentPlaces
      <3>2. pos = at[2] + 1
        BY <1>1, <1>4
      <3> QED BY <3>1, <3>2
    <2>3. BuildReaders(top, a, 2) = BuildReaders(top, a, 1)
      BY <2>1 DEF BuildReaders
    <2>4. ActorUpTo(a, 2)
      BY <1>1, <1>4, <2>1, NothingAdded DEF ActorUpTo
    <2> QED BY <1>1, <1>4, <2>1, <2>2, <2>3, <2>4, BuildingAt
  <1>5. CASE i = 2
    <2>1. j = 3 /\ ~a.dead
      BY <1>2, <1>5 DEF Here
    <2>2. at[4] = at[3] /\ pos = at[3] + 1
      <3>1. at[4] = at[3]
        BY <1>1, <2>1, AbsentPlaces
      <3>2. pos = at[3] + 1
        BY <1>1, <1>5
      <3> QED BY <3>1, <3>2
    <2>3. BuildReaders(top, a, 3) = BuildReaders(top, a, 2)
      BY <2>1 DEF BuildReaders
    <2>4. ActorUpTo(a, 3)
      BY <1>1, <1>5, <2>1, NothingAdded DEF ActorUpTo
    <2> QED BY <1>1, <1>5, <2>1, <2>2, <2>3, <2>4, BuildingAt
  <1>6. CASE i = 4
    <2>1. j = 5 /\ a.name = NULL
      BY <1>2, <1>6 DEF Here
    <2>2. at[6] = at[5] /\ pos = at[5] + 1
      <3>1. at[6] = at[5]
        BY <1>1, <2>1, AbsentPlaces
      <3>2. pos = at[5] + 1
        BY <1>1, <1>6
      <3> QED BY <3>1, <3>2
    <2>3. BuildReaders(top, a, 5) = BuildReaders(top, a, 4)
      BY <2>1 DEF BuildReaders
    <2>4. ActorUpTo(a, 5)
      BY <1>1, <1>6, <2>1, NothingAdded DEF ActorUpTo
    <2> QED BY <1>1, <1>6, <2>1, <2>2, <2>3, <2>4, BuildingAt
  <1>7. CASE i = 5
    <2>1. j = 6 /\ a.long_name = NULL
      BY <1>2, <1>7 DEF Here
    <2>2. at[7] = at[6] /\ pos = at[6] + 1
      <3>1. at[7] = at[6]
        BY <1>1, <2>1, AbsentPlaces
      <3>2. pos = at[6] + 1
        BY <1>1, <1>7
      <3> QED BY <3>1, <3>2
    <2>3. BuildReaders(top, a, 6) = BuildReaders(top, a, 5)
      BY <2>1 DEF BuildReaders
    <2>4. ActorUpTo(a, 6)
      BY <1>1, <1>7, <2>1, NothingAdded DEF ActorUpTo
    <2> QED BY <1>1, <1>7, <2>1, <2>2, <2>3, <2>4, BuildingAt
  <1>8. CASE i = 6
    <2>1. j = 7 /\ a.description = NULL
      BY <1>2, <1>8 DEF Here
    <2>2. at[8] = at[7] /\ pos = at[7] + 1
      <3>1. at[8] = at[7]
        BY <1>1, <2>1, AbsentPlaces
      <3>2. pos = at[7] + 1
        BY <1>1, <1>8
      <3> QED BY <3>1, <3>2
    <2>3. BuildReaders(top, a, 7) = BuildReaders(top, a, 6)
      BY <2>1 DEF BuildReaders
    <2>4. ActorUpTo(a, 7)
      BY <1>1, <1>8, <2>1, NothingAdded DEF ActorUpTo
    <2> QED BY <1>1, <1>8, <2>1, <2>2, <2>3, <2>4, BuildingAt
  <1>9. CASE i = 8
    <2>1. j = 9 /\ a.room = NULL
      BY <1>2, <1>9 DEF Here
    <2>2. at[10] = at[9] /\ pos = at[9] + 1
      <3>1. at[10] = at[9]
        BY <1>1, <2>1, AbsentPlaces
      <3>2. pos = at[9] + 1
        BY <1>1, <1>9
      <3> QED BY <3>1, <3>2
    <2>3. BuildReaders(top, a, 9) = BuildReaders(top, a, 8)
      BY <2>1 DEF BuildReaders
    <2>4. ActorUpTo(a, 9)
      BY <1>1, <1>9, <2>1, NothingAdded DEF ActorUpTo
    <2> QED BY <1>1, <1>9, <2>1, <2>2, <2>3, <2>4, BuildingAt
  <1>10. CASE i = 15
    <2>1. j = 16 /\ a.room = NULL
      BY <1>2, <1>10 DEF Here
    <2>2. at[17] = at[16] /\ pos = at[16] + 1
      <3>1. at[17] = at[16]
        BY <1>1, <2>1, AbsentPlaces
      <3>2. pos = at[16] + 1
        BY <1>1, <1>10
      <3> QED BY <3>1, <3>2
    <2>3. BuildReaders(top, a, 16) = BuildReaders(top, a, 15)
      BY <2>1 DEF BuildReaders
    <2>4. ActorUpTo(a, 16)
      BY <1>1, <1>10, <2>1, NothingAdded DEF ActorUpTo
    <2> QED BY <1>1, <1>10, <2>1, <2>2, <2>3, <2>4, BuildingAt
  <1>11. CASE i \in 9 .. 14
    <2>1. PICK d \in DirectionPlaces : d = i - 8
      <3>1. i - 8 \in DirectionPlaces
        BY <1>11 DEF DirectionPlaces
      <3> QED BY <3>1
    <2>2. i = d + 8 /\ j = d + 9 /\ i \in 9 .. 14 /\ j \in 10 .. 15
      BY <1>11, <2>1 DEF DirectionPlaces
    <2>3. a.room = NULL \/ a.room[d] = NULL
      BY <2>2 DEF Here
    <2>4. PICK k : k = j + 1
      OBVIOUS
    <2>5. k = d + 10 /\ k \in 1 .. 17 /\ j \in 1 .. 17
      BY <2>2, <2>4 DEF DirectionPlaces
    <2>6. at[k] = at[j] /\ pos = at[j] + 1
      <3>1. at[k] = at[j]
        <4>1. ExitPlace(d, j, k)
          BY <2>2, <2>5 DEF ExitPlace
        <4>2. SavedAt(file, at, a)
          BY <1>1
        <4> QED BY <2>3, <4>1, <4>2, AbsentExit
      <3>2. pos = at[j] + 1
        BY <1>1, <2>2, <2>5
      <3> QED BY <3>1, <3>2
    <2>7. BuildReaders(top, a, j) = BuildReaders(top, a, i)
      BY <2>2 DEF BuildReaders
    <2>8. actor \in Actor /\ IsRead(actor, a, i)
      BY <1>1, <2>2 DEF ActorUpTo
    <2>9. IsRead(actor, a, j)
      BY <2>2, <2>3, <2>8, ExitAbsent
    <2>10. ActorUpTo(a, j)
      <3>1. j # 0 /\ j # 1
        BY <2>2
      <3> QED BY <2>8, <2>9, <3>1, Zenon DEF ActorUpTo
    <2>11. readers = BuildReaders(top, a, j) /\ pos = at[k] + 1 /\ j \in 0 .. 16 /\ k \in 1 .. 17
      BY <1>1, <2>2, <2>5, <2>6, <2>7
    <2> QED BY <1>1, <2>4, <2>10, <2>11, BuildingAt
  <1>12. CASE i = 3 \/ i = 7
    <2>1. j = 4 \/ j = 8
      BY <1>12
    <2> QED BY <2>1 DEF Here
  <1>13. \/ i = 0 \/ i = 1 \/ i = 2 \/ i = 3 \/ i = 4 \/ i = 5 \/ i = 6 \/ i = 7 \/ i = 8
         \/ i \in 9 .. 14 \/ i = 15
    OBVIOUS
  <1> QED BY <1>3, <1>4, <1>5, <1>6, <1>7, <1>8, <1>9, <1>10, <1>11, <1>12, <1>13, Zenon

\* The chunk that is there is read, or an id for the actor is wanting.
StepTo(top, a, at, i) ==
    \/ Building(top, a, at, i)' /\ UNCHANGED <<diskVars, server, account, world, answer, file>>
    \/ Fail("out_of_ids")

\* The readers in charge.
LEMMA BuildReader ==
    ASSUME NEW top \in ActorTops, NEW a, NEW i \in 0 .. 16, readers = BuildReaders(top, a, i)
    PROVE  /\ readers # <<>>
           /\ i \in {0, 1, 2, 3, 8, 16} => readers = top /\ Reader \in ActorReaders
           /\ i \in 4 .. 7 =>
                readers = Append(top, "appearance") /\ Reader = "appearance" /\ Front(readers) = top
           /\ i \in 9 .. 15 /\ a.room # NULL =>
                readers = Append(top, "room") /\ Reader = "room" /\ Front(readers) = top
  <1>1. "appearance" \in Readers /\ "room" \in Readers
    BY DEF Readers
  <1>2. CASE i \in 4 .. 7
    <2>1. readers = Append(top, "appearance")
      BY <1>2 DEF BuildReaders
    <2>2. /\ readers # <<>> /\ Reader = "appearance" /\ Front(readers) = top
      BY <1>1, <2>1, TopFacts DEF Reader
    <2> QED BY <1>2, <2>1, <2>2
  <1>3. CASE i \in 9 .. 15 /\ a.room # NULL
    <2>1. readers = Append(top, "room")
      BY <1>3 DEF BuildReaders
    <2>2. /\ readers # <<>> /\ Reader = "room" /\ Front(readers) = top
      BY <1>1, <2>1, TopFacts DEF Reader
    <2> QED BY <1>3, <2>1, <2>2
  <1>4. CASE ~(i \in 4 .. 7) /\ ~(i \in 9 .. 15 /\ a.room # NULL)
    <2>1. readers = top
      BY <1>4 DEF BuildReaders
    <2>2. /\ readers # <<>> /\ Reader \in ActorReaders
      BY <1>1, <2>1, TopFacts DEF Reader
    <2> QED BY <1>4, <2>1, <2>2
  <1> QED BY <1>2, <1>3, <1>4

\* The id.
LEMMA IdStep ==
    ASSUME StorageInv, Reads, NEW top \in ActorTops, NEW a, NEW at, GoodActor(a),
           Building(top, a, at, 0), Here(a, 1)
    PROVE  StepTo(top, a, at, 1)
  <1>1. /\ SavedAt(file, at, a) /\ readers = BuildReaders(top, a, 0) /\ pos = at[1] + 1
    BY BuildingIs
  <1>2. readers = top /\ Reader \in ActorReaders
    <2>1. 0 \in 0 .. 16 /\ 0 \in {0, 1, 2, 3, 8, 16}
      OBVIOUS
    <2> QED BY <1>1, <2>1, BuildReader, Zenon
  <1>3. Persistent(a.id) /\ a.id \in ActorIDs
    BY DEF Here, DirectionPlaces, GoodActor, Actor
  <1>4. NowAt("field", "id", <<Numeral[a.id]>>, at[2])
    BY <1>1, <1>3, PresentPieces, NowIs
  <1>5. ActorId
    BY <1>2, <1>4, ActorReads
  <1>6. atoi(Chunk.value) = a.id
    <2>1. a.id # 0
      BY <1>3, StorageAssumption DEF Persistent
    <2>2. Chunk.value = <<Numeral[a.id]>>
      BY <1>4 DEF NowAt
    <2> QED BY <1>3, <2>1, <2>2, NumeralsAre
  <1>7. CASE Fail("out_of_ids")
    BY <1>7 DEF StepTo
  <1>8. CASE ~Fail("out_of_ids")
    <2>1. /\ actor' = actor_init_persistent(a.id) /\ Continue /\ Unread
      BY <1>3, <1>5, <1>6, <1>8 DEF ActorId
    <2>2. actor' \in Actor
      BY <1>3, <2>1, InitTypes
    <2>3. IsRead(actor', a, 1)
      <3>1. ExitsRead(a.room, 1) = NULL
        BY NoExitsYet
      <3> QED BY <2>1, <3>1, StorageAssumption DEF IsRead, actor_init_persistent, actor_init_internal
    <2>4. /\ pos' = at[2] + 1 /\ readers' = readers /\ file' = file
      BY <1>4, <2>1 DEF Continue, NowAt
    <2>5. BuildReaders(top, a, 1) = top
      BY DEF BuildReaders
    <2>6. Building(top, a, at, 1)'
      BY <1>1, <1>2, <1>3, <2>2, <2>3, <2>4, <2>5, BuildingNext
    <2> QED BY <2>1, <2>4, <2>6 DEF StepTo, Unread
  <1> QED BY <1>7, <1>8

\* A chunk of the actor itself meets the actor as it is, or a new one.
LEMMA AtHand ==
    ASSUME StorageInv, NEW a, GoodActor(a), NEW i \in 1 .. 16, ActorUpTo(a, i)
    PROVE  ActorAtHand \in Actor /\ IsRead(ActorAtHand, a, i)
  <1>1. CASE i = 1 /\ ~Persistent(a.id)
    <2>1. actor = NULL /\ ActorAtHand = actor_init
      BY <1>1 DEF ActorUpTo, ActorAtHand
    <2>2. actor_init \in Actor
      BY InitTypes, IdIsActorId DEF StorageInv
    <2>3. IsRead(actor_init, a, 1)
      <3>1. ExitsRead(a.room, 1) = NULL
        BY NoExitsYet
      <3> QED BY <1>1, <3>1, StorageAssumption DEF IsRead, actor_init, actor_init_internal
    <2> QED BY <1>1, <2>1, <2>2, <2>3
  <1>2. CASE ~(i = 1 /\ ~Persistent(a.id))
    <2>1. actor \in Actor /\ IsRead(actor, a, i)
      BY <1>2 DEF ActorUpTo
    <2>2. actor # NULL
      BY <2>1, NullAssumption
    <2> QED BY <2>1, <2>2 DEF ActorAtHand
  <1> QED BY <1>1, <1>2

LEMMA PlaceStep ==
    ASSUME StorageInv, Reads, NEW top \in ActorTops, NEW a, NEW at, GoodActor(a),
           Building(top, a, at, 1), Here(a, 2)
    PROVE  StepTo(top, a, at, 2)
  <1>1. /\ SavedAt(file, at, a) /\ readers = BuildReaders(top, a, 1) /\ pos = at[2] + 1 /\ ActorUpTo(a, 1)
    BY BuildingIs
  <1>2. readers = top /\ Reader \in ActorReaders
    <2>1. 1 \in 0 .. 16 /\ 1 \in {0, 1, 2, 3, 8, 16}
      OBVIOUS
    <2> QED BY <1>1, <2>1, BuildReader, Zenon
  <1>3. a.location_id # 0 /\ a.location_id \in ActorIDs
    BY DEF Here, DirectionPlaces, GoodActor, Actor
  <1>4. NowAt("field", "location_id", <<Numeral[a.location_id]>>, at[3])
    BY <1>1, <1>3, PresentPieces, NowIs
  <1>5. OutOfIds \/ ActorField
    BY <1>2, <1>4, ActorReads
  <1>6. CASE OutOfIds
    BY <1>6 DEF OutOfIds, StepTo
  <1>7. CASE ActorField
    <2>1. ActorAtHand \in Actor /\ IsRead(ActorAtHand, a, 1)
      BY <1>1, AtHand
    <2>2. PICK r : r = ActorAtHand
      OBVIOUS
    <2>3. Chunk.tag = <<"location_id">> /\ atoi(Chunk.value) = a.location_id
      BY <1>3, <1>4, NumeralsAre DEF NowAt
    <2>4. actor' = [r EXCEPT !.location_id = a.location_id] /\ Continue /\ Unread
      BY <1>7, <2>2, <2>3 DEF ActorField, WithActor
    <2>5. IsRead(actor', a, 2)
      BY <2>1, <2>2, <2>4, FieldsAdded
    <2>6. actor' \in Actor
      BY <1>3, <2>1, <2>2, <2>4 DEF Actor
    <2>7. pos' = at[3] + 1 /\ readers' = readers /\ file' = file
      BY <1>4, <2>4 DEF Continue, NowAt
    <2>8. BuildReaders(top, a, 2) = top
      BY DEF BuildReaders
    <2>9. Building(top, a, at, 2)'
      BY <1>1, <1>2, <2>5, <2>6, <2>7, <2>8, BuildingNext
    <2> QED BY <2>4, <2>7, <2>9 DEF StepTo, Unread
  <1> QED BY <1>5, <1>6, <1>7

LEMMA DeadStep ==
    ASSUME StorageInv, Reads, NEW top \in ActorTops, NEW a, NEW at, GoodActor(a),
           Building(top, a, at, 2), Here(a, 3)
    PROVE  StepTo(top, a, at, 3)
  <1>1. /\ SavedAt(file, at, a) /\ readers = BuildReaders(top, a, 2) /\ pos = at[3] + 1 /\ ActorUpTo(a, 2)
    BY BuildingIs
  <1>2. readers = top /\ Reader \in ActorReaders
    <2>1. 2 \in 0 .. 16 /\ 2 \in {0, 1, 2, 3, 8, 16}
      OBVIOUS
    <2> QED BY <1>1, <2>1, BuildReader, Zenon
  <1>3. a.dead
    BY DEF Here, DirectionPlaces
  <1>4. NowAt("field", "dead", <<"true">>, at[4])
    BY <1>1, <1>3, PresentPieces, NowIs
  <1>5. OutOfIds \/ ActorField
    BY <1>2, <1>4, ActorReads
  <1>6. CASE OutOfIds
    BY <1>6 DEF OutOfIds, StepTo
  <1>7. CASE ActorField
    <2>1. ActorAtHand \in Actor /\ IsRead(ActorAtHand, a, 2)
      BY <1>1, AtHand
    <2>2. PICK r : r = ActorAtHand
      OBVIOUS
    <2>3. Chunk.tag = <<"dead">> /\ (Chunk.value = <<"true">>) = TRUE
      BY <1>4 DEF NowAt
    <2>4. Chunk.tag # <<"location_id">>
      BY <2>3
    <2>5. actor' = [r EXCEPT !.dead = TRUE] /\ Continue /\ Unread
      BY <1>7, <2>2, <2>3, <2>4 DEF ActorField, WithActor
    <2>6. IsRead(actor', a, 3)
      BY <2>1, <2>2, <2>5, FieldsAdded
    <2>7. actor' \in Actor
      BY <2>1, <2>2, <2>5 DEF Actor
    <2>8. pos' = at[4] + 1 /\ readers' = readers /\ file' = file
      BY <1>4, <2>5 DEF Continue, NowAt
    <2>9. BuildReaders(top, a, 3) = top
      BY DEF BuildReaders
    <2>10. Building(top, a, at, 3)'
      BY <1>1, <1>2, <2>6, <2>7, <2>8, <2>9, BuildingNext
    <2> QED BY <2>5, <2>8, <2>10 DEF StepTo, Unread
  <1> QED BY <1>5, <1>6, <1>7

\* The sections begin.
LEMMA AppearanceStep ==
    ASSUME StorageInv, Reads, NEW top \in ActorTops, NEW a, NEW at, GoodActor(a),
           Building(top, a, at, 3)
    PROVE  StepTo(top, a, at, 4)
  <1>1. /\ SavedAt(file, at, a) /\ readers = BuildReaders(top, a, 3) /\ pos = at[4] + 1 /\ ActorUpTo(a, 3)
    BY BuildingIs
  <1>2. readers = top /\ Reader \in ActorReaders
    <2>1. 3 \in 0 .. 16 /\ 3 \in {0, 1, 2, 3, 8, 16}
      OBVIOUS
    <2> QED BY <1>1, <2>1, BuildReader, Zenon
  <1>3. NowAt("start", "appearance", <<>>, at[5])
    BY <1>1, PresentPieces, NowIs
  <1>4. OutOfIds \/ ActorSection
    BY <1>2, <1>3, ActorReads
  <1>5. CASE OutOfIds
    BY <1>5 DEF OutOfIds, StepTo
  <1>6. CASE ActorSection
    <2>1. ActorAtHand \in Actor /\ IsRead(ActorAtHand, a, 3)
      BY <1>1, AtHand
    <2>2. Chunk.tag = <<"appearance">> /\ Chunk.tag # <<"room">>
      BY <1>3 DEF NowAt
    <2>3. actor' = ActorAtHand /\ Call("appearance") /\ Unread
      BY <1>6, <2>2 DEF ActorSection, WithActor
    <2>4. IsRead(actor', a, 4) /\ actor' \in Actor
      BY <2>1, <2>3, NothingAdded
    <2>5. pos' = at[5] + 1 /\ readers' = Append(readers, "appearance") /\ file' = file
      BY <1>3, <2>3 DEF Call, NowAt
    <2>6. BuildReaders(top, a, 4) = Append(top, "appearance")
      BY DEF BuildReaders
    <2>7. Building(top, a, at, 4)'
      BY <1>1, <1>2, <2>4, <2>5, <2>6, BuildingNext
    <2> QED BY <2>3, <2>5, <2>7 DEF StepTo, Unread
  <1> QED BY <1>4, <1>5, <1>6

LEMMA RoomStep ==
    ASSUME StorageInv, Reads, NEW top \in ActorTops, NEW a, NEW at, GoodActor(a),
           Building(top, a, at, 8), Here(a, 9)
    PROVE  StepTo(top, a, at, 9)
  <1>1. /\ SavedAt(file, at, a) /\ readers = BuildReaders(top, a, 8) /\ pos = at[9] + 1 /\ ActorUpTo(a, 8)
    BY BuildingIs
  <1>2. readers = top /\ Reader \in ActorReaders
    <2>1. 8 \in 0 .. 16 /\ 8 \in {0, 1, 2, 3, 8, 16}
      OBVIOUS
    <2> QED BY <1>1, <2>1, BuildReader, Zenon
  <1>3. a.room # NULL
    BY DEF Here, DirectionPlaces
  <1>4. NowAt("start", "room", <<>>, at[10])
    BY <1>1, <1>3, PresentPieces, NowIs
  <1>5. OutOfIds \/ ActorSection
    BY <1>2, <1>4, ActorReads
  <1>6. CASE OutOfIds
    BY <1>6 DEF OutOfIds, StepTo
  <1>7. CASE ActorSection
    <2>1. ActorAtHand \in Actor /\ IsRead(ActorAtHand, a, 8)
      BY <1>1, AtHand
    <2>2. PICK r : r = ActorAtHand
      OBVIOUS
    <2>3. Chunk.tag = <<"room">> /\ Chunk.tag # <<"appearance">>
      BY <1>4 DEF NowAt
    <2>4. actor' = [r EXCEPT !.room = NoExits] /\ Call("room") /\ Unread
      BY <1>7, <2>2, <2>3 DEF ActorSection, WithActor
    <2>5. IsRead(actor', a, 9)
      BY <1>3, <2>1, <2>2, <2>4, FieldsAdded
    <2>6. actor' \in Actor
      <3>1. NoExits \in Room
        BY DEF NoExits, Room
      <3> HIDE DEF NoExits
      <3> QED BY <2>1, <2>2, <2>4, <3>1 DEF Actor
    <2>7. pos' = at[10] + 1 /\ readers' = Append(readers, "room") /\ file' = file
      BY <1>4, <2>4 DEF Call, NowAt
    <2>8. BuildReaders(top, a, 9) = Append(top, "room")
      BY <1>3 DEF BuildReaders
    <2>9. Building(top, a, at, 9)'
      BY <1>1, <1>2, <2>5, <2>6, <2>7, <2>8, BuildingNext
    <2> QED BY <2>4, <2>7, <2>9 DEF StepTo, Unread
  <1> QED BY <1>5, <1>6, <1>7

\* The fields of the appearance.
LEMMA NameStep ==
    ASSUME StorageInv, Reads, NEW top \in ActorTops, NEW a, NEW at, GoodActor(a),
           Building(top, a, at, 4), Here(a, 5)
    PROVE  StepTo(top, a, at, 5)
  <1>1. /\ SavedAt(file, at, a) /\ readers = BuildReaders(top, a, 4) /\ pos = at[5] + 1 /\ ActorUpTo(a, 4)
    BY BuildingIs
  <1>2. readers = Append(top, "appearance") /\ Reader = "appearance"
    <2>1. 4 \in 0 .. 16 /\ 4 \in 4 .. 7
      OBVIOUS
    <2> QED BY <1>1, <2>1, BuildReader, Zenon
  <1>3. a.name # NULL /\ a.name \in TextOrNull
    BY DEF Here, DirectionPlaces, GoodActor, Actor
  <1>4. NowAt("field", "name", a.name, at[6])
    BY <1>1, <1>3, PresentPieces, NowIs
  <1>5. AppearanceField
    BY <1>2, <1>4, AppearanceReads
  <1>6. actor \in Actor /\ IsRead(actor, a, 4)
    BY <1>1 DEF ActorUpTo
  <1>7. Chunk.tag = <<"name">> /\ Chunk.tag # <<"long_name">> /\ Chunk.tag # <<"description">>
          /\ Chunk.value = a.name
    BY <1>4 DEF NowAt
  <1>8. actor' = [actor EXCEPT !.name = a.name] /\ Continue /\ Unread
    BY <1>5, <1>7 DEF AppearanceField
  <1>9. IsRead(actor', a, 5)
    BY <1>6, <1>8, FieldsAdded
  <1>10. actor' \in Actor
    BY <1>3, <1>6, <1>8 DEF Actor
  <1>11. pos' = at[6] + 1 /\ readers' = readers /\ file' = file
    BY <1>4, <1>8 DEF Continue, NowAt
  <1>12. BuildReaders(top, a, 5) = Append(top, "appearance")
    BY DEF BuildReaders
  <1>13. Building(top, a, at, 5)'
    BY <1>1, <1>2, <1>9, <1>10, <1>11, <1>12, BuildingNext
  <1> QED BY <1>8, <1>11, <1>13 DEF StepTo, Unread

LEMMA LongNameStep ==
    ASSUME StorageInv, Reads, NEW top \in ActorTops, NEW a, NEW at, GoodActor(a),
           Building(top, a, at, 5), Here(a, 6)
    PROVE  StepTo(top, a, at, 6)
  <1>1. /\ SavedAt(file, at, a) /\ readers = BuildReaders(top, a, 5) /\ pos = at[6] + 1 /\ ActorUpTo(a, 5)
    BY BuildingIs
  <1>2. readers = Append(top, "appearance") /\ Reader = "appearance"
    <2>1. 5 \in 0 .. 16 /\ 5 \in 4 .. 7
      OBVIOUS
    <2> QED BY <1>1, <2>1, BuildReader, Zenon
  <1>3. a.long_name # NULL /\ a.long_name \in TextOrNull
    BY DEF Here, DirectionPlaces, GoodActor, Actor
  <1>4. NowAt("field", "long_name", a.long_name, at[7])
    BY <1>1, <1>3, PresentPieces, NowIs
  <1>5. AppearanceField
    BY <1>2, <1>4, AppearanceReads
  <1>6. actor \in Actor /\ IsRead(actor, a, 5)
    BY <1>1 DEF ActorUpTo
  <1>7. Chunk.tag = <<"long_name">> /\ Chunk.tag # <<"name">> /\ Chunk.tag # <<"description">>
          /\ Chunk.value = a.long_name
    BY <1>4 DEF NowAt
  <1>8. actor' = [actor EXCEPT !.long_name = a.long_name] /\ Continue /\ Unread
    BY <1>5, <1>7 DEF AppearanceField
  <1>9. IsRead(actor', a, 6)
    BY <1>6, <1>8, FieldsAdded
  <1>10. actor' \in Actor
    BY <1>3, <1>6, <1>8 DEF Actor
  <1>11. pos' = at[7] + 1 /\ readers' = readers /\ file' = file
    BY <1>4, <1>8 DEF Continue, NowAt
  <1>12. BuildReaders(top, a, 6) = Append(top, "appearance")
    BY DEF BuildReaders
  <1>13. Building(top, a, at, 6)'
    BY <1>1, <1>2, <1>9, <1>10, <1>11, <1>12, BuildingNext
  <1> QED BY <1>8, <1>11, <1>13 DEF StepTo, Unread

LEMMA DescriptionStep ==
    ASSUME StorageInv, Reads, NEW top \in ActorTops, NEW a, NEW at, GoodActor(a),
           Building(top, a, at, 6), Here(a, 7)
    PROVE  StepTo(top, a, at, 7)
  <1>1. /\ SavedAt(file, at, a) /\ readers = BuildReaders(top, a, 6) /\ pos = at[7] + 1 /\ ActorUpTo(a, 6)
    BY BuildingIs
  <1>2. readers = Append(top, "appearance") /\ Reader = "appearance"
    <2>1. 6 \in 0 .. 16 /\ 6 \in 4 .. 7
      OBVIOUS
    <2> QED BY <1>1, <2>1, BuildReader, Zenon
  <1>3. a.description # NULL /\ a.description \in TextOrNull
    BY DEF Here, DirectionPlaces, GoodActor, Actor
  <1>4. NowAt("field", "description", a.description, at[8])
    BY <1>1, <1>3, PresentPieces, NowIs
  <1>5. AppearanceField
    BY <1>2, <1>4, AppearanceReads
  <1>6. actor \in Actor /\ IsRead(actor, a, 6)
    BY <1>1 DEF ActorUpTo
  <1>7. Chunk.tag = <<"description">> /\ Chunk.tag # <<"name">> /\ Chunk.tag # <<"long_name">>
          /\ Chunk.value = a.description
    BY <1>4 DEF NowAt
  <1>8. actor' = [actor EXCEPT !.description = a.description] /\ Continue /\ Unread
    BY <1>5, <1>7 DEF AppearanceField
  <1>9. IsRead(actor', a, 7)
    BY <1>6, <1>8, FieldsAdded
  <1>10. actor' \in Actor
    BY <1>3, <1>6, <1>8 DEF Actor
  <1>11. pos' = at[8] + 1 /\ readers' = readers /\ file' = file
    BY <1>4, <1>8 DEF Continue, NowAt
  <1>12. BuildReaders(top, a, 7) = Append(top, "appearance")
    BY DEF BuildReaders
  <1>13. Building(top, a, at, 7)'
    BY <1>1, <1>2, <1>9, <1>10, <1>11, <1>12, BuildingNext
  <1> QED BY <1>8, <1>11, <1>13 DEF StepTo, Unread

LEMMA LookEnds ==
    ASSUME StorageInv, Reads, NEW top \in ActorTops, NEW a, NEW at, GoodActor(a),
           Building(top, a, at, 7)
    PROVE  StepTo(top, a, at, 8)
  <1>1. /\ SavedAt(file, at, a) /\ readers = BuildReaders(top, a, 7) /\ pos = at[8] + 1 /\ ActorUpTo(a, 7)
    BY BuildingIs
  <1>2. Front(readers) = top /\ Reader = "appearance"
    <2>1. 7 \in 0 .. 16 /\ 7 \in 4 .. 7
      OBVIOUS
    <2> QED BY <1>1, <2>1, BuildReader, Zenon
  <1>3. NowAt("end", "appearance", <<>>, at[9])
    BY <1>1, PresentPieces, NowIs
  <1>4. AppearanceEnds
    BY <1>2, <1>3, AppearanceReads
  <1>5. actor \in Actor /\ IsRead(actor, a, 7)
    BY <1>1 DEF ActorUpTo
  <1>6. actor' = actor /\ Return /\ Unread
    BY <1>4 DEF AppearanceEnds
  <1>7. IsRead(actor', a, 8) /\ actor' \in Actor
    BY <1>5, <1>6, NothingAdded
  <1>8. pos' = at[9] + 1 /\ readers' = top /\ file' = file
    BY <1>2, <1>3, <1>6 DEF Return, NowAt
  <1>9. BuildReaders(top, a, 8) = top
    BY DEF BuildReaders
  <1>10. Building(top, a, at, 8)'
    BY <1>1, <1>7, <1>8, <1>9, BuildingNext
  <1> QED BY <1>6, <1>8, <1>10 DEF StepTo, Unread

LEMMA ExitsEnd ==
    ASSUME StorageInv, Reads, NEW top \in ActorTops, NEW a, NEW at, GoodActor(a),
           Building(top, a, at, 15), Here(a, 16)
    PROVE  StepTo(top, a, at, 16)
  <1>0. a.room # NULL
    BY DEF Here, DirectionPlaces
  <1>1. /\ SavedAt(file, at, a) /\ readers = BuildReaders(top, a, 15) /\ pos = at[16] + 1 /\ ActorUpTo(a, 15)
    BY BuildingIs
  <1>2. Front(readers) = top /\ Reader = "room"
    <2>1. PICK i : i = 15
      OBVIOUS
    <2>2. i \in 0 .. 16 /\ i \in 9 .. 15
      BY <2>1
    <2>3. readers = BuildReaders(top, a, i)
      BY <1>1, <2>1
    <2>4. Reader = "room" /\ Front(readers) = top
      BY <1>0, <2>2, <2>3, BuildReader, Zenon
    <2> QED BY <2>4
  <1>3. NowAt("end", "room", <<>>, at[17])
    BY <1>0, <1>1, PresentPieces, NowIs
  <1>4. RoomEnds
    BY <1>2, <1>3, RoomReads
  <1>5. actor \in Actor /\ IsRead(actor, a, 15)
    BY <1>1 DEF ActorUpTo
  <1>6. actor' = actor /\ Return /\ Unread
    BY <1>4 DEF RoomEnds
  <1>7. IsRead(actor', a, 16) /\ actor' \in Actor
    BY <1>5, <1>6, NothingAdded
  <1>8. pos' = at[17] + 1 /\ readers' = top /\ file' = file
    BY <1>2, <1>3, <1>6 DEF Return, NowAt
  <1>9. BuildReaders(top, a, 16) = top
    BY DEF BuildReaders
  <1>10. Building(top, a, at, 16)'
    BY <1>1, <1>7, <1>8, <1>9, BuildingNext
  <1> QED BY <1>6, <1>8, <1>10 DEF StepTo, Unread

LEMMA ExitStep ==
    ASSUME StorageInv, Reads, NEW top \in ActorTops, NEW a, NEW at, GoodActor(a),
           NEW i \in 9 .. 14, NEW j \in 10 .. 15, j = i + 1, Building(top, a, at, i), Here(a, j)
    PROVE  StepTo(top, a, at, j)
  <1>1. /\ SavedAt(file, at, a) /\ readers = BuildReaders(top, a, i) /\ ActorUpTo(a, i)
        /\ \A n \in 1 .. 17 : n = i + 1 => pos = at[n] + 1
    BY BuildingIs
  <1>2. PICK d \in DirectionPlaces : j = d + 9 /\ a.room # NULL /\ a.room[d] # NULL
    BY DEF Here
  <1>3. PICK k \in 1 .. 17 : k = j + 1
    <2>1. j + 1 \in 1 .. 17
      OBVIOUS
    <2> QED BY <2>1
  <1>4. i = d + 8 /\ j = d + 9 /\ k = d + 10 /\ j \in 1 .. 17 /\ i \in 9 .. 15 /\ i \in 0 .. 16
    BY <1>2, <1>3 DEF DirectionPlaces
  <1>5. readers = Append(top, "room") /\ Reader = "room"
    BY <1>1, <1>2, <1>4, BuildReader, Zenon
  <1>6. pos = at[j] + 1 /\ ChunkAt(file, at[j], "start", "exit", ExitArgs(d, a.room[d]), at[k])
    BY <1>1, <1>2, <1>4, PresentPieces
  <1>7. NowAt("start", "exit", ExitArgs(d, a.room[d]), at[k])
    BY <1>6, NowIs
  <1>8. RoomExit
    BY <1>5, <1>7, RoomReads
  <1>9. ParsedExit(Chunk.value) = [dir |-> d, exit |-> a.room[d]]
    <2>1. a.room[d] \in Exit /\ ReadableExit(a.room[d])
      <3>1. ReadableRoom(a.room)
        BY ReadableText DEF GoodActor
      <3> QED BY <1>2, <3>1 DEF ReadableRoom
    <2>2. Chunk.value = ExitArgs(d, a.room[d])
      BY <1>7 DEF NowAt
    <2> QED BY <2>1, <2>2, ExitRead
  <1>10. actor \in Actor /\ IsRead(actor, a, i)
    <2>1. i # 0 /\ i # 1
      BY <1>4
    <2> QED BY <1>1, <2>1, Zenon DEF ActorUpTo
  <1>11. actor' = [actor EXCEPT !.room[d] = a.room[d]] /\ Continue /\ Unread
    <2>1. PICK parsed : parsed = ParsedExit(Chunk.value)
      OBVIOUS
    <2>2. parsed.dir = d /\ parsed.exit = a.room[d]
      BY <1>9, <2>1
    <2>3. ~(d > Len(Directions))
      BY DirectionsAre DEF DirectionPlaces
    <2>4. /\ actor' = [actor EXCEPT !.room[ParsedExit(Chunk.value).dir] = ParsedExit(Chunk.value).exit]
          /\ Continue /\ Unread
      BY <1>8, <2>1, <2>2, <2>3, Zenon DEF RoomExit
    <2> QED BY <2>1, <2>2, <2>4, Zenon
  <1>12. IsRead(actor', a, j)
    BY <1>2, <1>4, <1>10, <1>11, ExitAdded
  <1>13. actor' \in Actor
    <2>1. StorageInv'
      <3>1. Next
        BY DEF Reads, Next
      <3> QED BY <3>1, StorageStep
    <2>2. Inside'
      <3>1. readers' = readers
        BY <1>11 DEF Continue
      <3> QED BY <1>5, <3>1 DEF Inside, Reader, Parts
    <2> QED BY <2>1, <2>2 DEF StorageInv, ActorOK
  <1>14. pos' = at[k] + 1 /\ readers' = readers /\ file' = file
    BY <1>7, <1>11 DEF Continue, NowAt
  <1>15. BuildReaders(top, a, j) = Append(top, "room")
    BY <1>2, <1>4 DEF BuildReaders
  <1>16. Building(top, a, at, j)'
    <2>1. j \in 1 .. 16 /\ j # 1
      BY <1>4
    <2> QED BY <1>1, <1>3, <1>5, <1>12, <1>13, <1>14, <1>15, <2>1, BuildingNext
  <1> QED BY <1>11, <1>14, <1>16 DEF StepTo, Unread

\* The chunk that is there, whichever it is.
LEMMA BuildStep ==
    ASSUME StorageInv, Reads, NEW top \in ActorTops, NEW a, NEW at, GoodActor(a),
           NEW i \in 0 .. 15, NEW j \in 1 .. 16, j = i + 1, Building(top, a, at, i), Here(a, j)
    PROVE  StepTo(top, a, at, j)
  <1>1. CASE i = 0
    <2>1. j = 1
      BY <1>1
    <2> QED BY <1>1, <2>1, IdStep
  <1>2. CASE i = 1
    <2>1. j = 2
      BY <1>2
    <2> QED BY <1>2, <2>1, PlaceStep
  <1>3. CASE i = 2
    <2>1. j = 3
      BY <1>3
    <2> QED BY <1>3, <2>1, DeadStep
  <1>4. CASE i = 3
    <2>1. j = 4
      BY <1>4
    <2> QED BY <1>4, <2>1, AppearanceStep
  <1>5. CASE i = 4
    <2>1. j = 5
      BY <1>5
    <2> QED BY <1>5, <2>1, NameStep
  <1>6. CASE i = 5
    <2>1. j = 6
      BY <1>6
    <2> QED BY <1>6, <2>1, LongNameStep
  <1>7. CASE i = 6
    <2>1. j = 7
      BY <1>7
    <2> QED BY <1>7, <2>1, DescriptionStep
  <1>8. CASE i = 7
    <2>1. j = 8
      BY <1>8
    <2> QED BY <1>8, <2>1, LookEnds
  <1>9. CASE i = 8
    <2>1. j = 9
      BY <1>9
    <2> QED BY <1>9, <2>1, RoomStep
  <1>10. CASE i \in 9 .. 14
    <2>1. j \in 10 .. 15
      BY <1>10
    <2> QED BY <1>10, <2>1, ExitStep
  <1>11. CASE i = 15
    <2>1. j = 16
      BY <1>11
    <2> QED BY <1>11, <2>1, ExitsEnd
  <1>12. \/ i = 0 \/ i = 1 \/ i = 2 \/ i = 3 \/ i = 4 \/ i = 5 \/ i = 6 \/ i = 7 \/ i = 8
         \/ i \in 9 .. 14 \/ i = 15
    OBVIOUS
  <1> QED BY <1>1, <1>2, <1>3, <1>4, <1>5, <1>6, <1>7, <1>8, <1>9, <1>10, <1>11, <1>12, Zenon

LEMMA ReadyStage ==
    ASSUME NEW top, NEW a, NEW at, GoodActor(a), NEW i \in 0 .. 16, Building(top, a, at, i)
    PROVE  \/ Building(top, a, at, 16)
           \/ \E j \in 0 .. 15 : \E k \in 1 .. 16 : k = j + 1 /\ Building(top, a, at, j) /\ Here(a, k)
  <1>1. PICK S : S = { j \in 0 .. 16 : Building(top, a, at, j) }
    OBVIOUS
  <1>2. S \in SUBSET (0 .. 16) /\ S # {} /\ 16 \in Nat
    BY <1>1
  <1>3. PICK j : j \in S /\ \A k \in S : k <= j
    BY <1>2, MaxOf
  <1>4. j \in 0 .. 16 /\ Building(top, a, at, j)
    BY <1>1, <1>3
  <1>5. CASE j # 16
    <2>1. PICK k : k = j + 1
      OBVIOUS
    <2>2. j \in 0 .. 15 /\ k \in 1 .. 16 /\ k \in 0 .. 16 /\ ~(k <= j)
      BY <1>4, <1>5, <2>1
    <2>3. ~Building(top, a, at, k)
      BY <1>1, <1>3, <2>2
    <2>4. Here(a, k)
      BY <1>4, <2>1, <2>2, <2>3, StageSkipped
    <2> QED BY <1>4, <2>1, <2>2, <2>4
  <1> QED BY <1>4, <1>5

\* While an actor is read, each step is the next of its chunks.
LEMMA BuildOn ==
    ASSUME StorageInv, Reads, NEW top \in ActorTops, NEW a, NEW at, GoodActor(a),
           NEW i, Building(top, a, at, i)
    PROVE  Building(top, a, at, 16) \/ \E j \in 1 .. 16 : StepTo(top, a, at, j)
  <1>1. i \in 0 .. 16
    BY BuildingIs
  <1>2. CASE ~Building(top, a, at, 16)
    <2>1. PICK j \in 0 .. 15 : \E k \in 1 .. 16 : k = j + 1 /\ Building(top, a, at, j) /\ Here(a, k)
      BY <1>1, <1>2, ReadyStage
    <2>2. PICK k \in 1 .. 16 : k = j + 1 /\ Building(top, a, at, j) /\ Here(a, k)
      BY <2>1
    <2> QED BY <2>2, BuildStep
  <1> QED BY <1>2

-----------------------------------------------------------------------------
(* room_load_all, part by part.                                              *)

RoomsTop == <<"rooms">>
ActorTop == <<"rooms", "room_actor">>

LEMMA AppendedTo ==
    ASSUME NEW S, NEW s \in Seq(S), NEW x \in S, NEW n \in Nat, n = Len(s), NEW u, u = Append(s, x)
    PROVE  u \in Seq(S) /\ Len(u) = n + 1 /\ u[n + 1] = x /\ \A k \in 1 .. n : u[k] = s[k]
  OBVIOUS

LEMMA TopStacks ==
    /\ RoomsTop # <<>> /\ Last(RoomsTop) = "rooms" /\ RoomsTop[1] = "rooms"
    /\ ActorTop # <<>> /\ Last(ActorTop) = "room_actor" /\ ActorTop \in ActorTops
    /\ Append(RoomsTop, "room_actor") = ActorTop /\ Front(ActorTop) = RoomsTop
    /\ \A top \in {RoomsTop, ActorTop} :
         Append(top, "skip") # <<>> /\ Last(Append(top, "skip")) = "skip" /\ Front(Append(top, "skip")) = top
  <1>1. RoomsTop \in Seq(Readers) /\ ActorTop \in Seq(Readers)
    BY DEF RoomsTop, ActorTop, Readers
  <1>2. "skip" \in Readers /\ "room_actor" \in Readers
    BY DEF Readers
  <1>3. Append(RoomsTop, "room_actor") = ActorTop
    <2>1. PICK s \in Seq(Readers) : s = RoomsTop /\ Len(s) = 1 /\ s[1] = "rooms"
      BY <1>1 DEF RoomsTop
    <2>2. PICK u : u = Append(s, "room_actor")
      OBVIOUS
    <2>3. u \in Seq(Readers) /\ Len(u) = 2 /\ u[1] = "rooms" /\ u[2] = "room_actor"
      <3>1. PICK S, x : S = Readers /\ x = "room_actor"
        OBVIOUS
      <3>2. s \in Seq(S) /\ x \in S /\ Len(s) = 1 /\ u = Append(s, x)
        BY <1>2, <2>1, <2>2, <3>1
      <3>3. u \in Seq(S) /\ Len(u) = 2 /\ u[1] = s[1] /\ u[2] = x
        <4>1. PICK n \in Nat : n = 1 /\ n = Len(s)
          BY <3>2
        <4>2. u \in Seq(S) /\ Len(u) = n + 1 /\ u[n + 1] = x /\ \A k \in 1 .. n : u[k] = s[k]
          BY <3>2, <4>1, AppendedTo
        <4> QED BY <4>1, <4>2
      <3> QED BY <2>1, <3>1, <3>3
    <2>4. Len(ActorTop) = 2 /\ ActorTop[1] = "rooms" /\ ActorTop[2] = "room_actor"
      BY DEF ActorTop
    <2>5. u = ActorTop
      <3>1. Len(u) = Len(ActorTop) /\ \A k \in 1 .. Len(u) : u[k] = ActorTop[k]
        BY <2>3, <2>4
      <3> QED BY <1>1, <2>3, <3>1, SeqEqual
    <2> QED BY <2>1, <2>2, <2>5
  <1>4. /\ RoomsTop # <<>> /\ Last(RoomsTop) = "rooms" /\ RoomsTop[1] = "rooms"
        /\ ActorTop # <<>> /\ ActorTop \in ActorTops
    BY DEF RoomsTop, ActorTop, ActorTops, Last
  <1>5. Front(ActorTop) = RoomsTop /\ Last(ActorTop) = "room_actor"
    BY <1>1, <1>2, <1>3, Pushed
  <1>6. \A top \in {RoomsTop, ActorTop} :
         Append(top, "skip") # <<>> /\ Last(Append(top, "skip")) = "skip" /\ Front(Append(top, "skip")) = top
    BY <1>1, <1>2, Pushed
  <1> QED BY <1>3, <1>4, <1>5, <1>6

\* What is left of a part: behind the section before the room, and behind the room.
RoomFrom(f, p, part, m) ==
    \E q2, q3 : ChunkAt(f, p, "start", "room", <<>>, q2) /\ Saved(f, q2, q3, part.room)
                /\ \E q4 : NoteAt(f, q3, part.inside, q4) /\ ChunkAt(f, q4, "end", "room", <<>>, m)

InsideFrom(f, p, part, m) ==
    \E q : NoteAt(f, p, part.inside, q) /\ ChunkAt(f, q, "end", "room", <<>>, m)

\* Where the reader is in a part that ends behind m.
BeforePart(part, m) ==
    readers = RoomsTop /\ \E p : pos = p + 1 /\ PartAt(file, p, part, m)
BeforeRoom(part, m) ==
    readers = RoomsTop /\ \E p : pos = p + 1 /\ RoomFrom(file, p, part, m)
InBefore(part, m) ==
    readers = Append(RoomsTop, "skip")
    /\ \E p, q : pos = p + 1 /\ Skipped(file, p, q) /\ RoomFrom(file, q, part, m)
InRoom(part, m) ==
    \E at, i, q : Building(ActorTop, part.room, at, i) /\ at[17] = q /\ InsideFrom(file, q, part, m)
RoomRead(part) == actor \in Actor /\ IsRead(actor, part.room, 16)
InInside(part, m) ==
    readers = Append(ActorTop, "skip") /\ RoomRead(part)
    /\ \E p, q : pos = p + 1 /\ Skipped(file, p, q) /\ ChunkAt(file, q, "end", "room", <<>>, m)
AtEnd(part, m) ==
    readers = ActorTop /\ RoomRead(part)
    /\ \E p : pos = p + 1 /\ ChunkAt(file, p, "end", "room", <<>>, m)

InPart(part, m) ==
    \/ BeforePart(part, m) \/ BeforeRoom(part, m) \/ InBefore(part, m)
    \/ InRoom(part, m) \/ InInside(part, m) \/ AtEnd(part, m)

\* One step on in the part.
PartOn(part, m) ==
    \/ InPart(part, m)' /\ UNCHANGED <<diskVars, server, account, world, answer, file>>
    \/ Fail("out_of_ids")

\* A part whose sections are passed over.
ReadablePart(part) ==
    /\ GoodRoom(part.room)
    /\ part.before # NULL => part.before.tag # "room"
    /\ part.inside # NULL => part.inside.tag # "appearance" /\ part.inside.tag # "room"

LEMMA BeforeRoomStep ==
    ASSUME StorageInv, Reads, NEW part, ReadablePart(part), NEW m, BeforeRoom(part, m)
    PROVE  PartOn(part, m)
  <1>1. PICK p, q2, q3 :
          /\ pos = p + 1 /\ ChunkAt(file, p, "start", "room", <<>>, q2) /\ Saved(file, q2, q3, part.room)
          /\ \E q4 : NoteAt(file, q3, part.inside, q4) /\ ChunkAt(file, q4, "end", "room", <<>>, m)
    BY DEF BeforeRoom, RoomFrom
  <1>2. readers = RoomsTop /\ Reader = "rooms"
    BY TopStacks DEF BeforeRoom, Reader
  <1>3. NowAt("start", "room", <<>>, q2)
    BY <1>1, NowIs
  <1>4. LoadRoom
    BY <1>2, <1>3, TopReads
  <1>5. /\ readers' = ActorTop /\ pos' = q2 + 1 /\ actor' = NULL
        /\ UNCHANGED <<diskVars, server, account, world, answer, file>>
    <2>1. Call("room_actor") /\ actor' = NULL /\ Unread
      BY <1>4 DEF LoadRoom
    <2>2. readers' = Append(RoomsTop, "room_actor") /\ pos' = q2 + 1 /\ file' = file
      BY <1>2, <1>3, <2>1 DEF Call, NowAt
    <2> QED BY <2>1, <2>2, TopStacks DEF Unread
  <1>6. PICK at : SavedAt(file, at, part.room) /\ at[1] = q2 /\ at[17] = q3
    BY <1>1 DEF Saved
  <1>7. Building(ActorTop, part.room, at, 0)'
    <2>1. SavedAt(file', at, part.room) /\ readers' = BuildReaders(ActorTop, part.room, 0)
      BY <1>5, <1>6 DEF BuildReaders
    <2>2. ActorUpTo(part.room, 0)'
      BY <1>5 DEF ActorUpTo
    <2>3. pos' = at[1] + 1
      BY <1>5, <1>6
    <2>4. \A j \in 1 .. 17 : j = 0 + 1 => pos' = at[j] + 1
      BY <2>3
    <2>5. 0 \in 0 .. 16
      OBVIOUS
    <2> QED BY <2>1, <2>2, <2>4, <2>5 DEF Building
  <1>8. InsideFrom(file, q3, part, m)'
    BY <1>1, <1>5 DEF InsideFrom
  <1>9. InRoom(part, m)'
    BY <1>6, <1>7, <1>8, Zenon DEF InRoom
  <1> QED BY <1>5, <1>9 DEF PartOn, InPart

LEMMA BeforePartStep ==
    ASSUME StorageInv, Reads, NEW part, ReadablePart(part), NEW m, BeforePart(part, m)
    PROVE  PartOn(part, m)
  <1>1. PICK p, q1 : pos = p + 1 /\ NoteAt(file, p, part.before, q1) /\ RoomFrom(file, q1, part, m)
    <2>1. PICK p : pos = p + 1 /\ PartAt(file, p, part, m)
      BY DEF BeforePart
    <2>2. PICK q1, q2, q3, q4 :
            /\ NoteAt(file, p, part.before, q1)
            /\ ChunkAt(file, q1, "start", "room", <<>>, q2)
            /\ Saved(file, q2, q3, part.room)
            /\ NoteAt(file, q3, part.inside, q4)
            /\ ChunkAt(file, q4, "end", "room", <<>>, m)
      BY <2>1 DEF PartAt
    <2>3. RoomFrom(file, q1, part, m)
      BY <2>2, Zenon DEF RoomFrom
    <2> QED BY <2>1, <2>2, <2>3
  <1>2. readers = RoomsTop /\ Reader = "rooms"
    BY TopStacks DEF BeforePart, Reader
  <1>3. CASE part.before = NULL
    <2>1. BeforeRoom(part, m)
      BY <1>1, <1>2, <1>3 DEF BeforeRoom, NoteAt
    <2> QED BY <2>1, BeforeRoomStep
  <1>4. CASE part.before # NULL
    <2>1. PICK q : ChunkAt(file, p, "start", part.before.tag, <<>>, q) /\ Skipped(file, q, q1)
      BY <1>1, <1>4 DEF NoteAt
    <2>2. NowAt("start", part.before.tag, <<>>, q)
      BY <1>1, <2>1, NowIs
    <2>3. SkipTopLevel
      BY <1>2, <1>4, <2>2, TopReads DEF ReadablePart
    <2>4. Call("skip") /\ Unread
      BY <2>3 DEF SkipTopLevel
    <2>5. readers' = Append(RoomsTop, "skip") /\ pos' = q + 1 /\ file' = file
      BY <1>2, <2>2, <2>4 DEF Call, NowAt
    <2>6. InBefore(part, m)'
      BY <1>1, <2>1, <2>5 DEF InBefore
    <2> QED BY <2>4, <2>5, <2>6 DEF PartOn, InPart, Unread
  <1> QED BY <1>3, <1>4

\* A step in a section that is skipped: to its next field, or behind it.
LEMMA SkipOn ==
    ASSUME StorageInv, Reads, NEW top \in {RoomsTop, ActorTop}, readers = Append(top, "skip"),
           NEW p, NEW q, pos = p + 1, Skipped(file, p, q)
    PROVE  /\ UNCHANGED <<actor, diskVars, server, account, world, answer, file>>
           /\ \/ readers' = top /\ pos' = q + 1
              \/ readers' = readers /\ \E n : pos' = n + 1 /\ Skipped(file, n, q)
  <1>1. Reader = "skip" /\ Front(readers) = top
    BY TopStacks DEF Reader
  <1>2. CASE \E tag : ChunkAt(file, p, "end", tag, <<>>, q)
    <2>1. PICK tag : ChunkAt(file, p, "end", tag, <<>>, q)
      BY <1>2
    <2>2. NowAt("end", tag, <<>>, q)
      BY <2>1, NowIs
    <2>3. SkipEnds
      BY <1>1, <2>2, SkipReads
    <2>4. Return /\ UNCHANGED <<actor, on_actor_id>> /\ Unread
      BY <2>3 DEF SkipEnds
    <2>5. readers' = top /\ pos' = q + 1 /\ file' = file
      BY <1>1, <2>2, <2>4 DEF Return, NowAt
    <2> QED BY <2>4, <2>5 DEF Unread
  <1>3. CASE \E tag, value, n : ChunkAt(file, p, "field", tag, value, n) /\ Skipped(file, n, q)
    <2>1. PICK tag, value, n : ChunkAt(file, p, "field", tag, value, n) /\ Skipped(file, n, q)
      BY <1>3
    <2>2. NowAt("field", tag, value, n)
      BY <2>1, NowIs
    <2>3. SkipChunk
      BY <1>1, <2>2, SkipReads
    <2>4. Continue /\ UNCHANGED <<actor, on_actor_id>> /\ Unread
      BY <2>3 DEF SkipChunk
    <2>5. readers' = readers /\ pos' = n + 1 /\ file' = file
      BY <2>2, <2>4 DEF Continue, NowAt
    <2> QED BY <2>1, <2>4, <2>5 DEF Unread
  <1> QED BY <1>2, <1>3, SkippedNext, Zenon

LEMMA InBeforeStep ==
    ASSUME StorageInv, Reads, NEW part, NEW m, InBefore(part, m)
    PROVE  PartOn(part, m)
  <1>1. PICK p, q : /\ readers = Append(RoomsTop, "skip")
                    /\ pos = p + 1 /\ Skipped(file, p, q) /\ RoomFrom(file, q, part, m)
    BY DEF InBefore
  <1>2. /\ UNCHANGED <<actor, diskVars, server, account, world, answer, file>>
        /\ \/ readers' = RoomsTop /\ pos' = q + 1
           \/ readers' = readers /\ \E n : pos' = n + 1 /\ Skipped(file, n, q)
    BY <1>1, SkipOn
  <1>3. CASE readers' = RoomsTop /\ pos' = q + 1
    <2>1. BeforeRoom(part, m)'
      BY <1>1, <1>2, <1>3 DEF BeforeRoom
    <2> QED BY <1>2, <2>1 DEF PartOn, InPart
  <1>4. CASE readers' = readers /\ \E n : pos' = n + 1 /\ Skipped(file, n, q)
    <2>1. InBefore(part, m)'
      BY <1>1, <1>2, <1>4 DEF InBefore
    <2> QED BY <1>2, <2>1 DEF PartOn, InPart
  <1> QED BY <1>2, <1>3, <1>4

LEMMA InInsideStep ==
    ASSUME StorageInv, Reads, NEW part, NEW m, InInside(part, m)
    PROVE  PartOn(part, m)
  <1>1. PICK p, q : /\ readers = Append(ActorTop, "skip") /\ RoomRead(part)
                    /\ pos = p + 1 /\ Skipped(file, p, q) /\ ChunkAt(file, q, "end", "room", <<>>, m)
    BY DEF InInside
  <1>2. /\ UNCHANGED <<actor, diskVars, server, account, world, answer, file>>
        /\ \/ readers' = ActorTop /\ pos' = q + 1
           \/ readers' = readers /\ \E n : pos' = n + 1 /\ Skipped(file, n, q)
    BY <1>1, SkipOn
  <1>3. RoomRead(part)'
    BY <1>1, <1>2 DEF RoomRead
  <1>4. CASE readers' = ActorTop /\ pos' = q + 1
    <2>1. AtEnd(part, m)'
      BY <1>1, <1>2, <1>3, <1>4 DEF AtEnd
    <2> QED BY <1>2, <2>1 DEF PartOn, InPart
  <1>5. CASE readers' = readers /\ \E n : pos' = n + 1 /\ Skipped(file, n, q)
    <2>1. InInside(part, m)'
      BY <1>1, <1>2, <1>3, <1>5 DEF InInside
    <2> QED BY <1>2, <2>1 DEF PartOn, InPart
  <1> QED BY <1>2, <1>4, <1>5

\* The room is in the world and the reader behind its part.
PartOver(part, m) ==
    /\ readers' = RoomsTop /\ pos' = m + 1 /\ world' = <<part.room>> \o world
    /\ UNCHANGED <<diskVars, server, account, answer, file>>

PlaceFound(part) ==
    part.room.location_id # INVALID_ACTOR_ID =>
        \E k \in 1 .. Len(world) : world[k].id = part.room.location_id

LEMMA AtEndStep ==
    ASSUME StorageInv, Reads, NEW part, ReadablePart(part), PlaceFound(part), NEW m, AtEnd(part, m)
    PROVE  PartOver(part, m)
  <1>1. PICK p : pos = p + 1 /\ ChunkAt(file, p, "end", "room", <<>>, m)
    BY DEF AtEnd
  <1>2. readers = ActorTop /\ Front(readers) = RoomsTop /\ Reader = "room_actor" /\ Reader \in ActorReaders
    BY TopStacks DEF AtEnd, Reader, ActorReaders
  <1>3. NowAt("end", "room", <<>>, m)
    BY <1>1, NowIs
  <1>4. RoomActorEnds
    BY <1>2, <1>3, ActorReads
  <1>5. actor \in Actor /\ IsRead(actor, part.room, 16) /\ actor # NULL
    BY NullAssumption DEF AtEnd, RoomRead
  <1>6. [actor EXCEPT !.dead = FALSE] = part.room
    BY <1>5, WholeRoom DEF ReadablePart
  <1>7. actor.location_id = part.room.location_id
    BY <1>5, AllRead DEF ReadablePart, GoodRoom
  <1>8. TakeRoom /\ Return /\ UNCHANGED <<diskVars, account, on_actor_id, answer>>
    BY <1>4 DEF RoomActorEnds
  <1>9. AddToWorld(actor) /\ UNCHANGED server
    BY <1>5, <1>7, <1>8 DEF TakeRoom, PlaceFound, LocationFound
  <1>10. world' = <<part.room>> \o world
    BY <1>6, <1>9, Zenon DEF AddToWorld
  <1>11. readers' = RoomsTop /\ pos' = m + 1 /\ file' = file
    BY <1>2, <1>3, <1>8 DEF Return, NowAt
  <1> QED BY <1>8, <1>9, <1>10, <1>11 DEF PartOver

LEMMA InRoomStep ==
    ASSUME StorageInv, Reads, NEW part, ReadablePart(part), PlaceFound(part), NEW m, InRoom(part, m)
    PROVE  PartOn(part, m) \/ PartOver(part, m)
  <1>1. PICK at, i, q : Building(ActorTop, part.room, at, i) /\ at[17] = q /\ InsideFrom(file, q, part, m)
    BY DEF InRoom
  <1>2. GoodActor(part.room) /\ ActorTop \in ActorTops
    BY TopStacks DEF ReadablePart, GoodRoom, GoodActor
  <1>3. CASE \E j \in 1 .. 16 : StepTo(ActorTop, part.room, at, j)
    <2>1. PICK j \in 1 .. 16 : StepTo(ActorTop, part.room, at, j)
      BY <1>3
    <2>2. CASE /\ Building(ActorTop, part.room, at, j)'
               /\ UNCHANGED <<diskVars, server, account, world, answer, file>>
      <3>1. InsideFrom(file, q, part, m)'
        BY <1>1, <2>2 DEF InsideFrom
      <3>2. InRoom(part, m)'
        BY <1>1, <2>2, <3>1, Zenon DEF InRoom
      <3> QED BY <2>2, <3>2 DEF PartOn, InPart
    <2> QED BY <2>1, <2>2 DEF StepTo, PartOn
  <1>4. CASE Building(ActorTop, part.room, at, 16)
    <2>1. /\ readers = BuildReaders(ActorTop, part.room, 16) /\ ActorUpTo(part.room, 16)
          /\ \A j \in 1 .. 17 : j = 16 + 1 => pos = at[j] + 1
      BY <1>4, BuildingIs
    <2>2. pos = q + 1
      <3>1. 17 \in 1 .. 17 /\ 17 = 16 + 1
        OBVIOUS
      <3> QED BY <1>1, <2>1, <3>1
    <2>3. readers = ActorTop
      BY <2>1 DEF BuildReaders
    <2>4. RoomRead(part) /\ actor # NULL
      BY <2>1, NullAssumption DEF ActorUpTo, RoomRead
    <2>5. PICK q4 : NoteAt(file, q, part.inside, q4) /\ ChunkAt(file, q4, "end", "room", <<>>, m)
      BY <1>1 DEF InsideFrom
    <2>6. CASE part.inside = NULL
      <3>1. AtEnd(part, m)
        BY <2>2, <2>3, <2>4, <2>5, <2>6 DEF AtEnd, NoteAt
      <3> QED BY <3>1, AtEndStep
    <2>7. CASE part.inside # NULL
      <3>1. PICK tag, n : tag = part.inside.tag /\ ChunkAt(file, q, "start", tag, <<>>, n) /\ Skipped(file, n, q4)
        BY <2>5, <2>7 DEF NoteAt
      <3>2. NowAt("start", tag, <<>>, n)
        BY <2>2, <3>1, NowIs
      <3>3. Reader \in ActorReaders
        BY <2>3, TopStacks DEF Reader, ActorReaders
      <3>4. ActorSection
        BY <2>4, <3>2, <3>3, ActorReads DEF OutOfIds
      <3>5. tag # "appearance" /\ tag # "room" /\ Chunk.tag = <<tag>>
        BY <2>7, <3>1, <3>2 DEF ReadablePart, NowAt
      <3>6. Call("skip") /\ actor' = ActorAtHand /\ Unread
        BY <3>4, <3>5 DEF ActorSection, WithActor
      <3>7. actor' = actor
        BY <2>4, <3>6 DEF ActorAtHand
      <3>8. readers' = Append(ActorTop, "skip") /\ pos' = n + 1 /\ file' = file
        BY <2>3, <3>2, <3>6 DEF Call, NowAt
      <3>9. RoomRead(part)'
        BY <2>4, <3>7 DEF RoomRead
      <3>10. InInside(part, m)'
        BY <2>5, <3>1, <3>8, <3>9 DEF InInside
      <3> QED BY <3>6, <3>8, <3>10 DEF PartOn, InPart, Unread
    <2> QED BY <2>6, <2>7
  <1> QED BY <1>1, <1>2, <1>3, <1>4, BuildOn, Zenon

LEMMA PartStep ==
    ASSUME StorageInv, Reads, NEW part, ReadablePart(part), PlaceFound(part), NEW m, InPart(part, m)
    PROVE  PartOn(part, m) \/ PartOver(part, m)
  BY BeforePartStep, BeforeRoomStep, InBeforeStep, InRoomStep, InInsideStep, AtEndStep, Zenon DEF InPart

-----------------------------------------------------------------------------
(* room_load_all, from the first part to the last.                           *)

\* The world holds the rooms of the first n parts, the last one first.
Loaded(n) ==
    /\ n = Len(world)
    /\ \A i, j \in 1 .. n : i + j = n + 1 => world[i] = disk.parts[j].room

Between(at, n) ==
    readers = RoomsTop /\ \A k \in 1 .. Len(disk.parts) + 1 : k = n + 1 => pos = at[k] + 1

Within(at, n) ==
    \E k \in 1 .. Len(disk.parts) : \E j \in 1 .. Len(disk.parts) + 1 :
        k = n + 1 /\ j = k + 1 /\ InPart(disk.parts[k], at[j])

RoomsReading ==
    \E at : \E n \in 0 .. Len(disk.parts) :
        FileAt(file, disk.parts, at) /\ Loaded(n) /\ (Between(at, n) \/ Within(at, n))

\* What is asked of rooms.txt.
Regular == disk.sound /\ NoNesting(disk)

LEMMA RegularParts ==
    ASSUME StorageInv, Regular
    PROVE  /\ disk.parts \in Seq(Part) /\ Len(disk.parts) \in Nat
           /\ \A k \in 1 .. Len(disk.parts) :
                ReadablePart(disk.parts[k]) /\ SavedRoom(disk.parts, k)
  <1>1. disk \in Disks
    BY DEF StorageInv, FilesOK
  <1>2. /\ disk.parts \in Seq(Part)
        /\ \A k \in 1 .. Len(disk.parts) :
             /\ GoodRoom(disk.parts[k].room) /\ SavedRoom(disk.parts, k)
             /\ disk.parts[k].before # NULL => Skippable(disk.parts[k].before, {<<"room">>})
             /\ disk.parts[k].inside # NULL =>
                  Skippable(disk.parts[k].inside, {<<"appearance">>, <<"room">>})
    BY <1>1, RoomsOnDisk DEF Regular
  <1>3. ASSUME NEW note, Skippable(note, {<<"room">>})
        PROVE  note.tag # "room"
    <2>1. <<note.tag>> \notin {<<"room">>}
      BY <1>3 DEF Skippable
    <2> QED BY <2>1
  <1>4. ASSUME NEW note, Skippable(note, {<<"appearance">>, <<"room">>})
        PROVE  note.tag # "appearance" /\ note.tag # "room"
    <2>1. <<note.tag>> \notin {<<"appearance">>, <<"room">>}
      BY <1>4 DEF Skippable
    <2> QED BY <2>1
  <1>5. \A k \in 1 .. Len(disk.parts) : ReadablePart(disk.parts[k])
    BY <1>2, <1>3, <1>4 DEF ReadablePart
  <1> QED BY <1>2, <1>5

\* The place of a room is the room of a part before its own.
LEMMA PlaceLoaded ==
    ASSUME StorageInv, Regular, NEW n, NEW k \in 1 .. Len(disk.parts), k = n + 1, n \in Nat, Loaded(n)
    PROVE  PlaceFound(disk.parts[k])
  <1>1. SavedRoom(disk.parts, k)
    BY RegularParts
  <1> SUFFICES ASSUME disk.parts[k].room.location_id # INVALID_ACTOR_ID
               PROVE  \E i \in 1 .. Len(world) : world[i].id = disk.parts[k].room.location_id
    BY DEF PlaceFound
  <1>2. PICK j \in 1 .. k - 1 : disk.parts[j].room.id = disk.parts[k].room.location_id
    BY <1>1 DEF SavedRoom
  <1>3. PICK i : i = k - j
    OBVIOUS
  <1>4. i \in 1 .. n /\ j \in 1 .. n /\ i + j = n + 1
    BY <1>2, <1>3
  <1>5. world[i] = disk.parts[j].room
    BY <1>4 DEF Loaded
  <1>6. n = Len(world)
    BY DEF Loaded
  <1> QED BY <1>2, <1>4, <1>5, <1>6

LEMMA LoadedNext ==
    ASSUME world \in Seq(Actor), NEW n \in Nat, Loaded(n), NEW k, k = n + 1,
           world' = <<disk.parts[k].room>> \o world, UNCHANGED disk
    PROVE  Loaded(k)'
  <1>1. PICK room, parts, w : room = disk.parts[k].room /\ parts = disk.parts /\ w = world'
    OBVIOUS
  <1>2. /\ Len(w) = Len(world) + 1 /\ w[1] = room
        /\ \A i \in 2 .. Len(world) + 1 : w[i] = world[i - 1]
    BY <1>1, Prepended
  <1>3. n = Len(world) /\ \A i, j \in 1 .. n : i + j = n + 1 => world[i] = parts[j].room
    BY <1>1 DEF Loaded
  <1>4. ASSUME NEW i \in 1 .. k, NEW j \in 1 .. k, i + j = k + 1
        PROVE  w[i] = parts[j].room
    <2>1. CASE i = 1
      <3>1. j = k
        BY <1>4, <2>1
      <3> QED BY <1>1, <1>2, <2>1, <3>1
    <2>2. CASE i # 1
      <3>1. PICK h : h = i - 1
        OBVIOUS
      <3>2. h \in 1 .. n /\ j \in 1 .. n /\ h + j = n + 1 /\ i \in 2 .. n + 1
        BY <1>4, <2>2, <3>1
      <3>3. w[i] = world[h] /\ world[h] = parts[j].room
        BY <1>2, <1>3, <3>1, <3>2
      <3> QED BY <3>3
    <2> QED BY <2>1, <2>2
  <1>5. k = Len(w)
    BY <1>2, <1>3
  <1> QED BY <1>1, <1>4, <1>5 DEF Loaded

\* Each step of the reading: within a part, to the next one, or the last.
LEMMA RoomsStep ==
    ASSUME StorageInv, Reads, Regular, RoomsReading
    PROVE  \/ RoomsReading' /\ UNCHANGED <<diskVars, server, account, answer>>
           \/ Fail("out_of_ids")
           \/ /\ readers' = <<>> /\ Loaded(Len(disk.parts))
              /\ UNCHANGED <<diskVars, server, account, answer, world>>
  <1>1. PICK at, n : /\ n \in 0 .. Len(disk.parts)
                     /\ FileAt(file, disk.parts, at) /\ Loaded(n) /\ (Between(at, n) \/ Within(at, n))
    BY DEF RoomsReading
  <1>2. PICK parts, len : parts = disk.parts /\ len = Len(disk.parts) /\ len \in Nat
    BY RegularParts
  <1>3. n \in 0 .. len /\ n \in Nat
    BY <1>1, <1>2
  <1>4. /\ at \in [1 .. len + 1 -> Nat]
        /\ \A k \in 1 .. len : \A j \in 1 .. len + 1 : j = k + 1 => PartAt(file, at[k], parts[k], at[j])
        /\ file_chunk_read(file, at[len + 1] + 1).result = "eof"
    BY <1>1, <1>2 DEF FileAt
  <1>5. CASE n = len /\ Between(at, n)
    <2>1. len + 1 \in 1 .. len + 1 /\ len + 1 = n + 1
      <3>1. len \in Nat /\ n = len
        BY <1>2, <1>5
      <3> QED BY <3>1
    <2>2. readers = RoomsTop /\ pos = at[len + 1] + 1
      BY <1>2, <1>5, <2>1 DEF Between
    <2>3. Reader = "rooms" /\ Chunk.result = "eof"
      BY <1>4, <2>2, TopStacks DEF Reader, Chunk
    <2>4. EndOfFile
      BY <2>3, EofReads
    <2>5. Head(readers) = "rooms" /\ ~(Len(readers) > 1)
      BY <2>2 DEF RoomsTop
    <2>6. UNCHANGED <<server, world, answer>> /\ CloseFile /\ UNCHANGED <<diskVars, account>>
      BY <2>4, <2>5 DEF EndOfFile
    <2> QED BY <1>1, <1>2, <1>5, <2>6 DEF CloseFile
  <1>6. CASE (n # len /\ Between(at, n)) \/ Within(at, n)
    <2>1. PICK k, j : /\ k \in 1 .. len /\ j \in 1 .. len + 1 /\ k = n + 1 /\ j = k + 1
                      /\ InPart(parts[k], at[j])
      <3>1. CASE Within(at, n)
        BY <1>2, <3>1 DEF Within
      <3>2. CASE n # len /\ Between(at, n)
        <4>1. PICK k, j : k = n + 1 /\ j = k + 1
          OBVIOUS
        <4>2. k \in 1 .. len /\ k \in 1 .. len + 1 /\ j \in 1 .. len + 1
          <5>1. len \in Nat /\ n \in 0 .. len /\ n # len
            BY <1>2, <1>3, <3>2
          <5> QED BY <4>1, <5>1
        <4>3. readers = RoomsTop /\ pos = at[k] + 1
          BY <1>2, <3>2, <4>1, <4>2 DEF Between
        <4>4. PartAt(file, at[k], parts[k], at[j])
          BY <1>4, <4>1, <4>2
        <4>5. BeforePart(parts[k], at[j])
          BY <4>3, <4>4 DEF BeforePart
        <4> QED BY <4>1, <4>2, <4>5 DEF InPart
      <3> QED BY <1>6, <3>1, <3>2
    <2>2. PICK part, m : part = parts[k] /\ m = at[j]
      OBVIOUS
    <2>3. ReadablePart(part) /\ PlaceFound(part) /\ InPart(part, m)
      BY <1>1, <1>2, <1>3, <2>1, <2>2, RegularParts, PlaceLoaded
    <2>4. CASE Fail("out_of_ids")
      BY <2>4
    <2>5. CASE InPart(part, m)' /\ UNCHANGED <<diskVars, server, account, world, answer, file>>
      <3>1. disk' = disk /\ world' = world /\ file' = file
        BY <2>5 DEF diskVars
      <3>2. Within(at, n)'
        BY <1>2, <2>1, <2>2, <2>5, <3>1, Zenon DEF Within
      <3>3. FileAt(file, disk.parts, at)' /\ Loaded(n)' /\ n \in 0 .. Len(disk'.parts)
        BY <1>1, <3>1 DEF Loaded
      <3>4. RoomsReading'
        BY <3>2, <3>3 DEF RoomsReading
      <3> QED BY <2>5, <3>4
    <2>6. CASE PartOver(part, m)
      <3>1. /\ disk' = disk /\ file' = file /\ readers' = RoomsTop /\ pos' = at[j] + 1
            /\ world' = <<part.room>> \o world /\ UNCHANGED <<diskVars, server, account, answer>>
        BY <2>2, <2>6 DEF PartOver, diskVars
      <3>2. Loaded(k)'
        <4>1. world' = <<disk.parts[k].room>> \o world
          BY <1>2, <2>2, <3>1, Zenon
        <4>2. world \in Seq(Actor)
          BY DEF StorageInv, WorldOK
        <4> QED BY <1>1, <1>3, <2>1, <3>1, <4>1, <4>2, LoadedNext
      <3>3. Between(at, k)'
        <4>1. \A i \in 1 .. Len(disk'.parts) + 1 : i = k + 1 => pos' = at[i] + 1
          BY <2>1, <3>1
        <4> QED BY <3>1, <4>1 DEF Between
      <3>4. FileAt(file, disk.parts, at)' /\ k \in 0 .. Len(disk'.parts)
        BY <1>1, <1>2, <2>1, <3>1
      <3>5. RoomsReading'
        BY <3>2, <3>3, <3>4 DEF RoomsReading
      <3> QED BY <3>1, <3>5
    <2> QED BY <2>3, <2>4, <2>5, <2>6, PartStep, Zenon DEF PartOn
  <1> QED BY <1>1, <1>5, <1>6

-----------------------------------------------------------------------------
(* actor_load, for a character.                                              *)

CharacterTop == <<"character">>

\* A name begins with its capital, whichever way it was typed.
LEMMA CapitalOfLower ==
    ASSUME NEW n \in Name
    PROVE  str_capitalize(str_to_lower(n)) = str_capitalize(n)
  <1>1. PICK low : low = str_to_lower(n)
    OBVIOUS
  <1>2. /\ Len(low) = Len(n) /\ Len(n) \in Nat /\ Len(n) # 0
        /\ \A k \in 1 .. Len(n) : low[k] = LowerOf(n[k]) /\ LowerOf(low[k]) = LowerOf(n[k])
    <2>1. /\ n \in Seq(Letters) /\ Len(n) \in Nat /\ Len(n) # 0
      BY DEF Name
    <2>2. \A k \in 1 .. Len(n) : LowerOf(n[k]) \in DOMAIN Capital
      BY <2>1, LowerOfLetter
    <2>3. Len(low) = Len(n) /\ \A k \in 1 .. Len(n) : low[k] = LowerOf(n[k])
      BY <1>1, LowerString
    <2>4. \A k \in 1 .. Len(n) : LowerOf(low[k]) = LowerOf(n[k])
      BY <2>2, <2>3, LowerOfLetter
    <2> QED BY <2>1, <2>3, <2>4
  <1>3. /\ str_capitalize(low) = [k \in 1 .. Len(low) |->
              IF k = 1 /\ LowerOf(low[1]) \in DOMAIN Capital THEN Capital[LowerOf(low[1])] ELSE LowerOf(low[k])]
        /\ str_capitalize(n) = [k \in 1 .. Len(n) |->
              IF k = 1 /\ LowerOf(n[1]) \in DOMAIN Capital THEN Capital[LowerOf(n[1])] ELSE LowerOf(n[k])]
    BY DEF str_capitalize
  <1>4. 1 \in 1 .. Len(n)
    BY <1>2
  <1>5. LowerOf(low[1]) = LowerOf(n[1])
    BY <1>2, <1>4
  <1> QED BY <1>1, <1>2, <1>3, <1>5

LEMMA MadeIsGood ==
    ASSUME NEW c \in Name, NEW a, Made(a, c)
    PROVE  GoodActor(a) /\ a.name # NULL
  <1>1. /\ a \in Actor /\ a.name = str_capitalize(c) /\ a.long_name = NULL /\ a.description = NULL
        /\ a.room = NULL /\ a.location_id = StartLocation
    BY DEF Made
  <1>2. a.name \in Name
    BY <1>1, CapitalString
  <1>3. a.name # NULL
    BY <1>2, TextOf
  <1>4. Readable(a.name)
    BY <1>2, NameWord DEF Readable
  <1>5. ReadableActor(a)
    BY <1>1, <1>4, Zenon DEF ReadableActor
  <1>6. a.location_id # 0
    BY <1>1, StorageAssumption
  <1> QED BY <1>1, <1>3, <1>5, <1>6 DEF GoodActor

\* The text is that of a character of the name.
CharacterText(text, c) == \E a : Made(a, c) /\ text = actor_save(a)

\* The actor a is all there is in the file.
WholeFile(f, at, a) ==
    SavedAt(f, at, a) /\ at[1] = 0 /\ file_chunk_read(f, at[17] + 1).result = "eof"

LEMMA CharacterWritten ==
    ASSUME NEW c \in Name, NEW text, CharacterText(text, c)
    PROVE  text \in Text /\ text # NULL /\ \E a, at : Made(a, c) /\ WholeFile(text, at, a)
  <1>1. PICK a : Made(a, c) /\ text = actor_save(a)
    BY DEF CharacterText
  <1>2. ActorOf(text, a) /\ text \in Text
    BY <1>1, MadeIsGood, MadeIsSaved, SavedActor DEF GoodActor
  <1>3. text \in Seq(Tokens) /\ Len(text) \in Nat
    BY <1>2 DEF Text
  <1>4. HoldsTo(Tokens, text, 0, text, Len(text))
    <2>1. Holds(Tokens, text, 0, text)
      BY <1>3, HoldsWhole
    <2>2. Len(text) = 0 + Len(text)
      BY <1>3
    <2> QED BY <2>1, <2>2, Zenon DEF HoldsTo
  <1>5. Saved(text, 0, Len(text), a)
    BY <1>2, <1>4, Zenon DEF ActorOf
  <1>6. PICK at : SavedAt(text, at, a) /\ at[1] = 0 /\ at[17] = Len(text)
    BY <1>5 DEF Saved
  <1>7. file_chunk_read(text, at[17] + 1).result = "eof"
    BY <1>3, <1>6, NothingLeft
  <1>8. WholeFile(text, at, a)
    BY <1>6, <1>7 DEF WholeFile
  <1> QED BY <1>1, <1>2, <1>8, TextOf

\* A character of the name is being read; what was cut off has nothing in it.
CharacterReading(c) ==
    \E a, at, i : Made(a, c) /\ Building(CharacterTop, a, at, i)
                  /\ file_chunk_read(file, at[17] + 1).result = "eof"
NothingReading == readers = CharacterTop /\ file = <<>> /\ pos = 1 /\ actor = NULL

\* The first chunk of a file that was saved is read next.
LEMMA ReadingStarts ==
    ASSUME NEW c \in Name, NEW text, CharacterText(text, c),
           readers' = CharacterTop, file' = text, pos' = 1, actor' = NULL
    PROVE  CharacterReading(c)'
  <1>1. PICK a, at : Made(a, c) /\ SavedAt(text, at, a) /\ at[1] = 0
                     /\ file_chunk_read(text, at[17] + 1).result = "eof"
    BY CharacterWritten DEF WholeFile
  <1>2. SavedAt(file', at, a) /\ file_chunk_read(file', at[17] + 1).result = "eof"
    BY <1>1
  <1>3. BuildReaders(CharacterTop, a, 0) = CharacterTop
    BY DEF BuildReaders
  <1>4. ActorUpTo(a, 0)'
    BY DEF ActorUpTo
  <1>5. \A j \in 1 .. 17 : j = 0 + 1 => pos' = at[j] + 1
    BY <1>1
  <1>6. 0 \in 0 .. 16
    OBVIOUS
  <1>7. Building(CharacterTop, a, at, 0)'
    BY <1>2, <1>3, <1>4, <1>5, <1>6 DEF Building
  <1> QED BY <1>1, <1>2, <1>7 DEF CharacterReading

\* What is handed to player_state_enter_playing.
Entering(r, c) ==
    /\ EnterPlaying(r) /\ r \in Actor
    /\ r.name = str_capitalize(c) /\ r.location_id = StartLocation /\ r.room = NULL

LEMMA CharacterStep ==
    ASSUME StorageInv, Reads, NEW c \in Name, CharacterReading(c)
    PROVE  \/ CharacterReading(c)' /\ UNCHANGED <<diskVars, server, account, world, answer>>
           \/ Fail("out_of_ids")
           \/ /\ \E r : Entering(r, c)
              /\ readers' = <<>> /\ UNCHANGED <<diskVars, server, account>>
  <1>1. PICK a, at, i : /\ Made(a, c) /\ Building(CharacterTop, a, at, i)
                        /\ file_chunk_read(file, at[17] + 1).result = "eof"
    BY DEF CharacterReading
  <1>2. GoodActor(a) /\ CharacterTop \in ActorTops
    BY <1>1, MadeIsGood DEF ActorTops, CharacterTop
  <1>3. CASE \E j \in 1 .. 16 : StepTo(CharacterTop, a, at, j)
    <2>1. PICK j \in 1 .. 16 : StepTo(CharacterTop, a, at, j)
      BY <1>3
    <2>2. CASE /\ Building(CharacterTop, a, at, j)'
               /\ UNCHANGED <<diskVars, server, account, world, answer, file>>
      <3>1. file_chunk_read(file', at[17] + 1).result = "eof"
        BY <1>1, <2>2
      <3>2. CharacterReading(c)'
        BY <1>1, <2>2, <3>1 DEF CharacterReading
      <3> QED BY <2>2, <3>2
    <2> QED BY <2>1, <2>2 DEF StepTo
  <1>4. CASE Building(CharacterTop, a, at, 16)
    <2>1. /\ readers = BuildReaders(CharacterTop, a, 16) /\ ActorUpTo(a, 16)
          /\ \A j \in 1 .. 17 : j = 16 + 1 => pos = at[j] + 1
      BY <1>4, BuildingIs
    <2>2. pos = at[17] + 1
      <3>1. 17 \in 1 .. 17 /\ 17 = 16 + 1
        OBVIOUS
      <3> QED BY <2>1, <3>1
    <2>3. readers = CharacterTop
      BY <2>1 DEF BuildReaders
    <2>4. actor \in Actor /\ IsRead(actor, a, 16)
      BY <2>1 DEF ActorUpTo
    <2>5. Reader = "character" /\ Head(readers) = "character" /\ ~(Len(readers) > 1)
      BY <2>3 DEF Reader, CharacterTop, Last
    <2>6. Chunk.result = "eof"
      BY <1>1, <2>2 DEF Chunk
    <2>7. EndOfFile
      BY <2>5, <2>6, EofReads
    <2>8. /\ EnterPlaying(actor) /\ UNCHANGED server /\ CloseFile
          /\ UNCHANGED <<diskVars, account, on_actor_id>>
      BY <2>5, <2>7 DEF EndOfFile
    <2>9. actor.name = str_capitalize(c) /\ actor.location_id = StartLocation /\ actor.room = NULL
      BY <1>1, <2>4, AllRead DEF Made
    <2>10. Entering(actor, c)
      BY <2>4, <2>8, <2>9 DEF Entering
    <2> QED BY <2>8, <2>10 DEF CloseFile
  <1> QED BY <1>1, <1>2, <1>3, <1>4, BuildOn, Zenon

LEMMA NothingStep ==
    ASSUME StorageInv, Reads, NothingReading
    PROVE  /\ readers' = <<>> /\ UNCHANGED <<diskVars, server, account, world>>
           /\ answer' = "error"
  <1>1. Reader = "character" /\ Head(readers) = "character" /\ ~(Len(readers) > 1)
    BY DEF Reader, NothingReading, CharacterTop, Last
  <1>2. Chunk.result = "eof"
    <2>1. PICK f : f = file /\ f \in Seq(Tokens) /\ Len(f) = 0
      <3>1. file = <<>>
        BY DEF NothingReading
      <3>2. Len(<<>>) = 0 /\ <<>> \in Seq(Tokens)
        OBVIOUS
      <3> QED BY <3>1, <3>2, Zenon
    <2>2. file_chunk_read(f, Len(f) + 1).result = "eof"
      BY <2>1, NothingLeft
    <2>3. Len(f) + 1 = 1
      BY <2>1
    <2> QED BY <2>1, <2>2, <2>3, Zenon DEF Chunk, NothingReading
  <1>3. EndOfFile
    BY <1>1, <1>2, EofReads
  <1>4. EnterPlaying(NULL) /\ UNCHANGED server /\ CloseFile /\ UNCHANGED <<diskVars, account, on_actor_id>>
    BY <1>1, <1>3 DEF EndOfFile, NothingReading
  <1> QED BY <1>4 DEF CloseFile, EnterPlaying, CharacterValid

-----------------------------------------------------------------------------
(* What holds while rooms are loaded and characters played.                  *)

\* player_validate_name admits no capitals; the prompt asks for a-z only.
LowerTyped == \A n \in TypedNames : str_to_lower(n) = n

\* The file of each character that is listed is there; only a name typed with a
\* capital can find it cut off.
FilesMade ==
    \A n \in Listed : \E c \in Name :
        /\ str_to_lower(c) = n
        /\ CharacterText(pcs[n], c) \/ (pcs[n] = <<>> /\ ~LowerTyped)

HasPlace == \E k \in 1 .. Len(disk.parts) : disk.parts[k].room.id = StartLocation

Named ==
    \A k \in Characters :
        world[k].name = str_capitalize(world[k].player) /\ world[k].location_id = StartLocation

NoError == LowerTyped /\ HasPlace => answer # "error"

PlayingOne ==
    \E c \in Name : playing = str_to_lower(c)
                    /\ (CharacterReading(c) \/ (NothingReading /\ ~LowerTyped))

Stage ==
    \/ RoomsReading
    \/ RoomsFirst(disk.parts) /\ (readers = <<>> \/ InAccount \/ PlayingOne)

BootInv ==
    Regular => /\ server \in {"running", "malformed_account", "out_of_ids"}
               /\ FilesMade /\ Named /\ NoError
               /\ server = "running" => Stage

LEMMA HeadKept ==
    ASSUME NEW S, NEW s \in Seq(S), s # <<>>, NEW x \in S
    PROVE  Append(s, x) # <<>> /\ Head(Append(s, x)) = s[1]
  <1>1. PICK n : n = Len(s) /\ n \in Nat /\ n # 0
    OBVIOUS
  <1>2. PICK u : u = Append(s, x)
    OBVIOUS
  <1>3. u \in Seq(S) /\ Len(u) = n + 1 /\ \A k \in 1 .. n : u[k] = s[k]
    BY <1>1, <1>2, AppendedTo
  <1>4. u # <<>> /\ u[1] = s[1]
    BY <1>1, <1>3
  <1>5. Head(u) = u[1]
    BY <1>3, <1>4, EmptyOrFull
  <1> QED BY <1>2, <1>4, <1>5

LEMMA RoomsReadingHead ==
    ASSUME RoomsReading
    PROVE  readers # <<>> /\ Head(readers) = "rooms"
  <1>1. /\ RoomsTop # <<>> /\ RoomsTop[1] = "rooms" /\ RoomsTop \in Seq(Readers) /\ Head(RoomsTop) = "rooms"
        /\ ActorTop # <<>> /\ ActorTop[1] = "rooms" /\ ActorTop \in Seq(Readers) /\ Head(ActorTop) = "rooms"
    BY DEF RoomsTop, ActorTop, Readers
  <1>2. "skip" \in Readers /\ "appearance" \in Readers /\ "room" \in Readers
    BY DEF Readers
  <1>3. \A top \in {RoomsTop, ActorTop} : \A x \in {"skip", "appearance", "room"} :
          Append(top, x) # <<>> /\ Head(Append(top, x)) = "rooms"
    BY <1>1, <1>2, HeadKept
  <1>4. ASSUME NEW part, NEW m, InPart(part, m)
        PROVE  \/ readers \in {RoomsTop, ActorTop}
               \/ \E top \in {RoomsTop, ActorTop} : \E x \in {"skip", "appearance", "room"} : readers = Append(top, x)
    <2>1. BeforePart(part, m) \/ BeforeRoom(part, m) => readers = RoomsTop
      BY DEF BeforePart, BeforeRoom
    <2>2. InBefore(part, m) => readers = Append(RoomsTop, "skip")
      BY DEF InBefore
    <2>3. InInside(part, m) => readers = Append(ActorTop, "skip")
      BY DEF InInside
    <2>4. AtEnd(part, m) => readers = ActorTop
      BY DEF AtEnd
    <2>5. InRoom(part, m) => readers \in {ActorTop, Append(ActorTop, "appearance"), Append(ActorTop, "room")}
      BY DEF InRoom, Building, BuildReaders
    <2> QED BY <1>4, <2>1, <2>2, <2>3, <2>4, <2>5 DEF InPart
  <1>5. \/ readers = RoomsTop
        \/ \E part, m : InPart(part, m)
    <2>1. PICK at, n : Between(at, n) \/ Within(at, n)
      BY DEF RoomsReading
    <2> QED BY <2>1 DEF Between, Within
  <1> QED BY <1>1, <1>3, <1>4, <1>5

\* There are only rooms in the world while they are loaded.
LEMMA RoomsAreNoCharacters ==
    StorageInv /\ Regular /\ RoomsReading => Named
  <1> SUFFICES ASSUME StorageInv, Regular, RoomsReading, NEW k \in Characters
               PROVE  FALSE
    BY DEF Named
  <1>1. PICK n : n \in 0 .. Len(disk.parts) /\ Loaded(n)
    BY DEF RoomsReading
  <1>2. PICK len : len = Len(disk.parts) /\ len \in Nat
    BY RegularParts
  <1>3. k \in 1 .. Len(world) /\ world[k].player # NULL /\ n = Len(world)
    BY <1>1 DEF Characters, Loaded
  <1>4. PICK j : j = n + 1 - k
    OBVIOUS
  <1>5. k \in 1 .. n /\ j \in 1 .. n /\ k + j = n + 1 /\ j \in 1 .. len
    <2>1. n \in 0 .. len /\ k \in 1 .. n
      BY <1>1, <1>2, <1>3
    <2> QED BY <1>2, <1>4, <2>1
  <1>6. world[k] = disk.parts[j].room
    BY <1>1, <1>5 DEF Loaded
  <1>7. disk.parts[j].room.player = NULL
    BY <1>2, <1>5, RegularParts DEF ReadablePart, GoodRoom
  <1> QED BY <1>3, <1>6, <1>7

\* What is behind the characters in the world is not moved by them.
LEMMA RoomsFirstIs ==
    ASSUME NEW parts, NEW c, c = Len(world) - Len(parts), c \in Nat,
           \A k \in 1 .. c : world[k].player # NULL,
           \A k \in 1 .. Len(parts) : world[Len(world) + 1 - k] = parts[k].room
    PROVE  RoomsFirst(parts)
  <1>1. c >= 0
    OBVIOUS
  <1> QED BY <1>1, Zenon DEF RoomsFirst

LEMMA LoadedFirst ==
    ASSUME StorageInv, Regular, Loaded(Len(disk.parts))
    PROVE  RoomsFirst(disk.parts)
  <1>1. PICK len : len = Len(disk.parts) /\ len \in Nat
    BY RegularParts
  <1>2. len = Len(world) /\ \A i, j \in 1 .. len : i + j = len + 1 => world[i] = disk.parts[j].room
    BY <1>1 DEF Loaded
  <1>3. Len(world) - Len(disk.parts) = 0
    BY <1>1, <1>2
  <1>4. ASSUME NEW k \in 1 .. len
        PROVE  world[Len(world) + 1 - k] = disk.parts[k].room
    <2>1. PICK i : i = len + 1 - k
      OBVIOUS
    <2>2. i \in 1 .. len /\ i + k = len + 1
      BY <1>1, <2>1
    <2>3. world[i] = disk.parts[k].room
      BY <1>2, <2>2
    <2> QED BY <1>2, <2>1, <2>3
  <1>5. PICK c : c = Len(world) - Len(disk.parts) /\ c = 0
    BY <1>3
  <1>6. c \in Nat /\ \A k \in 1 .. c : world[k].player # NULL
    BY <1>5
  <1> QED BY <1>1, <1>4, <1>5, <1>6, RoomsFirstIs

\* A character enters the world in front of all the others.
LEMMA CharacterAdded ==
    ASSUME world \in Seq(Actor), Named, NEW parts, Len(parts) \in Nat, RoomsFirst(parts), NEW x,
           world' = <<x>> \o world, x.player # NULL,
           x.name = str_capitalize(x.player), x.location_id = StartLocation
    PROVE  RoomsFirst(parts)' /\ Named'
  <1>1. PICK w, n : w = world /\ n = Len(w) /\ n \in Nat
    OBVIOUS
  <1>2. PICK v : v = world'
    OBVIOUS
  <1>3. /\ Len(v) = n + 1 /\ v[1] = x
        /\ \A i \in 2 .. n + 1 : v[i] = w[i - 1]
    BY <1>1, <1>2, Prepended
  <1>4. \A i \in 1 .. n : v[i + 1] = w[i]
    <2> TAKE i \in 1 .. n
    <2>1. i + 1 \in 2 .. n + 1 /\ (i + 1) - 1 = i
      BY <1>1
    <2> QED BY <1>3, <2>1
  <1>5. PICK p : p = Len(parts) /\ p \in Nat
    OBVIOUS
  <1>6. PICK c : c = n - p
    OBVIOUS
  <1>7. /\ c >= 0 /\ \A i \in 1 .. c : w[i].player # NULL
        /\ \A i \in 1 .. p : w[n + 1 - i] = parts[i].room
    BY <1>1, <1>5, <1>6, Zenon DEF RoomsFirst
  <1>8. PICK d : d = c + 1 /\ d = (n + 1) - p /\ d \in Nat /\ d >= 0
    BY <1>1, <1>5, <1>6, <1>7
  <1>9. ASSUME NEW i \in 1 .. d
        PROVE  v[i].player # NULL
    <2>1. CASE i = 1
      BY <1>3, <2>1
    <2>2. CASE i # 1
      <3>1. PICK j : j = i - 1
        OBVIOUS
      <3>2. j \in 1 .. c /\ j \in 1 .. n /\ i = j + 1
        BY <1>1, <1>5, <1>6, <1>8, <2>2, <3>1
      <3> QED BY <1>4, <1>7, <3>2
    <2> QED BY <2>1, <2>2
  <1>10. ASSUME NEW i \in 1 .. p
         PROVE  v[(n + 1) + 1 - i] = parts[i].room
    <2>1. PICK j : j = n + 1 - i
      OBVIOUS
    <2>2. j \in 1 .. n /\ (n + 1) + 1 - i = j + 1
      BY <1>1, <1>5, <1>6, <1>7, <2>1
    <2> QED BY <1>4, <1>7, <2>1, <2>2
  <1>11. RoomsFirst(parts)'
    <2>1. Len(v) - Len(parts) = d /\ Len(v) = n + 1
      BY <1>3, <1>5, <1>8
    <2> QED BY <1>2, <1>5, <1>8, <1>9, <1>10, <2>1, Zenon DEF RoomsFirst
  <1>12. ASSUME NEW k \in 1 .. n + 1, v[k].player # NULL
         PROVE  v[k].name = str_capitalize(v[k].player) /\ v[k].location_id = StartLocation
    <2>1. CASE k = 1
      BY <1>3, <2>1
    <2>2. CASE k # 1
      <3>1. PICK j : j = k - 1
        OBVIOUS
      <3>2. j \in 1 .. n /\ k = j + 1
        BY <1>1, <2>2, <3>1
      <3>3. v[k] = w[j]
        BY <1>4, <3>2
      <3> QED BY <1>1, <1>12, <3>2, <3>3 DEF Named, Characters
    <2> QED BY <2>1, <2>2
  <1> QED BY <1>2, <1>3, <1>11, <1>12 DEF Named, Characters

\* A character leaves; the rooms stay.
LEMMA CharacterRemoved ==
    ASSUME world \in Seq(Actor), Named, NEW parts, Len(parts) \in Nat, RoomsFirst(parts),
           \A i \in 1 .. Len(parts) : parts[i].room.player = NULL,
           NEW k \in Characters, world' = RemoveAt(world, k)
    PROVE  RoomsFirst(parts)' /\ Named'
  <1>1. PICK w, n : w = world /\ n = Len(w) /\ n \in Nat
    OBVIOUS
  <1>2. PICK v : v = world'
    OBVIOUS
  <1>3. k \in 1 .. n /\ w[k].player # NULL
    BY <1>1 DEF Characters
  <1>4. Len(v) = n - 1 /\ \A i \in 1 .. n - 1 : v[i] = IF i < k THEN w[i] ELSE w[i + 1]
    BY <1>1, <1>2, <1>3, Removed
  <1>5. PICK p : p = Len(parts) /\ p \in Nat
    OBVIOUS
  <1>6. PICK c : c = n - p
    OBVIOUS
  <1>7. /\ c >= 0 /\ \A i \in 1 .. c : w[i].player # NULL
        /\ \A i \in 1 .. p : w[n + 1 - i] = parts[i].room
    BY <1>1, <1>5, <1>6, Zenon DEF RoomsFirst
  <1>8. k \in 1 .. c
    <2>1. CASE ~(k <= c)
      <3>1. PICK i : i = n + 1 - k
        OBVIOUS
      <3>2. i \in 1 .. p /\ n + 1 - i = k
        BY <1>1, <1>3, <1>5, <1>6, <1>7, <2>1, <3>1
      <3>3. w[k] = parts[i].room
        BY <1>7, <3>2
      <3> QED BY <1>3, <1>5, <3>2, <3>3
    <2>2. CASE k <= c
      BY <1>1, <1>3, <1>5, <1>6, <2>2
    <2> QED BY <2>1, <2>2
  <1>9. PICK d : d = c - 1 /\ d = (n - 1) - p /\ d \in Nat /\ d >= 0
    BY <1>1, <1>3, <1>5, <1>6, <1>8
  <1>10. \A i \in 1 .. n - 1 : \E j \in 1 .. n : v[i] = w[j] /\ (i <= d => j <= c) /\ (i > d => j = i + 1)
    <2> TAKE i \in 1 .. n - 1
    <2>1. CASE i < k
      <3>1. i \in 1 .. n /\ i <= c /\ ~(i > d)
        BY <1>1, <1>3, <1>5, <1>6, <1>8, <1>9, <2>1
      <3> QED BY <1>4, <2>1, <3>1
    <2>2. CASE ~(i < k)
      <3>1. PICK j : j = i + 1
        OBVIOUS
      <3>2. j \in 1 .. n /\ (i <= d => j <= c)
        BY <1>1, <1>5, <1>6, <1>9, <3>1
      <3> QED BY <1>4, <2>2, <3>1, <3>2
    <2> QED BY <2>1, <2>2
  <1>11. ASSUME NEW i \in 1 .. d
         PROVE  v[i].player # NULL
    <2>1. i \in 1 .. n - 1 /\ i <= d
      BY <1>1, <1>5, <1>6, <1>9
    <2>2. PICK j \in 1 .. n : v[i] = w[j] /\ j <= c
      BY <1>10, <2>1
    <2>3. j \in 1 .. c
      BY <1>1, <1>5, <1>6, <2>2
    <2> QED BY <1>7, <2>2, <2>3
  <1>12. ASSUME NEW i \in 1 .. p
         PROVE  v[(n - 1) + 1 - i] = parts[i].room
    <2>1. PICK h : h = (n - 1) + 1 - i
      OBVIOUS
    <2>2. h \in 1 .. n - 1 /\ h > d /\ h + 1 = n + 1 - i
      BY <1>1, <1>5, <1>6, <1>7, <1>9, <2>1
    <2>3. v[h] = w[h + 1]
      BY <1>10, <2>2
    <2> QED BY <1>7, <2>1, <2>2, <2>3
  <1>13. RoomsFirst(parts)'
    <2>1. Len(v) - Len(parts) = d /\ Len(v) = n - 1
      BY <1>4, <1>5, <1>9
    <2> QED BY <1>2, <1>5, <1>9, <1>11, <1>12, <2>1, Zenon DEF RoomsFirst
  <1>14. ASSUME NEW i \in 1 .. n - 1, v[i].player # NULL
         PROVE  v[i].name = str_capitalize(v[i].player) /\ v[i].location_id = StartLocation
    <2>1. PICK j \in 1 .. n : v[i] = w[j]
      BY <1>10
    <2> QED BY <1>1, <1>14, <2>1 DEF Named, Characters
  <1> QED BY <1>2, <1>4, <1>13, <1>14 DEF Named, Characters

-----------------------------------------------------------------------------
(* Every step keeps it so.                                                   *)

LEMMA FilesKept ==
    ASSUME FilesMade, pcs' = pcs, Listed' \subseteq Listed
    PROVE  FilesMade'
  BY DEF FilesMade

LEMMA ReadsRunning ==
    ASSUME Reads
    PROVE  server = "running"
  <1>1. ReadRooms \/ CharacterRejected \/ EndOfFile \/ NoColon \/ ReadAccount => server = "running"
    BY DEF ReadRooms, LoadRoom, SkipTopLevel, RoomActorEnds, CharacterRejected, EndOfFile, NoColon,
           ReadAccount, AccountField, AccountEnds, GotSection, Got, Reading
  <1>2. ReadActor => server = "running"
    BY DEF ReadActor, ActorId, GotId, OutOfIds, ActorField, ActorSection, ActorStrayEnd, WithActor,
           NeedsActor, GotSection, Got, Reading
  <1>3. ReadPart => server = "running"
    BY DEF ReadPart, AppearanceEnds, AppearanceField, RoomEnds, RoomExit, PassOver, SkipEnds,
           SkipChunk, GotSection, Got, Reading
  <1> QED BY <1>1, <1>2, <1>3 DEF Reads

\* The file of an account has a colon in every field.
LEMMA AccountReads ==
    ASSUME StorageInv, ListInv, disk.sound, InAccount, Reads
    PROVE  ReadAccount
  <1>1. Reader = "account" /\ server = "running"
    BY ReadsRunning DEF InAccount, Reader
  <1>2. BeingRead
    BY <1>1 DEF ListInv
  <1>3. Chunk.result # "no_colon"
    <2>1. CASE file = <<>>
      <3>1. PICK f : f = file /\ f \in Seq(Tokens) /\ Len(f) = 0
        <4>1. Len(<<>>) = 0 /\ <<>> \in Seq(Tokens)
          OBVIOUS
        <4> QED BY <2>1, <4>1, Zenon
      <3>2. file_chunk_read(f, Len(f) + 1).result = "eof" /\ Len(f) + 1 = 1
        <4>1. file_chunk_read(f, Len(f) + 1).result = "eof"
          BY <3>1, NothingLeft
        <4>2. Len(f) + 1 = 1
          BY <3>1
        <4> QED BY <4>1, <4>2
      <3>3. pos = 1
        BY <1>2, <2>1 DEF BeingRead
      <3>4. Chunk.result = "eof"
        BY <3>1, <3>2, <3>3, Zenon DEF Chunk
      <3> QED BY <3>4
    <2>2. CASE file # <<>>
      <3>1. PICK list : Roster(list, created) /\ file = account_save(AccountOf(list)) /\ ReadUpTo(list)
        BY <1>2, <2>2 DEF BeingRead
      <3>2. /\ FieldAt(file, 0, "username", <<"ann">>)
            /\ FieldAt(file, 5, "password_hash", <<"$6$">>)
            /\ FieldAt(file, 10, "character_names", list)
            /\ file_chunk_read(file, Len(list) + 15).result = "eof"
        BY <3>1, AccountFileRead
      <3>3. CASE pos = 1
        BY <3>2, <3>3 DEF FieldAt, Chunk, Read
      <3>4. CASE pos = 6
        BY <3>2, <3>4 DEF FieldAt, Chunk, Read
      <3>5. CASE pos = 11
        BY <3>2, <3>5 DEF FieldAt, Chunk, Read
      <3>6. CASE pos = Len(list) + 15
        <4>1. Chunk.result = "eof"
          BY <3>2, <3>6 DEF Chunk
        <4> QED BY <4>1
      <3> QED BY <3>1, <3>3, <3>4, <3>5, <3>6 DEF ReadUpTo
    <2> QED BY <2>1, <2>2
  <1>4. /\ ~NoColon /\ ~EndOfFile /\ ~CharacterRejected /\ ~RoomActorEnds
        /\ ~LoadRoom /\ ~SkipTopLevel /\ ~SkipEnds /\ ~SkipChunk
    BY <1>1, <1>3, RoomsGuards
  <1>5. ~ReadActor
    BY <1>1, ActorGuards DEF ActorReaders
  <1>6. ~ReadPart
    BY <1>1, <1>4, PartGuards DEF ReadPart
  <1> QED BY <1>4, <1>5, <1>6 DEF Reads, ReadRooms

\* What is left of BootInv when the world, the answers and the files stay.
LEMMA BootKept ==
    ASSUME StorageInv, Regular, BootInv, UNCHANGED <<diskVars, world, answer>>, Listed' \subseteq Listed,
           server' \in {"running", "malformed_account", "out_of_ids"},
           server' = "running" => Stage'
    PROVE  BootInv'
  <1>1. FilesMade /\ Named /\ NoError /\ disk' = disk /\ pcs' = pcs
    BY DEF BootInv, diskVars
  <1>2. FilesMade'
    BY <1>1, FilesKept
  <1>3. Named' /\ NoError'
    BY <1>1 DEF Named, Characters, NoError, HasPlace
  <1> QED BY <1>2, <1>3 DEF BootInv

\* While a file is read the account lists the same characters.
LEMMA ListedReading ==
    ASSUME StorageInv, readers # <<>>, UNCHANGED diskVars
    PROVE  Listed = created /\ Listed' = created'
  <1>1. saving = "none" /\ saving' = "none"
    BY DEF StorageInv, SavingOK, diskVars
  <1> QED BY <1>1 DEF Listed

LEMMA BootAccount ==
    ASSUME StorageInv, ListInv, BootInv, Regular, RoomsFirst(disk.parts), InAccount, Reads
    PROVE  BootInv'
  <1>1. ReadAccount
    BY AccountReads DEF Regular
  <1>2. readers # <<>> /\ server = "running"
    BY ReadsRunning DEF InAccount
  <1>3. UNCHANGED <<diskVars, world, answer>>
    BY <1>1 DEF ReadAccount, AccountField, AccountEnds
  <1>4. Listed' \subseteq Listed
    BY <1>2, <1>3, ListedReading DEF diskVars
  <1>5. disk' = disk /\ RoomsFirst(disk.parts)'
    BY <1>3 DEF RoomsFirst, diskVars
  <1>6. CASE AccountField
    <2>1. readers' = readers /\ server' = server
      BY <1>6 DEF AccountField, Continue
    <2>2. InAccount'
      BY <2>1 DEF InAccount
    <2> QED BY <1>2, <1>3, <1>4, <1>5, <2>1, <2>2, BootKept DEF Stage
  <1>7. CASE AccountEnds
    <2>1. readers' = <<>> /\ server' \in {"running", "malformed_account"}
      BY <1>7 DEF AccountEnds, AccountRead, CloseFile
    <2> QED BY <1>3, <1>4, <1>5, <2>1, BootKept DEF Stage
  <1> QED BY <1>1, <1>6, <1>7 DEF ReadAccount

\* The server stops for want of an id.
LEMMA BootFails ==
    ASSUME StorageInv, BootInv, Regular, Fail("out_of_ids")
    PROVE  BootInv'
  <1>1. UNCHANGED <<diskVars, actor, world, answer>> /\ server' = "out_of_ids"
    BY DEF Fail
  <1>2. Listed' = Listed
    BY <1>1 DEF Listed, diskVars
  <1> QED BY <1>1, <1>2, BootKept

LEMMA BootRooms ==
    ASSUME StorageInv, StorageInv', BootInv, Regular, RoomsReading, Reads
    PROVE  BootInv'
  <1>1. readers # <<>> /\ server = "running"
    BY RoomsReadingHead, ReadsRunning
  <1>2. CASE RoomsReading' /\ UNCHANGED <<diskVars, server, account, answer>>
    <2>1. Regular'
      BY <1>2 DEF Regular, NoNesting, diskVars
    <2>2. Named'
      BY <1>2, <2>1, RoomsAreNoCharacters, PTL
    <2>3. FilesMade'
      <3>1. FilesMade /\ pcs' = pcs /\ Listed' \subseteq Listed
        BY <1>1, <1>2, ListedReading DEF BootInv, diskVars
      <3> QED BY <3>1, FilesKept
    <2>4. NoError'
      BY <1>2 DEF BootInv, NoError, HasPlace, diskVars
    <2> QED BY <1>1, <1>2, <2>2, <2>3, <2>4 DEF BootInv, Stage
  <1>3. CASE /\ readers' = <<>> /\ Loaded(Len(disk.parts))
             /\ UNCHANGED <<diskVars, server, account, answer, world>>
    <2>1. RoomsFirst(disk.parts) /\ disk' = disk
      BY <1>3, LoadedFirst DEF diskVars
    <2>2. RoomsFirst(disk.parts)'
      BY <1>3, <2>1 DEF RoomsFirst
    <2>3. Listed' \subseteq Listed
      BY <1>1, <1>3, ListedReading DEF diskVars
    <2> QED BY <1>1, <1>3, <2>2, <2>3, BootKept DEF Stage
  <1> QED BY <1>2, <1>3, BootFails, RoomsStep, Zenon

LEMMA PlaceIsFound ==
    ASSUME world \in Seq(Actor), Len(disk.parts) \in Nat, RoomsFirst(disk.parts), HasPlace,
           NEW r, r.location_id = StartLocation
    PROVE  LocationFound(r)
  <1>1. /\ Len(world) \in Nat /\ Len(disk.parts) \in Nat
    OBVIOUS
  <1>2. PICK n, p : n = Len(world) /\ p = Len(disk.parts)
    OBVIOUS
  <1>3. n - p >= 0 /\ \A k \in 1 .. p : world[n + 1 - k] = disk.parts[k].room
    BY <1>2, Zenon DEF RoomsFirst
  <1>4. PICK k : k \in 1 .. p /\ disk.parts[k].room.id = StartLocation
    BY <1>2 DEF HasPlace
  <1>5. PICK i : i = n + 1 - k
    OBVIOUS
  <1>6. i \in 1 .. n
    BY <1>2, <1>1, <1>3, <1>4, <1>5
  <1>7. world[i].id = StartLocation
    BY <1>3, <1>4, <1>5
  <1> QED BY <1>2, <1>6, <1>7 DEF LocationFound

LEMMA BootEnters ==
    ASSUME StorageInv, BootInv, Regular, RoomsFirst(disk.parts), NEW c \in Name, playing = str_to_lower(c),
           NEW r, Entering(r, c), readers # <<>>, server = "running",
           readers' = <<>>, UNCHANGED <<diskVars, server, account>>
    PROVE  BootInv'
  <1>1. /\ EnterPlaying(r) /\ r \in Actor
        /\ r.name = str_capitalize(c) /\ r.location_id = StartLocation
    BY DEF Entering
  <1>2. r # NULL /\ r.name # NULL /\ playing # NULL
    <2>1. r.name \in Name /\ playing \in Name
      BY <1>1, CapitalString, LowerString
    <2> QED BY <1>1, <2>1, TextOf, NullAssumption
  <1>3. CharacterValid(r)
    <2>1. Persistent(r.location_id)
      BY <1>1, StorageAssumption DEF Persistent
    <2> QED BY <1>2, <2>1 DEF CharacterValid
  <1>4. FilesMade' /\ disk' = disk /\ Len(disk.parts) \in Nat
    <2>1. FilesMade /\ pcs' = pcs /\ Listed' \subseteq Listed
      BY ListedReading DEF BootInv, diskVars
    <2> QED BY <2>1, FilesKept, RegularParts DEF diskVars
  <1>5. Named /\ world \in Seq(Actor)
    BY DEF BootInv, StorageInv, WorldOK
  <1>6. CASE LocationFound(r)
    <2>1. PICK y, x : /\ y = [r EXCEPT !.long_name = r.name, !.player = playing]
                      /\ x = [y EXCEPT !.dead = FALSE]
      OBVIOUS
    <2>2. /\ x.name = r.name /\ x.location_id = r.location_id /\ x.player = playing
      BY <1>1, <2>1 DEF Actor
    <2>3. world' = <<x>> \o world /\ answer' = "entered"
      BY <1>1, <1>3, <1>6, <2>1, Zenon DEF EnterPlaying, AddToWorld
    <2>4. x.player # NULL /\ x.name = str_capitalize(x.player) /\ x.location_id = StartLocation
      BY <1>1, <1>2, <2>2, CapitalOfLower
    <2>5. PICK parts : parts = disk.parts
      OBVIOUS
    <2>6. RoomsFirst(parts)' /\ Named'
      BY <1>4, <1>5, <2>3, <2>4, <2>5, CharacterAdded
    <2>7. RoomsFirst(disk.parts)'
      BY <1>4, <2>5, <2>6
    <2>8. NoError'
      BY <2>3 DEF NoError
    <2> QED BY <1>4, <2>6, <2>7, <2>8 DEF BootInv, Stage
  <1>7. CASE ~LocationFound(r)
    <2>1. world' = world /\ answer' = "error"
      BY <1>1, <1>7 DEF EnterPlaying
    <2>2. ~HasPlace
      BY <1>1, <1>4, <1>5, <1>7, PlaceIsFound
    <2>3. NoError'
      BY <1>4, <2>2 DEF NoError, HasPlace
    <2>4. Named'
      BY <1>5, <2>1 DEF Named, Characters
    <2>5. RoomsFirst(disk.parts)'
      BY <1>4, <2>1 DEF RoomsFirst
    <2> QED BY <1>4, <2>3, <2>4, <2>5 DEF BootInv, Stage
  <1> QED BY <1>6, <1>7

LEMMA BootPlaying ==
    ASSUME StorageInv, BootInv, Regular, RoomsFirst(disk.parts), PlayingOne, readers # <<>>, Reads
    PROVE  BootInv'
  <1>1. PICK c \in Name : playing = str_to_lower(c) /\ (CharacterReading(c) \/ (NothingReading /\ ~LowerTyped))
    BY DEF PlayingOne
  <1>2. server = "running"
    BY ReadsRunning
  <1>3. CASE CharacterReading(c)' /\ UNCHANGED <<diskVars, server, account, world, answer>>
    <2>1. PlayingOne'
      BY <1>1, <1>3 DEF PlayingOne, diskVars
    <2>2. RoomsFirst(disk.parts)'
      BY <1>3 DEF RoomsFirst, diskVars
    <2>3. Listed' \subseteq Listed
      BY <1>3, ListedReading DEF diskVars
    <2> QED BY <1>2, <1>3, <2>1, <2>2, <2>3, BootKept DEF Stage
  <1>4. CASE (\E r : Entering(r, c)) /\ readers' = <<>> /\ UNCHANGED <<diskVars, server, account>>
    BY <1>1, <1>2, <1>4, BootEnters
  <1>5. CASE NothingReading /\ ~LowerTyped
    <2>1. /\ readers' = <<>> /\ UNCHANGED <<diskVars, server, account, world>>
          /\ answer' = "error"
      BY <1>5, NothingStep
    <2>2. RoomsFirst(disk.parts)' /\ Named'
      BY <2>1 DEF RoomsFirst, diskVars, BootInv, Named, Characters
    <2>3. NoError'
      BY <1>5 DEF NoError
    <2>4. FilesMade'
      <3>1. FilesMade /\ pcs' = pcs /\ Listed' \subseteq Listed
        BY <2>1, ListedReading DEF BootInv, diskVars
      <3> QED BY <3>1, FilesKept
    <2> QED BY <1>2, <2>1, <2>2, <2>3, <2>4 DEF BootInv, Stage
  <1> QED BY <1>1, <1>3, <1>4, <1>5, BootFails, CharacterStep, Zenon

\* What a client asks for, while the server waits.
LEMMA Waiting ==
    ASSUME StorageInv, BootInv, Regular, Idle
    PROVE  /\ readers = <<>> /\ actor = NULL /\ saving = "none" /\ server = "running"
           /\ Listed = created
           /\ RoomsFirst(disk.parts)
  <1>1. readers = <<>> /\ actor = NULL /\ saving = "none" /\ server = "running"
    BY DEF Idle, StorageInv, SavingOK
  <1>2. Listed = created
    BY <1>1 DEF Listed
  <1>3. RoomsFirst(disk.parts)
    BY <1>1, RoomsReadingHead DEF BootInv, Stage
  <1> QED BY <1>1, <1>2, <1>3

LEMMA BootLogIn ==
    ASSUME StorageInv, BootInv, Regular, LogIn \/ LogOut
    PROVE  BootInv'
  <1>1. Idle /\ UNCHANGED <<diskVars, server, world, answer>>
    BY DEF LogIn, LogOut
  <1>2. /\ readers = <<>> /\ saving = "none" /\ server = "running" /\ Listed = created
        /\ RoomsFirst(disk.parts)
    BY <1>1, Waiting
  <1>3. Listed' \subseteq Listed
    BY <1>1, <1>2 DEF Listed, diskVars
  <1>4. RoomsFirst(disk.parts)'
    BY <1>1, <1>2 DEF RoomsFirst, diskVars
  <1>5. readers' = <<>> \/ InAccount'
    <2>1. readers' \in {<<>>, <<"account">>}
      BY <1>2 DEF LogIn, LogOut
    <2> QED BY <2>1 DEF InAccount, Last
  <1> QED BY <1>1, <1>2, <1>3, <1>4, <1>5, BootKept DEF Stage

LEMMA BootCreateAccount ==
    ASSUME StorageInv, BootInv, Regular, CreateAccount
    PROVE  BootInv'
  <1>1. /\ Idle /\ UNCHANGED <<disk, pcs, created, playing, server, readers, actor, world, answer>>
        /\ saving' = "account"
    BY DEF CreateAccount
  <1>2. /\ readers = <<>> /\ server = "running" /\ Listed = created /\ actor = NULL
        /\ RoomsFirst(disk.parts)
    BY <1>1, Waiting
  <1>3. Listed' \subseteq Listed
    BY <1>1, <1>2 DEF Listed
  <1>4. FilesMade'
    <2>1. FilesMade
      BY DEF BootInv
    <2> QED BY <1>1, <1>3, <2>1, FilesKept
  <1>5. Named' /\ NoError' /\ RoomsFirst(disk.parts)'
    BY <1>1, <1>2 DEF BootInv, Named, Characters, NoError, HasPlace, RoomsFirst
  <1> QED BY <1>1, <1>2, <1>4, <1>5 DEF BootInv, Stage

\* A name that was accepted, in lower case, is not yet on the list.
LEMMA NewName ==
    ASSUME StorageInv, ListInv, disk.sound, Idle, account # NULL, NEW n \in TypedNames, NameAccepted(n),
           LowerTyped
    PROVE  str_to_lower(n) \notin created
  <1>1. server = "running" /\ ~InAccount /\ Listed = created
    BY DEF Idle, InAccount, Listed
  <1>2. PICK list : Roster(list, created) /\ account = AccountOf(list)
    BY <1>1 DEF ListInv, LoggedIn
  <1>3. n \in Name /\ str_to_lower(n) = n
    BY NamesAssumption DEF LowerTyped
  <1>4. ~str_token_contains(list, n)
    BY <1>2 DEF NameAccepted, account_has_character, AccountOf
  <1>5. n \notin created
    BY <1>2, <1>3, <1>4 DEF Roster
  <1> QED BY <1>3, <1>5

LEMMA BootCreateCharacter ==
    ASSUME StorageInv, ListInv, BootInv, Regular, NEW n \in TypedNames, CreateCharacter(n)
    PROVE  BootInv'
  <1>1. Idle /\ account # NULL /\ NameAccepted(n)
    BY DEF CreateCharacter
  <1>2. /\ readers = <<>> /\ server = "running" /\ Listed = created
        /\ RoomsFirst(disk.parts)
    BY <1>1, Waiting
  <1>3. CASE ~IdsLeft
    <2>1. Fail("out_of_ids")
      BY <1>3 DEF CreateCharacter
    <2> QED BY <2>1, BootFails
  <1>4. CASE IdsLeft
    <2>1. /\ pcs' = [pcs EXCEPT ![str_to_lower(n)] = <<>>] /\ saving' = "character"
          /\ UNCHANGED <<disk, created, server, readers, world, answer>>
      BY <1>4 DEF CreateCharacter
    <2>2. Listed' = created
      BY <2>1 DEF Listed
    <2>3. ASSUME NEW m \in created
          PROVE  \E c \in Name : /\ str_to_lower(c) = m
                                 /\ CharacterText(pcs'[m], c) \/ (pcs'[m] = <<>> /\ ~LowerTyped)
      <3>1. PICK c \in Name : /\ str_to_lower(c) = m
                              /\ CharacterText(pcs[m], c) \/ (pcs[m] = <<>> /\ ~LowerTyped)
        BY <1>2, <2>3 DEF BootInv, FilesMade
      <3>2. m \in DOMAIN pcs
        BY <2>3 DEF StorageInv, FilesOK
      <3>3. CASE m = str_to_lower(n)
        <4>1. pcs'[m] = <<>>
          BY <2>1, <3>2, <3>3
        <4>2. ~LowerTyped
          BY <1>1, <2>3, <3>3, NewName DEF Regular
        <4> QED BY <3>1, <4>1, <4>2
      <3>4. CASE m # str_to_lower(n)
        <4>1. pcs'[m] = pcs[m]
          BY <2>1, <3>2, <3>4
        <4> QED BY <3>1, <4>1
      <3> QED BY <3>3, <3>4
    <2>4. FilesMade'
      BY <2>2, <2>3 DEF FilesMade
    <2>5. Named' /\ NoError' /\ RoomsFirst(disk.parts)'
      BY <1>2, <2>1 DEF BootInv, Named, Characters, NoError, HasPlace, RoomsFirst
    <2> QED BY <1>2, <2>1, <2>4, <2>5 DEF BootInv, Stage
  <1> QED BY <1>3, <1>4

LEMMA LowerTwice ==
    ASSUME NEW n \in Name
    PROVE  str_to_lower(str_to_lower(n)) = str_to_lower(n)
  <1>1. PICK low, twice : low = str_to_lower(n) /\ twice = str_to_lower(low)
    OBVIOUS
  <1>2. low \in Seq(DOMAIN Capital) /\ low \in Name /\ Len(low) \in Nat
    BY <1>1, LowerString
  <1>3. twice \in Seq(DOMAIN Capital) /\ Len(twice) = Len(low) /\ \A k \in 1 .. Len(low) : twice[k] = LowerOf(low[k])
    BY <1>1, <1>2, LowerString
  <1>4. \A k \in 1 .. Len(low) : LowerOf(low[k]) = low[k]
    BY <1>2, LowerOfLetter
  <1>5. twice = low
    BY <1>2, <1>3, <1>4
  <1> QED BY <1>1, <1>5

LEMMA BootPlay ==
    ASSUME StorageInv, ListInv, BootInv, Regular, NEW n \in TypedNames, Play(n)
    PROVE  BootInv'
  <1>1. /\ Idle /\ account # NULL /\ account_has_character(account, n)
        /\ playing' = n /\ actor' = NULL
        /\ UNCHANGED <<disk, pcs, saving, created, server, account, world>>
    BY DEF Play
  <1>2. /\ readers = <<>> /\ server = "running" /\ saving = "none" /\ Listed = created
        /\ RoomsFirst(disk.parts)
    BY <1>1, Waiting
  <1>3. PICK low : low = str_to_lower(n)
    OBVIOUS
  <1>4. n \in Name /\ low \in DOMAIN pcs
    BY <1>3, FileOfName DEF StorageInv
  <1>5. n \in created
    <2>1. ~InAccount
      BY <1>2 DEF InAccount
    <2>2. PICK list : Roster(list, created) /\ account = AccountOf(list)
      BY <1>1, <1>2, <2>1 DEF Regular, ListInv, LoggedIn
    <2>3. str_token_contains(list, n)
      BY <1>1, <2>2 DEF account_has_character, AccountOf
    <2> QED BY <1>4, <2>2, <2>3 DEF Roster
  <1>6. PICK c \in Name : /\ str_to_lower(c) = n
                          /\ CharacterText(pcs[n], c) \/ (pcs[n] = <<>> /\ ~LowerTyped)
    BY <1>2, <1>5 DEF BootInv, FilesMade
  <1>7. low = n
    BY <1>3, <1>6, LowerTwice
  <1>8. pcs[n] # NULL
    <2>1. <<>> # NULL
      BY TextOf
    <2> QED BY <1>6, <2>1, CharacterWritten
  <1>9. /\ readers' = CharacterTop /\ file' = pcs[n] /\ pos' = 1 /\ UNCHANGED answer
    BY <1>3, <1>7, <1>8 DEF Play, CharacterTop
  <1>10. CharacterReading(c)' \/ (NothingReading' /\ ~LowerTyped)
    <2>1. CASE CharacterText(pcs[n], c)
      BY <1>1, <1>9, <2>1, ReadingStarts
    <2>2. CASE pcs[n] = <<>> /\ ~LowerTyped
      BY <1>1, <1>9, <2>2 DEF NothingReading
    <2> QED BY <1>6, <2>1, <2>2
  <1>11. PlayingOne'
    BY <1>1, <1>6, <1>10 DEF PlayingOne
  <1>12. FilesMade'
    <2>1. FilesMade /\ Listed' \subseteq Listed
      BY <1>1, <1>2 DEF BootInv, Listed
    <2> QED BY <1>1, <2>1, FilesKept
  <1>13. Named' /\ NoError' /\ RoomsFirst(disk.parts)'
    BY <1>1, <1>2, <1>9 DEF BootInv, Named, Characters, NoError, HasPlace, RoomsFirst
  <1> QED BY <1>1, <1>2, <1>11, <1>12, <1>13 DEF BootInv, Stage

LEMMA BootQuit ==
    ASSUME StorageInv, BootInv, Regular, NEW k \in Characters, Quit(k)
    PROVE  BootInv'
  <1>1. /\ Idle /\ UNCHANGED <<diskVars, server, readers, actor, answer>>
        /\ world' = RemoveAt(world, k)
    BY DEF Quit
  <1>2. /\ readers = <<>> /\ server = "running" /\ Listed = created
        /\ RoomsFirst(disk.parts)
    BY <1>1, Waiting
  <1>3. PICK parts : parts = disk.parts
    OBVIOUS
  <1>4. Len(parts) \in Nat /\ \A i \in 1 .. Len(parts) : parts[i].room.player = NULL
    BY <1>3, RegularParts DEF ReadablePart, GoodRoom
  <1>5. world \in Seq(Actor) /\ Named
    BY DEF StorageInv, WorldOK, BootInv
  <1>6. RoomsFirst(parts)' /\ Named'
    BY <1>1, <1>2, <1>3, <1>4, <1>5, CharacterRemoved
  <1>7. RoomsFirst(disk.parts)'
    BY <1>1, <1>3, <1>6 DEF diskVars
  <1>8. FilesMade'
    <2>1. FilesMade /\ pcs' = pcs /\ Listed' \subseteq Listed
      BY <1>1 DEF BootInv, Listed, diskVars
    <2> QED BY <2>1, FilesKept
  <1>9. NoError'
    BY <1>1 DEF BootInv, NoError, HasPlace, diskVars
  <1> QED BY <1>1, <1>2, <1>6, <1>7, <1>8, <1>9 DEF BootInv, Stage

LEMMA BootClient ==
    ASSUME StorageInv, ListInv, BootInv, Regular, Client
    PROVE  BootInv'
  BY BootLogIn, BootCreateAccount, BootCreateCharacter, BootPlay, BootQuit DEF Client

\* What is written while a character is created.
LEMMA BootSave ==
    ASSUME StorageInv, BootInv, Regular, Save
    PROVE  BootInv'
  <1>1. /\ readers = <<>> /\ saving # "none" /\ server = "running"
        /\ UNCHANGED <<disk, server, readers, world, answer>>
    BY DEF Save, SaveCharacter, OpenAccount, SaveAccount, StorageInv, SavingOK
  <1>2. RoomsFirst(disk.parts)
    BY <1>1, RoomsReadingHead DEF BootInv, Stage
  <1>3. Named' /\ NoError' /\ RoomsFirst(disk.parts)'
    BY <1>1, <1>2 DEF BootInv, Named, Characters, NoError, HasPlace, RoomsFirst
  <1>4. FilesMade
    BY DEF BootInv
  <1>5. CASE SaveCharacter
    <2>1. /\ pcs' = [pcs EXCEPT ![str_to_lower(actor.name)] = actor_save(actor)]
          /\ saving = "character" /\ saving' = "account_next" /\ UNCHANGED <<created, actor>>
      BY <1>5 DEF SaveCharacter
    <2>2. actor # NULL
      BY <2>1 DEF StorageInv, SavingOK
    <2>3. PICK n \in TypedNames : Made(actor, n)
      BY <1>1, <2>2 DEF StorageInv, SavingOK
    <2>4. PICK low : low = str_to_lower(n)
      OBVIOUS
    <2>5. n \in Name /\ low \in DOMAIN pcs /\ str_to_lower(actor.name) = low
      BY <2>3, <2>4, FileOfName DEF StorageInv, Made
    <2>6. Listed = created /\ Listed' = created \cup {low}
      BY <2>1, <2>2, <2>5 DEF Listed
    <2>7. CharacterText(pcs'[low], n)
      BY <2>1, <2>3, <2>5 DEF CharacterText
    <2>8. ASSUME NEW m \in Listed'
          PROVE  \E c \in Name : /\ str_to_lower(c) = m
                                 /\ CharacterText(pcs'[m], c) \/ (pcs'[m] = <<>> /\ ~LowerTyped)
      <3>1. CASE m = low
        BY <2>4, <2>5, <2>7, <3>1
      <3>2. CASE m # low
        <4>1. m \in Listed /\ m \in DOMAIN pcs
          BY <2>6, <2>8, <3>2 DEF StorageInv, FilesOK
        <4>2. pcs'[m] = pcs[m]
          BY <2>1, <2>5, <3>2, <4>1
        <4> QED BY <1>4, <4>1, <4>2 DEF FilesMade
      <3> QED BY <3>1, <3>2
    <2>9. FilesMade'
      BY <2>8 DEF FilesMade
    <2> QED BY <1>1, <1>3, <2>9 DEF BootInv, Stage
  <1>6. CASE OpenAccount
    <2>1. pcs' = pcs /\ Listed' \subseteq Listed
      BY <1>6 DEF OpenAccount, Listed
    <2> QED BY <1>1, <1>3, <1>4, <2>1, FilesKept DEF BootInv, Stage
  <1>7. CASE SaveAccount
    <2>1. pcs' = pcs /\ Listed' \subseteq Listed
      BY <1>7 DEF SaveAccount, Listed
    <2> QED BY <1>1, <1>3, <1>4, <2>1, FilesKept DEF BootInv, Stage
  <1> QED BY <1>1, <1>5, <1>6, <1>7 DEF Save

LEMMA EmptyLen == Len(<<>>) = 0
  OBVIOUS

\* The server starts.
Started ==
    /\ disk \in Disks /\ world = <<>> /\ pos = 1
    /\ readers = IF disk.rooms = NULL THEN <<>> ELSE <<"rooms">>
    /\ file = IF disk.rooms = NULL THEN <<>> ELSE disk.rooms

\* room_load_all begins, or there is nothing to load.
LEMMA RoomsBegin == Started /\ Regular => Stage
  <1> SUFFICES ASSUME Started, Regular
               PROVE  Stage
    OBVIOUS
  <1>1. PICK d : d = disk
    OBVIOUS
  <1>2. /\ d.parts = <<>> => d.rooms = NULL
        /\ d.parts # <<>> => d.rooms # NULL /\ \E at : FileAt(d.rooms, d.parts, at)
        /\ d.parts \in Seq(Part)
    BY <1>1, RoomsOnDisk DEF Started, Regular
  <1>3. Len(world) = 0
    BY EmptyLen DEF Started
  <1>4. CASE d.parts = <<>>
    <2>1. readers = <<>>
      BY <1>1, <1>2, <1>4 DEF Started
    <2>2. Len(disk.parts) = 0
      BY <1>1, <1>4, EmptyLen
    <2>3. RoomsFirst(disk.parts)
      <3>1. Len(world) - Len(disk.parts) = 0
        BY <1>3, <2>2
      <3>2. PICK c : c = Len(world) - Len(disk.parts) /\ c = 0
        BY <3>1
      <3>3. c \in Nat /\ \A k \in 1 .. c : world[k].player # NULL
        BY <3>2
      <3>4. \A k \in 1 .. Len(disk.parts) : world[Len(world) + 1 - k] = disk.parts[k].room
        BY <2>2
      <3> QED BY <3>2, <3>3, <3>4, RoomsFirstIs
    <2> QED BY <2>1, <2>3 DEF Stage
  <1>5. CASE d.parts # <<>>
    <2>1. PICK at : FileAt(file, disk.parts, at)
      BY <1>1, <1>2, <1>5 DEF Started
    <2>2. readers = RoomsTop
      BY <1>1, <1>2, <1>5 DEF RoomsTop, Started
    <2>3. Len(disk.parts) \in Nat /\ 0 \in 0 .. Len(disk.parts)
      BY <1>1, <1>2
    <2>4. Loaded(0)
      <3>1. \A i, j \in 1 .. 0 : i + j = 0 + 1 => world[i] = disk.parts[j].room
        OBVIOUS
      <3> QED BY <1>3, <3>1 DEF Loaded
    <2>5. Between(at, 0)
      <3>1. at[1] = 0
        BY <2>1 DEF FileAt
      <3>2. \A k \in 1 .. Len(disk.parts) + 1 : k = 0 + 1 => pos = at[k] + 1
        BY <3>1 DEF Started
      <3> QED BY <2>2, <3>2 DEF Between
    <2>6. RoomsReading
      BY <2>1, <2>3, <2>4, <2>5, Zenon DEF RoomsReading
    <2> QED BY <2>6 DEF Stage
  <1> QED BY <1>4, <1>5

LEMMA BootInit == Init => BootInv
  <1> SUFFICES ASSUME Init, Regular
               PROVE  BootInv
    BY DEF BootInv
  <1>1. /\ server = "running" /\ world = <<>> /\ answer = "none" /\ created = {} /\ saving = "none"
        /\ disk \in Disks
    BY DEF Init
  <1>2. Started
    BY DEF Init, Started
  <1>3. Stage
    BY <1>2, RoomsBegin
  <1>4. FilesMade
    BY <1>1 DEF FilesMade, Listed
  <1>5. Named /\ NoError
    BY <1>1, EmptyLen DEF NoError, Named, Characters
  <1> QED BY <1>1, <1>3, <1>4, <1>5 DEF BootInv

LEMMA BootRestart ==
    ASSUME StorageInv, BootInv, Regular, Restart
    PROVE  BootInv'
  <1>1. /\ server' = "running" /\ world' = <<>> /\ answer' = "none" /\ saving' = "none"
        /\ UNCHANGED <<disk, pcs, created>>
    BY DEF Restart, Boot
  <1>2. Stage'
    <2>1. Started' /\ Regular'
      BY DEF Restart, Boot, Started, Regular, NoNesting, StorageInv, FilesOK
    <2> QED BY <2>1, RoomsBegin, PTL
  <1>3. FilesMade'
    <2>1. FilesMade /\ Listed' = created /\ created \subseteq Listed
      BY <1>1 DEF BootInv, Listed
    <2> QED BY <1>1, <2>1, FilesKept
  <1>4. NoError'
    BY <1>1 DEF NoError
  <1>5. Named'
    BY <1>1, EmptyLen DEF Named, Characters
  <1> QED BY <1>1, <1>2, <1>3, <1>4, <1>5 DEF BootInv

LEMMA StaysInstalled ==
    ASSUME [Next]_vars
    PROVE  disk' = disk
  <1>1. Reads => disk' = disk
    <2>1. ReadRooms \/ CharacterRejected \/ EndOfFile \/ NoColon \/ ReadAccount => disk' = disk
      BY DEF ReadRooms, LoadRoom, SkipTopLevel, RoomActorEnds, CharacterRejected, EndOfFile, NoColon,
             ReadAccount, AccountField, AccountEnds, Fail, Unread, diskVars
    <2>2. ReadActor => disk' = disk
      BY DEF ReadActor, ActorId, OutOfIds, ActorField, ActorSection, ActorStrayEnd, WithActor,
             Fail, Unread, diskVars
    <2>3. ReadPart => disk' = disk
      BY DEF ReadPart, AppearanceEnds, AppearanceField, RoomEnds, RoomExit, PassOver, SkipEnds,
             SkipChunk, Fail, Unread, diskVars
    <2> QED BY <2>1, <2>2, <2>3 DEF Reads
  <1>2. Client => disk' = disk
    BY DEF Client, LogIn, LogOut, CreateAccount, CreateCharacter, Play, Quit, Fail, diskVars
  <1>3. Save \/ Restart \/ UNCHANGED vars => disk' = disk
    BY DEF Save, SaveCharacter, OpenAccount, SaveAccount, Restart, vars, diskVars
  <1> QED BY <1>1, <1>2, <1>3 DEF Next, Reads

LEMMA ReadsFile ==
    ASSUME Reads
    PROVE  readers # <<>>
  <1>1. ReadRooms \/ CharacterRejected \/ EndOfFile \/ NoColon \/ ReadAccount => readers # <<>>
    BY DEF ReadRooms, LoadRoom, SkipTopLevel, RoomActorEnds, CharacterRejected, EndOfFile, NoColon,
           ReadAccount, AccountField, AccountEnds, GotSection, Got, Reading
  <1>2. ReadActor => readers # <<>>
    BY DEF ReadActor, ActorId, GotId, OutOfIds, ActorField, ActorSection, ActorStrayEnd, WithActor,
           NeedsActor, GotSection, Got, Reading
  <1>3. ReadPart => readers # <<>>
    BY DEF ReadPart, AppearanceEnds, AppearanceField, RoomEnds, RoomExit, PassOver, SkipEnds,
           SkipChunk, GotSection, Got, Reading
  <1> QED BY <1>1, <1>2, <1>3 DEF Reads

LEMMA BootStill ==
    ASSUME StorageInv, BootInv, Regular, UNCHANGED vars
    PROVE  BootInv'
  <1>1. UNCHANGED <<diskVars, server, readers, file, pos, actor, account, world, answer>>
    BY DEF vars
  <1>2. Listed' \subseteq Listed
    BY <1>1 DEF Listed, diskVars
  <1>3. Stage => Stage'
    <2> USE <1>1 DEF diskVars
    <2>1. \A top, a, at, i : Building(top, a, at, i)' <=> Building(top, a, at, i)
      BY DEF Building, ActorUpTo
    <2>2. \A part, m : InPart(part, m)' <=> InPart(part, m)
      <3>1. \A part, m : InRoom(part, m)' <=> InRoom(part, m)
        BY <2>1, Zenon DEF InRoom
      <3>2. \A part : RoomRead(part)' <=> RoomRead(part)
        BY DEF RoomRead
      <3>3. \A part, m : /\ InInside(part, m)' <=> InInside(part, m)
                         /\ AtEnd(part, m)' <=> AtEnd(part, m)
        BY <3>2 DEF InInside, AtEnd
      <3>4. \A part, m : /\ BeforePart(part, m)' <=> BeforePart(part, m)
                         /\ BeforeRoom(part, m)' <=> BeforeRoom(part, m)
                         /\ InBefore(part, m)' <=> InBefore(part, m)
        BY DEF BeforePart, BeforeRoom, InBefore
      <3> QED BY <3>1, <3>3, <3>4, Zenon DEF InPart
    <2>3. \A at, n : /\ Within(at, n)' <=> Within(at, n)
                     /\ Between(at, n)' <=> Between(at, n)
                     /\ Loaded(n)' <=> Loaded(n)
                     /\ FileAt(file, disk.parts, at)' <=> FileAt(file, disk.parts, at)
      BY <2>2 DEF Within, Between, Loaded
    <2>4. RoomsReading => RoomsReading'
      BY <2>3 DEF RoomsReading
    <2>5. \A c : CharacterReading(c)' <=> CharacterReading(c)
      BY <2>1 DEF CharacterReading
    <2>6. PlayingOne => PlayingOne'
      BY <2>5 DEF PlayingOne, NothingReading
    <2>7. RoomsFirst(disk.parts) => RoomsFirst(disk.parts)'
      BY DEF RoomsFirst
    <2>8. InAccount => InAccount'
      BY DEF InAccount
    <2> QED BY <2>4, <2>6, <2>7, <2>8 DEF Stage
  <1>4. server' = server /\ server \in {"running", "malformed_account", "out_of_ids"}
        /\ (server = "running" => Stage)
    BY <1>1 DEF BootInv
  <1> QED BY <1>1, <1>2, <1>3, <1>4, BootKept

LEMMA BootNext ==
    ASSUME StorageInv, StorageInv', ListInv, BootInv, [Next]_vars
    PROVE  BootInv'
  <1>1. disk' = disk
    BY StaysInstalled
  <1> SUFFICES ASSUME Regular
               PROVE  BootInv'
    BY <1>1 DEF BootInv, Regular, NoNesting
  <1>2. CASE Restart
    BY <1>2, BootRestart
  <1>3. CASE Reads
    <2>1. server = "running" /\ Stage
      BY <1>3, ReadsRunning DEF BootInv
    <2>2. readers # <<>>
      BY <1>3, ReadsFile
    <2> QED BY <1>3, <2>1, <2>2, BootRooms, BootAccount, BootPlaying DEF Stage
  <1>4. CASE Client
    BY <1>4, BootClient
  <1>5. CASE Save
    BY <1>5, BootSave
  <1>6. CASE UNCHANGED vars
    BY <1>6, BootStill
  <1> QED BY <1>2, <1>3, <1>4, <1>5, <1>6 DEF Next, Reads

LEMMA BootInvariant == Spec => []BootInv
  BY BootInit, BootNext, StorageInvariant, ListInvariant, PTL DEF Spec

\* Whatever rooms rooms.txt describes, among sections that the server does not
\* know as long as these have no sections in them, the world has them all once it
\* is loaded, whole and in their order, with the characters that play before them
\* (room_load_all, actor_load, appearance_read_section, room_read_section,
\* file_chunk_read, world_add_actor, world_remove_actor).
THEOREM RoomsAreLoaded == Spec => [](NoNesting(disk) => RoomsAsMeant)
  <1>1. BootInv => (NoNesting(disk) => RoomsAsMeant)
    <2> SUFFICES ASSUME BootInv, Regular, Booted
                 PROVE  RoomsFirst(disk.parts)
      BY DEF RoomsAsMeant, Regular
    <2>1. server = "running" /\ Stage
      BY DEF Booted, BootInv
    <2>2. ~RoomsReading
      BY RoomsReadingHead DEF Booted
    <2> QED BY <2>1, <2>2 DEF Stage
  <1> QED BY <1>1, BootInvariant, PTL

\* Wherever the server is killed, what it has written and rooms.txt can be read
\* again: it stops for want of an id or over an account that was cut off, and for
\* nothing else (parse_chunk, actor_init_persistent, room_load_all,
\* room_read_section).
THEOREM FilesCanBeRead == Spec => [](NoNesting(disk) => LoadsCleanly)
  <1>1. BootInv => (NoNesting(disk) => LoadsCleanly)
    BY DEF BootInv, Regular, LoadsCleanly
  <1> QED BY <1>1, BootInvariant, PTL

\* When names are typed without capitals, as the prompt asks for, a character that
\* an account lists enters the world under its name and in the place where it was
\* created, whatever was written or killed before (player_create_character,
\* account_add_character, player_load_character, player_state_enter_playing).
THEOREM ListedCharactersPlay ==
    ASSUME \A n \in TypedNames : str_to_lower(n) = n
    PROVE  Spec => [](NoNesting(disk) => ListedCharacterPlays)
  <1>1. BootInv => (NoNesting(disk) => ListedCharacterPlays)
    <2>1. LowerTyped
      BY DEF LowerTyped
    <2> QED BY <2>1 DEF BootInv, Regular, NoError, HasPlace, Named, ListedCharacterPlays
  <1> QED BY <1>1, BootInvariant, PTL
=============================================================================
