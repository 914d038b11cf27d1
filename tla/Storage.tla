------------------------------- MODULE Storage -------------------------------
(***************************************************************************)
(* What the server writes to its files and reads back: rooms.txt when it    *)
(* starts, an account when its owner logs in, a character when it is        *)
(* created and when it is played.                                           *)
(*                                                                          *)
(* The server reads a file one chunk at a time.  `readers` is the stack of  *)
(* functions that do so, the innermost last:                                *)
(*                                                                          *)
(*   "rooms"       room_load_all             "account"  account_load        *)
(*   "room_actor"  actor_load(r, "room")     "skip"     file_chunk_skip_... *)
(*   "character"   actor_load(r, NULL)       "room"     room_read_section   *)
(*                 "appearance"  appearance_read_section                    *)
(*                                                                          *)
(* One account is logged in to, by one client.  A file is written by        *)
(* fopen, which empties it, and fclose, which writes what stdio holds; the  *)
(* process may be killed at any time and starts again.                      *)
(***************************************************************************)
EXTENDS ChunkFile

CONSTANTS
    MAX_PERSISTENT_ACTOR_ID, MAX_ACTOR_ID,
    INVALID_ACTOR_ID,
    StartLocation,     \* g_config.start_location_id
    Numeral,           \* the decimal digits of the numbers 1 .. MAX_ACTOR_ID
    Capital,           \* [lower case letters -> capitals]
    TypedNames,        \* names that player_validate_name admits
    MAX_CHARACTERS,    \* bound on the characters in the world at a time
    Disks,             \* what the server may find when it is installed: rooms.txt,
                       \* a .acct file, .pchar files, the parts that rooms.txt
                       \* consists of, and whether it is written the way the server
                       \* writes, with no account yet
    NULL

Tokens == STRING
Text == Seq(Tokens)

ASSUME StorageAssumption ==
    /\ MAX_PERSISTENT_ACTOR_ID \in Nat /\ MAX_ACTOR_ID \in Nat
    /\ INVALID_ACTOR_ID = 0
    /\ StartLocation \in 1 .. MAX_PERSISTENT_ACTOR_ID
    /\ MAX_PERSISTENT_ACTOR_ID + 1 < MAX_ACTOR_ID
    /\ Numeral \in Seq(Tokens) /\ Len(Numeral) = MAX_ACTOR_ID

VARIABLES
    server,         \* "running", or what ended the process
    disk,           \* what the server found when it was installed
    account_file,   \* the .acct file; NULL when there is none
    pcs,            \* the .pchar files, by lower case name; NULL when there is none
    saving,         \* the write that is under way, or "none"
    readers, file, pos,
    actor,          \* the actor that actor_load builds, or NULL
    playing,        \* the name given to player_load_character
    account,        \* the account of the client; NULL when it is logged out
    on_actor_id,
    world,          \* world_actors, the latest first
    answer,         \* what `play` answered last
    created         \* characters whose creation was reported to the client

\* What reading a file leaves alone.
diskVars == <<disk, account_file, pcs, saving, created, playing>>
vars == <<diskVars, server, readers, file, pos, actor, account, on_actor_id, world, answer>>

ActorIDs == 0 .. MAX_ACTOR_ID
Directions == <<"north", "south", "east", "west", "up", "down">>
TextOrNull == Text \cup {NULL}
Exit == [to_room: ActorIDs, closed: BOOLEAN, keyword: TextOrNull]
Room == [1 .. Len(Directions) -> Exit \cup {NULL}]

\* The Actor struct.  player: the name of the character that a player controls.
Actor == [id: ActorIDs, location_id: ActorIDs, dead: BOOLEAN,
          name: TextOrNull, long_name: TextOrNull, description: TextOrNull,
          room: Room \cup {NULL}, player: TextOrNull]

Account == [username: Text, password_hash: TextOrNull, character_names: Text]

\* How the process can end: the CHECK for a colon, of actor_init_persistent, of
\* world_add_actor and of account_load; log_fatal for want of an id; an exit
\* stored outside of its array.
Failures == {"no_colon", "actor_id", "no_location", "malformed_account",
             "out_of_ids", "undefined"}

Readers == {"rooms", "room_actor", "character", "appearance", "room", "skip", "account"}

TypeOK ==
    /\ server \in {"running"} \cup Failures
    /\ disk \in Disks
    /\ account_file \in TextOrNull
    /\ \A n \in DOMAIN pcs : pcs[n] \in TextOrNull
    /\ saving \in {"none", "character", "account_next", "account"}
    /\ readers \in Seq(Readers) /\ file \in Text /\ pos \in Nat
    /\ actor \in Actor \cup {NULL}
    /\ playing \in TextOrNull
    /\ account \in Account \cup {NULL}
    /\ on_actor_id \in ActorIDs
    /\ world \in Seq(Actor)
    /\ answer \in {"none", "entered", "error"}
    /\ created \subseteq DOMAIN pcs

-----------------------------------------------------------------------------
(* Strings: str_to_lower, str_capitalize, %u, atoi. *)

LowerOf(letter) ==
    IF \E c \in DOMAIN Capital : Capital[c] = letter
    THEN CHOOSE c \in DOMAIN Capital : Capital[c] = letter ELSE letter

str_to_lower(s) == [k \in 1 .. Len(s) |-> LowerOf(s[k])]

str_capitalize(s) ==
    [k \in 1 .. Len(s) |-> IF k = 1 /\ LowerOf(s[1]) \in DOMAIN Capital
                           THEN Capital[LowerOf(s[1])] ELSE LowerOf(s[k])]

\* A string that does not begin with a number is 0.
atoi(s) ==
    IF s # <<>> /\ \E n \in DOMAIN Numeral : Numeral[n] = Head(s)
    THEN CHOOSE n \in DOMAIN Numeral : Numeral[n] = Head(s) ELSE 0

Letters == DOMAIN Capital \cup { Capital[c] : c \in DOMAIN Capital }

\* player_validate_name, but for the lengths it admits.
Name == Seq(Letters) \ {<<>>}

ASSUME NamesAssumption ==
    /\ \A c \in DOMAIN Capital : c \in Tokens /\ Capital[c] \in Tokens \ DOMAIN Capital
    /\ \A c, d \in DOMAIN Capital : Capital[c] = Capital[d] => c = d
    /\ Letters \cap (Whitespace \cup {"#", ":", "~"}) = {}
    /\ TypedNames \subseteq Name

ASSUME NumeralAssumption ==
    \A m, n \in DOMAIN Numeral : /\ Plain(Numeral[m])
                                 /\ Numeral[m] = Numeral[n] => m = n

\* The tokens that the server writes.
Words == {"id", "location_id", "dead", "true", "false", "appearance", "name", "long_name",
          "description", "room", "exit", "username", "password_hash", "character_names",
          "ann", "$6$", "end", " ", "\n", "#", ":", "~"} \cup Range(Directions)

ASSUME WordsAssumption == Words \subseteq Tokens

ASSUME NullAssumption == NULL \notin Text \cup Actor \cup Account

-----------------------------------------------------------------------------
(* actor.c: ids. *)

\* Leaves location_id as it was in memory.
actor_init_internal_unset ==
    [id |-> INVALID_ACTOR_ID, location_id |-> NULL, dead |-> TRUE,
     name |-> NULL, long_name |-> NULL, description |-> NULL, room |-> NULL,
     player |-> NULL]

\* actor_init_internal; NULL stands for the pointers it clears.
actor_init_internal ==
    [id |-> INVALID_ACTOR_ID, location_id |-> INVALID_ACTOR_ID, dead |-> TRUE,
     name |-> NULL, long_name |-> NULL, description |-> NULL, room |-> NULL,
     player |-> NULL]

\* An id is given out without a look at the limit.
IdsLeft_unchecked == on_actor_id <= MAX_ACTOR_ID

\* actor_init_internal gets past its log_fatal.
IdsLeft == on_actor_id # MAX_ACTOR_ID

\* on_actor_id++, of 32 bits.
NextId == (on_actor_id + 1) % (MAX_ACTOR_ID + 1)

actor_init == [actor_init_internal EXCEPT !.id = on_actor_id]

actor_init_persistent(id) == [actor_init_internal EXCEPT !.id = id]

Persistent(id) == id <= MAX_PERSISTENT_ACTOR_ID /\ id # INVALID_ACTOR_ID

-----------------------------------------------------------------------------
(* What is written: appearance.c, room.c, actor.c, account.c.               *)

FieldUnless(absent, tag, value) ==
    IF absent THEN <<>> ELSE file_chunk_write_field(tag, value)

appearance_write_section(a) ==
    file_chunk_write_section_start("appearance")
      \o FieldUnless(a.name = NULL, "name", a.name)
      \o FieldUnless(a.long_name = NULL, "long_name", a.long_name)
      \o FieldUnless(a.description = NULL, "description", a.description)
      \o file_chunk_write_section_end("appearance")

\* "direction to_room closed keyword"
ExitArgs(dir, exit) ==
    <<Directions[dir], " ", Numeral[exit.to_room], " ", IF exit.closed THEN "true" ELSE "false">>
      \o (IF exit.keyword = NULL THEN <<>> ELSE <<" ">> \o exit.keyword)

room_write_section(room) ==
    file_chunk_write_section_start("room")
      \o FlattenSeq([dir \in 1 .. Len(Directions) |->
            IF room[dir] = NULL THEN <<>>
            ELSE file_chunk_write_section_inline("exit", ExitArgs(dir, room[dir]))])
      \o file_chunk_write_section_end("room")

\* Writes the id of every actor.
actor_save_ids(a) ==
    FieldUnless(a.id = INVALID_ACTOR_ID, "id", <<Numeral[a.id]>>)
      \o FieldUnless(a.location_id = INVALID_ACTOR_ID, "location_id", <<Numeral[a.location_id]>>)
      \o FieldUnless(~a.dead, "dead", <<"true">>)
      \o appearance_write_section(a)
      \o (IF a.room = NULL THEN <<>> ELSE room_write_section(a.room))

\* The section that may enclose the text is the caller's.
actor_save(a) ==
    FieldUnless(~Persistent(a.id), "id", <<Numeral[a.id]>>)
      \o FieldUnless(a.location_id = INVALID_ACTOR_ID, "location_id", <<Numeral[a.location_id]>>)
      \o FieldUnless(~a.dead, "dead", <<"true">>)
      \o appearance_write_section(a)
      \o (IF a.room = NULL THEN <<>> ELSE room_write_section(a.room))

account_save(acct) ==
    file_chunk_write_field("username", acct.username)
      \o file_chunk_write_field("password_hash", acct.password_hash)
      \o file_chunk_write_field("character_names", acct.character_names)

account_has_character(acct, name) == str_token_contains(acct.character_names, name)

account_add_character(acct, name) ==
    [acct EXCEPT !.character_names = str_to_lower(IF @ = <<>> THEN name ELSE @ \o <<" ">> \o name)]

-----------------------------------------------------------------------------
(* rooms.txt: rooms, and sections of a later version among them.            *)

Field == [tag: Tokens, value: Text]
Note == [tag: Tokens, fields: Seq(Field), inner: Text]

\* What stands before a room, the room, what follows the sections of the actor in
\* it, and a blank line or none.
Part == [before: Note \cup {NULL}, room: Actor, inside: Note \cup {NULL}, blank: {<<>>, <<"\n">>}]

NoteText(note) ==
    IF note = NULL THEN <<>>
    ELSE file_chunk_write_section_start(note.tag)
           \o FlattenSeq([k \in 1 .. Len(note.fields) |->
                 file_chunk_write_field(note.fields[k].tag, note.fields[k].value)])
           \o note.inner
           \o file_chunk_write_section_end(note.tag)

PartText(part) ==
    NoteText(part.before)
      \o file_chunk_write_section_start("room")
      \o actor_save(part.room) \o NoteText(part.inside)
      \o (file_chunk_write_section_end("room") \o part.blank)

RoomsText(parts) == FlattenSeq([k \in 1 .. Len(parts) |-> PartText(parts[k])])

\* Values that can be written, and the keyword of an exit, which ends with the line.
Readable(value) == Trimmed(value) /\ \A k \in 1 .. Len(value) : value[k] # "~"
ReadableKeyword(word) ==
    word # <<>> /\ Readable(word) /\ \A k \in 1 .. Len(word) : word[k] \notin Newlines

ReadableExit(exit) ==
    exit.to_room # INVALID_ACTOR_ID /\ (exit.keyword # NULL => ReadableKeyword(exit.keyword))

\* An actor whose texts are read back as they were written.
ReadableActor(a) ==
    /\ \A text \in {a.name, a.long_name, a.description} : text # NULL => Readable(text)
    /\ a.room # NULL =>
         \A dir \in 1 .. Len(Directions) : a.room[dir] # NULL => ReadableExit(a.room[dir])

\* A section that is skipped where a section with one of the tags is read.
Skippable(note, tags) ==
    /\ Plain(note.tag) /\ <<note.tag>> \notin tags \cup {<<"end">>}
    /\ \A k \in 1 .. Len(note.fields) :
         Plain(note.fields[k].tag) /\ Readable(note.fields[k].value)

\* A room that the server saved, in a place above it in the file, if in any.
SavedRoom(parts, k) ==
    LET room == parts[k].room IN
    /\ Persistent(room.id) /\ ~room.dead /\ room.player = NULL /\ ReadableActor(room)
    /\ room.location_id # INVALID_ACTOR_ID =>
         \E j \in 1 .. k - 1 : parts[j].room.id = room.location_id

ASSUME DisksAssumption ==
    \A d \in Disks :
        /\ {d.rooms, d.account} \cup { d.pcs[n] : n \in DOMAIN d.pcs } \subseteq TextOrNull
        /\ { str_to_lower(n) : n \in TypedNames } \subseteq DOMAIN d.pcs
        /\ d.sound => /\ d.account = NULL
                      /\ DOMAIN d.pcs \subseteq Name

\* Where rooms.txt is as the server writes it.
ASSUME RoomsAssumption ==
    \A d \in Disks : d.sound =>
        /\ d.parts \in Seq(Part)
        /\ d.rooms = IF d.parts = <<>> THEN NULL ELSE RoomsText(d.parts)
        /\ \A k \in 1 .. Len(d.parts) :
             /\ SavedRoom(d.parts, k)
             /\ d.parts[k].before # NULL => Skippable(d.parts[k].before, {<<"room">>})
             /\ d.parts[k].inside # NULL =>
                  Skippable(d.parts[k].inside, {<<"appearance">>, <<"room">>})

\* The sections among the rooms have no sections in them.
NoNesting(d) ==
    \A k \in 1 .. Len(d.parts) : \A note \in {d.parts[k].before, d.parts[k].inside} :
        note # NULL => note.inner = <<>>

-----------------------------------------------------------------------------
(* The process starts.                                                      *)

\* room_load_all opens rooms.txt, when there is one.
Boot ==
    /\ server' = "running"
    /\ readers' = IF disk.rooms = NULL THEN <<>> ELSE <<"rooms">>
    /\ file' = IF disk.rooms = NULL THEN <<>> ELSE disk.rooms
    /\ pos' = 1
    /\ actor' = NULL /\ playing' = NULL /\ account' = NULL
    /\ saving' = "none"
    /\ on_actor_id' = MAX_PERSISTENT_ACTOR_ID + 1
    /\ world' = <<>>
    /\ answer' = "none"

Init ==
    /\ server = "running"
    /\ disk \in Disks
    /\ account_file = disk.account
    /\ pcs = disk.pcs
    /\ saving = "none"
    /\ readers = IF disk.rooms = NULL THEN <<>> ELSE <<"rooms">>
    /\ file = IF disk.rooms = NULL THEN <<>> ELSE disk.rooms
    /\ pos = 1
    /\ actor = NULL /\ playing = NULL /\ account = NULL
    /\ on_actor_id = MAX_PERSISTENT_ACTOR_ID + 1
    /\ world = <<>>
    /\ answer = "none"
    /\ created = {}

\* The process is killed, or has ended, and is started again.
Restart ==
    /\ Boot
    /\ UNCHANGED <<disk, account_file, pcs, created>>

-----------------------------------------------------------------------------
(* Reading: every step is one file_chunk_read and what its caller does.     *)

Chunk == file_chunk_read(file, pos)

Reading(who) == server = "running" /\ readers # <<>> /\ Last(readers) \in who

\* A chunk of the type was read by one of the functions.
Got(who, type) == Reading(who) /\ Chunk.result = "chunk" /\ Chunk.type = type

GotSection(who, type, tag) == Got(who, type) /\ Chunk.tag = <<tag>>

Continue == pos' = Chunk.next /\ UNCHANGED <<file, readers>>
Call(reader) == pos' = Chunk.next /\ readers' = Append(readers, reader) /\ UNCHANGED file
Return == pos' = Chunk.next /\ readers' = Front(readers) /\ UNCHANGED file

Fail(why) ==
    /\ server' = why
    /\ UNCHANGED <<diskVars, readers, file, pos, actor, account, on_actor_id, world, answer>>

\* What every step of a reader but the last leaves alone.
Unread == UNCHANGED <<diskVars, server, account, world, answer>>

\* The CHECK of parse_chunk.
NoColon == Reading(Readers) /\ Chunk.result = "no_colon" /\ Fail("no_colon")

\* room_load_all
LoadRoom ==
    /\ GotSection({"rooms"}, "start", "room")
    /\ Call("room_actor")
    /\ actor' = NULL
    /\ UNCHANGED on_actor_id /\ Unread

SkipTopLevel ==
    /\ Reading({"rooms"}) /\ Chunk.result = "chunk"
    /\ ~GotSection({"rooms"}, "start", "room")
    /\ Call("skip")
    /\ UNCHANGED <<actor, on_actor_id>> /\ Unread

\* The section to skip is named by r->chunk.tag.data, which every chunk that is
\* read overwrites: the next end of any section ends the skipping.
SkipEnds ==
    /\ Got({"skip"}, "end")
    /\ Return
    /\ UNCHANGED <<actor, on_actor_id>> /\ Unread

SkipChunk ==
    /\ Reading({"skip"}) /\ Chunk.result = "chunk" /\ Chunk.type # "end"
    /\ Continue
    /\ UNCHANGED <<actor, on_actor_id>> /\ Unread

-----------------------------------------------------------------------------
(* appearance_read_section and room_read_section                            *)

AppearanceEnds ==
    /\ GotSection({"appearance"}, "end", "appearance")
    /\ Return
    /\ UNCHANGED <<actor, on_actor_id>> /\ Unread

AppearanceField ==
    /\ Got({"appearance"}, "field")
    /\ actor' = CASE Chunk.tag = <<"name">>        -> [actor EXCEPT !.name = Chunk.value]
                  [] Chunk.tag = <<"long_name">>   -> [actor EXCEPT !.long_name = Chunk.value]
                  [] Chunk.tag = <<"description">> -> [actor EXCEPT !.description = Chunk.value]
                  [] OTHER                         -> actor
    /\ Continue
    /\ UNCHANGED on_actor_id /\ Unread

RoomEnds ==
    /\ GotSection({"room"}, "end", "room")
    /\ Return
    /\ UNCHANGED <<actor, on_actor_id>> /\ Unread

\* DIR_COUNT, one more than the last direction, when there is no such.
string_to_direction(word) ==
    Min({ k \in 1 .. Len(Directions) : word = <<Directions[k]>> } \cup {Len(Directions) + 1})

\* A missing word is empty: no room, open.
ParsedExit(args) ==
    LET dir    == str_parse_word(args)
        to     == str_parse_word(dir.rest)
        closed == str_parse_word(to.rest)
    IN  [dir  |-> string_to_direction(dir.word),
         exit |-> [to_room |-> atoi(to.word), closed |-> closed.word = <<"true">>,
                   keyword |-> IF closed.rest = <<>> THEN NULL ELSE closed.rest]]

RoomExit ==
    LET parsed == ParsedExit(Chunk.value) IN
    /\ GotSection({"room"}, "start", "exit")
    /\ IF parsed.dir > Len(Directions) THEN Fail("undefined")
       ELSE /\ actor' = [actor EXCEPT !.room[parsed.dir] = parsed.exit]
            /\ Continue
            /\ UNCHANGED on_actor_id /\ Unread

\* Anything else is passed over, the end of another section too.
PassOver ==
    /\ \/ Reading({"appearance"}) /\ ~GotSection({"appearance"}, "end", "appearance")
          /\ ~Got({"appearance"}, "field")
       \/ Reading({"room"}) /\ ~GotSection({"room"}, "end", "room")
          /\ ~GotSection({"room"}, "start", "exit")
    /\ Chunk.result = "chunk"
    /\ Continue
    /\ UNCHANGED <<actor, on_actor_id>> /\ Unread

-----------------------------------------------------------------------------
(* actor_load, for a room of rooms.txt and for a character.                 *)

ActorReaders == {"room_actor", "character"}

\* The end that belongs to the actor; a character has none and takes any end
\* for a mistake.
ActorDone == GotSection({"room_actor"}, "end", "room") \/ Got({"character"}, "end")

GotId == GotSection(ActorReaders, "field", "id")

\* An id starts the actor again, whatever was read before.
ActorId ==
    /\ GotId
    /\ IF ~Persistent(atoi(Chunk.value)) THEN Fail("actor_id")
       ELSE IF ~IdsLeft THEN Fail("out_of_ids")
       ELSE /\ actor' = actor_init_persistent(atoi(Chunk.value))
            /\ Continue
            /\ UNCHANGED on_actor_id /\ Unread

\* Any other chunk first makes an actor, if there is none yet.
NeedsActor == Reading(ActorReaders) /\ Chunk.result = "chunk" /\ ~ActorDone /\ ~GotId

OutOfIds == NeedsActor /\ actor = NULL /\ ~IdsLeft /\ Fail("out_of_ids")

\* The actor the chunk is for.
WithActor ==
    /\ NeedsActor
    /\ actor = NULL => IdsLeft
    /\ on_actor_id' = IF actor = NULL THEN NextId ELSE on_actor_id
    /\ Unread

ActorAtHand == IF actor = NULL THEN actor_init ELSE actor

ActorField ==
    /\ WithActor /\ Chunk.type = "field"
    /\ actor' =
         CASE Chunk.tag = <<"location_id">> -> [ActorAtHand EXCEPT !.location_id = atoi(Chunk.value)]
           [] Chunk.tag = <<"dead">> -> [ActorAtHand EXCEPT !.dead = (Chunk.value = <<"true">>)]
           [] OTHER -> ActorAtHand
    /\ Continue

NoExits == [dir \in 1 .. Len(Directions) |-> NULL]

ActorSection ==
    /\ WithActor /\ Chunk.type = "start"
    /\ \/ /\ Chunk.tag = <<"appearance">>
          /\ Call("appearance")
          /\ actor' = ActorAtHand
       \/ /\ Chunk.tag = <<"room">>
          /\ Call("room")
          /\ actor' = [ActorAtHand EXCEPT !.room = NoExits]
       \/ /\ Chunk.tag \notin {<<"appearance">>, <<"room">>}
          /\ Call("skip")
          /\ actor' = ActorAtHand

\* The end of a section that does not belong to the actor.
ActorStrayEnd ==
    /\ WithActor /\ Chunk.type = "end"
    /\ actor' = ActorAtHand
    /\ Continue

-----------------------------------------------------------------------------
(* What becomes of the actor that was loaded.                               *)

\* world_add_actor.
AddToWorld(a) == world' = <<[a EXCEPT !.dead = FALSE]>> \o world

LocationFound(a) == \E k \in 1 .. Len(world) : world[k].id = a.location_id

\* room_load_all takes the room, unless the section had nothing in it.
TakeRoom ==
    IF actor = NULL THEN UNCHANGED <<server, world>>
    ELSE IF actor.location_id # INVALID_ACTOR_ID /\ ~LocationFound(actor)
    THEN server' = "no_location" /\ UNCHANGED world
    ELSE AddToWorld(actor) /\ UNCHANGED server

RoomActorEnds ==
    /\ GotSection({"room_actor"}, "end", "room")
    /\ TakeRoom
    /\ Return
    /\ actor' = NULL
    /\ UNCHANGED <<diskVars, account, on_actor_id, answer>>

\* player_load_character accepts the actor.
CharacterValid(a) ==
    /\ a # NULL
    /\ a.name # NULL
    /\ Persistent(a.location_id)

\* player_state_enter_playing, with what actor_load returned.
EnterPlaying(a) ==
    IF CharacterValid(a) /\ LocationFound(a)
    THEN /\ AddToWorld([a EXCEPT !.long_name = a.name, !.player = playing])
         /\ answer' = "entered"
    ELSE /\ answer' = "error"
         /\ UNCHANGED world

CloseFile == readers' = <<>> /\ file' = <<>> /\ pos' = 1 /\ actor' = NULL

CharacterRejected ==
    /\ Got({"character"}, "end")
    /\ EnterPlaying(NULL)
    /\ CloseFile
    /\ UNCHANGED <<diskVars, server, account, on_actor_id>>

\* file_chunk_read returns false in the innermost reader, and then in all the
\* others; actor_load returns the actor as far as it was read.
EndOfFile ==
    /\ Reading(Readers \ {"account"}) /\ Chunk.result = "eof"
    /\ CASE Head(readers) = "character" -> EnterPlaying(actor) /\ UNCHANGED server
         [] Len(readers) > 1 /\ readers[2] = "room_actor" -> TakeRoom /\ UNCHANGED answer
         [] OTHER -> UNCHANGED <<server, world, answer>>
    /\ CloseFile
    /\ UNCHANGED <<diskVars, account, on_actor_id>>

-----------------------------------------------------------------------------
(* account_load                                                             *)

\* The server waits for the client.
Idle == server = "running" /\ readers = <<>> /\ saving = "none"

LogIn ==
    /\ Idle /\ account = NULL /\ account_file # NULL
    /\ readers' = <<"account">> /\ file' = account_file /\ pos' = 1
    /\ account' = [username |-> <<>>, password_hash |-> NULL, character_names |-> <<>>]
    /\ UNCHANGED <<diskVars, server, actor, on_actor_id, world, answer>>

AccountField ==
    /\ Got({"account"}, "field")
    /\ account' =
         CASE Chunk.tag = <<"username">> -> [account EXCEPT !.username = Chunk.value]
           [] Chunk.tag = <<"password_hash">> -> [account EXCEPT !.password_hash = Chunk.value]
           [] Chunk.tag = <<"character_names">> ->
                [account EXCEPT !.character_names = @ \o Chunk.value]
           [] OTHER -> account
    /\ Continue
    /\ UNCHANGED <<diskVars, server, actor, on_actor_id, world, answer>>

\* The CHECKs at the end of account_load.
AccountRead ==
    server' = IF account.username = <<>> \/ account.password_hash = NULL
              THEN "malformed_account" ELSE "running"

\* The first section ends the reading, as the end of the file does.
AccountEnds ==
    /\ Reading({"account"})
    /\ Chunk.result = "eof" \/ (Chunk.result = "chunk" /\ Chunk.type # "field")
    /\ AccountRead
    /\ CloseFile
    /\ UNCHANGED <<diskVars, account, on_actor_id, world, answer>>

-----------------------------------------------------------------------------
(* The client: accounts and characters are created, played and left.        *)

LogOut ==
    /\ Idle /\ account # NULL
    /\ account' = NULL
    /\ UNCHANGED <<diskVars, server, readers, file, pos, actor, on_actor_id, world, answer>>

\* account_save opens the file.
CreateAccount ==
    /\ Idle /\ account = NULL /\ account_file = NULL
    /\ account' = [username |-> <<"ann">>, password_hash |-> <<"$6$">>, character_names |-> <<>>]
    /\ account_file' = <<>> /\ saving' = "account"
    /\ UNCHANGED <<disk, pcs, created, playing, server, readers, file, pos, actor,
                   on_actor_id, world, answer>>

\* handle_character_creation_input takes the name: it is neither on the list of
\* the account nor the name of a file.
NameAccepted(n) ==
    /\ ~account_has_character(account, n)
    /\ n \in DOMAIN pcs => pcs[n] = NULL

\* The actor that player_create_character saves.
NewCharacter(n) ==
    [actor_init EXCEPT !.location_id = StartLocation, !.name = str_capitalize(n)]

\* Saves the account before the character.
CreateCharacter_listed(n) ==
    /\ Idle /\ account # NULL /\ NameAccepted(n) /\ IdsLeft
    /\ on_actor_id' = NextId
    /\ actor' = NewCharacter(n)
    /\ account_file' = account_save(account_add_character(account, n))
    /\ pcs' = [pcs EXCEPT ![str_to_lower(n)] = <<>>]
    /\ saving' = "character"
    /\ UNCHANGED <<disk, created, playing, server, readers, file, pos, account, world, answer>>

\* player_create_character: an id is taken for the actor, the file is opened.
CreateCharacter(n) ==
    /\ Idle /\ account # NULL /\ NameAccepted(n)
    /\ IF ~IdsLeft THEN Fail("out_of_ids")
       ELSE /\ on_actor_id' = NextId
            /\ actor' = NewCharacter(n)
            /\ pcs' = [pcs EXCEPT ![str_to_lower(n)] = <<>>]
            /\ saving' = "character"
            /\ UNCHANGED <<disk, account_file, created, playing, server, readers, file,
                           pos, account, world, answer>>

\* The file is closed; the account lists the character.
SaveCharacter ==
    /\ server = "running" /\ saving = "character"
    /\ pcs' = [pcs EXCEPT ![str_to_lower(actor.name)] = actor_save(actor)]
    /\ account' = account_add_character(account, actor.name)
    /\ saving' = "account_next"
    /\ UNCHANGED <<disk, account_file, created, playing, server, readers, file, pos,
                   actor, on_actor_id, world, answer>>

OpenAccount ==
    /\ server = "running" /\ saving = "account_next"
    /\ account_file' = <<>> /\ saving' = "account"
    /\ UNCHANGED <<disk, pcs, created, playing, server, readers, file, pos, actor,
                   account, on_actor_id, world, answer>>

\* The account is saved, and with it the character just created, if any.
SaveAccount ==
    /\ server = "running" /\ saving = "account"
    /\ account_file' = account_save(account)
    /\ saving' = "none" /\ actor' = NULL
    /\ created' = IF actor = NULL THEN created ELSE created \cup {str_to_lower(actor.name)}
    /\ UNCHANGED <<disk, pcs, playing, server, readers, file, pos, account,
                   on_actor_id, world, answer>>

Characters == { k \in 1 .. Len(world) : world[k].player # NULL }

\* play <name>: player_load_character opens the file.
Play(n) ==
    /\ Idle /\ account # NULL /\ Cardinality(Characters) < MAX_CHARACTERS
    /\ account_has_character(account, n)
    /\ playing' = n /\ actor' = NULL
    /\ IF pcs[str_to_lower(n)] = NULL
       THEN answer' = "error" /\ UNCHANGED <<readers, file, pos>>
       ELSE /\ readers' = <<"character">> /\ file' = pcs[str_to_lower(n)] /\ pos' = 1
            /\ UNCHANGED answer
    /\ UNCHANGED <<disk, account_file, pcs, saving, created, server, account,
                   on_actor_id, world>>

\* A character leaves the world: quit, of the game or of the account.
Quit(k) ==
    /\ Idle
    /\ world' = RemoveAt(world, k)
    /\ UNCHANGED <<diskVars, server, readers, file, pos, actor, account, on_actor_id, answer>>

-----------------------------------------------------------------------------

ReadRooms == LoadRoom \/ SkipTopLevel \/ RoomActorEnds

ReadActor == ActorId \/ OutOfIds \/ ActorField \/ ActorSection \/ ActorStrayEnd

ReadPart ==
    \/ AppearanceEnds \/ AppearanceField
    \/ RoomEnds \/ RoomExit
    \/ PassOver
    \/ SkipEnds \/ SkipChunk

ReadAccount == AccountField \/ AccountEnds

Client ==
    \/ LogIn \/ LogOut \/ CreateAccount
    \/ \E n \in TypedNames : CreateCharacter(n) \/ Play(n)
    \/ \E k \in Characters : Quit(k)

Save == SaveCharacter \/ OpenAccount \/ SaveAccount

Next ==
    \/ ReadRooms \/ ReadActor \/ ReadPart \/ ReadAccount
    \/ NoColon \/ CharacterRejected \/ EndOfFile
    \/ Client \/ Save
    \/ Restart

Spec == Init /\ [][Next]_vars

-----------------------------------------------------------------------------
(* Properties.                                                              *)

\* rooms.txt has been read to its end.
Booted == server = "running" /\ (readers = <<>> \/ Head(readers) # "rooms")

\* The latest actor of the world is its first: the characters come before the
\* rooms, and of the rooms the last one in the file comes first.
RoomsFirst(parts) ==
    LET characters == Len(world) - Len(parts) IN
    /\ characters >= 0
    /\ \A k \in 1 .. characters : world[k].player # NULL
    /\ \A k \in 1 .. Len(parts) : world[Len(world) + 1 - k] = parts[k].room

\* The world holds the rooms that rooms.txt describes, whole, in their order and no
\* others: with texts of several lines, exits in every direction, closed or not,
\* blank lines between rooms, and sections the server does not know
\* (room_load_all).
RoomsAsMeant ==
    disk.sound /\ Booted => RoomsFirst(disk.parts)

\* Actors in the world can be told apart by their ids (world_find_actor), except
\* for rooms to which rooms.txt gives the same: no id is given out twice, and
\* on_actor_id does not wrap around to the ids of rooms.
IdsUnique ==
    \A j, k \in 1 .. Len(world) :
        /\ world[j].id # INVALID_ACTOR_ID
        /\ j # k /\ world[j].id > MAX_PERSISTENT_ACTOR_ID => world[j].id # world[k].id

\* Whatever the server writes, and whenever it is killed, it never stops over a
\* chunk it cannot parse, an id it must not use or a room that is not there.
LoadsCleanly ==
    disk.sound => server \in {"running", "malformed_account", "out_of_ids"}

\* A logged in account has exactly the characters whose creation was reported,
\* by their whole names: a file that was cut off is not taken for an account
\* that has lost its characters (account_load, account_has_character).
CharacterListExact ==
    disk.sound /\ Idle /\ account # NULL =>
        \A n \in DOMAIN pcs : account_has_character(account, n) <=> n \in created

\* Every character an account lists can be played, under its name and in the
\* place where it was created, wherever the server was killed before
\* (player_create_character, player_load_character).
ListedCharacterPlays ==
    disk.sound /\ (\E k \in 1 .. Len(disk.parts) : disk.parts[k].room.id = StartLocation) =>
        /\ answer # "error"
        /\ \A k \in Characters :
             /\ world[k].name = str_capitalize(world[k].player)
             /\ world[k].location_id = StartLocation
=============================================================================
