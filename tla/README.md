# llmud_c: a verification development

LLMUD is a MUD server in C: one process, one thread, a tick every 100 ms. This
directory models the parts of it where things can go wrong in ways a test hardly
reaches: who is connected to which player, which player holds which account,
which actor stands in which room, what becomes of the bytes of a connection, and
what a crash leaves on disk. TLC checks small instances; TLAPS proves the central
invariants for every size.

Source paths are relative to the repository.

## The system

| component | source | state | operations |
|---|---|---|---|
| server loop | `src/main.c`, `src/server.c` | the tick counter | `server_run`: five processes per tick, in order |
| telnet slots | `src/telnet.c` | `connections[128]`, the listener | listen (accept), read, process_input, flush, gc |
| telnet connection | `src/telnet_conn.c` | `connected`, input buffer and `input_line_ready`, `output`, `player` | new, read, next_line, write, flush, free |
| players | `src/player.c` | `Player` structs, the list `player_registry` | handle_input, register, unregister, find, create/save/load character, name lookup, quit |
| player states | `src/player_states.c` | `player->state`, `input_handler`, `state_data` | six states, their entry functions and input handlers; takeover of a session |
| accounts | `src/account.c` | `Account` structs, `data/accounts/*.acct` | validate, new, save, load, add/has character |
| world, actors | `src/world.c`, `src/actor.c` | `world_actors`, `contents` lists, ids | add, remove, find, move between contents |
| acts | `src/act.c`, `src/movement.c`, `src/interact.c` | listeners (none registered) | move, look, perceive to everybody in a room |
| rooms | `src/room.c` | the rooms loaded at boot | load |
| chunk files | `src/file_chunk.c` | a reader: one raw chunk, its tag and value | read, skip a section, write fields and sections |
| buffers | `src/buffer.c` | text, capacity, overflow | append, format, grow, trim |
| strings, appearance | `src/strutil.c`, `src/appearance.c` | none | words, name lists, case; names and descriptions |
| helpers | `array.c`, `config.c`, `log.c`, `io.c` | options | lookups, options, logging, mkdir |

They interact by direct calls and by pointers in both directions: a connection
and its player (`conn->player`, `player->conn`), a player and its actor
(`player->actor`, `actor->player`), a room and its actors (`contents`,
`location_id`). `CHECK` aborts the process when a pair disagrees. There are no
threads; concurrency is that of clients, whose lines are handled one per slot
and tick, in slot order, with multi-step dialogues interleaving across ticks.

What is hard here:

* **Takeover.** Logging in to an account that is in use moves the existing
  player to the new connection, in the middle of whatever it was doing, and
  frees the player that logged in. Four structs change together, and the old
  connection is still in the array, to be visited in this tick or collected
  at its end.
* **Sessions without a connection.** A client that hangs up leaves its player
  registered and its actor in the world.
* **Dialogues that span ticks.** An account name is checked, a password asked
  for, and the name used; an account is loaded, a password asked for, and the
  account used. Other clients act in between.
* **Memory.** An actor that leaves the world is freed but stays on the contents
  list of its room; the allocator may hand its address out again.
* **Crashes.** The process ends by a signal only, at any point. Two files are
  written when a character is created.
* **Bytes.** TCP cuts what a client sends anywhere: in a line, in a telnet
  command, in a line that is already being discarded. Three buffers of different
  sizes have to agree on where a line ends.
* **Files.** The reader of chunk files hands out pointers into buffers it reuses,
  its readers nest, and files may have been cut off or written by a later version.

What makes each component correct: connections, players and the registry agree
(`ConnPlayerLinked`, `RegistryExact`); a handler finds the `state_data` and the
account it expects (`ContextMatchesState`); players and actors agree
(`PlayerActorLinked`); an account is in one player's hands
(`OneSessionPerAccount`) and its session ends by its own quit only
(`SessionEndsOnlyByQuit`); names and files agree across crashes
(`OwnedCharacterHasFile`, `NameOwnedOnce`); lists of contents enumerate the
actors of their room (`ContentsMatchLocations`) until the address of one of their
freed cells is handed out again, and no longer (`ContentsBreakExactlyOnReuse`);
lines are handled and slots come back (`LineHandled`, `SlotReclaimed`); the game gets the lines that were
typed and the client the text that was written (`ImplementsTypedLines`,
`SentAsWritten`) in buffers that do not overflow (`OneLineBuffered`, `LineFits`,
`OutputFits`); what the server writes it reads back, as what it was, whenever it
was killed (`RoomsAsMeant`, `CharacterListExact`, `ListedCharacterPlays`,
`LoadsCleanly`), and ids tell actors apart (`IdsUnique`).

## The modules

| module | models | extends |
|---|---|---|
| `ServerStatus` | the process, running or stopped by what | |
| `World` | actor cells, rooms, contents lists as linked lists over an allocator | `ServerStatus` |
| `WorldSpec` | the world alone, driven by players who enter, look, move, leave | `World` |
| `Accounts` | account and character files, and `account.c`'s functions over them | `ServerStatus` |
| `Sessions` | the tick, the slots, the players, every input handler, crashes | `World`, `Accounts` |
| `AccountSessions` | what the server promises about sessions, abstractly | |
| `Buffers` | fixed and growing text buffers, in bytes | |
| `TelnetStream` | the bytes of one connection, in and out | `Buffers` |
| `TypedLines` | what a client may expect of its connection, abstractly | |
| `Strings` | words, lists of names, trimming | |
| `ChunkFile` | reader and writers of chunk files, as functions | `Strings` |
| `Storage` | loading rooms, accounts and characters chunk by chunk; saving; ids; crashes | `ChunkFile` |
| `MCWorld`, `MCSessions`, `MCTelnetStream`, `MCStorage` | instances for TLC | the module checked |
| `World_proofs`, `WorldSpec_proofs`, `Sessions_proofs`, `Links_proofs`, `Names_proofs`, `TelnetStream_proofs`, `ChunkFile_proofs`, `Storage_proofs` | theorems | the module proved about |

The three state machines overlap where the code's parts meet. `Sessions` sees a
connection as a flag for a line and one for output, and files as whole or torn;
`TelnetStream` and `Storage` open those up, one connection and one account at a
time, with the game reduced to what it answers.

**Correspondence.** In `Sessions`, `<<phase, cursor>>` is the position in
`server_run`'s loop and in the loop over the slots; one action is the visit of
one slot by one process, which is the code's own unit of interleaving, because
nothing else runs in the meantime. `conns[i]` is `connections[i-1]`; `players`
is the heap of `Player` structs, indexed by address, so that a freed and reused
struct is visible; `registry` is the set of members of `player_registry` (its
order decides nothing once `OneSessionPerAccount` holds: `player_find_registered`
has one candidate). `Handle` has a disjunct per outcome of an input handler;
a line's text is chosen where the handler reads it, among what it tells apart.
`RefuseLine` gathers all answers that leave the player where it is.
A `CHECK` that fails, an endless walk, a read of freed memory and SIGPIPE set
`server`, after which only `Restart` is possible.

In `World`, `contents` and `next_contents` are the list heads and links.
`actor_free` releases a cell but leaves the links to it; `Walk` follows the
links as the C loops do, over freed cells too, and such a walk may also end in
`"undefined"`. `calloc` hands out any free address, those that were freed included.

In `Accounts`, a file is its data, `NoFile`, or `TornFile`: truncated by `fopen`
and not yet written when the process was killed. A write that completes is
atomic, since all of it fits in the stdio buffer.

In `TelnetStream`, the variables are the fields of `TelnetConn` and the locals of
its functions: `temp` is what is left of the bytes of one `read`, `seg_start` and
`p` (1-based) are those of `telnet_conn_flush`. One action is the step of a loop
for one byte, with one action per branch of the loop's body; `phase` is the part
of the tick. `socket` is what TCP has delivered and nobody read, and `Read` takes
any number of bytes of it that `read_limit` allows. A line of the client ends in
CR LF, a typed 255 is doubled, and commands may stand between any two characters.
`typed`, `waiting` and `line` are the variables of `TypedLines`.

In `Storage`, a text is a sequence of tokens, each a character the code looks
for or a word it does not look into. One action is one call of `file_chunk_read`
with what its caller does with the chunk; `readers` is the stack of callers.
`Chunk` is what `file_chunk_read` leaves in `r->chunk`. An exit that is stored out
of bounds stops the model with `server = "undefined"`. `on_actor_id` wraps at
`MAX_ACTOR_ID + 1`, which stands for `UINT32_MAX + 1`.

**Abstractions.** Passwords: a check may succeed or fail. Text sent to clients:
in `Sessions` only whether output waits, in `TelnetStream` any of a set of
replies. Character names: in `Sessions` model values with `Lower` for
`str_to_lower`, in `Storage` letters. Input bytes: in `Sessions` a read either
completes a line, does not, or ends the connection. A player the `Players` set has
no address for cannot be allocated: `Accept` is then disabled, where the code would
use more memory. `fopen` empties a file and `fclose` writes all of it, since stdio
holds more than any of these files; a file may be found empty, never cut in the
middle. `word[]` in `room_read_section` is taken to be long enough. A character
file ends at the end of its last chunk: the `feof` that ends `actor_load` and the
next `file_chunk_read` that returns false come to the same. `SO_REUSEADDR`,
non-blocking setup and out-of-memory aborts are left out.

## Runs

All instances of `Sessions` take two slots, enough for a takeover between two
open connections, with the old one visited before or after the new one. `links`
has a third player, for one that is detached while two clients are connected.

| run | instance | shows |
|---|---|---|
| `links` | 2 slots, 3 players, 1 account, 1 name, 1 actor, 2 rooms | types; connections, players, registry and dialogues stay linked through takeovers, hang-ups, crashes; sessions end by quit only |
| `owners` | 2 slots, 2 players, 2 accounts, 1 name, 3 actors, 1 room with an exit to itself | two clients race for one account and one name, with a crash between any two writes; players and actors agree and no CHECK on links fails, with a ghost and a freed actor in the room; a session without a connection waits; `Sessions` implements `AccountSessions` |
| `live` | 2 slots, 2 players, 2 accounts, one with a username of 31 characters, no characters, `killconn`, fair tick | lines are handled, slots are reclaimed; the registry stays exact even when a connection points at a freed player |
| `lists` | 4 actor cells, freed ones handed out again at will, 2 rooms, one of them with an exit to itself | types; the one step that makes lists stop matching is to hand out an address a list still holds; any other, reuse of unlisted addresses included, keeps them, walks end and moves do not abort |
| `input` | lines of at most 2 characters, out of a letter, a space and 255; 6 keystrokes per connection; reconnections | lines arrive trimmed, in order, none lost or made up, however TCP cuts them; buffers never overflow; output is sent once, in order, with newlines translated; `TelnetStream` implements `TypedLines` |
| `files` | 11 sound and 9 damaged disks, two rooms with exits, one in the other or not, 2 names of which one begins the other, ids up to 8 | what is written is read back, whole, whenever the server is killed; damaged files stop it only where they should; ids stay apart until they run out |

**Bounds of `Sessions` and `World`.** The numbers of slots, players, accounts,
names, actors and rooms are the constants above; nothing else in the state grows,
since a connection holds one line at most and output is a flag. Players and actors
are symmetric: no property and no action tells one address from another; so are
usernames in the runs with symmetry, where all have the same length. Three actors are what
it takes to walk past an actor of a freed player: one left by a takeover, one that
leaves the world with that player, and one that moves. Deadlock is checked in
every run.

**Bounds of `TelnetStream`.** `PLAYER_INPUT_SIZE` is 3, so a line is full after two
characters, over-long after three, and an over-long one is discarded over several
reads. `MaxKeys` limits what is typed before the slot is given to another client:
6 keystrokes are two lines, one of them over-long, with commands in them.
`MaxUnread` limits the bytes under way, not below a whole subnegotiation or a line
end. `MaxOutput` limits what other clients write between two flushes; with replies
of 3 bytes and a capacity of 3 the buffer grows in every other tick. The run takes
a client that waits for its line to be handled before it starts another
(`Pipelined = FALSE`); run `dropped` has one that does not.

**Bounds of `Storage`.** `MAX_CHARACTERS` limits the characters in the world at a
time; ids from 4 to 8 let two characters be created and played until they run out.
`Disks` are written out in `MCStorage`: rooms with exits in the first and last
direction, closed with a keyword of two words, a description of two lines with
`#` and `:` in it, a room in another one, unknown sections before and inside rooms, blank
lines between them; and damaged ones, one per error path of the readers.

**Fairness.** `FairSpec` of `Sessions` adds `WF_vars(Tick)`: `server_run` is an
infinite loop, `poll` has a timeout of 0 and every socket is non-blocking, so the
loop always goes on. No fairness is asked of clients, of crashes, or of any
particular handler. Liveness holds because a tick visits every slot in turn.
`EndListen` needs none of its own: in an instance the `accept` loop ends when no
slot or no player address is free. `live` leaves characters out to keep the graph
small; a player in the game differs, for both properties, in what a line does only.

`FairSpec` of `TelnetStream` adds `WF_vars(Tick \/ Gc)` for the same reason, and
`SF_vars(Read)`: TCP delivers what was sent in the end, so a tick that finds
nothing to read, although bytes are under way, cannot repeat for ever. Nothing
is asked of the client: `LineArrives` says that no line that was entered waits
for ever, be it because it is handled or because the connection ends.

### Where code and comments disagree

Each of these runs checks one statement the code makes about itself, and TLC
finds a counterexample.

* `dropped`: `telnet_conn.h:12`, "in case we read part of another line". The loop of
  `telnet_conn_read` returns at the first newline; what `read` delivered behind it
  is lost, although the buffer has room for it and `telnet_conn_next_line` looks for it.
* `skip`: `file_chunk.h:74`, "until the end of the given section is found". Both
  callers pass `r->chunk.tag.data`, the very buffer each read overwrites: a name is
  compared with itself, and any `#end` ends the skipping. The rest of the section
  is then read as if it stood outside.
* `ghost`: `actor_cleanup`'s "actor-player mismatch". Log in, play, log in again
  from another connection, play again: `player->actor` is overwritten, and the
  first actor stays in the world, pointing at the player.
* `names`: "That name is already taken". `player_name_exists` compares the typed
  name with lower-case names; `Bob` gets past `bob`.
* `username`: `account.h:19` asks for a validated username; one of 31 characters
  is valid and aborts the server in `account_new`.
* `reuse`: `act.h:59`, "all actors in it". A freed actor is left on its room's
  contents list; once its address is used again, lists are cut, loop or merge.

Two more have no run of their own. `killconn` (`player.c:60`) frees a player and
leaves its connection open and pointing at it, which `DispatchDangling` and
`GcDangling` model; and a login that waited at the password prompt installs the
account as it was when the name was typed, so that a character created meanwhile
is lost with the next save (`LoginUsername`, `LoginAccount`).

## Theorems

All are of the form `Spec => []Inv` (or an action property, or a refinement) for
every value of the constants that satisfies the ASSUMEs of the module: finite sets
of addresses, functions of the right type, special values distinct from data,
buffers of positive size.

**`Sessions_proofs`.** The inductive invariant is

    CoreInv == TypeOK /\ CellsLinked /\ FilesNamed /\ PlayerConnLinked
               /\ ContextMatchesState /\ PlayerActorLinked

* `CellsLinked`: lists hold cells that were handed out; without it a pop could
  write an `Unused` link.
* `FilesNamed`: an account file is named after the username in it, which a
  login relies on when it stores what it loaded.
* `PlayerConnLinked`: a player's connection exists and points back: what one
  direction of `ConnPlayerLinked` says, and the only one that survives `killconn`.

From it follow `TypeCorrect`, `ContextsCorrect` and `ActorsCorrect`, in test mode
too. The proof has a lemma per kind of step: network steps, answers that rewrite
the record of one player (`Rewrites`), walks, steps that free a player, takeover.
`World_proofs` has the lemmas about the world's operations it uses.

**`Links_proofs`.** On top of `CoreInv`,

    LinkInv == RegistryExact /\ (~TestMode => ConnPlayerLinked)
               /\ OneSessionPerAccount /\ SavedAccounts

where `SavedAccounts` says that the username of an account in memory, in a player
or in a login dialogue, has a file: it is what makes a new account's username nobody's, and
the step that needs it is `CreateAccount`. From it follow `RegistryCorrect`,
`SessionsExclusive`, and, assuming `TestMode = FALSE`, `LinksCorrect`,
`AssertionsCorrect` and `SessionsLast`. Outside test mode is where these hold:
`killconn` frees a player that its connection still points at.

The same module holds `SessionsImplement`: `Spec => ImplementsAccountSessions`, in
test mode too. `HoldersMatch`, which follows from `OneSessionPerAccount`, replaces
the `CHOOSE` in `Holder` by any player that has the account; `NextLinks` says
which steps move a session, and each is a login (a takeover is one), a lost
connection, a quit or a restart of `AccountSessions`. With the same lemmas,
`DetachedSessionsWait`.

**`Names_proofs`.** On top of `CoreInv`,

    NamesInv == FilesLowered /\ CharactersFiled /\ (LowerCase => CharactersApart)

about every account *in hand*: in a file, in a player, or loaded by a login that
waits for its password, however stale. `CharactersFiled`: each of its characters
has a file. `CharactersApart`: accounts of different users share none. No step
deletes a character file, so stale accounts are no obstacle, and a new name is
nobody's because its file does not exist. `OwnedCharactersHaveFiles` holds for all
names, `NamesOwnedOnce` where none is typed with a capital (see run `names`): the
search through the registry in `player_name_exists` is not needed for it.

**`WorldSpec_proofs`.** `ReuseAloneBreaksContents`: whatever addresses the allocator
picks, a step from contents that match the locations leads to contents that match if,
and only if, it hands out no address that a list still holds; such a step neither loops
nor ends at the CHECK of `actor_add_contents`. `ContentsMatchLocations` is no invariant
here (run `reuse`), so the argument starts from it in every step. Only
`PointerInv` is inductive: types, and no pointer to a cell that was never handed out.

* A walk that ends has come along a list: the cells up to its end are a sequence without
  repetition (`WalkChain`), because cells that are the same have the same cells behind them.
  So contents that match spell sequences, with a live actor on that of its
  location and on no other (`MatchListed`, and back by `ListedMatch`). Two of them may end in the same
  freed cells.
* `ChainPushed` and `ChainPopped` say what `actor_add_contents` and
  `actor_remove_contents` do to a sequence. A move leaves the sequences of
  other rooms alone, though they may share cells with the one it changes: the cell it
  relinks is followed by the mover, so it is on no list but the mover's (`ChainNext`).
* When a listed address is handed out, the list goes on leading to it (`ChainFollowed`):
  the new actor is met in two rooms, or the list is a loop (`EnterBreaks`).

It follows that contents match all along a behaviour that never hands out a listed
address (`ContentsMatchUntilReuse`). `WorldTyped` follows from `PointerInv`.

**`TelnetStream_proofs`.** First, as theorems about `Buffers`, that what is appended
to a buffer fits with its NUL (`BufferAppendFits`, `BufferAppendfFits`, `Growth`).
Then `StreamInv`: types, `OneLineBuffered`, `LineFits` and `OutputFits`, no CR in the
input buffer, and nothing left of a read once a line is ready, which is why no
byte is added behind the newline. From it `OneLineIsBuffered`, `LinesFit` and
`OutputAlwaysFits`; `TypeCorrect` stands alone.

`FlushSendsAll` is about the output. `SentUpTo` is what a client has seen of
the first `k` bytes, as a recursive function; `FlushInv` says that what was
shown and the segment that is next, up to where the loop has got, are `SentUpTo` of that place.

`NoLineIsDropped` and `LinesAreDelivered` assume `Pipelined = FALSE`; with it TRUE
run `dropped` refutes the first. `Carries(q, s, d, r)` says that from telnet state `q`
the bytes `s` carry the data `d` and lead to state `r`; it holds of each byte, of
two texts in a row (`BothCarry`), of what is left when a byte was read (`FirstRead`), and of
everything a client can send, which leads back to `"DATA"`. `LineInv` has three
cases: the client is typing, and the buffer with the data under way is what it
typed, or the line is given up and was too long (`Typing`); it has ended the line, and
the newline is the last byte under way (`Ending`); the line is in the buffer, trimmed,
and nothing is under way (`Complete`). What `EndLine` throws away is nothing in the second
case, and the first two are exclusive because the client waits. `LineStep` then maps
`Type`, `Enter`, `NextLine` and `Gc` to the actions of `TypedLines`, all others to none.

**`ChunkFile_proofs`.** What the functions of `Strings` and `ChunkFile` return for
texts of any length: parts of what they are given, trimmed where C trims. Loops are recursive
functions, and what they return is shown at the least place where it
could be wrong. `FieldRead`: a field that was written is what is
read, tag and value, wherever it is in a file. `ChunkAt(f, n, type, tag, value, m)` says
the same of any chunk: the one that begins behind `n` is read so and ends at `m`. The
lemmas about it cover fields, starts and ends of sections, with arguments or without, with
blank lines behind them, and texts joined by `FlattenSeq`. The lemmas on `str_token_contains`
and `str_token_add` say when a word stands in a list, also when it is the beginning of
another; those on `str_parse_word` take a line of words apart.

**`Storage_proofs`.** `IdsAreUnique`, from `IdInv`: `on_actor_id` is above all ids
given out and within its limit; the actor that is being built has an id that nobody in the
world has, from the moment it is allocated until it is added, whatever chunks its
file holds. This needs the shape of the stack of readers: appearance and room
sections are innermost, so no actor is allocated while one is read into.

`StorageTypeCorrect`, from `StorageInv`, which adds to the types what the files'
readers may rely on: what kind of thing each of them builds, and which names have files.

`ListedAsReported`, from `ListInv`. The file of the account is missing, empty (the
server was killed after `fopen`), or the three fields of an account whose list is the
words of exactly the characters reported (`Roster`). While it is read, the fields up to
the reading position are in the account (`ReadUpTo`); this is where the lemmas of
`ChunkFile_proofs` go in. When nothing is being read, the account that is logged
in lists the reported characters, and the one under creation once it is added
(`Listed`). The assumptions are those of the module: letters are neither white
space nor `#`, `:`, `~`; capitals are distinct and are no small letters.

`RoomsAreLoaded`, `FilesCanBeRead` and `ListedCharactersPlay`, from

    BootInv == Regular => /\ server \in {"running", "malformed_account", "out_of_ids"}
                          /\ FilesMade /\ Named /\ NoError
                          /\ server = "running" => Stage

on top of `StorageInv` and `ListInv`. The three properties are not inductive: whether a
room comes out whole depends on where the readers are in the file and on what they
hold. `Stage` says so. Either `rooms.txt` is being loaded (`RoomsReading`): the file
consists of the parts of `disk.parts`, at places `at`; the first `n` of them are in the
world, the last one first; and the readers stand between two parts, or within one
(`InPart`). Or loading is over, `RoomsFirst` holds, and what is read, if anything, is the
account or a character that was saved (`PlayingOne`). Within an actor, of a room or a
character, `Building(top, a, at, i)` says that the first `i` of the 16 chunks of `a` have
been read: `at` is where they are in the file, `BuildReaders` which readers are on the
stack, `IsRead` which fields the actor has by then. A chunk that a given actor lacks has no
length. The proof goes up from there:

1. what is written: each piece of `actor_save` is in the file as one chunk (`PieceOf`), so
   is each exit, read back by `ParsedExit` as it was (`RoomOf`); then an actor (`ActorOf`),
   a section that is passed over (`NoteOf`), a part (`PartWritten`), the file (`RoomsWritten`);
2. which step reads a chunk, given the reader in charge and the kind of chunk: exactly one,
   and never `NoColon` (`RoomsGuards`, `ActorGuards`, `PartGuards`);
3. that the step goes on to the next place: `BuildOn` in an actor, `PartStep` in a part,
   `RoomsStep` from part to part, `CharacterStep` for a character;
4. what players change: `CharacterAdded` and `CharacterRemoved` keep the rooms at the end of
   the world; `FilesMade` says that each listed character has the file `actor_save` wrote,
   since a file is written before its name is listed.

The hypotheses are those of the properties and two more. `NoNesting(disk)`: the sections
among the rooms that the server passes over have no sections in them. Run `skip` shows that
`RoomsAsMeant` fails without it. For `ListedCharactersPlay`, names are typed in lower case:
the prompt asks for it, run `names` shows that nothing enforces it, and a capital lets a
name be created twice, which truncates the file of a listed character; the invariant covers
that case (`NothingReading`) rather than exclude it. The assumptions about `rooms.txt`
(`RoomsAssumption`) say what a file of rooms is: ids in range and a room before what is
in it, texts without `~` and without white space around them, numerals that are words of
their own. The instances of `files`, with all of these, satisfy them: TLC evaluates them.

**Model-checked only.** Liveness under fairness (`LineHandled`, `SlotReclaimed`,
`LineArrives`), which the prover does not support. Every safety property that a run
checks and finds to hold is a theorem.

## Plan

Done: everything under "The modules", with its runs and theorems.

What could follow: `ContentsBreakExactlyOnReuse` for `Sessions`, from the lemmas about
lists in `WorldSpec_proofs`, through takeovers and crashes.

## Not modelled

* `log.c`, `io.c`: logging and mkdir, without control of their own.
* `array.c`: a membership test that leaves the mover out of those who perceive its
  arrival; the mover is answered anyway.
* Act listeners: `act_register_listener` has no caller, so every list is empty.
* `account_remove_character`, `telnet_conn_disconnect`, `str_to_upper`: nothing
  calls them.
* Option parsing, and the time a tick takes: ticks have no duration, and nothing
  depends on one.
* The wording of what players see, appearances of exits and doors among it.
* `word[]` in `room_read_section`, and files cut in the middle: see Abstractions.
* Tests: read as documentation.
