------------------------------ MODULE Sessions ------------------------------
(***************************************************************************)
(* The server's tick loop, its connections, and the players they drive.     *)
(*                                                                          *)
(* server_run calls five processes in every tick: listen, read,             *)
(* process_input, flush and gc.  Each but the first visits the slots of     *)
(* `connections` in order; <<phase, cursor>> is where the loop is.  Between  *)
(* two visits, and inside any of them, clients connect, send and hang up:   *)
(* what a visit finds at its socket is chosen when it looks.                *)
(*                                                                          *)
(* conns[i] is connections[i-1], a TelnetConn or NULL; players is the heap  *)
(* of Player structs, registry the list headed by player_registry (as the   *)
(* set of its members).  A line a client sends is chosen when its handler   *)
(* reads it, among what the handler tells apart.                            *)
(***************************************************************************)
EXTENDS World, Accounts

CONSTANTS
    MAX_CONNECTIONS,
    TestMode,          \* g_config.test_mode
    Free, Detached     \* of AccountSessions

VARIABLES
    phase, cursor,    \* where the tick is
    conns,            \* connections
    players,          \* the Player structs; NULL for an address that is free
    registry          \* the players on the list player_registry

tickVars    == <<phase, cursor>>
playerVars  == <<players, registry>>
vars == <<server, phase, cursor, conns, players, registry, worldVars, diskVars>>

Slots == 1 .. MAX_CONNECTIONS

\* The TelnetConn of a slot.  line: a complete line waits in its input buffer;
\* output: its output buffer is not empty.
Conn == [connected: BOOLEAN, line: BOOLEAN, output: BOOLEAN,
         player: Players \cup {NULL}]

\* AccountCreateContext and AccountLoginContext, what state_data points to.
Context == [kind: {"create", "login"}, step: {"username", "password", "confirm"},
            username: Usernames \cup {NULL}, account: Account \cup {NULL}]

PlayerStates == {"menu", "account_create", "account_login", "account_menu",
                 "character_creation", "playing"}

\* input_handler is always the handler of `state`, so it is not kept apart.
Player == [state: PlayerStates, state_data: Context \cup {NULL},
           account: Account \cup {NULL}, actor: Actors \cup {NULL},
           conn: Slots \cup {NULL}]

ASSUME SessionsAssumption ==
    /\ MAX_CONNECTIONS \in Nat \ {0}
    /\ TestMode \in BOOLEAN
    /\ NULL \notin Usernames \cup Slots \cup Account \cup Context \cup Conn \cup Player
    /\ Free # Detached /\ {Free, Detached} \cap Slots = {}

Phases == {"listen", "read", "process_input", "flush", "gc"}

TypeOK ==
    /\ server \in Statuses
    /\ phase \in Phases
    /\ cursor \in Slots
    /\ conns \in [Slots -> Conn \cup {NULL}]
    /\ players \in [Players -> Player \cup {NULL}]
    /\ registry \in SUBSET Players
    /\ WorldTypeOK
    /\ DiskTypeOK

\* What a process holds when it starts: the rooms, and nothing else.
Init ==
    /\ server = "running"
    /\ phase = "listen" /\ cursor = 1
    /\ conns = [i \in Slots |-> NULL]
    /\ players = [p \in Players |-> NULL]
    /\ registry = {}
    /\ WorldInit
    /\ DiskInit

\* The process starts again, with the files as they are.
Reboot ==
    /\ server' = "running"
    /\ phase' = "listen" /\ cursor' = 1
    /\ conns' = [i \in Slots |-> NULL]
    /\ players' = [p \in Players |-> NULL]
    /\ registry' = {}
    /\ actors' = [a \in Actors |-> NULL]
    /\ next_contents' = [a \in Actors |-> Unused]
    /\ contents' = [r \in Rooms |-> NULL]

-----------------------------------------------------------------------------
(* Moving through the tick.                                                 *)

NextPhase == [listen |-> "read", read |-> "process_input",
              process_input |-> "flush", flush |-> "gc", gc |-> "listen"]

Visit(ph, i) == server = "running" /\ phase = ph /\ cursor = i

Advance ==
    IF cursor < MAX_CONNECTIONS
    THEN cursor' = cursor + 1 /\ UNCHANGED phase
    ELSE cursor' = 1 /\ phase' = NextPhase[phase]

IsConnected(i) == conns[i] # NULL /\ conns[i].connected

\* A slot that has no connection, or one already marked disconnected.
SkipSlot(i) ==
    /\ server = "running" /\ phase \in {"read", "process_input", "flush"} /\ cursor = i
    /\ ~IsConnected(i)
    /\ Advance
    /\ UNCHANGED <<server, conns, playerVars, worldVars, diskVars>>

-----------------------------------------------------------------------------
(* telnet.c: listen, read, flush, gc.                                       *)

\* A player that enters no state.
NewPlayer_stateless(i) == [state |-> "none", state_data |-> NULL, account |-> NULL,
                           actor |-> NULL, conn |-> i]

NewPlayer(i) == [state |-> "menu", state_data |-> NULL, account |-> NULL,
                 actor |-> NULL, conn |-> i]
NewConn(p) == [connected |-> TRUE, line |-> FALSE, output |-> TRUE, player |-> p]

\* The first slot that is NULL takes the new connection.
FirstFree(i) == conns[i] = NULL /\ \A j \in 1 .. i-1 : conns[j] # NULL

\* A connection is accepted.  With every slot taken it is closed at once,
\* which changes nothing here.
Accept(i, p) ==
    /\ server = "running" /\ phase = "listen"
    /\ FirstFree(i)
    /\ players[p] = NULL
    /\ conns' = [conns EXCEPT ![i] = NewConn(p)]
    /\ players' = [players EXCEPT ![p] = NewPlayer(i)]
    /\ registry' = registry \cup {p}
    /\ UNCHANGED <<server, tickVars, worldVars, diskVars>>

\* accept() has no more connections to give.
EndListen ==
    /\ server = "running" /\ phase = "listen"
    /\ phase' = "read" /\ UNCHANGED cursor
    /\ UNCHANGED <<server, conns, playerVars, worldVars, diskVars>>

\* Nothing to read, a line that already waits, or bytes that do not end one.
ReadNoLine(i) ==
    /\ Visit("read", i) /\ IsConnected(i)
    /\ Advance
    /\ UNCHANGED <<server, conns, playerVars, worldVars, diskVars>>

ReadLine(i) ==
    /\ Visit("read", i) /\ IsConnected(i)
    /\ ~conns[i].line
    /\ conns' = [conns EXCEPT ![i].line = TRUE]
    /\ Advance
    /\ UNCHANGED <<server, playerVars, worldVars, diskVars>>

\* read() returns 0 or an error.  A line that waits keeps telnet_conn_read from
\* reading at all.
ReadEnd(i) ==
    /\ Visit("read", i) /\ IsConnected(i)
    /\ ~conns[i].line
    /\ conns' = [conns EXCEPT ![i].connected = FALSE]
    /\ Advance
    /\ UNCHANGED <<server, playerVars, worldVars, diskVars>>

Flush(i) ==
    /\ Visit("flush", i) /\ IsConnected(i)
    /\ conns' = [conns EXCEPT ![i].output = FALSE]
    /\ Advance
    /\ UNCHANGED <<server, playerVars, worldVars, diskVars>>

\* write() fails, be it because the peer is gone or because it reads too slowly.
FlushFails(i) ==
    /\ Visit("flush", i) /\ IsConnected(i)
    /\ conns[i].output
    /\ conns' = [conns EXCEPT ![i].connected = FALSE]
    /\ Advance
    /\ UNCHANGED <<server, playerVars, worldVars, diskVars>>

\* write() to a socket the peer has reset raises SIGPIPE, which nothing handles.
FlushKills(i) ==
    /\ Visit("flush", i) /\ IsConnected(i)
    /\ conns[i].output
    /\ server' = "killed"
    /\ UNCHANGED <<tickVars, conns, playerVars, worldVars, diskVars>>

\* Keeps a connection whose player is still there.
GcKeeps_linked(i) ==
    /\ Visit("gc", i)
    /\ conns[i] = NULL \/ IsConnected(i) \/ (conns[i] # NULL /\ conns[i].player # NULL)
    /\ Advance
    /\ UNCHANGED <<server, conns, playerVars, worldVars, diskVars>>

GcKeeps(i) ==
    /\ Visit("gc", i)
    /\ conns[i] = NULL \/ IsConnected(i)
    /\ Advance
    /\ UNCHANGED <<server, conns, playerVars, worldVars, diskVars>>

\* conn->player and the player's own conn agree.
Linked(i) ==
    LET p == conns[i].player
    IN  p # NULL => players[p] # NULL /\ players[p].conn = i

\* Frees the player together with its connection.
PlayersUnlinked_freed(i) ==
    IF conns[i].player = NULL THEN players
    ELSE [players EXCEPT ![conns[i].player] = NULL]

\* Frees whoever has no connection, to have back the players that never log in.
PlayersUnlinked_swept(i) ==
    [q \in Players |->
        IF players[q] # NULL /\ q = conns[i].player THEN [players[q] EXCEPT !.conn = NULL]
        ELSE IF players[q] # NULL /\ players[q].conn = NULL THEN NULL
        ELSE players[q]]

\* The players once telnet_conn_free has unlinked the one of slot i.
PlayersUnlinked(i) ==
    IF conns[i].player = NULL THEN players
    ELSE [players EXCEPT ![conns[i].player].conn = NULL]

\* telnet_conn_free: the player, if any, stays registered without a connection.
GcFrees(i) ==
    /\ Visit("gc", i)
    /\ conns[i] # NULL /\ ~conns[i].connected
    /\ Linked(i)
    /\ conns' = [conns EXCEPT ![i] = NULL]
    /\ players' = PlayersUnlinked(i)
    /\ Advance
    /\ UNCHANGED <<server, registry, worldVars, diskVars>>

\* conn->player was freed: CHECK(conn->player->conn == conn) reads
\* freed memory, or another player's struct at that address.
GcDangling(i) ==
    /\ Visit("gc", i)
    /\ conns[i] # NULL /\ ~conns[i].connected
    /\ ~Linked(i)
    /\ server' = IF players[conns[i].player] = NULL THEN "undefined" ELSE "conn_link"
    /\ UNCHANGED <<tickVars, conns, playerVars, worldVars, diskVars>>

-----------------------------------------------------------------------------
(* player.c: player_unregister.                                             *)

\* Frees a player that stays on the list.
Unregistered_kept(p) == registry

Unregistered(p) == registry \ {p}

-----------------------------------------------------------------------------
(* telnet.c: process_input.  One line of one connection reaches the input   *)
(* handler of its player.                                                   *)

NoLine(i) ==
    /\ Visit("process_input", i) /\ IsConnected(i)
    /\ ~conns[i].line
    /\ Advance
    /\ UNCHANGED <<server, conns, playerVars, worldVars, diskVars>>

HasLine(i) == Visit("process_input", i) /\ IsConnected(i) /\ conns[i].line

\* conn->player was freed: its input_handler is whatever the memory holds.
DispatchDangling(i) ==
    /\ HasLine(i)
    /\ ~Linked(i)
    /\ server' = "undefined"
    /\ UNCHANGED <<tickVars, conns, playerVars, worldVars, diskVars>>

\* Player p of slot i handles a line.
Turn(i, p) == HasLine(i) /\ conns[i].player = p /\ Linked(i)

TurnIn(i, p, state) == Turn(i, p) /\ players[p].state = state

\* The step of the dialogue a player in account_create or account_login is at.
AtStep(i, p, kind, step) ==
    /\ TurnIn(i, p, IF kind = "create" THEN "account_create" ELSE "account_login")
    /\ players[p].state_data.step = step

\* Leaves the line in the buffer.
Replied_again(i) == [conns EXCEPT ![i].output = TRUE]

Replied(i) == [conns EXCEPT ![i].line = FALSE, ![i].output = TRUE]

\* The handler returns after an answer to its own player and nobody else.
Answer(i) == conns' = Replied(i) /\ Advance /\ UNCHANGED server

\* A CHECK fails: the process ends inside the handler.
Abort(check) ==
    /\ server' = check
    /\ UNCHANGED <<tickVars, conns, playerVars, worldVars, diskVars>>

\* Every answer that leaves the player where it is: an unknown command, a list
\* of characters, an invalid or taken name, an unknown account, an empty or a
\* wrong password, a character that cannot be loaded or whose location is not
\* in the world.  Some line has this effect in every state but two: while the
\* password is confirmed, and while playing (PlayTurn).
RefuseLine(i, p) ==
    /\ Turn(i, p)
    /\ players[p].state # "playing"
    /\ ~AtStep(i, p, "create", "confirm")
    /\ Answer(i)
    /\ UNCHANGED <<playerVars, worldVars, diskVars>>

NewContext(kind) ==
    [kind |-> kind, step |-> "username", username |-> NULL, account |-> NULL]

\* handle_menu_input: create, login.
MenuCommand(i, p) ==
    /\ TurnIn(i, p, "menu")
    /\ \E kind \in {"create", "login"} :
         players' = [players EXCEPT
             ![p].state = IF kind = "create" THEN "account_create" ELSE "account_login",
             ![p].state_data = NewContext(kind)]
    /\ Answer(i)
    /\ UNCHANGED <<registry, worldVars, diskVars>>

\* A username whose file is torn is looked up, in any of the three places that
\* load an account: account_load aborts.
LoadTorn(i, p) ==
    /\ \/ /\ AtStep(i, p, "create", "username") \/ AtStep(i, p, "login", "username")
          /\ \E u \in Usernames : account_validate_username(u) /\ account_files[u] = TornFile
       \/ /\ AtStep(i, p, "create", "confirm")
          /\ account_files[players[p].state_data.username] = TornFile
    /\ Abort("malformed_account")

-----------------------------------------------------------------------------
(* handle_account_create_input                                              *)

CreateUsername(i, p, u) ==
    /\ AtStep(i, p, "create", "username")
    /\ account_validate_username(u)
    /\ ~account_username_exists(u)
    /\ players' = [players EXCEPT ![p].state_data.username = u,
                                  ![p].state_data.step = "password"]
    /\ Answer(i)
    /\ UNCHANGED <<registry, worldVars, diskVars>>

CreatePassword(i, p) ==
    /\ AtStep(i, p, "create", "password")
    /\ players' = [players EXCEPT ![p].state_data.step = "confirm"]
    /\ Answer(i)
    /\ UNCHANGED <<registry, worldVars, diskVars>>

ConfirmMismatch(i, p) ==
    /\ AtStep(i, p, "create", "confirm")
    /\ players' = [players EXCEPT ![p].state_data.step = "password"]
    /\ Answer(i)
    /\ UNCHANGED <<registry, worldVars, diskVars>>

\* Somebody else created the account since the username was accepted.
ConfirmTaken(i, p) ==
    /\ AtStep(i, p, "create", "confirm")
    /\ account_loadable(players[p].state_data.username)
    /\ players' = [players EXCEPT ![p].state_data.step = "username"]
    /\ Answer(i)
    /\ UNCHANGED <<registry, worldVars, diskVars>>

\* The password is confirmed and the username still free.
Confirmed(i, p) ==
    /\ AtStep(i, p, "create", "confirm")
    /\ ~account_username_exists(players[p].state_data.username)

ConfirmAborts(i, p) ==
    /\ Confirmed(i, p)
    /\ ~account_new_accepts(players[p].state_data.username)
    /\ Abort("username_length")

CreateAccount(i, p) ==
    LET acct == account_new(players[p].state_data.username) IN
    /\ Confirmed(i, p)
    /\ account_new_accepts(players[p].state_data.username)
    /\ account_files' = AccountSaved(acct)
    /\ players' = [players EXCEPT ![p].state_data = NULL, ![p].account = acct,
                                  ![p].state = "account_menu"]
    /\ Answer(i)
    /\ UNCHANGED <<registry, worldVars, character_files>>

-----------------------------------------------------------------------------
(* handle_account_login_input                                               *)

\* Forgets the account it loaded.
LoginUsername_unloaded(i, p, u) ==
    /\ AtStep(i, p, "login", "username")
    /\ account_validate_username(u)
    /\ account_loadable(u)
    /\ players' = [players EXCEPT ![p].state_data.username = u,
                                  ![p].state_data.step = "password"]
    /\ Answer(i)
    /\ UNCHANGED <<registry, worldVars, diskVars>>

\* The account is loaded now, and used when the password is right.
LoginUsername(i, p, u) ==
    /\ AtStep(i, p, "login", "username")
    /\ account_validate_username(u)
    /\ account_loadable(u)
    /\ players' = [players EXCEPT ![p].state_data.username = u,
                                  ![p].state_data.account = account_load(u),
                                  ![p].state_data.step = "password"]
    /\ Answer(i)
    /\ UNCHANGED <<registry, worldVars, diskVars>>

\* Passes over players without a connection.
HoldsAccount_connected(p, u) ==
    /\ players[p] # NULL /\ players[p].account # NULL /\ players[p].account.username = u
    /\ players[p].conn # NULL

\* The player that player_find_registered(username) returns, if any.
HoldsAccount(p, u) ==
    players[p] # NULL /\ players[p].account # NULL /\ players[p].account.username = u

LoginAccount(i, p) ==
    LET ctx == players[p].state_data IN
    /\ AtStep(i, p, "login", "password")
    /\ \A e \in registry : ~HoldsAccount(e, ctx.username)
    /\ players' = [players EXCEPT ![p].state_data = NULL, ![p].account = ctx.account,
                                  ![p].state = "account_menu"]
    /\ Answer(i)
    /\ UNCHANGED <<registry, worldVars, diskVars>>

\* Leaves the old connection linked to the player.
ConnsResumed_linked(i, e) ==
    [j \in Slots |->
        IF j = i THEN [Replied(i)[i] EXCEPT !.player = e]
        ELSE IF j = players[e].conn
        THEN [conns[j] EXCEPT !.connected = FALSE, !.output = FALSE]
        ELSE conns[j]]

\* The connections once slot i has taken the player e over: the connection e
\* had is flushed, unlinked and marked disconnected.
ConnsResumed(i, e) ==
    [j \in Slots |->
        IF j = i THEN [Replied(i)[i] EXCEPT !.player = e]
        ELSE IF j = players[e].conn
        THEN [conns[j] EXCEPT !.player = NULL, !.connected = FALSE, !.output = FALSE]
        ELSE conns[j]]

\* Leaves existing->conn as it was.
PlayersResumed_unlinked(i, p, e) ==
    [players EXCEPT ![e].state = "account_menu", ![p] = NULL]

\* The players: e has slot i and is at the account menu, p is freed.
PlayersResumed(i, p, e) ==
    [players EXCEPT ![e].conn = i, ![e].state = "account_menu", ![p] = NULL]

\* A registered player holds the account: slot i takes it over.  Writing to the
\* connection it had may raise SIGPIPE.
ResumeSession(i, p, e) ==
    /\ AtStep(i, p, "login", "password")
    /\ e \in registry /\ HoldsAccount(e, players[p].state_data.username)
    /\ conns' = ConnsResumed(i, e)
    /\ players' = PlayersResumed(i, p, e)
    /\ registry' = Unregistered(p)
    /\ server' \in {"running"} \cup (IF players[e].conn # NULL THEN {"killed"} ELSE {})
    /\ Advance
    /\ UNCHANGED <<worldVars, diskVars>>

-----------------------------------------------------------------------------
(* handle_account_menu_input and handle_character_creation_input            *)

ConnsLeft(i) ==
    [conns EXCEPT ![i].player = NULL, ![i].connected = FALSE,
                  ![i].line = FALSE, ![i].output = FALSE]

\* actor_free of a player's actor passes its CHECK.
ActorLinked(p) ==
    LET a == players[p].actor IN actors[a] # NULL /\ actors[a].player = p

\* quit: the actor, if one was left behind by a takeover, leaves the world.  The
\* goodbye is written at once, which may raise SIGPIPE.
MenuQuit(i, p) ==
    /\ TurnIn(i, p, "account_menu")
    /\ IF players[p].actor = NULL THEN UNCHANGED worldVars
                                  ELSE LeaveWorld(players[p].actor)
    /\ conns' = ConnsLeft(i)
    /\ players' = [players EXCEPT ![p] = NULL]
    /\ registry' = Unregistered(p)
    /\ server' \in IF players[p].actor # NULL /\ ~ActorLinked(p)
                   THEN {"actor_link"} ELSE {"running", "killed"}
    /\ Advance
    /\ UNCHANGED diskVars

MenuCreate(i, p) ==
    /\ TurnIn(i, p, "account_menu")
    /\ players' = [players EXCEPT ![p].state = "character_creation"]
    /\ Answer(i)
    /\ UNCHANGED <<registry, worldVars, diskVars>>

\* play <name>.  Without a name `arg` is never written (str_parse_word returns
\* at once), so it may hold any name an earlier line left there.  player->actor
\* is overwritten whatever it was.
Play(i, p, n, a) ==
    /\ TurnIn(i, p, "account_menu")
    /\ account_has_character(players[p].account, n)
    /\ character_loadable(n)
    /\ character_location(n) \in Rooms
    /\ EnterWorld(a, Lower[n], character_location(n), p)
    /\ players' = [players EXCEPT ![p].state = "playing", ![p].actor = a]
    /\ conns' = Replied(i)
    /\ Advance
    /\ UNCHANGED <<registry, diskVars>>

\* Asks only the players that are logged in.
NameTaken_online(n) ==
    \E q \in registry : /\ players[q] # NULL /\ players[q].account # NULL
                        /\ account_has_character(players[q].account, n)

\* player_name_exists
NameTaken(n) ==
    \/ \E q \in registry : /\ players[q] # NULL /\ players[q].account # NULL
                           /\ account_has_character(players[q].account, n)
    \/ character_file_exists(n)

\* A new name is accepted; CHECK(player->account != NULL) comes first.
NameAccepted(i, p, n) ==
    /\ TurnIn(i, p, "character_creation")
    /\ \/ players[p].account = NULL
       \/ ~account_has_character(players[p].account, n) /\ ~NameTaken(n)

CreateCharacter(i, p, n) ==
    LET acct == account_add_character(players[p].account, n) IN
    /\ NameAccepted(i, p, n)
    /\ IF players[p].account = NULL THEN Abort("no_account")
       ELSE /\ character_files' = CharacterSaved(n)
            /\ account_files' = AccountSaved(acct)
            /\ players' = [players EXCEPT ![p].account = acct,
                                          ![p].state = "account_menu"]
            /\ Answer(i)
            /\ UNCHANGED <<registry, worldVars>>

-----------------------------------------------------------------------------
(* handle_playing_input                                                     *)

\* The slots of the players whose actors a perceived act reaches.
ObserverSlots(cells, head, next) ==
    { players[cells[x].player].conn :
        x \in { y \in Visited(head, next) :
                  cells[y] # NULL /\ players[cells[y].player] # NULL } }

Perceived(i, slots) ==
    [j \in Slots |-> IF j = i THEN Replied(i)[i]
                     ELSE IF j \in slots /\ IsConnected(j)
                     THEN [conns[j] EXCEPT !.output = TRUE] ELSE conns[j]]

\* A move is perceived by an actor whose player was freed.
PerceivedByFreed(from, to) ==
    \E x \in Visited(contents[from], next_contents)
               \cup Visited(contents[to], next_contents) :
        actors[x] # NULL /\ players[actors[x].player] = NULL

Walks(i, a, to) ==
    LET from == actors[a].location IN
    /\ WalkTo(a, to)
    /\ conns' = Perceived(i, ObserverSlots(actors, contents[from], next_contents)
                             \cup ObserverSlots(actors', contents'[to], next_contents'))
    /\ UNCHANGED playerVars

\* Leaves player->actor set.
PlayersLeft_uncleared(p) == [players EXCEPT ![p].state = "account_menu"]

\* actor_cleanup clears the player's actor.
PlayersLeft(p) == [players EXCEPT ![p].actor = NULL, ![p].state = "account_menu"]

\* quit
Leaves(i, p) ==
    /\ LeaveWorld(players[p].actor)
    /\ players' = PlayersLeft(p)
    /\ conns' = Replied(i)
    /\ server' = IF ActorLinked(p) THEN "running" ELSE "actor_link"
    /\ UNCHANGED registry

\* An unknown command, look at a direction, a closed or a missing exit.
Idles(i) ==
    /\ conns' = Replied(i)
    /\ UNCHANGED <<server, playerVars, worldVars>>

\* look, or a move through an exit that leads back: the whole room perceives it.
Looks(i, a) ==
    LET room == actors[a].location IN
    /\ LookAround(a)
    /\ \/ conns' = Replied(i)
       \/ /\ room \in Exits[room]
          /\ conns' = Perceived(i, ObserverSlots(actors, contents[room], next_contents))
    /\ UNCHANGED playerVars

\* One command of a player in the game.  The empty line is a move: it is a
\* prefix of "north".
PlayTurn(i, p) ==
    LET a == players[p].actor IN
    /\ TurnIn(i, p, "playing")
    /\ IF a = NULL THEN Abort("no_actor")
       ELSE /\ \/ Idles(i)
               \/ Looks(i, a)
               \/ Leaves(i, p)
               \/ \E to \in Rooms : Walks(i, a, to)
            /\ Advance
            /\ UNCHANGED diskVars

\* A move reaches the send to a player that is no longer there.
PlayTurnStale(i, p) ==
    LET a == players[p].actor IN
    /\ TurnIn(i, p, "playing")
    /\ a # NULL
    /\ \E to \in Exits[actors[a].location] : PerceivedByFreed(actors[a].location, to)
    /\ Abort("undefined")

-----------------------------------------------------------------------------
(* player_handle_input, in test mode: the line "killconn".                  *)

\* The player and its actor are freed; the connection keeps pointing at it.
KillConn(i, p) ==
    /\ TestMode
    /\ Turn(i, p)
    /\ IF players[p].actor = NULL THEN UNCHANGED worldVars
                                  ELSE LeaveWorld(players[p].actor)
    /\ conns' = [conns EXCEPT ![i].line = FALSE]
    /\ players' = [players EXCEPT ![p] = NULL]
    /\ registry' = Unregistered(p)
    /\ server' = IF players[p].actor # NULL /\ ~ActorLinked(p)
                 THEN "actor_link" ELSE "running"
    /\ Advance
    /\ UNCHANGED diskVars

-----------------------------------------------------------------------------
(* The process ends, from outside or from inside, and is started again.     *)

\* It is the only way to stop the server; nothing is saved on the way.
Restart == Reboot /\ UNCHANGED diskVars

\* Killed while it saves a new account: fopen has truncated the file.
CrashInCreateAccount(i, p) ==
    /\ Confirmed(i, p)
    /\ account_new_accepts(players[p].state_data.username)
    /\ account_files' = [account_files EXCEPT ![players[p].state_data.username] = TornFile]
    /\ UNCHANGED character_files
    /\ Reboot

\* Writes the account file first.
CrashInCreateCharacter_swapped(i, p, n) ==
    /\ NameAccepted(i, p, n)
    /\ players[p].account # NULL
    /\ account_files' = AccountSaved(account_add_character(players[p].account, n))
    /\ UNCHANGED character_files
    /\ Reboot

\* Killed while it saves a new character: in the character file, between the
\* two files, or in the account file.
CrashInCreateCharacter(i, p, n) ==
    /\ NameAccepted(i, p, n)
    /\ players[p].account # NULL
    /\ \/ /\ character_files' = [character_files EXCEPT ![Lower[n]] = TornFile]
          /\ UNCHANGED account_files
       \/ /\ character_files' = CharacterSaved(n)
          /\ UNCHANGED account_files
       \/ /\ character_files' = CharacterSaved(n)
          /\ account_files' = [account_files EXCEPT
                                 ![players[p].account.username] = TornFile]
    /\ Reboot

-----------------------------------------------------------------------------
(* The specification.                                                       *)

Listen == EndListen \/ \E i \in Slots, p \in Players : Accept(i, p)

Read(i) == ReadNoLine(i) \/ ReadLine(i) \/ ReadEnd(i)

Handle(i, p) ==
    \/ RefuseLine(i, p)
    \/ MenuCommand(i, p)
    \/ LoadTorn(i, p)
    \/ \E u \in Usernames : CreateUsername(i, p, u) \/ LoginUsername(i, p, u)
    \/ CreatePassword(i, p)
    \/ ConfirmMismatch(i, p)
    \/ ConfirmTaken(i, p)
    \/ ConfirmAborts(i, p)
    \/ CreateAccount(i, p)
    \/ LoginAccount(i, p)
    \/ \E e \in Players : ResumeSession(i, p, e)
    \/ MenuQuit(i, p)
    \/ MenuCreate(i, p)
    \/ \E n \in Names, a \in Actors : Play(i, p, n, a)
    \/ \E n \in Names : CreateCharacter(i, p, n)
    \/ PlayTurn(i, p)
    \/ PlayTurnStale(i, p)
    \/ KillConn(i, p)

ProcessInput(i) ==
    NoLine(i) \/ DispatchDangling(i) \/ \E p \in Players : Handle(i, p)

FlushSlot(i) == Flush(i) \/ FlushFails(i) \/ FlushKills(i)

GcSlot(i) == GcKeeps(i) \/ GcFrees(i) \/ GcDangling(i)

Tick ==
    \/ Listen
    \/ \E i \in Slots :
         SkipSlot(i) \/ Read(i) \/ ProcessInput(i) \/ FlushSlot(i) \/ GcSlot(i)

Crash ==
    \/ Restart
    \/ \E i \in Slots, p \in Players :
         \/ CrashInCreateAccount(i, p)
         \/ \E n \in Names : CrashInCreateCharacter(i, p, n)

Next == Tick \/ Crash

Spec == Init /\ [][Next]_vars

\* The loop of server_run never blocks: poll has a timeout of 0 and every socket
\* is nonblocking.
FairSpec == Spec /\ WF_vars(Tick)

-----------------------------------------------------------------------------
(* Properties.                                                              *)

Allocated(p) == players[p] # NULL
LoggedIn(p) == Allocated(p) /\ players[p].account # NULL

\* A connection and its player point at each other (the CHECK of
\* telnet_conn_free), and a connection that may still deliver a line has a
\* player to deliver it to (the CHECK of player_handle_input), whatever
\* takeovers, quits and lost connections came before.
ConnPlayerLinked ==
    /\ \A i \in Slots : conns[i] # NULL =>
         /\ Linked(i)
         /\ conns[i].connected => conns[i].player # NULL
    /\ \A p \in Players : Allocated(p) /\ players[p].conn # NULL =>
         /\ conns[players[p].conn] # NULL
         /\ conns[players[p].conn].player = p

\* The list player_find_registered and player_name_exists search holds exactly
\* the players that are allocated.
RegistryExact == registry = { p \in Players : Allocated(p) }

\* An account is in the hands of one player at a time: logging in a second time
\* takes the first player over, and of two clients that create the same account
\* only one gets it.
OneSessionPerAccount ==
    \A p, q \in Players :
        LoggedIn(p) /\ LoggedIn(q)
          /\ players[p].account.username = players[q].account.username => p = q

\* The states in which a player has no account yet, and those with a dialogue
\* whose progress is in state_data.
ContextMatches(pl) ==
    LET ctx == pl.state_data IN
    /\ pl.account = NULL <=> pl.state \in {"menu", "account_create", "account_login"}
    /\ ctx # NULL <=> pl.state \in {"account_create", "account_login"}
    /\ pl.state = "account_create" =>
         /\ ctx.kind = "create"
         /\ ctx.step # "username" => ctx.username # NULL
    /\ pl.state = "account_login" =>
         /\ ctx.kind = "login" /\ ctx.step # "confirm"
         /\ ctx.step = "password" =>
              /\ ctx.username # NULL /\ ctx.account # NULL
              /\ ctx.account.username = ctx.username

\* What state_data points to is what the handler of the state takes it for, and
\* a player has an account from the account menu on, also when a session is
\* resumed in the middle of anything.
ContextMatchesState ==
    \A p \in Players : Allocated(p) => ContextMatches(players[p])

\* A player in the game controls a live actor that knows it, and a player never
\* keeps an actor that was freed, also after its session was taken over in the
\* middle of a game.
PlayerActorLinked ==
    \A p \in Players : Allocated(p) =>
        /\ players[p].state = "playing" => players[p].actor # NULL
        /\ players[p].actor # NULL => ActorLinked(p)

\* The CHECKs on the links between connections, players, actors and accounts
\* never fail.
AssertionsHold == server \notin {"conn_link", "actor_link", "no_actor", "no_account"}

\* Every character an account lists, on disk or in memory, has a character
\* file: player_create_character writes that file first.
OwnedCharacterHasFile ==
    /\ \A u \in Usernames : \A n \in Listed(u) : character_files[n] # NoFile
    /\ \A p \in Players : LoggedIn(p) =>
         \A n \in players[p].account.characters : character_files[n] # NoFile

\* The characters a username owns, by its file or by a player logged in with it.
Owned(u) ==
    Listed(u) \cup UNION { players[p].account.characters :
        p \in { q \in Players : LoggedIn(q) /\ players[q].account.username = u } }

\* "That name is already taken" (handle_character_creation_input): no character
\* belongs to two accounts.
NameOwnedOnce ==
    \A u, v \in Usernames : u # v => Owned(u) \cap Owned(v) = {}

\* A session outlives its connection.  Short of the process ending, a player
\* logged in to an account keeps it until its own client quits from the
\* account menu.
SessionEndsOnlyByQuit ==
    [][\A p \in Players :
         LoggedIn(p) /\ ~LoggedIn(p)' =>
            \/ Reboot
            \/ /\ Visit("process_input", cursor)
               /\ TurnIn(cursor, p, "account_menu")]_vars

\* Every line a connection has delivered is handled, unless the process stops.
LineHandled ==
    \A i \in Slots :
        conns[i] # NULL /\ conns[i].line
          ~> server # "running" \/ conns[i] = NULL \/ ~conns[i].line

\* A connection that hung up, failed or was kicked gives its slot back.
SlotReclaimed ==
    \A i \in Slots :
        conns[i] # NULL /\ ~conns[i].connected ~> server # "running" \/ conns[i] = NULL

-----------------------------------------------------------------------------
(* The sessions of the accounts, as AccountSessions describes them.         *)

SessionOf(u) == CHOOSE p \in Players : HoldsAccount(p, u)

Holder(u) ==
    IF \A p \in Players : ~HoldsAccount(p, u) THEN Free
    ELSE IF players[SessionOf(u)].conn = NULL THEN Detached
    ELSE players[SessionOf(u)].conn

AbstractSessions ==
    INSTANCE AccountSessions WITH holder <- [u \in Usernames |-> Holder(u)]

\* Players, connections, takeovers, lost connections and crashes implement the
\* exclusive, resumable sessions of AccountSessions.
ImplementsAccountSessions == AbstractSessions!Spec

\* A session whose connection was lost (telnet_conn_free) waits for its owner,
\* whatever other clients do, until the whole server starts again.
DetachedSessionWaits == AbstractSessions!DetachedWaits

-----------------------------------------------------------------------------
(* What a comment, a CHECK or a message of the code says and the code does   *)
(* not keep.                                                                 *)

\* "actor-player mismatch" (the CHECK of actor_cleanup): a live actor that has a
\* player is that player's actor.
ActorPlayerLinked ==
    \A a \in Actors : actors[a] # NULL =>
        LET p == actors[a].player IN Allocated(p) /\ players[p].actor = a

\* account_validate_username admits only what account_new accepts.
ValidUsernameAccepted == server # "username_length"
=============================================================================
