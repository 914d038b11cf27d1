--------------------------- MODULE Sessions_proofs ---------------------------
(***************************************************************************)
(* Theorems about Sessions.                                                 *)
(***************************************************************************)
EXTENDS Sessions, World_proofs

\* An account file says the username it is named after.
FilesNamed ==
    \A u \in Usernames : account_files[u] \in Account => account_files[u].username = u

\* The connection a player writes to is there and is the player's own.
PlayerConnLinked ==
    \A p \in Players : players[p] # NULL /\ players[p].conn # NULL =>
        /\ conns[players[p].conn] # NULL
        /\ conns[players[p].conn].player = p

CoreInv ==
    /\ TypeOK
    /\ CellsLinked
    /\ FilesNamed
    /\ PlayerConnLinked
    /\ ContextMatchesState
    /\ PlayerActorLinked

\* A step of the tick stays within the tick.
LEMMA AdvanceType ==
    ASSUME TypeOK, Advance
    PROVE  cursor' \in Slots /\ phase' \in Phases
  BY SessionsAssumption DEF TypeOK, Advance, Slots, Phases, NextPhase

\* The player whose turn it is, and its connection.
LEMMA TurnFacts ==
    ASSUME CoreInv, NEW i \in Slots, NEW p \in Players, Turn(i, p)
    PROVE  /\ conns[i] \in Conn /\ conns[i].player = p
           /\ players[p] \in Player /\ players[p] # NULL
           /\ players[p].conn = i
           /\ ContextMatches(players[p])
  <1>1. conns[i] # NULL /\ conns[i].player = p /\ Linked(i)
    BY DEF Turn, HasLine, IsConnected
  <1>2. p # NULL
    BY WorldAssumption
  <1>3. players[p] # NULL /\ players[p].conn = i
    BY <1>1, <1>2 DEF Linked
  <1> QED
    BY <1>1, <1>3 DEF CoreInv, TypeOK, ContextMatchesState, Allocated

\* A step that leaves every connection with the player it has, and connects none.
ConnsKept ==
    /\ conns' \in [Slots -> Conn \cup {NULL}]
    /\ \A j \in Slots :
         /\ conns'[j] = NULL <=> conns[j] = NULL
         /\ conns[j] # NULL => /\ conns'[j].player = conns[j].player
                               /\ conns'[j].connected => conns[j].connected

\* A step that changes a connection but for its player.
LEMMA ConnKept ==
    ASSUME TypeOK, NEW i \in Slots, NEW c \in Conn, conns[i] # NULL,
           c.player = conns[i].player, c.connected => conns[i].connected,
           conns' = [conns EXCEPT ![i] = c]
    PROVE  ConnsKept
  BY SessionsAssumption DEF TypeOK, ConnsKept

\* Connections that stay as they are.
LEMMA ConnsAlone ==
    ASSUME TypeOK, UNCHANGED conns
    PROVE  ConnsKept
  BY DEF TypeOK, ConnsKept

\* Players that keep their connections stay linked to them.
LEMMA PlayerConnKept ==
    ASSUME CoreInv, ConnsKept,
           \A q \in Players : players'[q] # NULL =>
               players[q] # NULL /\ players'[q].conn = players[q].conn
    PROVE  PlayerConnLinked'
  <1> SUFFICES ASSUME NEW q \in Players, players'[q] # NULL, players'[q].conn # NULL
               PROVE  /\ conns'[players'[q].conn] # NULL
                      /\ conns'[players'[q].conn].player = q
    BY DEF PlayerConnLinked
  <1>1. players[q] # NULL /\ players'[q].conn = players[q].conn
    OBVIOUS
  <1>2. /\ players[q].conn \in Slots /\ conns[players[q].conn] # NULL
        /\ conns[players[q].conn].player = q
    BY <1>1 DEF CoreInv, PlayerConnLinked, TypeOK, Player
  <1> QED BY <1>1, <1>2 DEF ConnsKept

\* The connection of a player that was answered.
LEMMA AnswerType ==
    ASSUME TypeOK, NEW i \in Slots, conns[i] # NULL, conns' = Replied(i)
    PROVE  ConnsKept
  <1> DEFINE c == [conns[i] EXCEPT !.line = FALSE, !.output = TRUE]
  <1>1. conns[i] \in Conn
    BY DEF TypeOK
  <1>2. c \in Conn /\ c.player = conns[i].player /\ c.connected = conns[i].connected
    BY <1>1 DEF Conn
  <1>3. conns' = [conns EXCEPT ![i] = c]
    BY DEF Replied, TypeOK
  <1> HIDE DEF c
  <1> QED BY <1>2, <1>3, ConnKept

\* What a handler does to its own player, as far as the invariants of the links
\* and of the player's own state go.
Rewrites(p) ==
    /\ players' = [players EXCEPT ![p] = players'[p]]
    /\ players'[p] \in Player
    /\ ContextMatches(players'[p])
    /\ players'[p].conn = players[p].conn
    /\ registry' = registry

\* The player has the actor it had, and is not in the game.
KeepsActor(p) == players'[p].actor = players[p].actor /\ players'[p].state # "playing"

\* A handler that stores the record r rewrites its player.
LEMMA RewritesBy ==
    ASSUME CoreInv, NEW p \in Players, NEW r \in Player, ContextMatches(r),
           players' = [players EXCEPT ![p] = r],
           r.conn = players[p].conn, registry' = registry
    PROVE  /\ Rewrites(p) /\ players'[p] = r
           /\ r.actor = players[p].actor /\ r.state # "playing" => KeepsActor(p)
  <1>1. players'[p] = r
    BY DEF CoreInv, TypeOK
  <1> QED BY <1>1 DEF Rewrites, KeepsActor

\* create and login open a dialogue with a context of its kind.
LEMMA MenuCommandRewrites ==
    ASSUME CoreInv, NEW i \in Slots, NEW p \in Players, MenuCommand(i, p)
    PROVE  Rewrites(p) /\ KeepsActor(p) /\ players[p].account = NULL
                       /\ players'[p].account = NULL
                       /\ players'[p].state_data.account = NULL
  <1>1. players[p] \in Player /\ players[p].state = "menu" /\ ContextMatches(players[p])
    BY TurnFacts DEF MenuCommand, TurnIn
  <1> PICK kind \in {"create", "login"} :
         players' = [players EXCEPT
             ![p].state = IF kind = "create" THEN "account_create" ELSE "account_login",
             ![p].state_data = NewContext(kind)]
    BY DEF MenuCommand
  <1> DEFINE r == [players[p] EXCEPT
             !.state = IF kind = "create" THEN "account_create" ELSE "account_login",
             !.state_data = NewContext(kind)]
  <1>2. NewContext(kind) \in Context /\ NewContext(kind) # NULL
    BY SessionsAssumption DEF NewContext, Context
  <1>3. r \in Player /\ r.conn = players[p].conn /\ r.actor = players[p].actor /\ r.state # "playing"
    BY <1>1, <1>2 DEF Player, PlayerStates
  <1>4. ContextMatches(r)
    BY <1>1, <1>2 DEF ContextMatches, Player, NewContext
  <1>5. players' = [players EXCEPT ![p] = r] /\ registry' = registry
    BY <1>1 DEF CoreInv, TypeOK, MenuCommand
  <1>6. /\ players[p].account = NULL /\ r.account = NULL
        /\ r.state_data.account = NULL
    BY <1>1 DEF ContextMatches, Player, NewContext
  <1> HIDE DEF r
  <1> QED BY <1>3, <1>4, <1>5, <1>6, RewritesBy

\* The context of a player in a dialogue.
LEMMA DialogueFacts ==
    ASSUME CoreInv, NEW i \in Slots, NEW p \in Players, NEW kind \in {"create", "login"},
           NEW step, AtStep(i, p, kind, step)
    PROVE  /\ players[p] \in Player /\ ContextMatches(players[p])
           /\ players[p].state = IF kind = "create" THEN "account_create" ELSE "account_login"
           /\ players[p].state_data \in Context /\ players[p].state_data # NULL
           /\ players[p].state_data.step = step
           /\ players[p].account = NULL
  <1>1. /\ Turn(i, p) /\ players[p].state_data.step = step
        /\ players[p].state = IF kind = "create" THEN "account_create" ELSE "account_login"
    BY DEF AtStep, TurnIn
  <1>2. players[p] \in Player /\ ContextMatches(players[p])
    BY <1>1, TurnFacts
  <1>3. players[p].state_data # NULL /\ players[p].account = NULL
    BY <1>1, <1>2 DEF ContextMatches
  <1> QED BY <1>1, <1>2, <1>3 DEF Player

\* A dialogue that goes on with another context of the same kind.
LEMMA DialogueRewrites ==
    ASSUME CoreInv, NEW i \in Slots, NEW p \in Players, NEW kind \in {"create", "login"},
           NEW step, AtStep(i, p, kind, step),
           NEW c \in Context, c.kind = kind,
           ContextMatches([players[p] EXCEPT !.state_data = c]),
           players' = [players EXCEPT ![p].state_data = c], registry' = registry
    PROVE  Rewrites(p) /\ KeepsActor(p)
                       /\ players'[p].account = NULL
                       /\ players'[p].state_data = c
  <1> DEFINE r == [players[p] EXCEPT !.state_data = c]
  <1>1. /\ players[p] \in Player /\ players[p].account = NULL
        /\ players[p].state # "playing"
    BY DialogueFacts DEF ContextMatches
  <1>2. /\ r \in Player /\ r.conn = players[p].conn
        /\ r.actor = players[p].actor /\ r.state # "playing"
        /\ r.account = NULL /\ r.state_data = c
    BY <1>1 DEF Player
  <1>3. players' = [players EXCEPT ![p] = r]
    BY <1>1 DEF CoreInv, TypeOK
  <1>4. ContextMatches(r)
    OBVIOUS
  <1> HIDE DEF r
  <1> QED BY <1>2, <1>3, <1>4, RewritesBy

\* The username is accepted.
LEMMA CreateUsernameRewrites ==
    ASSUME CoreInv, NEW i \in Slots, NEW p \in Players, NEW u \in Usernames,
           CreateUsername(i, p, u)
    PROVE  Rewrites(p) /\ KeepsActor(p)
                       /\ players'[p].account = NULL
                       /\ players'[p].state_data.account = players[p].state_data.account
                       /\ players[p].state_data # NULL
  <1> DEFINE c == [players[p].state_data EXCEPT !.username = u, !.step = "password"]
  <1>0. players[p].state_data # NULL
    BY DialogueFacts DEF CreateUsername
  <1>1. AtStep(i, p, "create", "username")
    BY DEF CreateUsername
  <1>2. /\ players[p] \in Player /\ ContextMatches(players[p])
        /\ players[p].state = "account_create" /\ players[p].state_data \in Context
    BY <1>1, DialogueFacts
  <1>3. /\ c.account = players[p].state_data.account
        /\ c \in Context /\ c # NULL /\ c.kind = "create" /\ c.username = u
    <2>1. players[p].state_data # NULL /\ players[p].state_data.kind = "create"
      BY <1>2 DEF ContextMatches
    <2> QED BY <1>2, <2>1, SessionsAssumption DEF Context
  <1>4. ContextMatches([players[p] EXCEPT !.state_data = c])
    BY <1>2, <1>3, SessionsAssumption DEF ContextMatches, Player
  <1>5. players' = [players EXCEPT ![p].state_data = c] /\ registry' = registry
    BY <1>2 DEF CreateUsername, CoreInv, TypeOK, Player, Context
  <1> HIDE DEF c
  <1> QED BY <1>0, <1>1, <1>2, <1>3, <1>4, <1>5, DialogueRewrites

\* The password is accepted.
LEMMA CreatePasswordRewrites ==
    ASSUME CoreInv, NEW i \in Slots, NEW p \in Players, CreatePassword(i, p)
    PROVE  Rewrites(p) /\ KeepsActor(p)
                       /\ players'[p].account = NULL
                       /\ players'[p].state_data.account = players[p].state_data.account
                       /\ players[p].state_data # NULL
  <1> DEFINE c == [players[p].state_data EXCEPT !.step = "confirm"]
  <1>0. players[p].state_data # NULL
    BY DialogueFacts DEF CreatePassword
  <1>1. AtStep(i, p, "create", "password")
    BY DEF CreatePassword
  <1>2. /\ players[p] \in Player /\ ContextMatches(players[p])
        /\ players[p].state = "account_create" /\ players[p].state_data \in Context
        /\ players[p].state_data.step = "password"
    BY <1>1, DialogueFacts
  <1>3. /\ c.account = players[p].state_data.account
        /\ c \in Context /\ c # NULL /\ c.kind = "create"
        /\ c.username = players[p].state_data.username /\ c.username # NULL
    BY <1>2, SessionsAssumption DEF Context, ContextMatches
  <1>4. ContextMatches([players[p] EXCEPT !.state_data = c])
    BY <1>2, <1>3, SessionsAssumption DEF ContextMatches, Player
  <1>5. players' = [players EXCEPT ![p].state_data = c] /\ registry' = registry
    BY <1>2 DEF CreatePassword, CoreInv, TypeOK, Player, Context
  <1> HIDE DEF c
  <1> QED BY <1>0, <1>1, <1>2, <1>3, <1>4, <1>5, DialogueRewrites

\* The two passwords differ: back to the first.
LEMMA ConfirmMismatchRewrites ==
    ASSUME CoreInv, NEW i \in Slots, NEW p \in Players, ConfirmMismatch(i, p)
    PROVE  Rewrites(p) /\ KeepsActor(p)
                       /\ players'[p].account = NULL
                       /\ players'[p].state_data.account = players[p].state_data.account
                       /\ players[p].state_data # NULL
  <1> DEFINE c == [players[p].state_data EXCEPT !.step = "password"]
  <1>0. players[p].state_data # NULL
    BY DialogueFacts DEF ConfirmMismatch
  <1>1. AtStep(i, p, "create", "confirm")
    BY DEF ConfirmMismatch
  <1>2. /\ players[p] \in Player /\ ContextMatches(players[p])
        /\ players[p].state = "account_create" /\ players[p].state_data \in Context
        /\ players[p].state_data.step = "confirm"
    BY <1>1, DialogueFacts
  <1>3. /\ c.account = players[p].state_data.account
        /\ c \in Context /\ c # NULL /\ c.kind = "create"
        /\ c.username = players[p].state_data.username /\ c.username # NULL
    BY <1>2, SessionsAssumption DEF Context, ContextMatches
  <1>4. ContextMatches([players[p] EXCEPT !.state_data = c])
    BY <1>2, <1>3, SessionsAssumption DEF ContextMatches, Player
  <1>5. players' = [players EXCEPT ![p].state_data = c] /\ registry' = registry
    BY <1>2 DEF ConfirmMismatch, CoreInv, TypeOK, Player, Context
  <1> HIDE DEF c
  <1> QED BY <1>0, <1>1, <1>2, <1>3, <1>4, <1>5, DialogueRewrites

\* The username was taken meanwhile: back to the username.
LEMMA ConfirmTakenRewrites ==
    ASSUME CoreInv, NEW i \in Slots, NEW p \in Players, ConfirmTaken(i, p)
    PROVE  Rewrites(p) /\ KeepsActor(p)
                       /\ players'[p].account = NULL
                       /\ players'[p].state_data.account = players[p].state_data.account
                       /\ players[p].state_data # NULL
  <1> DEFINE c == [players[p].state_data EXCEPT !.step = "username"]
  <1>0. players[p].state_data # NULL
    BY DialogueFacts DEF ConfirmTaken
  <1>1. AtStep(i, p, "create", "confirm")
    BY DEF ConfirmTaken
  <1>2. /\ players[p] \in Player /\ ContextMatches(players[p])
        /\ players[p].state = "account_create" /\ players[p].state_data \in Context
        /\ players[p].state_data.step = "confirm"
    BY <1>1, DialogueFacts
  <1>3. /\ c.account = players[p].state_data.account
        /\ c \in Context /\ c # NULL /\ c.kind = "create"
        /\ c.username = players[p].state_data.username /\ c.username # NULL
    BY <1>2, SessionsAssumption DEF Context, ContextMatches
  <1>4. ContextMatches([players[p] EXCEPT !.state_data = c])
    BY <1>2, <1>3, SessionsAssumption DEF ContextMatches, Player
  <1>5. players' = [players EXCEPT ![p].state_data = c] /\ registry' = registry
    BY <1>2 DEF ConfirmTaken, CoreInv, TypeOK, Player, Context
  <1> HIDE DEF c
  <1> QED BY <1>0, <1>1, <1>2, <1>3, <1>4, <1>5, DialogueRewrites

\* The account of the username is loaded into the context.
LEMMA LoginUsernameRewrites ==
    ASSUME CoreInv, NEW i \in Slots, NEW p \in Players, NEW u \in Usernames,
           LoginUsername(i, p, u)
    PROVE  Rewrites(p) /\ KeepsActor(p)
                       /\ players'[p].account = NULL
                       /\ players'[p].state_data.account = account_files[u]
                       /\ account_files[u] \in Account /\ account_files[u].username = u
  <1> DEFINE c == [players[p].state_data EXCEPT
                     !.username = u, !.account = account_files[u], !.step = "password"]
  <1>1. AtStep(i, p, "login", "username")
    BY DEF LoginUsername
  <1>2. /\ players[p] \in Player /\ ContextMatches(players[p])
        /\ players[p].state = "account_login" /\ players[p].state_data \in Context
    BY <1>1, DialogueFacts
  <1>3. account_files[u] \in Account /\ account_files[u].username = u
    BY DEF LoginUsername, account_loadable, CoreInv, TypeOK, DiskTypeOK, FilesNamed
  <1>4. /\ c \in Context /\ c # NULL /\ c.kind = "login" /\ c.step = "password"
        /\ c.username = u /\ c.account = account_files[u]
    <2>1. players[p].state_data # NULL /\ players[p].state_data.kind = "login"
      BY <1>2 DEF ContextMatches
    <2> QED BY <1>2, <1>3, <2>1, SessionsAssumption DEF Context
  <1>5. ContextMatches([players[p] EXCEPT !.state_data = c])
    BY <1>2, <1>3, <1>4, SessionsAssumption DEF ContextMatches, Player
  <1>6. players' = [players EXCEPT ![p].state_data = c] /\ registry' = registry
    BY <1>2 DEF LoginUsername, account_load, CoreInv, TypeOK, Player, Context
  <1> HIDE DEF c
  <1> QED BY <1>1, <1>3, <1>4, <1>5, <1>6, DialogueRewrites

\* The dialogue ends with a new account.
LEMMA CreateAccountRewrites ==
    ASSUME CoreInv, NEW i \in Slots, NEW p \in Players, CreateAccount(i, p)
    PROVE  /\ Rewrites(p) /\ KeepsActor(p)
           /\ players[p].account = NULL
           /\ players[p].state_data.username \in Usernames
           /\ players'[p].account = account_new(players[p].state_data.username)
  <1> DEFINE acct == account_new(players[p].state_data.username)
             r == [players[p] EXCEPT !.state_data = NULL, !.account = acct,
                                     !.state = "account_menu"]
  <1>1. AtStep(i, p, "create", "confirm")
    BY DEF CreateAccount, Confirmed
  <1>2. /\ players[p] \in Player /\ ContextMatches(players[p])
        /\ players[p].state = "account_create" /\ players[p].state_data \in Context
        /\ players[p].state_data.step = "confirm"
        /\ players[p].account = NULL
    BY <1>1, DialogueFacts
  <1>3. players[p].state_data.username \in Usernames
    BY <1>2, SessionsAssumption DEF Context, ContextMatches
  <1>4. acct \in Account /\ acct # NULL
    BY <1>3, SessionsAssumption DEF account_new, Account
  <1>5. players' = [players EXCEPT ![p] = r] /\ registry' = registry
    BY <1>2 DEF CreateAccount, CoreInv, TypeOK
  <1> HIDE DEF acct
  <1>6. /\ r \in Player /\ r.conn = players[p].conn
        /\ r.actor = players[p].actor /\ r.state # "playing"
        /\ r.account = acct /\ ContextMatches(r)
    BY <1>2, <1>4 DEF Player, PlayerStates, ContextMatches
  <1> HIDE DEF r
  <1>7. Rewrites(p) /\ KeepsActor(p) /\ players'[p] = r
    BY <1>5, <1>6, RewritesBy
  <1> QED BY <1>2, <1>3, <1>6, <1>7 DEF acct

\* The dialogue ends with the account it loaded.
LEMMA LoginAccountRewrites ==
    ASSUME CoreInv, NEW i \in Slots, NEW p \in Players, LoginAccount(i, p)
    PROVE  /\ Rewrites(p) /\ KeepsActor(p)
           /\ players[p].account = NULL
           /\ players'[p].account = players[p].state_data.account
           /\ players'[p].account.username = players[p].state_data.username
           /\ players[p].state_data.username \in Usernames
  <1> DEFINE acct == players[p].state_data.account
             r == [players[p] EXCEPT !.state_data = NULL, !.account = acct,
                                     !.state = "account_menu"]
  <1>1. AtStep(i, p, "login", "password")
    BY DEF LoginAccount
  <1>2. /\ players[p] \in Player /\ ContextMatches(players[p])
        /\ players[p].state = "account_login" /\ players[p].state_data \in Context
        /\ players[p].state_data.step = "password"
        /\ players[p].account = NULL
    BY <1>1, DialogueFacts
  <1>3. /\ acct \in Account /\ acct # NULL
        /\ acct.username = players[p].state_data.username
        /\ players[p].state_data.username \in Usernames
    BY <1>2, SessionsAssumption DEF Context, ContextMatches
  <1>4. players' = [players EXCEPT ![p] = r] /\ registry' = registry
    BY <1>2 DEF LoginAccount, CoreInv, TypeOK
  <1>5. /\ r \in Player /\ r.conn = players[p].conn
        /\ r.actor = players[p].actor /\ r.state # "playing"
        /\ r.account = acct /\ ContextMatches(r)
    BY <1>2, <1>3 DEF Player, PlayerStates, ContextMatches
  <1> HIDE DEF r
  <1>6. Rewrites(p) /\ KeepsActor(p) /\ players'[p] = r
    BY <1>4, <1>5, RewritesBy
  <1> QED BY <1>2, <1>3, <1>5, <1>6

\* A player goes to character creation with the account it has.
LEMMA MenuCreateRewrites ==
    ASSUME CoreInv, NEW i \in Slots, NEW p \in Players, MenuCreate(i, p)
    PROVE  Rewrites(p) /\ KeepsActor(p)
                       /\ players'[p].account = players[p].account
  <1> DEFINE r == [players[p] EXCEPT !.state = "character_creation"]
  <1>1. players[p] \in Player /\ players[p].state = "account_menu" /\ ContextMatches(players[p])
    BY TurnFacts DEF MenuCreate, TurnIn
  <1>2. /\ r \in Player /\ r.conn = players[p].conn
        /\ r.actor = players[p].actor /\ r.state # "playing"
        /\ r.account = players[p].account /\ ContextMatches(r)
    BY <1>1 DEF Player, PlayerStates, ContextMatches
  <1>3. players' = [players EXCEPT ![p] = r] /\ registry' = registry
    BY <1>1 DEF MenuCreate, CoreInv, TypeOK
  <1> HIDE DEF r
  <1>4. Rewrites(p) /\ KeepsActor(p) /\ players'[p] = r
    BY <1>2, <1>3, RewritesBy
  <1> QED BY <1>2, <1>4

\* A player enters the game with a new actor.
LEMMA PlayRewrites ==
    ASSUME CoreInv, NEW i \in Slots, NEW p \in Players, NEW n \in Names, NEW a \in Actors,
           Play(i, p, n, a)
    PROVE  Rewrites(p) /\ players'[p].actor = a
                       /\ players'[p].account = players[p].account
  <1> DEFINE r == [players[p] EXCEPT !.state = "playing", !.actor = a]
  <1>1. players[p] \in Player /\ players[p].state = "account_menu" /\ ContextMatches(players[p])
    BY TurnFacts DEF Play, TurnIn
  <1>2. /\ r \in Player /\ r.conn = players[p].conn /\ r.actor = a
        /\ r.account = players[p].account /\ ContextMatches(r)
    BY <1>1 DEF Player, PlayerStates, ContextMatches
  <1>3. players' = [players EXCEPT ![p] = r] /\ registry' = registry
    BY <1>1 DEF Play, CoreInv, TypeOK
  <1> HIDE DEF r
  <1>4. Rewrites(p) /\ players'[p] = r
    BY <1>2, <1>3, RewritesBy
  <1> QED BY <1>2, <1>4

\* A player leaves the game without an actor.
LEMMA LeavesRewrites ==
    ASSUME CoreInv, NEW i \in Slots, NEW p \in Players, TurnIn(i, p, "playing"), Leaves(i, p)
    PROVE  Rewrites(p) /\ players'[p].actor = NULL
                       /\ players'[p].account = players[p].account
  <1> DEFINE r == [players[p] EXCEPT !.actor = NULL, !.state = "account_menu"]
  <1>1. players[p] \in Player /\ players[p].state = "playing" /\ ContextMatches(players[p])
    BY TurnFacts DEF TurnIn
  <1>2. /\ r \in Player /\ r.conn = players[p].conn /\ r.actor = NULL
        /\ r.account = players[p].account /\ ContextMatches(r)
    BY <1>1 DEF Player, PlayerStates, ContextMatches
  <1>3. players' = [players EXCEPT ![p] = r] /\ registry' = registry
    BY <1>1 DEF Leaves, PlayersLeft, CoreInv, TypeOK
  <1> HIDE DEF r
  <1>4. Rewrites(p) /\ players'[p] = r
    BY <1>2, <1>3, RewritesBy
  <1> QED BY <1>2, <1>4

\* A character is added to the account of the player.
LEMMA CreateCharacterRewrites ==
    ASSUME CoreInv, NEW i \in Slots, NEW p \in Players, NEW n \in Names,
           players[p].account # NULL, CreateCharacter(i, p, n)
    PROVE  /\ Rewrites(p) /\ KeepsActor(p)
           /\ players[p].account \in Account
           /\ players'[p].account = account_add_character(players[p].account, n)
           /\ players'[p].account \in Account
           /\ players'[p].account.username = players[p].account.username
  <1> DEFINE acct == account_add_character(players[p].account, n)
             r == [players[p] EXCEPT !.account = acct, !.state = "account_menu"]
  <1>1. /\ players[p] \in Player /\ players[p].state = "character_creation"
        /\ ContextMatches(players[p])
    BY TurnFacts DEF CreateCharacter, NameAccepted, TurnIn
  <1>2. players[p].account \in Account
    BY <1>1 DEF Player
  <1>3. acct \in Account /\ acct.username = players[p].account.username /\ acct # NULL
    BY <1>2, AccountsAssumption, SessionsAssumption DEF account_add_character, Account
  <1> HIDE DEF acct
  <1>4. /\ r \in Player /\ r.conn = players[p].conn
        /\ r.actor = players[p].actor /\ r.state # "playing"
        /\ r.account = acct /\ ContextMatches(r)
    BY <1>1, <1>3 DEF Player, PlayerStates, ContextMatches
  <1>5. players' = [players EXCEPT ![p] = r] /\ registry' = registry
    BY <1>1 DEF CreateCharacter, Answer, CoreInv, TypeOK, acct
  <1> HIDE DEF r
  <1>6. Rewrites(p) /\ KeepsActor(p) /\ players'[p] = r
    BY <1>4, <1>5, RewritesBy
  <1> QED BY <1>2, <1>3, <1>4, <1>6 DEF acct

-----------------------------------------------------------------------------
(* Steps that leave every player alone.                                     *)

\* A step that changes nothing but the process, the tick and the connections.
LEMMA PlayersAlone ==
    ASSUME CoreInv, UNCHANGED <<players, registry, worldVars, diskVars>>,
           server' \in Statuses, cursor' \in Slots, phase' \in Phases,
           ConnsKept
    PROVE  CoreInv'
  <1>1. PlayerConnLinked'
    BY PlayerConnKept
  <1>2. TypeOK' /\ CellsLinked' /\ FilesNamed'
    BY DEF CoreInv, TypeOK, ConnsKept, WorldTypeOK, DiskTypeOK, worldVars, diskVars,
           CellsLinked, FilesNamed
  <1>3. ContextMatchesState' /\ PlayerActorLinked'
    BY DEF CoreInv, worldVars, ContextMatchesState, PlayerActorLinked, ContextMatches,
           Allocated, ActorLinked
  <1> QED BY <1>1, <1>2, <1>3 DEF CoreInv

\* A CHECK that fails.
LEMMA AbortCore ==
    ASSUME CoreInv, NEW check \in Statuses, Abort(check)
    PROVE  CoreInv'
  <1>1. /\ UNCHANGED <<players, registry, worldVars, diskVars>>
        /\ cursor' \in Slots /\ phase' \in Phases
        /\ UNCHANGED conns /\ TypeOK /\ server' \in Statuses
    BY DEF Abort, tickVars, playerVars, CoreInv, TypeOK
  <1> QED BY <1>1, ConnsAlone, PlayersAlone

\* The processes of the tick that only read sockets or write to them.
NetworkStep(i) ==
    \/ SkipSlot(i) \/ EndListen \/ Read(i) \/ FlushSlot(i)
    \/ GcKeeps(i) \/ GcDangling(i) \/ NoLine(i) \/ DispatchDangling(i)

\* They leave the connections with their players.
LEMMA NetworkConns ==
    ASSUME CoreInv, NEW i \in Slots, NetworkStep(i)
    PROVE  ConnsKept
  <1>1. TypeOK
    BY DEF CoreInv
  <1>2. \/ UNCHANGED conns
        \/ /\ IsConnected(i)
           /\ \/ conns' = [conns EXCEPT ![i].line = TRUE]
              \/ conns' = [conns EXCEPT ![i].connected = FALSE]
              \/ conns' = [conns EXCEPT ![i].output = FALSE]
    BY DEF NetworkStep, SkipSlot, EndListen, Read, ReadNoLine, ReadLine, ReadEnd, FlushSlot, Flush,
         FlushFails, FlushKills, GcKeeps, GcDangling, NoLine, DispatchDangling
  <1>3. CASE UNCHANGED conns
    BY <1>1, <1>3, ConnsAlone
  <1>4. CASE /\ IsConnected(i)
             /\ \/ conns' = [conns EXCEPT ![i].line = TRUE]
                \/ conns' = [conns EXCEPT ![i].connected = FALSE]
                \/ conns' = [conns EXCEPT ![i].output = FALSE]
    <2>1. conns[i] \in Conn /\ conns[i] # NULL /\ conns[i].connected
      BY <1>1, <1>4 DEF IsConnected, TypeOK
    <2>2. PICK c \in {[conns[i] EXCEPT !.line = TRUE], [conns[i] EXCEPT !.connected = FALSE],
                      [conns[i] EXCEPT !.output = FALSE]} : conns' = [conns EXCEPT ![i] = c]
      BY <1>1, <1>4 DEF TypeOK
    <2>3. c \in Conn /\ c.player = conns[i].player
      BY <2>1 DEF Conn
    <2> QED BY <1>1, <2>1, <2>2, <2>3, ConnKept
  <1> QED BY <1>2, <1>3, <1>4

\* They leave the players alone.
LEMMA NetworkCore ==
    ASSUME CoreInv, NEW i \in Slots, NetworkStep(i)
    PROVE  CoreInv'
  <1>1. UNCHANGED <<players, registry, worldVars, diskVars>>
    BY DEF NetworkStep, SkipSlot, EndListen, Read, ReadNoLine, ReadLine, ReadEnd, FlushSlot, Flush,
           FlushFails, FlushKills, GcKeeps, GcDangling, NoLine, DispatchDangling, playerVars
  <1>2. server' \in Statuses
    BY DEF NetworkStep, SkipSlot, EndListen, Read, ReadNoLine, ReadLine, ReadEnd, FlushSlot, Flush,
           FlushFails, FlushKills, GcKeeps, GcDangling, NoLine, DispatchDangling,
           CoreInv, TypeOK, Statuses, CheckFailures
  <1>3. cursor' \in Slots /\ phase' \in Phases
    <2>1. TypeOK
      BY DEF CoreInv
    <2>2. Advance \/ UNCHANGED tickVars \/ (phase' = "read" /\ UNCHANGED cursor)
      BY DEF NetworkStep, SkipSlot, EndListen, Read, ReadNoLine, ReadLine, ReadEnd, FlushSlot, Flush,
           FlushFails, FlushKills, GcKeeps, GcDangling, NoLine, DispatchDangling
    <2> QED BY <2>1, <2>2, AdvanceType DEF TypeOK, tickVars, Phases
  <1>4. ConnsKept
    BY NetworkConns
  <1> QED BY <1>1, <1>2, <1>3, <1>4, PlayersAlone

\* An answer that leaves the player where it is.
LEMMA RefuseLineCore ==
    ASSUME CoreInv, NEW i \in Slots, NEW p \in Players, RefuseLine(i, p)
    PROVE  CoreInv'
  <1>1. /\ UNCHANGED <<players, registry, worldVars, diskVars>>
        /\ Turn(i, p) /\ Advance /\ conns' = Replied(i) /\ server' = server
    BY DEF RefuseLine, Answer, playerVars
  <1>2. TypeOK /\ conns[i] # NULL
    BY <1>1 DEF CoreInv, Turn, HasLine, IsConnected
  <1>3. server' \in Statuses /\ cursor' \in Slots /\ phase' \in Phases
    BY <1>1, <1>2, AdvanceType DEF TypeOK
  <1>4. ConnsKept
    BY <1>1, <1>2, AnswerType
  <1> QED BY <1>1, <1>3, <1>4, PlayersAlone

-----------------------------------------------------------------------------
(* Steps that rewrite the player whose turn it is.                          *)

\* A handler that rewrites its player.  What is left to show is that the other
\* variables keep their types and that actors stay linked to their players.
LEMMA RewritesCore ==
    ASSUME CoreInv, NEW p \in Players, players[p] # NULL, Rewrites(p),
           server' \in Statuses, cursor' \in Slots, phase' \in Phases,
           ConnsKept,
           WorldInv', DiskTypeOK', FilesNamed', PlayerActorLinked'
    PROVE  CoreInv'
  <1>1. players' \in [Players -> Player \cup {NULL}]
    BY DEF Rewrites, CoreInv, TypeOK
  <1>2. registry' \in SUBSET Players
    BY DEF Rewrites, CoreInv, TypeOK
  <1>3. ContextMatchesState'
    <2> SUFFICES ASSUME NEW q \in Players, players'[q] # NULL
                 PROVE  ContextMatches(players'[q])
      BY DEF ContextMatchesState, Allocated, ContextMatches
    <2>1. q # p => players'[q] = players[q]
      BY DEF Rewrites, CoreInv, TypeOK
    <2> QED BY <2>1 DEF Rewrites, CoreInv, ContextMatchesState, Allocated
  <1>4. PlayerConnLinked'
    <2>1. ASSUME NEW q \in Players, players'[q] # NULL, players[p] # NULL
          PROVE  players[q] # NULL /\ players'[q].conn = players[q].conn
      BY <2>1 DEF Rewrites, CoreInv, TypeOK
    <2> QED BY <2>1, PlayerConnKept
  <1> QED BY <1>1, <1>2, <1>3, <1>4 DEF CoreInv, TypeOK, WorldInv, ConnsKept

\* A handler that answers, and changes neither the actor of its player nor the
\* world.
LEMMA AnswerCore ==
    ASSUME CoreInv, NEW i \in Slots, NEW p \in Players, Turn(i, p),
           Rewrites(p), KeepsActor(p), Answer(i), UNCHANGED worldVars,
           DiskTypeOK', FilesNamed'
    PROVE  CoreInv'
  <1>1. TypeOK /\ conns[i] # NULL /\ players[p] # NULL
    BY TurnFacts DEF CoreInv, Turn, HasLine, IsConnected
  <1>2. server' \in Statuses /\ cursor' \in Slots /\ phase' \in Phases
    BY <1>1, AdvanceType DEF Answer, TypeOK
  <1>3. ConnsKept
    BY <1>1, AnswerType DEF Answer
  <1>4. WorldInv'
    BY DEF CoreInv, TypeOK, WorldInv, WorldTypeOK, CellsLinked, worldVars
  <1>5. PlayerActorLinked'
    <2> SUFFICES ASSUME NEW q \in Players, players'[q] # NULL
                 PROVE  /\ players'[q].state = "playing" => players'[q].actor # NULL
                        /\ players'[q].actor # NULL =>
                              /\ actors[players'[q].actor] # NULL
                              /\ actors[players'[q].actor].player = q
      BY DEF PlayerActorLinked, Allocated, ActorLinked, worldVars
    <2>1. q # p => players'[q] = players[q]
      BY DEF Rewrites, CoreInv, TypeOK
    <2> QED
      BY <1>1, <2>1 DEF KeepsActor, CoreInv, PlayerActorLinked, Allocated, ActorLinked
  <1> QED BY <1>1, <1>2, <1>3, <1>4, <1>5, RewritesCore

\* Files that are left alone.
LEMMA DiskAlone ==
    ASSUME CoreInv, UNCHANGED diskVars
    PROVE  DiskTypeOK' /\ FilesNamed'
  BY DEF CoreInv, TypeOK, diskVars, DiskTypeOK, FilesNamed

\* account_save writes the file the account is named after.
LEMMA AccountSavedFiles ==
    ASSUME CoreInv, NEW acct \in Account,
           account_files' = AccountSaved(acct),
           character_files' \in [Names -> Locations \cup {NoFile, TornFile}]
    PROVE  DiskTypeOK' /\ FilesNamed'
  BY DEF CoreInv, TypeOK, DiskTypeOK, FilesNamed, AccountSaved, Account

\* The dialogues, and every other handler that only answers.
LEMMA DialogueCore ==
    ASSUME CoreInv, NEW i \in Slots, NEW p \in Players,
           \/ MenuCommand(i, p)
           \/ \E u \in Usernames : CreateUsername(i, p, u) \/ LoginUsername(i, p, u)
           \/ CreatePassword(i, p) \/ ConfirmMismatch(i, p) \/ ConfirmTaken(i, p)
           \/ LoginAccount(i, p) \/ MenuCreate(i, p)
    PROVE  CoreInv'
  <1>1. Rewrites(p) /\ KeepsActor(p)
    BY MenuCommandRewrites, CreateUsernameRewrites, LoginUsernameRewrites,
       CreatePasswordRewrites, ConfirmMismatchRewrites, ConfirmTakenRewrites,
       LoginAccountRewrites, MenuCreateRewrites
  <1>2. /\ Turn(i, p) /\ Answer(i)
        /\ UNCHANGED worldVars /\ UNCHANGED diskVars
    BY DEF MenuCommand, CreateUsername, LoginUsername, CreatePassword, ConfirmMismatch,
           ConfirmTaken, LoginAccount, MenuCreate, AtStep, TurnIn
  <1> QED BY <1>1, <1>2, DiskAlone, AnswerCore

\* A new account is saved under its own username.
LEMMA CreateAccountCore ==
    ASSUME CoreInv, NEW i \in Slots, NEW p \in Players, CreateAccount(i, p)
    PROVE  CoreInv'
  <1>1. /\ Rewrites(p) /\ KeepsActor(p)
        /\ players[p].state_data.username \in Usernames
    BY CreateAccountRewrites
  <1>2. /\ Turn(i, p) /\ Answer(i) /\ UNCHANGED worldVars
        /\ account_files' = AccountSaved(account_new(players[p].state_data.username))
        /\ character_files' = character_files
    BY DEF CreateAccount, Confirmed, AtStep, TurnIn
  <1>3. account_new(players[p].state_data.username) \in Account
    BY <1>1 DEF account_new, Account
  <1>4. DiskTypeOK' /\ FilesNamed'
    BY <1>2, <1>3, AccountSavedFiles DEF CoreInv, TypeOK, DiskTypeOK
  <1> QED BY <1>1, <1>2, <1>4, AnswerCore

\* A character is saved, then the account that lists it.
LEMMA CreateCharacterCore ==
    ASSUME CoreInv, NEW i \in Slots, NEW p \in Players, NEW n \in Names,
           CreateCharacter(i, p, n)
    PROVE  CoreInv'
  <1>1. CASE players[p].account = NULL
    <2>1. Abort("no_account") /\ "no_account" \in Statuses
      BY <1>1 DEF CreateCharacter, Statuses, CheckFailures
    <2> QED BY <2>1, AbortCore
  <1>2. CASE players[p].account # NULL
    <2>1. /\ Rewrites(p) /\ KeepsActor(p)
          /\ account_add_character(players[p].account, n) \in Account
      BY <1>2, CreateCharacterRewrites
    <2>2. /\ Turn(i, p) /\ Answer(i) /\ UNCHANGED worldVars
          /\ account_files' = AccountSaved(account_add_character(players[p].account, n))
          /\ character_files' = CharacterSaved(n)
      BY <1>2 DEF CreateCharacter, NameAccepted, TurnIn
    <2>3. CharacterSaved(n) \in [Names -> Locations \cup {NoFile, TornFile}]
      BY AccountsAssumption DEF CharacterSaved, CoreInv, TypeOK, DiskTypeOK
    <2>4. DiskTypeOK' /\ FilesNamed'
      BY <2>1, <2>2, <2>3, AccountSavedFiles
    <2> QED BY <2>1, <2>2, <2>4, AnswerCore
  <1> QED BY <1>1, <1>2

-----------------------------------------------------------------------------
(* Steps that change the world.                                             *)

\* player_state_enter_playing: the new actor was nobody's before.
LEMMA PlayCore ==
    ASSUME CoreInv, NEW i \in Slots, NEW p \in Players, NEW n \in Names, NEW a \in Actors,
           Play(i, p, n, a)
    PROVE  CoreInv'
  <1>1. /\ Rewrites(p) /\ players'[p].actor = a /\ Turn(i, p) /\ Advance
        /\ conns' = Replied(i) /\ UNCHANGED diskVars
        /\ EnterWorld(a, Lower[n], character_location(n), p)
        /\ character_location(n) \in Rooms
    BY PlayRewrites DEF Play, TurnIn
  <1>2. /\ TypeOK /\ conns[i] # NULL /\ WorldInv /\ Lower[n] \in Names
        /\ players[p] # NULL
    BY <1>1, TurnFacts, AccountsAssumption DEF CoreInv, TypeOK, WorldInv, Turn, HasLine, IsConnected
  <1>3. WorldInv' /\ server' \in Statuses
    BY <1>1, <1>2, EnterWorldInv
  <1>4. cursor' \in Slots /\ phase' \in Phases
    BY <1>1, <1>2, AdvanceType
  <1>5. ConnsKept
    BY <1>1, <1>2, AnswerType
  <1>6. PlayerActorLinked'
    <2>1. /\ actors[a] = NULL
          /\ actors' = [actors EXCEPT ![a] = [name |-> Lower[n],
                              location |-> character_location(n), player |-> p]]
      BY <1>1 DEF EnterWorld, Allocatable
    <2>2. actors'[a] # NULL /\ actors'[a].player = p
      <3>1. actors'[a] = [name |-> Lower[n], location |-> character_location(n),
                          player |-> p]
        BY <1>2, <2>1 DEF WorldInv, WorldTypeOK
      <3>2. actors'[a] \in Actor
        BY <1>1, <1>2, <3>1 DEF Actor
      <3> QED BY <3>1, <3>2, WorldAssumption
    <2>3. ASSUME NEW q \in Players, players'[q] # NULL, q # p
          PROVE  /\ players'[q] = players[q]
                 /\ players[q].actor # NULL => actors'[players[q].actor] = actors[players[q].actor]
      <3>1. players'[q] = players[q]
        BY <1>1, <2>3 DEF Rewrites, CoreInv, TypeOK
      <3>2. players[q].actor # NULL => players[q].actor # a
        BY <2>1, <2>3, <3>1 DEF CoreInv, PlayerActorLinked, Allocated, ActorLinked
      <3> QED BY <2>1, <3>1, <3>2 DEF CoreInv, TypeOK, WorldTypeOK
    <2> QED
      BY <1>1, <2>2, <2>3, WorldAssumption
      DEF CoreInv, PlayerActorLinked, Allocated, ActorLinked
  <1> QED BY <1>1, <1>2, <1>3, <1>4, <1>5, <1>6, DiskAlone, RewritesCore

\* actor_free of an actor that was linked to player p takes it from nobody else.
LEMMA LeaveWorldLinks ==
    ASSUME CoreInv, NEW p \in Players, players[p] # NULL, players[p].actor # NULL,
           LeaveWorld(players[p].actor)
    PROVE  \A q \in Players : players[q] # NULL /\ q # p /\ players[q].actor # NULL =>
              /\ actors'[players[q].actor] = actors[players[q].actor]
              /\ actors'[players[q].actor] # NULL
              /\ actors'[players[q].actor].player = q
  <1>1. /\ players[p].actor \in Actors
        /\ actors[players[p].actor].player = p
    BY DEF CoreInv, TypeOK, Player, PlayerActorLinked, Allocated, ActorLinked
  <1> SUFFICES ASSUME NEW q \in Players, players[q] # NULL, q # p, players[q].actor # NULL
               PROVE  /\ actors'[players[q].actor] = actors[players[q].actor]
                      /\ actors'[players[q].actor] # NULL
                      /\ actors'[players[q].actor].player = q
    OBVIOUS
  <1>2. /\ players[q].actor \in Actors /\ actors[players[q].actor] # NULL
        /\ actors[players[q].actor].player = q
    BY DEF CoreInv, TypeOK, Player, PlayerActorLinked, Allocated, ActorLinked
  <1>3. actors'[players[q].actor] = actors[players[q].actor]
    BY <1>1, <1>2 DEF LeaveWorld, CoreInv, TypeOK, WorldTypeOK
  <1> QED BY <1>2, <1>3

\* The quit of a player in the game.
LEMMA LeavesCore ==
    ASSUME CoreInv, NEW i \in Slots, NEW p \in Players,
           TurnIn(i, p, "playing"), players[p].actor # NULL, Leaves(i, p),
           Advance, UNCHANGED diskVars
    PROVE  CoreInv'
  <1>1. /\ Rewrites(p) /\ players'[p].actor = NULL /\ Turn(i, p)
        /\ conns' = Replied(i) /\ LeaveWorld(players[p].actor)
        /\ server' \in {"running", "actor_link"}
    BY LeavesRewrites DEF Leaves, TurnIn
  <1>2. /\ TypeOK /\ conns[i] # NULL /\ WorldInv /\ players[p] # NULL
        /\ players[p].actor \in Actors
    BY <1>1, TurnFacts DEF CoreInv, TypeOK, WorldInv, Turn, HasLine, IsConnected, Player
  <1>3. WorldInv' /\ server' \in Statuses
    BY <1>1, <1>2, LeaveWorldInv DEF Statuses, CheckFailures
  <1>4. cursor' \in Slots /\ phase' \in Phases
    BY <1>2, AdvanceType
  <1>5. ConnsKept
    BY <1>1, <1>2, AnswerType
  <1>6. PlayerActorLinked'
    <2>1. players'[p].state # "playing"
      BY <1>2 DEF Leaves, PlayersLeft, TypeOK, Player
    <2>2. \A q \in Players : q # p => players'[q] = players[q]
      BY <1>1 DEF Rewrites, CoreInv, TypeOK
    <2> QED
      BY <1>1, <1>2, <2>1, <2>2, LeaveWorldLinks
      DEF CoreInv, PlayerActorLinked, Allocated, ActorLinked
  <1> QED BY <1>1, <1>2, <1>3, <1>4, <1>5, <1>6, DiskAlone, RewritesCore

\* A walk changes where an actor is, and whose it is in no case.
LEMMA WalkToPlayers ==
    ASSUME WorldInv, NEW a \in Actors, actors[a] # NULL, NEW to \in Rooms, WalkTo(a, to)
    PROVE  \A b \in Actors : actors[b] # NULL =>
              actors'[b] # NULL /\ actors'[b].player = actors[b].player
  <1>1. actors' = actors \/ actors' = [actors EXCEPT ![a].location = to]
    BY DEF WalkTo, worldVars
  <1>2. actors[a] \in Actor
    BY DEF WorldInv, WorldTypeOK
  <1>3. [actors[a] EXCEPT !.location = to] \in Actor
    BY <1>2 DEF Actor
  <1>4. [actors[a] EXCEPT !.location = to] # NULL
    BY <1>3, WorldAssumption
  <1> QED BY <1>1, <1>2, <1>4 DEF WorldInv, WorldTypeOK, Actor

\* What an actor that moves is perceived by gets output, and keeps its player.
LEMMA PerceivedType ==
    ASSUME TypeOK, NEW i \in Slots, conns[i] # NULL, NEW slots,
           conns' = Perceived(i, slots)
    PROVE  ConnsKept
  <1>1. conns[i] \in Conn /\ Replied(i)[i] = [conns[i] EXCEPT !.line = FALSE, !.output = TRUE]
    BY DEF TypeOK, Replied
  <1>2. ASSUME NEW j \in Slots, NEW c \in Conn, c.player = conns[j].player,
               c.connected = conns[j].connected, conns[j] # NULL, conns'[j] = c
        PROVE  /\ conns'[j] \in Conn /\ conns'[j] # NULL
               /\ conns'[j].player = conns[j].player
               /\ conns'[j].connected => conns[j].connected
    BY <1>2, SessionsAssumption
  <1>3. ASSUME NEW j \in Slots
        PROVE  /\ conns'[j] \in Conn \cup {NULL}
               /\ conns'[j] = NULL <=> conns[j] = NULL
               /\ conns[j] # NULL => /\ conns'[j].player = conns[j].player
                                     /\ conns'[j].connected => conns[j].connected
    <2>1. CASE j = i
      <3>1. Replied(i)[i] \in Conn /\ Replied(i)[i].player = conns[i].player
            /\ Replied(i)[i].connected = conns[i].connected
        BY <1>1 DEF Conn
      <3>2. conns'[i] = Replied(i)[i]
        BY DEF Perceived
      <3> HIDE DEF Replied
      <3> QED BY <2>1, <3>1, <3>2, <1>2
    <2>2. CASE j # i /\ conns'[j] = conns[j]
      BY <2>2 DEF TypeOK
    <2>3. CASE j # i /\ conns'[j] # conns[j]
      <3>1. IsConnected(j) /\ conns'[j] = [conns[j] EXCEPT !.output = TRUE]
        BY <2>3 DEF Perceived
      <3>2. conns[j] \in Conn /\ conns[j] # NULL
        BY <3>1 DEF IsConnected, TypeOK
      <3>3. [conns[j] EXCEPT !.output = TRUE] \in Conn
            /\ [conns[j] EXCEPT !.output = TRUE].player = conns[j].player
            /\ [conns[j] EXCEPT !.output = TRUE].connected = conns[j].connected
        BY <3>2 DEF Conn
      <3> QED BY <3>1, <3>2, <3>3, <1>2
    <2> QED BY <2>1, <2>2, <2>3
  <1>4. conns' \in [Slots -> Conn \cup {NULL}]
    BY <1>3 DEF Perceived
  <1> QED BY <1>3, <1>4 DEF ConnsKept

\* Whoever perceives a look or a move keeps its player.
LEMMA SightConns ==
    ASSUME CoreInv, NEW i \in Slots, NEW p \in Players, NEW a \in Actors, Turn(i, p),
           Looks(i, a) \/ \E to \in Rooms : Walks(i, a, to)
    PROVE  ConnsKept
  <1>1. TypeOK /\ conns[i] # NULL
    BY DEF CoreInv, Turn, HasLine, IsConnected
  <1>2. CASE conns' = Replied(i)
    BY <1>1, <1>2, AnswerType
  <1>3. CASE \E slots : conns' = Perceived(i, slots)
    BY <1>1, <1>3, PerceivedType
  <1> QED BY <1>2, <1>3 DEF Looks, Walks

\* A look or a move changes no player.
LEMMA SightCore ==
    ASSUME CoreInv, NEW i \in Slots, NEW p \in Players, NEW a \in Actors,
           TurnIn(i, p, "playing"), players[p].actor = a,
           Looks(i, a) \/ \E to \in Rooms : Walks(i, a, to),
           Advance, UNCHANGED diskVars
    PROVE  CoreInv'
  <1>1. /\ TypeOK /\ conns[i] # NULL /\ WorldInv /\ players[p] # NULL
        /\ actors[a] # NULL
    <2>1. TypeOK /\ conns[i] # NULL /\ WorldInv /\ players[p] # NULL
      BY TurnFacts DEF CoreInv, TypeOK, WorldInv, TurnIn, Turn, HasLine, IsConnected
    <2>2. players[p].actor # NULL
      BY WorldAssumption
    <2> QED BY <2>1, <2>2 DEF CoreInv, PlayerActorLinked, Allocated, ActorLinked
  <1>2. UNCHANGED players /\ UNCHANGED registry
    BY DEF Looks, Walks, playerVars
  <1>3. WorldInv' /\ server' \in Statuses
    BY <1>1, LookAroundInv, WalkToInv DEF Looks, Walks
  <1>4. cursor' \in Slots /\ phase' \in Phases
    BY <1>1, AdvanceType
  <1>5. ConnsKept
    BY SightConns DEF TurnIn
  <1>6. \A b \in Actors : actors[b] # NULL =>
           actors'[b] # NULL /\ actors'[b].player = actors[b].player
    BY <1>1, WalkToPlayers DEF Looks, LookAround, worldVars, Walks
  <1>7. PlayerActorLinked'
    BY <1>2, <1>6 DEF CoreInv, TypeOK, Player, PlayerActorLinked, Allocated, ActorLinked
  <1>8. PlayerConnLinked'
    BY <1>2, <1>5, PlayerConnKept
  <1>9. ContextMatchesState'
    BY <1>2 DEF CoreInv, ContextMatchesState, ContextMatches, Allocated
  <1> QED
    BY <1>2, <1>3, <1>4, <1>5, <1>7, <1>8, <1>9, DiskAlone
    DEF CoreInv, TypeOK, WorldInv, ConnsKept

\* One command of a player in the game.
LEMMA PlayTurnCore ==
    ASSUME CoreInv, NEW i \in Slots, NEW p \in Players, PlayTurn(i, p)
    PROVE  CoreInv'
  <1>1. TurnIn(i, p, "playing") /\ TypeOK /\ conns[i] # NULL
    BY DEF PlayTurn, CoreInv, TurnIn, Turn, HasLine, IsConnected
  <1>2. CASE players[p].actor = NULL
    <2>1. Abort("no_actor") /\ "no_actor" \in Statuses
      BY <1>2 DEF PlayTurn, Statuses, CheckFailures
    <2> QED BY <2>1, AbortCore
  <1>3. CASE players[p].actor # NULL
    <2>1. /\ players[p].actor \in Actors
          /\ Advance /\ UNCHANGED diskVars
      BY <1>1, <1>3, TurnFacts DEF PlayTurn, TurnIn, Player
    <2>2. CASE Idles(i)
      <3>1. /\ UNCHANGED <<players, registry, worldVars, diskVars>>
            /\ conns' = Replied(i) /\ server' = server
        BY <2>1, <2>2 DEF Idles, playerVars
      <3> QED BY <1>1, <2>1, <3>1, AdvanceType, AnswerType, PlayersAlone DEF TypeOK
    <2>3. CASE Leaves(i, p)
      BY <1>1, <1>3, <2>1, <2>3, LeavesCore
    <2>4. CASE Looks(i, players[p].actor) \/ \E to \in Rooms : Walks(i, players[p].actor, to)
      BY <1>1, <2>1, <2>4, SightCore
    <2> QED BY <1>3, <2>2, <2>3, <2>4 DEF PlayTurn
  <1> QED BY <1>2, <1>3

\* Every handler that ends the process in the middle.
LEMMA AbortsCore ==
    ASSUME CoreInv, NEW i \in Slots, NEW p \in Players,
           LoadTorn(i, p) \/ ConfirmAborts(i, p) \/ PlayTurnStale(i, p)
    PROVE  CoreInv'
  <1>1. \E check \in Statuses : Abort(check)
    BY DEF LoadTorn, ConfirmAborts, PlayTurnStale, Statuses, CheckFailures
  <1> QED BY <1>1, AbortCore

-----------------------------------------------------------------------------
(* Steps that bring players and take them away.                             *)

\* A player that is freed, with the actor it may have.
LEMMA PlayerFreed ==
    ASSUME CoreInv, NEW p \in Players, players[p] # NULL,
           players' = [players EXCEPT ![p] = NULL], registry' = Unregistered(p),
           IF players[p].actor = NULL THEN UNCHANGED worldVars
                                      ELSE LeaveWorld(players[p].actor),
           UNCHANGED diskVars,
           server' \in Statuses, cursor' \in Slots, phase' \in Phases,
           conns' \in [Slots -> Conn \cup {NULL}], PlayerConnLinked'
    PROVE  CoreInv'
  <1>1. players' \in [Players -> Player \cup {NULL}] /\ registry' \in SUBSET Players
    BY DEF CoreInv, TypeOK, Unregistered
  <1>2. WorldInv'
    <2>1. WorldInv /\ players[p].actor \in Actors \cup {NULL}
      BY DEF CoreInv, TypeOK, WorldInv, Player
    <2>2. CASE players[p].actor = NULL
      BY <2>1, <2>2 DEF worldVars, WorldInv, WorldTypeOK, CellsLinked
    <2>3. CASE players[p].actor # NULL
      BY <2>1, <2>3, LeaveWorldInv
    <2> QED BY <2>2, <2>3
  <1>3. \A q \in Players : players'[q] # NULL => q # p /\ players[q] # NULL /\ players'[q] = players[q]
    BY DEF CoreInv, TypeOK
  <1>4. ContextMatchesState'
    BY <1>3 DEF CoreInv, ContextMatchesState, ContextMatches, Allocated
  <1>5. PlayerActorLinked'
    <2> SUFFICES ASSUME NEW q \in Players, players'[q] # NULL
                 PROVE  /\ players'[q].state = "playing" => players'[q].actor # NULL
                        /\ players'[q].actor # NULL =>
                              /\ actors'[players'[q].actor] # NULL
                              /\ actors'[players'[q].actor].player = q
      BY DEF PlayerActorLinked, Allocated, ActorLinked
    <2>1. q # p /\ players[q] # NULL /\ players'[q] = players[q]
      BY <1>3
    <2>2. CASE players[p].actor = NULL
      BY <2>1, <2>2 DEF CoreInv, PlayerActorLinked, Allocated, ActorLinked, worldVars
    <2>3. CASE players[p].actor # NULL
      BY <2>1, <2>3, LeaveWorldLinks DEF CoreInv, PlayerActorLinked, Allocated, ActorLinked
    <2> QED BY <2>2, <2>3
  <1> QED BY <1>1, <1>2, <1>4, <1>5, DiskAlone DEF CoreInv, TypeOK, WorldInv

\* The quit of the account menu, and the line "killconn".
LEMMA PlayerFreedCore ==
    ASSUME CoreInv, NEW i \in Slots, NEW p \in Players, MenuQuit(i, p) \/ KillConn(i, p)
    PROVE  CoreInv'
  <1>1. /\ Turn(i, p) /\ Advance
        /\ players' = [players EXCEPT ![p] = NULL] /\ registry' = Unregistered(p)
        /\ IF players[p].actor = NULL THEN UNCHANGED worldVars
                                      ELSE LeaveWorld(players[p].actor)
        /\ UNCHANGED diskVars
        /\ server' \in {"actor_link", "running", "killed"}
        /\ conns' = ConnsLeft(i) \/ conns' = [conns EXCEPT ![i].line = FALSE]
    BY DEF MenuQuit, KillConn, TurnIn
  <1>2. TypeOK /\ conns[i] \in Conn /\ players[p] # NULL
    BY <1>1, TurnFacts DEF CoreInv
  <1>3. server' \in Statuses
    BY <1>1 DEF Statuses, CheckFailures
  <1>4. cursor' \in Slots /\ phase' \in Phases
    BY <1>1, <1>2, AdvanceType
  <1>5. /\ conns' \in [Slots -> Conn \cup {NULL}]
        /\ \A j \in Slots : j # i => conns'[j] = conns[j]
    <2>1. /\ [conns[i] EXCEPT !.player = NULL, !.connected = FALSE,
                               !.line = FALSE, !.output = FALSE] \in Conn
          /\ [conns[i] EXCEPT !.line = FALSE] \in Conn
      BY <1>2 DEF Conn
    <2>2. \E c \in Conn : conns' = [conns EXCEPT ![i] = c]
      BY <1>1, <1>2, <2>1 DEF ConnsLeft, TypeOK
    <2> QED BY <1>2, <2>2 DEF TypeOK
  <1>6. PlayerConnLinked'
    <2> SUFFICES ASSUME NEW q \in Players, players'[q] # NULL, players'[q].conn # NULL
                 PROVE  /\ conns'[players'[q].conn] # NULL
                        /\ conns'[players'[q].conn].player = q
      BY DEF PlayerConnLinked
    <2>1. q # p /\ players[q] # NULL /\ players'[q] = players[q]
      BY <1>1, <1>2 DEF TypeOK
    <2>2. /\ players[q].conn \in Slots /\ conns[players[q].conn] # NULL
          /\ conns[players[q].conn].player = q
      BY <2>1 DEF CoreInv, PlayerConnLinked, TypeOK, Player
    <2>3. players[q].conn # i
      BY <1>1, <2>1, <2>2 DEF Turn
    <2> QED BY <1>5, <2>1, <2>2, <2>3
  <1> QED BY <1>1, <1>2, <1>3, <1>4, <1>5, <1>6, PlayerFreed

\* Of two players that are not the same, the one that resumes gives way.
LEMMA ResumeFacts ==
    ASSUME CoreInv, NEW i \in Slots, NEW p \in Players, NEW e \in Players,
           ResumeSession(i, p, e)
    PROVE  /\ Turn(i, p) /\ e # p
           /\ players[p] \in Player /\ players[p] # NULL
           /\ players[p].account = NULL /\ players[p].conn = i
           /\ players[e] \in Player /\ players[e] # NULL
           /\ players[e].account \in Account /\ players[e].account # NULL
           /\ players[e].state \in {"account_menu", "character_creation", "playing"}
           /\ players'[p] = NULL
           /\ players'[e].conn = i /\ players'[e].account = players[e].account
           /\ \A q \in Players : q # p /\ q # e => players'[q] = players[q]
  <1>1. AtStep(i, p, "login", "password") /\ Turn(i, p)
    BY DEF ResumeSession, AtStep, TurnIn
  <1>2. /\ players[p] \in Player /\ players[p] # NULL
        /\ players[p].account = NULL /\ players[p].conn = i
    BY <1>1, TurnFacts, DialogueFacts
  <1>3. players[e] # NULL /\ players[e].account # NULL
    BY DEF ResumeSession, HoldsAccount
  <1>4. players[e] \in Player /\ players[e].account \in Account /\ ContextMatches(players[e])
    BY <1>3 DEF CoreInv, TypeOK, Player, ContextMatchesState, Allocated
  <1>5. players[e].state \in {"account_menu", "character_creation", "playing"}
    BY <1>3, <1>4 DEF ContextMatches, Player, PlayerStates
  <1>6. players' = PlayersResumed(i, p, e) /\ e # p
    BY <1>2, <1>3 DEF ResumeSession
  <1>7. /\ players'[p] = NULL
        /\ players'[e].conn = i /\ players'[e].account = players[e].account
        /\ \A q \in Players : q # p /\ q # e => players'[q] = players[q]
    BY <1>4, <1>6 DEF PlayersResumed, CoreInv, TypeOK, Player
  <1> QED BY <1>1, <1>2, <1>3, <1>4, <1>5, <1>6, <1>7

\* A session is taken over.
LEMMA ResumeSessionCore ==
    ASSUME CoreInv, NEW i \in Slots, NEW p \in Players, NEW e \in Players,
           ResumeSession(i, p, e)
    PROVE  CoreInv'
  <1> DEFINE r == [players[e] EXCEPT !.conn = i, !.state = "account_menu"]
  <1>0. /\ Turn(i, p) /\ e # p
        /\ players[e] \in Player /\ players[e] # NULL /\ players[e].account # NULL
        /\ players[e].state \in {"account_menu", "character_creation", "playing"}
        /\ players'[p] = NULL
        /\ \A q \in Players : q # p /\ q # e => players'[q] = players[q]
    BY ResumeFacts
  <1>1. /\ Turn(i, p) /\ TypeOK /\ conns[i] \in Conn /\ conns[i] # NULL
        /\ Advance /\ conns' = ConnsResumed(i, e) /\ registry' = Unregistered(p)
        /\ players' = PlayersResumed(i, p, e)
        /\ UNCHANGED worldVars /\ UNCHANGED diskVars
        /\ server' \in {"running", "killed"}
    BY <1>0, TurnFacts DEF ResumeSession, CoreInv, Turn, HasLine, IsConnected
  <1>2. server' \in Statuses /\ cursor' \in Slots /\ phase' \in Phases
    BY <1>1, AdvanceType DEF Statuses
  <1>3. /\ conns' \in [Slots -> Conn \cup {NULL}]
        /\ conns'[i] # NULL /\ conns'[i].player = e
    <2>1. Replied(i)[i] = [conns[i] EXCEPT !.line = FALSE, !.output = TRUE]
      BY <1>1 DEF Replied, TypeOK
    <2>2. /\ [Replied(i)[i] EXCEPT !.player = e] \in Conn
          /\ [Replied(i)[i] EXCEPT !.player = e].player = e
      BY <1>1, <2>1 DEF Conn
    <2>3. ASSUME NEW j \in Slots, j # i
          PROVE  ConnsResumed(i, e)[j] \in Conn \cup {NULL}
      <3>1. CASE j # players[e].conn
        BY <1>1, <2>3, <3>1 DEF ConnsResumed, TypeOK
      <3>2. CASE j = players[e].conn
        <4>1. ConnsResumed(i, e)[j] =
                [conns[j] EXCEPT !.player = NULL, !.connected = FALSE, !.output = FALSE]
          BY <2>3, <3>2 DEF ConnsResumed
        <4>2. j # NULL
          BY SessionsAssumption
        <4>3. conns[j] \in Conn
          BY <1>1, <3>2, <4>2, <1>0 DEF CoreInv, PlayerConnLinked, TypeOK
        <4> QED BY <4>1, <4>3 DEF Conn
      <3> QED BY <3>1, <3>2
    <2>4. conns'[i] = [Replied(i)[i] EXCEPT !.player = e]
      BY <1>1 DEF ConnsResumed
    <2> HIDE DEF Replied
    <2> QED BY <1>1, <2>2, <2>3, <2>4, SessionsAssumption DEF ConnsResumed
  <1>4. /\ players' \in [Players -> Player \cup {NULL}]
        /\ registry' \in SUBSET Players
        /\ r \in Player /\ r.state = "account_menu" /\ ContextMatches(r)
        /\ r.actor = players[e].actor /\ r.conn = i /\ players'[e] = r
    <2>1. r \in Player /\ r.actor = players[e].actor /\ r.conn = i
          /\ r.state = "account_menu" /\ r.account = players[e].account
          /\ r.state_data = players[e].state_data
      BY <1>0 DEF Player, PlayerStates
    <2>2. players'[e] = r
      BY <1>0, <1>1 DEF PlayersResumed, TypeOK
    <2>3. players[e].state_data = NULL
      BY <1>0 DEF CoreInv, ContextMatchesState, ContextMatches, Allocated
    <2> QED
      BY <1>1, <2>1, <2>2, <2>3, <1>0
      DEF PlayersResumed, Unregistered, TypeOK, ContextMatches
  <1>5. ASSUME NEW q \in Players, players'[q] # NULL, q # e
        PROVE  players[q] # NULL /\ players'[q] = players[q] /\ q # p
    BY <1>0, <1>5
  <1>6. ContextMatchesState'
    <2> SUFFICES ASSUME NEW q \in Players, players'[q] # NULL
                 PROVE  ContextMatches(players'[q])
      BY DEF ContextMatchesState, ContextMatches, Allocated
    <2>1. q # e => ContextMatches(players[q])
      BY <1>5 DEF CoreInv, ContextMatchesState, Allocated
    <2> HIDE DEF r
    <2> QED BY <1>4, <1>5, <2>1
  <1>7. PlayerActorLinked'
    <2> SUFFICES ASSUME NEW q \in Players, players'[q] # NULL
                 PROVE  /\ players'[q].state = "playing" => players'[q].actor # NULL
                        /\ players'[q].actor # NULL =>
                              /\ actors[players'[q].actor] # NULL
                              /\ actors[players'[q].actor].player = q
      BY <1>1 DEF PlayerActorLinked, Allocated, ActorLinked, worldVars
    <2>1. players[q] # NULL
      BY <1>0, <1>5
    <2>2. /\ players[q].state = "playing" => players[q].actor # NULL
          /\ players[q].actor # NULL => /\ actors[players[q].actor] # NULL
                                       /\ actors[players[q].actor].player = q
      BY <2>1 DEF CoreInv, PlayerActorLinked, Allocated, ActorLinked
    <2> HIDE DEF r
    <2> QED BY <1>4, <1>5, <2>2
  <1>8. PlayerConnLinked'
    <2> SUFFICES ASSUME NEW q \in Players, players'[q] # NULL, players'[q].conn # NULL
                 PROVE  /\ conns'[players'[q].conn] # NULL
                        /\ conns'[players'[q].conn].player = q
      BY DEF PlayerConnLinked
    <2>1. CASE q = e
      BY <1>3, <1>4, <2>1
    <2>2. CASE q # e
      <3>1. players[q] # NULL /\ players'[q] = players[q] /\ q # p
        BY <1>5, <2>2
      <3>2. /\ players[q].conn \in Slots /\ conns[players[q].conn] # NULL
            /\ conns[players[q].conn].player = q
        BY <3>1 DEF CoreInv, PlayerConnLinked, TypeOK, Player
      <3>3. players[q].conn # i
        BY <1>1, <3>1, <3>2 DEF Turn
      <3>4. players[q].conn # players[e].conn
        BY <2>2, <3>2, <1>0 DEF CoreInv, PlayerConnLinked
      <3>5. conns'[players[q].conn] = conns[players[q].conn]
        BY <1>1, <3>2, <3>3, <3>4 DEF ConnsResumed
      <3> QED BY <3>1, <3>2, <3>5
    <2> QED BY <2>1, <2>2
  <1>9. WorldInv'
    BY <1>1 DEF CoreInv, TypeOK, WorldInv, WorldTypeOK, CellsLinked, worldVars
  <1> QED
    BY <1>1, <1>2, <1>3, <1>4, <1>6, <1>7, <1>8, <1>9, DiskAlone DEF CoreInv, TypeOK, WorldInv

\* A client connects: its player is new, and so is its slot.
LEMMA AcceptCore ==
    ASSUME CoreInv, NEW i \in Slots, NEW p \in Players, Accept(i, p)
    PROVE  CoreInv'
  <1>1. /\ TypeOK /\ players[p] = NULL /\ conns[i] = NULL
        /\ conns' = [conns EXCEPT ![i] = NewConn(p)]
        /\ players' = [players EXCEPT ![p] = NewPlayer(i)]
        /\ registry' = registry \cup {p}
        /\ UNCHANGED server /\ UNCHANGED tickVars
        /\ UNCHANGED worldVars /\ UNCHANGED diskVars
    BY DEF Accept, FirstFree, CoreInv
  <1>2. NewConn(p) \in Conn /\ NewConn(p) # NULL /\ NewConn(p).player = p
    <2>1. NewConn(p) \in Conn /\ NewConn(p).player = p
      BY DEF NewConn, Conn
    <2> QED BY <2>1, SessionsAssumption
  <1>3. /\ NewPlayer(i) \in Player /\ NewPlayer(i).conn = i /\ NewPlayer(i).actor = NULL
        /\ NewPlayer(i).state # "playing" /\ ContextMatches(NewPlayer(i))
    BY DEF NewPlayer, Player, PlayerStates, ContextMatches
  <1>4. TypeOK'
    BY <1>1, <1>2, <1>3 DEF TypeOK, tickVars, worldVars, WorldTypeOK, diskVars, DiskTypeOK
  <1>5. \A q \in Players : q # p => players'[q] = players[q]
    BY <1>1 DEF TypeOK
  <1>6. players'[p] = NewPlayer(i)
    BY <1>1 DEF TypeOK
  <1>7. ContextMatchesState'
    BY <1>3, <1>5, <1>6 DEF CoreInv, ContextMatchesState, ContextMatches, Allocated
  <1>8. PlayerActorLinked'
    BY <1>1, <1>3, <1>5, <1>6
    DEF CoreInv, PlayerActorLinked, Allocated, ActorLinked, worldVars
  <1>9. PlayerConnLinked'
    <2> SUFFICES ASSUME NEW q \in Players, players'[q] # NULL, players'[q].conn # NULL
                 PROVE  /\ conns'[players'[q].conn] # NULL
                        /\ conns'[players'[q].conn].player = q
      BY DEF PlayerConnLinked
    <2>1. CASE q = p
      BY <1>1, <1>2, <1>3, <1>6, <2>1 DEF TypeOK
    <2>2. CASE q # p
      <3>1. /\ players[q].conn \in Slots /\ conns[players[q].conn] # NULL
            /\ conns[players[q].conn].player = q
        BY <1>5, <2>2 DEF CoreInv, PlayerConnLinked, TypeOK, Player
      <3> QED BY <1>1, <1>5, <2>2, <3>1 DEF TypeOK
    <2> QED BY <2>1, <2>2
  <1>10. CellsLinked'
    BY <1>1 DEF CoreInv, CellsLinked, worldVars
  <1> QED BY <1>1, <1>4, <1>7, <1>8, <1>9, <1>10, DiskAlone DEF CoreInv

\* telnet_conn_free: the player of the slot stays, without a connection.
LEMMA GcFreesCore ==
    ASSUME CoreInv, NEW i \in Slots, GcFrees(i)
    PROVE  CoreInv'
  <1>1. /\ TypeOK /\ conns[i] \in Conn /\ Linked(i)
        /\ conns' = [conns EXCEPT ![i] = NULL]
        /\ players' = PlayersUnlinked(i)
        /\ Advance /\ UNCHANGED server /\ UNCHANGED registry
        /\ UNCHANGED worldVars /\ UNCHANGED diskVars
    BY DEF GcFrees, CoreInv, TypeOK
  <1>2. cursor' \in Slots /\ phase' \in Phases
    BY <1>1, AdvanceType
  <1>3. ASSUME NEW q \in Players
        PROVE  /\ players[q] = NULL => players'[q] = NULL
               /\ players[q] # NULL =>
                    /\ players'[q] \in Player
                    /\ players'[q].state = players[q].state
                    /\ players'[q].state_data = players[q].state_data
                    /\ players'[q].account = players[q].account
                    /\ players'[q].actor = players[q].actor
                    /\ players'[q].conn = IF players[q].conn = i THEN NULL ELSE players[q].conn
    <2>1. CASE conns[i].player = q
      <3>1. q # NULL
        BY WorldAssumption
      <3>2. players[q] \in Player /\ players[q] # NULL /\ players[q].conn = i
        BY <1>1, <2>1, <3>1 DEF Linked, TypeOK
      <3>3. players'[q] = [players[q] EXCEPT !.conn = NULL]
        BY <1>1, <2>1, <3>1 DEF PlayersUnlinked, TypeOK
      <3> QED BY <3>2, <3>3 DEF Player
    <2>2. CASE conns[i].player # q
      <3>1. players'[q] = players[q]
        BY <1>1, <2>2 DEF PlayersUnlinked, TypeOK
      <3>2. players[q] # NULL => players[q].conn # i
        BY <1>1, <2>2, SessionsAssumption DEF CoreInv, PlayerConnLinked
      <3> QED BY <1>1, <3>1, <3>2 DEF TypeOK
    <2> QED BY <2>1, <2>2
  <1>4. TypeOK'
    <2>1. players' \in [Players -> Player \cup {NULL}]
      <3>1. \A q \in Players : players'[q] \in Player \cup {NULL}
        BY <1>3
      <3>2. players' = [q \in Players |-> players'[q]]
        BY <1>1 DEF PlayersUnlinked, TypeOK
      <3> QED BY <3>1, <3>2
    <2> QED
      BY <1>1, <1>2, <2>1 DEF TypeOK, worldVars, WorldTypeOK, diskVars, DiskTypeOK
  <1>5. ContextMatchesState'
    BY <1>3 DEF CoreInv, ContextMatchesState, ContextMatches, Allocated
  <1>6. PlayerActorLinked'
    BY <1>1, <1>3 DEF CoreInv, PlayerActorLinked, Allocated, ActorLinked, worldVars
  <1>7. PlayerConnLinked'
    <2> SUFFICES ASSUME NEW q \in Players, players'[q] # NULL, players'[q].conn # NULL
                 PROVE  /\ conns'[players'[q].conn] # NULL
                        /\ conns'[players'[q].conn].player = q
      BY DEF PlayerConnLinked
    <2>1. players[q] # NULL /\ players'[q].conn = players[q].conn /\ players[q].conn # i
      BY <1>3
    <2>2. /\ players[q].conn \in Slots /\ conns[players[q].conn] # NULL
          /\ conns[players[q].conn].player = q
      BY <2>1 DEF CoreInv, PlayerConnLinked, TypeOK, Player
    <2> QED BY <1>1, <2>1, <2>2 DEF TypeOK
  <1>8. CellsLinked'
    BY <1>1 DEF CoreInv, CellsLinked, worldVars
  <1> QED BY <1>1, <1>4, <1>5, <1>6, <1>7, <1>8, DiskAlone DEF CoreInv

\* The process starts again, over files that are still well formed.
LEMMA RebootCore ==
    ASSUME CoreInv, Reboot, DiskTypeOK', FilesNamed'
    PROVE  CoreInv'
  BY WorldAssumption, SessionsAssumption
  DEF Reboot, CoreInv, TypeOK, Statuses, Phases, Slots, WorldTypeOK, CellsLinked,
      PlayerConnLinked, ContextMatchesState, PlayerActorLinked, Allocated

\* The process ends and starts again, whatever it was doing.
LEMMA CrashCore ==
    ASSUME CoreInv, Crash
    PROVE  CoreInv'
  <1>1. Reboot
    BY DEF Crash, Restart, CrashInCreateAccount, CrashInCreateCharacter
  <1>2. DiskTypeOK' /\ FilesNamed'
    <2>1. CASE Restart
      BY <2>1, DiskAlone DEF Restart
    <2>2. ASSUME NEW i \in Slots, NEW p \in Players, CrashInCreateAccount(i, p)
          PROVE  DiskTypeOK' /\ FilesNamed'
      BY <2>2, AccountsAssumption
      DEF CrashInCreateAccount, CoreInv, TypeOK, DiskTypeOK, FilesNamed
    <2>3. ASSUME NEW i \in Slots, NEW p \in Players, NEW n \in Names,
                 CrashInCreateCharacter(i, p, n)
          PROVE  DiskTypeOK' /\ FilesNamed'
      BY <2>3, AccountsAssumption
      DEF CrashInCreateCharacter, CharacterSaved, CoreInv, TypeOK, DiskTypeOK, FilesNamed
    <2> QED BY <2>1, <2>2, <2>3 DEF Crash
  <1> QED BY <1>1, <1>2, RebootCore

-----------------------------------------------------------------------------
(* The theorems.                                                            *)

\* What a process starts with.
LEMMA InitCore == Init => CoreInv
  <1> SUFFICES ASSUME Init PROVE CoreInv
    OBVIOUS
  <1>1. WorldInv
    BY WorldInitInv DEF Init
  <1>2. TypeOK
    BY <1>1, SessionsAssumption
    DEF Init, TypeOK, Statuses, Phases, Slots, WorldInv, DiskInit, DiskTypeOK
  <1>3. FilesNamed
    BY AccountsAssumption DEF Init, DiskInit, FilesNamed
  <1> QED
    BY <1>1, <1>2, <1>3
    DEF Init, CoreInv, WorldInv, PlayerConnLinked, ContextMatchesState, PlayerActorLinked,
        Allocated

\* Every handler keeps the invariant.
LEMMA HandleCore ==
    ASSUME CoreInv, NEW i \in Slots, NEW p \in Players, Handle(i, p)
    PROVE  CoreInv'
  <1>1. CASE RefuseLine(i, p)
    BY <1>1, RefuseLineCore
  <1>2. CASE \/ MenuCommand(i, p)
             \/ \E u \in Usernames : CreateUsername(i, p, u) \/ LoginUsername(i, p, u)
             \/ CreatePassword(i, p) \/ ConfirmMismatch(i, p) \/ ConfirmTaken(i, p)
             \/ LoginAccount(i, p) \/ MenuCreate(i, p)
    BY <1>2, DialogueCore
  <1>3. CASE LoadTorn(i, p) \/ ConfirmAborts(i, p) \/ PlayTurnStale(i, p)
    BY <1>3, AbortsCore
  <1>4. CASE CreateAccount(i, p)
    BY <1>4, CreateAccountCore
  <1>5. CASE \E e \in Players : ResumeSession(i, p, e)
    BY <1>5, ResumeSessionCore
  <1>6. CASE MenuQuit(i, p) \/ KillConn(i, p)
    BY <1>6, PlayerFreedCore
  <1>7. CASE \E n \in Names, a \in Actors : Play(i, p, n, a)
    BY <1>7, PlayCore
  <1>8. CASE \E n \in Names : CreateCharacter(i, p, n)
    BY <1>8, CreateCharacterCore
  <1>9. CASE PlayTurn(i, p)
    BY <1>9, PlayTurnCore
  <1> QED BY <1>1, <1>2, <1>3, <1>4, <1>5, <1>6, <1>7, <1>8, <1>9 DEF Handle

\* Every step keeps the invariant.
LEMMA NextCore == CoreInv /\ [Next]_vars => CoreInv'
  <1> SUFFICES ASSUME CoreInv, [Next]_vars PROVE CoreInv'
    OBVIOUS
  <1>1. CASE Listen
    BY <1>1, NetworkCore, AcceptCore, SessionsAssumption DEF Listen, Slots, NetworkStep
  <1>2. ASSUME NEW i \in Slots, SkipSlot(i) \/ Read(i) \/ FlushSlot(i) \/ GcSlot(i)
        PROVE  CoreInv'
    BY <1>2, NetworkCore, GcFreesCore DEF GcSlot, NetworkStep
  <1>3. ASSUME NEW i \in Slots, ProcessInput(i)
        PROVE  CoreInv'
    BY <1>3, NetworkCore, HandleCore DEF ProcessInput, NetworkStep
  <1>4. CASE Crash
    BY <1>4, CrashCore
  <1>5. CASE UNCHANGED vars
    <2>1. /\ UNCHANGED <<players, registry, worldVars, diskVars>> /\ UNCHANGED conns
          /\ TypeOK /\ server' \in Statuses /\ cursor' \in Slots /\ phase' \in Phases
      BY <1>5 DEF vars, CoreInv, TypeOK
    <2> QED BY <2>1, ConnsAlone, PlayersAlone
  <1> QED BY <1>1, <1>2, <1>3, <1>4, <1>5 DEF Next, Tick

\* The invariant holds in every state the server can reach.
THEOREM CoreInvariant == Spec => []CoreInv
  BY InitCore, NextCore, PTL DEF Spec

\* Every variable has its type, whatever the clients, the sockets and the crashes do.
THEOREM TypeCorrect == Spec => []TypeOK
  <1>1. CoreInv => TypeOK
    BY DEF CoreInv
  <1> QED BY <1>1, CoreInvariant, PTL

\* player->state_data is always what the input handler of the player takes it
\* for, and a player has an account exactly from the account menu on.
THEOREM ContextsCorrect == Spec => []ContextMatchesState
  <1>1. CoreInv => ContextMatchesState
    BY DEF CoreInv
  <1> QED BY <1>1, CoreInvariant, PTL

\* A player in the game controls a live actor that knows it, and no player keeps
\* an actor that was freed.
THEOREM ActorsCorrect == Spec => []PlayerActorLinked
  <1>1. CoreInv => PlayerActorLinked
    BY DEF CoreInv
  <1> QED BY <1>1, CoreInvariant, PTL
=============================================================================
