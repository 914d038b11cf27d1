---------------------------- MODULE Links_proofs ----------------------------
(***************************************************************************)
(* Theorems about Sessions: the links between connections and players, the  *)
(* registry, the sessions of the accounts; Sessions implements              *)
(* AccountSessions, and what follows from it.                               *)
(***************************************************************************)
EXTENDS Sessions_proofs

\* An account that a player holds, or is about to, is on disk.
SavedAccounts ==
    \A p \in Players : players[p] # NULL =>
        LET acct == players[p].account
            ctx  == players[p].state_data
        IN  /\ acct # NULL => account_files[acct.username] # NoFile
            /\ ctx # NULL /\ ctx.account # NULL =>
                  account_files[ctx.account.username] # NoFile

LinkInv ==
    /\ RegistryExact
    /\ TestMode = FALSE => ConnPlayerLinked
    /\ OneSessionPerAccount
    /\ SavedAccounts

-----------------------------------------------------------------------------
(* What most steps have in common.                                          *)

\* No player comes or goes, and none changes its connection.
PlayersKept ==
    /\ ConnsKept
    /\ registry' = registry
    /\ \A q \in Players :
         /\ players'[q] = NULL <=> players[q] = NULL
         /\ players[q] # NULL => players'[q].conn = players[q].conn

\* No player gets an account, none gets one to log in with, no file disappears.
AccountsKept ==
    /\ \A u \in Usernames : account_files[u] # NoFile => account_files'[u] # NoFile
    /\ \A q \in Players : players'[q] # NULL =>
         /\ players'[q].account # NULL =>
              /\ LoggedIn(q)
              /\ players'[q].account.username = players[q].account.username
         /\ players'[q].state_data # NULL /\ players'[q].state_data.account # NULL =>
              /\ players[q] # NULL /\ players[q].state_data # NULL
              /\ players'[q].state_data.account = players[q].state_data.account

\* No player loses its account.
SessionsStay == \A q \in Players : LoggedIn(q) => LoggedIn(q)'

\* Nor gets one, nor changes its connection while it has one.
SessionsKept ==
    /\ SessionsStay
    /\ \A q \in Players, u \in Usernames :
         /\ HoldsAccount(q, u)' <=> HoldsAccount(q, u)
         /\ HoldsAccount(q, u) => players'[q].conn = players[q].conn

\* The links hold after a step that keeps players and connections.
LEMMA PlayersKeptLinks ==
    ASSUME CoreInv, LinkInv, PlayersKept
    PROVE  RegistryExact' /\ (TestMode = FALSE => ConnPlayerLinked')
  <1>1. RegistryExact'
    BY DEF LinkInv, RegistryExact, Allocated, PlayersKept
  <1>2. ASSUME TestMode = FALSE
        PROVE  ConnPlayerLinked'
    <2>1. ConnPlayerLinked
      BY <1>2 DEF LinkInv
    <2>2. ASSUME NEW i \in Slots, conns'[i] # NULL
          PROVE  /\ conns'[i].player # NULL =>
                      /\ players'[conns'[i].player] # NULL
                      /\ players'[conns'[i].player].conn = i
                 /\ conns'[i].connected => conns'[i].player # NULL
      <3>1. /\ conns[i] # NULL /\ conns'[i].player = conns[i].player
            /\ conns'[i].connected => conns[i].connected
        BY <2>2 DEF PlayersKept, ConnsKept
      <3>2. conns[i].player \in Players \cup {NULL}
        BY <3>1 DEF CoreInv, TypeOK, Conn
      <3>3. /\ conns[i].player # NULL => /\ players[conns[i].player] # NULL
                                         /\ players[conns[i].player].conn = i
            /\ conns[i].connected => conns[i].player # NULL
        BY <2>1, <3>1 DEF ConnPlayerLinked, Linked
      <3> QED BY <3>1, <3>2, <3>3 DEF PlayersKept
    <2>3. PlayerConnLinked'
      BY PlayerConnKept DEF PlayersKept
    <2> QED
      BY <2>2, <2>3 DEF ConnPlayerLinked, Linked, PlayerConnLinked, Allocated
  <1> QED BY <1>1, <1>2

\* The sessions are exclusive after a step that keeps the accounts.
LEMMA AccountsKeptSessions ==
    ASSUME CoreInv, LinkInv, AccountsKept
    PROVE  OneSessionPerAccount' /\ SavedAccounts'
  <1>1. OneSessionPerAccount'
    BY DEF LinkInv, OneSessionPerAccount, AccountsKept, LoggedIn, Allocated
  <1>2. SavedAccounts'
    <2> SUFFICES ASSUME NEW p \in Players, players'[p] # NULL
                 PROVE  /\ players'[p].account # NULL =>
                             account_files'[players'[p].account.username] # NoFile
                        /\ players'[p].state_data # NULL /\ players'[p].state_data.account # NULL =>
                             account_files'[players'[p].state_data.account.username] # NoFile
      BY DEF SavedAccounts
    <2>1. ASSUME players'[p].account # NULL
          PROVE  account_files'[players'[p].account.username] # NoFile
      <3>1. /\ LoggedIn(p) /\ players[p].account.username \in Usernames
            /\ players'[p].account.username = players[p].account.username
        BY <2>1 DEF AccountsKept, LoggedIn, Allocated, CoreInv, TypeOK, Player, Account
      <3> QED BY <3>1 DEF LinkInv, SavedAccounts, AccountsKept, LoggedIn, Allocated
    <2>2. ASSUME players'[p].state_data # NULL, players'[p].state_data.account # NULL
          PROVE  account_files'[players'[p].state_data.account.username] # NoFile
      <3>1. /\ players[p] # NULL /\ players[p].state_data # NULL
            /\ players'[p].state_data.account = players[p].state_data.account
        BY <2>2 DEF AccountsKept
      <3>2. players[p].state_data.account.username \in Usernames
        BY <2>2, <3>1 DEF CoreInv, TypeOK, Player, Context, Account
      <3> QED BY <2>2, <3>1, <3>2 DEF LinkInv, SavedAccounts, AccountsKept
    <2> QED BY <2>1, <2>2
  <1> QED BY <1>1, <1>2

\* Steps that keep players, accounts and sessions leave every session as it is.
LEMMA KeptSessions ==
    ASSUME PlayersKept, AccountsKept, SessionsStay
    PROVE  SessionsKept
  BY DEF PlayersKept, AccountsKept, SessionsStay, SessionsKept, HoldsAccount, LoggedIn, Allocated

\* All of it, when the players do not change.
LEMMA UnchangedLinks ==
    ASSUME CoreInv, LinkInv, ConnsKept, UNCHANGED <<players, registry, account_files>>
    PROVE  LinkInv' /\ SessionsKept
  <1>1. PlayersKept /\ AccountsKept /\ SessionsStay
    BY DEF PlayersKept, AccountsKept, SessionsStay, LoggedIn, Allocated
  <1> QED BY <1>1, PlayersKeptLinks, AccountsKeptSessions, KeptSessions DEF LinkInv

\* A handler that answers and rewrites its player keeps the players.
LEMMA RewritesKept ==
    ASSUME CoreInv, NEW i \in Slots, NEW p \in Players, Turn(i, p), Rewrites(p),
           conns' = Replied(i)
    PROVE  PlayersKept
  <1>1. TypeOK /\ conns[i] # NULL /\ players[p] # NULL
    BY TurnFacts DEF CoreInv, Turn, HasLine, IsConnected
  <1>2. ConnsKept
    BY <1>1, AnswerType
  <1>3. ASSUME NEW q \in Players
        PROVE  /\ players'[q] = NULL <=> players[q] = NULL
               /\ players[q] # NULL => players'[q].conn = players[q].conn
    BY <1>1, SessionsAssumption DEF Rewrites, TypeOK
  <1> QED BY <1>2, <1>3 DEF PlayersKept, Rewrites

-----------------------------------------------------------------------------
(* The handlers that keep the players.                                      *)

\* Those that change no player at all.
LEMMA IdleLinks ==
    ASSUME CoreInv, LinkInv, NEW i \in Slots, NEW p \in Players,
           \/ RefuseLine(i, p) \/ LoadTorn(i, p) \/ ConfirmAborts(i, p)
           \/ PlayTurnStale(i, p)
    PROVE  LinkInv' /\ SessionsKept
  <1>1. /\ TypeOK /\ conns[i] # NULL
        /\ UNCHANGED <<players, registry, account_files>>
        /\ conns' = Replied(i) \/ UNCHANGED conns
    BY DEF RefuseLine, LoadTorn, ConfirmAborts, PlayTurnStale, Confirmed, AtStep, TurnIn,
           Turn, HasLine, IsConnected, Answer, Abort, playerVars, diskVars, CoreInv
  <1>2. ConnsKept
    BY <1>1, AnswerType, ConnsAlone
  <1> QED BY <1>1, <1>2, UnchangedLinks

\* The dialogues as long as no account is loaded.
LEMMA DialogueLinks ==
    ASSUME CoreInv, LinkInv, NEW i \in Slots, NEW p \in Players,
           \/ MenuCommand(i, p) \/ \E u \in Usernames : CreateUsername(i, p, u)
           \/ CreatePassword(i, p) \/ ConfirmMismatch(i, p) \/ ConfirmTaken(i, p)
    PROVE  LinkInv' /\ SessionsKept
  <1>1. /\ Rewrites(p) /\ players'[p].account = NULL
        /\ \/ players'[p].state_data.account = NULL
           \/ /\ players'[p].state_data.account = players[p].state_data.account
              /\ players[p].state_data # NULL
    BY MenuCommandRewrites, CreateUsernameRewrites, CreatePasswordRewrites,
       ConfirmMismatchRewrites, ConfirmTakenRewrites
  <1>2. /\ Turn(i, p) /\ conns' = Replied(i) /\ UNCHANGED account_files
        /\ players[p].account = NULL
    BY DialogueFacts, MenuCommandRewrites
    DEF MenuCommand, CreateUsername, CreatePassword, ConfirmMismatch, ConfirmTaken,
        AtStep, TurnIn, Answer, diskVars
  <1>3. PlayersKept
    BY <1>1, <1>2, RewritesKept
  <1>4. \A q \in Players : q # p => players'[q] = players[q]
    BY <1>1 DEF Rewrites, CoreInv, TypeOK
  <1>5. AccountsKept /\ SessionsStay
    BY <1>1, <1>2, <1>3, <1>4
    DEF AccountsKept, SessionsStay, LoggedIn, Allocated, PlayersKept
  <1> QED BY <1>3, <1>5, PlayersKeptLinks, AccountsKeptSessions, KeptSessions DEF LinkInv

\* An account that is loaded was on disk.
LEMMA LoginUsernameLinks ==
    ASSUME CoreInv, LinkInv, NEW i \in Slots, NEW p \in Players, NEW u \in Usernames,
           LoginUsername(i, p, u)
    PROVE  LinkInv' /\ SessionsKept
  <1>1. /\ Rewrites(p) /\ players'[p].account = NULL
        /\ players'[p].state_data.account = account_files[u]
        /\ account_files[u].username = u
    BY LoginUsernameRewrites
  <1>2. /\ Turn(i, p) /\ conns' = Replied(i) /\ UNCHANGED account_files
        /\ players[p].account = NULL /\ account_files[u] # NoFile
    BY DialogueFacts DEF LoginUsername, account_loadable, AtStep, TurnIn, Answer, diskVars
  <1>3. PlayersKept
    BY <1>1, <1>2, RewritesKept
  <1>4. \A q \in Players : q # p => players'[q] = players[q]
    BY <1>1 DEF Rewrites, CoreInv, TypeOK
  <1>5. OneSessionPerAccount' /\ SessionsStay
    BY <1>1, <1>2, <1>3, <1>4
    DEF LinkInv, OneSessionPerAccount, SessionsStay, LoggedIn, Allocated, PlayersKept
  <1>6. SavedAccounts'
    BY <1>1, <1>2, <1>3, <1>4 DEF LinkInv, SavedAccounts, PlayersKept
  <1>7. SessionsKept
    BY <1>1, <1>2, <1>3, <1>4, <1>5 DEF SessionsKept, PlayersKept, HoldsAccount
  <1> QED BY <1>3, <1>5, <1>6, <1>7, PlayersKeptLinks DEF LinkInv

\* A player that gets an account nobody else holds.
LEMMA NewSession ==
    ASSUME CoreInv, LinkInv, NEW i \in Slots, NEW p \in Players, NEW u \in Usernames,
           Turn(i, p), Rewrites(p), conns' = Replied(i),
           players[p].account = NULL,
           players'[p].account # NULL, players'[p].account.username = u,
           \A q \in Players : ~HoldsAccount(q, u),
           account_files'[u] # NoFile,
           \A v \in Usernames : account_files[v] # NoFile => account_files'[v] # NoFile
    PROVE  LinkInv' /\ SessionsStay
  <1>1. PlayersKept
    BY RewritesKept
  <1>2. \A q \in Players : q # p => players'[q] = players[q]
    BY DEF Rewrites, CoreInv, TypeOK
  <1>3. OneSessionPerAccount' /\ SessionsStay
    BY <1>1, <1>2
    DEF LinkInv, OneSessionPerAccount, SessionsStay, HoldsAccount, LoggedIn, Allocated,
        PlayersKept
  <1>4. SavedAccounts'
    <2> SUFFICES ASSUME NEW q \in Players, players'[q] # NULL
                 PROVE  /\ players'[q].account # NULL =>
                             account_files'[players'[q].account.username] # NoFile
                        /\ players'[q].state_data # NULL /\ players'[q].state_data.account # NULL =>
                             account_files'[players'[q].state_data.account.username] # NoFile
      BY DEF SavedAccounts
    <2>1. CASE q = p
      <3>1. players'[p].state_data = NULL
        BY DEF Rewrites, ContextMatches, Player, PlayerStates
      <3> QED BY <2>1, <3>1
    <2>2. CASE q # p
      <3>1. players[q] # NULL /\ players'[q] = players[q] /\ players[q] \in Player
        BY <1>2, <2>2 DEF CoreInv, TypeOK
      <3>2. /\ players[q].account # NULL => players[q].account.username \in Usernames
            /\ players[q].state_data # NULL /\ players[q].state_data.account # NULL =>
                  players[q].state_data.account.username \in Usernames
        BY <3>1 DEF Player, Context, Account
      <3> QED BY <3>1, <3>2 DEF LinkInv, SavedAccounts
    <2> QED BY <2>1, <2>2
  <1> QED BY <1>1, <1>3, <1>4, PlayersKeptLinks DEF LinkInv

\* The username of a new account was on disk nowhere, so nobody holds it.
LEMMA CreateAccountLinks ==
    ASSUME CoreInv, LinkInv, NEW i \in Slots, NEW p \in Players, CreateAccount(i, p)
    PROVE  LinkInv' /\ SessionsStay
  <1> DEFINE u == players[p].state_data.username
  <1>1. /\ Rewrites(p) /\ players[p].account = NULL /\ u \in Usernames
        /\ players'[p].account = account_new(u)
    BY CreateAccountRewrites
  <1>2. /\ Turn(i, p) /\ conns' = Replied(i) /\ account_files[u] = NoFile
        /\ account_files' = AccountSaved(account_new(u))
    BY DEF CreateAccount, Confirmed, account_username_exists, AtStep, TurnIn, Answer
  <1>3. account_new(u) \in Account /\ account_new(u).username = u
    BY <1>1 DEF account_new, Account
  <1> HIDE DEF u
  <1>4. account_new(u) # NULL /\ account_new(u) # NoFile
    BY <1>3, SessionsAssumption, AccountsAssumption
  <1>5. account_files' = [account_files EXCEPT ![u] = account_new(u)]
    BY <1>2, <1>3 DEF AccountSaved
  <1>6. /\ account_files'[u] # NoFile
        /\ \A v \in Usernames : account_files[v] # NoFile => account_files'[v] # NoFile
    BY <1>1, <1>4, <1>5 DEF CoreInv, TypeOK, DiskTypeOK
  <1>7. \A q \in Players : ~HoldsAccount(q, u)
    BY <1>2 DEF LinkInv, SavedAccounts, HoldsAccount
  <1> QED BY <1>1, <1>2, <1>3, <1>4, <1>6, <1>7, NewSession

\* player_find_registered has looked at every player.
LEMMA LoginAccountLinks ==
    ASSUME CoreInv, LinkInv, NEW i \in Slots, NEW p \in Players, LoginAccount(i, p)
    PROVE  LinkInv' /\ SessionsStay
  <1> DEFINE u == players[p].state_data.username
  <1>1. /\ Rewrites(p) /\ players[p].account = NULL /\ u \in Usernames
        /\ players'[p].account = players[p].state_data.account
        /\ players'[p].account.username = u
    BY LoginAccountRewrites
  <1>2. /\ Turn(i, p) /\ conns' = Replied(i) /\ UNCHANGED account_files
        /\ \A e \in registry : ~HoldsAccount(e, u)
        /\ AtStep(i, p, "login", "password")
    BY DEF LoginAccount, AtStep, TurnIn, Answer, diskVars
  <1>3. /\ players[p] # NULL /\ players[p].state_data # NULL
        /\ players[p].state_data.account # NULL
    BY <1>2, TurnFacts, DialogueFacts DEF ContextMatches
  <1>4. account_files[u] # NoFile
    BY <1>1, <1>3 DEF LinkInv, SavedAccounts
  <1>5. \A q \in Players : ~HoldsAccount(q, u)
    BY <1>2 DEF LinkInv, RegistryExact, Allocated, HoldsAccount
  <1> HIDE DEF u
  <1> QED BY <1>1, <1>2, <1>3, <1>4, <1>5, NewSession

\* A player that goes on with the account it has.
LEMMA SameAccount ==
    ASSUME CoreInv, LinkInv, NEW i \in Slots, NEW p \in Players,
           Turn(i, p), Rewrites(p), conns' = Replied(i),
           players[p].account # NULL, players'[p].account # NULL,
           players'[p].account.username = players[p].account.username,
           \A v \in Usernames : account_files[v] # NoFile => account_files'[v] # NoFile
    PROVE  LinkInv' /\ SessionsKept
  <1>1. PlayersKept
    BY RewritesKept
  <1>2. \A q \in Players : q # p => players'[q] = players[q]
    BY DEF Rewrites, CoreInv, TypeOK
  <1>3. players'[p].state_data = NULL
    BY DEF Rewrites, ContextMatches, Player, PlayerStates
  <1>4. players[p] # NULL
    BY TurnFacts
  <1>5. AccountsKept /\ SessionsStay
    BY <1>1, <1>2, <1>3, <1>4
    DEF AccountsKept, SessionsStay, LoggedIn, Allocated, PlayersKept
  <1> QED BY <1>1, <1>5, PlayersKeptLinks, AccountsKeptSessions, KeptSessions DEF LinkInv

\* The account menu, and into the game.
LEMMA MenuLinks ==
    ASSUME CoreInv, LinkInv, NEW i \in Slots, NEW p \in Players,
           \/ MenuCreate(i, p)
           \/ \E n \in Names, a \in Actors : Play(i, p, n, a)
    PROVE  LinkInv' /\ SessionsKept
  <1>1. Rewrites(p) /\ players'[p].account = players[p].account
    BY MenuCreateRewrites, PlayRewrites
  <1>2. /\ Turn(i, p) /\ conns' = Replied(i) /\ UNCHANGED account_files
        /\ players[p].state = "account_menu"
    BY DEF MenuCreate, Play, TurnIn, Answer, diskVars
  <1>3. players[p].account # NULL
    BY <1>2, TurnFacts DEF ContextMatches
  <1> QED BY <1>1, <1>2, <1>3, SameAccount

\* One command of a player in the game.
LEMMA PlayTurnLinks ==
    ASSUME CoreInv, LinkInv, NEW i \in Slots, NEW p \in Players, PlayTurn(i, p)
    PROVE  LinkInv' /\ SessionsKept
  <1>1. /\ TurnIn(i, p, "playing") /\ Turn(i, p) /\ TypeOK /\ conns[i] # NULL
        /\ players[p].account # NULL /\ players[p] \in Player
    BY TurnFacts
    DEF PlayTurn, CoreInv, TurnIn, Turn, HasLine, IsConnected, ContextMatches
  <1>2. CASE Leaves(i, p) /\ UNCHANGED diskVars
    <2>1. Rewrites(p) /\ players'[p].account = players[p].account
      BY <1>1, <1>2, LeavesRewrites
    <2> QED BY <1>1, <1>2, <2>1, SameAccount DEF Leaves, diskVars
  <1>3. CASE Idles(i) /\ UNCHANGED diskVars
    <2>1. ConnsKept
      BY <1>1, <1>3, AnswerType DEF Idles
    <2> QED BY <1>3, <2>1, UnchangedLinks DEF Idles, playerVars, diskVars
  <1>4. CASE /\ players[p].actor \in Actors /\ UNCHANGED diskVars
             /\ \/ Looks(i, players[p].actor)
                \/ \E to \in Rooms : Walks(i, players[p].actor, to)
    <2>1. ConnsKept
      BY <1>1, <1>4, SightConns
    <2>2. UNCHANGED <<players, registry, account_files>>
      BY <1>4 DEF Looks, Walks, playerVars, diskVars
    <2> QED BY <2>1, <2>2, UnchangedLinks
  <1>5. CASE Abort("no_actor")
    <2>1. ConnsKept
      BY <1>1, <1>5, ConnsAlone DEF Abort
    <2> QED BY <1>5, <2>1, UnchangedLinks DEF Abort, playerVars, diskVars
  <1>6. players[p].actor \in Actors \cup {NULL}
    BY <1>1 DEF Player
  <1> QED BY <1>2, <1>3, <1>4, <1>5, <1>6 DEF PlayTurn

\* A new character does not change whose account it is.
LEMMA CreateCharacterLinks ==
    ASSUME CoreInv, LinkInv, NEW i \in Slots, NEW p \in Players, NEW n \in Names,
           CreateCharacter(i, p, n)
    PROVE  LinkInv' /\ SessionsKept
  <1>1. /\ Turn(i, p) /\ players[p].state = "character_creation"
    BY DEF CreateCharacter, NameAccepted, TurnIn
  <1>2. players[p].account # NULL
    BY <1>1, TurnFacts DEF ContextMatches
  <1> DEFINE acct == account_add_character(players[p].account, n)
  <1>3. /\ Rewrites(p) /\ players'[p].account = acct /\ acct \in Account
        /\ acct.username = players[p].account.username
    BY <1>2, CreateCharacterRewrites
  <1>4. account_files' = AccountSaved(acct) /\ conns' = Replied(i)
    BY <1>2 DEF CreateCharacter, Answer
  <1> HIDE DEF acct
  <1>5. acct # NULL /\ acct # NoFile
    BY <1>3, SessionsAssumption, AccountsAssumption
  <1>6. \A v \in Usernames : account_files[v] # NoFile => account_files'[v] # NoFile
    BY <1>4, <1>5 DEF AccountSaved, CoreInv, TypeOK, DiskTypeOK
  <1> QED BY <1>1, <1>2, <1>3, <1>4, <1>5, <1>6, SameAccount

-----------------------------------------------------------------------------
(* Steps that bring players and take them away.                             *)

\* Of players and connections, what the end of player p leaves: the connection
\* it had keeps pointing at it after "killconn" only.
LEMMA PlayerFreedLinks ==
    ASSUME CoreInv, LinkInv, NEW i \in Slots, NEW p \in Players,
           MenuQuit(i, p) \/ KillConn(i, p)
    PROVE  LinkInv'
  <1>1. /\ Turn(i, p) /\ TypeOK /\ players[p] # NULL /\ players[p].conn = i
        /\ conns[i] \in Conn /\ conns[i] # NULL /\ conns[i].player = p
        /\ players' = [players EXCEPT ![p] = NULL] /\ registry' = registry \ {p}
        /\ UNCHANGED account_files
        /\ TestMode = FALSE => conns' = ConnsLeft(i)
    BY TurnFacts
    DEF MenuQuit, KillConn, TurnIn, Turn, HasLine, IsConnected, Unregistered, diskVars, CoreInv
  <1>2. RegistryExact'
    BY <1>1 DEF LinkInv, RegistryExact, Allocated, TypeOK
  <1>3. AccountsKept
    BY <1>1 DEF AccountsKept, LoggedIn, Allocated, TypeOK
  <1>4. ASSUME TestMode = FALSE
        PROVE  ConnPlayerLinked'
    <2>1. ConnPlayerLinked
      BY <1>4 DEF LinkInv
    <2>2. /\ conns'[i] # NULL /\ conns'[i].player = NULL /\ ~conns'[i].connected
          /\ \A j \in Slots : j # i => conns'[j] = conns[j]
      <3>1. conns'[i] = [conns[i] EXCEPT !.player = NULL, !.connected = FALSE,
                                         !.line = FALSE, !.output = FALSE]
        BY <1>1, <1>4 DEF ConnsLeft, TypeOK
      <3>2. conns'[i] \in Conn /\ conns'[i].player = NULL /\ ~conns'[i].connected
        BY <1>1, <3>1 DEF Conn
      <3>3. \A j \in Slots : j # i => conns'[j] = conns[j]
        BY <1>1, <1>4 DEF ConnsLeft, TypeOK
      <3> QED BY <3>2, <3>3, SessionsAssumption
    <2>3. ASSUME NEW j \in Slots, conns'[j] # NULL
          PROVE  /\ conns'[j].player # NULL =>
                      /\ players'[conns'[j].player] # NULL
                      /\ players'[conns'[j].player].conn = j
                 /\ conns'[j].connected => conns'[j].player # NULL
      <3>1. CASE j = i
        BY <2>2, <3>1
      <3>2. CASE j # i
        <4>1. conns'[j] = conns[j] /\ conns[j].player \in Players \cup {NULL}
          BY <1>1, <2>2, <2>3, <3>2 DEF TypeOK, Conn
        <4>2. /\ conns[j].player # NULL => /\ players[conns[j].player] # NULL
                                           /\ players[conns[j].player].conn = j
              /\ conns[j].connected => conns[j].player # NULL
          BY <2>1, <2>3, <4>1 DEF ConnPlayerLinked, Linked
        <4>3. conns[j].player # p
          BY <1>1, <3>2, <4>2, WorldAssumption
        <4> QED BY <1>1, <4>1, <4>2, <4>3 DEF TypeOK
      <3> QED BY <3>1, <3>2
    <2>4. ASSUME NEW q \in Players, players'[q] # NULL, players'[q].conn # NULL
          PROVE  conns'[players'[q].conn] # NULL /\ conns'[players'[q].conn].player = q
      <3>1. q # p /\ players[q] # NULL /\ players'[q] = players[q]
        BY <1>1, <2>4 DEF TypeOK
      <3>2. /\ players[q].conn \in Slots /\ conns[players[q].conn] # NULL
            /\ conns[players[q].conn].player = q
        BY <2>4, <3>1 DEF CoreInv, PlayerConnLinked, TypeOK, Player
      <3>3. players[q].conn # i
        BY <1>1, <3>1, <3>2
      <3> QED BY <2>2, <3>1, <3>2, <3>3
    <2> QED BY <2>3, <2>4 DEF ConnPlayerLinked, Linked, Allocated
  <1> QED BY <1>2, <1>3, <1>4, AccountsKeptSessions DEF LinkInv

\* Short of "killconn", only the account menu takes a session away.
LEMMA PlayerFreedSessions ==
    ASSUME CoreInv, LinkInv, NEW i \in Slots, NEW p \in Players, MenuQuit(i, p),
           NEW q \in Players, LoggedIn(q), ~LoggedIn(q)'
    PROVE  Visit("process_input", cursor) /\ TurnIn(cursor, q, "account_menu")
  <1>1. /\ TurnIn(i, p, "account_menu") /\ Visit("process_input", i)
        /\ players' = [players EXCEPT ![p] = NULL]
    BY DEF MenuQuit, TurnIn, Turn, HasLine
  <1>2. q = p
    BY <1>1 DEF LoggedIn, Allocated, CoreInv, TypeOK
  <1> QED BY <1>1, <1>2 DEF Visit

\* A takeover hands slot i from player p to the player that was resumed.
LEMMA ResumeSessionLinks ==
    ASSUME CoreInv, LinkInv, NEW i \in Slots, NEW p \in Players, NEW e \in Players,
           ResumeSession(i, p, e)
    PROVE  LinkInv' /\ SessionsStay
  <1>1. /\ Turn(i, p) /\ e # p
        /\ players[p] # NULL /\ players[p].account = NULL /\ players[p].conn = i
        /\ players[e] \in Player /\ players[e] # NULL /\ players[e].account # NULL
        /\ players'[p] = NULL
        /\ players'[e].conn = i /\ players'[e].account = players[e].account
        /\ \A q \in Players : q # p /\ q # e => players'[q] = players[q]
    BY ResumeFacts
  <1>2. /\ TypeOK /\ conns[i] \in Conn /\ conns[i].player = p
        /\ conns' = ConnsResumed(i, e) /\ registry' = registry \ {p}
        /\ UNCHANGED account_files /\ e \in registry
    BY <1>1, TurnFacts DEF ResumeSession, Unregistered, diskVars, CoreInv
  <1>3. players'[e] # NULL /\ players'[e].state_data = NULL
    <2>1. players'[e] = [players[e] EXCEPT !.conn = i, !.state = "account_menu"]
      BY <1>1, <1>2 DEF ResumeSession, PlayersResumed, TypeOK
    <2>2. players'[e] \in Player /\ players'[e].state_data = players[e].state_data
      BY <1>1, <2>1 DEF Player, PlayerStates
    <2>3. players[e].state_data = NULL
      BY <1>1, ResumeFacts DEF CoreInv, ContextMatchesState, ContextMatches, Allocated
    <2> QED BY <2>2, <2>3, SessionsAssumption
  <1>4. RegistryExact'
    BY <1>1, <1>2, <1>3 DEF LinkInv, RegistryExact, Allocated
  <1>5. AccountsKept /\ SessionsStay
    BY <1>1, <1>2, <1>3 DEF AccountsKept, SessionsStay, LoggedIn, Allocated
  <1>6. ASSUME TestMode = FALSE
        PROVE  ConnPlayerLinked'
    <2>1. ConnPlayerLinked
      BY <1>6 DEF LinkInv
    <2>2. conns'[i].player = e
      <3>1. conns'[i] = [Replied(i)[i] EXCEPT !.player = e]
        BY <1>2 DEF ConnsResumed
      <3>2. Replied(i)[i] = [conns[i] EXCEPT !.line = FALSE, !.output = TRUE]
        BY <1>2 DEF Replied, TypeOK
      <3>3. Replied(i)[i] \in Conn
        BY <1>2, <3>2 DEF Conn
      <3> HIDE DEF Replied
      <3> QED BY <3>1, <3>3 DEF Conn
    <2>3. ASSUME NEW j \in Slots, conns'[j] # NULL
          PROVE  /\ conns'[j].player # NULL =>
                      /\ players'[conns'[j].player] # NULL
                      /\ players'[conns'[j].player].conn = j
                 /\ conns'[j].connected => conns'[j].player # NULL
      <3>1. CASE j = i
        BY <1>1, <1>3, <2>2, <3>1, WorldAssumption
      <3>2. CASE j # i /\ j = players[e].conn
        <4>1. conns[j] \in Conn
          BY <1>1, <1>2, <3>2, SessionsAssumption DEF CoreInv, PlayerConnLinked, TypeOK
        <4>2. conns'[j] = [conns[j] EXCEPT !.player = NULL, !.connected = FALSE,
                                           !.output = FALSE]
          BY <1>2, <3>2 DEF ConnsResumed
        <4> QED BY <4>1, <4>2 DEF Conn
      <3>3. CASE j # i /\ j # players[e].conn
        <4>1. conns'[j] = conns[j]
          BY <1>2, <3>3 DEF ConnsResumed
        <4>2. conns[j].player \in Players \cup {NULL}
          BY <1>2, <2>3, <4>1 DEF TypeOK, Conn
        <4>3. /\ conns[j].player # NULL => /\ players[conns[j].player] # NULL
                                           /\ players[conns[j].player].conn = j
              /\ conns[j].connected => conns[j].player # NULL
          BY <2>1, <2>3, <4>1 DEF ConnPlayerLinked, Linked
        <4>4. conns[j].player # p /\ conns[j].player # e
          BY <1>1, <3>3, <4>3, WorldAssumption
        <4> QED BY <1>1, <4>1, <4>2, <4>3, <4>4
      <3> QED BY <3>1, <3>2, <3>3
    <2>4. PlayerConnLinked'
      BY ResumeSessionCore DEF CoreInv
    <2> QED BY <2>3, <2>4 DEF ConnPlayerLinked, PlayerConnLinked, Linked, Allocated
  <1> QED BY <1>4, <1>5, <1>6, AccountsKeptSessions DEF LinkInv

\* A client connects.
LEMMA AcceptLinks ==
    ASSUME CoreInv, LinkInv, NEW i \in Slots, NEW p \in Players, Accept(i, p)
    PROVE  LinkInv' /\ SessionsKept
  <1>1. /\ TypeOK /\ players[p] = NULL /\ conns[i] = NULL
        /\ conns' = [conns EXCEPT ![i] = NewConn(p)]
        /\ players' = [players EXCEPT ![p] = NewPlayer(i)]
        /\ registry' = registry \cup {p}
        /\ UNCHANGED account_files
    BY DEF Accept, FirstFree, diskVars, CoreInv
  <1>2. /\ players'[p] = NewPlayer(i)
        /\ \A q \in Players : q # p => players'[q] = players[q]
        /\ conns'[i] = NewConn(p)
        /\ \A j \in Slots : j # i => conns'[j] = conns[j]
    BY <1>1 DEF TypeOK
  <1>3. /\ NewPlayer(i) # NULL /\ NewPlayer(i).conn = i /\ NewPlayer(i).account = NULL
        /\ NewPlayer(i).state_data = NULL /\ NewConn(p).player = p
    <2>1. NewPlayer(i) \in Player
      BY DEF NewPlayer, Player, PlayerStates
    <2> QED BY <2>1, SessionsAssumption DEF NewPlayer, NewConn
  <1>4. RegistryExact'
    BY <1>1, <1>2, <1>3 DEF LinkInv, RegistryExact, Allocated
  <1>5. AccountsKept /\ SessionsStay
    BY <1>1, <1>2, <1>3 DEF AccountsKept, SessionsStay, LoggedIn, Allocated
  <1>6. ASSUME TestMode = FALSE
        PROVE  ConnPlayerLinked'
    <2>1. ConnPlayerLinked
      BY <1>6 DEF LinkInv
    <2>2. ASSUME NEW j \in Slots, conns'[j] # NULL
          PROVE  /\ conns'[j].player # NULL =>
                      /\ players'[conns'[j].player] # NULL
                      /\ players'[conns'[j].player].conn = j
                 /\ conns'[j].connected => conns'[j].player # NULL
      <3>1. CASE j = i
        BY <1>2, <1>3, <3>1, WorldAssumption
      <3>2. CASE j # i
        <4>1. conns[j] = conns'[j] /\ conns[j].player \in Players \cup {NULL}
          BY <1>1, <1>2, <2>2, <3>2 DEF TypeOK, Conn
        <4>2. /\ conns[j].player # NULL => /\ players[conns[j].player] # NULL
                                           /\ players[conns[j].player].conn = j
              /\ conns[j].connected => conns[j].player # NULL
          BY <2>1, <2>2, <4>1 DEF ConnPlayerLinked, Linked
        <4> QED BY <1>1, <1>2, <4>1, <4>2
      <3> QED BY <3>1, <3>2
    <2>3. PlayerConnLinked'
      BY AcceptCore DEF CoreInv
    <2> QED BY <2>2, <2>3 DEF ConnPlayerLinked, PlayerConnLinked, Linked, Allocated
  <1>7. SessionsKept
    BY <1>1, <1>2, <1>3, <1>5 DEF SessionsKept, HoldsAccount
  <1> QED BY <1>4, <1>5, <1>6, <1>7, AccountsKeptSessions DEF LinkInv

\* A connection is freed, and its player unlinked.
LEMMA GcFreesLinks ==
    ASSUME CoreInv, LinkInv, NEW i \in Slots, GcFrees(i)
    PROVE  LinkInv' /\ SessionsStay
  <1>1. /\ TypeOK /\ conns[i] \in Conn /\ Linked(i)
        /\ conns' = [conns EXCEPT ![i] = NULL]
        /\ players' = PlayersUnlinked(i)
        /\ UNCHANGED registry /\ UNCHANGED account_files
    BY DEF GcFrees, CoreInv, TypeOK, diskVars
  <1>2. ASSUME NEW q \in Players
        PROVE  /\ players'[q] = NULL <=> players[q] = NULL
               /\ players[q] # NULL => /\ players'[q].account = players[q].account
                                       /\ players'[q].state_data = players[q].state_data
               /\ conns[i].player # q => players'[q] = players[q]
    <2>1. CASE conns[i].player = q
      <3>1. q # NULL
        BY WorldAssumption
      <3>2. players[q] \in Player /\ players[q] # NULL
        BY <1>1, <2>1, <3>1 DEF Linked, TypeOK
      <3>3. players'[q] = [players[q] EXCEPT !.conn = NULL]
        BY <1>1, <2>1, <3>1 DEF PlayersUnlinked, TypeOK
      <3>4. /\ players'[q] \in Player /\ players'[q].account = players[q].account
            /\ players'[q].state_data = players[q].state_data
        BY <3>2, <3>3 DEF Player
      <3> QED BY <2>1, <3>2, <3>4, SessionsAssumption
    <2>2. CASE conns[i].player # q
      BY <1>1, <2>2 DEF PlayersUnlinked, TypeOK
    <2> QED BY <2>1, <2>2
  <1>3. RegistryExact'
    BY <1>1, <1>2 DEF LinkInv, RegistryExact, Allocated
  <1>4. AccountsKept /\ SessionsStay
    BY <1>1, <1>2 DEF AccountsKept, SessionsStay, LoggedIn, Allocated
  <1>5. ASSUME TestMode = FALSE
        PROVE  ConnPlayerLinked'
    <2>1. ConnPlayerLinked
      BY <1>5 DEF LinkInv
    <2>2. ASSUME NEW j \in Slots, conns'[j] # NULL
          PROVE  /\ conns'[j].player # NULL =>
                      /\ players'[conns'[j].player] # NULL
                      /\ players'[conns'[j].player].conn = j
                 /\ conns'[j].connected => conns'[j].player # NULL
      <3>1. j # i /\ conns'[j] = conns[j] /\ conns[j].player \in Players \cup {NULL}
        BY <1>1, <2>2 DEF TypeOK, Conn
      <3>2. /\ conns[j].player # NULL => /\ players[conns[j].player] # NULL
                                         /\ players[conns[j].player].conn = j
            /\ conns[j].connected => conns[j].player # NULL
        BY <2>1, <2>2, <3>1 DEF ConnPlayerLinked, Linked
      <3>3. conns[j].player # NULL => conns[j].player # conns[i].player
        BY <1>1, <3>1, <3>2 DEF Linked
      <3> QED BY <1>2, <3>1, <3>2, <3>3
    <2>3. PlayerConnLinked'
      BY GcFreesCore DEF CoreInv
    <2> QED BY <2>2, <2>3 DEF ConnPlayerLinked, PlayerConnLinked, Linked, Allocated
  <1> QED BY <1>3, <1>4, <1>5, AccountsKeptSessions DEF LinkInv

-----------------------------------------------------------------------------
(* The theorems.                                                            *)

\* Nothing is linked, registered or logged in when the process starts.
LEMMA InitLinks == Init => LinkInv
  BY WorldAssumption, SessionsAssumption
  DEF Init, LinkInv, RegistryExact, ConnPlayerLinked, OneSessionPerAccount, SavedAccounts,
      LoggedIn, Allocated

\* Nor when it starts again.
LEMMA CrashLinks ==
    ASSUME CoreInv, LinkInv, Crash
    PROVE  LinkInv' /\ Reboot
  <1>1. Reboot
    BY DEF Crash, Restart, CrashInCreateAccount, CrashInCreateCharacter
  <1>2. LinkInv'
    BY <1>1, WorldAssumption, SessionsAssumption
    DEF Reboot, LinkInv, RegistryExact, ConnPlayerLinked, OneSessionPerAccount,
        SavedAccounts, LoggedIn, Allocated
  <1> QED BY <1>1, <1>2

\* The processes that only read sockets or write to them.
LEMMA NetworkLinks ==
    ASSUME CoreInv, LinkInv, NEW i \in Slots, NetworkStep(i)
    PROVE  LinkInv' /\ SessionsKept
  <1>1. UNCHANGED <<players, registry, account_files>>
    BY DEF NetworkStep, SkipSlot, EndListen, Read, ReadNoLine, ReadLine, ReadEnd, FlushSlot,
           Flush, FlushFails, FlushKills, GcKeeps, GcDangling, NoLine, DispatchDangling,
           playerVars, diskVars
  <1> QED BY <1>1, NetworkConns, UnchangedLinks

\* Every handler keeps the links, and all but those listed keep every session as
\* it is.
LEMMA HandleLinks ==
    ASSUME CoreInv, LinkInv, NEW i \in Slots, NEW p \in Players, Handle(i, p)
    PROVE  /\ LinkInv'
           /\ \/ SessionsKept
              \/ /\ SessionsStay
                 /\ \/ CreateAccount(i, p) \/ LoginAccount(i, p)
                    \/ \E e \in Players : ResumeSession(i, p, e)
              \/ MenuQuit(i, p) \/ KillConn(i, p)
  <1>1. CASE \/ RefuseLine(i, p) \/ LoadTorn(i, p) \/ ConfirmAborts(i, p)
             \/ PlayTurnStale(i, p)
    BY <1>1, IdleLinks
  <1>2. CASE \/ MenuCommand(i, p) \/ \E u \in Usernames : CreateUsername(i, p, u)
             \/ CreatePassword(i, p) \/ ConfirmMismatch(i, p) \/ ConfirmTaken(i, p)
    BY <1>2, DialogueLinks
  <1>3. CASE \E u \in Usernames : LoginUsername(i, p, u)
    BY <1>3, LoginUsernameLinks
  <1>4. CASE CreateAccount(i, p)
    BY <1>4, CreateAccountLinks
  <1>5. CASE LoginAccount(i, p)
    BY <1>5, LoginAccountLinks
  <1>6. CASE \E e \in Players : ResumeSession(i, p, e)
    BY <1>6, ResumeSessionLinks
  <1>7. CASE MenuQuit(i, p) \/ KillConn(i, p)
    BY <1>7, PlayerFreedLinks
  <1>8. CASE \/ MenuCreate(i, p)
             \/ \E n \in Names, a \in Actors : Play(i, p, n, a)
    BY <1>8, MenuLinks
  <1>9. CASE \E n \in Names : CreateCharacter(i, p, n)
    BY <1>9, CreateCharacterLinks
  <1>10. CASE PlayTurn(i, p)
    BY <1>10, PlayTurnLinks
  <1> QED BY <1>1, <1>2, <1>3, <1>4, <1>5, <1>6, <1>7, <1>8, <1>9, <1>10 DEF Handle

\* The steps that give a session to a player or to a connection, or take the
\* connection away from it.
SessionMoves ==
    \/ \E i \in Slots, p \in Players :
         \/ CreateAccount(i, p) \/ LoginAccount(i, p)
         \/ \E e \in Players : ResumeSession(i, p, e)
    \/ \E i \in Slots : GcFrees(i)

\* Every step keeps the links, and all but the end of a player or of the process
\* keep every session.
LEMMA NextLinks ==
    ASSUME CoreInv, LinkInv, [Next]_vars
    PROVE  /\ LinkInv'
           /\ \/ SessionsKept
              \/ SessionsStay /\ SessionMoves
              \/ Reboot
              \/ \E i \in Slots, p \in Players : MenuQuit(i, p) \/ KillConn(i, p)
  <1>1. CASE Listen
    BY <1>1, NetworkLinks, AcceptLinks, SessionsAssumption DEF Listen, Slots, NetworkStep
  <1>2. CASE \E i \in Slots : SkipSlot(i) \/ Read(i) \/ FlushSlot(i) \/ GcSlot(i)
    BY <1>2, NetworkLinks, GcFreesLinks DEF GcSlot, NetworkStep, SessionMoves
  <1>3. CASE \E i \in Slots : ProcessInput(i)
    BY <1>3, NetworkLinks, HandleLinks DEF ProcessInput, NetworkStep, SessionMoves
  <1>4. CASE Crash
    BY <1>4, CrashLinks
  <1>5. CASE UNCHANGED vars
    <2>1. UNCHANGED <<players, registry, account_files>> /\ UNCHANGED conns /\ TypeOK
      BY <1>5 DEF vars, diskVars, CoreInv
    <2> QED BY <2>1, ConnsAlone, UnchangedLinks
  <1> QED BY <1>1, <1>2, <1>3, <1>4, <1>5 DEF Next, Tick

\* The invariant holds in every state the server can reach.
THEOREM LinkInvariant == Spec => []LinkInv
  <1>1. CoreInv /\ LinkInv /\ [Next]_vars => LinkInv'
    BY NextLinks
  <1> QED BY <1>1, InitLinks, CoreInvariant, PTL DEF Spec

\* The list of registered players is exactly the players that are allocated.
THEOREM RegistryCorrect == Spec => []RegistryExact
  <1>1. LinkInv => RegistryExact
    BY DEF LinkInv
  <1> QED BY <1>1, LinkInvariant, PTL

\* Logging in, creating accounts, takeovers and lost connections never leave two
\* players with the same account.
THEOREM SessionsExclusive == Spec => []OneSessionPerAccount
  <1>1. LinkInv => OneSessionPerAccount
    BY DEF LinkInv
  <1> QED BY <1>1, LinkInvariant, PTL

\* Out of test mode, connections and players point at each other, and a
\* connection that is open has a player.
THEOREM LinksCorrect ==
    ASSUME TestMode = FALSE
    PROVE  Spec => []ConnPlayerLinked
  <1>1. LinkInv => ConnPlayerLinked
    BY DEF LinkInv
  <1> QED BY <1>1, LinkInvariant, PTL

\* Out of test mode, none of the CHECKs on these links ever fails.
THEOREM AssertionsCorrect ==
    ASSUME TestMode = FALSE
    PROVE  Spec => []AssertionsHold
  <1>1. Init => AssertionsHold
    BY DEF Init, AssertionsHold
  <1>2. ASSUME CoreInv, LinkInv, AssertionsHold, [Next]_vars
        PROVE  AssertionsHold'
    <2>1. ConnPlayerLinked
      BY <1>2 DEF LinkInv
    <2>2. ASSUME NEW i \in Slots, GcDangling(i)
          PROVE  FALSE
      BY <2>1, <2>2 DEF GcDangling, ConnPlayerLinked
    <2>3. ASSUME NEW i \in Slots, NEW p \in Players, Handle(i, p)
          PROVE  AssertionsHold'
      <3>1. Turn(i, p)
        BY <2>3
        DEF Handle, RefuseLine, MenuCommand, LoadTorn, CreateUsername, LoginUsername,
            CreatePassword, ConfirmMismatch, ConfirmTaken, ConfirmAborts, CreateAccount,
            Confirmed, LoginAccount, ResumeSession, MenuQuit, MenuCreate, Play,
            CreateCharacter, NameAccepted, PlayTurn, PlayTurnStale, KillConn, AtStep, TurnIn
      <3>2. /\ players[p] # NULL /\ players[p] \in Player /\ ContextMatches(players[p])
        BY <1>2, <3>1, TurnFacts
      <3>3. /\ players[p].actor # NULL => ActorLinked(p)
            /\ players[p].state = "playing" => players[p].actor # NULL
            /\ players[p].state = "character_creation" => players[p].account # NULL
        BY <1>2, <3>2 DEF CoreInv, PlayerActorLinked, Allocated, ContextMatches
      <3>4. CASE \/ PlayTurn(i, p) \/ MenuQuit(i, p) \/ KillConn(i, p)
                 \/ \E n \in Names : CreateCharacter(i, p, n)
        <4>1. CASE PlayTurn(i, p)
          <5>1. players[p].actor # NULL
            BY <3>3, <4>1 DEF PlayTurn, TurnIn
          <5>2. CASE Looks(i, players[p].actor)
            BY <5>2, WalkOutcomesType DEF Looks, LookAround, AssertionsHold
          <5>3. CASE \E to \in Rooms : Walks(i, players[p].actor, to)
            <6>1. server' \in {"running", "hung", "undefined", "contents_located"}
              BY <5>3, WalkOutcomesType DEF Walks, WalkTo
            <6> QED BY <6>1 DEF AssertionsHold
          <5> QED
            BY <1>2, <3>3, <4>1, <5>1, <5>2, <5>3
            DEF PlayTurn, Idles, Leaves, AssertionsHold
        <4>2. CASE MenuQuit(i, p) \/ KillConn(i, p)
          BY <3>3, <4>2 DEF MenuQuit, KillConn, AssertionsHold
        <4>3. CASE \E n \in Names : CreateCharacter(i, p, n)
          BY <1>2, <3>3, <4>3
          DEF CreateCharacter, NameAccepted, TurnIn, Answer, AssertionsHold
        <4> QED BY <3>4, <4>1, <4>2, <4>3
      <3>5. CASE \E n \in Names, a \in Actors : Play(i, p, n, a)
        BY <3>5, WalkOutcomesType DEF Play, EnterWorld, AssertionsHold
      <3>6. CASE \E e \in Players : ResumeSession(i, p, e)
        BY <3>6 DEF ResumeSession, AssertionsHold
      <3>7. CASE \/ RefuseLine(i, p) \/ MenuCommand(i, p)
                 \/ LoadTorn(i, p) \/ ConfirmAborts(i, p) \/ PlayTurnStale(i, p)
                 \/ \E u \in Usernames : CreateUsername(i, p, u) \/ LoginUsername(i, p, u)
                 \/ CreatePassword(i, p) \/ ConfirmMismatch(i, p) \/ ConfirmTaken(i, p)
                 \/ CreateAccount(i, p) \/ LoginAccount(i, p) \/ MenuCreate(i, p)
        BY <1>2, <3>7
        DEF RefuseLine, MenuCommand, LoadTorn, ConfirmAborts, PlayTurnStale, CreateUsername,
            LoginUsername, CreatePassword, ConfirmMismatch, ConfirmTaken, CreateAccount,
            LoginAccount, MenuCreate, Answer, Abort, AssertionsHold
      <3> QED BY <2>3, <3>4, <3>5, <3>6, <3>7 DEF Handle, SessionsKept
    <2>4. CASE Crash
      BY <1>2, <2>4, CrashLinks DEF Reboot, AssertionsHold
    <2>5. CASE \/ Listen \/ UNCHANGED vars
               \/ \E i \in Slots : \/ SkipSlot(i) \/ Read(i) \/ FlushSlot(i) \/ GcSlot(i)
                                    \/ NoLine(i) \/ DispatchDangling(i)
      BY <1>2, <2>2, <2>5
      DEF Listen, EndListen, Accept, SkipSlot, Read, ReadNoLine, ReadLine, ReadEnd, FlushSlot,
          Flush, FlushFails, FlushKills, GcSlot, GcKeeps, GcFrees, NoLine, DispatchDangling,
          vars, AssertionsHold
    <2> QED BY <1>2, <2>3, <2>4, <2>5 DEF Next, Tick, ProcessInput
  <1> QED BY <1>1, <1>2, CoreInvariant, LinkInvariant, PTL DEF Spec

\* Out of test mode, a session ends when its own client quits from the account
\* menu, or when the process ends, and in no other way.
THEOREM SessionsLast ==
    ASSUME TestMode = FALSE
    PROVE  Spec => SessionEndsOnlyByQuit
  <1>1. ASSUME CoreInv, LinkInv, [Next]_vars, NEW p \in Players, LoggedIn(p), ~LoggedIn(p)'
        PROVE  Reboot \/ (Visit("process_input", cursor) /\ TurnIn(cursor, p, "account_menu"))
    BY <1>1, NextLinks, PlayerFreedSessions DEF SessionsStay, SessionsKept, KillConn
  <1>2. CoreInv /\ LinkInv /\ [Next]_vars =>
          [\A p \in Players :
             LoggedIn(p) /\ ~LoggedIn(p)' =>
                \/ Reboot
                \/ /\ Visit("process_input", cursor)
                   /\ TurnIn(cursor, p, "account_menu")]_vars
    BY <1>1
  <1> QED BY <1>2, CoreInvariant, LinkInvariant, PTL DEF Spec, SessionEndsOnlyByQuit

-----------------------------------------------------------------------------
(* Sessions implements AccountSessions.                                      *)

\* The variable of AccountSessions, as Sessions computes it.
Held == [u \in Usernames |-> Holder(u)]

\* Where the client of player p is.
Place(p) == IF players[p].conn = NULL THEN Detached ELSE players[p].conn

\* CHOOSE gone: the holder of an account is the place of whichever player has it.
HoldersMatch ==
    \A u \in Usernames :
        /\ (\A p \in Players : ~HoldsAccount(p, u)) => Holder(u) = Free
        /\ \A p \in Players : HoldsAccount(p, u) => Holder(u) = Place(p)

\* One player at most has an account, so it is the one SessionOf finds.
LEMMA HoldersKnown == LinkInv => HoldersMatch
  <1> SUFFICES ASSUME LinkInv, NEW u \in Usernames
               PROVE  /\ (\A p \in Players : ~HoldsAccount(p, u)) => Holder(u) = Free
                      /\ \A p \in Players : HoldsAccount(p, u) => Holder(u) = Place(p)
    BY DEF HoldersMatch
  <1>1. (\A p \in Players : ~HoldsAccount(p, u)) => Holder(u) = Free
    BY DEF Holder
  <1>2. ASSUME NEW p \in Players, HoldsAccount(p, u)
        PROVE  Holder(u) = Place(p)
    <2>1. SessionOf(u) \in Players /\ HoldsAccount(SessionOf(u), u)
      BY <1>2 DEF SessionOf
    <2>2. SessionOf(u) = p
      BY <1>2, <2>1
      DEF LinkInv, OneSessionPerAccount, HoldsAccount, LoggedIn, Allocated
    <2> QED BY <1>2, <2>2 DEF Holder, Place
  <1> QED BY <1>1, <1>2

\* The session of account u is where it was.
Stays(u) ==
    \A q \in Players :
        /\ HoldsAccount(q, u)' <=> HoldsAccount(q, u)
        /\ HoldsAccount(q, u) => players'[q].conn = players[q].conn

\* So its holder is who it was.
LEMMA StaysHeld ==
    ASSUME HoldersMatch, HoldersMatch', NEW u \in Usernames, Stays(u)
    PROVE  Holder(u)' = Holder(u)
  <1>1. CASE \A p \in Players : ~HoldsAccount(p, u)
    BY <1>1 DEF HoldersMatch, Stays
  <1>2. CASE \E p \in Players : HoldsAccount(p, u)
    <2>1. PICK p \in Players : HoldsAccount(p, u)
      BY <1>2
    <2>2. HoldsAccount(p, u)' /\ players'[p].conn = players[p].conn
      BY <2>1 DEF Stays
    <2>3. Holder(u) = Place(p) /\ Holder(u)' = Place(p)'
      BY <2>1, <2>2 DEF HoldersMatch
    <2> QED BY <2>2, <2>3 DEF Place
  <1> QED BY <1>1, <1>2

\* A step that leaves every session where it is is a stutter.
LEMMA AllStay ==
    ASSUME HoldersMatch, HoldersMatch', \A u \in Usernames : Stays(u)
    PROVE  Held' = Held
  BY StaysHeld DEF Held

\* A step that moves one session changes one entry.
LEMMA OneMoves ==
    ASSUME HoldersMatch, HoldersMatch', NEW u \in Usernames,
           \A v \in Usernames \ {u} : Stays(v)
    PROVE  Held' = [Held EXCEPT ![u] = Holder(u)']
  <1>1. \A v \in Usernames \ {u} : Holder(v)' = Holder(v)
    BY StaysHeld
  <1> QED BY <1>1 DEF Held

\* A player without an account holds none through its slot.
LEMMA SlotHoldsNothing ==
    ASSUME CoreInv, HoldersMatch, NEW i \in Slots, NEW p \in Players,
           Turn(i, p), players[p].account = NULL
    PROVE  \A v \in Usernames : Held[v] # i
  <1> SUFFICES ASSUME NEW v \in Usernames, Holder(v) = i PROVE FALSE
    BY DEF Held
  <1>1. PICK q \in Players : HoldsAccount(q, v)
    BY SessionsAssumption DEF HoldersMatch
  <1>2. Place(q) = i
    BY <1>1 DEF HoldersMatch
  <1>3. players[q] # NULL /\ players[q].conn = i
    BY <1>1, <1>2, SessionsAssumption DEF Place, HoldsAccount
  <1>4. conns[i].player = q
    BY <1>3, SessionsAssumption DEF CoreInv, PlayerConnLinked
  <1>5. q = p
    BY <1>4, TurnFacts
  <1> QED BY <1>1, <1>5 DEF HoldsAccount

-----------------------------------------------------------------------------
(* The steps that move a session.                                           *)

\* A player of slot i gets the account u.
LEMMA NewSessionImplements ==
    ASSUME CoreInv, HoldersMatch, HoldersMatch', NEW i \in Slots, NEW p \in Players,
           NEW u \in Usernames, Turn(i, p), Rewrites(p), conns' = Replied(i),
           players[p].account = NULL,
           players'[p].account # NULL, players'[p].account.username = u
    PROVE  AbstractSessions!LogIn(u, i)
  <1>1. /\ players[p] # NULL /\ players'[p] # NULL /\ players'[p].conn = i
        /\ \A q \in Players : q # p => players'[q] = players[q]
    BY TurnFacts, SessionsAssumption DEF Rewrites, CoreInv, TypeOK
  <1>2. ASSUME NEW v \in Usernames \ {u}
        PROVE  Stays(v)
    BY <1>1, <1>2 DEF Stays, HoldsAccount
  <1>3. Held' = [Held EXCEPT ![u] = Holder(u)']
    BY <1>2, OneMoves
  <1>4. HoldsAccount(p, u)' /\ Place(p)' = i
    BY <1>1, SessionsAssumption DEF HoldsAccount, Place
  <1>5. Holder(u)' = i
    BY <1>4 DEF HoldersMatch
  <1> QED BY <1>3, <1>5, SlotHoldsNothing DEF AbstractSessions!LogIn, Held

\* A new account, or one nobody has a session of.
LEMMA LoginImplements ==
    ASSUME CoreInv, HoldersMatch, HoldersMatch', NEW i \in Slots, NEW p \in Players,
           CreateAccount(i, p) \/ LoginAccount(i, p)
    PROVE  AbstractSessions!Next
  <1>1. Turn(i, p) /\ conns' = Replied(i)
    BY DEF CreateAccount, LoginAccount, Confirmed, AtStep, TurnIn, Answer
  <1>2. /\ Rewrites(p) /\ players[p].account = NULL
        /\ \E u \in Usernames : players'[p].account # NULL /\ players'[p].account.username = u
    <2>1. CASE CreateAccount(i, p)
      <3> DEFINE w == players[p].state_data.username
      <3>1. /\ Rewrites(p) /\ players[p].account = NULL /\ w \in Usernames
            /\ players'[p].account = account_new(w)
        BY <2>1, CreateAccountRewrites
      <3>2. account_new(w) \in Account /\ account_new(w).username = w
        BY <3>1 DEF account_new, Account
      <3> HIDE DEF w
      <3> QED BY <3>1, <3>2, SessionsAssumption
    <2>2. CASE LoginAccount(i, p)
      <3>1. AtStep(i, p, "login", "password")
        BY <2>2 DEF LoginAccount
      <3>2. players[p].state_data.account # NULL
        BY <1>1, <3>1, TurnFacts, DialogueFacts DEF ContextMatches
      <3> QED BY <2>2, <3>2, LoginAccountRewrites
    <2> QED BY <2>1, <2>2
  <1>3. PICK u \in Usernames : players'[p].account # NULL /\ players'[p].account.username = u
    BY <1>2
  <1>4. AbstractSessions!LogIn(u, i)
    BY <1>1, <1>2, <1>3, NewSessionImplements
  <1> QED BY <1>4 DEF AbstractSessions!Next, AbstractSessions!Slots, Slots

\* A takeover, of a session that was connected or not.
LEMMA ResumeImplements ==
    ASSUME CoreInv, HoldersMatch, HoldersMatch', NEW i \in Slots, NEW p \in Players,
           NEW e \in Players, ResumeSession(i, p, e)
    PROVE  AbstractSessions!Next
  <1>1. /\ Turn(i, p) /\ e # p
        /\ players[p].account = NULL /\ players'[p] = NULL
        /\ players[e] # NULL /\ players[e].account # NULL
        /\ players[e].account.username \in Usernames
        /\ players'[e].conn = i /\ players'[e].account = players[e].account
        /\ \A q \in Players : q # p /\ q # e => players'[q] = players[q]
    BY ResumeFacts DEF Account
  <1>2. players'[e] # NULL
    <2>1. players'[e] = [players[e] EXCEPT !.conn = i, !.state = "account_menu"]
      BY <1>1 DEF ResumeSession, PlayersResumed, CoreInv, TypeOK
    <2>2. players[e] \in Player
      BY ResumeFacts
    <2>3. players'[e] \in Player
      BY <2>1, <2>2 DEF Player, PlayerStates
    <2> QED BY <2>3, SessionsAssumption
  <1>3. PICK u \in Usernames : players[e].account.username = u
    BY <1>1
  <1>4. ASSUME NEW v \in Usernames \ {u}
        PROVE  Stays(v)
    BY <1>1, <1>2, <1>3 DEF Stays, HoldsAccount
  <1>5. Held' = [Held EXCEPT ![u] = Holder(u)']
    BY <1>4, OneMoves
  <1>6. HoldsAccount(e, u)' /\ Place(e)' = i
    BY <1>1, <1>2, <1>3, SessionsAssumption DEF HoldsAccount, Place
  <1>7. Holder(u)' = i
    BY <1>6 DEF HoldersMatch
  <1>8. AbstractSessions!LogIn(u, i)
    BY <1>1, <1>5, <1>7, SlotHoldsNothing DEF AbstractSessions!LogIn, Held
  <1> QED BY <1>8 DEF AbstractSessions!Next, AbstractSessions!Slots, Slots

\* A connection is freed: the session behind it, if it has an account, waits.
LEMMA GcFreesImplements ==
    ASSUME CoreInv, HoldersMatch, HoldersMatch', NEW i \in Slots, GcFrees(i)
    PROVE  AbstractSessions!Next \/ Held' = Held
  <1>1. TypeOK /\ conns[i] \in Conn /\ Linked(i) /\ players' = PlayersUnlinked(i)
    BY DEF GcFrees, CoreInv, TypeOK
  <1>2. CASE conns[i].player = NULL
    <2>1. players' = players
      BY <1>1, <1>2 DEF PlayersUnlinked
    <2> QED BY <2>1, AllStay DEF Stays, HoldsAccount
  <1>3. CASE conns[i].player # NULL
    <2>1. PICK p \in Players : conns[i].player = p
      BY <1>1, <1>3 DEF Conn
    <2>2. players[p] \in Player /\ players[p] # NULL /\ players[p].conn = i
      BY <1>1, <1>3, <2>1 DEF Linked, TypeOK
    <2>3. /\ players'[p] = [players[p] EXCEPT !.conn = NULL]
          /\ \A q \in Players : q # p => players'[q] = players[q]
      BY <1>1, <1>3, <2>1 DEF PlayersUnlinked, TypeOK
    <2>4. players'[p] # NULL /\ players'[p].conn = NULL /\ players'[p].account = players[p].account
      <3>1. players'[p] \in Player
        BY <2>2, <2>3 DEF Player
      <3> QED BY <2>2, <2>3, <3>1, SessionsAssumption DEF Player
    <2>5. CASE players[p].account = NULL
      BY <2>3, <2>4, <2>5, AllStay DEF Stays, HoldsAccount
    <2>6. CASE players[p].account # NULL
      <3>1. PICK u \in Usernames : players[p].account.username = u
        BY <2>2, <2>6 DEF Player, Account
      <3>2. ASSUME NEW v \in Usernames \ {u}
            PROVE  Stays(v)
        BY <2>2, <2>3, <2>4, <3>1 DEF Stays, HoldsAccount
      <3>3. Held' = [Held EXCEPT ![u] = Holder(u)']
        BY <3>2, OneMoves
      <3>4. HoldsAccount(p, u) /\ Place(p) = i /\ HoldsAccount(p, u)' /\ Place(p)' = Detached
        BY <2>2, <2>4, <2>6, <3>1, SessionsAssumption DEF HoldsAccount, Place
      <3>5. Holder(u) = i /\ Holder(u)' = Detached
        BY <3>4 DEF HoldersMatch
      <3>6. AbstractSessions!LoseConnection(u)
        BY <3>3, <3>5 DEF AbstractSessions!LoseConnection, Held, AbstractSessions!Slots, Slots
      <3> QED BY <3>6 DEF AbstractSessions!Next
    <2> QED BY <2>5, <2>6
  <1> QED BY <1>2, <1>3

\* A client ends its session, or has its player destroyed.
LEMMA PlayerFreedImplements ==
    ASSUME CoreInv, HoldersMatch, HoldersMatch', NEW i \in Slots, NEW p \in Players,
           MenuQuit(i, p) \/ KillConn(i, p)
    PROVE  AbstractSessions!Next \/ Held' = Held
  <1>1. /\ Turn(i, p) /\ TypeOK /\ players' = [players EXCEPT ![p] = NULL]
    BY DEF MenuQuit, KillConn, TurnIn, CoreInv
  <1>2. /\ players[p] \in Player /\ players[p] # NULL /\ players[p].conn = i
        /\ players'[p] = NULL /\ \A q \in Players : q # p => players'[q] = players[q]
    BY <1>1, TurnFacts DEF TypeOK
  <1>3. CASE players[p].account = NULL
    BY <1>2, <1>3, AllStay DEF Stays, HoldsAccount
  <1>4. CASE players[p].account # NULL
    <2>1. PICK u \in Usernames : players[p].account.username = u
      BY <1>2, <1>4 DEF Player, Account
    <2>2. ASSUME NEW v \in Usernames \ {u}
          PROVE  Stays(v)
      BY <1>2, <2>1 DEF Stays, HoldsAccount
    <2>3. Held' = [Held EXCEPT ![u] = Holder(u)']
      BY <2>2, OneMoves
    <2>4. Holder(u) = i
      BY <1>2, <1>4, <2>1, SessionsAssumption DEF HoldsAccount, Place, HoldersMatch
    <2>5. Holder(u)' = Free
      <3>1. ASSUME NEW q \in Players, HoldsAccount(q, u)'
            PROVE  FALSE
        <4>1. q # p /\ HoldsAccount(q, u)
          BY <1>2, <3>1 DEF HoldsAccount
        <4>2. Place(q) = i
          BY <2>4, <4>1 DEF HoldersMatch
        <4>3. players[q] # NULL /\ players[q].conn = i
          BY <4>1, <4>2, SessionsAssumption DEF Place, HoldsAccount
        <4>4. conns[i].player = q
          BY <4>3, SessionsAssumption DEF CoreInv, PlayerConnLinked
        <4> QED BY <1>1, <4>1, <4>4, TurnFacts
      <3> QED BY <3>1 DEF HoldersMatch
    <2>6. AbstractSessions!Quit(u)
      BY <2>3, <2>4, <2>5 DEF AbstractSessions!Quit, Held, AbstractSessions!Slots, Slots
    <2> QED BY <2>6 DEF AbstractSessions!Next
  <1> QED BY <1>3, <1>4

-----------------------------------------------------------------------------
(* The refinement.                                                          *)

\* Every step of the server is a step of AccountSessions or none.
LEMMA NextImplements ==
    ASSUME CoreInv, LinkInv, HoldersMatch, HoldersMatch', [Next]_vars
    PROVE  AbstractSessions!Next \/ Held' = Held
  <1>1. CASE SessionsKept
    BY <1>1, AllStay DEF SessionsKept, Stays
  <1>2. CASE SessionMoves
    BY <1>2, LoginImplements, ResumeImplements, GcFreesImplements DEF SessionMoves
  <1>3. CASE Reboot
    <2>1. \A u \in Usernames, p \in Players : ~HoldsAccount(p, u)'
      BY <1>3 DEF Reboot, HoldsAccount
    <2>2. \A u \in Usernames : Holder(u)' = Free
      BY <2>1 DEF HoldersMatch
    <2> QED BY <2>2 DEF Held, AbstractSessions!Next, AbstractSessions!Restart
  <1>4. CASE \E i \in Slots, p \in Players : MenuQuit(i, p) \/ KillConn(i, p)
    BY <1>4, PlayerFreedImplements
  <1> QED BY <1>1, <1>2, <1>3, <1>4, NextLinks

\* Players, connections, takeovers, lost connections, quits and crashes give every
\* account one exclusive session that can be resumed.
THEOREM SessionsImplement == Spec => ImplementsAccountSessions
  <1>1. Init => AbstractSessions!Init
    <2> SUFFICES ASSUME Init PROVE AbstractSessions!Init
      OBVIOUS
    <2>1. \A u \in Usernames, p \in Players : ~HoldsAccount(p, u)
      BY DEF Init, HoldsAccount
    <2> QED BY <2>1 DEF Holder, AbstractSessions!Init
  <1>2. CoreInv /\ LinkInv /\ HoldersMatch /\ HoldersMatch' /\ [Next]_vars =>
          [AbstractSessions!Next]_Held
    BY NextImplements
  <1> QED BY <1>1, <1>2, HoldersKnown, CoreInvariant, LinkInvariant, PTL
    DEF Spec, ImplementsAccountSessions, AbstractSessions!Spec, Held

-----------------------------------------------------------------------------
(* What the sessions promise.                                               *)

\* A session that lost its connection goes on until it is resumed, or until the
\* server starts again.
THEOREM DetachedSessionsWait == Spec => DetachedSessionWaits
  <1> DEFINE Waits == \A u \in Usernames : Held[u] = Detached =>
                        \/ Held'[u] \in {Detached} \cup AbstractSessions!Slots
                        \/ \A v \in Usernames : Held'[v] = Free
  <1>1. ASSUME CoreInv, HoldersMatch, AbstractSessions!Next \/ Held' = Held
        PROVE  [Waits]_Held
    <2> SUFFICES ASSUME NEW u \in Usernames, Held[u] = Detached, AbstractSessions!Next
                 PROVE  \/ Held'[u] \in {Detached} \cup AbstractSessions!Slots
                        \/ \A v \in Usernames : Held'[v] = Free
      BY <1>1
    <2>1. ASSUME NEW v \in Usernames, NEW i \in AbstractSessions!Slots,
                 AbstractSessions!LogIn(v, i)
          PROVE  Held'[u] \in {Detached} \cup AbstractSessions!Slots
      BY <2>1 DEF AbstractSessions!LogIn, Held
    <2>2. ASSUME NEW v \in Usernames,
                 AbstractSessions!LoseConnection(v) \/ AbstractSessions!Quit(v)
          PROVE  Held'[u] = Detached
      BY <2>2, SessionsAssumption
      DEF AbstractSessions!LoseConnection, AbstractSessions!Quit, Held,
          AbstractSessions!Slots, Slots
    <2>3. ASSUME AbstractSessions!Restart
          PROVE  \A v \in Usernames : Held'[v] = Free
      BY <2>3 DEF AbstractSessions!Restart, Held
    <2> QED BY <2>1, <2>2, <2>3 DEF AbstractSessions!Next
  <1>2. CoreInv /\ LinkInv /\ HoldersMatch /\ HoldersMatch' /\ [Next]_vars => [Waits]_Held
    BY <1>1, NextImplements
  <1>3. [][Waits]_Held => DetachedSessionWaits
    BY DEF DetachedSessionWaits, AbstractSessions!DetachedWaits, Held
  <1> QED BY <1>2, <1>3, HoldersKnown, CoreInvariant, LinkInvariant, PTL DEF Spec
=============================================================================
