---------------------------- MODULE Names_proofs ----------------------------
(***************************************************************************)
(* Theorems about Sessions: the names of characters, in memory and on disk. *)
(***************************************************************************)
EXTENDS Sessions_proofs

\* An account the server may come to save: a file has it, a player holds it, or
\* a login that waits for the password has loaded it, maybe long ago.
InFile(acct) == \E u \in Usernames : account_files[u] = acct

HeldBy(p, acct) ==
    /\ players[p] # NULL
    /\ \/ players[p].account = acct
       \/ players[p].state_data # NULL /\ players[p].state_data.account = acct

InHand(acct) == InFile(acct) \/ \E p \in Players : HeldBy(p, acct)

\* Character files have the names that player_create_character gives them.
FilesLowered == \A n \in Names : character_files[n] # NoFile => Lower[n] = n

CharactersFiled ==
    \A acct \in Account : InHand(acct) =>
        \A n \in acct.characters : character_files[n] # NoFile

CharactersApart ==
    \A a, b \in Account :
        InHand(a) /\ InHand(b) /\ a.username # b.username => a.characters \cap b.characters = {}

\* No two names differ in case only, and all are typed in lower case.
LowerCase == \A n \in Names : Lower[n] = n

NamesInv ==
    /\ FilesLowered
    /\ CharactersFiled
    /\ LowerCase => CharactersApart

-----------------------------------------------------------------------------
(* What a step may do to names.                                             *)

\* No account appears that was not there.
NoNewAccount == \A acct \in Account : InHand(acct)' => InHand(acct)

\* No character file disappears, and none gets a name with capitals.
FilesKept ==
    /\ FilesLowered'
    /\ \A n \in Names : character_files[n] # NoFile => character_files'[n] # NoFile

\* A step that adds neither account nor name.
LEMMA NamesStay ==
    ASSUME NamesInv, NoNewAccount, FilesKept
    PROVE  NamesInv'
  <1>1. CharactersFiled'
    <2> SUFFICES ASSUME NEW acct \in Account, InHand(acct)', NEW n \in acct.characters
                 PROVE  character_files'[n] # NoFile
      BY DEF CharactersFiled
    <2>1. n \in Names
      BY DEF Account
    <2>2. character_files[n] # NoFile
      BY DEF NoNewAccount, NamesInv, CharactersFiled
    <2> QED BY <2>1, <2>2 DEF FilesKept
  <1>2. ASSUME LowerCase
        PROVE  CharactersApart'
    <2> SUFFICES ASSUME NEW a \in Account, NEW b \in Account, InHand(a)', InHand(b)',
                        a.username # b.username
                 PROVE  a.characters \cap b.characters = {}
      BY DEF CharactersApart
    <2>1. InHand(a) /\ InHand(b)
      BY DEF NoNewAccount
    <2> QED BY <1>2, <2>1 DEF NamesInv, CharactersApart
  <1>3. LowerCase' <=> LowerCase
    BY DEF LowerCase
  <1> QED BY <1>1, <1>2, <1>3 DEF NamesInv, FilesKept

\* A step that writes no character file.
LEMMA FilesAlone ==
    ASSUME NamesInv, UNCHANGED character_files
    PROVE  FilesKept
  BY DEF NamesInv, FilesKept, FilesLowered

\* A step that changes no player and no account file.
LEMMA AccountsAlone ==
    ASSUME UNCHANGED <<players, account_files>>
    PROVE  NoNewAccount
  BY DEF NoNewAccount, InHand, InFile, HeldBy

\* What comes into hand when a handler rewrites its player is what it stores there.
LEMMA RewritesHand ==
    ASSUME CoreInv, NEW p \in Players, players[p] # NULL, Rewrites(p),
           NEW acct \in Account, InHand(acct)'
    PROVE  \/ InHand(acct)
           \/ InFile(acct)' /\ ~InFile(acct)
           \/ players'[p].account = acct
           \/ /\ players'[p].account = NULL
              /\ players'[p].state_data.account = acct
  <1>1. CASE InFile(acct)'
    BY <1>1 DEF InHand
  <1>2. ASSUME NEW q \in Players, HeldBy(q, acct)', q # p
        PROVE  InHand(acct)
    <2>1. players'[q] = players[q]
      BY <1>2 DEF Rewrites, CoreInv, TypeOK
    <2> QED BY <1>2, <2>1 DEF InHand, HeldBy
  <1>3. CASE HeldBy(p, acct)'
    <2>1. players'[p].state_data # NULL => players'[p].account = NULL
      BY DEF Rewrites, ContextMatches
    <2> QED BY <1>3, <2>1 DEF HeldBy
  <1> QED BY <1>1, <1>2, <1>3 DEF InHand

\* Rewriting a player with accounts in hand only.
LEMMA RewritesNoNew ==
    ASSUME CoreInv, NEW p \in Players, players[p] # NULL, Rewrites(p), UNCHANGED account_files,
           players'[p].account # NULL => InHand(players'[p].account),
           players'[p].account = NULL /\ players'[p].state_data.account # NULL
             => InHand(players'[p].state_data.account)
    PROVE  NoNewAccount
  <1> SUFFICES ASSUME NEW acct \in Account, InHand(acct)'
               PROVE  InHand(acct)
    BY DEF NoNewAccount
  <1>1. acct # NULL
    BY SessionsAssumption
  <1>2. InFile(acct)' <=> InFile(acct)
    BY DEF InFile
  <1> QED BY <1>1, <1>2, RewritesHand

-----------------------------------------------------------------------------
(* Handlers that bring no new account.                                      *)

\* Those that leave every player as it is.
LEMMA IdleNames ==
    ASSUME CoreInv, NamesInv, NEW i \in Slots, NEW p \in Players,
           \/ RefuseLine(i, p) \/ LoadTorn(i, p) \/ ConfirmAborts(i, p)
           \/ PlayTurnStale(i, p)
    PROVE  NamesInv'
  <1>1. UNCHANGED <<players, account_files>> /\ UNCHANGED character_files
    BY DEF RefuseLine, LoadTorn, ConfirmAborts, PlayTurnStale, Abort, playerVars, diskVars
  <1> QED BY <1>1, AccountsAlone, FilesAlone, NamesStay

\* The dialogues; an account that is loaded was in its file.
LEMMA DialogueNames ==
    ASSUME CoreInv, NamesInv, NEW i \in Slots, NEW p \in Players,
           \/ MenuCommand(i, p)
           \/ \E u \in Usernames : CreateUsername(i, p, u) \/ LoginUsername(i, p, u)
           \/ CreatePassword(i, p) \/ ConfirmMismatch(i, p) \/ ConfirmTaken(i, p)
    PROVE  NamesInv'
  <1>1. /\ Turn(i, p) /\ UNCHANGED account_files /\ UNCHANGED character_files
    BY DEF MenuCommand, CreateUsername, LoginUsername, CreatePassword, ConfirmMismatch,
           ConfirmTaken, AtStep, TurnIn, diskVars
  <1>2. players[p] # NULL
    BY <1>1, TurnFacts
  <1>3. /\ Rewrites(p) /\ players'[p].account = NULL
        /\ \/ players'[p].state_data.account = NULL
           \/ /\ players'[p].state_data.account = players[p].state_data.account
              /\ players[p].state_data # NULL
           \/ \E u \in Usernames : players'[p].state_data.account = account_files[u]
    BY MenuCommandRewrites, CreateUsernameRewrites, CreatePasswordRewrites,
       ConfirmMismatchRewrites, ConfirmTakenRewrites, LoginUsernameRewrites
  <1>4. players'[p].state_data.account # NULL => InHand(players'[p].state_data.account)
    BY <1>2, <1>3 DEF InHand, InFile, HeldBy
  <1>5. NoNewAccount
    BY <1>1, <1>2, <1>3, <1>4, RewritesNoNew
  <1> QED BY <1>1, <1>5, FilesAlone, NamesStay

\* Steps of a player that keeps its account, and the login, which takes the
\* account of its dialogue.
LEMMA MenuNames ==
    ASSUME CoreInv, NamesInv, NEW i \in Slots, NEW p \in Players,
           \/ MenuCreate(i, p) \/ LoginAccount(i, p)
           \/ \E n \in Names, a \in Actors : Play(i, p, n, a)
    PROVE  NamesInv'
  <1>1. Turn(i, p) /\ UNCHANGED account_files /\ UNCHANGED character_files
    BY DEF MenuCreate, LoginAccount, Play, AtStep, TurnIn, diskVars
  <1>2. players[p] # NULL /\ ContextMatches(players[p])
    BY <1>1, TurnFacts
  <1>3. /\ Rewrites(p) /\ players'[p].account # NULL
        /\ HeldBy(p, players'[p].account)
    <2>1. CASE LoginAccount(i, p)
      <3>1. /\ Rewrites(p) /\ players'[p].account = players[p].state_data.account
        BY <2>1, LoginAccountRewrites
      <3>2. /\ players[p].state = "account_login" /\ players[p].state_data.step = "password"
        BY <2>1 DEF LoginAccount, AtStep, TurnIn
      <3>3. players[p].state_data # NULL /\ players[p].state_data.account # NULL
        BY <1>2, <3>2 DEF ContextMatches
      <3> QED BY <1>2, <3>1, <3>3 DEF HeldBy
    <2>2. CASE MenuCreate(i, p) \/ \E n \in Names, a \in Actors : Play(i, p, n, a)
      <3>1. Rewrites(p) /\ players'[p].account = players[p].account
        BY <2>2, MenuCreateRewrites, PlayRewrites
      <3>2. players[p].account # NULL
        BY <1>2, <2>2 DEF MenuCreate, Play, TurnIn, ContextMatches
      <3> QED BY <1>2, <3>1, <3>2 DEF HeldBy
    <2> QED BY <2>1, <2>2
  <1>4. InHand(players'[p].account)
    BY <1>3 DEF InHand
  <1>5. NoNewAccount
    BY <1>1, <1>2, <1>3, <1>4, RewritesNoNew
  <1> QED BY <1>1, <1>5, FilesAlone, NamesStay

\* One command of a player in the game.
LEMMA PlayTurnNames ==
    ASSUME CoreInv, NamesInv, NEW i \in Slots, NEW p \in Players, PlayTurn(i, p)
    PROVE  NamesInv'
  <1>1. TurnIn(i, p, "playing") /\ Turn(i, p)
    BY DEF PlayTurn, TurnIn
  <1>2. /\ players[p] # NULL /\ players[p].account # NULL
        /\ UNCHANGED account_files /\ UNCHANGED character_files
    BY <1>1, TurnFacts DEF TurnIn, ContextMatches, PlayTurn, Abort, diskVars
  <1>3. CASE Leaves(i, p)
    <2>1. Rewrites(p) /\ players'[p].account = players[p].account
      BY <1>1, <1>3, LeavesRewrites
    <2>2. InHand(players'[p].account)
      BY <1>2, <2>1 DEF InHand, HeldBy
    <2>3. NoNewAccount
      BY <1>2, <2>1, <2>2, RewritesNoNew
    <2> QED BY <1>2, <2>3, FilesAlone, NamesStay
  <1>4. CASE UNCHANGED players
    BY <1>2, <1>4, AccountsAlone, FilesAlone, NamesStay
  <1> QED
    BY <1>3, <1>4 DEF PlayTurn, Idles, Looks, Walks, Abort, playerVars

-----------------------------------------------------------------------------
(* Steps that write files.                                                  *)

\* The files a saved account leaves: as they were, but for the account.
LEMMA SavedInFile ==
    ASSUME CoreInv, NEW saved \in Account, account_files' = AccountSaved(saved),
           NEW acct \in Account, InFile(acct)'
    PROVE  InFile(acct) \/ acct = saved
  BY DEF InFile, AccountSaved, CoreInv, TypeOK, DiskTypeOK

\* A new account has no characters.
LEMMA CreateAccountNames ==
    ASSUME CoreInv, NamesInv, NEW i \in Slots, NEW p \in Players, CreateAccount(i, p)
    PROVE  NamesInv'
  <1> DEFINE new == account_new(players[p].state_data.username)
  <1>1. /\ Rewrites(p) /\ players'[p].account = new
        /\ account_files' = AccountSaved(new) /\ UNCHANGED character_files /\ Turn(i, p)
    BY CreateAccountRewrites DEF CreateAccount, Confirmed, AtStep, TurnIn
  <1>2. new \in Account /\ new.characters = {}
    BY CreateAccountRewrites DEF account_new, Account
  <1>3. players[p] # NULL
    BY <1>1, TurnFacts
  <1> HIDE DEF new
  <1>4. \A acct \in Account : InHand(acct)' => InHand(acct) \/ acct = new
    BY <1>1, <1>2, <1>3, RewritesHand, SavedInFile, SessionsAssumption
  <1>5. FilesKept
    BY <1>1, FilesAlone
  <1>6. CharactersFiled'
    BY <1>1, <1>2, <1>4 DEF NamesInv, CharactersFiled
  <1>7. LowerCase => CharactersApart'
    BY <1>2, <1>4 DEF NamesInv, CharactersApart
  <1> QED BY <1>5, <1>6, <1>7 DEF NamesInv, FilesKept, LowerCase

\* The file of a new character is there and has a lower case name.
LEMMA CharacterSavedFiles ==
    ASSUME CoreInv, NamesInv, NEW n \in Names, NEW file \in Locations \cup {TornFile},
           character_files' = [character_files EXCEPT ![Lower[n]] = file]
    PROVE  FilesKept /\ character_files'[Lower[n]] # NoFile
  <1>1. file # NoFile /\ Lower[n] \in Names /\ Lower[Lower[n]] = Lower[n]
    BY AccountsAssumption
  <1> QED BY <1>1 DEF FilesKept, FilesLowered, NamesInv, CoreInv, TypeOK, DiskTypeOK

\* A new character is nobody's: had an account listed it, its file would be there.
LEMMA CreateCharacterNames ==
    ASSUME CoreInv, NamesInv, NEW i \in Slots, NEW p \in Players, NEW n \in Names,
           CreateCharacter(i, p, n)
    PROVE  NamesInv'
  <1> DEFINE old == players[p].account
             new == account_add_character(players[p].account, n)
  <1>1. TurnIn(i, p, "character_creation") /\ Turn(i, p)
    BY DEF CreateCharacter, NameAccepted, TurnIn
  <1>2. players[p] # NULL /\ old # NULL
    BY <1>1, TurnFacts DEF TurnIn, ContextMatches
  <1>3. /\ Rewrites(p) /\ players'[p].account = new
        /\ old \in Account /\ new \in Account /\ new.username = old.username
    BY <1>2, CreateCharacterRewrites
  <1>4. /\ account_files' = AccountSaved(new)
        /\ character_files' = [character_files EXCEPT ![Lower[n]] = StartLocation]
        /\ ~character_file_exists(n)
    BY <1>2 DEF CreateCharacter, CharacterSaved, NameAccepted, NameTaken
  <1>5. new.characters = { Lower[m] : m \in old.characters \cup {n} }
    BY <1>3 DEF account_add_character, Account
  <1>6. InHand(old)
    BY <1>2 DEF InHand, HeldBy
  <1> HIDE DEF old, new
  <1>7. \A acct \in Account : InHand(acct)' => InHand(acct) \/ acct = new
    BY <1>2, <1>3, <1>4, RewritesHand, SavedInFile, SessionsAssumption
  <1>8. FilesKept /\ character_files'[Lower[n]] # NoFile
    BY <1>4, AccountsAssumption, CharacterSavedFiles
  <1>9. CharactersFiled'
    <2> SUFFICES ASSUME NEW acct \in Account, InHand(acct)', NEW m \in acct.characters
                 PROVE  character_files'[m] # NoFile
      BY DEF CharactersFiled
    <2>1. CASE InHand(acct)
      <3>1. m \in Names /\ character_files[m] # NoFile
        BY <2>1 DEF NamesInv, CharactersFiled, Account
      <3> QED BY <1>8, <3>1 DEF FilesKept
    <2>2. CASE acct = new
      <3>1. PICK k \in old.characters \cup {n} : m = Lower[k]
        BY <1>5, <2>2
      <3>2. CASE k \in old.characters
        <4>1. k \in Names /\ character_files[k] # NoFile
          BY <1>3, <1>6, <3>2 DEF NamesInv, CharactersFiled, Account
        <4>2. Lower[k] = k
          BY <4>1 DEF NamesInv, FilesLowered
        <4> QED BY <1>8, <3>1, <4>1, <4>2 DEF FilesKept
      <3> QED BY <1>8, <3>1, <3>2
    <2> QED BY <1>7, <2>1, <2>2
  <1>10. ASSUME LowerCase
         PROVE  CharactersApart'
    <2>1. new.characters = old.characters \cup {n}
      <3>1. old.characters \cup {n} \subseteq Names
        BY <1>3 DEF Account
      <3> QED BY <1>5, <1>10, <3>1 DEF LowerCase
    <2>2. character_files[n] = NoFile
      BY <1>4, <1>10 DEF character_file_exists, LowerCase
    <2>3. ASSUME NEW b \in Account, InHand(b), b.username # new.username
          PROVE  b.characters \cap new.characters = {}
      <3>1. n \notin b.characters
        BY <2>2, <2>3 DEF NamesInv, CharactersFiled
      <3>2. b.characters \cap old.characters = {}
        BY <1>3, <1>6, <1>10, <2>3 DEF NamesInv, CharactersApart
      <3> QED BY <2>1, <3>1, <3>2
    <2> SUFFICES ASSUME NEW a \in Account, NEW b \in Account, InHand(a)', InHand(b)',
                        a.username # b.username
                 PROVE  a.characters \cap b.characters = {}
      BY DEF CharactersApart
    <2>4. CASE InHand(a) /\ InHand(b)
      BY <1>10, <2>4 DEF NamesInv, CharactersApart
    <2>5. CASE a = new /\ InHand(b)
      BY <2>3, <2>5
    <2>6. CASE b = new /\ InHand(a)
      BY <2>3, <2>6
    <2> QED BY <1>7, <2>4, <2>5, <2>6
  <1> QED BY <1>8, <1>9, <1>10 DEF NamesInv, FilesKept, LowerCase

\* A process that starts again has the accounts of its files.
LEMMA CrashNames ==
    ASSUME CoreInv, NamesInv, Crash
    PROVE  NamesInv'
  <1>1. /\ players' = [p \in Players |-> NULL]
        /\ \A u \in Usernames : account_files'[u] \in {account_files[u], TornFile}
    BY DEF Crash, Restart, CrashInCreateAccount, CrashInCreateCharacter, Reboot, diskVars,
           CoreInv, TypeOK, DiskTypeOK
  <1>2. NoNewAccount
    BY <1>1, AccountsAssumption DEF NoNewAccount, InHand, InFile, HeldBy
  <1>3. FilesKept
    <2>1. CASE UNCHANGED character_files
      BY <2>1, FilesAlone
    <2>2. ASSUME NEW n \in Names,
                 character_files' = [character_files EXCEPT ![Lower[n]] = TornFile]
                   \/ character_files' = CharacterSaved(n)
          PROVE  FilesKept
      BY <2>2, AccountsAssumption, CharacterSavedFiles DEF CharacterSaved
    <2> QED BY <2>1, <2>2
      DEF Crash, Restart, CrashInCreateAccount, CrashInCreateCharacter, diskVars
  <1> QED BY <1>2, <1>3, NamesStay

-----------------------------------------------------------------------------
(* Steps that bring players and take them away.                             *)

\* A player that comes has no account, and one that goes leaves none.
LEMMA PlayersComeAndGo ==
    ASSUME CoreInv, NamesInv, NEW i \in Slots,
           \/ \E p \in Players : \/ Accept(i, p) \/ MenuQuit(i, p) \/ KillConn(i, p)
                                 \/ \E e \in Players : ResumeSession(i, p, e)
           \/ GcFrees(i)
    PROVE  NamesInv'
  <1>1. UNCHANGED account_files /\ UNCHANGED character_files
    BY DEF Accept, MenuQuit, KillConn, ResumeSession, GcFrees, diskVars
  <1>2. ASSUME NEW q \in Players, players'[q] # NULL
        PROVE  \/ players'[q].account = NULL /\ players'[q].state_data = NULL
               \/ /\ players[q] # NULL
                  /\ players'[q].account = players[q].account
                  /\ players'[q].state_data = players[q].state_data
    <2>1. ASSUME NEW p \in Players, Accept(i, p)
          PROVE  \/ players'[q] = players[q]
                 \/ players'[q].account = NULL /\ players'[q].state_data = NULL
      BY <2>1 DEF Accept, NewPlayer, CoreInv, TypeOK
    <2>2. ASSUME NEW p \in Players, MenuQuit(i, p) \/ KillConn(i, p)
          PROVE  players'[q] = players[q]
      BY <1>2, <2>2 DEF MenuQuit, KillConn, CoreInv, TypeOK
    <2>3. ASSUME NEW p \in Players, NEW e \in Players, ResumeSession(i, p, e)
          PROVE  /\ players[q] # NULL
                 /\ players'[q].account = players[q].account
                 /\ players'[q].state_data = players[q].state_data
      <3>1. /\ players[e] \in Player /\ players[e] # NULL /\ e # p /\ players'[p] = NULL
            /\ \A x \in Players : x # p /\ x # e => players'[x] = players[x]
        BY <2>3, ResumeFacts
      <3>2. players'[e] = [players[e] EXCEPT !.conn = i, !.state = "account_menu"]
        BY <2>3, <3>1 DEF ResumeSession, PlayersResumed, CoreInv, TypeOK
      <3>3. /\ players'[e].account = players[e].account
            /\ players'[e].state_data = players[e].state_data
        BY <3>1, <3>2 DEF Player
      <3> QED BY <1>2, <3>1, <3>3
    <2>4. CASE GcFrees(i)
      <3>1. CASE q = conns[i].player
        <4>1. q # NULL /\ players[q] # NULL
          BY <2>4, <3>1, WorldAssumption DEF GcFrees, Linked
        <4>2. players[q] \in Player
          BY <4>1 DEF CoreInv, TypeOK
        <4>3. players'[q] = [players[q] EXCEPT !.conn = NULL]
          BY <2>4, <3>1, <4>1 DEF GcFrees, PlayersUnlinked, CoreInv, TypeOK
        <4> QED BY <4>1, <4>2, <4>3 DEF Player
      <3>2. CASE q # conns[i].player
        <4>1. players'[q] = players[q]
          BY <2>4, <3>2 DEF GcFrees, PlayersUnlinked, CoreInv, TypeOK
        <4> QED BY <1>2, <4>1
      <3> QED BY <3>1, <3>2
    <2> QED BY <1>2, <2>1, <2>2, <2>3, <2>4
  <1>3. NoNewAccount
    <2> SUFFICES ASSUME NEW acct \in Account, InHand(acct)'
                 PROVE  InHand(acct)
      BY DEF NoNewAccount
    <2>1. acct # NULL
      BY SessionsAssumption
    <2>2. ASSUME NEW q \in Players, HeldBy(q, acct)'
          PROVE  HeldBy(q, acct)
      BY <1>2, <2>1, <2>2 DEF HeldBy
    <2> QED BY <1>1, <2>2 DEF InHand, InFile
  <1> QED BY <1>1, <1>3, FilesAlone, NamesStay

\* The processes that only read sockets or write to them.
LEMMA NetworkNames ==
    ASSUME NamesInv, NEW i \in Slots, NetworkStep(i)
    PROVE  NamesInv'
  <1>1. UNCHANGED <<players, account_files>> /\ UNCHANGED character_files
    BY DEF NetworkStep, SkipSlot, EndListen, Read, ReadNoLine, ReadLine, ReadEnd, FlushSlot,
           Flush, FlushFails, FlushKills, GcKeeps, GcDangling, NoLine, DispatchDangling,
           playerVars, diskVars
  <1> QED BY <1>1, AccountsAlone, FilesAlone, NamesStay

-----------------------------------------------------------------------------
(* The theorems.                                                            *)

LEMMA HandleNames ==
    ASSUME CoreInv, NamesInv, NEW i \in Slots, NEW p \in Players, Handle(i, p)
    PROVE  NamesInv'
  BY IdleNames, DialogueNames, MenuNames, PlayTurnNames, CreateAccountNames,
     CreateCharacterNames, PlayersComeAndGo DEF Handle

LEMMA NextNames ==
    ASSUME CoreInv, NamesInv, [Next]_vars
    PROVE  NamesInv'
  <1>1. CASE Listen
    BY <1>1, NetworkNames, PlayersComeAndGo, SessionsAssumption DEF Listen, Slots, NetworkStep
  <1>2. CASE \E i \in Slots : SkipSlot(i) \/ Read(i) \/ FlushSlot(i) \/ GcSlot(i)
    BY <1>2, NetworkNames, PlayersComeAndGo DEF GcSlot, NetworkStep
  <1>3. CASE \E i \in Slots : ProcessInput(i)
    BY <1>3, NetworkNames, HandleNames DEF ProcessInput, NetworkStep
  <1>4. CASE Crash
    BY <1>4, CrashNames
  <1>5. CASE UNCHANGED vars
    <2>1. UNCHANGED <<players, account_files>> /\ UNCHANGED character_files
      BY <1>5 DEF vars, diskVars
    <2> QED BY <2>1, AccountsAlone, FilesAlone, NamesStay
  <1> QED BY <1>1, <1>2, <1>3, <1>4, <1>5 DEF Next, Tick

\* A server that was just installed has no accounts and no characters.
LEMMA InitNames == Init => NamesInv
  <1> SUFFICES ASSUME Init PROVE NamesInv
    OBVIOUS
  <1>1. \A acct \in Account : ~InHand(acct)
    BY AccountsAssumption DEF Init, DiskInit, InHand, InFile, HeldBy
  <1>2. FilesLowered
    BY DEF Init, DiskInit, FilesLowered
  <1> QED BY <1>1, <1>2 DEF NamesInv, CharactersFiled, CharactersApart

THEOREM NamesInvariant == Spec => []NamesInv
  <1>1. CoreInv /\ NamesInv /\ [Next]_vars => NamesInv'
    BY NextNames
  <1> QED BY <1>1, InitNames, CoreInvariant, PTL DEF Spec

\* Every character an account lists, on disk or in memory, has a character file,
\* whenever the server was killed.
THEOREM OwnedCharactersHaveFiles == Spec => []OwnedCharacterHasFile
  <1>1. CoreInv /\ NamesInv => OwnedCharacterHasFile
    <2> SUFFICES ASSUME CoreInv, NamesInv PROVE OwnedCharacterHasFile
      OBVIOUS
    <2>1. ASSUME NEW u \in Usernames, NEW n \in Listed(u)
          PROVE  character_files[n] # NoFile
      <3>1. account_files[u] \in Account /\ n \in account_files[u].characters
        BY <2>1 DEF Listed, CoreInv, TypeOK, DiskTypeOK
      <3> QED BY <3>1 DEF NamesInv, CharactersFiled, InHand, InFile
    <2>2. ASSUME NEW p \in Players, LoggedIn(p), NEW n \in players[p].account.characters
          PROVE  character_files[n] # NoFile
      <3>1. players[p] # NULL /\ players[p].account \in Account
        BY <2>2 DEF LoggedIn, Allocated, CoreInv, TypeOK, Player
      <3> QED BY <2>2, <3>1 DEF NamesInv, CharactersFiled, InHand, HeldBy
    <2> QED BY <2>1, <2>2 DEF OwnedCharacterHasFile
  <1> QED BY <1>1, CoreInvariant, NamesInvariant, PTL

\* Where all names are typed in lower case, no character belongs to two accounts.
\* (With a capital they may: handle_character_creation_input.)
THEOREM NamesOwnedOnce ==
    ASSUME LowerCase
    PROVE  Spec => []NameOwnedOnce
  <1>1. CoreInv /\ NamesInv => NameOwnedOnce
    <2> SUFFICES ASSUME CoreInv, NamesInv PROVE NameOwnedOnce
      OBVIOUS
    <2>1. ASSUME NEW u \in Usernames, NEW n \in Owned(u)
          PROVE  \E acct \in Account :
                    InHand(acct) /\ acct.username = u /\ n \in acct.characters
      <3>1. CASE n \in Listed(u)
        <4>1. account_files[u] \in Account /\ n \in account_files[u].characters
          BY <3>1 DEF Listed, CoreInv, TypeOK, DiskTypeOK
        <4>2. account_files[u].username = u
          BY <4>1 DEF CoreInv, FilesNamed
        <4> QED BY <4>1, <4>2 DEF InHand, InFile
      <3>2. CASE n \notin Listed(u)
        <4>1. PICK p \in Players : /\ LoggedIn(p) /\ players[p].account.username = u
                                   /\ n \in players[p].account.characters
          BY <2>1, <3>2 DEF Owned
        <4>2. players[p] # NULL /\ players[p].account \in Account
          BY <4>1 DEF LoggedIn, Allocated, CoreInv, TypeOK, Player
        <4> QED BY <4>1, <4>2 DEF InHand, HeldBy
      <3> QED BY <3>1, <3>2
    <2> SUFFICES ASSUME NEW u \in Usernames, NEW v \in Usernames, u # v,
                        NEW n \in Owned(u), n \in Owned(v)
                 PROVE  FALSE
      BY DEF NameOwnedOnce
    <2>2. PICK a \in Account : InHand(a) /\ a.username = u /\ n \in a.characters
      BY <2>1
    <2>3. PICK b \in Account : InHand(b) /\ b.username = v /\ n \in b.characters
      BY <2>1
    <2> QED BY <2>2, <2>3 DEF NamesInv, CharactersApart
  <1> QED BY <1>1, CoreInvariant, NamesInvariant, PTL
=============================================================================
