------------------------------ MODULE Accounts ------------------------------
(***************************************************************************)
(* What the server keeps on disk, and the functions over it.                *)
(*                                                                          *)
(*   data/accounts/<username>.acct   account_files                          *)
(*   data/pcs/<name>.pchar           character_files                        *)
(*                                                                          *)
(* An account file is abstracted to its username and the set of character   *)
(* names it lists, a character file to the location it records.  Both are   *)
(* written by fopen(path, "w"), writes that fit in the stdio buffer and     *)
(* fclose: a process killed in between leaves an empty file, TornFile.      *)
(* Passwords are not modelled: a check of one may succeed or fail.          *)
(***************************************************************************)
EXTENDS ServerStatus

CONSTANTS
    Usernames, UsernameLength,  \* what a client may type as username; strlen
    Lower,                      \* [Names -> Names]: str_to_lower
    Locations, StartLocation,   \* room ids a character file may record
    ACCOUNT_USERNAME_SIZE,
    NoFile, TornFile

\* The Account struct in memory, and what its file says.
Account == [username: Usernames, characters: SUBSET Names]

ASSUME AccountsAssumption ==
    /\ UsernameLength \in [Usernames -> Nat]
    /\ ACCOUNT_USERNAME_SIZE \in Nat
    /\ Lower \in [Names -> Names]
    /\ \A n \in Names : Lower[Lower[n]] = Lower[n]
    /\ StartLocation \in Locations
    /\ NoFile # TornFile
    /\ {NoFile, TornFile} \cap (Account \cup Locations) = {}

VARIABLES
    account_files,    \* [Usernames -> NoFile, TornFile or an account]
    character_files   \* [Names -> NoFile, TornFile or a location]

diskVars == <<account_files, character_files>>

DiskTypeOK ==
    /\ account_files \in [Usernames -> Account \cup {NoFile, TornFile}]
    /\ character_files \in [Names -> Locations \cup {NoFile, TornFile}]

DiskInit ==
    /\ account_files = [u \in Usernames |-> NoFile]
    /\ character_files = [n \in Names |-> NoFile]

\* The characters a username owns according to its file.
Listed(u) ==
    IF account_files[u] \in {NoFile, TornFile} THEN {} ELSE account_files[u].characters

-----------------------------------------------------------------------------
(* account.c *)

account_validate_username(u) == UsernameLength[u] \in 1 .. ACCOUNT_USERNAME_SIZE - 1

\* The CHECK at the head of account_new.
account_new_accepts(u) == UsernameLength[u] \in 1 .. ACCOUNT_USERNAME_SIZE - 2

account_new(u) == [username |-> u, characters |-> {}]

\* account_load returns NULL for no file and aborts on a torn one.
account_username_exists(u) == account_files[u] # NoFile
account_loadable(u) == account_files[u] \notin {NoFile, TornFile}
account_load(u) == account_files[u]

account_has_character(acct, n) == n \in acct.characters

\* The whole list is lowered after the name is appended.
account_add_character(acct, n) ==
    [acct EXCEPT !.characters = { Lower[m] : m \in @ \cup {n} }]

\* The files after account_save.
AccountSaved(acct) == [account_files EXCEPT ![acct.username] = acct]

-----------------------------------------------------------------------------
(* player.c: the path of a character file is lowered. *)

\* The files after player_save_character of a new character.
CharacterSaved(n) == [character_files EXCEPT ![Lower[n]] = StartLocation]

\* player_name_exists compares the name as typed with the file names; a file
\* name is always lowered.
character_file_exists(n) == Lower[n] = n /\ character_files[n] # NoFile

\* player_load_character succeeds; the location it yields.
character_loadable(n) == character_files[Lower[n]] \notin {NoFile, TornFile}
character_location(n) == character_files[Lower[n]]
=============================================================================
