---- MODULE ServerStatus ----
(***************************************************************************)
(* What every part of the server shares: the process itself, which runs     *)
(* until something ends it, and the character names players type.           *)
(***************************************************************************)
EXTENDS Naturals, FiniteSets

CONSTANTS
    Names,   \* character names, as typed
    NULL

VARIABLE server   \* "running", or what stopped the process

\* CHECK (macros.h) aborts the process when its condition is false.  The ones
\* the model evaluates, each named for what it checks:
CheckFailures ==
    { "conn_link",          \* conn->player->conn == conn
      "actor_link",         \* actor->player->actor == actor
      "no_actor",           \* player->actor != NULL, while playing
      "no_account",         \* player->account != NULL, creating a character
      "username_length",    \* the bounds of account_new
      "malformed_account",  \* the fields account_load must have found
      "contents_located" }  \* contents->location_id == INVALID_ACTOR_ID

\* Besides: an endless loop, the use of memory that was freed, SIGPIPE.
Statuses == {"running", "hung", "undefined", "killed"} \cup CheckFailures
====
