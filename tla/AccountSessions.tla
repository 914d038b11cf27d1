-------------------------- MODULE AccountSessions ---------------------------
(***************************************************************************)
(* What the server promises about the sessions of its accounts, without     *)
(* players, connections or ticks.                                           *)
(*                                                                          *)
(* An account is free, held by the client of one slot, or detached: its     *)
(* session goes on after the connection was lost.  Logging in to an account *)
(* that is held moves it to the new slot; a detached one waits until it is  *)
(* resumed; only a client that holds an account can end its session.        *)
(***************************************************************************)
EXTENDS Naturals

CONSTANTS
    Usernames, MAX_CONNECTIONS,
    Free, Detached   \* different, and no slots

Slots == 1 .. MAX_CONNECTIONS

VARIABLE holder   \* [Usernames -> {Free, Detached} \cup Slots]

Init == holder = [u \in Usernames |-> Free]

\* A login, to an account that is free, detached or held elsewhere.
LogIn(u, i) ==
    /\ \A v \in Usernames : holder[v] # i
    /\ holder' = [holder EXCEPT ![u] = i]

LoseConnection(u) ==
    /\ holder[u] \in Slots
    /\ holder' = [holder EXCEPT ![u] = Detached]

Quit(u) ==
    /\ holder[u] \in Slots
    /\ holder' = [holder EXCEPT ![u] = Free]

\* The server starts again.
Restart == holder' = [u \in Usernames |-> Free]

Next ==
    \/ \E u \in Usernames :
         (\E i \in Slots : LogIn(u, i)) \/ LoseConnection(u) \/ Quit(u)
    \/ Restart

Spec == Init /\ [][Next]_holder

-----------------------------------------------------------------------------

TypeOK == holder \in [Usernames -> {Free, Detached} \cup Slots]

\* A session whose connection was lost stays until it is resumed, or the server
\* starts again and forgets every session.
DetachedWaits ==
    [][\A u \in Usernames :
         holder[u] = Detached =>
            \/ holder'[u] \in {Detached} \cup Slots
            \/ \A v \in Usernames : holder'[v] = Free]_holder
=============================================================================
