---------------------------- MODULE TypedLines -----------------------------
(***************************************************************************)
(* What a client may expect of its connection: the lines it types reach the *)
(* game one by one, in order, without the spaces around them.  A line that  *)
(* is too long is not delivered.  When the connection ends, what is not     *)
(* handled is lost with it.                                                 *)
(***************************************************************************)
EXTENDS Naturals, Sequences

CONSTANTS Chars, Spaces, MaxLine

VARIABLES
    typed,      \* the characters of the line being typed
    waiting,    \* the lines typed, and not yet handled
    line        \* the line the game handled last

vars == <<typed, waiting, line>>

\* t is s without the spaces around it.
IsBare(t, s) ==
    /\ \E i \in 1 .. Len(s) + 1, j \in 0 .. Len(s) :
         /\ t = SubSeq(s, i, j)
         /\ \A k \in (1 .. i-1) \cup (j+1 .. Len(s)) : s[k] \in Spaces
    /\ t # <<>> => t[1] \notin Spaces /\ t[Len(t)] \notin Spaces

Init == typed = <<>> /\ waiting = <<>> /\ line = <<>>

Type(c) == typed' = Append(typed, c) /\ UNCHANGED <<waiting, line>>

Enter ==
    /\ typed' = <<>>
    /\ IF Len(typed) > MaxLine THEN UNCHANGED waiting
       ELSE waiting' = Append(waiting, typed)
    /\ UNCHANGED line

Handle ==
    /\ waiting # <<>>
    /\ IsBare(line', Head(waiting))
    /\ waiting' = Tail(waiting)
    /\ UNCHANGED typed

\* The connection ends, and another one takes its place.
Reconnect == typed' = <<>> /\ waiting' = <<>> /\ line' = <<>>

Next == (\E c \in Chars : Type(c)) \/ Enter \/ Handle \/ Reconnect

Spec == Init /\ [][Next]_vars
=============================================================================
