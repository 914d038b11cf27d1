--------------------------- MODULE MCTelnetStream ---------------------------
(***************************************************************************)
(* Small instances of a connection.                                         *)
(***************************************************************************)
EXTENDS TelnetStream

\* A newline that is bare, and, when the text is written twice, one behind a CR.
MCReplies == {<<"\n", "a", "\r">>}

\* An option whose number is that of a newline.
MCOptions == {LF}
=============================================================================
