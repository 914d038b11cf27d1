---------------------------- MODULE TelnetStream ----------------------------
(***************************************************************************)
(* The bytes of one connection, in and out (telnet_conn.c).                 *)
(*                                                                          *)
(* The client types characters, ends lines, and mixes telnet commands in;   *)
(* TCP hands the bytes to telnet_conn_read in pieces of any size.  A tick   *)
(* reads at most one piece, gives at most one line to the game and sends    *)
(* what was written to the client.  Sessions has the slots and the game;    *)
(* here the game is what it answers.                                        *)
(*                                                                          *)
(* The loop of telnet_conn_read takes one step per byte, that of            *)
(* telnet_conn_flush one per byte it looks at.  Bytes are strings: "IAC" is *)
(* the byte 255, and a command's name the byte that stands for it.          *)
(***************************************************************************)
EXTENDS Buffers

CONSTANTS
    PLAYER_INPUT_SIZE,
    Chars,              \* the bytes a client may type
    Spaces,             \* those for which isspace holds
    Options,            \* the bytes that may follow a telnet command
    Replies,            \* the texts the game may write to the client
    TELNET_CONN_INITIAL_OUTPUT_CAPACITY,
    Pipelined,          \* whether a client starts a line before the last was handled
    Offers,             \* the negotiations a client may start
    MaxKeys,            \* bound: what a client types on one connection
    MaxUnread,          \* bound: the bytes under way when it types more
    MaxOutput           \* bound: the text that waits to be sent

VARIABLES
    typed, waiting, line,  \* of TypedLines: what the client typed and the game got
    begun,                 \* the client has sent a part of its current line
    keys,                  \* how much the client has typed
    socket,                \* bytes sent, and not yet read
    phase,                 \* the part of the tick
    temp,                  \* the bytes of this read the loop has yet to look at
    input_buffer, input_line_ready, input_discarding, telnet_state,
    output,                \* conn->output
    seg_start, p,          \* the loop of telnet_conn_flush
    shown                  \* what this flush has sent

clientVars == <<typed, waiting, begun, keys, socket>>
inputVars  == <<temp, input_buffer, input_line_ready, input_discarding, telnet_state>>
flushVars  == <<seg_start, p, shown>>
vars == <<clientVars, line, phase, inputVars, output, flushVars>>

LF == "\n"
CR == "\r"
IAC == "IAC"
SB == "SB"
SE == "SE"
Negotiations == {"DO", "DONT", "WILL", "WONT"}

Bytes == Chars \cup Options \cup {LF, CR, IAC, SB, SE, "NOP"} \cup Negotiations

ASSUME StreamAssumption ==
    /\ PLAYER_INPUT_SIZE \in Nat \ {0, 1}
    /\ TELNET_CONN_INITIAL_OUTPUT_CAPACITY \in Nat \ {0}
    /\ Spaces \subseteq Chars /\ {LF, CR} \cap Chars = {}
    /\ Pipelined \in BOOLEAN
    /\ Offers \subseteq Negotiations /\ Replies \subseteq Seq(Bytes)
    /\ MaxKeys \in Nat /\ MaxUnread \in Nat /\ MaxOutput \in Nat

TELNET_CONN_INPUT_BUFFER_SIZE == 2 * PLAYER_INPUT_SIZE + 1

TelnetStates == {"DATA", "IAC", "COMMAND", "SB", "SB_DATA", "SB_IAC"}

\* In "closed", `connected` is false: no process but gc visits the connection.
Phases == {"read", "bytes", "process_input", "flush", "closed"}

-----------------------------------------------------------------------------
(* telnet_conn_new.  The greeting that follows is a text like any other. *)

Init ==
    /\ typed = <<>> /\ waiting = <<>> /\ line = <<>>
    /\ begun = FALSE /\ keys = 0 /\ socket = <<>>
    /\ phase = "read" /\ temp = <<>>
    /\ input_buffer = <<>> /\ input_line_ready = FALSE /\ input_discarding = FALSE
    /\ telnet_state = "DATA"
    /\ output = dbuffer_new(TELNET_CONN_INITIAL_OUTPUT_CAPACITY)
    /\ seg_start = 1 /\ p = 1 /\ shown = <<>>

\* The state of the next connection of the slot.
Reconnected ==
    /\ typed' = <<>> /\ waiting' = <<>> /\ line' = <<>>
    /\ begun' = FALSE /\ keys' = 0 /\ socket' = <<>>
    /\ phase' = "read" /\ temp' = <<>>
    /\ input_buffer' = <<>> /\ input_line_ready' = FALSE /\ input_discarding' = FALSE
    /\ telnet_state' = "DATA"
    /\ output' = dbuffer_new(TELNET_CONN_INITIAL_OUTPUT_CAPACITY)
    /\ seg_start' = 1 /\ p' = 1 /\ shown' = <<>>

-----------------------------------------------------------------------------
(* The client. *)

\* Everything it sent has been read, and no line waits.
Quiet == socket = <<>> /\ temp = <<>> /\ ~input_line_ready

\* Bytes that arrive in another part of the tick are there at the next read.
Sends(bytes) ==
    /\ phase = "read"
    /\ keys < MaxKeys /\ keys' = keys + 1
    /\ Len(socket) <= MaxUnread
    /\ Pipelined \/ begun \/ Quiet
    /\ socket' = socket \o bytes
    /\ UNCHANGED <<line, phase, inputVars, output, flushVars>>

\* A typed 255 is sent twice.
Type(c) ==
    /\ Sends(IF c = IAC THEN <<IAC, IAC>> ELSE <<c>>)
    /\ typed' = Append(typed, c)
    /\ begun' = TRUE
    /\ UNCHANGED waiting

Enter ==
    /\ Sends(<<CR, LF>>)
    /\ typed' = <<>>
    /\ waiting' = IF Len(typed) < PLAYER_INPUT_SIZE THEN Append(waiting, typed) ELSE waiting
    /\ begun' = FALSE

Command(bytes) ==
    /\ Sends(bytes)
    /\ begun' = TRUE
    /\ UNCHANGED <<typed, waiting>>

\* Of the data of an option, too, a 255 is sent twice.
Negotiate    == \E cmd \in Offers, opt \in Options : Command(<<IAC, cmd, opt>>)
Subnegotiate == \E opt \in Options, x \in Options \ {IAC} : Command(<<IAC, SB, opt, IAC, IAC, x, IAC, SE>>)
Nop          == Command(<<IAC, "NOP">>)

-----------------------------------------------------------------------------
(* telnet_read_tick: telnet_conn_read. *)

Space == TELNET_CONN_INPUT_BUFFER_SIZE - Len(input_buffer)
Full  == ~input_discarding /\ Space = 0
ReadLimit ==
    IF input_discarding \/ Full \/ Space > PLAYER_INPUT_SIZE THEN PLAYER_INPUT_SIZE ELSE Space

NothingToRead ==
    /\ phase = "read"
    /\ phase' = "process_input"
    /\ UNCHANGED <<clientVars, line, inputVars, output, flushVars>>

\* A full buffer is given up, and the line with it.
Read ==
    /\ phase = "read" /\ ~input_line_ready
    /\ \E n \in 1 .. ReadLimit :
         /\ n <= Len(socket)
         /\ temp' = SubSeq(socket, 1, n)
         /\ socket' = SubSeq(socket, n + 1, Len(socket))
    /\ input_buffer' = IF Full THEN <<>> ELSE input_buffer
    /\ input_discarding' = (input_discarding \/ Full)
    /\ phase' = "bytes"
    /\ UNCHANGED <<typed, waiting, begun, keys, line, input_line_ready, telnet_state,
                   output, flushVars>>

\* read() returns 0 or an error.
ReadEnds ==
    /\ phase = "read" /\ ~input_line_ready
    /\ phase' = "closed"
    /\ UNCHANGED <<clientVars, line, inputVars, output, flushVars>>

\* process_input_byte: the byte is data.
IsData(state, b) == (state = "DATA" /\ b # IAC) \/ (state = "IAC" /\ b = IAC)

\* Enters a state the switch does not know.
NextState_unknown(state, b) ==
    IF state = "DATA" THEN IF b = IAC THEN "IAC" ELSE "DATA"
    ELSE IF state = "IAC" /\ b = SB THEN "SB_OPTION" ELSE "DATA"

\* process_input_byte: the telnet state after the byte.
NextState(state, b) ==
    CASE state = "DATA"    -> IF b = IAC THEN "IAC" ELSE "DATA"
      [] state = "IAC"     -> IF b \in Negotiations THEN "COMMAND"
                              ELSE IF b = SB THEN "SB" ELSE "DATA"
      [] state = "COMMAND" -> "DATA"
      [] state = "SB"      -> "SB_DATA"
      [] state = "SB_DATA" -> IF b = IAC THEN "SB_IAC" ELSE "SB_DATA"
      [] state = "SB_IAC"  -> IF b = SE THEN "DATA" ELSE "SB_DATA"

\* The loop looks at byte b and goes on.
TakeByte(b) ==
    /\ phase = "bytes" /\ temp # <<>> /\ b = Head(temp)
    /\ telnet_state' = NextState(telnet_state, b)
    /\ UNCHANGED <<clientVars, line, phase, output, flushVars>>

TextByte(b) == TakeByte(b) /\ IsData(telnet_state, b) /\ b \notin {LF, CR}

\* Telnet commands, CR, and what belongs to a line that is given up.
SkipByte(b) ==
    /\ TakeByte(b)
    /\ ~IsData(telnet_state, b) \/ b = CR \/ (input_discarding /\ b # LF)
    /\ temp' = Tail(temp)
    /\ UNCHANGED <<input_buffer, input_line_ready, input_discarding>>

AppendByte(b) ==
    /\ TextByte(b) /\ ~input_discarding
    /\ Len(input_buffer) < PLAYER_INPUT_SIZE - 1
    /\ input_buffer' = Append(input_buffer, b)
    /\ temp' = Tail(temp)
    /\ UNCHANGED <<input_line_ready, input_discarding>>

\* Keeps the beginning of the line.
LongLine_kept(b) ==
    /\ TextByte(b) /\ ~input_discarding
    /\ Len(input_buffer) >= PLAYER_INPUT_SIZE - 1
    /\ input_discarding' = TRUE
    /\ temp' = Tail(temp)
    /\ UNCHANGED <<input_buffer, input_line_ready>>

\* The line is too long.
LongLine(b) ==
    /\ TextByte(b) /\ ~input_discarding
    /\ Len(input_buffer) >= PLAYER_INPUT_SIZE - 1
    /\ input_buffer' = <<>>
    /\ input_discarding' = TRUE
    /\ temp' = Tail(temp)
    /\ UNCHANGED input_line_ready

\* Only what is behind the line is trimmed.
Trimmed_behind(s) ==
    LET solid == { i \in 1 .. Len(s) : s[i] \notin Spaces }
    IN  IF solid = {} THEN <<>>
        ELSE SubSeq(s, 1, CHOOSE j \in solid : \A i \in solid : i <= j)

\* The two loops over isspace, and the memmove.
Trimmed(s) ==
    LET solid == { i \in 1 .. Len(s) : s[i] \notin Spaces }
    IN  IF solid = {} THEN <<>>
        ELSE SubSeq(s, CHOOSE i \in solid : \A j \in solid : i <= j,
                       CHOOSE j \in solid : \A i \in solid : i <= j)

\* Does not say that a line is ready.
EndLine_unready(b) ==
    /\ TakeByte(b) /\ IsData(telnet_state, b) /\ b = LF
    /\ ~input_discarding
    /\ input_buffer' = Append(Trimmed(input_buffer), LF)
    /\ temp' = <<>>
    /\ UNCHANGED <<input_line_ready, input_discarding>>

\* The line is complete: the function returns, and what is left of temp is lost.
EndLine(b) ==
    /\ TakeByte(b) /\ IsData(telnet_state, b) /\ b = LF
    /\ ~input_discarding
    /\ input_buffer' = Append(Trimmed(input_buffer), LF)
    /\ input_line_ready' = TRUE
    /\ temp' = <<>>
    /\ UNCHANGED input_discarding

\* Goes on discarding.
EndLongLine_lost(b) ==
    /\ TakeByte(b) /\ IsData(telnet_state, b) /\ b = LF
    /\ input_discarding
    /\ temp' = Tail(temp)
    /\ UNCHANGED <<input_buffer, input_discarding, input_line_ready>>

EndLongLine(b) ==
    /\ TakeByte(b) /\ IsData(telnet_state, b) /\ b = LF
    /\ input_discarding
    /\ input_buffer' = <<>>
    /\ input_discarding' = FALSE
    /\ temp' = Tail(temp)
    /\ UNCHANGED input_line_ready

EndRead ==
    /\ phase = "bytes" /\ temp = <<>>
    /\ phase' = "process_input"
    /\ UNCHANGED <<clientVars, line, inputVars, output, flushVars>>

-----------------------------------------------------------------------------
(* telnet_process_input_tick: telnet_conn_next_line, and what is written to *)
(* the client before the flush.                                             *)

Newlines(s) == { i \in 1 .. Len(s) : s[i] = LF }

\* The text is in the output.
Written(text) ==
    \E new \in Grown(output, text) : Appends(output, text, new) /\ output' = new

\* The position of the first newline.
Newline_after(s) == (CHOOSE j \in Newlines(s) : \A k \in Newlines(s) : j <= k) + 1
Newline(s) == CHOOSE j \in Newlines(s) : \A k \in Newlines(s) : j <= k

LineFound == input_line_ready /\ Newlines(input_buffer) # {}

\* The line is copied without its newline and its handler answers; what is
\* behind it moves to the front, and decides whether a line is ready.
NextLine ==
    /\ phase = "process_input" /\ LineFound
    /\ LET i    == Newline(input_buffer)
           rest == SubSeq(input_buffer, i + 1, Len(input_buffer))
           text == IF i > 1 /\ input_buffer[i - 1] = CR THEN i - 2 ELSE i - 1
           copy == IF text > PLAYER_INPUT_SIZE - 1 THEN PLAYER_INPUT_SIZE - 1 ELSE text
       IN  /\ line' = SubSeq(input_buffer, 1, copy)
           /\ input_buffer' = rest
           /\ input_line_ready' = (Newlines(rest) # {})
    /\ waiting' = IF waiting = <<>> THEN <<>> ELSE Tail(waiting)
    /\ \E text \in Replies : Written(text)
    /\ phase' = "flush"
    /\ UNCHANGED <<typed, begun, keys, socket, temp, input_discarding, telnet_state, flushVars>>

NoLine ==
    /\ phase = "process_input" /\ ~LineFound
    /\ input_line_ready' = FALSE
    /\ phase' = "flush"
    /\ UNCHANGED <<clientVars, line, temp, input_buffer, input_discarding, telnet_state,
                   output, flushVars>>

\* The game writes to this client without a line of its own: a greeting, or what
\* another client does (act_perceive_to).
Overhear ==
    /\ phase = "process_input"
    /\ \E text \in Replies : Len(output.data) + Len(text) <= MaxOutput /\ Written(text)
    /\ UNCHANGED <<clientVars, line, phase, inputVars, flushVars>>

-----------------------------------------------------------------------------
(* telnet_flush_tick: telnet_conn_flush. *)

\* The newline at p is sent as CR LF, behind what precedes it.
BareNewline == output.data[p] = LF /\ (p > 1 => output.data[p-1] # CR)

\* Looks at the byte at p.  seg_start stays where it is.
SendUpTo_again ==
    /\ phase = "flush" /\ p <= Len(output.data)
    /\ BareNewline
    /\ shown' = shown \o SubSeq(output.data, seg_start, p - 1) \o <<CR, LF>>
    /\ p' = p + 1
    /\ UNCHANGED <<clientVars, line, phase, inputVars, output, seg_start>>

SendUpTo ==
    /\ phase = "flush" /\ p <= Len(output.data)
    /\ BareNewline
    /\ shown' = shown \o SubSeq(output.data, seg_start, p - 1) \o <<CR, LF>>
    /\ seg_start' = p + 1 /\ p' = p + 1
    /\ UNCHANGED <<clientVars, line, phase, inputVars, output>>

Pass ==
    /\ phase = "flush" /\ p <= Len(output.data)
    /\ ~BareNewline
    /\ p' = p + 1
    /\ UNCHANGED <<clientVars, line, phase, inputVars, output, seg_start, shown>>

SendRest ==
    /\ phase = "flush" /\ p > Len(output.data)
    /\ seg_start <= Len(output.data)
    /\ shown' = shown \o SubSeq(output.data, seg_start, Len(output.data))
    /\ seg_start' = Len(output.data) + 1
    /\ UNCHANGED <<clientVars, line, phase, inputVars, output, p>>

Flushed ==
    /\ phase = "flush" /\ p > Len(output.data) /\ seg_start > Len(output.data)
    /\ output' = [output EXCEPT !.data = <<>>]
    /\ phase' = "read"
    /\ seg_start' = 1 /\ p' = 1 /\ shown' = <<>>
    /\ UNCHANGED <<clientVars, line, inputVars>>

\* A write fails.  What is left of the output is never sent.
FlushFails ==
    /\ phase = "flush" /\ output.data # <<>>
    /\ phase' = "closed"
    /\ UNCHANGED <<clientVars, line, inputVars, output, flushVars>>

\* telnet_gc_tick frees the connection, and its slot accepts another client.
Gc == phase = "closed" /\ Reconnected

-----------------------------------------------------------------------------
Byte(b) == SkipByte(b) \/ AppendByte(b) \/ LongLine(b) \/ EndLine(b) \/ EndLongLine(b)

Client == (\E c \in Chars : Type(c)) \/ Enter \/ Negotiate \/ Subnegotiate \/ Nop

\* What the tick does with what it finds.
Tick ==
    \/ NothingToRead \/ Read \/ (\E b \in Bytes : Byte(b)) \/ EndRead
    \/ NextLine \/ NoLine
    \/ SendUpTo \/ Pass \/ SendRest \/ Flushed

Next == Client \/ Tick \/ ReadEnds \/ Overhear \/ FlushFails \/ Gc

Spec == Init /\ [][Next]_vars

\* The loop of the server goes on, and what was sent arrives in the end.
FairSpec == Spec /\ WF_vars(Tick \/ Gc) /\ SF_vars(Read)

-----------------------------------------------------------------------------
(* What the connection promises. *)

TypeOK ==
    /\ typed \in Seq(Chars) /\ waiting \in Seq(Seq(Chars)) /\ line \in Seq(Bytes)
    /\ begun \in BOOLEAN /\ keys \in Nat /\ socket \in Seq(Bytes)
    /\ phase \in Phases /\ temp \in Seq(Bytes)
    /\ input_buffer \in Seq(Bytes)
    /\ input_line_ready \in BOOLEAN /\ input_discarding \in BOOLEAN
    /\ telnet_state \in TelnetStates
    /\ output \in DynamicBuffer(Bytes)
    /\ p \in Nat \ {0} /\ seg_start \in 1 .. p /\ shown \in Seq(Bytes)

\* The input buffer holds one line that is complete, or the beginning of one, or
\* nothing while a line is given up: never more than PLAYER_INPUT_SIZE bytes of
\* the 2 * PLAYER_INPUT_SIZE + 1 it has, so telnet_conn_read always has room,
\* and input_line_ready says exactly whether the last byte is a newline.
OneLineBuffered ==
    /\ Len(input_buffer) <= PLAYER_INPUT_SIZE
    /\ input_line_ready => /\ ~input_discarding
                           /\ input_buffer # <<>>
                           /\ Newlines(input_buffer) = {Len(input_buffer)}
    /\ ~input_line_ready => Newlines(input_buffer) = {} /\ Len(input_buffer) < PLAYER_INPUT_SIZE
    /\ input_discarding => input_buffer = <<>>

\* The line of telnet_process_input_tick is char[PLAYER_INPUT_SIZE]: what
\* telnet_conn_next_line copies fits with its NUL and holds no line end.
LineFits ==
    /\ Len(line) < PLAYER_INPUT_SIZE
    /\ \A i \in 1 .. Len(line) : line[i] \notin {LF, CR}

\* conn->output always has room for its NUL.
OutputFits == Len(output.data) < output.capacity

\* Once all bytes are read and no line is ready, every line typed, and no longer
\* than PLAYER_INPUT_SIZE allows, has been handled.
NothingDropped == Quiet /\ phase \in {"read", "flush"} => waiting = <<>>

\* The lines the game gets are the lines the client typed, in order and trimmed,
\* however TCP cuts them and whatever telnet commands are mixed in.
Lines == INSTANCE TypedLines WITH MaxLine <- PLAYER_INPUT_SIZE - 1
ImplementsTypedLines == Lines!Spec

\* Every newline that no CR precedes, as CR LF.
Crlf(s) ==
    LET sent[i \in 0 .. Len(s)] ==
          IF i = 0 THEN <<>>
          ELSE IF s[i] = LF /\ (i = 1 \/ s[i-1] # CR) THEN sent[i-1] \o <<CR, LF>>
          ELSE Append(sent[i-1], s[i])
    IN  sent[Len(s)]

\* When a flush empties the output, the client was sent all of it, each byte once
\* and in order, with newlines as CR LF.
SentAsWritten ==
    [][phase = "flush" /\ phase' = "read" => shown = Crlf(output.data)]_vars

\* A line that was typed is handled, unless the connection ends.
LineArrives == []<>(waiting = <<>>)
=============================================================================
