------------------------- MODULE TelnetStream_proofs -------------------------
(***************************************************************************)
(* Theorems: whatever bytes a client sends, and however they arrive, one    *)
(* line at most is in the input buffer, lines fit where they are copied to, *)
(* and the output fits its buffer and is sent whole; a client that waits    *)
(* for answers gets what TypedLines promises.                               *)
(***************************************************************************)
EXTENDS TelnetStream, TLAPS, WellFoundedInduction, SequenceTheorems

-----------------------------------------------------------------------------
(* Text always fits in its buffer, with the NUL behind it.                   *)

\* A text that leaves room for the NUL.
Fits(buf) == Len(buf.data) < buf.capacity

\* A part of a sequence.
LEMMA PartOf ==
    ASSUME NEW S, NEW s \in Seq(S), NEW m \in Nat \ {0}, NEW n \in Int,
           n <= Len(s), m <= n + 1
    PROVE  /\ SubSeq(s, m, n) \in Seq(S)
           /\ Len(SubSeq(s, m, n)) = n - m + 1
           /\ \A k \in 1 .. n - m + 1 : SubSeq(s, m, n)[k] = s[m + k - 1]
  OBVIOUS

\* What buffer_append leaves in the buffer fits, and unless the buffer says that
\* something was cut all of the text is there (buffer_append, buffer.c:31).
THEOREM BufferAppendFits ==
    ASSUME NEW Char, NEW buf \in Buffer(Char), Fits(buf), NEW text \in Seq(Char)
    PROVE  LET new == buffer_append(buf, text) IN
           /\ new \in Buffer(Char) /\ Fits(new) /\ new.capacity = buf.capacity
           /\ ~new.overflow => new.data = buf.data \o text
  <1> DEFINE room == buf.capacity - Len(buf.data) - 1
             new  == buffer_append(buf, text)
  <1>1. /\ buf.data \in Seq(Char) /\ buf.capacity \in Nat \ {0} /\ buf.overflow \in BOOLEAN
        /\ room \in Nat
    BY DEF Buffer, Fits
  <1>2. CASE buf.overflow
    BY <1>2 DEF buffer_append
  <1>3. CASE ~buf.overflow /\ Len(text) > room
    <2> DEFINE cut == SubSeq(text, 1, room)
    <2>1. cut \in Seq(Char) /\ Len(cut) = room
      BY <1>1, <1>3, PartOf
    <2>2. new = [buf EXCEPT !.data = buf.data \o cut, !.overflow = TRUE]
      BY <1>3 DEF buffer_append
    <2> HIDE DEF cut, new
    <2>3. /\ buf.data \o cut \in Seq(Char)
          /\ Len(buf.data \o cut) = Len(buf.data) + Len(cut)
      BY <1>1, <2>1
    <2> DEFINE data == buf.data \o cut
    <2>4. new = [buf EXCEPT !.data = data, !.overflow = TRUE] /\ data \in Seq(Char)
      BY <2>2, <2>3
    <2> HIDE DEF data
    <2>5. new \in Buffer(Char) /\ new.capacity = buf.capacity /\ new.overflow
          /\ new.data = data
      BY <2>4 DEF Buffer
    <2>6. Fits(new)
      BY <1>1, <2>1, <2>3, <2>5 DEF Fits, data
    <2> QED BY <2>5, <2>6 DEF new
  <1>4. CASE ~buf.overflow /\ ~(Len(text) > room)
    <2> DEFINE data == buf.data \o text
    <2>1. /\ data \in Seq(Char) /\ Len(data) = Len(buf.data) + Len(text)
          /\ Len(text) \in Nat
      BY <1>1
    <2>2. new = [buf EXCEPT !.data = data]
      BY <1>4 DEF buffer_append
    <2> HIDE DEF new, data
    <2>3. new \in Buffer(Char) /\ new.capacity = buf.capacity /\ new.data = data
      BY <1>1, <2>1, <2>2 DEF Buffer
    <2>4. Fits(new)
      BY <1>1, <1>4, <2>1, <2>3 DEF Fits
    <2> QED BY <2>3, <2>4 DEF new, data
  <1> QED BY <1>2, <1>3, <1>4

\* The same of a formatted text, which vsnprintf cuts (buffer_vappendf,
\* buffer.c:57).
THEOREM BufferAppendfFits ==
    ASSUME NEW Char, NEW buf \in Buffer(Char), Fits(buf), NEW text \in Seq(Char)
    PROVE  LET new == buffer_appendf(buf, text) IN
           /\ new \in Buffer(Char) /\ Fits(new) /\ new.capacity = buf.capacity
           /\ ~new.overflow => new.data = buf.data \o text
  <1> DEFINE room == buf.capacity - Len(buf.data) - 1
             cut  == IF Len(text) > room THEN SubSeq(text, 1, room) ELSE text
             app  == buffer_append(buf, cut)
             new  == buffer_appendf(buf, text)
  <1>1. /\ buf.data \in Seq(Char) /\ buf.capacity \in Nat \ {0} /\ buf.overflow \in BOOLEAN
        /\ room \in Nat
    BY DEF Buffer, Fits
  <1>2. CASE room = 0
    BY <1>1, <1>2 DEF buffer_appendf, Buffer, Fits
  <1>3. CASE room # 0
    <2>1. cut \in Seq(Char)
      BY <1>1, PartOf
    <2>2. /\ app \in Buffer(Char) /\ Fits(app) /\ app.capacity = buf.capacity
          /\ ~app.overflow => app.data = buf.data \o cut
      BY <2>1, BufferAppendFits
    <2>3. new = [app EXCEPT !.overflow = app.overflow \/ Len(text) > room]
      BY <1>3 DEF buffer_appendf
    <2>4. ~(Len(text) > room) => cut = text
      OBVIOUS
    <2> HIDE DEF app, new, cut, room
    <2>5. /\ app.data \in Seq(Char) /\ app.capacity \in Nat \ {0} /\ app.overflow \in BOOLEAN
      BY <2>2 DEF Buffer
    <2>6. /\ new.data = app.data /\ new.capacity = app.capacity
          /\ new.overflow = (app.overflow \/ Len(text) > room)
          /\ new \in Buffer(Char)
      BY <2>2, <2>3, <2>5 DEF Buffer
    <2> QED BY <2>2, <2>4, <2>6 DEF Fits, new
  <1> QED BY <1>2, <1>3

\* A DynamicBuffer grows until the text fits (dbuffer_reserve, buffer.c:155).
THEOREM Growth ==
    ASSUME NEW Char, NEW buf \in DynamicBuffer(Char), NEW text \in Seq(Char),
           NEW new \in Grown(buf, text), Appends(buf, text, new)
    PROVE  new \in DynamicBuffer(Char) /\ Fits(new)
  <1>1. /\ buf.data \in Seq(Char) /\ buf.capacity \in Nat \ {0}
    BY DEF DynamicBuffer
  <1>2. /\ buf.data \o text \in Seq(Char)
        /\ Len(buf.data \o text) = Len(buf.data) + Len(text)
    BY <1>1
  <1>3. PICK c \in buf.capacity .. (2 * (buf.capacity + Needed(buf, text))) :
          new = [data |-> buf.data \o text, capacity |-> c]
    BY DEF Grown
  <1>4. c \in Nat \ {0}
    BY <1>1, <1>3
  <1>5. Needed(buf, text) <= c
    BY <1>1, <1>3, <1>4 DEF Appends, Reserves
  <1>6. Needed(buf, text) = Len(buf.data \o text) + 1 /\ Len(buf.data \o text) \in Nat
    BY <1>1, <1>2 DEF Needed
  <1> QED BY <1>2, <1>3, <1>4, <1>5, <1>6 DEF DynamicBuffer, Fits

-----------------------------------------------------------------------------
(* What the operators return. *)

LEMMA LeastExists ==
    ASSUME NEW T \in SUBSET Nat, T # {}
    PROVE  \E m \in T : \A k \in T : m <= k
  <1>1. IsWellFoundedOn(OpToRel(<, Nat), Nat)
    BY NatLessThanWellFounded
  <1>2. PICK m \in T : \A k \in T : ~(<<k, m>> \in OpToRel(<, Nat))
    BY <1>1, WFMin
  <1>3. \A k \in T : ~(k < m)
    BY <1>2 DEF OpToRel
  <1> QED BY <1>3

LEMMA GreatestExists ==
    ASSUME NEW n \in Nat, NEW T \in SUBSET (1 .. n), T # {}
    PROVE  \E m \in T : \A k \in T : k <= m
  <1> DEFINE U == { n - k : k \in T }
  <1>1. U \in SUBSET Nat /\ U # {}
    <2>1. \A k \in T : n - k \in Nat
      OBVIOUS
    <2> QED BY <2>1
  <1>2. PICK u \in U : \A v \in U : u <= v
    BY <1>1, LeastExists
  <1>3. PICK m \in T : u = n - m
    BY <1>2
  <1>4. \A k \in T : n - k \in U /\ n - m <= n - k
    BY <1>2, <1>3
  <1>5. \A k \in T : k <= m
    BY <1>4
  <1> QED BY <1>5

LEMMA NewlinePlace ==
    ASSUME NEW s \in Seq(Bytes), Newlines(s) # {}
    PROVE  Newline(s) \in Newlines(s)
  <1>1. Newlines(s) \in SUBSET Nat
    BY DEF Newlines
  <1>2. \E j \in Newlines(s) : \A k \in Newlines(s) : j <= k
    BY <1>1, LeastExists
  <1> QED BY <1>2 DEF Newline

\* What is left of a trimmed text is a part of it.
LEMMA TrimmedPart ==
    ASSUME NEW s \in Seq(Bytes)
    PROVE  /\ Trimmed(s) \in Seq(Bytes) /\ Len(Trimmed(s)) <= Len(s)
           /\ \A k \in 1 .. Len(Trimmed(s)) : \E m \in 1 .. Len(s) : Trimmed(s)[k] = s[m]
  <1> DEFINE solid == { i \in 1 .. Len(s) : s[i] \notin Spaces }
             first == CHOOSE i \in solid : \A j \in solid : i <= j
             last  == CHOOSE j \in solid : \A i \in solid : i <= j
  <1>1. CASE solid = {}
    BY <1>1 DEF Trimmed
  <1>2. CASE solid # {}
    <2>0. Len(s) \in Nat /\ solid \in SUBSET (1 .. Len(s)) /\ solid \in SUBSET Nat
      OBVIOUS
    <2> HIDE DEF solid
    <2>1. \E i \in solid : \A j \in solid : i <= j
      BY <1>2, <2>0, LeastExists
    <2>2. \E j \in solid : \A i \in solid : i <= j
      BY <1>2, <2>0, GreatestExists
    <2>3. first \in solid /\ last \in solid /\ first <= last
      BY <2>1, <2>2
    <2>4. Trimmed(s) = SubSeq(s, first, last)
      BY <1>2 DEF Trimmed, solid
    <2>5. first \in 1 .. Len(s) /\ last \in 1 .. Len(s)
      BY <2>0, <2>3
    <2> HIDE DEF first, last
    <2>6. /\ SubSeq(s, first, last) \in Seq(Bytes)
          /\ Len(SubSeq(s, first, last)) = last - first + 1
          /\ \A k \in 1 .. last - first + 1 : SubSeq(s, first, last)[k] = s[first + k - 1]
      BY <2>3, <2>5, PartOf
    <2>7. \A k \in 1 .. last - first + 1 : first + k - 1 \in 1 .. Len(s)
      BY <2>3, <2>5
    <2> QED BY <2>3, <2>4, <2>5, <2>6, <2>7
  <1> QED BY <1>1, <1>2

LEMMA NextStateType ==
    ASSUME NEW state \in TelnetStates, NEW b \in Bytes
    PROVE  NextState(state, b) \in TelnetStates
  BY DEF TelnetStates, NextState

LEMMA WrittenFits ==
    ASSUME TypeOK, NEW text \in Replies, Written(text)
    PROVE  output' \in DynamicBuffer(Bytes) /\ OutputFits'
  <1>1. text \in Seq(Bytes)
    BY StreamAssumption
  <1>2. PICK new \in Grown(output, text) : Appends(output, text, new) /\ output' = new
    BY DEF Written
  <1> QED BY <1>1, <1>2, Growth DEF TypeOK, OutputFits, Fits

LEMMA ByteNames ==
    /\ Chars \subseteq Bytes /\ Options \subseteq Bytes /\ Negotiations \subseteq Bytes
    /\ {LF, CR, IAC, SB, SE, "NOP"} \subseteq Bytes /\ LF # CR
  BY DEF Bytes, LF, CR

-----------------------------------------------------------------------------
(* Types. *)

LEMMA NewOutput ==
    LET new == dbuffer_new(TELNET_CONN_INITIAL_OUTPUT_CAPACITY) IN
    new \in DynamicBuffer(Bytes) /\ Len(new.data) < new.capacity
  <1>1. <<>> \in Seq(Bytes) /\ Len(<<>>) = 0
    OBVIOUS
  <1> QED BY <1>1, StreamAssumption DEF dbuffer_new, DynamicBuffer

LEMMA InitType == Init => TypeOK
  <1> SUFFICES ASSUME Init
               PROVE  TypeOK
    OBVIOUS
  <1>1. output \in DynamicBuffer(Bytes)
    BY NewOutput DEF Init
  <1>2. /\ <<>> \in Seq(Chars) /\ <<>> \in Seq(Seq(Chars)) /\ <<>> \in Seq(Bytes)
        /\ 1 \in 1 .. 1 /\ 1 \in Nat \ {0} /\ 0 \in Nat
    OBVIOUS
  <1>3. phase \in Phases /\ telnet_state \in TelnetStates
    BY DEF Init, Phases, TelnetStates
  <1>4. begun \in BOOLEAN /\ input_line_ready \in BOOLEAN /\ input_discarding \in BOOLEAN
    BY DEF Init
  <1>5. /\ typed \in Seq(Chars) /\ waiting \in Seq(Seq(Chars)) /\ line \in Seq(Bytes)
        /\ socket \in Seq(Bytes) /\ temp \in Seq(Bytes) /\ input_buffer \in Seq(Bytes)
        /\ keys \in Nat /\ p \in Nat \ {0} /\ seg_start \in 1 .. p /\ shown \in Seq(Bytes)
    BY <1>2 DEF Init
  <1> QED BY <1>1, <1>3, <1>4, <1>5 DEF TypeOK

LEMMA ClientTypes ==
    ASSUME TypeOK, Client
    PROVE  TypeOK'
  <1>1. ASSUME NEW bytes \in Seq(Bytes), Sends(bytes)
        PROVE  /\ keys' \in Nat /\ socket' \in Seq(Bytes)
               /\ UNCHANGED <<line, phase, inputVars, output, flushVars>>
    BY <1>1 DEF Sends, TypeOK
  <1>2. ASSUME NEW bytes \in Seq(Bytes), Sends(bytes),
               typed' \in Seq(Chars), waiting' \in Seq(Seq(Chars)), begun' \in BOOLEAN
        PROVE  TypeOK'
    BY <1>1, <1>2 DEF TypeOK, inputVars, flushVars
  <1>3. ASSUME NEW bytes \in Seq(Bytes), Command(bytes)
        PROVE  TypeOK'
    BY <1>2, <1>3 DEF Command, TypeOK
  <1>4. ASSUME NEW c \in Chars, Type(c)
        PROVE  TypeOK'
    <2>1. <<IAC, IAC>> \in Seq(Bytes) /\ <<c>> \in Seq(Bytes)
      BY ByteNames
    <2>2. PICK bytes \in Seq(Bytes) : Sends(bytes)
      BY <1>4, <2>1 DEF Type
    <2>3. typed' \in Seq(Chars) /\ waiting' \in Seq(Seq(Chars)) /\ begun' \in BOOLEAN
      BY <1>4 DEF Type, TypeOK
    <2> QED BY <1>2, <2>2, <2>3
  <1>5. CASE Enter
    <2>1. <<CR, LF>> \in Seq(Bytes) /\ Sends(<<CR, LF>>)
      BY <1>5, ByteNames DEF Enter
    <2>2. Append(waiting, typed) \in Seq(Seq(Chars)) /\ <<>> \in Seq(Chars)
      BY DEF TypeOK
    <2>3. typed' \in Seq(Chars) /\ waiting' \in Seq(Seq(Chars)) /\ begun' \in BOOLEAN
      BY <1>5, <2>2 DEF Enter, TypeOK
    <2> QED BY <1>2, <2>1, <2>3
  <1>6. CASE Negotiate
    <2>1. PICK cmd \in Offers, opt \in Options : Command(<<IAC, cmd, opt>>)
      BY <1>6 DEF Negotiate
    <2>2. <<IAC, cmd, opt>> \in Seq(Bytes)
      BY ByteNames, StreamAssumption
    <2> QED BY <1>3, <2>1, <2>2
  <1>7. CASE Subnegotiate
    <2>1. PICK opt \in Options, x \in Options :
            Command(<<IAC, SB, opt, IAC, IAC, x, IAC, SE>>)
      BY <1>7 DEF Subnegotiate
    <2>2. <<IAC, SB, opt, IAC, IAC, x, IAC, SE>> \in Seq(Bytes)
      BY ByteNames
    <2> QED BY <1>3, <2>1, <2>2
  <1>8. CASE Nop
    <2>1. <<IAC, "NOP">> \in Seq(Bytes)
      BY ByteNames
    <2> QED BY <1>3, <1>8, <2>1 DEF Nop
  <1> QED BY <1>4, <1>5, <1>6, <1>7, <1>8 DEF Client

LEMMA ReadTypes ==
    ASSUME TypeOK, NothingToRead \/ Read \/ ReadEnds \/ EndRead
    PROVE  TypeOK'
  <1>1. CASE Read
    <2>1. PICK n \in 1 .. ReadLimit :
            /\ n <= Len(socket)
            /\ temp' = SubSeq(socket, 1, n)
            /\ socket' = SubSeq(socket, n + 1, Len(socket))
      BY <1>1 DEF Read
    <2>2. socket \in Seq(Bytes) /\ Len(socket) \in Nat /\ n \in Nat
      BY <2>1 DEF TypeOK
    <2>3. temp' \in Seq(Bytes) /\ socket' \in Seq(Bytes)
      BY <2>1, <2>2, PartOf
    <2>4. input_buffer' \in Seq(Bytes) /\ input_discarding' \in BOOLEAN
      BY <1>1 DEF Read, TypeOK, Full
    <2> QED BY <1>1, <2>3, <2>4 DEF Read, TypeOK, Phases, flushVars
  <1>2. CASE NothingToRead \/ ReadEnds \/ EndRead
    BY <1>2 DEF NothingToRead, ReadEnds, EndRead, TypeOK, Phases, clientVars, inputVars, flushVars
  <1> QED BY <1>1, <1>2

LEMMA ByteTypes ==
    ASSUME TypeOK, NEW b \in Bytes, Byte(b)
    PROVE  TypeOK'
  <1>1. /\ temp # <<>> /\ telnet_state' \in TelnetStates
        /\ UNCHANGED <<clientVars, line, phase, output, flushVars>>
    BY NextStateType DEF Byte, SkipByte, AppendByte, LongLine, EndLine, EndLongLine, TextByte,
                         TakeByte, TypeOK
  <1>2. temp' \in Seq(Bytes)
    <2>1. Tail(temp) \in Seq(Bytes) /\ <<>> \in Seq(Bytes)
      BY <1>1 DEF TypeOK
    <2> QED BY <2>1 DEF Byte, SkipByte, AppendByte, LongLine, EndLine, EndLongLine
  <1>3. input_buffer' \in Seq(Bytes)
    <2>1. Trimmed(input_buffer) \in Seq(Bytes)
      BY TrimmedPart DEF TypeOK
    <2>2. Append(Trimmed(input_buffer), LF) \in Seq(Bytes)
      BY <2>1, ByteNames
    <2>3. Append(input_buffer, b) \in Seq(Bytes) /\ <<>> \in Seq(Bytes)
      BY DEF TypeOK
    <2> QED BY <2>2, <2>3 DEF Byte, SkipByte, AppendByte, LongLine, EndLine, EndLongLine, TypeOK
  <1>4. input_line_ready' \in BOOLEAN /\ input_discarding' \in BOOLEAN
    BY DEF Byte, SkipByte, AppendByte, LongLine, EndLine, EndLongLine, TypeOK
  <1> QED BY <1>1, <1>2, <1>3, <1>4 DEF TypeOK, clientVars, flushVars

LEMMA LineTypes ==
    ASSUME TypeOK, NextLine \/ NoLine \/ Overhear
    PROVE  TypeOK'
  <1>1. CASE NextLine
    <2> DEFINE i    == Newline(input_buffer)
               rest == SubSeq(input_buffer, i + 1, Len(input_buffer))
               text == IF i > 1 /\ input_buffer[i - 1] = CR THEN i - 2 ELSE i - 1
               copy == IF text > PLAYER_INPUT_SIZE - 1 THEN PLAYER_INPUT_SIZE - 1 ELSE text
    <2>1. input_buffer \in Seq(Bytes) /\ Len(input_buffer) \in Nat
      BY DEF TypeOK
    <2>2. i \in 1 .. Len(input_buffer)
      <3>1. i \in Newlines(input_buffer)
        BY <1>1, <2>1, NewlinePlace DEF NextLine, LineFound
      <3> QED BY <3>1 DEF Newlines
    <2>3. /\ line' = SubSeq(input_buffer, 1, copy) /\ input_buffer' = rest
          /\ input_line_ready' = (Newlines(rest) # {})
      BY <1>1 DEF NextLine
    <2>4. copy \in Int /\ 0 <= copy /\ copy <= Len(input_buffer)
      BY <2>1, <2>2, StreamAssumption
    <2>5. line' \in Seq(Bytes) /\ input_buffer' \in Seq(Bytes)
      <3> HIDE DEF copy
      <3>1. line' \in Seq(Bytes)
        BY <2>1, <2>3, <2>4, PartOf
      <3>2. i + 1 \in Nat \ {0} /\ i + 1 <= Len(input_buffer) + 1
        BY <2>1, <2>2
      <3>3. rest \in Seq(Bytes)
        BY <2>1, <3>2, PartOf
      <3> QED BY <2>3, <3>1, <3>3
    <2>6. output' \in DynamicBuffer(Bytes)
      BY <1>1, WrittenFits DEF NextLine
    <2>7. waiting' \in Seq(Seq(Chars))
      BY <1>1 DEF NextLine, TypeOK
    <2> QED BY <1>1, <2>3, <2>5, <2>6, <2>7 DEF NextLine, TypeOK, Phases, flushVars
  <1>2. CASE NoLine
    BY <1>2 DEF NoLine, TypeOK, Phases, clientVars, inputVars, flushVars
  <1>3. CASE Overhear
    <2>1. output' \in DynamicBuffer(Bytes)
      BY <1>3, WrittenFits DEF Overhear
    <2> QED BY <1>3, <2>1 DEF Overhear, TypeOK, clientVars, inputVars, flushVars
  <1> QED BY <1>1, <1>2, <1>3

\* A buffer that is emptied keeps its memory, so its NUL still fits.
LEMMA EmptiedFits ==
    ASSUME NEW E, NEW buffer \in DynamicBuffer(E), NEW emptied,
           emptied = [buffer EXCEPT !.data = <<>>]
    PROVE  /\ emptied \in DynamicBuffer(E)
           /\ Len(emptied.data) < emptied.capacity
  <1>1. buffer \in [data : Seq(E), capacity : Nat \ {0}]
    BY DEF DynamicBuffer
  <1>2. <<>> \in Seq(E)
    OBVIOUS
  <1>3. emptied \in [data : Seq(E), capacity : Nat \ {0}]
    BY <1>1, <1>2
  <1>4. emptied.data = <<>> /\ emptied.capacity \in Nat \ {0}
    BY <1>1, <1>3
  <1>5. Len(emptied.data) = 0
    BY <1>4
  <1> QED BY <1>3, <1>4, <1>5 DEF DynamicBuffer

LEMMA SentType ==
    ASSUME TypeOK, NEW m \in Nat \ {0}, NEW n \in Int, n <= Len(output.data), m <= n + 1
    PROVE  SubSeq(output.data, m, n) \in Seq(Bytes)
  <1>1. output.data \in Seq(Bytes)
    BY DEF TypeOK, DynamicBuffer
  <1> QED BY <1>1, PartOf

LEMMA FlushTypes ==
    ASSUME TypeOK, SendUpTo \/ Pass \/ SendRest \/ Flushed \/ FlushFails \/ Gc
    PROVE  TypeOK'
  <1>1. Len(output.data) \in Nat
    <2>1. output.data \in Seq(Bytes)
      BY DEF TypeOK, DynamicBuffer
    <2> QED BY <2>1
  <1>2. p \in Nat \ {0} /\ seg_start \in Nat \ {0} /\ seg_start <= p
    BY DEF TypeOK
  <1>3. CASE SendUpTo
    <2>1. SubSeq(output.data, seg_start, p - 1) \in Seq(Bytes)
      <3>1. p <= Len(output.data)
        BY <1>3 DEF SendUpTo
      <3>2. p - 1 \in Int /\ p - 1 <= Len(output.data) /\ seg_start <= (p - 1) + 1
        BY <1>1, <1>2, <3>1
      <3> QED BY <1>2, <3>2, SentType
    <2>2. <<CR, LF>> \in Seq(Bytes)
      BY ByteNames
    <2>3. shown' \in Seq(Bytes)
      <3>1. shown' = shown \o SubSeq(output.data, seg_start, p - 1) \o <<CR, LF>>
        BY <1>3 DEF SendUpTo
      <3>2. shown \in Seq(Bytes)
        BY DEF TypeOK
      <3>3. shown \o SubSeq(output.data, seg_start, p - 1) \in Seq(Bytes)
        BY <2>1, <3>2
      <3> QED BY <2>2, <3>1, <3>3
    <2>4. p' \in Nat \ {0} /\ seg_start' \in 1 .. p'
      <3>1. p' = p + 1 /\ seg_start' = p + 1
        BY <1>3 DEF SendUpTo
      <3> QED BY <1>2, <3>1
    <2> QED BY <1>3, <2>3, <2>4 DEF SendUpTo, TypeOK, clientVars, inputVars
  <1>4. CASE Pass
    BY <1>4 DEF Pass, TypeOK, clientVars, inputVars
  <1>5. CASE SendRest
    <2>1. /\ seg_start <= Len(output.data) /\ p > Len(output.data)
          /\ shown' = shown \o SubSeq(output.data, seg_start, Len(output.data))
          /\ seg_start' = Len(output.data) + 1
      BY <1>5 DEF SendRest
    <2>2. SubSeq(output.data, seg_start, Len(output.data)) \in Seq(Bytes)
      <3>1. /\ Len(output.data) \in Int /\ Len(output.data) <= Len(output.data)
            /\ seg_start <= Len(output.data) + 1
        BY <1>1, <1>2, <2>1
      <3> QED BY <1>2, <3>1, SentType
    <2>3. shown' \in Seq(Bytes)
      <3>1. shown \in Seq(Bytes)
        BY DEF TypeOK
      <3> QED BY <2>1, <2>2, <3>1
    <2>4. seg_start' \in 1 .. p
      BY <1>1, <1>2, <2>1
    <2> QED BY <1>5, <2>3, <2>4 DEF SendRest, TypeOK, clientVars, inputVars
  <1>6. CASE Flushed
    <2>1. output' \in DynamicBuffer(Bytes)
      <3>1. output' = [output EXCEPT !.data = <<>>]
        BY <1>6 DEF Flushed
      <3>2. output \in DynamicBuffer(Bytes)
        BY DEF TypeOK
      <3> QED BY <3>1, <3>2, EmptiedFits
    <2> QED BY <1>6, <2>1 DEF Flushed, TypeOK, Phases, clientVars, inputVars
  <1>7. CASE FlushFails
    BY <1>7 DEF FlushFails, TypeOK, Phases, clientVars, inputVars, flushVars
  <1>8. CASE Gc
    <2>1. output' \in DynamicBuffer(Bytes)
      BY <1>8, NewOutput DEF Gc, Reconnected
    <2>2. /\ <<>> \in Seq(Chars) /\ <<>> \in Seq(Seq(Chars)) /\ <<>> \in Seq(Bytes)
          /\ 1 \in 1 .. 1 /\ 1 \in Nat \ {0} /\ 0 \in Nat
      OBVIOUS
    <2>3. phase' \in Phases /\ telnet_state' \in TelnetStates
      BY <1>8 DEF Gc, Reconnected, Phases, TelnetStates
    <2>4. begun' \in BOOLEAN /\ input_line_ready' \in BOOLEAN /\ input_discarding' \in BOOLEAN
      BY <1>8 DEF Gc, Reconnected
    <2>5. /\ typed' \in Seq(Chars) /\ waiting' \in Seq(Seq(Chars)) /\ line' \in Seq(Bytes)
          /\ socket' \in Seq(Bytes) /\ temp' \in Seq(Bytes) /\ input_buffer' \in Seq(Bytes)
          /\ keys' \in Nat /\ p' \in Nat \ {0} /\ seg_start' \in 1 .. p'
          /\ shown' \in Seq(Bytes)
      BY <1>8, <2>2 DEF Gc, Reconnected
    <2> QED BY <2>1, <2>3, <2>4, <2>5 DEF TypeOK
  <1> QED BY <1>3, <1>4, <1>5, <1>6, <1>7, <1>8

LEMMA TypeStep ==
    ASSUME TypeOK, [Next]_vars
    PROVE  TypeOK'
  <1>1. CASE UNCHANGED vars
    BY <1>1 DEF vars, clientVars, inputVars, flushVars, TypeOK
  <1>2. ASSUME NEW b \in Bytes, Byte(b)
        PROVE  TypeOK'
    BY <1>2, ByteTypes
  <1> QED BY <1>1, <1>2, ClientTypes, ReadTypes, LineTypes, FlushTypes DEF Next, Tick

\* Every byte stays a byte, every position in the text, whatever is typed.
THEOREM TypeCorrect == Spec => []TypeOK
  <1>1. TypeOK /\ [Next]_vars => TypeOK'
    BY TypeStep
  <1> QED BY InitType, <1>1, PTL DEF Spec

-----------------------------------------------------------------------------
(* Lines and their places. *)

\* telnet_conn_read keeps the CR of a line end out of the buffer, and looks at no
\* byte behind a complete line.
StreamInv ==
    /\ TypeOK
    /\ OneLineBuffered
    /\ LineFits
    /\ OutputFits
    /\ \A k \in 1 .. Len(input_buffer) : input_buffer[k] # CR
    /\ input_line_ready => temp = <<>>

\* What a step leaves alone when it does not touch the input buffer.
LEMMA KeepInput ==
    ASSUME StreamInv, UNCHANGED <<input_buffer, input_line_ready, input_discarding, line>>,
           temp' = temp \/ ~input_line_ready, TypeOK', OutputFits'
    PROVE  StreamInv'
  BY DEF StreamInv, OneLineBuffered, LineFits, Newlines

LEMMA KeepOutput ==
    ASSUME StreamInv, UNCHANGED output
    PROVE  OutputFits'
  BY DEF StreamInv, OutputFits

\* A buffer that is empty, of a connection that has no line ready.
LEMMA EmptyInput ==
    ASSUME TypeOK', OutputFits', LineFits', input_buffer' = <<>>, ~input_line_ready'
    PROVE  StreamInv'
  BY StreamAssumption DEF StreamInv, OneLineBuffered, Newlines, TypeOK

\* Without a newline and with room for one.
LEMMA AppendedByte ==
    ASSUME StreamInv, NEW b \in Bytes, AppendByte(b), TypeOK'
    PROVE  StreamInv'
  <1>1. /\ b \notin {LF, CR} /\ ~input_discarding /\ temp # <<>>
        /\ Len(input_buffer) < PLAYER_INPUT_SIZE - 1
        /\ input_buffer' = Append(input_buffer, b)
        /\ UNCHANGED <<line, output, input_line_ready, input_discarding>>
    BY DEF AppendByte, TextByte, TakeByte
  <1>2. ~input_line_ready /\ input_buffer \in Seq(Bytes) /\ Len(input_buffer) \in Nat
    BY <1>1 DEF StreamInv, TypeOK
  <1>3. /\ Len(input_buffer') = Len(input_buffer) + 1
        /\ \A k \in 1 .. Len(input_buffer') : input_buffer'[k] \notin {LF, CR}
    BY <1>1, <1>2 DEF StreamInv, OneLineBuffered, Newlines
  <1>4. OutputFits' /\ LineFits'
    BY <1>1, KeepOutput DEF StreamInv, LineFits
  <1>5. OneLineBuffered'
    BY <1>1, <1>2, <1>3, StreamAssumption DEF OneLineBuffered, Newlines
  <1> QED BY <1>1, <1>2, <1>3, <1>4, <1>5 DEF StreamInv

\* The newline is appended to what was trimmed.
LEMMA EndedLine ==
    ASSUME StreamInv, NEW b \in Bytes, EndLine(b), TypeOK'
    PROVE  StreamInv'
  <1> DEFINE bare == Trimmed(input_buffer)
  <1>1. /\ ~input_discarding /\ temp # <<>> /\ temp' = <<>>
        /\ input_buffer' = Append(bare, LF) /\ input_line_ready'
        /\ UNCHANGED <<line, output, input_discarding>>
    BY DEF EndLine, TakeByte
  <1>2. ~input_line_ready /\ input_buffer \in Seq(Bytes) /\ Len(input_buffer) \in Nat
    BY <1>1 DEF StreamInv, TypeOK
  <1>3. \A m \in 1 .. Len(input_buffer) : input_buffer[m] \notin {LF, CR}
    BY <1>2 DEF StreamInv, OneLineBuffered, Newlines
  <1>4. /\ bare \in Seq(Bytes) /\ Len(bare) \in Nat /\ Len(bare) <= Len(input_buffer)
        /\ \A k \in 1 .. Len(bare) : bare[k] \notin {LF, CR}
    <2>1. /\ bare \in Seq(Bytes) /\ Len(bare) <= Len(input_buffer)
          /\ \A k \in 1 .. Len(bare) : \E m \in 1 .. Len(input_buffer) : bare[k] = input_buffer[m]
      BY <1>2, TrimmedPart
    <2> HIDE DEF bare
    <2> QED BY <1>3, <2>1
  <1> HIDE DEF bare
  <1>5. /\ Len(input_buffer') = Len(bare) + 1 /\ input_buffer'[Len(bare) + 1] = LF
        /\ \A k \in 1 .. Len(bare) : input_buffer'[k] = bare[k]
    BY <1>1, <1>4
  <1>6. Newlines(input_buffer)' = {Len(input_buffer')}
    BY <1>4, <1>5 DEF Newlines
  <1>7. Len(input_buffer) < PLAYER_INPUT_SIZE
    BY <1>2 DEF StreamInv, OneLineBuffered
  <1>8. OneLineBuffered'
    <2>1. Len(input_buffer') <= PLAYER_INPUT_SIZE
      BY <1>2, <1>4, <1>5, <1>7, StreamAssumption
    <2>2. input_buffer' # <<>>
      BY <1>4, <1>5
    <2> QED BY <1>1, <1>6, <2>1, <2>2 DEF OneLineBuffered
  <1>9. OutputFits' /\ LineFits'
    BY <1>1, KeepOutput DEF StreamInv, LineFits
  <1>10. \A k \in 1 .. Len(input_buffer') : input_buffer'[k] # CR
    BY <1>4, <1>5, ByteNames
  <1> QED BY <1>1, <1>8, <1>9, <1>10 DEF StreamInv

LEMMA ByteSteps ==
    ASSUME StreamInv, NEW b \in Bytes, Byte(b), TypeOK'
    PROVE  StreamInv'
  <1>1. temp # <<>> /\ ~input_line_ready /\ UNCHANGED <<line, output>>
    BY DEF StreamInv, Byte, SkipByte, AppendByte, LongLine, EndLine, EndLongLine, TextByte, TakeByte
  <1>2. OutputFits' /\ LineFits'
    BY <1>1, KeepOutput DEF StreamInv, LineFits
  <1>3. CASE SkipByte(b)
    BY <1>1, <1>2, <1>3, KeepInput DEF SkipByte
  <1>4. CASE AppendByte(b)
    BY <1>4, AppendedByte
  <1>5. CASE LongLine(b) \/ EndLongLine(b)
    BY <1>1, <1>2, <1>5, EmptyInput DEF LongLine, EndLongLine
  <1>6. CASE EndLine(b)
    BY <1>6, EndedLine
  <1> QED BY <1>3, <1>4, <1>5, <1>6 DEF Byte

LEMMA ReadSteps ==
    ASSUME StreamInv, NothingToRead \/ Read \/ ReadEnds \/ EndRead, TypeOK'
    PROVE  StreamInv'
  <1>1. UNCHANGED <<line, output>>
    BY DEF NothingToRead, Read, ReadEnds, EndRead
  <1>2. OutputFits' /\ LineFits'
    BY <1>1, KeepOutput DEF StreamInv, LineFits
  <1>3. CASE NothingToRead \/ ReadEnds \/ EndRead
    BY <1>1, <1>2, <1>3, KeepInput DEF NothingToRead, ReadEnds, EndRead, inputVars
  <1>4. CASE Read /\ Full
    BY <1>2, <1>4, EmptyInput DEF Read
  <1>5. CASE Read /\ ~Full
    BY <1>1, <1>2, <1>5, KeepInput DEF Read, StreamInv, TypeOK
  <1> QED BY <1>3, <1>4, <1>5

\* The line that is copied is all of the buffer but its newline.
LEMMA CopiedLine ==
    ASSUME StreamInv, NextLine, TypeOK'
    PROVE  StreamInv'
  <1> DEFINE i    == Newline(input_buffer)
             rest == SubSeq(input_buffer, i + 1, Len(input_buffer))
             text == IF i > 1 /\ input_buffer[i - 1] = CR THEN i - 2 ELSE i - 1
             copy == IF text > PLAYER_INPUT_SIZE - 1 THEN PLAYER_INPUT_SIZE - 1 ELSE text
  <1>1. /\ input_line_ready
        /\ line' = SubSeq(input_buffer, 1, copy) /\ input_buffer' = rest
        /\ input_line_ready' = (Newlines(rest) # {})
    BY DEF NextLine, LineFound
  <1>2. input_buffer \in Seq(Bytes) /\ Len(input_buffer) \in Nat /\ input_buffer # <<>>
    BY <1>1 DEF StreamInv, TypeOK, OneLineBuffered
  <1>3. Newlines(input_buffer) = {Len(input_buffer)} /\ i = Len(input_buffer)
    BY <1>1, <1>2, NewlinePlace DEF StreamInv, OneLineBuffered
  <1>4. Len(input_buffer) <= PLAYER_INPUT_SIZE /\ copy = Len(input_buffer) - 1
    <2>1. i > 1 => input_buffer[i - 1] # CR
      BY <1>2, <1>3 DEF StreamInv
    <2>2. text = i - 1
      BY <2>1
    <2> QED BY <1>2, <1>3, <2>2, StreamAssumption DEF StreamInv, OneLineBuffered
  <1>5. rest = <<>>
    BY <1>2, <1>3
  <1>6. ~input_line_ready'
    <2>1. Newlines(<<>>) = {}
      BY DEF Newlines
    <2> QED BY <1>1, <1>5, <2>1
  <1>7. OutputFits'
    BY WrittenFits DEF NextLine, StreamInv
  <1>8. LineFits'
    <2>1. Len(input_buffer) >= 1
      BY <1>2
    <2>2. /\ Len(line') = copy
          /\ \A k \in 1 .. copy : line'[k] = input_buffer[k]
      BY <1>1, <1>2, <1>4, <2>1, PartOf
    <2>3. \A k \in 1 .. copy : input_buffer[k] \notin {LF, CR}
      BY <1>2, <1>3, <1>4 DEF Newlines, StreamInv
    <2> QED BY <1>2, <1>4, <2>2, <2>3, StreamAssumption DEF LineFits
  <1> QED BY <1>1, <1>5, <1>6, <1>7, <1>8, EmptyInput

LEMMA OtherSteps ==
    ASSUME StreamInv, TypeOK',
           Client \/ NoLine \/ Overhear \/ SendUpTo \/ Pass \/ SendRest \/ Flushed \/ FlushFails
    PROVE  StreamInv'
  <1>0. NoLine => ~input_line_ready
    BY DEF NoLine, LineFound, StreamInv, OneLineBuffered
  <1>1. UNCHANGED <<inputVars, line>>
    BY <1>0 DEF inputVars, StreamInv, TypeOK, Client, Type, Enter, Negotiate, Subnegotiate,
                Nop, Command, Sends, NoLine, Overhear, SendUpTo, Pass, SendRest, Flushed, FlushFails
  <1>2. CASE Overhear
    <2>1. OutputFits'
      BY <1>2, WrittenFits DEF Overhear, StreamInv
    <2> QED BY <1>1, <2>1, KeepInput DEF inputVars
  <1>3. CASE Flushed
    <2>1. output' = [output EXCEPT !.data = <<>>]
      BY <1>3 DEF Flushed
    <2>2. output \in DynamicBuffer(Bytes)
      BY DEF StreamInv, TypeOK
    <2>3. OutputFits'
      BY <2>1, <2>2, EmptiedFits DEF OutputFits
    <2> QED BY <1>1, <2>3, KeepInput DEF inputVars
  <1>4. CASE ~Overhear /\ ~Flushed
    <2>1. UNCHANGED output
      BY <1>4 DEF Client, Type, Enter, Negotiate, Subnegotiate, Nop, Command, Sends, NoLine,
                  SendUpTo, Pass, SendRest, FlushFails
    <2> QED BY <1>1, <2>1, KeepInput, KeepOutput DEF inputVars
  <1> QED BY <1>2, <1>3, <1>4

LEMMA StreamStep ==
    ASSUME StreamInv, [Next]_vars
    PROVE  StreamInv'
  <1>1. TypeOK'
    BY TypeStep DEF StreamInv
  <1>2. ASSUME NEW b \in Bytes, Byte(b)
        PROVE  StreamInv'
    BY <1>1, <1>2, ByteSteps
  <1>3. CASE Gc
    <2>1. OutputFits' /\ LineFits'
      BY <1>3, NewOutput, StreamAssumption DEF Gc, Reconnected, OutputFits, LineFits
    <2> QED BY <1>1, <1>3, <2>1, EmptyInput DEF Gc, Reconnected
  <1>4. CASE UNCHANGED vars
    BY <1>1, <1>4, KeepInput, KeepOutput DEF vars, inputVars
  <1> QED BY <1>1, <1>2, <1>3, <1>4, ReadSteps, CopiedLine, OtherSteps DEF Next, Tick

LEMMA StreamInvariant == Spec => []StreamInv
  <1>1. Init => StreamInv
    <2> SUFFICES ASSUME Init
                 PROVE  StreamInv
      OBVIOUS
    <2>1. TypeOK /\ OutputFits
      BY InitType, NewOutput DEF Init, OutputFits
    <2>2. Newlines(<<>>) = {} /\ Len(<<>>) = 0
      BY DEF Newlines
    <2> QED BY <2>1, <2>2, StreamAssumption DEF Init, StreamInv, OneLineBuffered, LineFits
  <1>2. StreamInv /\ [Next]_vars => StreamInv'
    BY StreamStep
  <1> QED BY <1>1, <1>2, PTL DEF Spec

\* However bytes arrive and whatever commands are among them, the input buffer
\* holds at most one line, with its newline last, and input_line_ready says so
\* (telnet_conn_read).
THEOREM OneLineIsBuffered == Spec => []OneLineBuffered
  <1>1. StreamInv => OneLineBuffered
    BY DEF StreamInv
  <1> QED BY StreamInvariant, <1>1, PTL

\* telnet_conn_next_line never copies more than its caller has room for.
THEOREM LinesFit == Spec => []LineFits
  <1>1. StreamInv => LineFits
    BY DEF StreamInv
  <1> QED BY StreamInvariant, <1>1, PTL

\* Whatever the game writes, and however often between two flushes, the output of
\* a connection has room for it (dbuffer_append).
THEOREM OutputAlwaysFits == Spec => []OutputFits
  <1>1. StreamInv => OutputFits
    BY DEF StreamInv
  <1> QED BY StreamInvariant, <1>1, PTL

-----------------------------------------------------------------------------
(* What a flush has sent.                                                    *)

\* What the bytes up to the i-th become, when those before it became `sent`.
CrlfNext(s, i, sent) ==
    IF s[i] = LF /\ (i = 1 \/ s[i-1] # CR) THEN sent \o <<CR, LF>> ELSE Append(sent, s[i])

\* The function that Crlf defines.
SentUpTo(s) ==
    CHOOSE c : c = [i \in 0 .. Len(s) |-> IF i = 0 THEN <<>> ELSE CrlfNext(s, i, c[i-1])]

LEMMA CrlfIsSent == \A s : Crlf(s) = SentUpTo(s)[Len(s)]
  BY DEF Crlf, SentUpTo, CrlfNext

LEMMA CrlfNextType ==
    ASSUME NEW s \in Seq(Bytes), NEW i \in 1 .. Len(s), NEW sent \in Seq(Bytes)
    PROVE  CrlfNext(s, i, sent) \in Seq(Bytes)
  <1>1. <<CR, LF>> \in Seq(Bytes) /\ s[i] \in Bytes
    BY ByteNames
  <1> QED BY <1>1 DEF CrlfNext

\* c is the function for the first n bytes.
Unfolds(s, n, c) ==
    /\ c \in [0 .. n -> Seq(Bytes)] /\ c[0] = <<>>
    /\ \A i \in 1 .. n : c[i] = CrlfNext(s, i, c[i-1])

LEMMA LongerUnfolds ==
    ASSUME NEW s \in Seq(Bytes), NEW n \in 1 .. Len(s), NEW c, Unfolds(s, n - 1, c)
    PROVE  \E d : Unfolds(s, n, d)
  <1> DEFINE e == CrlfNext(s, n, c[n-1])
             d == [i \in 0 .. n |-> IF i = n THEN e ELSE c[i]]
  <1>1. c \in [0 .. n - 1 -> Seq(Bytes)] /\ c[0] = <<>> /\ n - 1 \in 0 .. n - 1
    BY DEF Unfolds
  <1>2. e \in Seq(Bytes)
    BY <1>1, CrlfNextType
  <1>3. d[n] = e /\ d[n-1] = c[n-1] /\ \A i \in 0 .. n - 1 : d[i] = c[i]
    BY <1>1
  <1>4. d \in [0 .. n -> Seq(Bytes)]
    <2> HIDE DEF e
    <2>1. \A i \in 0 .. n : i # n => c[i] \in Seq(Bytes)
      BY <1>1
    <2> QED BY <1>2, <2>1
  <1>5. ASSUME NEW i \in 1 .. n
        PROVE  d[i] = CrlfNext(s, i, d[i-1])
    <2>1. CASE i = n
      BY <1>3, <2>1
    <2>2. CASE i # n
      <3>1. i \in 1 .. n - 1 /\ i \in 0 .. n - 1 /\ i - 1 \in 0 .. n - 1
        BY <2>2
      <3>2. d[i] = c[i] /\ d[i-1] = c[i-1]
        BY <1>3, <3>1
      <3> QED BY <3>1, <3>2 DEF Unfolds
    <2> QED BY <2>1, <2>2
  <1>6. d[0] = <<>>
    BY <1>1, <1>3
  <1> HIDE DEF d
  <1>7. Unfolds(s, n, d)
    BY <1>4, <1>5, <1>6 DEF Unfolds
  <1> QED BY <1>7

LEMMA SomeUnfolds ==
    ASSUME NEW s \in Seq(Bytes)
    PROVE  \A n \in 0 .. Len(s) : \E c : Unfolds(s, n, c)
  <1> DEFINE T == { n \in 0 .. Len(s) : ~ \E c : Unfolds(s, n, c) }
  <1>1. T \in SUBSET Nat
    OBVIOUS
  <1>2. ASSUME T # {}
        PROVE  FALSE
    <2>1. PICK m \in T : \A k \in T : m <= k
      BY <1>1, <1>2, LeastExists
    <2>2. m \in 0 .. Len(s) /\ ~ \E c : Unfolds(s, m, c)
      BY <2>1
    <2>3. m # 0
      <3> SUFFICES ASSUME m = 0 PROVE FALSE
        OBVIOUS
      <3> DEFINE c == [i \in 0 .. 0 |-> <<>>]
      <3>1. c \in [0 .. 0 -> Seq(Bytes)] /\ c[0] = <<>>
        OBVIOUS
      <3>2. Unfolds(s, 0, c)
        BY <3>1 DEF Unfolds
      <3> QED BY <2>2, <3>2
    <2>4. m \in 1 .. Len(s) /\ m - 1 \in 0 .. Len(s) /\ m - 1 \notin T
      BY <2>1, <2>2, <2>3
    <2>5. PICK c : Unfolds(s, m - 1, c)
      BY <2>4
    <2> QED BY <2>2, <2>4, <2>5, LongerUnfolds
  <1> QED BY <1>2

\* The recursion of Crlf, byte by byte.
LEMMA SentUnfolds ==
    ASSUME NEW s \in Seq(Bytes)
    PROVE  Unfolds(s, Len(s), SentUpTo(s))
  <1>1. Len(s) \in Nat /\ Len(s) \in 0 .. Len(s)
    OBVIOUS
  <1>2. PICK c : Unfolds(s, Len(s), c)
    BY <1>1, SomeUnfolds
  <1>3. c = [i \in 0 .. Len(s) |-> IF i = 0 THEN <<>> ELSE CrlfNext(s, i, c[i-1])]
    <2>1. c \in [0 .. Len(s) -> Seq(Bytes)] /\ c[0] = <<>>
          /\ \A i \in 1 .. Len(s) : c[i] = CrlfNext(s, i, c[i-1])
      BY <1>2 DEF Unfolds
    <2>2. \A i \in 0 .. Len(s) : c[i] = IF i = 0 THEN <<>> ELSE CrlfNext(s, i, c[i-1])
      BY <1>1, <2>1
    <2> QED BY <2>1, <2>2
  <1> DEFINE g == SentUpTo(s)
  <1>4. g = [i \in 0 .. Len(s) |-> IF i = 0 THEN <<>> ELSE CrlfNext(s, i, g[i-1])]
    BY <1>3 DEF SentUpTo
  <1> HIDE DEF g
  <1>5. g = c
    <2> DEFINE T == { i \in 0 .. Len(s) : g[i] # c[i] }
    <2>1. T \in SUBSET Nat
      OBVIOUS
    <2>2. ASSUME T # {}
          PROVE  FALSE
      <3>1. PICK m \in T : \A k \in T : m <= k
        BY <2>1, <2>2, LeastExists
      <3>2. m \in 0 .. Len(s) /\ g[m] # c[m]
        BY <3>1
      <3>3. /\ g[m] = IF m = 0 THEN <<>> ELSE CrlfNext(s, m, g[m-1])
            /\ c[m] = IF m = 0 THEN <<>> ELSE CrlfNext(s, m, c[m-1])
        BY <1>3, <1>4, <3>2
      <3>4. m # 0
        BY <3>2, <3>3
      <3>5. m - 1 \in 0 .. Len(s) /\ ~(m <= m - 1)
        BY <3>2, <3>4
      <3>6. g[m-1] = c[m-1]
        BY <3>1, <3>5
      <3> QED BY <3>2, <3>3, <3>4, <3>6
    <2>3. \A i \in 0 .. Len(s) : g[i] = c[i]
      BY <2>2
    <2>4. DOMAIN g = 0 .. Len(s) /\ DOMAIN c = 0 .. Len(s)
      BY <1>3, <1>4
    <2> QED BY <1>3, <1>4, <2>3, <2>4
  <1> QED BY <1>2, <1>5 DEF g

\* What is sent and what is about to be, up to the place where the loop looks.
FlushInv ==
    /\ phase \in {"read", "bytes", "process_input"} => p = 1 /\ seg_start = 1 /\ shown = <<>>
    /\ phase = "flush" =>
         /\ p <= Len(output.data) + 1
         /\ shown \o SubSeq(output.data, seg_start, p - 1) = SentUpTo(output.data)[p - 1]

\* Sequences that grow by one, or are put in a row.
LEMMA LongerPart ==
    ASSUME NEW s \in Seq(Bytes), NEW t \in Seq(Bytes), NEW n \in 1 .. Len(s), NEW m \in 1 .. n
    PROVE  t \o SubSeq(s, m, n) = Append(t \o SubSeq(s, m, n - 1), s[n])
  <1>1. SubSeq(s, m, n) = SubSeq(s, m, n - 1) \o <<s[n]>>
    <2>1. m \in 1 .. Len(s) /\ n \in m .. Len(s)
      OBVIOUS
    <2> QED BY <2>1, SubSeqRecursiveSecond
  <1>2. SubSeq(s, m, n - 1) \in Seq(Bytes) /\ s[n] \in Bytes
    OBVIOUS
  <1> DEFINE u == SubSeq(s, m, n - 1)
  <1> HIDE DEF u
  <1>3. t \o (u \o <<s[n]>>) = Append(t \o u, s[n])
    BY <1>2 DEF u
  <1> QED BY <1>1, <1>3 DEF u

LEMMA FlushTypeFacts ==
    ASSUME TypeOK
    PROVE  /\ output.data \in Seq(Bytes) /\ Len(output.data) \in Nat
           /\ shown \in Seq(Bytes) /\ p \in Nat \ {0} /\ seg_start \in 1 .. p
  <1>1. output.data \in Seq(Bytes)
    BY DEF TypeOK, DynamicBuffer
  <1>2. Len(output.data) \in Nat
    BY <1>1
  <1> QED BY <1>1, <1>2 DEF TypeOK

\* A byte of the output is looked at.
LEMMA LookSteps ==
    ASSUME TypeOK, FlushInv, SendUpTo \/ Pass
    PROVE  FlushInv'
  <1> DEFINE s == output.data
             before == shown \o SubSeq(s, seg_start, p - 1)
  <1>1. /\ s \in Seq(Bytes) /\ Len(s) \in Nat /\ shown \in Seq(Bytes)
        /\ p \in 1 .. Len(s) /\ seg_start \in 1 .. p
    BY FlushTypeFacts DEF SendUpTo, Pass
  <1>2. /\ phase = "flush" /\ phase' = "flush" /\ UNCHANGED output /\ p' = p + 1
        /\ before = SentUpTo(s)[p - 1]
    BY DEF SendUpTo, Pass, FlushInv
  <1>3. SentUpTo(s)[p] = CrlfNext(s, p, before)
    BY <1>1, <1>2, SentUnfolds DEF Unfolds
  <1>4. p' <= Len(s) + 1 /\ p' - 1 = p
    BY <1>1, <1>2
  <1>5. shown' \o SubSeq(s, seg_start', p) = CrlfNext(s, p, before)
    <2>1. CASE SendUpTo
      <3>1. /\ shown' = before \o <<CR, LF>> /\ seg_start' = p + 1
            /\ s[p] = LF /\ (p > 1 => s[p-1] # CR)
        BY <2>1 DEF SendUpTo, BareNewline
      <3>2. CrlfNext(s, p, before) = shown'
        <4>1. s[p] = LF /\ (p = 1 \/ s[p-1] # CR)
          BY <1>1, <3>1
        <4> HIDE DEF s, before
        <4> QED BY <3>1, <4>1, Zenon DEF CrlfNext
      <3>3. SubSeq(s, p + 1, p) = <<>>
        BY <1>1
      <3>4. shown' \in Seq(Bytes)
        BY <2>1, FlushTypes DEF TypeOK
      <3>5. shown' \o <<>> = shown'
        BY <3>4
      <3> QED BY <3>1, <3>2, <3>3, <3>5
    <2>2. CASE Pass
      <3>1. /\ UNCHANGED <<shown, seg_start>>
            /\ ~(s[p] = LF /\ (p > 1 => s[p-1] # CR))
        BY <2>2 DEF Pass, BareNewline
      <3>2. CrlfNext(s, p, before) = Append(before, s[p])
        <4>1. ~(s[p] = LF /\ (p = 1 \/ s[p-1] # CR))
          BY <1>1, <3>1
        <4> HIDE DEF s, before
        <4> QED BY <4>1, Zenon DEF CrlfNext
      <3> HIDE DEF s
      <3>3. shown \o SubSeq(s, seg_start, p) = Append(shown \o SubSeq(s, seg_start, p - 1), s[p])
        BY <1>1, LongerPart
      <3> QED BY <3>1, <3>2, <3>3
    <2> QED BY <2>1, <2>2
  <1>6. shown' \o SubSeq(s, seg_start', p' - 1) = SentUpTo(s)[p' - 1]
    BY <1>3, <1>4, <1>5
  <1> QED BY <1>2, <1>4, <1>6 DEF FlushInv

\* What is left when the loop ends.
LEMMA RestSent ==
    ASSUME TypeOK, FlushInv, SendRest
    PROVE  FlushInv'
  <1> DEFINE s == output.data
  <1>1. s \in Seq(Bytes) /\ Len(s) \in Nat /\ shown' \in Seq(Bytes)
    BY FlushTypeFacts, FlushTypes DEF TypeOK
  <1>2. /\ phase = "flush" /\ phase' = "flush" /\ UNCHANGED <<output, p>>
        /\ p > Len(s) /\ p <= Len(s) + 1 /\ p \in Nat
        /\ shown \o SubSeq(s, seg_start, p - 1) = SentUpTo(s)[p - 1]
        /\ shown' = shown \o SubSeq(s, seg_start, Len(s)) /\ seg_start' = Len(s) + 1
    BY FlushTypeFacts DEF SendRest, FlushInv
  <1>3. p = Len(s) + 1 /\ p - 1 = Len(s)
    BY <1>1, <1>2
  <1>4. SubSeq(s, Len(s) + 1, Len(s)) = <<>>
    BY <1>1
  <1>5. shown' \o <<>> = shown'
    BY <1>1
  <1>6. shown' \o SubSeq(s, seg_start', p' - 1) = SentUpTo(s)[p' - 1]
    BY <1>2, <1>3, <1>4, <1>5
  <1> QED BY <1>2, <1>6 DEF FlushInv

\* The flush begins before the first byte.
LEMMA FlushBegins ==
    ASSUME TypeOK', p' = 1, seg_start' = 1, shown' = <<>>
    PROVE  FlushInv'
  <1>1. output'.data \in Seq(Bytes) /\ Len(output'.data) \in Nat
    <2>1. output'.data \in Seq(Bytes)
      BY DEF TypeOK, DynamicBuffer
    <2> QED BY <2>1
  <1>2. SentUpTo(output'.data)[0] = <<>>
    BY <1>1, SentUnfolds DEF Unfolds
  <1>3. SubSeq(output'.data, 1, 0) = <<>> /\ <<>> \o <<>> = <<>>
    BY <1>1
  <1>4. p' - 1 = 0 /\ p' <= Len(output'.data) + 1
    BY <1>1
  <1>5. shown' \o SubSeq(output'.data, seg_start', p' - 1) = SentUpTo(output'.data)[p' - 1]
    BY <1>2, <1>3, <1>4
  <1> QED BY <1>4, <1>5 DEF FlushInv

LEMMA FlushStep ==
    ASSUME TypeOK, FlushInv, [Next]_vars
    PROVE  FlushInv'
  <1>0. TypeOK'
    BY TypeStep
  <1>1. CASE SendUpTo \/ Pass
    BY <1>1, LookSteps
  <1>2. CASE SendRest
    BY <1>2, RestSent
  <1>3. CASE Flushed \/ Gc
    BY <1>0, <1>3, FlushBegins DEF Flushed, Gc, Reconnected
  <1>4. CASE FlushFails \/ ReadEnds
    BY <1>4 DEF FlushFails, ReadEnds, FlushInv
  <1>5. ASSUME phase \in {"read", "bytes", "process_input"}, UNCHANGED flushVars
        PROVE  FlushInv'
    BY <1>0, <1>5, FlushBegins DEF flushVars, FlushInv
  <1>6. CASE Client \/ NothingToRead \/ Read \/ EndRead \/ NextLine \/ NoLine \/ Overhear
    BY <1>5, <1>6 DEF Client, Type, Enter, Negotiate, Subnegotiate, Nop, Command, Sends,
                      NothingToRead, Read, EndRead, NextLine, NoLine, Overhear
  <1>7. ASSUME NEW b \in Bytes, Byte(b)
        PROVE  FlushInv'
    BY <1>5, <1>7 DEF Byte, SkipByte, AppendByte, LongLine, EndLine, EndLongLine, TextByte, TakeByte
  <1>8. CASE UNCHANGED vars
    BY <1>8 DEF vars, flushVars, FlushInv
  <1> QED BY <1>1, <1>2, <1>3, <1>4, <1>6, <1>7, <1>8 DEF Next, Tick

\* A flush that empties the output has sent the client all of it, each byte once
\* and in order, a newline that no CR precedes as CR LF, wherever the newlines
\* are (telnet_conn_flush).
THEOREM FlushSendsAll == Spec => SentAsWritten
  <1>1. Init => FlushInv
    <2> SUFFICES ASSUME Init
                 PROVE  FlushInv
      OBVIOUS
    <2> QED BY DEF Init, FlushInv
  <1>2. TypeOK /\ FlushInv /\ [Next]_vars => FlushInv'
    BY FlushStep
  <1>3. ASSUME TypeOK, FlushInv, [Next]_vars
        PROVE  [phase = "flush" /\ phase' = "read" => shown = Crlf(output.data)]_vars
    <2> SUFFICES ASSUME Next, phase = "flush", phase' = "read"
                 PROVE  shown = Crlf(output.data)
      BY <1>3
    <2>1. Flushed
      BY DEF Next, Client, Type, Enter, Negotiate, Subnegotiate, Nop, Command, Sends, Tick,
             NothingToRead, Read, Byte, SkipByte, AppendByte, LongLine, EndLine, EndLongLine,
             TextByte, TakeByte, EndRead, NextLine, NoLine, SendUpTo, Pass, SendRest,
             ReadEnds, Overhear, FlushFails, Gc
    <2> DEFINE s == output.data
    <2>2. s \in Seq(Bytes) /\ Len(s) \in Nat /\ shown \in Seq(Bytes)
      BY <1>3, FlushTypeFacts
    <2>3. /\ p = Len(s) + 1 /\ seg_start = Len(s) + 1
          /\ shown \o SubSeq(s, seg_start, p - 1) = SentUpTo(s)[p - 1]
      BY <1>3, <2>1, <2>2, FlushTypeFacts DEF Flushed, FlushInv
    <2>4. shown \o SubSeq(s, Len(s) + 1, Len(s)) = SentUpTo(s)[Len(s)]
      BY <2>2, <2>3
    <2>5. SubSeq(s, Len(s) + 1, Len(s)) = <<>> /\ shown \o <<>> = shown
      BY <2>2
    <2> QED BY <2>4, <2>5, CrlfIsSent
  <1> QED BY <1>1, <1>2, <1>3, TypeCorrect, PTL DEF Spec, SentAsWritten

-----------------------------------------------------------------------------
(* The data that bytes carry.                                                *)

\* What one byte adds to the line, in the telnet state q.
Data(q, b) == IF IsData(q, b) /\ b # CR THEN <<b>> ELSE <<>>

\* st: the telnet states around the bytes of s; left: the data from each on.
Reads(s, st, left) ==
    /\ st \in [0 .. Len(s) -> TelnetStates] /\ left \in [0 .. Len(s) -> Seq(Bytes)]
    /\ left[Len(s)] = <<>>
    /\ \A i, j \in 0 .. Len(s) :
         j = i + 1 => st[j] = NextState(st[i], s[j]) /\ left[i] = Data(st[i], s[j]) \o left[j]

\* From state q, the bytes s carry the data d and lead to state r.
Carries(q, s, d, r) ==
    \E st, left : Reads(s, st, left) /\ st[0] = q /\ left[0] = d /\ st[Len(s)] = r

LEMMA Regroup == \A x, y, z \in Seq(Bytes) : (x \o y) \o z = x \o (y \o z)
  BY ConcatAssociative

Regrouped(x, y, z) == (x \o y) \o z = x \o (y \o z)

LEMMA Regroupings == \A x, y, z \in Seq(Bytes) : Regrouped(x, y, z)
  BY Regroup DEF Regrouped

LEMMA DataType == ASSUME NEW q, NEW b \in Bytes PROVE Data(q, b) \in Seq(Bytes)
  BY DEF Data

LEMMA DataGroups ==
    ASSUME NEW q, NEW b \in Bytes, NEW x \in Seq(Bytes), NEW y \in Seq(Bytes)
    PROVE  (Data(q, b) \o x) \o y = Data(q, b) \o (x \o y)
  <1>1. Data(q, b) \in Seq(Bytes)
    BY DataType
  <1> QED BY <1>1, Regroup

LEMMA CarriesTypes ==
    ASSUME NEW s \in Seq(Bytes), NEW q, NEW d, NEW r, Carries(q, s, d, r)
    PROVE  q \in TelnetStates /\ r \in TelnetStates /\ d \in Seq(Bytes)
  <1>1. PICK st, left : Reads(s, st, left) /\ st[0] = q /\ left[0] = d /\ st[Len(s)] = r
    BY DEF Carries
  <1>2. 0 \in 0 .. Len(s) /\ Len(s) \in 0 .. Len(s)
    OBVIOUS
  <1> QED BY <1>1, <1>2 DEF Reads

LEMMA NothingCarried ==
    ASSUME NEW q \in TelnetStates
    PROVE  Carries(q, <<>>, <<>>, q)
  <1> DEFINE st   == [i \in 0 .. 0 |-> q]
             left == [i \in 0 .. 0 |-> <<>>]
  <1>1. Reads(<<>>, st, left)
    BY DEF Reads
  <1>2. st[0] = q /\ left[0] = <<>> /\ Len(<<>>) = 0
    OBVIOUS
  <1> HIDE DEF st, left
  <1> QED BY <1>1, <1>2 DEF Carries

LEMMA NothingLeft ==
    ASSUME NEW q, NEW d, NEW r, Carries(q, <<>>, d, r)
    PROVE  d = <<>> /\ q = r
  BY DEF Carries, Reads

LEMMA ByteCarries ==
    ASSUME NEW q \in TelnetStates, NEW b \in Bytes
    PROVE  Carries(q, <<b>>, Data(q, b), NextState(q, b))
  <1> DEFINE st   == [i \in 0 .. 1 |-> IF i = 0 THEN q ELSE NextState(q, b)]
             left == [i \in 0 .. 1 |-> IF i = 0 THEN Data(q, b) ELSE <<>>]
             s    == <<b>>
  <1>1. Len(s) = 1 /\ s[1] = b
    OBVIOUS
  <1>2. st \in [0 .. 1 -> TelnetStates] /\ st[0] = q /\ st[1] = NextState(q, b)
    BY NextStateType
  <1>3. left \in [0 .. 1 -> Seq(Bytes)] /\ left[0] = Data(q, b) /\ left[1] = <<>>
    BY DataType
  <1>4. Data(q, b) = Data(q, b) \o <<>>
    <2>1. Data(q, b) \in Seq(Bytes)
      BY DataType
    <2> QED BY <2>1
  <1> HIDE DEF st, left, s
  <1>5. Reads(s, st, left)
    <2>1. \A i, j \in 0 .. Len(s) : j = i + 1 => j = 1 /\ i = 0
      BY <1>1
    <2> QED BY <1>1, <1>2, <1>3, <1>4, <2>1 DEF Reads
  <1>6. Carries(q, s, Data(q, b), NextState(q, b))
    BY <1>1, <1>2, <1>3, <1>5 DEF Carries
  <1> QED BY <1>6 DEF s

\* One after the other.
LEMMA BothCarry ==
    ASSUME NEW s \in Seq(Bytes), NEW t \in Seq(Bytes), NEW q, NEW d, NEW r, NEW e, NEW u,
           Carries(q, s, d, r), Carries(r, t, e, u)
    PROVE  Carries(q, s \o t, d \o e, u)
  <1>1. PICK st, left : Reads(s, st, left) /\ st[0] = q /\ left[0] = d /\ st[Len(s)] = r
    BY DEF Carries
  <1>2. PICK st2, left2 : Reads(t, st2, left2) /\ st2[0] = r /\ left2[0] = e /\ st2[Len(t)] = u
    BY DEF Carries
  <1>3. PICK n \in Nat : n = Len(s)
    OBVIOUS
  <1>4. PICK m \in Nat : m = Len(t)
    OBVIOUS
  <1>5. e \in Seq(Bytes)
    BY CarriesTypes
  <1> DEFINE both  == s \o t
             st3   == [i \in 0 .. n + m |-> IF i <= n THEN st[i] ELSE st2[i - n]]
             left3 == [i \in 0 .. n + m |-> IF i <= n THEN left[i] \o e ELSE left2[i - n]]
  <1>6. /\ both \in Seq(Bytes) /\ Len(both) = n + m
        /\ \A i \in 1 .. n : both[i] = s[i]
        /\ \A i \in 1 .. m : both[n + i] = t[i]
    BY <1>3, <1>4
  <1> HIDE DEF both
  <1>7. /\ \A i \in 0 .. n : st[i] \in TelnetStates /\ left[i] \in Seq(Bytes)
        /\ \A i, j \in 0 .. n :
             j = i + 1 => st[j] = NextState(st[i], s[j]) /\ left[i] = Data(st[i], s[j]) \o left[j]
        /\ left[n] = <<>> /\ st[n] = r
    BY <1>1, <1>3 DEF Reads
  <1>8. /\ \A i \in 0 .. m : st2[i] \in TelnetStates /\ left2[i] \in Seq(Bytes)
        /\ \A i, j \in 0 .. m :
             j = i + 1 => st2[j] = NextState(st2[i], t[j]) /\ left2[i] = Data(st2[i], t[j]) \o left2[j]
        /\ left2[m] = <<>> /\ st2[m] = u
    BY <1>2, <1>4 DEF Reads
  <1>9. \A i \in 0 .. n : st3[i] = st[i] /\ left3[i] = left[i] \o e
    OBVIOUS
  <1>10. ASSUME NEW i \in 0 .. m
         PROVE  n + i \in 0 .. n + m /\ st3[n + i] = st2[i] /\ left3[n + i] = left2[i]
    <2>1. n + i \in 0 .. n + m /\ n + i - n = i
      OBVIOUS
    <2>2. CASE i = 0
      <3>0. n \in 0 .. n
        OBVIOUS
      <3>1. st3[n] = r /\ left3[n] = <<>> \o e
        <4> HIDE DEF st3, left3
        <4> QED BY <1>7, <1>9, <3>0
      <3>2. n + i = n
        BY <2>2
      <3> HIDE DEF st3, left3
      <3> QED BY <1>2, <1>5, <2>1, <2>2, <3>1, <3>2
    <2>3. CASE i # 0
      <3>1. ~(n + i <= n)
        BY <2>3
      <3> QED BY <2>1, <3>1
    <2> QED BY <2>2, <2>3
  <1>11. st3 \in [0 .. n + m -> TelnetStates] /\ left3 \in [0 .. n + m -> Seq(Bytes)]
    <2>1. ASSUME NEW i \in 0 .. n + m, ~(i <= n)
          PROVE  i - n \in 0 .. m
      BY <2>1
    <2>2. ASSUME NEW i \in 0 .. n + m, i <= n
          PROVE  i \in 0 .. n
      BY <2>2
    <2>3. \A i \in 0 .. n : left[i] \o e \in Seq(Bytes)
      BY <1>5, <1>7
    <2> QED BY <1>7, <1>8, <2>1, <2>2, <2>3
  <1> HIDE DEF st3, left3
  <1>12. ASSUME NEW i \in 0 .. n + m, NEW j \in 0 .. n + m, j = i + 1
         PROVE  st3[j] = NextState(st3[i], both[j]) /\ left3[i] = Data(st3[i], both[j]) \o left3[j]
    <2>1. CASE j <= n
      <3>1. j \in 1 .. n /\ j \in 0 .. n /\ i \in 0 .. n
        BY <1>12, <2>1
      <3>2. s[j] \in Bytes
        BY <1>3, <3>1
      <3>3. st[j] = NextState(st[i], s[j]) /\ left[i] = Data(st[i], s[j]) \o left[j]
        BY <1>7, <1>12, <3>1
      <3>4. left[i] \o e = Data(st[i], s[j]) \o (left[j] \o e)
        <4>1. PICK x \in Seq(Bytes) : x = left[j]
          BY <1>7, <3>1
        <4>2. PICK b \in Bytes : b = s[j]
          BY <3>2
        <4>3. PICK y : y = st[i]
          OBVIOUS
        <4>4. (Data(y, b) \o x) \o e = Data(y, b) \o (x \o e)
          BY <1>5, DataGroups
        <4> QED BY <3>3, <4>1, <4>2, <4>3, <4>4, Zenon
      <3>5. st3[i] = st[i] /\ left3[i] = left[i] \o e /\ st3[j] = st[j] /\ left3[j] = left[j] \o e
        BY <1>9, <3>1
      <3>6. both[j] = s[j]
        BY <1>6, <3>1
      <3>7. st3[j] = NextState(st3[i], both[j])
        BY <3>3, <3>5, <3>6
      <3>8. Data(st3[i], both[j]) = Data(st[i], s[j])
        BY <3>5, <3>6
      <3>9. left3[i] = Data(st[i], s[j]) \o left3[j]
        BY <3>4, <3>5
      <3> QED BY <3>7, <3>8, <3>9
    <2>2. CASE j > n
      <3>1. PICK k \in 0 .. m : n + k = i
        <4>1. i - n \in 0 .. m /\ n + (i - n) = i
          BY <1>12, <2>2
        <4> QED BY <4>1
      <3>2. PICK h \in 1 .. m : n + h = j /\ h = k + 1
        <4>1. k + 1 \in 1 .. m /\ n + (k + 1) = j
          BY <1>12, <3>1
        <4> QED BY <4>1
      <3>3. h \in 0 .. m
        OBVIOUS
      <3>4. st3[j] = st2[h] /\ left3[j] = left2[h] /\ st3[i] = st2[k] /\ left3[i] = left2[k]
        BY <1>10, <3>1, <3>2, <3>3
      <3>5. both[j] = t[h]
        BY <1>6, <3>2
      <3>6. st2[h] = NextState(st2[k], t[h]) /\ left2[k] = Data(st2[k], t[h]) \o left2[h]
        BY <1>8, <3>2, <3>3
      <3>7. st3[j] = NextState(st3[i], both[j])
        BY <3>4, <3>5, <3>6
      <3>8. Data(st3[i], both[j]) = Data(st2[k], t[h])
        BY <3>4, <3>5
      <3>9. left3[i] = Data(st2[k], t[h]) \o left3[j]
        BY <3>4, <3>6
      <3> QED BY <3>7, <3>8, <3>9
    <2>3. j <= n \/ j > n
      OBVIOUS
    <2> QED BY <2>1, <2>2, <2>3, Zenon
  <1>13. st3[0] = q /\ left3[0] = d \o e
    <2>1. 0 \in 0 .. n
      OBVIOUS
    <2> QED BY <1>1, <1>9, <2>1
  <1>14. st3[n + m] = u /\ left3[n + m] = <<>>
    <2>1. m \in 0 .. m
      OBVIOUS
    <2> QED BY <1>8, <1>10, <2>1
  <1>15. Reads(both, st3, left3)
    BY <1>6, <1>11, <1>12, <1>14 DEF Reads
  <1>16. Carries(q, both, d \o e, u)
    BY <1>6, <1>13, <1>14, <1>15 DEF Carries
  <1> QED BY <1>16 DEF both

\* The first byte is read.
LEMMA FirstRead ==
    ASSUME NEW s \in Seq(Bytes), s # <<>>, NEW q, NEW d, NEW r, Carries(q, s, d, r)
    PROVE  \E e \in Seq(Bytes) : /\ d = Data(q, Head(s)) \o e
                                 /\ Carries(NextState(q, Head(s)), Tail(s), e, r)
  <1>1. PICK st, left : Reads(s, st, left) /\ st[0] = q /\ left[0] = d /\ st[Len(s)] = r
    BY DEF Carries
  <1>2. PICK n \in Nat \ {0} : n = Len(s)
    OBVIOUS
  <1> DEFINE rest == Tail(s)
             st2   == [i \in 0 .. n - 1 |-> st[i + 1]]
             left2 == [i \in 0 .. n - 1 |-> left[i + 1]]
  <1>3. rest \in Seq(Bytes) /\ Len(rest) = n - 1 /\ \A i \in 1 .. n - 1 : rest[i] = s[i + 1]
    BY <1>2
  <1>4. Head(s) = s[1]
    OBVIOUS
  <1> HIDE DEF rest
  <1>5. /\ \A i \in 0 .. n : st[i] \in TelnetStates /\ left[i] \in Seq(Bytes)
        /\ \A i, j \in 0 .. n :
             j = i + 1 => st[j] = NextState(st[i], s[j]) /\ left[i] = Data(st[i], s[j]) \o left[j]
        /\ left[n] = <<>> /\ st[n] = r
    BY <1>1, <1>2 DEF Reads
  <1>6. \A i \in 0 .. n - 1 : i + 1 \in 0 .. n /\ i + 1 \in 1 .. n
    OBVIOUS
  <1>7. st2 \in [0 .. n - 1 -> TelnetStates] /\ left2 \in [0 .. n - 1 -> Seq(Bytes)]
    BY <1>5, <1>6
  <1>8. 0 \in 0 .. n - 1 /\ n - 1 \in 0 .. n - 1 /\ n - 1 + 1 = n /\ 0 + 1 = 1 /\ 1 \in 0 .. n /\ 0 \in 0 .. n
    OBVIOUS
  <1>9. st2[0] = st[1] /\ left2[0] = left[1] /\ st2[n-1] = r /\ left2[n-1] = <<>>
    BY <1>5, <1>8
  <1>10. ASSUME NEW i \in 0 .. n - 1, NEW j \in 0 .. n - 1, j = i + 1
         PROVE  st2[j] = NextState(st2[i], rest[j]) /\ left2[i] = Data(st2[i], rest[j]) \o left2[j]
    <2>1. PICK k \in 1 .. n : k = j + 1
      OBVIOUS
    <2>2. j \in 1 .. n - 1 /\ j \in 0 .. n /\ k \in 0 .. n
      BY <1>10, <2>1
    <2>3. st2[j] = st[k] /\ left2[j] = left[k] /\ st2[i] = st[j] /\ left2[i] = left[j]
      BY <1>10, <2>1
    <2> HIDE DEF st2, left2
    <2>4. rest[j] = s[k]
      BY <1>3, <2>1, <2>2
    <2>5. st[k] = NextState(st[j], s[k]) /\ left[j] = Data(st[j], s[k]) \o left[k]
      BY <1>5, <2>1, <2>2
    <2> QED BY <2>3, <2>4, <2>5
  <1> HIDE DEF st2, left2
  <1>11. Reads(rest, st2, left2)
    BY <1>3, <1>7, <1>9, <1>10 DEF Reads
  <1>12. Carries(st[1], rest, left[1], r)
    BY <1>3, <1>9, <1>11 DEF Carries
  <1>13. st[1] = NextState(q, s[1]) /\ d = Data(q, s[1]) \o left[1] /\ left[1] \in Seq(Bytes)
    BY <1>1, <1>5, <1>8
  <1> QED BY <1>4, <1>12, <1>13 DEF rest

-----------------------------------------------------------------------------
(* What the client types and sends.                                          *)

LEMMA ThenByte ==
    ASSUME NEW q, NEW s \in Seq(Bytes), NEW d, NEW r, Carries(q, s, d, r), NEW b \in Bytes
    PROVE  Carries(q, Append(s, b), d \o Data(r, b), NextState(r, b))
  <1>1. r \in TelnetStates
    BY CarriesTypes
  <1>2. Carries(r, <<b>>, Data(r, b), NextState(r, b))
    BY <1>1, ByteCarries
  <1>3. <<b>> \in Seq(Bytes) /\ s \o <<b>> = Append(s, b)
    OBVIOUS
  <1>4. Carries(q, s \o <<b>>, d \o Data(r, b), NextState(r, b))
    BY <1>2, <1>3, BothCarry
  <1> QED BY <1>3, <1>4

\* Bytes that carry no data.
SilentTo(s, r) == s \in Seq(Bytes) /\ Carries("DATA", s, <<>>, r)

LEMMA ThenSilent ==
    ASSUME NEW s, NEW r, SilentTo(s, r),
           NEW b \in Bytes, Data(r, b) = <<>>, NEW u, u = NextState(r, b)
    PROVE  SilentTo(Append(s, b), u)
  <1>1. <<>> \o <<>> = <<>> /\ s \in Seq(Bytes) /\ Append(s, b) \in Seq(Bytes)
    BY DEF SilentTo
  <1>2. Carries("DATA", Append(s, b), <<>> \o Data(r, b), NextState(r, b))
    BY <1>1, ThenByte DEF SilentTo
  <1> QED BY <1>1, <1>2 DEF SilentTo

LEMMA SomeBytes ==
    /\ \A a, b : <<a, b>> = Append(<<a>>, b)
    /\ \A a, b, c : <<a, b, c>> = Append(Append(<<a>>, b), c)
    /\ \A a, b, c, d, e, f, g, h :
         <<a, b, c, d, e, f, g, h>> =
           Append(Append(Append(Append(Append(Append(Append(<<a>>, b), c), d), e), f), g), h)
  OBVIOUS

\* In these states a byte is no data.
LEMMA Silent ==
    /\ \A b : Data("COMMAND", b) = <<>> /\ Data("SB", b) = <<>>
              /\ Data("SB_DATA", b) = <<>> /\ Data("SB_IAC", b) = <<>>
    /\ Data("DATA", IAC) = <<>> /\ Data("DATA", CR) = <<>>
    /\ \A b : b # IAC => Data("IAC", b) = <<>>
  BY DEF Data, IsData

LEMMA States ==
    /\ NextState("DATA", IAC) = "IAC" /\ NextState("DATA", CR) = "DATA" /\ NextState("DATA", LF) = "DATA"
    /\ \A b \in Negotiations : NextState("IAC", b) = "COMMAND"
    /\ NextState("IAC", SB) = "SB" /\ NextState("IAC", "NOP") = "DATA"
    /\ \A b : NextState("COMMAND", b) = "DATA" /\ NextState("SB", b) = "SB_DATA"
    /\ NextState("SB_DATA", IAC) = "SB_IAC" /\ NextState("SB_IAC", IAC) = "SB_DATA"
    /\ \A b : b # IAC => NextState("SB_DATA", b) = "SB_DATA"
    /\ NextState("SB_IAC", SE) = "DATA"
  BY DEF NextState, Negotiations, IAC, SB, SE, CR, LF

LEMMA Begins == SilentTo(<<IAC>>, "IAC") /\ SilentTo(<<CR>>, "DATA")
  <1>1. "DATA" \in TelnetStates /\ IAC \in Bytes /\ CR \in Bytes
    BY ByteNames DEF TelnetStates
  <1>2. Carries("DATA", <<IAC>>, Data("DATA", IAC), NextState("DATA", IAC))
    BY <1>1, ByteCarries
  <1>3. Carries("DATA", <<CR>>, Data("DATA", CR), NextState("DATA", CR))
    BY <1>1, ByteCarries
  <1>4. <<IAC>> \in Seq(Bytes) /\ <<CR>> \in Seq(Bytes)
    BY <1>1
  <1> QED BY <1>2, <1>3, <1>4, Silent, States DEF SilentTo

LEMMA CharCarries ==
    ASSUME NEW c \in Chars
    PROVE  LET bytes == IF c = IAC THEN <<IAC, IAC>> ELSE <<c>> IN
           bytes \in Seq(Bytes) /\ Carries("DATA", bytes, <<c>>, "DATA")
  <1>0. "DATA" \in TelnetStates /\ c \in Bytes /\ IAC \in Bytes /\ c # CR /\ IAC # CR
    BY ByteNames, StreamAssumption DEF TelnetStates, IAC, CR
  <1>1. CASE c = IAC
    <2>1. Data("IAC", IAC) = <<IAC>> /\ NextState("IAC", IAC) = "DATA"
      BY <1>0 DEF Data, IsData, NextState, Negotiations, IAC, SB
    <2>2. Carries("DATA", Append(<<IAC>>, IAC), <<>> \o Data("IAC", IAC), NextState("IAC", IAC))
      BY <1>0, Begins, ThenByte DEF SilentTo
    <2>3. <<>> \o <<IAC>> = <<IAC>>
      OBVIOUS
    <2>4. Carries("DATA", <<IAC, IAC>>, <<IAC>>, "DATA")
      BY <2>1, <2>2, <2>3, SomeBytes
    <2> QED BY <1>0, <1>1, <2>4
  <1>2. CASE c # IAC
    <2>1. Data("DATA", c) = <<c>> /\ NextState("DATA", c) = "DATA"
      BY <1>0, <1>2 DEF Data, IsData, NextState
    <2>2. Carries("DATA", <<c>>, Data("DATA", c), NextState("DATA", c))
      BY <1>0, ByteCarries
    <2> QED BY <1>0, <1>2, <2>1, <2>2
  <1> QED BY <1>1, <1>2

\* Whatever a client sends of telnet commands leads back to data.
IsCommand(bytes) == SilentTo(bytes, "DATA")

LEMMA NopCarries == IsCommand(<<IAC, "NOP">>)
  <1>1. "NOP" \in Bytes /\ "NOP" # IAC
    BY ByteNames DEF IAC
  <1>2. SilentTo(Append(<<IAC>>, "NOP"), "DATA")
    BY <1>1, Begins, Silent, States, ThenSilent
  <1> QED BY <1>2, SomeBytes DEF IsCommand

LEMMA NegotiationCarries ==
    ASSUME NEW cmd \in Offers, NEW opt \in Options
    PROVE  IsCommand(<<IAC, cmd, opt>>)
  <1>1. cmd \in Negotiations /\ cmd \in Bytes /\ opt \in Bytes /\ cmd # IAC
    BY ByteNames, StreamAssumption DEF Negotiations, IAC
  <1>2. SilentTo(Append(<<IAC>>, cmd), "COMMAND")
    BY <1>1, Begins, Silent, States, ThenSilent
  <1>3. SilentTo(Append(Append(<<IAC>>, cmd), opt), "DATA")
    BY <1>1, <1>2, Silent, States, ThenSilent
  <1>4. <<IAC, cmd, opt>> = Append(Append(<<IAC>>, cmd), opt)
    BY SomeBytes
  <1> QED BY <1>3, <1>4 DEF IsCommand

LEMMA SubnegotiationCarries ==
    ASSUME NEW opt \in Options, NEW x \in Options \ {IAC}
    PROVE  IsCommand(<<IAC, SB, opt, IAC, IAC, x, IAC, SE>>)
  <1>1. /\ IAC \in Bytes /\ SB \in Bytes /\ SE \in Bytes /\ opt \in Bytes /\ x \in Bytes
        /\ SB # IAC /\ SE # IAC /\ x # IAC
    BY ByteNames DEF IAC, SB, SE
  <1> DEFINE s1 == <<IAC>>
             s2 == Append(s1, SB)
             s3 == Append(s2, opt)
             s4 == Append(s3, IAC)
             s5 == Append(s4, IAC)
             s6 == Append(s5, x)
             s7 == Append(s6, IAC)
             s8 == Append(s7, SE)
  <1>2. <<IAC, SB, opt, IAC, IAC, x, IAC, SE>> = s8
    BY SomeBytes
  <1>3. SilentTo(s2, "SB")
    BY <1>1, Begins, Silent, States, ThenSilent
  <1>4. SilentTo(s3, "SB_DATA")
    <2> HIDE DEF s2
    <2> QED BY <1>1, <1>3, Silent, States, ThenSilent
  <1>5. SilentTo(s4, "SB_IAC")
    <2> HIDE DEF s3
    <2> QED BY <1>1, <1>4, Silent, States, ThenSilent
  <1>6. SilentTo(s5, "SB_DATA")
    <2> HIDE DEF s4
    <2> QED BY <1>1, <1>5, Silent, States, ThenSilent
  <1>7. SilentTo(s6, "SB_DATA")
    <2> HIDE DEF s5
    <2> QED BY <1>1, <1>6, Silent, States, ThenSilent
  <1>8. SilentTo(s7, "SB_IAC")
    <2> HIDE DEF s6
    <2> QED BY <1>1, <1>7, Silent, States, ThenSilent
  <1>9. SilentTo(s8, "DATA")
    <2> HIDE DEF s7
    <2> QED BY <1>1, <1>8, Silent, States, ThenSilent
  <1> HIDE DEF s8
  <1> QED BY <1>2, <1>9 DEF IsCommand

-----------------------------------------------------------------------------
(* The line under way, where a client waits for the end of one.              *)

UnderWay == temp \o socket

\* The bytes of s bring what is missing of the line t, if it is not given up.
Pending(s, t) ==
    \E d \in Seq(Chars) :
        /\ Carries(telnet_state, s, d, "DATA")
        /\ input_discarding => Len(t) >= PLAYER_INPUT_SIZE
        /\ ~input_discarding => t = input_buffer \o d

\* The client has not ended the line it types.
Typing == waiting = <<>> /\ ~input_line_ready /\ Pending(UnderWay, typed)

\* It has, and its newline is the last byte under way.
Ending ==
    /\ typed = <<>> /\ ~begun /\ ~input_line_ready
    /\ \E s \in Seq(Bytes), t \in Seq(Chars) :
         /\ UnderWay = Append(s, LF) /\ Pending(s, t)
         /\ waiting = IF Len(t) < PLAYER_INPUT_SIZE THEN <<t>> ELSE <<>>

\* The line is complete and in the buffer.
Complete ==
    /\ typed = <<>> /\ ~begun /\ input_line_ready /\ ~input_discarding
    /\ temp = <<>> /\ socket = <<>> /\ telnet_state = "DATA"
    /\ \E t \in Seq(Chars) : waiting = <<t>> /\ input_buffer = Append(Trimmed(t), LF)

LineInv ==
    /\ phase # "bytes" => temp = <<>>
    /\ Typing \/ Ending \/ Complete

LEMMA CharSeqs == ASSUME NEW d \in Seq(Chars) PROVE d \in Seq(Bytes)
  BY ByteNames

\* A byte of a line, not its end.
LEMMA ByteOfLine ==
    ASSUME StreamInv, NEW b \in Bytes, Byte(b), NEW s \in Seq(Bytes), s # <<>>, b = Head(s),
           NEW t \in Seq(Chars), Pending(s, t)
    PROVE  /\ b = LF => ~IsData(telnet_state, b)
           /\ temp' = Tail(temp) /\ UNCHANGED input_line_ready
           /\ \E d \in Seq(Chars) :
                /\ Carries(telnet_state', Tail(s), d, "DATA")
                /\ input_discarding' => Len(t) >= PLAYER_INPUT_SIZE
                /\ ~input_discarding' => t = input_buffer' \o d
  <1>1. PICK d \in Seq(Chars) : /\ Carries(telnet_state, s, d, "DATA")
                                /\ input_discarding => Len(t) >= PLAYER_INPUT_SIZE
                                /\ ~input_discarding => t = input_buffer \o d
    BY DEF Pending
  <1>2. PICK e \in Seq(Bytes) : /\ d = Data(telnet_state, b) \o e
                                /\ Carries(NextState(telnet_state, b), Tail(s), e, "DATA")
    BY <1>1, FirstRead
  <1>3. telnet_state' = NextState(telnet_state, b)
    BY DEF Byte, SkipByte, AppendByte, LongLine, EndLine, EndLongLine, TextByte, TakeByte
  <1>4. CASE Data(telnet_state, b) = <<>>
    <2>1. e = d
      BY <1>2, <1>4
    <2>2. ~IsData(telnet_state, b) \/ b = CR
      BY <1>4 DEF Data
    <2>3. SkipByte(b)
      BY <2>2, ByteNames DEF Byte, AppendByte, LongLine, EndLine, EndLongLine, TextByte
    <2>4. temp' = Tail(temp) /\ UNCHANGED <<input_buffer, input_line_ready, input_discarding>>
      BY <2>3 DEF SkipByte
    <2> QED BY <1>1, <1>2, <1>3, <2>1, <2>2, <2>4, ByteNames
  <1>5. CASE Data(telnet_state, b) # <<>>
    <2>1. IsData(telnet_state, b) /\ b # CR /\ Data(telnet_state, b) = <<b>>
      BY <1>5 DEF Data
    <2>2. d = <<b>> \o e /\ e \in Seq(Chars) /\ b \in Chars /\ Len(d) = Len(e) + 1
      <3>1. d = <<b>> \o e
        BY <1>2, <2>1
      <3>2. b = d[1] /\ e = Tail(d) /\ d # <<>> /\ Len(d) = Len(e) + 1
        BY <3>1
      <3> QED BY <3>1, <3>2
    <2>3. b \notin {LF, CR}
      BY <2>2, StreamAssumption
    <2>4. CASE input_discarding
      <3>1. SkipByte(b)
        BY <2>1, <2>3, <2>4 DEF Byte, AppendByte, LongLine, EndLine, EndLongLine
      <3>2. temp' = Tail(temp) /\ UNCHANGED <<input_buffer, input_line_ready, input_discarding>>
        BY <3>1 DEF SkipByte
      <3> QED BY <1>1, <1>2, <1>3, <2>2, <2>3, <2>4, <3>2
    <2>5. CASE ~input_discarding /\ AppendByte(b)
      <3>1. /\ temp' = Tail(temp) /\ input_buffer' = Append(input_buffer, b)
            /\ UNCHANGED <<input_line_ready, input_discarding>>
        BY <2>5 DEF AppendByte
      <3>2. input_buffer \o (<<b>> \o e) = Append(input_buffer, b) \o e
        <4>1. input_buffer \in Seq(Bytes) /\ <<b>> \in Seq(Bytes)
          BY DEF StreamInv, TypeOK
        <4>2. (input_buffer \o <<b>>) \o e = input_buffer \o (<<b>> \o e)
          BY <4>1, Regroup
        <4>3. input_buffer \o <<b>> = Append(input_buffer, b)
          BY <4>1
        <4> QED BY <4>2, <4>3
      <3> QED BY <1>1, <1>2, <1>3, <2>2, <2>3, <2>5, <3>1, <3>2
    <2>6. CASE ~input_discarding /\ LongLine(b)
      <3>1. /\ temp' = Tail(temp) /\ input_discarding' = TRUE /\ UNCHANGED input_line_ready
            /\ Len(input_buffer) >= PLAYER_INPUT_SIZE - 1
        BY <2>6 DEF LongLine
      <3>2. Len(t) >= PLAYER_INPUT_SIZE
        <4>1. t = input_buffer \o d /\ input_buffer \in Seq(Bytes) /\ d \in Seq(Bytes)
          BY <1>1, <2>6, CharSeqs DEF StreamInv, TypeOK
        <4>2. Len(t) = Len(input_buffer) + Len(d) /\ Len(input_buffer) \in Nat /\ Len(e) \in Nat
          BY <4>1
        <4> QED BY <2>2, <3>1, <4>2, StreamAssumption
      <3> QED BY <1>2, <1>3, <2>2, <2>3, <3>1, <3>2
    <2>7. ~input_discarding => AppendByte(b) \/ LongLine(b)
      BY <2>1, <2>3 DEF Byte, SkipByte, EndLine, EndLongLine
    <2> QED BY <2>4, <2>5, <2>6, <2>7
  <1> QED BY <1>4, <1>5

LEMMA NowTyping ==
    ASSUME StreamInv, LineInv, Pipelined = FALSE, NEW bytes, Sends(bytes)
    PROVE  Typing
  <1>1. begun \/ Quiet
    BY DEF Sends
  <1>2. ASSUME Ending
        PROVE  ~Quiet
    <2>1. PICK s \in Seq(Bytes) : UnderWay = Append(s, LF)
      BY <1>2 DEF Ending
    <2>2. UnderWay # <<>>
      BY <2>1
    <2> QED BY <2>2 DEF UnderWay, Quiet
  <1>3. Complete => ~Quiet
    BY DEF Complete, Quiet
  <1> QED BY <1>1, <1>2, <1>3 DEF LineInv, Ending, Complete

\* The client sends the bytes of the characters d.
LEMMA MoreUnderWay ==
    ASSUME StreamInv, Typing, NEW bytes \in Seq(Bytes), Sends(bytes),
           NEW d \in Seq(Chars), Carries("DATA", bytes, d, "DATA")
    PROVE  \E s, t : t = typed \o d /\ UnderWay' = s /\ Pending(s, t)'
  <1>0. PICK s, t : s = UnderWay \o bytes /\ t = typed \o d
    OBVIOUS
  <1>1. /\ temp \in Seq(Bytes) /\ socket \in Seq(Bytes) /\ UnderWay \in Seq(Bytes)
        /\ typed \in Seq(Chars) /\ input_buffer \in Seq(Bytes)
    BY DEF StreamInv, TypeOK, UnderWay
  <1>3. socket' = socket \o bytes /\ UNCHANGED inputVars
    BY DEF Sends
  <1>4. UnderWay' = s
    <2>1. UnderWay' = temp \o (socket \o bytes)
      BY <1>3 DEF UnderWay, inputVars
    <2>2. Regrouped(temp, socket, bytes)
      BY <1>1, Regroupings
    <2>3. temp \o (socket \o bytes) = (temp \o socket) \o bytes
      BY <2>2 DEF Regrouped
    <2> QED BY <1>0, <2>1, <2>3, Zenon DEF UnderWay
  <1>5. PICK w \in Seq(Bytes) : w = UnderWay
    BY <1>1
  <1>6. PICK e \in Seq(Chars) : /\ Carries(telnet_state, w, e, "DATA")
                                /\ input_discarding => Len(typed) >= PLAYER_INPUT_SIZE
                                /\ ~input_discarding => typed = input_buffer \o e
    BY <1>5 DEF Typing, Pending
  <1>7. Carries(telnet_state, w \o bytes, e \o d, "DATA") /\ e \o d \in Seq(Chars)
    BY <1>6, BothCarry
  <1>8. input_discarding => Len(t) >= PLAYER_INPUT_SIZE
    <2>1. Len(t) = Len(typed) + Len(d) /\ Len(typed) \in Nat /\ Len(d) \in Nat
      BY <1>0, <1>1
    <2> QED BY <1>6, <2>1, StreamAssumption
  <1>9. ~input_discarding => t = input_buffer \o (e \o d)
    <2>1. PICK x \in Seq(Bytes), y \in Seq(Bytes), z \in Seq(Bytes) : x = input_buffer /\ y = e /\ z = d
      BY <1>1, CharSeqs
    <2>2. Regrouped(x, y, z)
      BY Regroupings
    <2>3. (x \o y) \o z = x \o (y \o z)
      BY <2>2 DEF Regrouped
    <2> QED BY <1>0, <1>6, <2>1, <2>3, Zenon
  <1>10. telnet_state' = telnet_state /\ input_discarding' = input_discarding /\ input_buffer' = input_buffer
    BY <1>3 DEF inputVars
  <1>11. Carries(telnet_state', s, e \o d, "DATA")
    BY <1>0, <1>5, <1>7, <1>10
  <1> QED BY <1>0, <1>4, <1>7, <1>8, <1>9, <1>10, <1>11 DEF Pending

LEMMA JoinedType == \A x, y \in Seq(Bytes) : x \o y \in Seq(Bytes)
  OBVIOUS

LEMMA LineEndJoined ==
    ASSUME NEW x \in Seq(Bytes), NEW y \in Seq(Bytes)
    PROVE  x \o (y \o <<CR, LF>>) = Append((x \o y) \o <<CR>>, LF)
  <1>1. PICK c \in Bytes, l \in Bytes : c = CR /\ l = LF
    BY ByteNames
  <1>2. <<c>> \in Seq(Bytes) /\ <<l>> \in Seq(Bytes) /\ <<c, l>> = <<c>> \o <<l>>
    <2>1. <<c>> \in Seq(Bytes) /\ <<l>> \in Seq(Bytes)
      OBVIOUS
    <2>2. <<c>> \o <<l>> = Append(<<c>>, l)
      BY <2>1
    <2> QED BY <2>1, <2>2, SomeBytes
  <1>3. y \o (<<c>> \o <<l>>) = (y \o <<c>>) \o <<l>> /\ y \o <<c>> \in Seq(Bytes)
    BY <1>2, Regroup
  <1>4. x \o ((y \o <<c>>) \o <<l>>) = (x \o (y \o <<c>>)) \o <<l>>
    BY <1>2, <1>3, Regroup
  <1>5. x \o (y \o <<c>>) = (x \o y) \o <<c>>
    BY <1>2, Regroup
  <1>6. ((x \o y) \o <<c>>) \o <<l>> = Append((x \o y) \o <<c>>, l)
    <2>1. (x \o y) \o <<c>> \in Seq(Bytes)
      BY <1>2, JoinedType
    <2> QED BY <2>1
  <1> QED BY <1>1, <1>2, <1>3, <1>4, <1>5, <1>6

LEMMA ClientLine ==
    ASSUME StreamInv, LineInv, Pipelined = FALSE, Client
    PROVE  LineInv'
  <1>1. typed \in Seq(Chars) /\ UnderWay \in Seq(Bytes)
    BY DEF StreamInv, TypeOK, UnderWay
  <1>2. ASSUME NEW bytes, Sends(bytes)
        PROVE  /\ Typing /\ temp' = <<>> /\ UNCHANGED input_line_ready
    <2>1. Typing
      BY <1>2, NowTyping
    <2>2. phase = "read" /\ UNCHANGED inputVars
      BY <1>2 DEF Sends
    <2> QED BY <2>1, <2>2 DEF LineInv, inputVars
  <1>3. ASSUME NEW bytes \in Seq(Bytes), NEW d \in Seq(Chars), Sends(bytes),
               Carries("DATA", bytes, d, "DATA"), typed' = typed \o d, waiting' = waiting
        PROVE  LineInv'
    <2>1. Typing /\ temp' = <<>> /\ UNCHANGED input_line_ready
      BY <1>2, <1>3
    <2>2. PICK s, t : t = typed \o d /\ UnderWay' = s /\ Pending(s, t)'
      BY <1>3, <2>1, MoreUnderWay
    <2>4. Typing'
      BY <1>3, <2>1, <2>2 DEF Typing
    <2> QED BY <2>1, <2>4 DEF LineInv
  <1>4. ASSUME NEW c \in Chars, Type(c)
        PROVE  LineInv'
    <2>1. PICK bytes : bytes = IF c = IAC THEN <<IAC, IAC>> ELSE <<c>>
      OBVIOUS
    <2>2. bytes \in Seq(Bytes) /\ Carries("DATA", bytes, <<c>>, "DATA")
      BY <2>1, CharCarries
    <2>3. Sends(bytes) /\ typed' = Append(typed, c) /\ waiting' = waiting
      BY <1>4, <2>1 DEF Type
    <2>4. typed' = typed \o <<c>> /\ <<c>> \in Seq(Chars)
      BY <1>1, <2>3
    <2> QED BY <1>3, <2>2, <2>3, <2>4
  <1>5. ASSUME NEW bytes, IsCommand(bytes), Command(bytes)
        PROVE  LineInv'
    <2>1. bytes \in Seq(Bytes) /\ Carries("DATA", bytes, <<>>, "DATA") /\ <<>> \in Seq(Chars)
      BY <1>5 DEF IsCommand, SilentTo
    <2>2. Sends(bytes) /\ typed' = typed \o <<>> /\ waiting' = waiting
      BY <1>1, <1>5 DEF Command
    <2> QED BY <1>3, <2>1, <2>2
  <1>6. CASE Negotiate \/ Subnegotiate \/ Nop
    BY <1>5, <1>6, NegotiationCarries, SubnegotiationCarries, NopCarries
    DEF Negotiate, Subnegotiate, Nop
  <1>7. CASE Enter
    <2>1. Sends(<<CR, LF>>) /\ typed' = <<>> /\ begun' = FALSE
      BY <1>7 DEF Enter
    <2>2. Typing /\ temp' = <<>> /\ UNCHANGED input_line_ready /\ waiting = <<>>
      BY <1>2, <2>1 DEF Typing
    <2>3. socket' = socket \o <<CR, LF>> /\ UNCHANGED inputVars
      BY <2>1 DEF Sends
    <2>4. PICK s \in Seq(Bytes) : s = UnderWay \o <<CR>>
      <3>1. UnderWay \o <<CR>> \in Seq(Bytes)
        BY <1>1, Begins, JoinedType, Zenon DEF SilentTo
      <3> QED BY <3>1
    <2>5. UnderWay' = Append(s, LF)
      <3>1. temp \in Seq(Bytes) /\ socket \in Seq(Bytes)
        BY DEF StreamInv, TypeOK
      <3>2. temp \o (socket \o <<CR, LF>>) = Append((temp \o socket) \o <<CR>>, LF)
        BY <3>1, LineEndJoined, Zenon
      <3> QED BY <2>3, <2>4, <3>2 DEF UnderWay, inputVars
    <2>6. PICK t \in Seq(Chars) : t = typed
      BY <1>1
    <2>7. Pending(s, t)'
      <3>1. PICK w \in Seq(Bytes) : w = UnderWay
        BY <1>1
      <3>2. PICK e \in Seq(Chars) : /\ Carries(telnet_state, w, e, "DATA")
                                    /\ input_discarding => Len(t) >= PLAYER_INPUT_SIZE
                                    /\ ~input_discarding => t = input_buffer \o e
        BY <2>2, <2>6, <3>1 DEF Typing, Pending
      <3>3. <<CR>> \in Seq(Bytes) /\ Carries("DATA", <<CR>>, <<>>, "DATA")
        BY Begins DEF SilentTo
      <3>4. Carries(telnet_state, w \o <<CR>>, e \o <<>>, "DATA")
        BY <3>2, <3>3, BothCarry
      <3>5. e \o <<>> = e
        OBVIOUS
      <3>6. Carries(telnet_state', s, e, "DATA")
        BY <2>3, <2>4, <3>1, <3>4, <3>5 DEF inputVars
      <3> QED BY <2>3, <3>2, <3>6 DEF Pending, inputVars
    <2>8. waiting' = IF Len(t) < PLAYER_INPUT_SIZE THEN <<t>> ELSE <<>>
      <3>1. waiting' = IF Len(t) < PLAYER_INPUT_SIZE THEN Append(waiting, t) ELSE waiting
        BY <1>7, <2>6 DEF Enter
      <3>2. Append(<<>>, t) = <<t>>
        OBVIOUS
      <3> QED BY <2>2, <3>1, <3>2
    <2>9. Ending'
      BY <2>1, <2>2, <2>5, <2>7, <2>8 DEF Ending, Typing
    <2> QED BY <2>2, <2>9 DEF LineInv
  <1> QED BY <1>4, <1>6, <1>7 DEF Client

\* z is x, of n bytes, and behind it y, of m bytes.
Joined(x, n, y, m, z) ==
    /\ z \in Seq(Bytes) /\ Len(z) = n + m
    /\ \A k \in 1 .. n : z[k] = x[k]
    /\ \A k \in 1 .. m : z[n + k] = y[k]

LEMMA BothJoined ==
    ASSUME NEW x \in Seq(Bytes), NEW n \in Nat, n = Len(x),
           NEW y \in Seq(Bytes), NEW m \in Nat, m = Len(y)
    PROVE  Joined(x, n, y, m, x \o y)
  BY DEF Joined

LEMMA FirstOfBoth ==
    ASSUME NEW x \in Seq(Bytes), NEW y \in Seq(Bytes), x # <<>>
    PROVE  /\ x \o y \in Seq(Bytes) /\ x \o y # <<>> /\ Tail(x) \in Seq(Bytes)
           /\ Head(x \o y) = Head(x) /\ Tail(x \o y) = Tail(x) \o y
  <1> DEFINE z == x \o y
             u == Tail(x)
             v == Tail(z)
             w == u \o y
  <1>1. PICK n \in Nat : n = Len(x) - 1
    OBVIOUS
  <1>2. PICK m \in Nat : m = Len(y)
    OBVIOUS
  <1>3. /\ z \in Seq(Bytes) /\ Len(z) = n + 1 + m
        /\ \A k \in 1 .. n + 1 : z[k] = x[k]
        /\ \A k \in 1 .. m : z[n + 1 + k] = y[k]
    BY <1>1, <1>2
  <1>4. u \in Seq(Bytes) /\ Len(u) = n /\ \A k \in 1 .. n : u[k] = x[k + 1]
    BY <1>1
  <1> HIDE DEF z, u
  <1>5. v \in Seq(Bytes) /\ Len(v) = n + m /\ \A k \in 1 .. n + m : v[k] = z[k + 1]
    BY <1>3
  <1>6. /\ w \in Seq(Bytes) /\ Len(w) = n + m
        /\ \A k \in 1 .. n : w[k] = u[k]
        /\ \A k \in 1 .. m : w[n + k] = y[k]
    <2>1. Joined(u, n, y, m, u \o y)
      BY <1>2, <1>4, BothJoined, Zenon
    <2> QED BY <2>1 DEF Joined
  <1> HIDE DEF v, w
  <1>7. ASSUME NEW k \in 1 .. n + m
        PROVE  v[k] = w[k]
    <2>1. CASE k <= n
      <3>1. k \in 1 .. n /\ k + 1 \in 1 .. n + 1
        BY <2>1
      <3> QED BY <1>3, <1>4, <1>5, <1>6, <3>1
    <2>2. CASE k > n
      <3>1. PICK j \in 1 .. m : k = n + j
        <4>1. k - n \in 1 .. m /\ k = n + (k - n)
          BY <2>2
        <4> QED BY <4>1
      <3>2. k + 1 = n + 1 + j
        BY <3>1
      <3>3. v[k] = z[n + 1 + j]
        BY <1>5, <3>2
      <3> QED BY <1>3, <1>6, <3>1, <3>3
    <2>3. k <= n \/ k > n
      OBVIOUS
    <2> QED BY <2>1, <2>2, <2>3, Zenon
  <1>8. v = w
    BY <1>5, <1>6, <1>7, SeqEqual
  <1>9. z # <<>> /\ Head(z) = Head(x)
    BY <1>1, <1>3
  <1> QED BY <1>3, <1>4, <1>8, <1>9 DEF z, u, v, w

\* A sequence in two parts.
LEMMA TwoParts ==
    ASSUME NEW s \in Seq(Bytes), NEW n \in 1 .. Len(s)
    PROVE  SubSeq(s, 1, n) \o SubSeq(s, n + 1, Len(s)) = s
  <1> DEFINE x == SubSeq(s, 1, n)
             y == SubSeq(s, n + 1, Len(s))
             z == x \o y
  <1>1. PICK m \in Nat : m = Len(s)
    OBVIOUS
  <1>2. x \in Seq(Bytes) /\ Len(x) = n /\ \A k \in 1 .. n : x[k] = s[k]
    BY <1>1
  <1>3. y \in Seq(Bytes) /\ Len(y) = m - n /\ \A k \in 1 .. m - n : y[k] = s[n + k]
    BY <1>1
  <1> HIDE DEF x, y
  <1>4. /\ z \in Seq(Bytes) /\ Len(z) = m
        /\ \A k \in 1 .. n : z[k] = x[k]
        /\ \A k \in 1 .. m - n : z[n + k] = y[k]
    <2>1. PICK h \in Nat : h = m - n
      <3>1. n \in Nat /\ n <= m
        BY <1>1
      <3>2. m - n \in Nat
        BY <3>1
      <3> QED BY <3>2
    <2>2. h = Len(y)
      BY <1>3, <2>1
    <2>3. Joined(x, n, y, h, x \o y)
      <3>1. n \in Nat
        OBVIOUS
      <3> QED BY <1>2, <1>3, <2>2, <3>1, BothJoined, Zenon
    <2>4. n + h = m
      BY <1>1, <2>1
    <2> QED BY <2>1, <2>3, <2>4 DEF Joined
  <1> HIDE DEF z
  <1>5. ASSUME NEW k \in 1 .. m
        PROVE  z[k] = s[k]
    <2>1. CASE k <= n
      BY <1>2, <1>4, <2>1
    <2>2. CASE k > n
      <3>1. PICK j \in 1 .. m - n : k = n + j
        <4>1. k - n \in 1 .. m - n /\ k = n + (k - n)
          BY <2>2
        <4> QED BY <4>1
      <3> QED BY <1>3, <1>4, <3>1
    <2>3. k <= n \/ k > n
      OBVIOUS
    <2> QED BY <2>1, <2>2, <2>3, Zenon
  <1>6. z = s
    BY <1>1, <1>4, <1>5, SeqEqual
  <1> QED BY <1>6 DEF z, x, y

LEMMA NextUnderWay ==
    ASSUME StreamInv, NEW b \in Bytes, Byte(b)
    PROVE  /\ UnderWay \in Seq(Bytes) /\ UnderWay # <<>> /\ b = Head(UnderWay)
           /\ temp' = Tail(temp) => UnderWay' = Tail(UnderWay)
           /\ UNCHANGED <<clientVars, line, phase>>
           /\ ~input_line_ready
  <1>1. temp # <<>> /\ b = Head(temp) /\ UNCHANGED <<clientVars, line, phase>>
    BY DEF Byte, SkipByte, AppendByte, LongLine, EndLine, EndLongLine, TextByte, TakeByte
  <1>2. temp \in Seq(Bytes) /\ socket \in Seq(Bytes)
    BY DEF StreamInv, TypeOK
  <1>3. /\ UnderWay \in Seq(Bytes) /\ UnderWay # <<>>
        /\ Head(UnderWay) = Head(temp) /\ Tail(UnderWay) = Tail(temp) \o socket
    BY <1>1, <1>2, FirstOfBoth DEF UnderWay
  <1>4. ~input_line_ready
    BY <1>1 DEF StreamInv
  <1> QED BY <1>1, <1>3, <1>4 DEF UnderWay, clientVars

LEMMA TypingByte ==
    ASSUME StreamInv, NEW b \in Bytes, Byte(b), Typing
    PROVE  Typing'
  <1>1. PICK s \in Seq(Bytes), t \in Seq(Chars) : s = UnderWay /\ t = typed
    BY NextUnderWay DEF StreamInv, TypeOK
  <1>2. Pending(s, t) /\ s # <<>> /\ b = Head(s)
    BY <1>1, NextUnderWay DEF Typing
  <1>3. /\ temp' = Tail(temp) /\ UNCHANGED input_line_ready
        /\ \E d \in Seq(Chars) :
             /\ Carries(telnet_state', Tail(s), d, "DATA")
             /\ input_discarding' => Len(t) >= PLAYER_INPUT_SIZE
             /\ ~input_discarding' => t = input_buffer' \o d
    BY <1>2, ByteOfLine
  <1>4. UnderWay' = Tail(s) /\ UNCHANGED <<typed, waiting>>
    BY <1>1, <1>3, NextUnderWay DEF clientVars
  <1> QED BY <1>1, <1>3, <1>4 DEF Typing, Pending

LEMMA EndingByte ==
    ASSUME StreamInv, NEW b \in Bytes, Byte(b), Ending
    PROVE  Typing' \/ Ending' \/ Complete'
  <1>1. PICK s \in Seq(Bytes), t \in Seq(Chars) :
          /\ UnderWay = Append(s, LF) /\ Pending(s, t)
          /\ waiting = IF Len(t) < PLAYER_INPUT_SIZE THEN <<t>> ELSE <<>>
    BY DEF Ending
  <1>2. UNCHANGED <<typed, waiting, begun, socket>> /\ typed = <<>> /\ ~begun /\ ~input_line_ready
    BY NextUnderWay DEF clientVars, Ending
  <1>3. CASE s # <<>>
    <2>1. /\ Tail(s) \in Seq(Bytes)
          /\ Head(s \o <<LF>>) = Head(s) /\ Tail(s \o <<LF>>) = Tail(s) \o <<LF>>
          /\ s \o <<LF>> = Append(s, LF) /\ Tail(s) \o <<LF>> = Append(Tail(s), LF)
      <3>1. <<LF>> \in Seq(Bytes)
        BY ByteNames
      <3>2. /\ Tail(s) \in Seq(Bytes)
            /\ Head(s \o <<LF>>) = Head(s) /\ Tail(s \o <<LF>>) = Tail(s) \o <<LF>>
        BY <1>3, <3>1, FirstOfBoth
      <3> QED BY <3>1, <3>2
    <2>2. b = Head(s)
      BY <1>1, <2>1, NextUnderWay
    <2>3. /\ temp' = Tail(temp) /\ UNCHANGED input_line_ready
          /\ \E d \in Seq(Chars) :
               /\ Carries(telnet_state', Tail(s), d, "DATA")
               /\ input_discarding' => Len(t) >= PLAYER_INPUT_SIZE
               /\ ~input_discarding' => t = input_buffer' \o d
      BY <1>1, <1>3, <2>2, ByteOfLine
    <2>4. UnderWay' = Append(Tail(s), LF)
      BY <1>1, <2>1, <2>3, NextUnderWay
    <2>5. Pending(Tail(s), t)'
      BY <2>3 DEF Pending
    <2> QED BY <1>1, <1>2, <2>1, <2>3, <2>4, <2>5 DEF Ending
  <1>4. CASE s = <<>>
    <2>1. UnderWay = <<LF>> /\ b = LF /\ Tail(UnderWay) = <<>>
      BY <1>1, <1>4, NextUnderWay
    <2>2. telnet_state = "DATA" /\ IsData(telnet_state, b) /\ b # CR
      <3>1. PICK d : Carries(telnet_state, s, d, "DATA")
        BY <1>1 DEF Pending
      <3>2. telnet_state = "DATA"
        BY <1>4, <3>1, NothingLeft
      <3> QED BY <2>1, <3>2, ByteNames DEF IsData, LF, IAC
    <2>3. /\ input_discarding => Len(t) >= PLAYER_INPUT_SIZE
          /\ ~input_discarding => t = input_buffer
      <3>1. PICK d : /\ Carries(telnet_state, s, d, "DATA")
                     /\ input_discarding => Len(t) >= PLAYER_INPUT_SIZE
                     /\ ~input_discarding => t = input_buffer \o d
        BY <1>1 DEF Pending
      <3>2. d = <<>>
        BY <1>4, <3>1, NothingLeft
      <3>3. input_buffer \o <<>> = input_buffer
        BY DEF StreamInv, TypeOK
      <3> QED BY <3>1, <3>2, <3>3
    <2>4. NextState("DATA", LF) = "DATA"
      BY States
    <2>5. CASE EndLine(b)
      <3>1. /\ ~input_discarding /\ UNCHANGED input_discarding /\ temp' = <<>> /\ input_line_ready' = TRUE
            /\ input_buffer' = Append(Trimmed(input_buffer), LF) /\ telnet_state' = "DATA"
        BY <2>1, <2>2, <2>4, <2>5 DEF EndLine, TakeByte
      <3>2. Len(t) < PLAYER_INPUT_SIZE
        BY <1>2, <2>3, <3>1 DEF StreamInv, OneLineBuffered
      <3>3. socket = <<>>
        <4>1. temp \in Seq(Bytes) /\ socket \in Seq(Bytes) /\ temp # <<>> /\ temp \o socket = <<LF>>
          BY <2>1, <2>5 DEF StreamInv, TypeOK, EndLine, TakeByte, UnderWay
        <4>2. Tail(temp \o socket) = Tail(temp) \o socket /\ Tail(temp) \in Seq(Bytes)
          BY <4>1, FirstOfBoth
        <4>3. Tail(temp) \o socket = <<>>
          BY <2>1, <4>2 DEF UnderWay
        <4> QED BY <4>1, <4>2, <4>3
      <3> QED BY <1>1, <1>2, <2>3, <3>1, <3>2, <3>3 DEF Complete
    <2>6. CASE EndLongLine(b)
      <3>1. /\ input_discarding /\ temp' = Tail(temp) /\ UNCHANGED input_line_ready
            /\ ~input_discarding' /\ input_buffer' = <<>> /\ telnet_state' = "DATA"
        BY <2>1, <2>2, <2>4, <2>6 DEF EndLongLine, TakeByte
      <3>2. waiting = <<>>
        <4>1. Len(t) \in Nat /\ ~(Len(t) < PLAYER_INPUT_SIZE)
          BY <2>3, <3>1, StreamAssumption
        <4> QED BY <1>1, <4>1
      <3>3. UnderWay' = <<>>
        BY <2>1, <3>1, NextUnderWay
      <3>4. Carries("DATA", <<>>, <<>>, "DATA") /\ <<>> \in Seq(Chars) /\ <<>> \o <<>> = <<>>
        BY NothingCarried DEF TelnetStates
      <3> QED BY <1>2, <3>1, <3>2, <3>3, <3>4 DEF Typing, Pending
    <2>7. EndLine(b) \/ EndLongLine(b)
      BY <2>1, <2>2 DEF Byte, SkipByte, AppendByte, LongLine, TextByte
    <2> QED BY <2>5, <2>6, <2>7
  <1> QED BY <1>3, <1>4

LEMMA ReadLine ==
    ASSUME StreamInv, LineInv, Read
    PROVE  LineInv'
  <1>1. /\ phase = "read" /\ phase' = "bytes" /\ ~input_line_ready /\ temp = <<>>
        /\ UNCHANGED <<typed, waiting, begun, input_line_ready, telnet_state>>
    BY DEF Read, LineInv
  <1>2. UNCHANGED <<input_buffer, input_discarding>>
    <2>1. ~Full
      BY StreamAssumption
      DEF Full, Space, TELNET_CONN_INPUT_BUFFER_SIZE, StreamInv, OneLineBuffered, TypeOK
    <2> QED BY <2>1 DEF Read, StreamInv, TypeOK
  <1>3. PICK n \in Nat \ {0} : /\ n <= Len(socket)
                               /\ temp' = SubSeq(socket, 1, n)
                               /\ socket' = SubSeq(socket, n + 1, Len(socket))
    BY DEF Read
  <1>4. UnderWay' = UnderWay
    <2>1. socket \in Seq(Bytes) /\ n \in 1 .. Len(socket)
      BY <1>3 DEF StreamInv, TypeOK
    <2>2. UnderWay = socket
      BY <1>1, <2>1 DEF UnderWay
    <2> QED BY <1>3, <2>1, <2>2, TwoParts DEF UnderWay
  <1>5. CASE Typing
    BY <1>1, <1>2, <1>4, <1>5 DEF LineInv, Typing, Pending
  <1>6. CASE Ending
    BY <1>1, <1>2, <1>4, <1>6 DEF LineInv, Ending, Pending
  <1> QED BY <1>1, <1>5, <1>6 DEF LineInv, Complete

\* Trimmed takes away the spaces around a line, and nothing else.
LEMMA TrimmedIsBare ==
    ASSUME NEW s \in Seq(Bytes)
    PROVE  Lines!IsBare(Trimmed(s), s)
  <1> DEFINE solid == { i \in 1 .. Len(s) : s[i] \notin Spaces }
             first == CHOOSE i \in solid : \A j \in solid : i <= j
             last  == CHOOSE j \in solid : \A i \in solid : i <= j
  <1>0. PICK n \in Nat : n = Len(s)
    OBVIOUS
  <1>1. CASE solid = {}
    <2>1. Trimmed(s) = <<>>
      BY <1>1 DEF Trimmed
    <2>2. SubSeq(s, n + 1, n) = <<>> /\ n + 1 \in 1 .. n + 1 /\ n \in 0 .. n
      BY <1>0
    <2>3. \A k \in (1 .. n + 1 - 1) \cup (n + 1 .. n) : s[k] \in Spaces
      BY <1>0, <1>1
    <2> QED BY <1>0, <2>1, <2>2, <2>3 DEF Lines!IsBare
  <1>2. CASE solid # {}
    <2>0. solid \in SUBSET (1 .. n) /\ solid \in SUBSET Nat
      BY <1>0
    <2> HIDE DEF solid
    <2>1. \E i \in solid : \A j \in solid : i <= j
      BY <1>2, <2>0, LeastExists
    <2>2. \E j \in solid : \A i \in solid : i <= j
      BY <1>2, <2>0, GreatestExists
    <2>3. /\ first \in solid /\ last \in solid
          /\ \A j \in solid : first <= j /\ j <= last
      BY <2>1, <2>2
    <2>4. Trimmed(s) = SubSeq(s, first, last)
      BY <1>2 DEF Trimmed, solid
    <2> HIDE DEF first, last
    <2>5. PICK i \in 1 .. n, j \in 1 .. n : i = first /\ j = last /\ i <= j
      BY <2>0, <2>3
    <2>6. s[i] \notin Spaces /\ s[j] \notin Spaces
      BY <2>3, <2>5 DEF solid
    <2>7. ASSUME NEW k \in (1 .. i - 1) \cup (j + 1 .. n)
          PROVE  s[k] \in Spaces
      <3>1. k \in 1 .. n /\ ~(i <= k /\ k <= j)
        <4>1. CASE k \in 1 .. i - 1
          BY <4>1
        <4>2. CASE k \in j + 1 .. n
          BY <4>2
        <4> QED BY <4>1, <4>2
      <3>2. k \notin solid
        BY <2>3, <2>5, <3>1
      <3> QED BY <1>0, <3>1, <3>2 DEF solid
    <2>8. PICK t : t = SubSeq(s, i, j)
      OBVIOUS
    <2>9. /\ Len(t) = j - i + 1
          /\ \A k \in 1 .. j - i + 1 : t[k] = s[i + k - 1]
      BY <1>0, <2>5, <2>8, PartOf
    <2>10. t[1] = s[i] /\ t[Len(t)] = s[j]
      <3>1. 1 \in 1 .. j - i + 1 /\ i + 1 - 1 = i
        BY <2>5
      <3>2. j - i + 1 \in 1 .. j - i + 1 /\ i + (j - i + 1) - 1 = j
        BY <2>5
      <3> QED BY <2>9, <3>1, <3>2
    <2>11. i \in 1 .. n + 1 /\ j \in 0 .. n
      OBVIOUS
    <2>12. Trimmed(s) = t
      BY <2>4, <2>5, <2>8
    <2> QED BY <1>0, <2>6, <2>7, <2>8, <2>10, <2>11, <2>12 DEF Lines!IsBare
  <1> QED BY <1>1, <1>2

\* The line that is handled is the one that was typed.
LEMMA LineHandledNow ==
    ASSUME StreamInv, LineInv, NextLine
    PROVE  /\ LineInv'
           /\ \E t : waiting = <<t>> /\ line' = Trimmed(t) /\ waiting' = <<>> /\ t \in Seq(Chars)
  <1>1. /\ input_line_ready /\ phase = "process_input" /\ phase' = "flush"
        /\ UNCHANGED <<typed, begun, socket, temp, input_discarding, telnet_state>>
        /\ waiting' = IF waiting = <<>> THEN <<>> ELSE Tail(waiting)
    BY DEF NextLine, LineFound
  <1>2. PICK t \in Seq(Chars) : waiting = <<t>> /\ input_buffer = Append(Trimmed(t), LF)
    BY <1>1 DEF LineInv, Typing, Ending, Complete
  <1>3. /\ Complete /\ typed = <<>> /\ ~input_discarding /\ temp = <<>> /\ socket = <<>>
        /\ telnet_state = "DATA"
    BY <1>1 DEF LineInv, Typing, Ending, Complete
  <1> DEFINE bare == Trimmed(t)
             i    == Newline(input_buffer)
             rest == SubSeq(input_buffer, i + 1, Len(input_buffer))
             text == IF i > 1 /\ input_buffer[i - 1] = CR THEN i - 2 ELSE i - 1
             copy == IF text > PLAYER_INPUT_SIZE - 1 THEN PLAYER_INPUT_SIZE - 1 ELSE text
  <1>4. /\ line' = SubSeq(input_buffer, 1, copy) /\ input_buffer' = rest
        /\ input_line_ready' = (Newlines(rest) # {})
    BY DEF NextLine
  <1>5. bare \in Seq(Bytes)
    BY CharSeqs, TrimmedPart
  <1> HIDE DEF bare
  <1>6. PICK n \in Nat : n = Len(bare)
    BY <1>5
  <1>7. /\ input_buffer \in Seq(Bytes) /\ Len(input_buffer) = n + 1
        /\ \A k \in 1 .. n : input_buffer[k] = bare[k]
    BY <1>2, <1>5, <1>6, ByteNames DEF bare
  <1>8. i = n + 1
    <2>1. Newlines(input_buffer) = {n + 1}
      BY <1>1, <1>7 DEF StreamInv, OneLineBuffered
    <2> QED BY <1>7, <2>1, NewlinePlace
  <1> HIDE DEF i
  <1>9. copy = n
    <2>1. n + 1 <= PLAYER_INPUT_SIZE
      BY <1>7 DEF StreamInv, OneLineBuffered
    <2>2. i > 1 => input_buffer[i - 1] # CR
      <3>1. i > 1 => i - 1 \in 1 .. Len(input_buffer)
        BY <1>7, <1>8
      <3> QED BY <3>1 DEF StreamInv
    <2>3. text = n
      BY <1>8, <2>2
    <2> QED BY <2>1, <2>3, StreamAssumption
  <1> HIDE DEF copy
  <1>10. line' = bare
    <2>1. /\ SubSeq(input_buffer, 1, n) \in Seq(Bytes) /\ Len(SubSeq(input_buffer, 1, n)) = n
          /\ \A k \in 1 .. n : SubSeq(input_buffer, 1, n)[k] = input_buffer[k]
      BY <1>7
    <2>2. SubSeq(input_buffer, 1, n) = bare
      BY <1>5, <1>6, <1>7, <2>1, SeqEqual
    <2> QED BY <1>4, <1>9, <2>2
  <1>11. input_buffer' = <<>> /\ ~input_line_ready'
    <2>1. rest = <<>>
      BY <1>7, <1>8
    <2>2. Newlines(<<>>) = {}
      BY DEF Newlines
    <2> HIDE DEF rest
    <2> QED BY <1>4, <2>1, <2>2
  <1>12. waiting' = <<>>
    BY <1>1, <1>2
  <1>13. Typing'
    <2>1. UnderWay' = <<>>
      BY <1>1, <1>3 DEF UnderWay
    <2>2. Carries("DATA", <<>>, <<>>, "DATA") /\ <<>> \in Seq(Chars) /\ <<>> \o <<>> = <<>>
      BY NothingCarried DEF TelnetStates
    <2> QED BY <1>1, <1>3, <1>11, <1>12, <2>1, <2>2 DEF Typing, Pending
  <1>14. LineInv'
    BY <1>1, <1>3, <1>13 DEF LineInv
  <1> QED BY <1>2, <1>10, <1>12, <1>14 DEF bare

\* Steps that leave the line and the input alone.
LEMMA LineKept ==
    ASSUME LineInv, UNCHANGED <<clientVars, inputVars>>, phase' # "bytes" => temp = <<>>
    PROVE  LineInv'
  <1>1. (Typing => Typing') /\ (Ending => Ending') /\ (Complete => Complete')
    BY DEF Typing, Ending, Complete, Pending, UnderWay, clientVars, inputVars
  <1> QED BY <1>1 DEF LineInv, inputVars

OtherStep ==
    \/ NothingToRead \/ ReadEnds \/ EndRead \/ NoLine \/ Overhear
    \/ SendUpTo \/ Pass \/ SendRest \/ Flushed \/ FlushFails \/ UNCHANGED vars

LEMMA OthersKeep ==
    ASSUME StreamInv, LineInv, OtherStep
    PROVE  UNCHANGED <<clientVars, inputVars, line>> /\ (phase' # "bytes" => temp = <<>>)
  <1>1. NoLine => ~input_line_ready
    BY DEF NoLine, LineFound, StreamInv, OneLineBuffered
  <1>2. UNCHANGED <<clientVars, inputVars, line>>
    BY <1>1 DEF OtherStep, NothingToRead, ReadEnds, EndRead, NoLine, Overhear, SendUpTo, Pass, SendRest,
                Flushed, FlushFails, vars, clientVars, inputVars, StreamInv, TypeOK
  <1>3. phase' # "bytes" => temp = <<>>
    BY DEF OtherStep, NothingToRead, ReadEnds, EndRead, NoLine, Overhear, SendUpTo, Pass, SendRest,
           Flushed, FlushFails, vars, LineInv
  <1> QED BY <1>2, <1>3

LEMMA NewLine ==
    ASSUME typed' = <<>> /\ waiting' = <<>> /\ temp' = <<>> /\ socket' = <<>>
           /\ input_buffer' = <<>> /\ input_line_ready' = FALSE /\ input_discarding' = FALSE
           /\ telnet_state' = "DATA"
    PROVE  LineInv'
  <1>1. Carries("DATA", <<>>, <<>>, "DATA") /\ <<>> \in Seq(Chars) /\ <<>> \o <<>> = <<>>
    BY NothingCarried DEF TelnetStates
  <1>2. UnderWay' = <<>>
    BY <1>1 DEF UnderWay
  <1> QED BY <1>1, <1>2 DEF LineInv, Typing, Pending

\* What a step of the connection means to the lines of its client.
LEMMA LineStep ==
    ASSUME Pipelined = FALSE, StreamInv, LineInv, [Next]_vars
    PROVE  LineInv' /\ [Lines!Next]_(Lines!vars)
  <1>1. CASE Client
    <2>1. LineInv'
      BY <1>1, ClientLine
    <2>2. UNCHANGED line
      BY <1>1 DEF Client, Type, Enter, Negotiate, Subnegotiate, Nop, Command, Sends
    <2>3. ASSUME NEW c \in Chars, Type(c)
          PROVE  Lines!Next
      BY <2>2, <2>3 DEF Type, Lines!Next, Lines!Type
    <2>4. ASSUME Enter
          PROVE  Lines!Next
      <3>1. Len(typed) \in Nat
        BY DEF StreamInv, TypeOK
      <3>2. Len(typed) < PLAYER_INPUT_SIZE <=> ~(Len(typed) > PLAYER_INPUT_SIZE - 1)
        BY <3>1, StreamAssumption
      <3>3. Lines!Enter
        BY <2>2, <2>4, <3>2 DEF Enter, Lines!Enter
      <3> QED BY <3>3 DEF Lines!Next
    <2>5. ASSUME Negotiate \/ Subnegotiate \/ Nop
          PROVE  UNCHANGED Lines!vars
      BY <2>2, <2>5 DEF Negotiate, Subnegotiate, Nop, Command, Lines!vars
    <2> QED BY <1>1, <2>1, <2>3, <2>4, <2>5 DEF Client
  <1>2. ASSUME NEW b \in Bytes, Byte(b)
        PROVE  LineInv' /\ UNCHANGED Lines!vars
    <2>1. UNCHANGED <<clientVars, line, phase>> /\ ~input_line_ready
      BY <1>2, NextUnderWay
    <2>2. Typing' \/ Ending' \/ Complete'
      BY <1>2, <2>1, TypingByte, EndingByte DEF LineInv, Complete
    <2>3. phase = "bytes"
      BY <1>2 DEF Byte, SkipByte, AppendByte, LongLine, EndLine, EndLongLine, TextByte, TakeByte
    <2> QED BY <2>1, <2>2, <2>3 DEF LineInv, Lines!vars, clientVars
  <1>3. CASE Read
    <2>1. LineInv'
      BY <1>3, ReadLine
    <2> QED BY <1>3, <2>1 DEF Read, Lines!vars
  <1>4. CASE NextLine
    <2>1. PICK t \in Seq(Chars) : waiting = <<t>> /\ line' = Trimmed(t) /\ waiting' = <<>>
      BY <1>4, LineHandledNow
    <2>2. waiting # <<>> /\ Head(waiting) = t /\ Tail(waiting) = <<>>
      BY <2>1
    <2>3. Lines!IsBare(line', Head(waiting))
      BY <2>1, <2>2, CharSeqs, TrimmedIsBare
    <2>4. Lines!Handle
      BY <1>4, <2>1, <2>2, <2>3 DEF Lines!Handle, NextLine
    <2> QED BY <1>4, <2>4, LineHandledNow DEF Lines!Next
  <1>5. CASE Gc
    <2>1. LineInv'
      BY <1>5, NewLine DEF Gc, Reconnected
    <2>2. Lines!Reconnect
      BY <1>5 DEF Gc, Reconnected, Lines!Reconnect
    <2> QED BY <2>1, <2>2 DEF Lines!Next
  <1>6. CASE OtherStep
    <2>1. UNCHANGED <<clientVars, inputVars, line>> /\ (phase' # "bytes" => temp = <<>>)
      BY <1>6, OthersKeep
    <2>2. LineInv'
      BY <2>1, LineKept
    <2>3. UNCHANGED Lines!vars
      BY <2>1 DEF Lines!vars, clientVars
    <2> QED BY <2>2, <2>3
  <1>7. Client \/ (\E b \in Bytes : Byte(b)) \/ Read \/ NextLine \/ Gc \/ OtherStep
    BY DEF Next, Tick, OtherStep
  <1>8. ASSUME NEW b \in Bytes, Byte(b)
        PROVE  LineInv' /\ [Lines!Next]_(Lines!vars)
    BY <1>2, <1>8
  <1> QED BY <1>1, <1>3, <1>4, <1>5, <1>6, <1>7, <1>8

LEMMA LineInvariant ==
    ASSUME Pipelined = FALSE
    PROVE  Spec => []LineInv
  <1>1. Init => LineInv
    <2> SUFFICES ASSUME Init PROVE LineInv
      OBVIOUS
    <2>1. Carries("DATA", <<>>, <<>>, "DATA") /\ <<>> \in Seq(Chars) /\ <<>> \o <<>> = <<>>
      BY NothingCarried DEF TelnetStates
    <2>2. UnderWay = <<>>
      BY <2>1 DEF UnderWay, Init
    <2> QED BY <2>1, <2>2 DEF Init, LineInv, Typing, Pending
  <1>2. StreamInv /\ LineInv /\ [Next]_vars => LineInv'
    BY LineStep
  <1> QED BY <1>1, <1>2, StreamInvariant, PTL DEF Spec

\* Of a client that waits for the answer to a line before it begins the next, no
\* line that fits is lost: once everything it sent was read and no line is ready,
\* every line it typed was handled, though telnet_conn_read throws away what
\* follows a newline in the same read (telnet_conn.c:112).
THEOREM NoLineIsDropped ==
    ASSUME Pipelined = FALSE
    PROVE  Spec => []NothingDropped
  <1>1. StreamInv /\ LineInv => NothingDropped
    <2> SUFFICES ASSUME StreamInv, LineInv, Quiet
                 PROVE  waiting = <<>>
      BY DEF NothingDropped
    <2>1. ~Complete
      BY DEF Quiet, Complete
    <2>2. ~Ending
      <3>1. UnderWay = <<>>
        BY DEF UnderWay, Quiet
      <3>2. ASSUME NEW s \in Seq(Bytes)
            PROVE  Append(s, LF) # <<>>
        <4>1. Len(Append(s, LF)) = Len(s) + 1 /\ Len(s) \in Nat /\ Len(<<>>) = 0
          BY ByteNames
        <4> QED BY <4>1
      <3> QED BY <3>1, <3>2 DEF Ending
    <2> QED BY <2>1, <2>2 DEF LineInv, Typing
  <1> QED BY <1>1, StreamInvariant, LineInvariant, PTL

\* Such a client gets what TypedLines promises: however TCP cuts its bytes into
\* reads, and whatever telnet commands are among them, the game is given the lines
\* it typed, one by one, in order and trimmed, and none that is too long
\* (telnet_conn_read, process_input_byte, telnet_conn_next_line).
THEOREM LinesAreDelivered ==
    ASSUME Pipelined = FALSE
    PROVE  Spec => ImplementsTypedLines
  <1>1. Init => Lines!Init
    BY DEF Init, Lines!Init
  <1>2. StreamInv /\ LineInv /\ [Next]_vars => [Lines!Next]_(Lines!vars)
    BY LineStep
  <1> QED BY <1>1, <1>2, StreamInvariant, LineInvariant, PTL
          DEF Spec, ImplementsTypedLines, Lines!Spec
=============================================================================
