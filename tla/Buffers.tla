------------------------------ MODULE Buffers ------------------------------
(***************************************************************************)
(* buffer.c: text in memory.  A Buffer has a fixed capacity and remembers   *)
(* that something did not fit; a DynamicBuffer grows by doubling.  Both end *)
(* their text with a NUL, so the text is always shorter than the capacity.  *)
(***************************************************************************)
EXTENDS Integers, Sequences

Buffer(Byte) == [data: Seq(Byte), capacity: Nat \ {0}, overflow: BOOLEAN]

DynamicBuffer(Byte) == [data: Seq(Byte), capacity: Nat \ {0}]

-----------------------------------------------------------------------------
(* Buffer *)

buffer_init(capacity) == [data |-> <<>>, capacity |-> capacity, overflow |-> FALSE]

\* What does not fit is cut, and nothing is appended after that.
buffer_append(buf, text) ==
    LET room == buf.capacity - Len(buf.data) - 1 IN
    IF buf.overflow THEN buf
    ELSE IF Len(text) > room
         THEN [buf EXCEPT !.data = @ \o SubSeq(text, 1, room), !.overflow = TRUE]
         ELSE [buf EXCEPT !.data = @ \o text]

\* vsnprintf writes at most what fits; text that did not is an overflow.  A full
\* buffer takes nothing, not even the empty text.
buffer_appendf(buf, text) ==
    LET room == buf.capacity - Len(buf.data) - 1
        cut  == IF Len(text) > room THEN SubSeq(text, 1, room) ELSE text
    IN  IF room = 0 THEN [buf EXCEPT !.overflow = TRUE]
        ELSE [buffer_append(buf, cut) EXCEPT !.overflow = @ \/ Len(text) > room]

buffer_clear(buf) == [buf EXCEPT !.data = <<>>, !.overflow = FALSE]

buffer_printf(buf, text) == buffer_appendf(buffer_clear(buf), text)

-----------------------------------------------------------------------------
(* DynamicBuffer *)

dbuffer_new(capacity) ==
    [data |-> <<>>, capacity |-> IF capacity = 0 THEN 1 ELSE capacity]

\* Forgets the NUL.
Needed_bare(buf, text) == Len(buf.data) + Len(text)

\* The bytes an append needs room for.
Needed(buf, text) == Len(buf.data) + Len(text) + 1

\* dbuffer_reserve: `to` is `from` if that is enough, otherwise the first of its
\* doublings that is.
Reserves(from, needed, to) ==
    IF needed <= from THEN to = from
    ELSE /\ needed <= to
         /\ \E k \in 1 .. needed : to = from * 2^k /\ from * 2^(k-1) < needed

\* dbuffer_append, and dbuffer_vappendf, which formats to a temporary first.
Appends(buf, text, new) ==
    /\ new.data = buf.data \o text
    /\ Reserves(buf.capacity, Needed(buf, text), new.capacity)

\* What the text of an append leaves behind: capacities no larger than this.
Grown(buf, text) ==
    { [data |-> buf.data \o text, capacity |-> c] :
        c \in buf.capacity .. (2 * (buf.capacity + Needed(buf, text))) }
=============================================================================
