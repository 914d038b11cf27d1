------------------------------ MODULE ChunkFile ------------------------------
(***************************************************************************)
(* file_chunk.c: files of fields and sections.                              *)
(*                                                                          *)
(*   tag:value~        a field                                              *)
(*   #section          the start of a section, to the end of the line       *)
(*   #section value~   the start of an inline section                       *)
(*   #end section      the end of a section                                 *)
(*                                                                          *)
(* A file is a sequence of tokens; a reader is a file and a position in it. *)
(***************************************************************************)
EXTENDS Strings

\* What file_chunk_read leaves in r->chunk, the position behind it, and whether
\* it returned true ("chunk"), false ("eof") or did not return ("no_colon").
Read(result, type, tag, value, next) ==
    [result |-> result, type |-> type, tag |-> tag, value |-> value, next |-> next]

\* "#tag value": the tag ends at the first space.
ParseSection(raw, next) ==
    LET line  == Tail(raw)
        space == IndexIn(line, {" "})
        tag   == Trim(Before(line, space))
        value == Trim(From(line, space))
    IN  IF tag = <<"end">> THEN Read("chunk", "end", value, <<>>, next)
                           ELSE Read("chunk", "start", tag, value, next)

\* "tag:value": the CHECK wants a colon.
ParseField(raw, next) ==
    LET colon == IndexIn(raw, {":"})
    IN  IF colon > Len(raw) THEN Read("no_colon", "field", <<>>, <<>>, next)
        ELSE Read("chunk", "field", Trim(Before(raw, colon)), Trim(From(raw, colon + 1)), next)

IsSection(raw) == raw # <<>> /\ Head(raw) = "#"

parse_chunk(raw, next) ==
    IF IsSection(raw) THEN ParseSection(raw, next) ELSE ParseField(raw, next)

\* A chunk ends at a tilde, and if it begins with # at the end of its line.
ChunkEnds(rest) == {"~"} \cup (IF IsSection(rest) THEN Newlines ELSE {})

\* Leaves the newline behind a tilde to the next chunk.
Behind_newline(file, k) == k + 1

\* One newline behind the token that ended a chunk is consumed.
Behind(file, k) ==
    IF k < Len(file) /\ file[k + 1] \in Newlines THEN k + 2 ELSE k + 1

TrimNewlines(raw) ==
    Before(raw, Max({ k \in 1 .. Len(raw) : raw[k] \notin Newlines } \cup {0}) + 1)

\* file_chunk_read at position pos.  Only the end of a section may end with the
\* file.
file_chunk_read(file, pos) ==
    LET rest == From(file, pos)
        stop == IndexIn(rest, ChunkEnds(rest))
        raw  == Before(rest, stop)
    IN  IF rest = <<>> \/ (stop > Len(rest) /\ ~IsPrefix(<<"#", "end", " ">>, raw))
        THEN Read("eof", "field", <<>>, <<>>, Len(file) + 1)
        ELSE parse_chunk(TrimNewlines(raw), Behind(file, pos + stop - 1))

-----------------------------------------------------------------------------
(* The writers. *)

file_chunk_write_field(tag, value) == <<tag, ":">> \o value \o <<"~", "\n">>
file_chunk_write_section_inline(section, args) == <<"#", section, " ">> \o args \o <<"~", "\n">>
file_chunk_write_section_start(section) == <<"#", section, "\n">>
file_chunk_write_section_end(section) == <<"#", "end", " ", section, "\n">>

\* The words that may stand for a tag, and text that trimming leaves alone.
Plain(tag) == tag \notin Whitespace \cup {"#", ":", "~"}
Trimmed(s) == s # <<>> => s[1] \notin Whitespace /\ s[Len(s)] \notin Whitespace
=============================================================================
