------------------------------- MODULE Strings -------------------------------
(***************************************************************************)
(* strutil.c, and the trimming of buffer.c, on strings that are sequences   *)
(* of tokens.  A token is a character, or a word whose letters do not       *)
(* matter.  Buffers are taken to be long enough for the words copied.       *)
(***************************************************************************)
EXTENDS Integers, Sequences, SequencesExt, FiniteSetsExt

Newlines == {"\n", "\r"}
Whitespace == {" "} \cup Newlines

\* Where the first token of the set is in s, or just behind s.
IndexIn(s, tokens) == Min({ k \in 1 .. Len(s) : s[k] \in tokens } \cup {Len(s) + 1})

\* Where the first token outside of the set is.
IndexOutside(s, tokens) == Min({ k \in 1 .. Len(s) : s[k] \notin tokens } \cup {Len(s) + 1})

Before(s, k) == SubSeq(s, 1, k - 1)
From(s, k) == SubSeq(s, k, Len(s))

\* buffer_trim and dbuffer_trim.
Trim(s) ==
    LET text == { k \in 1 .. Len(s) : s[k] \notin Whitespace }
    IN  IF text = {} THEN <<>> ELSE SubSeq(s, Min(text), Max(text))

SkipSpace(s) == From(s, IndexOutside(s, Whitespace))

\* The word, and what is left of the input: NULL, here <<>>, when the line ends.
str_parse_word(input) ==
    LET text == SkipSpace(input)
        stop == IndexIn(text, Whitespace)
    IN  [word |-> Before(text, stop), rest |-> SkipSpace(From(text, stop))]

\* Where the loop of str_token_contains compares: behind every run of spaces,
\* be it at the end of the list.
TokenStarts(list) ==
    { k \in 1 .. Len(list) + 1 :
        /\ list # <<>>
        /\ k = 1 \/ list[k - 1] = " "
        /\ k <= Len(list) => list[k] # " " }

\* Takes the beginning of a token for the token.
str_token_contains_prefix(list, word) ==
    \E k \in TokenStarts(list) : IsPrefix(word, From(list, k))

str_token_contains(list, word) ==
    \E k \in TokenStarts(list) :
        LET rest == From(list, k) IN
        /\ IsPrefix(word, rest)
        /\ Len(rest) > Len(word) => rest[Len(word) + 1] = " "
=============================================================================
