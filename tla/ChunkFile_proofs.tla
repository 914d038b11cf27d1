-------------------------- MODULE ChunkFile_proofs --------------------------
(***************************************************************************)
(* What the operators of Strings and ChunkFile return: parts of the text    *)
(* they are given, and of a file the fields and sections that were written  *)
(* to it, one behind the other.                                             *)
(***************************************************************************)
EXTENDS ChunkFile, TLAPS, SequenceTheorems, WellFoundedInduction

LEMMA MinOf ==
    ASSUME NEW S \in SUBSET Nat, S # {}
    PROVE  Min(S) \in S /\ \A k \in S : Min(S) <= k
  <1>1. IsWellFoundedOn(OpToRel(<, Nat), Nat)
    BY NatLessThanWellFounded
  <1>2. PICK m \in S : \A k \in S : ~(<<k, m>> \in OpToRel(<, Nat))
    BY <1>1, WFMin
  <1>3. \A k \in S : ~(k < m)
    BY <1>2 DEF OpToRel
  <1>4. m \in S /\ \A k \in S : m =< k
    BY <1>3
  <1> QED BY <1>4 DEF Min

LEMMA MaxOf ==
    ASSUME NEW n \in Nat, NEW S \in SUBSET (0 .. n), S # {}
    PROVE  Max(S) \in S /\ \A k \in S : k <= Max(S)
  <1> DEFINE U == { n - k : k \in S }
  <1>1. U \in SUBSET Nat /\ U # {}
    <2>1. \A k \in S : n - k \in Nat
      OBVIOUS
    <2> QED BY <2>1
  <1>2. PICK u \in U : \A v \in U : u <= v
    BY <1>1, MinOf
  <1>3. PICK m \in S : u = n - m
    BY <1>2
  <1>4. \A k \in S : n - k \in U /\ n - m <= n - k
    BY <1>2, <1>3
  <1>5. \A k \in S : m >= k
    BY <1>4
  <1>6. Max(S) \in S /\ \A k \in S : Max(S) >= k
    BY <1>3, <1>5 DEF Max
  <1>7. \A k \in S : k \in Int
    OBVIOUS
  <1> QED BY <1>6, <1>7

\* A part of a sequence.
LEMMA PartOf ==
    ASSUME NEW T, NEW s \in Seq(T), NEW m \in Nat \ {0}, NEW n \in Int,
           n <= Len(s), m <= n + 1
    PROVE  /\ SubSeq(s, m, n) \in Seq(T)
           /\ Len(SubSeq(s, m, n)) = n - m + 1
           /\ \A k \in 1 .. n - m + 1 : SubSeq(s, m, n)[k] = s[m + k - 1]
  OBVIOUS

-----------------------------------------------------------------------------
(* Strings. *)

\* k is the first place of a token of the set, or just behind s.
FirstPlace(s, tokens, k) ==
    /\ k \in 1 .. Len(s) + 1
    /\ k <= Len(s) => s[k] \in tokens
    /\ \A j \in 1 .. k - 1 : s[j] \notin tokens

LEMMA FirstIn ==
    ASSUME NEW T, NEW s \in Seq(T), NEW tokens
    PROVE  FirstPlace(s, tokens, IndexIn(s, tokens))
  <1> DEFINE places == { k \in 1 .. Len(s) : s[k] \in tokens } \cup {Len(s) + 1}
             m == Min(places)
  <1>1. Len(s) \in Nat /\ places \in SUBSET Nat /\ places # {}
    OBVIOUS
  <1>2. m \in places /\ \A k \in places : m <= k
    <2> HIDE DEF places
    <2> QED BY <1>1, MinOf
  <1>3. IndexIn(s, tokens) = m
    BY DEF IndexIn
  <1> HIDE DEF m
  <1>4. m \in 1 .. Len(s) + 1 /\ (m <= Len(s) => s[m] \in tokens)
    BY <1>1, <1>2
  <1>5. ASSUME NEW j \in 1 .. m - 1
        PROVE  s[j] \notin tokens
    <2>1. j \in 1 .. Len(s) /\ ~(m <= j)
      BY <1>1, <1>4
    <2> QED BY <1>2, <2>1
  <1> QED BY <1>3, <1>4, <1>5 DEF FirstPlace

LEMMA FirstBound ==
    ASSUME NEW T, NEW s \in Seq(T), NEW tokens
    PROVE  IndexIn(s, tokens) \in 1 .. Len(s) + 1 /\ IndexIn(s, tokens) \in Nat \ {0}
  <1> DEFINE m == IndexIn(s, tokens)
  <1>1. m \in 1 .. Len(s) + 1
    BY FirstIn DEF FirstPlace
  <1>2. Len(s) \in Nat
    OBVIOUS
  <1> HIDE DEF m
  <1>3. m \in Nat \ {0}
    BY <1>1, <1>2
  <1> QED BY <1>1, <1>3 DEF m

\* There is one such place.
LEMMA FirstInIs ==
    ASSUME NEW T, NEW s \in Seq(T), NEW tokens, NEW k, FirstPlace(s, tokens, k)
    PROVE  IndexIn(s, tokens) = k
  <1> DEFINE m == IndexIn(s, tokens)
  <1>1. FirstPlace(s, tokens, m)
    BY FirstIn
  <1> HIDE DEF m
  <1>2. Len(s) \in Nat
    OBVIOUS
  <1>3. ~(m < k)
    <2> SUFFICES ASSUME m < k PROVE FALSE
      OBVIOUS
    <2>1. m <= Len(s) /\ m \in 1 .. k - 1
      BY <1>1, <1>2 DEF FirstPlace
    <2> QED BY <1>1, <2>1 DEF FirstPlace
  <1>4. ~(k < m)
    <2> SUFFICES ASSUME k < m PROVE FALSE
      OBVIOUS
    <2>1. k <= Len(s) /\ k \in 1 .. m - 1
      BY <1>1, <1>2 DEF FirstPlace
    <2> QED BY <1>1, <2>1 DEF FirstPlace
  <1>5. m \in Nat /\ k \in Nat
    BY <1>1, <1>2 DEF FirstPlace
  <1>6. m = k
    BY <1>3, <1>4, <1>5
  <1> QED BY <1>6 DEF m

LEMMA FirstOutside ==
    ASSUME NEW T, NEW s \in Seq(T), NEW tokens
    PROVE  IndexOutside(s, tokens) \in 1 .. Len(s) + 1
  <1> DEFINE places == { k \in 1 .. Len(s) : s[k] \notin tokens } \cup {Len(s) + 1}
  <1>1. Len(s) \in Nat /\ places \in SUBSET Nat /\ places # {} /\ places \subseteq 1 .. Len(s) + 1
    OBVIOUS
  <1>2. Min(places) \in places
    <2> HIDE DEF places
    <2> QED BY <1>1, MinOf
  <1> QED BY <1>1, <1>2 DEF IndexOutside

LEMMA BeforeOf ==
    ASSUME NEW T, NEW s \in Seq(T), NEW k \in 1 .. Len(s) + 1
    PROVE  /\ Before(s, k) \in Seq(T) /\ Len(Before(s, k)) = k - 1
           /\ \A j \in 1 .. k - 1 : Before(s, k)[j] = s[j]
  <1> DEFINE n == k - 1
  <1>1. n \in Nat /\ n <= Len(s)
    OBVIOUS
  <1> HIDE DEF n
  <1>2. /\ SubSeq(s, 1, n) \in Seq(T) /\ Len(SubSeq(s, 1, n)) = n
        /\ \A j \in 1 .. n : SubSeq(s, 1, n)[j] = s[j]
    BY <1>1
  <1> QED BY <1>2 DEF Before, n

LEMMA FromOf ==
    ASSUME NEW T, NEW s \in Seq(T), NEW k \in Nat \ {0}
    PROVE  /\ From(s, k) \in Seq(T)
           /\ k > Len(s) => From(s, k) = <<>>
           /\ k <= Len(s) + 1 => /\ Len(From(s, k)) = Len(s) + 1 - k
                                 /\ \A j \in 1 .. Len(s) + 1 - k : From(s, k)[j] = s[k + j - 1]
  <1> DEFINE n == Len(s)
  <1>1. n \in Nat /\ n = Len(s)
    OBVIOUS
  <1> HIDE DEF n
  <1>2. CASE k > n
    <2>1. SubSeq(s, k, n) = <<>>
      BY <1>1, <1>2
    <2> QED BY <1>1, <1>2, <2>1 DEF From
  <1>3. CASE k <= n
    <2>1. n \in Int /\ n <= Len(s) /\ k <= n + 1
      BY <1>1, <1>3
    <2>2. /\ SubSeq(s, k, n) \in Seq(T) /\ Len(SubSeq(s, k, n)) = n - k + 1
          /\ \A j \in 1 .. n - k + 1 : SubSeq(s, k, n)[j] = s[k + j - 1]
      BY <2>1, PartOf
    <2>3. n - k + 1 = n + 1 - k
      BY <1>1
    <2> QED BY <1>1, <1>3, <2>2, <2>3 DEF From
  <1> QED BY <1>1, <1>2, <1>3

\* The rest of a file whose beginning has been read.
LEMMA FromBehind ==
    ASSUME NEW T, NEW s \in Seq(T), NEW t \in Seq(T)
    PROVE  From(s \o t, Len(s) + 1) = t
  <1>1. s \o t \in Seq(T) /\ Len(s \o t) = Len(s) + Len(t) /\ Len(s) \in Nat /\ Len(t) \in Nat
    OBVIOUS
  <1> DEFINE u == s \o t
             m == Len(s) + 1
             r == From(u, m)
  <1>2. /\ r \in Seq(T) /\ Len(r) = Len(t)
        /\ \A j \in 1 .. Len(t) : r[j] = u[Len(s) + j]
    <2>1. u \in Seq(T) /\ m \in Nat \ {0} /\ m <= Len(u) + 1 /\ Len(u) + 1 - m = Len(t)
      BY <1>1
    <2>2. \A j \in 1 .. Len(t) : m + j - 1 = Len(s) + j
      BY <1>1
    <2> HIDE DEF u, m
    <2>3. /\ r \in Seq(T) /\ Len(r) = Len(u) + 1 - m
          /\ \A j \in 1 .. Len(u) + 1 - m : r[j] = u[m + j - 1]
      BY <2>1, FromOf
    <2> QED BY <2>1, <2>2, <2>3
  <1> HIDE DEF r
  <1>3. \A j \in 1 .. Len(t) : r[j] = t[j]
    <2>1. \A j \in 1 .. Len(t) : u[Len(s) + j] = t[j]
      BY <1>1
    <2> QED BY <1>2, <2>1
  <1>4. r = t
    BY <1>2, <1>3, SeqEqual
  <1> QED BY <1>4 DEF r, u, m

LEMMA TrimType ==
    ASSUME NEW T, NEW s \in Seq(T)
    PROVE  Trim(s) \in Seq(T)
  <1> DEFINE text == { k \in 1 .. Len(s) : s[k] \notin Whitespace }
  <1>1. Len(s) \in Nat /\ text \in SUBSET Nat /\ text \in SUBSET (0 .. Len(s)) /\ text \subseteq 1 .. Len(s)
    OBVIOUS
  <1>2. CASE text = {}
    BY <1>2 DEF Trim
  <1>3. CASE text # {}
    <2> HIDE DEF text
    <2>1. Min(text) \in text /\ Max(text) \in text /\ Min(text) <= Max(text)
      BY <1>1, <1>3, MinOf, MaxOf
    <2>2. SubSeq(s, Min(text), Max(text)) \in Seq(T)
      <3>1. \A a, b \in 1 .. Len(s) : a <= b => SubSeq(s, a, b) \in Seq(T)
        BY PartOf
      <3> QED BY <1>1, <2>1, <3>1
    <2> QED BY <1>3, <2>2 DEF Trim, text
  <1> QED BY <1>2, <1>3

LEMMA SkipSpaceType ==
    ASSUME NEW T, NEW s \in Seq(T)
    PROVE  SkipSpace(s) \in Seq(T)
  <1>1. IndexOutside(s, Whitespace) \in Nat \ {0}
    <2>1. IndexOutside(s, Whitespace) \in 1 .. Len(s) + 1 /\ Len(s) \in Nat
      BY FirstOutside
    <2> QED BY <2>1
  <1> QED BY <1>1, FromOf DEF SkipSpace

LEMMA ParsedWordType ==
    ASSUME NEW T, NEW s \in Seq(T)
    PROVE  str_parse_word(s).word \in Seq(T) /\ str_parse_word(s).rest \in Seq(T)
  <1> DEFINE text == SkipSpace(s)
             stop == IndexIn(text, Whitespace)
  <1>1. text \in Seq(T)
    BY SkipSpaceType
  <1>2. str_parse_word(s) = [word |-> Before(text, stop), rest |-> SkipSpace(From(text, stop))]
    BY DEF str_parse_word
  <1> HIDE DEF text
  <1>3. stop \in 1 .. Len(text) + 1 /\ stop \in Nat \ {0}
    BY <1>1, FirstBound
  <1> HIDE DEF stop
  <1>5. Before(text, stop) \in Seq(T) /\ SkipSpace(From(text, stop)) \in Seq(T)
    BY <1>1, <1>3, BeforeOf, FromOf, SkipSpaceType
  <1> QED BY <1>2, <1>5

-----------------------------------------------------------------------------
(* What file_chunk_read returns. *)

LEMMA NewlinesTrimmed ==
    ASSUME NEW T, NEW raw \in Seq(T)
    PROVE  /\ TrimNewlines(raw) \in Seq(T)
           /\ raw # <<>> /\ raw[Len(raw)] \notin Newlines => TrimNewlines(raw) = raw
  <1> DEFINE places == { k \in 1 .. Len(raw) : raw[k] \notin Newlines } \cup {0}
             m == Max(places)
  <1>1. Len(raw) \in Nat /\ places \in SUBSET (0 .. Len(raw)) /\ places # {}
    OBVIOUS
  <1>2. m \in places /\ \A k \in places : k <= m
    <2> HIDE DEF places
    <2> QED BY <1>1, MaxOf
  <1>3. TrimNewlines(raw) = Before(raw, m + 1)
    BY DEF TrimNewlines
  <1> HIDE DEF m
  <1>4. m + 1 \in 1 .. Len(raw) + 1
    BY <1>1, <1>2
  <1>5. Before(raw, m + 1) \in Seq(T)
    BY <1>4, BeforeOf
  <1>6. ASSUME raw # <<>>, raw[Len(raw)] \notin Newlines
        PROVE  Before(raw, m + 1) = raw
    <2>1. Len(raw) \in places
      BY <1>1, <1>6
    <2>2. m = Len(raw)
      BY <1>1, <1>2, <2>1
    <2>3. (m + 1) - 1 = Len(raw)
      BY <1>1, <2>2
    <2> QED BY <2>3, SubSeqFull DEF Before
  <1> QED BY <1>3, <1>5, <1>6

Chunks(T) ==
    [result: {"chunk", "eof", "no_colon"}, type: {"field", "start", "end"},
     tag: Seq(T), value: Seq(T), next: Nat \ {0}]

LEMMA SectionType ==
    ASSUME NEW T, NEW raw \in Seq(T), IsSection(raw), NEW next \in Nat \ {0}
    PROVE  ParseSection(raw, next) \in Chunks(T)
  <1> DEFINE line  == Tail(raw)
             space == IndexIn(line, {" "})
  <1>1. line \in Seq(T)
    BY HeadTailProperties DEF IsSection
  <1>2. /\ ParseSection(raw, next) =
             IF Trim(Before(line, space)) = <<"end">>
             THEN Read("chunk", "end", Trim(From(line, space)), <<>>, next)
             ELSE Read("chunk", "start", Trim(Before(line, space)), Trim(From(line, space)), next)
    BY DEF ParseSection
  <1> HIDE DEF line
  <1>3. space \in 1 .. Len(line) + 1 /\ space \in Nat \ {0}
    BY <1>1, FirstBound
  <1> HIDE DEF space
  <1>4. Trim(Before(line, space)) \in Seq(T) /\ Trim(From(line, space)) \in Seq(T)
    BY <1>1, <1>3, BeforeOf, FromOf, TrimType
  <1> DEFINE tag == Trim(Before(line, space))
             value == Trim(From(line, space))
  <1>5. <<>> \in Seq(T)
    OBVIOUS
  <1> HIDE DEF tag, value
  <1>6. /\ Read("chunk", "end", value, <<>>, next) \in Chunks(T)
        /\ Read("chunk", "start", tag, value, next) \in Chunks(T)
    BY <1>4, <1>5 DEF Read, Chunks, tag, value
  <1> QED BY <1>2, <1>6 DEF tag, value

LEMMA FieldType ==
    ASSUME NEW T, NEW raw \in Seq(T), NEW next \in Nat \ {0}
    PROVE  ParseField(raw, next) \in Chunks(T)
  <1> DEFINE colon == IndexIn(raw, {":"})
  <1>1. ParseField(raw, next) =
          IF colon > Len(raw) THEN Read("no_colon", "field", <<>>, <<>>, next)
          ELSE Read("chunk", "field", Trim(Before(raw, colon)), Trim(From(raw, colon + 1)), next)
    BY DEF ParseField
  <1>2. colon \in 1 .. Len(raw) + 1 /\ colon + 1 \in Nat \ {0}
    BY FirstBound
  <1> HIDE DEF colon
  <1>3. Trim(Before(raw, colon)) \in Seq(T) /\ Trim(From(raw, colon + 1)) \in Seq(T)
    BY <1>2, BeforeOf, FromOf, TrimType
  <1> DEFINE tag == Trim(Before(raw, colon))
             value == Trim(From(raw, colon + 1))
  <1>4. <<>> \in Seq(T)
    OBVIOUS
  <1> HIDE DEF tag, value
  <1>5. /\ Read("no_colon", "field", <<>>, <<>>, next) \in Chunks(T)
        /\ Read("chunk", "field", tag, value, next) \in Chunks(T)
    BY <1>3, <1>4 DEF Read, Chunks, tag, value
  <1> QED BY <1>1, <1>5 DEF tag, value

\* Whatever is in a file, a chunk is made of parts of it.
LEMMA ChunkType ==
    ASSUME NEW T, NEW file \in Seq(T), NEW pos \in Nat \ {0}
    PROVE  file_chunk_read(file, pos) \in Chunks(T)
  <1> DEFINE rest == From(file, pos)
             stop == IndexIn(rest, ChunkEnds(rest))
             raw  == TrimNewlines(Before(rest, stop))
             next == Behind(file, pos + stop - 1)
             none == Read("eof", "field", <<>>, <<>>, Len(file) + 1)
  <1>1. \/ file_chunk_read(file, pos) = none
        \/ file_chunk_read(file, pos) = parse_chunk(raw, next)
    BY DEF file_chunk_read
  <1>2. rest \in Seq(T)
    BY FromOf
  <1> HIDE DEF rest
  <1>3. stop \in 1 .. Len(rest) + 1 /\ stop \in Nat \ {0}
    BY <1>2, FirstBound
  <1> HIDE DEF stop
  <1>4. raw \in Seq(T)
    BY <1>2, <1>3, BeforeOf, NewlinesTrimmed
  <1>5. next \in Nat \ {0}
    BY <1>3 DEF Behind
  <1>6. none \in Chunks(T)
    <2>1. <<>> \in Seq(T) /\ Len(file) + 1 \in Nat \ {0}
      OBVIOUS
    <2> QED BY <2>1 DEF Read, Chunks
  <1> HIDE DEF raw, next, none
  <1>7. parse_chunk(raw, next) \in Chunks(T)
    BY <1>4, <1>5, SectionType, FieldType DEF parse_chunk
  <1> QED BY <1>1, <1>6, <1>7

\* The end of a file.
LEMMA NothingLeft ==
    ASSUME NEW T, NEW file \in Seq(T)
    PROVE  file_chunk_read(file, Len(file) + 1).result = "eof"
  <1>1. From(file, Len(file) + 1) = <<>>
    <2>1. Len(file) + 1 \in Nat \ {0} /\ Len(file) + 1 > Len(file)
      OBVIOUS
    <2> QED BY <2>1, FromOf
  <1> QED BY <1>1 DEF file_chunk_read, Read

-----------------------------------------------------------------------------
(* What is read of what was written.                                         *)

LEMMA EmptyOrFull ==
    ASSUME NEW T, NEW s \in Seq(T)
    PROVE  Len(s) \in Nat /\ (s # <<>> => Len(s) \in Nat \ {0} /\ s[1] = Head(s))
  OBVIOUS

\* The tokens of raw \o <<e>> \o post.
LEMMA Marked ==
    ASSUME NEW T, NEW raw \in Seq(T), NEW e \in T, NEW post \in Seq(T)
    PROVE  /\ raw \o (<<e>> \o post) \in Seq(T)
           /\ Len(raw \o (<<e>> \o post)) = Len(raw) + 1 + Len(post)
           /\ \A k \in 1 .. Len(raw) : (raw \o (<<e>> \o post))[k] = raw[k]
           /\ (raw \o (<<e>> \o post))[Len(raw) + 1] = e
           /\ post # <<>> => (raw \o (<<e>> \o post))[Len(raw) + 2] = post[1]
  <1> DEFINE tail == <<e>> \o post
  <1>1. /\ tail \in Seq(T) /\ Len(tail) = 1 + Len(post) /\ tail[1] = e
        /\ post # <<>> => tail[2] = post[1]
    OBVIOUS
  <1>2. Len(raw) \in Nat /\ Len(post) \in Nat /\ (post # <<>> => Len(post) # 0)
    BY EmptyOrFull
  <1> HIDE DEF tail
  <1>3. /\ raw \o tail \in Seq(T) /\ Len(raw \o tail) = Len(raw) + Len(tail)
        /\ \A k \in 1 .. Len(raw) + Len(tail) :
             (raw \o tail)[k] = IF k <= Len(raw) THEN raw[k] ELSE tail[k - Len(raw)]
    <2>1. tail \in Seq(T)
      BY <1>1
    <2> QED BY <2>1, ConcatProperties, Zenon
  <1>4. \A k \in 1 .. Len(raw) : (raw \o tail)[k] = raw[k]
    BY <1>1, <1>2, <1>3
  <1>5. (raw \o tail)[Len(raw) + 1] = e
    BY <1>1, <1>2, <1>3
  <1>6. post # <<>> => (raw \o tail)[Len(raw) + 2] = post[1]
    BY <1>1, <1>2, <1>3
  <1> QED BY <1>1, <1>2, <1>3, <1>4, <1>5, <1>6 DEF tail

\* Three texts one behind the other, seen from the second and from the third.
Regrouped(T, f1, f2, f3) ==
    /\ f1 \o f2 \in Seq(T) /\ f2 \o f3 \in Seq(T)
    /\ (f1 \o f2) \o f3 = f1 \o (f2 \o f3)

LEMMA ThreeTexts ==
    ASSUME NEW T, NEW f1 \in Seq(T), NEW f2 \in Seq(T), NEW f3 \in Seq(T)
    PROVE  Regrouped(T, f1, f2, f3)
  <1>1. (f1 \o f2) \o f3 = f1 \o (f2 \o f3)
    BY ConcatAssociative
  <1>2. f1 \o f2 \in Seq(T) /\ f2 \o f3 \in Seq(T)
    OBVIOUS
  <1> QED BY <1>1, <1>2 DEF Regrouped

\* A chunk is read up to the token that ends it, and the newline behind that one.
ReadsWhole(pre, raw, e, post) ==
    file_chunk_read(pre \o (raw \o (<<e>> \o post)), Len(pre) + 1) =
      parse_chunk(TrimNewlines(raw),
        Len(pre) + Len(raw) + (IF post # <<>> /\ post[1] \in Newlines THEN 3 ELSE 2))

\* A chunk that goes to the first of its ends is taken whole.
LEMMA ChunkRead ==
    ASSUME NEW T, NEW pre \in Seq(T), NEW raw \in Seq(T), NEW e \in T, NEW post \in Seq(T),
           raw # <<>>, e \in ChunkEnds(raw),
           \A k \in 1 .. Len(raw) : raw[k] \notin ChunkEnds(raw)
    PROVE  ReadsWhole(pre, raw, e, post)
  <1> DEFINE whole == raw \o (<<e>> \o post)
             file == pre \o whole
             pos  == Len(pre) + 1
  <1>1. /\ whole \in Seq(T) /\ Len(whole) = Len(raw) + 1 + Len(post)
        /\ \A k \in 1 .. Len(raw) : whole[k] = raw[k]
        /\ whole[Len(raw) + 1] = e
        /\ post # <<>> => whole[Len(raw) + 2] = post[1]
    BY Marked
  <1>2. /\ Len(raw) \in Nat \ {0} /\ Len(post) \in Nat /\ Len(pre) \in Nat
        /\ post # <<>> <=> Len(post) # 0
    BY EmptyOrFull
  <1> HIDE DEF whole
  <1>3. From(file, pos) = whole
    BY <1>1, FromBehind
  <1>4. ChunkEnds(whole) = ChunkEnds(raw)
    <2>1. whole # <<>> /\ Head(whole) = Head(raw)
      <3>1. Len(whole) # 0 /\ whole[1] = raw[1]
        BY <1>1, <1>2
      <3>2. whole # <<>>
        BY <3>1
      <3> QED BY <1>1, <3>1, <3>2, EmptyOrFull
    <2> QED BY <2>1 DEF ChunkEnds, IsSection
  <1> DEFINE stop == Len(raw) + 1
  <1>5. IndexIn(whole, ChunkEnds(whole)) = stop
    <2>1. stop \in 1 .. Len(whole) + 1 /\ whole[stop] = e
      BY <1>1, <1>2
    <2>2. \A j \in 1 .. stop - 1 : j \in 1 .. Len(raw)
      BY <1>2
    <2>3. \A j \in 1 .. stop - 1 : whole[j] \notin ChunkEnds(whole)
      BY <1>1, <1>4, <2>2
    <2>4. FirstPlace(whole, ChunkEnds(whole), stop)
      BY <1>4, <2>1, <2>3 DEF FirstPlace
    <2> QED BY <1>1, <2>4, FirstInIs
  <1>6. stop \in 1 .. Len(whole) + 1 /\ stop - 1 = Len(raw) /\ ~(stop > Len(whole))
    BY <1>1, <1>2
  <1>7. Before(whole, stop) = raw
    <2> HIDE DEF stop
    <2>2. /\ Before(whole, stop) \in Seq(T) /\ Len(Before(whole, stop)) = stop - 1
          /\ \A j \in 1 .. stop - 1 : Before(whole, stop)[j] = whole[j]
      BY <1>1, <1>6, BeforeOf
    <2>1. /\ Before(whole, stop) \in Seq(T) /\ Len(Before(whole, stop)) = Len(raw)
          /\ \A j \in 1 .. Len(raw) : Before(whole, stop)[j] = whole[j]
      BY <1>6, <2>2
    <2> QED BY <1>1, <2>1, SeqEqual
  <1>8. whole # <<>>
    BY <1>1, <1>2
  <1> DEFINE next == Len(pre) + Len(raw) + (IF post # <<>> /\ post[1] \in Newlines THEN 3 ELSE 2)
             at == pos + stop - 1
  <1>9. Behind(file, at) = next
    <2>1. /\ Len(file) = Len(pre) + Len(whole) /\ at = Len(pre) + Len(raw) + 1
          /\ \A k \in 1 .. Len(pre) + Len(whole) :
               file[k] = IF k <= Len(pre) THEN pre[k] ELSE whole[k - Len(pre)]
      <3>1. at = Len(pre) + Len(raw) + 1
        BY <1>2
      <3>2. whole \in Seq(T)
        BY <1>1
      <3>3. /\ Len(file) = Len(pre) + Len(whole)
            /\ \A k \in 1 .. Len(pre) + Len(whole) :
                 file[k] = IF k <= Len(pre) THEN pre[k] ELSE whole[k - Len(pre)]
        BY <3>2, ConcatProperties, Zenon
      <3> QED BY <3>1, <3>3
    <2>2. at < Len(file) <=> post # <<>>
      BY <1>1, <1>2, <2>1
    <2>3. post # <<>> => file[at + 1] = post[1]
      <3> SUFFICES ASSUME post # <<>> PROVE file[at + 1] = post[1]
        OBVIOUS
      <3>1. at + 1 \in 1 .. Len(pre) + Len(whole) /\ ~(at + 1 <= Len(pre)) /\ (at + 1) - Len(pre) = Len(raw) + 2
        BY <1>1, <1>2, <2>1
      <3> QED BY <1>1, <2>1, <3>1
    <2>4. at + 1 = Len(pre) + Len(raw) + 2 /\ at + 2 = Len(pre) + Len(raw) + 3
      BY <1>2, <2>1
    <2> QED BY <2>2, <2>3, <2>4 DEF Behind
  <1> HIDE DEF stop, next
  <1>10. file_chunk_read(file, pos) = parse_chunk(TrimNewlines(raw), next)
    BY <1>3, <1>5, <1>6, <1>7, <1>8, <1>9 DEF file_chunk_read
  <1> QED BY <1>10 DEF next, whole, ReadsWhole

LEMMA TrimSame ==
    ASSUME NEW T, NEW s \in Seq(T), Trimmed(s)
    PROVE  Trim(s) = s
  <1> DEFINE text == { k \in 1 .. Len(s) : s[k] \notin Whitespace }
  <1>1. CASE s = <<>>
    BY <1>1 DEF Trim
  <1>2. CASE s # <<>>
    <2>1. Len(s) \in Nat \ {0}
      BY <1>2, EmptyOrFull
    <2>2. 1 \in text /\ Len(s) \in text /\ text # {}
      BY <1>2, <2>1 DEF Trimmed
    <2>3. text \in SUBSET Nat /\ text \in SUBSET (0 .. Len(s)) /\ text \subseteq 1 .. Len(s)
      BY <2>1
    <2>4. Trim(s) = SubSeq(s, Min(text), Max(text))
      BY <2>2 DEF Trim
    <2> HIDE DEF text
    <2>5. /\ Min(text) \in text /\ Min(text) <= 1
          /\ Max(text) \in text /\ Len(s) <= Max(text)
      BY <2>1, <2>2, <2>3, MinOf, MaxOf
    <2>6. Min(text) = 1 /\ Max(text) = Len(s)
      <3>1. \A a, b \in 1 .. Len(s) : a <= 1 /\ Len(s) <= b => a = 1 /\ b = Len(s)
        BY <2>1
      <3>2. Min(text) \in 1 .. Len(s) /\ Max(text) \in 1 .. Len(s)
        BY <2>3, <2>5
      <3> QED BY <2>5, <3>1, <3>2
    <2> QED BY <2>4, <2>6, SubSeqFull
  <1> QED BY <1>1, <1>2

\* parse_chunk of a tag, a colon and a value.
LEMMA FieldParsed ==
    ASSUME NEW T, NEW tag \in T, ":" \in T, NEW value \in Seq(T), NEW next \in Nat,
           Plain(tag), Trimmed(value)
    PROVE  /\ TrimNewlines(<<tag, ":">> \o value) = <<tag, ":">> \o value
           /\ parse_chunk(<<tag, ":">> \o value, next) = Read("chunk", "field", <<tag>>, value, next)
  <1> DEFINE raw == <<tag, ":">> \o value
  <1>1. Len(value) \in Nat
    OBVIOUS
  <1>2. <<tag, ":">> \in Seq(T) /\ Len(<<tag, ":">>) = 2
    OBVIOUS
  <1>3. /\ raw \in Seq(T) /\ Len(raw) = Len(value) + 2 /\ raw[1] = tag /\ raw[2] = ":"
        /\ \A k \in 1 .. Len(value) : raw[k + 2] = value[k]
    BY <1>1, <1>2
  <1> HIDE DEF raw
  <1>4. raw # <<>> /\ raw[Len(raw)] \notin Newlines
    <2>1. CASE value = <<>>
      <3>1. Len(raw) = 2
        BY <1>3, <2>1
      <3> QED BY <1>3, <3>1 DEF Newlines
    <2>2. CASE value # <<>>
      <3>1. Len(value) \in 1 .. Len(value) /\ Len(raw) = Len(value) + 2
        BY <1>3, <2>2, EmptyOrFull
      <3>2. raw[Len(raw)] = value[Len(value)]
        BY <1>3, <3>1
      <3>3. value[Len(value)] \notin Newlines
        BY <2>2 DEF Trimmed, Whitespace
      <3>4. raw # <<>>
        BY <1>1, <1>3
      <3> QED BY <3>2, <3>3, <3>4
    <2> QED BY <2>1, <2>2
  <1>5. TrimNewlines(raw) = raw
    BY <1>3, <1>4, NewlinesTrimmed
  <1>6. ~IsSection(raw)
    BY <1>3, <1>4 DEF IsSection, Plain
  <1>7. IndexIn(raw, {":"}) = 2
    <2>1. FirstPlace(raw, {":"}, 2)
      <3>1. 2 \in 1 .. Len(raw) + 1
        BY <1>1, <1>3
      <3>2. \A j \in 1 .. 2 - 1 : j = 1
        OBVIOUS
      <3> QED BY <1>3, <3>1, <3>2 DEF FirstPlace, Plain
    <2> QED BY <1>3, <2>1, FirstInIs
  <1>8. Before(raw, 2) = <<tag>>
    <2>1. 2 \in 1 .. Len(raw) + 1
      BY <1>1, <1>3
    <2>2. /\ Before(raw, 2) \in Seq(T) /\ Len(Before(raw, 2)) = 2 - 1
          /\ \A j \in 1 .. 2 - 1 : Before(raw, 2)[j] = raw[j]
      BY <1>3, <2>1, BeforeOf
    <2> QED BY <1>3, <2>2
  <1>9. From(raw, 3) = value
    <2>1. From(raw, Len(<<tag, ":">>) + 1) = value
      BY <1>2, FromBehind DEF raw
    <2> QED BY <1>2, <2>1
  <1>10. Trim(<<tag>>) = <<tag>> /\ Trim(value) = value
    <2>1. <<tag>> \in Seq(T) /\ Trimmed(<<tag>>)
      BY DEF Trimmed, Plain
    <2> QED BY <2>1, TrimSame
  <1>11. ~(2 > Len(raw))
    BY <1>1, <1>3
  <1>12. parse_chunk(raw, next) = Read("chunk", "field", <<tag>>, value, next)
    BY <1>6, <1>7, <1>8, <1>9, <1>10, <1>11 DEF parse_chunk, ParseField
  <1> QED BY <1>5, <1>12 DEF raw

\* A field that can be read as it is written: the tag is a word, and the value has
\* no tilde, and no space around it.
Writable(T, tag, value) ==
    /\ {":", "~", "\n"} \subseteq T /\ tag \in T /\ Plain(tag)
    /\ value \in Seq(T) /\ Trimmed(value) /\ \A k \in 1 .. Len(value) : value[k] # "~"

\* The field is what is read behind the first n tokens.
FieldAt(text, n, tag, value) ==
    file_chunk_read(text, n + 1) = Read("chunk", "field", <<tag>>, value, n + Len(value) + 5)

\* A field is read as it was written, tag and value, wherever it is in a file, and
\* reading goes on right behind it: for a value without ~ that neither begins nor
\* ends with a newline (file_chunk_write_field, file_chunk_read).
THEOREM FieldRead ==
    ASSUME NEW T, NEW tag, NEW value, Writable(T, tag, value),
           NEW pre \in Seq(T), NEW post \in Seq(T)
    PROVE  /\ file_chunk_write_field(tag, value) \in Seq(T)
           /\ Len(file_chunk_write_field(tag, value)) = Len(value) + 4
           /\ FieldAt(pre \o (file_chunk_write_field(tag, value) \o post), Len(pre), tag, value)
  <1> SUFFICES
        ASSUME {":", "~", "\n"} \subseteq T, tag \in T, Plain(tag),
               value \in Seq(T), Trimmed(value), \A k \in 1 .. Len(value) : value[k] # "~"
        PROVE  /\ file_chunk_write_field(tag, value) \in Seq(T)
               /\ Len(file_chunk_write_field(tag, value)) = Len(value) + 4
               /\ file_chunk_read(pre \o (file_chunk_write_field(tag, value) \o post), Len(pre) + 1) =
                    Read("chunk", "field", <<tag>>, value, Len(pre) + Len(value) + 5)
    BY DEF Writable, FieldAt
  <1> DEFINE raw == <<tag, ":">> \o value
             rest == <<"\n">> \o post
  <1>1. Len(value) \in Nat /\ Len(pre) \in Nat
    OBVIOUS
  <1>2. <<tag, ":">> \in Seq(T) /\ Len(<<tag, ":">>) = 2
    OBVIOUS
  <1>3. /\ raw \in Seq(T) /\ Len(raw) = Len(value) + 2
        /\ \A k \in 1 .. Len(raw) : raw[k] = IF k <= 2 THEN <<tag, ":">>[k] ELSE value[k - 2]
    BY <1>1, <1>2, ConcatProperties
  <1>4. <<"~", "\n">> \in Seq(T) /\ <<"~">> \in Seq(T) /\ <<"\n">> \in Seq(T)
    OBVIOUS
  <1>5. rest \in Seq(T) /\ rest # <<>> /\ rest[1] = "\n"
    BY <1>4
  <1>6. file_chunk_write_field(tag, value) = raw \o <<"~", "\n">>
    BY DEF file_chunk_write_field
  <1> HIDE DEF raw
  <1>7. file_chunk_write_field(tag, value) \o post = raw \o (<<"~">> \o rest)
    <2>1. (raw \o <<"~", "\n">>) \o post = raw \o (<<"~", "\n">> \o post)
      <3>1. raw \in Seq(T) /\ <<"~", "\n">> \in Seq(T)
        BY <1>3, <1>4
      <3>2. Regrouped(T, raw, <<"~", "\n">>, post)
        BY <3>1, ThreeTexts, Zenon
      <3> QED BY <3>2, Zenon DEF Regrouped
    <2>2. <<"~", "\n">> \o post = <<"~">> \o rest
      <3>1. <<"~", "\n">> = <<"~">> \o <<"\n">>
        BY <1>4
      <3> QED BY <1>4, <3>1, ConcatAssociative
    <2> QED BY <1>6, <2>1, <2>2
  <1> HIDE DEF rest
  <1>8. ASSUME NEW k \in 1 .. Len(raw)
        PROVE  raw[k] # "~"
    <2>1. CASE k = 1
      BY <1>3, <2>1 DEF Plain
    <2>2. CASE k = 2
      BY <1>3, <2>2
    <2>3. CASE k > 2
      <3>1. k - 2 \in 1 .. Len(value)
        BY <1>1, <1>3, <2>3
      <3> QED BY <1>3, <2>3, <3>1
    <2> QED BY <2>1, <2>2, <2>3
  <1>9. raw # <<>> /\ ~IsSection(raw)
    <2>1. raw # <<>> /\ raw[1] = tag
      BY <1>1, <1>3
    <2> QED BY <1>3, <2>1, EmptyOrFull DEF IsSection, Plain
  <1>10. ChunkEnds(raw) = {"~"}
    BY <1>9 DEF ChunkEnds
  <1> DEFINE next == Len(pre) + Len(raw) + (IF rest # <<>> /\ rest[1] \in Newlines THEN 3 ELSE 2)
  <1>11. next = Len(pre) + Len(value) + 5
    <2>1. rest[1] \in Newlines
      BY <1>5 DEF Newlines
    <2>2. next = Len(pre) + Len(raw) + 3
      BY <1>5, <2>1
    <2> HIDE DEF next
    <2> QED BY <1>1, <1>3, <2>2
  <1>12. file_chunk_read(pre \o (raw \o (<<"~">> \o rest)), Len(pre) + 1) =
           parse_chunk(TrimNewlines(raw), next)
    <2>1. \A k \in 1 .. Len(raw) : raw[k] \notin ChunkEnds(raw)
      BY <1>8, <1>10
    <2>2. "~" \in T /\ "~" \in ChunkEnds(raw)
      BY <1>10
    <2> HIDE DEF next
    <2>3. raw \in Seq(T) /\ rest \in Seq(T) /\ raw # <<>>
      BY <1>3, <1>5, <1>9
    <2>4. ReadsWhole(pre, raw, "~", rest)
      BY <2>1, <2>2, <2>3, ChunkRead, Zenon
    <2> QED BY <2>4 DEF next, ReadsWhole
  <1> HIDE DEF next
  <1>13. parse_chunk(TrimNewlines(raw), next) = Read("chunk", "field", <<tag>>, value, next)
    <2>1. next \in Nat /\ ":" \in T
      BY <1>1, <1>11
    <2> QED BY <2>1, FieldParsed DEF raw
  <1>14. raw \o <<"~", "\n">> \in Seq(T) /\ Len(raw \o <<"~", "\n">>) = Len(value) + 4
    <2>1. Len(<<"~", "\n">>) = 2
      OBVIOUS
    <2> QED BY <1>1, <1>3, <1>4, <2>1
  <1> QED BY <1>6, <1>7, <1>11, <1>12, <1>13, <1>14

-----------------------------------------------------------------------------
(* str_token_contains. *)

\* A word of a list has no spaces.
Word(T) == { w \in Seq(T) : w # <<>> /\ \A k \in 1 .. Len(w) : w[k] # " " }

\* In a list of n tokens a word of p stands from place k on, between spaces.
StandsAt(list, n, word, p, k) ==
    /\ k \in Nat \ {0} /\ k - 1 + p <= n
    /\ \A j \in 1 .. p : list[k - 1 + j] = word[j]
    /\ k = 1 \/ list[k - 1] = " "
    /\ k + p <= n => list[k + p] = " "

Stands(list, n, word, p) == \E k \in Nat \ {0} : StandsAt(list, n, word, p, k)

\* p tokens without a space among them.
Solid(word, p) == \A j \in 1 .. p : word[j] # " "

SameWord(w, word, p) == \A j \in 1 .. p : w[j] = word[j]

\* The list, a space, and a word of q tokens.
AddedWord(more, list, n, w, q) ==
    /\ \A k \in 1 .. n : more[k] = list[k]
    /\ more[n + 1] = " "
    /\ \A k \in 1 .. q : more[n + 1 + k] = w[k]

LEMMA StandsInItself ==
    ASSUME NEW q \in Nat \ {0}, NEW p \in Nat \ {0},
           NEW w, NEW word, Solid(w, q), Solid(word, p)
    PROVE  Stands(w, q, word, p) <=> p = q /\ SameWord(w, word, p)
  <1>1. ASSUME NEW k \in Nat \ {0}, StandsAt(w, q, word, p, k)
        PROVE  p = q /\ SameWord(w, word, p)
    <2>1. (k = 1 \/ w[k - 1] = " ") /\ (k + p <= q => w[k + p] = " ")
      BY <1>1 DEF StandsAt
    <2>9. k - 1 + p <= q
      BY <1>1 DEF StandsAt
    <2>2. k # 1 => k - 1 \in 1 .. q
      BY <2>9
    <2>3. k = 1
      BY <2>1, <2>2 DEF Solid
    <2>4. p <= q
      BY <2>9, <2>3
    <2>5. p # q => k + p \in 1 .. q /\ k + p <= q
      BY <2>3, <2>4
    <2>6. p = q
      BY <2>1, <2>5 DEF Solid
    <2>7. \A j \in 1 .. p : k - 1 + j = j
      BY <2>3
    <2>8. \A j \in 1 .. p : w[k - 1 + j] = word[j]
      BY <1>1 DEF StandsAt
    <2> QED BY <2>6, <2>7, <2>8 DEF SameWord
  <1>2. ASSUME p = q, SameWord(w, word, p)
        PROVE  StandsAt(w, q, word, p, 1)
    <2>1. \A j \in 1 .. p : 1 - 1 + j = j
      OBVIOUS
    <2>2. 1 - 1 + p <= q /\ ~(1 + p <= q) /\ 1 \in Nat \ {0}
      BY <1>2
    <2> QED BY <1>2, <2>1, <2>2 DEF StandsAt, SameWord
  <1>3. 1 \in Nat \ {0}
    OBVIOUS
  <1> QED BY <1>1, <1>2, <1>3 DEF Stands

\* A word is added to a list behind a space.
LEMMA StandsInMore ==
    ASSUME NEW n \in Nat \ {0}, NEW q \in Nat \ {0}, NEW p \in Nat \ {0},
           NEW list, NEW w, NEW word, NEW more,
           Solid(w, q), Solid(word, p), AddedWord(more, list, n, w, q)
    PROVE  Stands(more, n + 1 + q, word, p) <=>
             Stands(list, n, word, p) \/ (p = q /\ SameWord(w, word, p))
  <1>1. more[n + 1] = " " /\ \A k \in 1 .. n : more[k] = list[k]
    BY DEF AddedWord
  <1>2. ASSUME NEW k \in Nat \ {0}, StandsAt(list, n, word, p, k)
        PROVE  StandsAt(more, n + 1 + q, word, p, k)
    <2>1. k - 1 + p <= n
      BY <1>2 DEF StandsAt
    <2>2. k - 1 + p <= n + 1 + q
      BY <2>1
    <2>3. \A j \in 1 .. p : k - 1 + j \in 1 .. n
      BY <2>1
    <2>4. \A j \in 1 .. p : more[k - 1 + j] = word[j]
      BY <1>1, <1>2, <2>3 DEF StandsAt
    <2>5. k # 1 => k - 1 \in 1 .. n
      BY <2>1
    <2>6. k = 1 \/ more[k - 1] = " "
      BY <1>1, <1>2, <2>5 DEF StandsAt
    <2>7. k + p \in 1 .. n \/ k + p = n + 1
      BY <2>1
    <2>8. more[k + p] = " "
      <3>1. CASE k + p = n + 1
        BY <1>1, <3>1
      <3>2. CASE k + p \in 1 .. n
        <4>1. k + p <= n
          BY <3>2
        <4>2. list[k + p] = " "
          BY <1>2, <4>1 DEF StandsAt
        <4> QED BY <1>1, <3>2, <4>2
      <3> QED BY <2>7, <3>1, <3>2
    <2> QED BY <2>2, <2>4, <2>6, <2>8 DEF StandsAt
  <1>3. ASSUME p = q, SameWord(w, word, p)
        PROVE  StandsAt(more, n + 1 + q, word, p, n + 2)
    <2>1. /\ n + 2 \in Nat \ {0} /\ (n + 2) - 1 = n + 1 /\ (n + 2) - 1 + p <= n + 1 + q
          /\ ~((n + 2) + p <= n + 1 + q)
      BY <1>3
    <2>2. \A j \in 1 .. p : more[n + 1 + j] = word[j]
      BY <1>3 DEF SameWord, AddedWord
    <2>3. \A j \in 1 .. p : more[(n + 2) - 1 + j] = word[j]
      BY <2>1, <2>2
    <2>4. more[(n + 2) - 1] = " "
      BY <1>1, <2>1
    <2> QED BY <2>1, <2>3, <2>4 DEF StandsAt
  <1>4. ASSUME NEW k \in Nat \ {0}, StandsAt(more, n + 1 + q, word, p, k), k <= n
        PROVE  StandsAt(list, n, word, p, k)
    <2>1. k - 1 + p <= n
      <3> SUFFICES ASSUME ~(k - 1 + p <= n)
                   PROVE  FALSE
        OBVIOUS
      <3> DEFINE i == n + 2 - k
      <3>1. i \in 1 .. p /\ k - 1 + i = n + 1
        BY <1>4
      <3> HIDE DEF i
      <3>2. more[k - 1 + i] = word[i]
        BY <1>4, <3>1 DEF StandsAt
      <3> QED BY <1>1, <3>1, <3>2 DEF Solid
    <2>2. \A j \in 1 .. p : k - 1 + j \in 1 .. n
      BY <2>1
    <2>3. \A j \in 1 .. p : list[k - 1 + j] = word[j]
      BY <1>1, <1>4, <2>2 DEF StandsAt
    <2>4. k # 1 => k - 1 \in 1 .. n
      BY <1>4
    <2>5. k = 1 \/ list[k - 1] = " "
      BY <1>1, <1>4, <2>4 DEF StandsAt
    <2>6. k + p <= n => k + p \in 1 .. n /\ k + p <= n + 1 + q
      OBVIOUS
    <2>7. k + p <= n => list[k + p] = " "
      BY <1>1, <1>4, <2>6 DEF StandsAt
    <2> QED BY <2>1, <2>3, <2>5, <2>7 DEF StandsAt
  <1>5. ASSUME NEW k \in Nat \ {0}, StandsAt(more, n + 1 + q, word, p, k), ~(k <= n)
        PROVE  p = q /\ SameWord(w, word, p)
    <2>1. k - 1 + p <= n + 1 + q
      BY <1>5 DEF StandsAt
    <2>9. k = 1 \/ more[k - 1] = " "
      BY <1>5 DEF StandsAt
    <2>2. k # n + 1
      <3>1. k - 1 + 1 = k /\ 1 \in 1 .. p
        OBVIOUS
      <3>2. more[k] = word[1]
        BY <1>5, <3>1 DEF StandsAt
      <3> QED BY <1>1, <3>1, <3>2 DEF Solid
    <2>3. k = n + 2
      <3> SUFFICES ASSUME k # n + 2
                   PROVE  FALSE
        OBVIOUS
      <3> DEFINE i == k - 1 - (n + 1)
      <3>1. i \in 1 .. q /\ n + 1 + i = k - 1 /\ k # 1
        BY <1>5, <2>1, <2>2
      <3> HIDE DEF i
      <3>2. more[n + 1 + i] = w[i]
        BY <3>1 DEF AddedWord
      <3> QED BY <2>9, <3>1, <3>2 DEF Solid
    <2>4. p <= q
      BY <2>1, <2>3
    <2>5. p = q
      <3> SUFFICES ASSUME p # q
                   PROVE  FALSE
        OBVIOUS
      <3> DEFINE i == p + 1
      <3>1. k + p <= n + 1 + q /\ i \in 1 .. q /\ k + p = n + 1 + i
        BY <2>3, <2>4
      <3> HIDE DEF i
      <3>2. more[k + p] = " "
        BY <1>5, <3>1 DEF StandsAt
      <3>3. more[n + 1 + i] = w[i]
        BY <3>1 DEF AddedWord
      <3> QED BY <3>1, <3>2, <3>3 DEF Solid
    <2>6. \A j \in 1 .. p : k - 1 + j = n + 1 + j
      BY <2>3
    <2>7. \A j \in 1 .. p : more[k - 1 + j] = word[j]
      BY <1>5 DEF StandsAt
    <2>8. \A j \in 1 .. p : more[n + 1 + j] = w[j]
      BY <2>5 DEF AddedWord
    <2> QED BY <2>5, <2>6, <2>7, <2>8 DEF SameWord
  <1>6. n + 2 \in Nat \ {0}
    OBVIOUS
  <1> QED BY <1>2, <1>3, <1>4, <1>5, <1>6 DEF Stands

LEMMA PrefixIs ==
    ASSUME NEW T, NEW s \in Seq(T), NEW t \in Seq(T)
    PROVE  IsPrefix(s, t) <=> Len(s) <= Len(t) /\ \A j \in 1 .. Len(s) : t[j] = s[j]
  <1>1. PICK n \in Nat : n = Len(s)
    OBVIOUS
  <1>2. IsPrefix(s, t) <=> n <= Len(t) /\ SubSeq(s, 1, n) = SubSeq(t, 1, n)
    BY <1>1 DEF IsPrefix
  <1>3. SubSeq(s, 1, n) = s
    BY <1>1, SubSeqFull
  <1>4. ASSUME n <= Len(t)
        PROVE  s = SubSeq(t, 1, n) <=> \A j \in 1 .. n : t[j] = s[j]
    <2>1. n \in Int /\ 1 <= n + 1 /\ n - 1 + 1 = n /\ 1 \in Nat \ {0}
      OBVIOUS
    <2>2. /\ SubSeq(t, 1, n) \in Seq(T) /\ Len(SubSeq(t, 1, n)) = n
          /\ \A k \in 1 .. n : SubSeq(t, 1, n)[k] = t[1 + k - 1]
      <3>1. /\ SubSeq(t, 1, n) \in Seq(T) /\ Len(SubSeq(t, 1, n)) = n - 1 + 1
            /\ \A k \in 1 .. n - 1 + 1 : SubSeq(t, 1, n)[k] = t[1 + k - 1]
        BY <1>4, <2>1, PartOf
      <3> QED BY <2>1, <3>1
    <2>3. \A k \in 1 .. n : SubSeq(t, 1, n)[k] = t[k]
      <3>1. \A k \in 1 .. n : 1 + k - 1 = k
        OBVIOUS
      <3> QED BY <2>2, <3>1
    <2>4. ASSUME \A j \in 1 .. n : t[j] = s[j]
          PROVE  s = SubSeq(t, 1, n)
      <3>1. Len(s) = Len(SubSeq(t, 1, n)) /\ \A j \in 1 .. Len(s) : s[j] = SubSeq(t, 1, n)[j]
        BY <1>1, <2>2, <2>3, <2>4
      <3> QED BY <2>2, <3>1, SeqEqual
    <2> QED BY <2>3, <2>4
  <1> QED BY <1>1, <1>2, <1>3, <1>4

LEMMA WordIs ==
    ASSUME NEW T, NEW word \in Word(T)
    PROVE  /\ word \in Seq(T) /\ word # <<>> /\ Len(word) \in Nat \ {0}
           /\ Solid(word, Len(word)) /\ word[1] # " "
  <1>1. word \in Seq(T) /\ word # <<>> /\ \A k \in 1 .. Len(word) : word[k] # " "
    BY DEF Word
  <1>2. Len(word) \in Nat \ {0}
    BY <1>1, EmptyOrFull
  <1>3. 1 \in 1 .. Len(word)
    BY <1>2
  <1> QED BY <1>1, <1>2, <1>3 DEF Solid

\* What the loop of str_token_contains looks for at place k.
Found(list, k, word) ==
    /\ k \in TokenStarts(list)
    /\ IsPrefix(word, From(list, k))
    /\ Len(From(list, k)) > Len(word) => From(list, k)[Len(word) + 1] = " "

\* What is left of s from place k is m elements of it.
FromIs(T, s, k, m) ==
    From(s, k) \in Seq(T) /\ Len(From(s, k)) = m /\ \A j \in 1 .. m : From(s, k)[j] = s[k + j - 1]

LEMMA FromWithin ==
    ASSUME NEW T, NEW s \in Seq(T), NEW n \in Nat, n = Len(s), NEW k \in 1 .. n + 1,
           NEW m \in Nat, m = n + 1 - k
    PROVE  FromIs(T, s, k, m)
  <1> USE DEF FromIs
  <1>1. k \in Nat \ {0}
    OBVIOUS
  <1>2. /\ From(s, k) \in Seq(T)
        /\ k <= Len(s) + 1 =>
             /\ Len(From(s, k)) = Len(s) + 1 - k
             /\ \A j \in 1 .. Len(s) + 1 - k : From(s, k)[j] = s[k + j - 1]
    BY <1>1, FromOf
  <1>3. k <= Len(s) + 1 /\ Len(s) + 1 - k = m
    OBVIOUS
  <1> QED BY <1>2, <1>3

LEMMA FoundStands ==
    ASSUME NEW T, NEW list \in Seq(T), NEW word \in Word(T), NEW n \in Nat, n = Len(list),
           NEW p \in Nat \ {0}, p = Len(word), NEW k \in 1 .. n + 1
    PROVE  Found(list, k, word) <=> StandsAt(list, n, word, p, k)
  <1>1. word \in Seq(T) /\ word[1] # " "
    BY WordIs
  <1> DEFINE rest == From(list, k)
  <1>2. PICK m \in Nat : m = n + 1 - k
    OBVIOUS
  <1>3. rest \in Seq(T) /\ Len(rest) = m /\ \A j \in 1 .. m : rest[j] = list[k + j - 1]
    <2>1. FromIs(T, list, k, m)
      BY <1>2, FromWithin, Zenon
    <2> QED BY <2>1 DEF FromIs
  <1> HIDE DEF rest
  <1>4. IsPrefix(word, rest) <=> p <= m /\ \A j \in 1 .. p : rest[j] = word[j]
    <2>1. word \in Seq(T) /\ rest \in Seq(T)
      BY <1>1, <1>3
    <2>2. IsPrefix(word, rest) <=> Len(word) <= Len(rest) /\ \A j \in 1 .. Len(word) : rest[j] = word[j]
      BY <2>1, PrefixIs
    <2> QED BY <1>3, <2>2
  <1>5. p <= m <=> k - 1 + p <= n
    BY <1>2
  <1>6. p <= m => \A j \in 1 .. p : j \in 1 .. m /\ k + j - 1 = k - 1 + j
    BY <1>2
  <1>7. p <= m => \A j \in 1 .. p : rest[j] = list[k - 1 + j]
    BY <1>3, <1>6
  <1>8. m > p <=> k + p <= n
    BY <1>2
  <1>9. m > p => p + 1 \in 1 .. m /\ k + (p + 1) - 1 = k + p
    BY <1>2
  <1>10. m > p => rest[p + 1] = list[k + p]
    BY <1>3, <1>9
  <1>11. Found(list, k, word) <=>
           /\ k \in TokenStarts(list)
           /\ p <= m /\ \A j \in 1 .. p : rest[j] = word[j]
           /\ m > p => rest[p + 1] = " "
    BY <1>3, <1>4 DEF Found, rest
  <1>12. k \in TokenStarts(list) =>
           (k = 1 \/ list[k - 1] = " ")
    BY DEF TokenStarts
  <1>13. ASSUME k = 1 \/ list[k - 1] = " ", k - 1 + p <= n, list[k] = word[1]
         PROVE  k \in TokenStarts(list)
    <2>1. k - 1 + p <= n
      BY <1>13
    <2>2. n # 0
      BY <2>1
    <2>4. list # <<>>
      BY <2>2
    <2>3. k \in 1 .. Len(list) + 1
      OBVIOUS
    <2> QED BY <1>1, <1>13, <2>3, <2>4 DEF TokenStarts
  <1>14. k - 1 + 1 = k /\ 1 \in 1 .. p /\ k \in Nat \ {0}
    OBVIOUS
  <1>15. ASSUME Found(list, k, word)
         PROVE  StandsAt(list, n, word, p, k)
    BY <1>5, <1>7, <1>8, <1>10, <1>11, <1>12, <1>14, <1>15 DEF StandsAt
  <1>16. ASSUME StandsAt(list, n, word, p, k)
         PROVE  Found(list, k, word)
    <2>1. list[k - 1 + 1] = word[1]
      BY <1>14, <1>16 DEF StandsAt
    <2>2. k \in TokenStarts(list)
      BY <1>13, <1>14, <1>16, <2>1 DEF StandsAt
    <2> QED BY <1>5, <1>7, <1>8, <1>10, <1>11, <1>16, <2>2 DEF StandsAt
  <1> QED BY <1>15, <1>16

LEMMA ContainsIs ==
    ASSUME NEW T, NEW list \in Seq(T), NEW word \in Word(T)
    PROVE  str_token_contains(list, word) <=> Stands(list, Len(list), word, Len(word))
  <1>1. PICK n \in Nat : n = Len(list)
    OBVIOUS
  <1>2. PICK p \in Nat \ {0} : p = Len(word)
    BY WordIs
  <1>3. \A k \in 1 .. n + 1 : Found(list, k, word) <=> StandsAt(list, n, word, p, k)
    BY <1>1, <1>2, FoundStands
  <1>4. str_token_contains(list, word) <=> \E k \in TokenStarts(list) : Found(list, k, word)
    BY DEF str_token_contains, Found
  <1>5. TokenStarts(list) \subseteq 1 .. n + 1
    BY <1>1 DEF TokenStarts
  <1>6. \A k \in Nat \ {0} : k - 1 + p <= n => k \in 1 .. n + 1
    OBVIOUS
  <1>7. \A k \in Nat \ {0} : StandsAt(list, n, word, p, k) => k \in 1 .. n + 1
    BY <1>6 DEF StandsAt
  <1>8. \A k \in 1 .. n + 1 : k \in Nat \ {0}
    OBVIOUS
  <1>9. \A k : Found(list, k, word) => k \in TokenStarts(list)
    BY DEF Found
  <1> QED BY <1>1, <1>2, <1>3, <1>4, <1>5, <1>7, <1>8, <1>9 DEF Stands

LEMMA WordInNothing ==
    ASSUME NEW word
    PROVE  ~str_token_contains(<<>>, word)
  BY DEF str_token_contains, TokenStarts

LEMMA SameIs ==
    ASSUME NEW T, NEW w \in Word(T), NEW word \in Word(T)
    PROVE  word = w <=> Len(word) = Len(w) /\ SameWord(w, word, Len(word))
  <1>1. word \in Seq(T) /\ w \in Seq(T)
    BY WordIs
  <1>2. ASSUME Len(word) = Len(w), SameWord(w, word, Len(word))
        PROVE  word = w
    BY <1>1, <1>2, SeqEqual DEF SameWord
  <1> QED BY <1>2 DEF SameWord

\* A list of one word.
LEMMA WordInOne ==
    ASSUME NEW T, NEW w \in Word(T), NEW word \in Word(T)
    PROVE  str_token_contains(w, word) <=> word = w
  <1>1. /\ w \in Seq(T) /\ Len(w) \in Nat \ {0} /\ Solid(w, Len(w))
        /\ word \in Seq(T) /\ Len(word) \in Nat \ {0} /\ Solid(word, Len(word))
    BY WordIs
  <1>2. Stands(w, Len(w), word, Len(word)) <=> Len(word) = Len(w) /\ SameWord(w, word, Len(word))
    BY <1>1, StandsInItself
  <1> QED BY <1>1, <1>2, ContainsIs, SameIs

Joint(u, s, t) ==
    /\ Len(u) = Len(s) + Len(t)
    /\ \A k \in 1 .. Len(s) : u[k] = s[k]
    /\ \A k \in 1 .. Len(t) : u[Len(s) + k] = t[k]

LEMMA JoinedIs ==
    ASSUME NEW T, NEW s \in Seq(T), NEW t \in Seq(T)
    PROVE  s \o t \in Seq(T) /\ Joint(s \o t, s, t)
  BY DEF Joint

\* The tokens of a list to which a word is added.
AddedTo(more, list, e, w, n, q) ==
    /\ Len(more) = n + 1 + q
    /\ \A k \in 1 .. n : more[k] = list[k]
    /\ more[n + 1] = e
    /\ \A k \in 1 .. q : more[n + 1 + k] = w[k]

LEMMA AddedIs ==
    ASSUME NEW T, NEW list \in Seq(T), NEW e \in T, NEW w \in Seq(T),
           NEW n \in Nat, n = Len(list), NEW q \in Nat, q = Len(w)
    PROVE  list \o <<e>> \o w \in Seq(T) /\ AddedTo(list \o <<e>> \o w, list, e, w, n, q)
  <1> DEFINE front == list \o <<e>>
  <1>1. /\ front \in Seq(T) /\ Len(front) = n + 1 /\ front[n + 1] = e
        /\ \A k \in 1 .. n : front[k] = list[k]
    <2>1. <<e>> \in Seq(T) /\ Len(<<e>>) = 1 /\ <<e>>[1] = e
      OBVIOUS
    <2> QED BY <2>1
  <1> HIDE DEF front
  <1>2. /\ front \o w \in Seq(T) /\ Len(front \o w) = n + 1 + q
        /\ \A k \in 1 .. n + 1 : (front \o w)[k] = front[k]
        /\ \A k \in 1 .. q : (front \o w)[n + 1 + k] = w[k]
    <2>1. PICK m \in Nat : m = n + 1
      OBVIOUS
    <2>2. m = Len(front)
      BY <1>1, <2>1
    <2>3. /\ front \o w \in Seq(T) /\ Len(front \o w) = m + q
          /\ \A k \in 1 .. m : (front \o w)[k] = front[k]
          /\ \A k \in 1 .. q : (front \o w)[m + k] = w[k]
      <3>1. front \in Seq(T)
        BY <1>1
      <3>2. front \o w \in Seq(T) /\ Joint(front \o w, front, w)
        BY <3>1, JoinedIs
      <3> QED BY <2>2, <3>2, Zenon DEF Joint
    <2> QED BY <2>1, <2>3
  <1>3. n + 1 \in 1 .. n + 1 /\ \A k \in 1 .. n : k \in 1 .. n + 1
    OBVIOUS
  <1>4. AddedTo(front \o w, list, e, w, n, q)
    BY <1>1, <1>2, <1>3 DEF AddedTo
  <1> QED BY <1>2, <1>4 DEF front

\* A word is added behind a space, as account_add_character does.
LEMMA WordInMore ==
    ASSUME NEW T, NEW e \in T, e = " ", NEW list \in Seq(T), list # <<>>,
           NEW w \in Word(T), NEW word \in Word(T)
    PROVE  str_token_contains(list \o <<e>> \o w, word) <=>
             str_token_contains(list, word) \/ word = w
  <1>1. /\ w \in Seq(T) /\ Solid(w, Len(w)) /\ Solid(word, Len(word))
    BY WordIs
  <1>2. PICK n \in Nat \ {0} : n = Len(list)
    BY EmptyOrFull
  <1>3. PICK p \in Nat \ {0} : p = Len(word)
    BY WordIs
  <1>4. PICK q \in Nat \ {0} : q = Len(w)
    BY WordIs
  <1> DEFINE more == list \o <<e>> \o w
  <1>5. more \in Seq(T) /\ AddedTo(more, list, e, w, n, q)
    <2>1. w \in Seq(T) /\ n \in Nat /\ q \in Nat
      BY <1>1
    <2> QED BY <1>2, <1>4, <2>1, AddedIs
  <1> HIDE DEF more
  <1>6. AddedWord(more, list, n, w, q) /\ Len(more) = n + 1 + q
    BY <1>5 DEF AddedWord, AddedTo
  <1>7. Stands(more, n + 1 + q, word, p) <=>
          Stands(list, n, word, p) \/ (p = q /\ SameWord(w, word, p))
    <2>1. Solid(w, q) /\ Solid(word, p)
      BY <1>1, <1>3, <1>4
    <2> QED BY <1>6, <2>1, StandsInMore, Zenon
  <1>8. str_token_contains(more, word) <=> Stands(more, n + 1 + q, word, p)
    BY <1>3, <1>5, <1>6, ContainsIs
  <1>9. str_token_contains(list, word) <=> Stands(list, n, word, p)
    BY <1>2, <1>3, ContainsIs
  <1>10. word = w <=> p = q /\ SameWord(w, word, p)
    BY <1>3, <1>4, SameIs
  <1> QED BY <1>7, <1>8, <1>9, <1>10 DEF more

-----------------------------------------------------------------------------
(* Texts that stand in a file.                                               *)

\* Text that may follow the token that ends a chunk.
Begins(w) == w # <<>> => w[1] \notin Newlines

\* Behind n tokens of the file stands the text, and behind it no newline.
Holds(T, file, n, w) ==
    \E pre, post \in Seq(T) :
        /\ w \in Seq(T) /\ Begins(post)
        /\ Len(pre) = n /\ file = pre \o (w \o post)

LEMMA BeginsJoined ==
    ASSUME NEW T, NEW u \in Seq(T), NEW v \in Seq(T), Begins(u), Begins(v)
    PROVE  u \o v \in Seq(T) /\ Begins(u \o v)
  <1>1. u \o v \in Seq(T)
    OBVIOUS
  <1>2. CASE u = <<>>
    <2>1. u \o v = v
      BY <1>2
    <2> QED BY <1>1, <2>1
  <1>3. CASE u # <<>>
    <2>1. (u \o v)[1] = u[1]
      <3>1. Len(u) \in Nat \ {0}
        BY <1>3, EmptyOrFull
      <3>2. Joint(u \o v, u, v)
        BY JoinedIs
      <3> QED BY <3>1, <3>2 DEF Joint
    <2> QED BY <1>1, <1>3, <2>1 DEF Begins
  <1> QED BY <1>2, <1>3

LEMMA HoldsType ==
    ASSUME NEW T, NEW file, NEW n, NEW w, Holds(T, file, n, w)
    PROVE  w \in Seq(T) /\ n \in Nat /\ Len(w) \in Nat /\ file \in Seq(T)
  <1>1. PICK pre, post \in Seq(T) : w \in Seq(T) /\ Len(pre) = n /\ file = pre \o (w \o post)
    BY DEF Holds
  <1>2. w \o post \in Seq(T)
    BY <1>1
  <1>3. pre \o (w \o post) \in Seq(T)
    BY <1>2, JoinedIs
  <1> QED BY <1>1, <1>3

\* Of two texts each stands in the file where the other ends.
LEMMA HoldsBoth ==
    ASSUME NEW T, NEW file, NEW n, NEW u \in Seq(T), NEW v \in Seq(T), Begins(v),
           Holds(T, file, n, u \o v)
    PROVE  Holds(T, file, n, u) /\ Holds(T, file, n + Len(u), v)
  <1>1. PICK pre, post \in Seq(T) : /\ Begins(post) /\ Len(pre) = n
                                    /\ file = pre \o ((u \o v) \o post)
    BY DEF Holds
  <1>2. PICK vp \in Seq(T) : vp = v \o post /\ Begins(vp)
    BY <1>1, BeginsJoined
  <1>3. (u \o v) \o post = u \o vp
    <2>1. Regrouped(T, u, v, post)
      BY ThreeTexts, Zenon
    <2> QED BY <1>2, <2>1, Zenon DEF Regrouped
  <1>4. Holds(T, file, n, u)
    BY <1>1, <1>2, <1>3 DEF Holds
  <1>5. PICK pu \in Seq(T) : pu = pre \o u /\ Len(pu) = Len(pre) + Len(u)
    BY JoinedIs DEF Joint
  <1>6. pre \o (u \o vp) = pu \o vp
    <2>1. Regrouped(T, pre, u, vp)
      BY ThreeTexts, Zenon
    <2> QED BY <1>5, <2>1 DEF Regrouped
  <1>7. file = pu \o (v \o post) /\ Len(pu) = n + Len(u)
    BY <1>1, <1>2, <1>3, <1>5, <1>6
  <1> QED BY <1>1, <1>4, <1>7 DEF Holds

\* A file holds what is written to it.
LEMMA HoldsWhole ==
    ASSUME NEW T, NEW file \in Seq(T)
    PROVE  Holds(T, file, 0, file)
  <1>1. <<>> \in Seq(T) /\ Len(<<>>) = 0 /\ Begins(<<>>)
    BY DEF Begins
  <1>2. file = <<>> \o (file \o <<>>)
    OBVIOUS
  <1> QED BY <1>1, <1>2 DEF Holds

-----------------------------------------------------------------------------
(* What is read where a chunk stands in a file.                              *)

Space == " "

LEMMA Spaced ==
    /\ Space \in Whitespace /\ Newlines \subseteq Whitespace
    /\ Space \notin {"~"} \cup Newlines
    /\ \A tag : Plain(tag) => tag # Space /\ tag \notin Newlines /\ tag \notin {"#", ":", "~"}
    /\ Plain("end")
  <1>1. Whitespace = {Space} \cup Newlines
    BY DEF Whitespace, Space
  <1>2. Space # "~" /\ Space \notin Newlines
    BY Zenon DEF Space, Newlines
  <1>3. "end" # Space
    BY Zenon DEF Space
  <1>4. "end" \notin Newlines /\ "end" \notin {"#", ":", "~"}
    BY DEF Newlines
  <1> QED BY <1>1, <1>2, <1>3, <1>4, Zenon DEF Plain

LEMMA EndWritten ==
    ASSUME NEW tag
    PROVE  file_chunk_write_section_end(tag) = <<"#", "end", Space, tag, "\n">>
  BY Zenon DEF file_chunk_write_section_end, Space

LEMMA InlineWritten ==
    ASSUME NEW tag, NEW args
    PROVE  file_chunk_write_section_inline(tag, args) = <<"#", tag, Space>> \o args \o <<"~", "\n">>
  BY Zenon DEF file_chunk_write_section_inline, Space

\* parse_chunk of a section whose tag and value are known.
LEMMA SectionIs ==
    ASSUME NEW raw, IsSection(raw), NEW next, NEW tag, NEW value,
           Trim(Before(Tail(raw), IndexIn(Tail(raw), {Space}))) = tag,
           Trim(From(Tail(raw), IndexIn(Tail(raw), {Space}))) = value
    PROVE  parse_chunk(raw, next) = IF tag = <<"end">> THEN Read("chunk", "end", value, <<>>, next)
                                    ELSE Read("chunk", "start", tag, value, next)
  <1>1. ParseSection(raw, next) = IF tag = <<"end">> THEN Read("chunk", "end", value, <<>>, next)
                                  ELSE Read("chunk", "start", tag, value, next)
    BY Zenon DEF ParseSection, Space
  <1> QED BY <1>1 DEF parse_chunk

\* The chunk that is read behind n tokens is the one given, and ends behind m.
ChunkAt(file, n, type, tag, value, m) ==
    file_chunk_read(file, n + 1) = Read("chunk", type, <<tag>>, value, m + 1)

LEMMA FieldHeld ==
    ASSUME NEW T, NEW file, NEW n, NEW tag, NEW value, Writable(T, tag, value),
           Holds(T, file, n, file_chunk_write_field(tag, value))
    PROVE  ChunkAt(file, n, "field", tag, value, n + Len(file_chunk_write_field(tag, value)))
  <1>1. PICK pre, post \in Seq(T) :
            Len(pre) = n /\ file = pre \o (file_chunk_write_field(tag, value) \o post)
    BY DEF Holds
  <1>2. /\ FieldAt(file, n, tag, value)
        /\ Len(file_chunk_write_field(tag, value)) = Len(value) + 4
    BY <1>1, FieldRead
  <1>3. Len(value) \in Nat /\ n \in Nat
    BY <1>1 DEF Writable
  <1>4. n + Len(value) + 5 = (n + (Len(value) + 4)) + 1
    BY <1>3
  <1> QED BY <1>2, <1>4 DEF FieldAt, ChunkAt

LEMMA OneToken ==
    ASSUME NEW T, NEW t \in T
    PROVE  <<t>> \in Seq(T) /\ Len(<<t>>) = 1 /\ <<t>>[1] = t
  OBVIOUS

\* A tag alone is its own line.
LEMMA PlainParts ==
    ASSUME NEW T, NEW tag \in T, Plain(tag)
    PROVE  /\ Trim(<<tag>>) = <<tag>> /\ IndexIn(<<tag>>, {Space}) = 2
           /\ Before(<<tag>>, 2) = <<tag>> /\ From(<<tag>>, 2) = <<>>
  <1>1. <<tag>> \in Seq(T) /\ Len(<<tag>>) = 1 /\ <<tag>>[1] = tag
    BY OneToken
  <1>2. PICK s \in Seq(T) : s = <<tag>> /\ Len(s) = 1 /\ s[1] = tag
    BY <1>1
  <1>3. Trimmed(s)
    BY <1>2 DEF Trimmed, Plain
  <1>4. FirstPlace(s, {Space}, 2)
    BY <1>2, Spaced DEF FirstPlace
  <1>5. 2 \in 1 .. Len(s) + 1 /\ 2 - 1 = 1 /\ 2 > Len(s)
    BY <1>2
  <1>6. From(s, 2) = <<>>
    BY <1>5, FromOf
  <1>7. Before(s, 2) = s
    <2>1. /\ Before(s, 2) \in Seq(T) /\ Len(Before(s, 2)) = 2 - 1
          /\ \A j \in 1 .. 2 - 1 : Before(s, 2)[j] = s[j]
      BY <1>5, BeforeOf
    <2> QED BY <1>2, <1>5, <2>1, SeqEqual
  <1> QED BY <1>2, <1>3, <1>4, <1>6, <1>7, TrimSame, FirstInIs

\* What is behind a space.
LEMMA TrimLeading ==
    ASSUME NEW T, Space \in T, NEW t \in Seq(T), t # <<>>, Trimmed(t)
    PROVE  <<Space>> \o t \in Seq(T) /\ Trim(<<Space>> \o t) = t
  <1>1. PICK e \in Seq(T) : e = <<Space>> /\ Len(e) = 1 /\ e[1] = Space
    BY OneToken
  <1>2. PICK s \in Seq(T) : s = e \o t /\ Joint(s, e, t) /\ From(s, 2) = t
    <2>1. e \o t \in Seq(T) /\ Joint(e \o t, e, t)
      BY JoinedIs
    <2>2. From(e \o t, Len(e) + 1) = t
      BY FromBehind
    <2>3. Len(e) + 1 = 2
      BY <1>1
    <2> QED BY <2>1, <2>2, <2>3
  <1>3. PICK m \in Nat \ {0} : m = Len(t)
    BY EmptyOrFull
  <1>4. Len(s) = m + 1 /\ s[1] = Space /\ s[2] = t[1] /\ s[m + 1] = t[m]
    <2>1. Len(s) = 1 + m /\ s[1] = e[1] /\ \A k \in 1 .. m : s[1 + k] = t[k]
      BY <1>1, <1>2, <1>3 DEF Joint
    <2>2. 1 \in 1 .. m /\ m \in 1 .. m /\ 1 + 1 = 2 /\ 1 + m = m + 1
      OBVIOUS
    <2> QED BY <1>1, <2>1, <2>2
  <1> DEFINE text == { k \in 1 .. Len(s) : s[k] \notin Whitespace }
  <1>5. /\ text \in SUBSET Nat /\ text \in SUBSET (0 .. m + 1) /\ text \subseteq 1 .. m + 1
        /\ 1 \notin text /\ 2 \in text /\ m + 1 \in text
    BY <1>3, <1>4, Spaced DEF Trimmed
  <1>6. Trim(s) = SubSeq(s, Min(text), Max(text))
    BY <1>5 DEF Trim
  <1> HIDE DEF text
  <1>7. /\ Min(text) \in text /\ Min(text) <= 2 /\ Max(text) \in text /\ m + 1 <= Max(text)
    <2>1. m + 1 \in Nat /\ text # {}
      BY <1>5
    <2> QED BY <1>5, <2>1, MinOf, MaxOf
  <1>8. Min(text) = 2 /\ Max(text) = Len(s)
    <2>1. \A a, b \in 1 .. m + 1 : a <= 2 /\ m + 1 <= b => (a = 1 \/ a = 2) /\ b = m + 1
      OBVIOUS
    <2> QED BY <1>4, <1>5, <1>7, <2>1
  <1> QED BY <1>1, <1>2, <1>6, <1>8 DEF From

TagFirst(line, word, t) ==
    IndexIn(line, {Space}) = 2 /\ Trim(Before(line, 2)) = <<word>> /\ Trim(From(line, 2)) = t

LEMMA TagBehindSpace ==
    ASSUME NEW T, Space \in T, NEW t \in Seq(T), t # <<>>, Trimmed(t), NEW word \in T,
           NEW line \in Seq(T), line = <<word, Space>> \o t, Plain(word)
    PROVE  TagFirst(line, word, t)
  <1>1. PICK w \in Seq(T) : w = <<word>> /\ Len(w) = 1 /\ w[1] = word
    BY OneToken
  <1>2. PICK r \in Seq(T) : r = <<Space>> \o t /\ Trim(r) = t /\ r[1] = Space /\ Len(r) \in Nat /\ Len(r) >= 1
    <2>1. PICK e \in Seq(T) : e = <<Space>> /\ Len(e) = 1 /\ e[1] = Space
      BY OneToken
    <2>2. e \o t \in Seq(T) /\ Joint(e \o t, e, t) /\ Len(t) \in Nat
      BY JoinedIs
    <2>3. (e \o t)[1] = Space /\ Len(e \o t) \in Nat /\ Len(e \o t) >= 1
      BY <2>1, <2>2 DEF Joint
    <2>4. Trim(e \o t) = t
      BY <2>1, TrimLeading
    <2> QED BY <2>1, <2>2, <2>3, <2>4
  <1>3. line = w \o r
    <2>1. PICK e \in Seq(T) : e = <<Space>>
      BY OneToken
    <2>2. <<word, Space>> = w \o e
      BY <1>1, <2>1
    <2>3. (w \o e) \o t = w \o (e \o t)
      <3>1. Regrouped(T, w, e, t)
        BY ThreeTexts, Zenon
      <3> QED BY <3>1, Zenon DEF Regrouped
    <2> QED BY <1>2, <2>1, <2>2, <2>3
  <1>4. Joint(line, w, r)
    BY <1>3, JoinedIs
  <1>5. line[1] = word /\ line[2] = Space /\ Len(line) \in Nat /\ Len(line) >= 2
    <2>1. line[1] = w[1] /\ line[1 + 1] = r[1] /\ Len(line) = 1 + Len(r)
      BY <1>1, <1>2, <1>4 DEF Joint
    <2> QED BY <1>1, <1>2, <2>1
  <1>6. IndexIn(line, {Space}) = 2
    <2>1. FirstPlace(line, {Space}, 2)
      BY <1>5, Spaced DEF FirstPlace
    <2> QED BY <2>1, FirstInIs
  <1>7. Before(line, 2) = w
    <2>1. 2 \in 1 .. Len(line) + 1 /\ 2 - 1 = 1
      BY <1>5
    <2>2. /\ Before(line, 2) \in Seq(T) /\ Len(Before(line, 2)) = 1
          /\ \A j \in 1 .. 1 : Before(line, 2)[j] = line[j]
      BY <2>1, BeforeOf
    <2> QED BY <1>1, <1>5, <2>2, SeqEqual
  <1>8. From(line, 2) = r
    <2>1. From(w \o r, Len(w) + 1) = r
      BY FromBehind
    <2>2. Len(w) + 1 = 2
      BY <1>1
    <2> QED BY <1>3, <2>1, <2>2
  <1> QED BY <1>1, <1>2, <1>6, <1>7, <1>8, PlainParts DEF TagFirst

LEMMA TailOfOne ==
    ASSUME NEW T, NEW x \in T, NEW s \in Seq(T)
    PROVE  Tail(<<x>> \o s) = s
  <1>1. PICK e \in Seq(T) : e = <<x>> /\ Len(e) = 1
    BY OneToken
  <1>2. PICK u \in Seq(T) : u = e \o s /\ Len(u) = 1 + Len(s) /\ Len(s) \in Nat
    <2>1. e \o s \in Seq(T) /\ Joint(e \o s, e, s) /\ Len(s) \in Nat
      BY JoinedIs
    <2> QED BY <1>1, <2>1 DEF Joint
  <1>3. u # <<>>
    BY <1>2
  <1>4. Tail(u) = SubSeq(u, 2, Len(u))
    BY <1>3, TailIsSubSeq
  <1>5. From(e \o s, Len(e) + 1) = s
    BY FromBehind
  <1>6. Len(e) + 1 = 2
    BY <1>1
  <1> QED BY <1>1, <1>2, <1>4, <1>5, <1>6 DEF From

LEMMA StartHeld ==
    ASSUME NEW T, "#" \in T, "\n" \in T, NEW tag \in T, Plain(tag), tag # "end",
           NEW file, NEW n, Holds(T, file, n, file_chunk_write_section_start(tag))
    PROVE  ChunkAt(file, n, "start", tag, <<>>, n + 3)
  <1>1. PICK pre, post \in Seq(T) :
            /\ Begins(post) /\ Len(pre) = n
            /\ file = pre \o (<<"#", tag, "\n">> \o post)
    BY DEF Holds, file_chunk_write_section_start
  <1>2. PICK raw \in Seq(T) : /\ raw = <<"#", tag>> /\ Len(raw) = 2 /\ raw[1] = "#" /\ raw[2] = tag
                              /\ Tail(raw) = <<tag>> /\ Head(raw) = "#" /\ raw # <<>>
    <2>1. <<"#", tag>> \in Seq(T)
      OBVIOUS
    <2>2. Tail(<<"#", tag>>) = <<tag>> /\ Head(<<"#", tag>>) = "#"
      OBVIOUS
    <2> QED BY <2>1, <2>2
  <1>3. <<"#", tag, "\n">> \o post = raw \o (<<"\n">> \o post)
    <2>1. PICK e \in Seq(T) : e = <<"\n">>
      BY OneToken
    <2>2. <<"#", tag, "\n">> = raw \o e
      BY <1>2, <2>1
    <2>3. (raw \o e) \o post = raw \o (e \o post)
      <3>1. Regrouped(T, raw, e, post)
        BY ThreeTexts, Zenon
      <3> QED BY <3>1, Zenon DEF Regrouped
    <2> QED BY <2>1, <2>2, <2>3
  <1>4. IsSection(raw) /\ ChunkEnds(raw) = {"~"} \cup Newlines
    BY <1>2 DEF IsSection, ChunkEnds
  <1>5. \A k \in 1 .. Len(raw) : raw[k] \notin ChunkEnds(raw)
    <2>1. \A k \in 1 .. Len(raw) : k = 1 \/ k = 2
      BY <1>2
    <2> QED BY <1>2, <1>4, <2>1 DEF Plain, Whitespace, Newlines
  <1>6. file_chunk_read(file, Len(pre) + 1) =
          parse_chunk(TrimNewlines(raw),
            Len(pre) + Len(raw) + (IF post # <<>> /\ post[1] \in Newlines THEN 3 ELSE 2))
    <2>1. "\n" \in T /\ "\n" \in ChunkEnds(raw)
      BY <1>4 DEF Newlines
    <2>2. file = pre \o (raw \o (<<"\n">> \o post)) /\ raw # <<>>
      BY <1>1, <1>2, <1>3
    <2>3. ReadsWhole(pre, raw, "\n", post)
      BY <1>5, <2>1, <2>2, ChunkRead, Zenon
    <2> QED BY <2>2, <2>3, Zenon DEF ReadsWhole
  <1>7. Len(pre) + Len(raw) + (IF post # <<>> /\ post[1] \in Newlines THEN 3 ELSE 2) = (n + 3) + 1
    BY <1>1, <1>2 DEF Begins
  <1>8. TrimNewlines(raw) = raw
    BY <1>2, NewlinesTrimmed DEF Plain, Whitespace
  <1>9. parse_chunk(raw, (n + 3) + 1) = Read("chunk", "start", <<tag>>, <<>>, (n + 3) + 1)
    <2>1. Trim(<<>>) = <<>>
      BY DEF Trim
    <2>2. <<tag>> # <<"end">>
      OBVIOUS
    <2>3. /\ IndexIn(Tail(raw), {Space}) = 2
          /\ Trim(Before(Tail(raw), 2)) = <<tag>> /\ Trim(From(Tail(raw), 2)) = <<>>
      BY <1>2, <2>1, PlainParts
    <2> QED BY <1>4, <2>2, <2>3, SectionIs
  <1> QED BY <1>1, <1>6, <1>7, <1>8, <1>9 DEF ChunkAt

\* A blank line or none.
Blank(T, blank, size) ==
    /\ blank \in Seq(T) /\ Len(blank) = size
    /\ (blank = <<>> /\ size = 0) \/ (blank # <<>> /\ size = 1 /\ blank[1] = "\n")

LEMMA BlankIs ==
    ASSUME NEW T, "\n" \in T
    PROVE  Blank(T, <<>>, 0) /\ Blank(T, <<"\n">>, 1)
  <1>1. <<>> \in Seq(T)
    OBVIOUS
  <1>2. <<"\n">> \in Seq(T) /\ Len(<<"\n">>) = 1 /\ <<"\n">>[1] = "\n"
    BY OneToken
  <1> QED BY <1>1, <1>2 DEF Blank

LEMMA EndHeld ==
    ASSUME NEW T, "#" \in T, "end" \in T, Space \in T, "\n" \in T, NEW tag \in T, Plain(tag),
           NEW blank, NEW size \in Nat, Blank(T, blank, size),
           NEW file, NEW n, Holds(T, file, n, file_chunk_write_section_end(tag) \o blank)
    PROVE  ChunkAt(file, n, "end", tag, <<>>, n + 5 + size)
  <1>1. PICK pre, post \in Seq(T) :
            /\ Begins(post) /\ Len(pre) = n
            /\ file = pre \o ((<<"#", "end", Space, tag, "\n">> \o blank) \o post)
    BY EndWritten DEF Holds
  <1>2. PICK raw \in Seq(T) : /\ raw = <<"#", "end", Space, tag>> /\ Len(raw) = 4
                              /\ raw[1] = "#" /\ raw[2] = "end" /\ raw[3] = Space /\ raw[4] = tag
                              /\ Tail(raw) = <<"end", Space, tag>> /\ Head(raw) = "#" /\ raw # <<>>
    <2>1. <<"#", "end", Space, tag>> \in Seq(T)
      OBVIOUS
    <2>2. Tail(<<"#", "end", Space, tag>>) = <<"end", Space, tag>> /\ Head(<<"#", "end", Space, tag>>) = "#"
      OBVIOUS
    <2> QED BY <2>1, <2>2
  <1>3. blank \in Seq(T) /\ Len(blank) = size /\ ((blank = <<>> /\ size = 0) \/ (blank # <<>> /\ size = 1 /\ blank[1] = "\n"))
    BY DEF Blank
  <1>4. PICK more \in Seq(T) : more = blank \o post
    BY <1>3, JoinedIs
  <1>5. (<<"#", "end", Space, tag, "\n">> \o blank) \o post = raw \o (<<"\n">> \o more)
    <2>1. PICK e \in Seq(T) : e = <<"\n">>
      BY OneToken
    <2>2. <<"#", "end", Space, tag, "\n">> = raw \o e
      BY <1>2, <2>1
    <2>3. raw \o e \in Seq(T) /\ blank \in Seq(T)
      BY <1>3
    <2>4. ((raw \o e) \o blank) \o post = (raw \o e) \o (blank \o post)
      <3>1. Regrouped(T, raw \o e, blank, post)
        BY <2>3, ThreeTexts, Zenon
      <3> QED BY <3>1, Zenon DEF Regrouped
    <2>5. (raw \o e) \o more = raw \o (e \o more)
      <3>1. Regrouped(T, raw, e, more)
        BY ThreeTexts, Zenon
      <3> QED BY <3>1, Zenon DEF Regrouped
    <2> QED BY <1>4, <2>1, <2>2, <2>4, <2>5
  <1>6. IsSection(raw) /\ ChunkEnds(raw) = {"~"} \cup Newlines
    BY <1>2 DEF IsSection, ChunkEnds
  <1>7. \A k \in 1 .. Len(raw) : raw[k] \notin ChunkEnds(raw)
    <2>1. \A k \in 1 .. Len(raw) : k = 1 \/ k = 2 \/ k = 3 \/ k = 4
      BY <1>2
    <2>2. "#" \notin {"~"} \cup Newlines /\ "end" \notin {"~"} \cup Newlines
      BY DEF Newlines
    <2>3. tag \notin {"~"} \cup Newlines
      BY Spaced
    <2> QED BY <1>2, <1>6, <2>1, <2>2, <2>3, Spaced
  <1>8. file_chunk_read(file, Len(pre) + 1) =
          parse_chunk(TrimNewlines(raw),
            Len(pre) + Len(raw) + (IF more # <<>> /\ more[1] \in Newlines THEN 3 ELSE 2))
    <2>1. "\n" \in T /\ "\n" \in ChunkEnds(raw)
      BY <1>6 DEF Newlines
    <2>2. file = pre \o (raw \o (<<"\n">> \o more)) /\ raw # <<>>
      BY <1>1, <1>2, <1>5
    <2>3. ReadsWhole(pre, raw, "\n", more)
      BY <1>7, <2>1, <2>2, ChunkRead, Zenon
    <2> QED BY <2>2, <2>3, Zenon DEF ReadsWhole
  <1>9. Len(pre) + Len(raw) + (IF more # <<>> /\ more[1] \in Newlines THEN 3 ELSE 2)
          = (n + 5 + size) + 1
    <2>1. CASE blank = <<>> /\ size = 0
      <3>1. more = post
        BY <1>4, <2>1
      <3> QED BY <1>1, <1>2, <2>1, <3>1 DEF Begins
    <2>2. CASE blank # <<>> /\ size = 1 /\ blank[1] = "\n"
      <3>1. more # <<>> /\ more[1] = "\n"
        <4>1. Len(blank) = 1 /\ Len(post) \in Nat
          BY <1>3, <2>2
        <4>2. Joint(more, blank, post)
          BY <1>3, <1>4, JoinedIs
        <4> QED BY <1>4, <2>2, <4>1, <4>2 DEF Joint
      <3> QED BY <1>1, <1>2, <2>2, <3>1 DEF Newlines
    <2> QED BY <1>3, <2>1, <2>2
  <1>10. TrimNewlines(raw) = raw
    BY <1>2, NewlinesTrimmed DEF Plain, Whitespace
  <1>11. parse_chunk(raw, (n + 5 + size) + 1) = Read("chunk", "end", <<tag>>, <<>>, (n + 5 + size) + 1)
    <2>1. PICK line \in Seq(T), t \in Seq(T) :
              line = <<"end", Space, tag>> /\ t = <<tag>> /\ t # <<>> /\ Trimmed(t)
      <3>1. <<"end", Space, tag>> \in Seq(T) /\ <<tag>> \in Seq(T)
        OBVIOUS
      <3>2. <<tag>> # <<>> /\ Trimmed(<<tag>>)
        BY DEF Trimmed, Plain
      <3> QED BY <3>1, <3>2
    <2>2. line = <<"end", Space>> \o t
      BY <2>1
    <2>3. Plain("end")
      BY Spaced
    <2>4. PICK word \in T : word = "end"
      OBVIOUS
    <2>5. TagFirst(line, word, t)
      <3>1. line = <<word, Space>> \o t /\ Plain(word) /\ t # <<>> /\ Trimmed(t)
        BY <2>1, <2>2, <2>3, <2>4
      <3> QED BY <3>1, TagBehindSpace, Zenon
    <2>6. /\ Trim(Before(Tail(raw), IndexIn(Tail(raw), {Space}))) = <<"end">>
          /\ Trim(From(Tail(raw), IndexIn(Tail(raw), {Space}))) = <<tag>>
      BY <1>2, <2>1, <2>4, <2>5 DEF TagFirst
    <2> QED BY <1>6, <2>6, SectionIs
  <1> QED BY <1>1, <1>8, <1>9, <1>10, <1>11 DEF ChunkAt

\* An inline section, which ends at its tilde.
LEMMA InlineHeld ==
    ASSUME NEW T, "#" \in T, Space \in T, "~" \in T, "\n" \in T, NEW tag \in T, Plain(tag), tag # "end",
           NEW args \in Seq(T), args # <<>>, Trimmed(args),
           \A k \in 1 .. Len(args) : args[k] \notin {"~"} \cup Newlines,
           NEW file, NEW n, Holds(T, file, n, file_chunk_write_section_inline(tag, args))
    PROVE  ChunkAt(file, n, "start", tag, args, n + Len(args) + 5)
  <1>1. PICK pre, post \in Seq(T) :
            /\ Len(pre) = n
            /\ file = pre \o ((<<"#", tag, Space>> \o args \o <<"~", "\n">>) \o post)
    BY InlineWritten DEF Holds
  <1>2. PICK size \in Nat \ {0} : size = Len(args)
    BY EmptyOrFull
  <1>3. PICK h \in Seq(T) : h = <<"#", tag, Space>> /\ Len(h) = 3 /\ h[1] = "#" /\ h[2] = tag /\ h[3] = Space
    <2>1. <<"#", tag, Space>> \in Seq(T)
      OBVIOUS
    <2> QED BY <2>1
  <1>4. PICK line \in Seq(T) : line = <<tag, Space>> \o args /\ h \o args = <<"#">> \o line
    <2>1. PICK x \in Seq(T), y \in Seq(T) : x = <<"#">> /\ y = <<tag, Space>>
      <3>1. <<"#">> \in Seq(T) /\ <<tag, Space>> \in Seq(T)
        OBVIOUS
      <3> QED BY <3>1
    <2>2. h = x \o y
      BY <1>3, <2>1
    <2>3. (x \o y) \o args = x \o (y \o args) /\ y \o args \in Seq(T)
      <3>1. Regrouped(T, x, y, args)
        BY ThreeTexts, Zenon
      <3> QED BY <3>1, Zenon DEF Regrouped
    <2> QED BY <2>1, <2>2, <2>3
  <1>5. PICK raw \in Seq(T) : /\ raw = h \o args /\ Joint(raw, h, args)
    BY JoinedIs
  <1>6. /\ Len(raw) = size + 3 /\ raw[1] = "#" /\ raw[2] = tag /\ raw[3] = Space
        /\ \A k \in 1 .. size : raw[3 + k] = args[k]
    <2>1. /\ Len(raw) = 3 + size /\ \A k \in 1 .. 3 : raw[k] = h[k]
          /\ \A k \in 1 .. size : raw[3 + k] = args[k]
      BY <1>2, <1>3, <1>5 DEF Joint
    <2> QED BY <1>3, <2>1
  <1>7. raw # <<>> /\ Head(raw) = "#" /\ Tail(raw) = line
    <2>1. raw = <<"#">> \o line
      BY <1>4, <1>5
    <2>2. Tail(<<"#">> \o line) = line
      BY <1>4, TailOfOne
    <2> QED BY <1>6, <2>1, <2>2, EmptyOrFull
  <1>8. IsSection(raw) /\ ChunkEnds(raw) = {"~"} \cup Newlines
    BY <1>7 DEF IsSection, ChunkEnds
  <1>9. ASSUME NEW k \in 1 .. Len(raw)
        PROVE  raw[k] \notin ChunkEnds(raw)
    <2>1. k \in {1, 2, 3} \/ \E j \in 1 .. size : k = 3 + j
      <3>1. k > 3 => k - 3 \in 1 .. size /\ k = 3 + (k - 3)
        BY <1>6
      <3>2. k \in {1, 2, 3} \/ k > 3
        BY <1>6
      <3> QED BY <3>1, <3>2
    <2>2. CASE k \in {1, 2, 3}
      <3>1. "#" \notin {"~"} \cup Newlines
        BY DEF Newlines
      <3>2. tag \notin {"~"} \cup Newlines
        BY Spaced
      <3> QED BY <1>6, <1>8, <2>2, <3>1, <3>2, Spaced
    <2>3. CASE \E j \in 1 .. size : k = 3 + j
      BY <1>2, <1>6, <1>8, <2>3
    <2> QED BY <2>1, <2>2, <2>3
  <1>10. PICK more \in Seq(T) : /\ more = <<"\n">> \o post /\ more # <<>> /\ more[1] = "\n"
                                /\ (h \o args \o <<"~", "\n">>) \o post = raw \o (<<"~">> \o more)
    <2>1. PICK x \in Seq(T), y \in Seq(T) : x = <<"~">> /\ y = <<"\n">> /\ Len(y) = 1 /\ y[1] = "\n"
      BY OneToken
    <2>2. <<"~", "\n">> = x \o y /\ x \o y \in Seq(T)
      BY <2>1
    <2>3. (raw \o (x \o y)) \o post = raw \o ((x \o y) \o post)
      <3>1. Regrouped(T, raw, x \o y, post)
        BY <2>2, ThreeTexts, Zenon
      <3> QED BY <3>1, Zenon DEF Regrouped
    <2>4. (x \o y) \o post = x \o (y \o post)
      <3>1. Regrouped(T, x, y, post)
        BY ThreeTexts, Zenon
      <3> QED BY <3>1, Zenon DEF Regrouped
    <2>5. y \o post \in Seq(T) /\ Joint(y \o post, y, post) /\ Len(post) \in Nat
      BY JoinedIs
    <2>6. (y \o post)[1] = "\n" /\ y \o post # <<>>
      BY <2>1, <2>5 DEF Joint
    <2> QED BY <1>5, <2>1, <2>2, <2>3, <2>4, <2>5, <2>6
  <1>11. file_chunk_read(file, Len(pre) + 1) =
          parse_chunk(TrimNewlines(raw),
            Len(pre) + Len(raw) + (IF more # <<>> /\ more[1] \in Newlines THEN 3 ELSE 2))
    <2>1. "~" \in T /\ "~" \in ChunkEnds(raw)
      BY <1>8
    <2>2. file = pre \o (raw \o (<<"~">> \o more))
      BY <1>1, <1>3, <1>10
    <2>3. ReadsWhole(pre, raw, "~", more)
      BY <1>7, <1>9, <2>1, ChunkRead, Zenon
    <2> QED BY <2>2, <2>3, Zenon DEF ReadsWhole
  <1>12. Len(pre) + Len(raw) + (IF more # <<>> /\ more[1] \in Newlines THEN 3 ELSE 2)
          = (n + Len(args) + 5) + 1
    <2>1. more[1] \in Newlines /\ n \in Nat
      BY <1>1, <1>10 DEF Newlines
    <2>2. Len(pre) + Len(raw) + 3 = (n + Len(args) + 5) + 1
      BY <1>1, <1>2, <1>6, <2>1
    <2> QED BY <1>10, <2>1, <2>2
  <1>13. TrimNewlines(raw) = raw
    <2>1. size \in 1 .. size
      OBVIOUS
    <2>2. raw[Len(raw)] = args[size]
      <3>1. Len(raw) = 3 + size
        BY <1>6
      <3> QED BY <1>6, <2>1, <3>1
    <2>3. raw[Len(raw)] \notin Newlines
      BY <1>2, <2>1, <2>2
    <2> QED BY <1>7, <2>3, NewlinesTrimmed
  <1>14. ASSUME NEW next
         PROVE  parse_chunk(raw, next) = Read("chunk", "start", <<tag>>, args, next)
    <2>1. TagFirst(line, tag, args)
      <3>1. line = <<tag, Space>> \o args
        BY <1>4
      <3> QED BY <3>1, TagBehindSpace, Zenon
    <2>2. <<tag>> # <<"end">>
      OBVIOUS
    <2>3. /\ Trim(Before(Tail(raw), IndexIn(Tail(raw), {Space}))) = <<tag>>
          /\ Trim(From(Tail(raw), IndexIn(Tail(raw), {Space}))) = args
      BY <1>7, <2>1 DEF TagFirst
    <2> QED BY <1>8, <2>2, <2>3, SectionIs
  <1> QED BY <1>1, <1>11, <1>12, <1>13, <1>14 DEF ChunkAt

-----------------------------------------------------------------------------
(* Texts that are put one behind the other by FlattenSeq.                    *)

\* g[k] is the first k of the texts.
Flat(T, P, n, g) ==
    /\ g \in [1 .. n -> Seq(T)]
    /\ \A k \in 1 .. n : g[k] = IF k = 1 THEN P[k] ELSE g[k - 1] \o P[k]

\* One text more.
LEMMA FlatMore ==
    ASSUME NEW T, NEW P, NEW n \in Nat, NEW m \in 1 .. n, \A k \in 1 .. n : P[k] \in Seq(T),
           NEW g, Flat(T, P, m - 1, g)
    PROVE  \E h : Flat(T, P, m, h)
  <1> DEFINE new == IF m = 1 THEN P[m] ELSE g[m - 1] \o P[m]
             h == [k \in 1 .. m |-> IF k = m THEN new ELSE g[k]]
  <1>1. new \in Seq(T)
    <2>1. P[m] \in Seq(T)
      OBVIOUS
    <2>2. ASSUME m # 1 PROVE g[m - 1] \o P[m] \in Seq(T)
      <3>1. m - 1 \in 1 .. m - 1
        BY <2>2
      <3>2. g[m - 1] \in Seq(T)
        BY <3>1 DEF Flat
      <3> QED BY <2>1, <3>2, JoinedIs
    <2> QED BY <2>1, <2>2
  <1> HIDE DEF new
  <1>2. \A k \in 1 .. m : k # m => k \in 1 .. m - 1
    OBVIOUS
  <1>3. h \in [1 .. m -> Seq(T)]
    BY <1>1, <1>2 DEF Flat
  <1>4. h[m] = new /\ \A k \in 1 .. m - 1 : h[k] = g[k]
    OBVIOUS
  <1>5. ASSUME NEW k \in 1 .. m
        PROVE  h[k] = IF k = 1 THEN P[k] ELSE h[k - 1] \o P[k]
    <2>1. k # 1 => k - 1 \in 1 .. m - 1
      OBVIOUS
    <2>2. CASE k = m
      <3>1. k # 1 => h[k - 1] = g[k - 1]
        BY <1>4, <2>1
      <3> QED BY <1>4, <2>2, <3>1 DEF new
    <2>3. CASE k # m
      <3>1. k # 1 => h[k - 1] = g[k - 1]
        BY <1>4, <2>1
      <3>2. k \in 1 .. m - 1
        BY <1>2, <2>3
      <3>3. g[k] = IF k = 1 THEN P[k] ELSE g[k - 1] \o P[k]
        BY <3>2 DEF Flat
      <3> QED BY <1>4, <3>1, <3>2, <3>3
    <2> QED BY <2>2, <2>3
  <1> HIDE DEF h
  <1>6. Flat(T, P, m, h)
    BY <1>3, <1>5 DEF Flat
  <1> QED BY <1>6

LEMMA FlatExists ==
    ASSUME NEW T, NEW P, NEW n \in Nat, \A k \in 1 .. n : P[k] \in Seq(T)
    PROVE  \E g : Flat(T, P, n, g)
  <1> DEFINE bad == { m \in 0 .. n : ~ \E g : Flat(T, P, m, g) }
  <1>1. SUFFICES ASSUME bad # {} PROVE FALSE
    <2>1. n \in 0 .. n
      OBVIOUS
    <2> QED BY <2>1
  <1>2. PICK m \in bad : \A k \in bad : m <= k
    <2>1. bad \in SUBSET Nat
      OBVIOUS
    <2> HIDE DEF bad
    <2> QED BY <1>1, <2>1, MinOf
  <1>3. m # 0
    <2>1. Flat(T, P, 0, [k \in 1 .. 0 |-> <<>>])
      BY DEF Flat
    <2> QED BY <1>2, <2>1
  <1>4. m \in 1 .. n /\ m - 1 \in 0 .. n /\ ~(m <= m - 1)
    BY <1>2, <1>3
  <1>5. m - 1 \notin bad
    BY <1>2, <1>4
  <1>6. PICK g : Flat(T, P, m - 1, g)
    BY <1>4, <1>5
  <1>7. \E h : Flat(T, P, m, h)
    BY <1>4, <1>6, FlatMore
  <1> QED BY <1>2, <1>7

LEMMA FlattenIs ==
    ASSUME NEW T, NEW P, NEW n \in Nat \ {0}, n = Len(P), \A k \in 1 .. n : P[k] \in Seq(T)
    PROVE  \E g : Flat(T, P, n, g) /\ FlattenSeq(P) = g[n]
  <1> DEFINE Step(g) == [k \in 1 .. n |-> IF k = 1 THEN P[k] ELSE g[k - 1] \o P[k]]
             h == CHOOSE g : g = Step(g)
  <1>1. PICK g : Flat(T, P, n, g)
    BY FlatExists
  <1>2. g = Step(g)
    BY <1>1 DEF Flat
  <1>3. h = Step(h)
    <2> HIDE DEF Step
    <2> QED BY <1>2
  <1>4. FlattenSeq(P) = h[n]
    BY DEF FlattenSeq
  <1> HIDE DEF h
  <1>5. h = g
    <2> DEFINE bad == { m \in 1 .. n : h[m] # g[m] }
    <2>1. ASSUME bad # {} PROVE FALSE
      <3>1. PICK m \in bad : \A k \in bad : m <= k
        <4>1. bad \in SUBSET Nat
          OBVIOUS
        <4> HIDE DEF bad
        <4> QED BY <2>1, <4>1, MinOf
      <3>2. m \in 1 .. n /\ ~(m <= m - 1) /\ (m # 1 => m - 1 \in 1 .. n)
        BY <3>1
      <3>3. m # 1 => h[m - 1] = g[m - 1]
        BY <3>1, <3>2
      <3>4. /\ h[m] = IF m = 1 THEN P[m] ELSE h[m - 1] \o P[m]
            /\ g[m] = IF m = 1 THEN P[m] ELSE g[m - 1] \o P[m]
        BY <1>2, <1>3, <3>2
      <3> QED BY <3>1, <3>3, <3>4
    <2>2. \A k \in 1 .. n : h[k] = g[k]
      BY <2>1
    <2>3. h = [k \in 1 .. n |-> h[k]] /\ g = [k \in 1 .. n |-> g[k]]
      BY <1>2, <1>3
    <2> HIDE DEF Step
    <2> QED BY <2>2, <2>3
  <1> QED BY <1>1, <1>4, <1>5

LEMMA FlattenNothing ==
    FlattenSeq(<<>>) = <<>>
  BY DEF FlattenSeq

\* The first k texts stand in the file, one behind the other; text i begins behind
\* at[i] tokens.
Laid(T, file, at, P, k) ==
    /\ at \in [1 .. k + 1 -> Nat]
    /\ \A i \in 1 .. k : /\ Holds(T, file, at[i], P[i])
                         /\ \A j \in 1 .. k + 1 : j = i + 1 => at[j] = at[i] + Len(P[i])

\* The first texts stand in the file, and each of the others where they end.
FlatStands(T, P, n, g, file, s) ==
    /\ \A k \in 1 .. n : Holds(T, file, s, g[k])
    /\ \A i, k \in 1 .. n : i = k + 1 =>
         /\ Holds(T, file, s + Len(g[k]), P[i])
         /\ Len(g[i]) = Len(g[k]) + Len(P[i])

LEMMA FlatHeld ==
    ASSUME NEW T, NEW P, NEW n \in Nat \ {0}, NEW g, Flat(T, P, n, g), NEW file, NEW s \in Nat,
           \A k \in 1 .. n : P[k] \in Seq(T) /\ Begins(P[k]), Holds(T, file, s, g[n])
    PROVE  FlatStands(T, P, n, g, file, s)
  <1>1. ASSUME NEW k \in 1 .. n, NEW i \in 1 .. n, i = k + 1
        PROVE  /\ g[k] \in Seq(T) /\ P[i] \in Seq(T) /\ Begins(P[i]) /\ g[i] = g[k] \o P[i]
               /\ Len(g[i]) = Len(g[k]) + Len(P[i])
    <2>1. i # 1 /\ i - 1 = k
      BY <1>1
    <2>2. g[k] \in Seq(T) /\ g[i] = g[k] \o P[i]
      BY <1>1, <2>1 DEF Flat
    <2>3. P[i] \in Seq(T) /\ Begins(P[i])
      OBVIOUS
    <2> QED BY <2>2, <2>3, JoinedIs DEF Joint
  <1>2. ASSUME NEW k \in 1 .. n, NEW i \in 1 .. n, i = k + 1, Holds(T, file, s, g[i])
        PROVE  Holds(T, file, s, g[k]) /\ Holds(T, file, s + Len(g[k]), P[i])
    <2>1. PICK u, v : u = g[k] /\ v = P[i]
      OBVIOUS
    <2>2. u \in Seq(T) /\ v \in Seq(T) /\ Begins(v) /\ g[i] = u \o v
      BY <1>1, <1>2, <2>1
    <2>3. Holds(T, file, s, u \o v)
      BY <1>2, <2>2
    <2>4. Holds(T, file, s, u) /\ Holds(T, file, s + Len(u), v)
      BY <2>2, <2>3, HoldsBoth, Zenon
    <2> QED BY <2>1, <2>4
  <1> DEFINE bad == { k \in 1 .. n : ~ Holds(T, file, s, g[k]) }
  <1>3. ASSUME bad # {} PROVE FALSE
    <2>1. PICK m \in bad : \A k \in bad : k <= m
      <3>1. bad \in SUBSET (0 .. n)
        OBVIOUS
      <3> HIDE DEF bad
      <3> QED BY <1>3, <3>1, MaxOf
    <2>2. m # n /\ m \in 1 .. n
      BY <2>1
    <2>3. PICK i \in 1 .. n : i = m + 1 /\ ~(i <= m)
      <3>1. m + 1 \in 1 .. n /\ ~(m + 1 <= m)
        BY <2>2
      <3> QED BY <3>1
    <2>4. Holds(T, file, s, g[i])
      BY <2>1, <2>3
    <2>5. Holds(T, file, s, g[m])
      BY <1>2, <2>2, <2>3, <2>4
    <2> QED BY <2>1, <2>5
  <1>4. \A k \in 1 .. n : Holds(T, file, s, g[k])
    BY <1>3
  <1> HIDE DEF bad
  <1> QED BY <1>1, <1>2, <1>4 DEF FlatStands

LaidOut(T, file, P, n, s, e) == \E at : Laid(T, file, at, P, n) /\ at[1] = s /\ at[n + 1] = e

LEMMA FlattenLaid ==
    ASSUME NEW T, NEW P, NEW n \in Nat, n = Len(P),
           n = 0 => P = <<>>, \A k \in 1 .. n : P[k] \in Seq(T) /\ Begins(P[k]),
           NEW file, NEW s, Holds(T, file, s, FlattenSeq(P))
    PROVE  LaidOut(T, file, P, n, s, s + Len(FlattenSeq(P)))
  <1>1. s \in Nat /\ Len(FlattenSeq(P)) \in Nat
    BY HoldsType
  <1>2. CASE n = 0
    <2> DEFINE at == [k \in 1 .. 1 |-> s]
    <2>1. FlattenSeq(P) = <<>> /\ Len(<<>>) = 0
      BY <1>2, FlattenNothing
    <2>2. s + Len(FlattenSeq(P)) = s
      BY <1>1, <2>1
    <2>3. 1 .. n + 1 = 1 .. 1 /\ 1 .. n = {} /\ n + 1 = 1 /\ 1 \in 1 .. 1
      BY <1>2
    <2>4. at \in [1 .. 1 -> Nat] /\ at[1] = s
      BY <1>1
    <2> HIDE DEF at
    <2>5. Laid(T, file, at, P, n)
      BY <2>3, <2>4 DEF Laid
    <2> QED BY <2>2, <2>3, <2>4, <2>5 DEF LaidOut
  <1>3. CASE n # 0
    <2>1. PICK g : Flat(T, P, n, g) /\ FlattenSeq(P) = g[n]
      <3>1. n \in Nat \ {0}
        BY <1>3
      <3> QED BY <3>1, FlattenIs
    <2>2. n \in Nat \ {0} /\ Holds(T, file, s, g[n])
      BY <1>3, <2>1
    <2>3. /\ \A k \in 1 .. n : Holds(T, file, s, g[k])
          /\ \A i, k \in 1 .. n : i = k + 1 =>
               Holds(T, file, s + Len(g[k]), P[i]) /\ Len(g[i]) = Len(g[k]) + Len(P[i])
      <3>1. FlatStands(T, P, n, g, file, s)
        BY <1>1, <2>1, <2>2, FlatHeld, Zenon
      <3> QED BY <3>1 DEF FlatStands
    <2>4. \A k \in 1 .. n : Len(g[k]) \in Nat
      BY <2>1 DEF Flat
    <2>5. 1 \in 1 .. n /\ g[1] = P[1]
      <3>1. 1 \in 1 .. n
        BY <2>2
      <3> QED BY <2>1, <3>1 DEF Flat
    <2> DEFINE len == [k \in 1 .. n |-> Len(g[k])]
               at == [k \in 1 .. n + 1 |-> IF k = 1 THEN s ELSE s + len[k - 1]]
    <2>6. \A k \in 1 .. n + 1 : k # 1 => k - 1 \in 1 .. n
      OBVIOUS
    <2>7. at \in [1 .. n + 1 -> Nat]
      BY <1>1, <2>4, <2>6
    <2>8. at[1] = s /\ \A k \in 1 .. n, j \in 1 .. n + 1 : j = k + 1 => at[j] = s + Len(g[k])
      <3>1. 1 \in 1 .. n + 1
        OBVIOUS
      <3>2. ASSUME NEW k \in 1 .. n, NEW j \in 1 .. n + 1, j = k + 1
            PROVE  at[j] = s + Len(g[k])
        <4>1. j # 1 /\ j - 1 = k
          BY <3>2
        <4> QED BY <4>1
      <3> QED BY <3>1, <3>2
    <2> HIDE DEF at, len
    <2>9. ASSUME NEW i \in 1 .. n
          PROVE  /\ Holds(T, file, at[i], P[i])
                 /\ \A j \in 1 .. n + 1 : j = i + 1 => at[j] = at[i] + Len(P[i])
      <3>1. CASE i = 1
        BY <2>3, <2>5, <2>8, <3>1
      <3>2. CASE i # 1
        <4>1. PICK k \in 1 .. n : i = k + 1
          <5>1. i - 1 \in 1 .. n /\ i = (i - 1) + 1
            BY <3>2
          <5> QED BY <5>1
        <4>2. i \in 1 .. n + 1
          OBVIOUS
        <4>3. at[i] = s + Len(g[k]) /\ Holds(T, file, at[i], P[i]) /\ Len(g[i]) = Len(g[k]) + Len(P[i])
          <5>1. at[i] = s + Len(g[k])
            BY <2>8, <4>1, <4>2
          <5>2. Holds(T, file, s + Len(g[k]), P[i]) /\ Len(g[i]) = Len(g[k]) + Len(P[i])
            BY <2>3, <4>1
          <5> QED BY <5>1, <5>2, Zenon
        <4>4. ASSUME NEW j \in 1 .. n + 1, j = i + 1
              PROVE  at[j] = at[i] + Len(P[i])
          <5>1. at[j] = s + Len(g[i])
            BY <2>8, <4>4
          <5>2. P[i] \in Seq(T)
            OBVIOUS
          <5>3. PICK a \in Nat, b \in Nat, c \in Nat : a = Len(g[i]) /\ b = Len(g[k]) /\ c = Len(P[i])
            <6>1. Len(g[i]) \in Nat /\ Len(g[k]) \in Nat /\ Len(P[i]) \in Nat
              BY <2>4, <5>2
            <6> QED BY <6>1
          <5>4. a = b + c /\ at[i] = s + b /\ at[j] = s + a
            BY <4>3, <5>1, <5>3
          <5>5. s + a = (s + b) + c
            BY <1>1, <5>4
          <5> QED BY <5>3, <5>4, <5>5
        <4> QED BY <4>3, <4>4
      <3> QED BY <3>1, <3>2
    <2>10. at[n + 1] = s + Len(FlattenSeq(P))
      <3>1. n \in 1 .. n /\ n + 1 \in 1 .. n + 1
        BY <2>2
      <3> QED BY <2>1, <2>8, <3>1
    <2>11. Laid(T, file, at, P, n)
      BY <2>7, <2>9 DEF Laid
    <2> QED BY <2>8, <2>10, <2>11 DEF LaidOut
  <1> QED BY <1>2, <1>3

-----------------------------------------------------------------------------
(* The words of a line.                                                      *)

LEMMA FirstOutsideIs ==
    ASSUME NEW T, NEW s \in Seq(T), NEW tokens, NEW k \in 1 .. Len(s) + 1,
           k <= Len(s) => s[k] \notin tokens, \A j \in 1 .. k - 1 : s[j] \in tokens
    PROVE  IndexOutside(s, tokens) = k
  <1> DEFINE places == { i \in 1 .. Len(s) : s[i] \notin tokens } \cup {Len(s) + 1}
             m == Min(places)
  <1>1. Len(s) \in Nat /\ places \in SUBSET Nat /\ places # {}
    OBVIOUS
  <1>2. m \in places /\ \A i \in places : m <= i
    <2> HIDE DEF places
    <2> QED BY <1>1, MinOf
  <1>3. IndexOutside(s, tokens) = m
    BY DEF IndexOutside
  <1> HIDE DEF m
  <1>4. k \in places
    BY <1>1
  <1>5. m <= k /\ m \in 1 .. Len(s) + 1
    BY <1>1, <1>2, <1>4
  <1>6. ASSUME m # k PROVE FALSE
    <2>1. m \in 1 .. k - 1 /\ m <= Len(s)
      BY <1>1, <1>5, <1>6
    <2>2. s[m] \in tokens /\ m # Len(s) + 1
      BY <1>1, <2>1
    <2> QED BY <1>2, <2>2
  <1> QED BY <1>3, <1>6

\* A line that begins with a word, or is empty.
Worded(s) == s # <<>> => s[1] \notin Whitespace

LEMMA NothingSkipped ==
    ASSUME NEW T, NEW s \in Seq(T), Worded(s)
    PROVE  SkipSpace(s) = s
  <1>1. 1 \in 1 .. Len(s) + 1 /\ (1 <= Len(s) => s # <<>>) /\ \A j \in 1 .. 1 - 1 : FALSE
    OBVIOUS
  <1>2. IndexOutside(s, Whitespace) = 1
    <2>1. 1 <= Len(s) => s[1] \notin Whitespace
      BY <1>1 DEF Worded
    <2>2. \A j \in 1 .. 1 - 1 : s[j] \in Whitespace
      BY <1>1
    <2> QED BY <1>1, <2>1, <2>2, FirstOutsideIs, Zenon
  <1>3. From(s, 1) = s
    BY SubSeqFull DEF From
  <1> QED BY <1>2, <1>3 DEF SkipSpace

LEMMA SpaceSkipped ==
    ASSUME NEW T, Space \in T, NEW s \in Seq(T), s # <<>>, Worded(s)
    PROVE  SkipSpace(<<Space>> \o s) = s
  <1>1. PICK e \in Seq(T) : e = <<Space>> /\ Len(e) = 1 /\ e[1] = Space
    BY OneToken
  <1>2. PICK u \in Seq(T) : u = e \o s /\ Joint(u, e, s) /\ From(u, 2) = s
    <2>1. From(e \o s, Len(e) + 1) = s /\ e \o s \in Seq(T) /\ Joint(e \o s, e, s)
      BY FromBehind, JoinedIs
    <2>2. Len(e) + 1 = 2
      BY <1>1
    <2> QED BY <2>1, <2>2
  <1>3. Len(s) \in Nat \ {0}
    BY EmptyOrFull
  <1>4. Len(u) = 1 + Len(s) /\ u[1] = Space /\ u[2] = s[1]
    <2>1. 1 \in 1 .. Len(s) /\ 1 \in 1 .. 1 /\ 1 + 1 = 2
      BY <1>3
    <2> QED BY <1>1, <1>2, <2>1 DEF Joint
  <1>5. IndexOutside(u, Whitespace) = 2
    <2>1. 2 \in 1 .. Len(u) + 1 /\ \A j \in 1 .. 2 - 1 : j = 1
      BY <1>3, <1>4
    <2>2. u[2] \notin Whitespace
      BY <1>4 DEF Worded
    <2>3. \A j \in 1 .. 2 - 1 : u[j] \in Whitespace
      BY <1>4, <2>1, Spaced
    <2> QED BY <2>1, <2>2, <2>3, FirstOutsideIs, Zenon
  <1> QED BY <1>1, <1>2, <1>5 DEF SkipSpace

\* What str_parse_word leaves.
WordParsed(input, word, rest) == str_parse_word(input) = [word |-> <<word>>, rest |-> rest]

LEMMA FirstWord ==
    ASSUME NEW T, Space \in T, NEW word \in T, word \notin Whitespace,
           NEW s \in Seq(T), s # <<>>, Worded(s),
           NEW input \in Seq(T), input = <<word>> \o (<<Space>> \o s)
    PROVE  WordParsed(input, word, s)
  <1>1. PICK w \in Seq(T) : w = <<word>> /\ Len(w) = 1 /\ w[1] = word
    BY OneToken
  <1>2. PICK e \in Seq(T) : e = <<Space>> /\ Len(e) = 1 /\ e[1] = Space
    BY OneToken
  <1>3. PICK r \in Seq(T) : r = e \o s /\ Joint(r, e, s) /\ SkipSpace(r) = s
    <2>1. SkipSpace(e \o s) = s
      BY <1>2, SpaceSkipped
    <2> QED BY <2>1, JoinedIs
  <1>4. input = w \o r /\ Joint(input, w, r) /\ From(input, 2) = r
    <2>1. input = w \o r
      BY <1>1, <1>2, <1>3
    <2>2. From(w \o r, Len(w) + 1) = r
      BY FromBehind
    <2>3. Len(w) + 1 = 2
      BY <1>1
    <2> QED BY <2>1, <2>2, <2>3, JoinedIs
  <1>5. Len(input) \in Nat /\ Len(input) >= 2 /\ input[1] = word /\ input[2] = Space
    <2>1. Len(s) \in Nat
      OBVIOUS
    <2>2. Len(r) = 1 + Len(s) /\ r[1] = Space
      BY <1>2, <1>3 DEF Joint
    <2>3. 1 \in 1 .. Len(r) /\ 1 + 1 = 2
      BY <2>1, <2>2
    <2>4. Len(input) = 1 + Len(r) /\ input[1] = w[1] /\ input[2] = r[1]
      BY <1>1, <1>4, <2>3 DEF Joint
    <2> QED BY <1>1, <2>1, <2>2, <2>4
  <1>6. SkipSpace(input) = input
    <2>1. Worded(input)
      BY <1>5 DEF Worded
    <2> QED BY <2>1, NothingSkipped
  <1>7. IndexIn(input, Whitespace) = 2
    <2>1. FirstPlace(input, Whitespace, 2)
      <3>1. 2 \in 1 .. Len(input) + 1 /\ \A j \in 1 .. 2 - 1 : j = 1
        BY <1>5
      <3> QED BY <1>5, <3>1, Spaced DEF FirstPlace
    <2> QED BY <2>1, FirstInIs
  <1>8. Before(input, 2) = w
    <2>1. 2 \in 1 .. Len(input) + 1 /\ 2 - 1 = 1
      BY <1>5
    <2>2. /\ Before(input, 2) \in Seq(T) /\ Len(Before(input, 2)) = 1
          /\ \A j \in 1 .. 1 : Before(input, 2)[j] = input[j]
      BY <2>1, BeforeOf
    <2> QED BY <1>1, <1>5, <2>2, SeqEqual
  <1> QED BY <1>1, <1>3, <1>4, <1>6, <1>7, <1>8 DEF str_parse_word, WordParsed

LEMMA OnlyWord ==
    ASSUME NEW T, NEW word \in T, word \notin Whitespace
    PROVE  WordParsed(<<word>>, word, <<>>)
  <1>1. PICK w \in Seq(T) : w = <<word>> /\ Len(w) = 1 /\ w[1] = word
    BY OneToken
  <1>2. SkipSpace(w) = w
    <2>1. Worded(w)
      BY <1>1 DEF Worded
    <2> QED BY <2>1, NothingSkipped
  <1>3. 2 \in 1 .. Len(w) + 1 /\ (\A j \in 1 .. 2 - 1 : j = 1) /\ 2 > Len(w) /\ 2 - 1 = 1 /\ ~(2 <= Len(w))
    BY <1>1
  <1>4. IndexIn(w, Whitespace) = 2
    <2>1. FirstPlace(w, Whitespace, 2)
      BY <1>1, <1>3 DEF FirstPlace
    <2> QED BY <2>1, FirstInIs
  <1>5. Before(w, 2) = w
    <2>1. /\ Before(w, 2) \in Seq(T) /\ Len(Before(w, 2)) = 1
          /\ \A j \in 1 .. 1 : Before(w, 2)[j] = w[j]
      BY <1>3, BeforeOf
    <2> QED BY <1>1, <2>1, SeqEqual
  <1>6. From(w, 2) = <<>>
    BY <1>3, FromOf
  <1>7. SkipSpace(<<>>) = <<>>
    <2>1. PICK none \in Seq(T) : none = <<>>
      <3>1. <<>> \in Seq(T)
        OBVIOUS
      <3> QED BY <3>1, Zenon
    <2>2. Worded(none)
      BY <2>1 DEF Worded
    <2> QED BY <2>1, <2>2, NothingSkipped
  <1> QED BY <1>1, <1>2, <1>4, <1>5, <1>6, <1>7 DEF str_parse_word, WordParsed

-----------------------------------------------------------------------------
(* Chunks, one behind the other.                                             *)

\* Text that may stand behind a chunk.
Proper(T, w) == w \in Seq(T) /\ Begins(w)

\* The text stands in the file from n to m.
HoldsTo(T, file, n, w, m) == Holds(T, file, n, w) /\ m = n + Len(w)

LEMMA ProperNothing ==
    ASSUME NEW T
    PROVE  Proper(T, <<>>)
  <1>1. <<>> \in Seq(T)
    OBVIOUS
  <1> QED BY <1>1 DEF Proper, Begins

LEMMA ProperJoined ==
    ASSUME NEW T, NEW u, NEW v, Proper(T, u), Proper(T, v)
    PROVE  Proper(T, u \o v)
  BY BeginsJoined DEF Proper

\* Text that begins with a token begins properly, whatever follows.
LEMMA ProperFirst ==
    ASSUME NEW T, NEW x \in T, x \notin Newlines, NEW s \in Seq(T)
    PROVE  Proper(T, <<x>> \o s)
  <1>1. PICK e \in Seq(T) : e = <<x>> /\ Len(e) = 1 /\ e[1] = x
    BY OneToken
  <1>2. e \o s \in Seq(T) /\ Joint(e \o s, e, s)
    BY JoinedIs
  <1>3. (e \o s)[1] = x
    BY <1>1, <1>2 DEF Joint
  <1> QED BY <1>1, <1>2, <1>3 DEF Proper, Begins

LEMMA Parted ==
    ASSUME NEW T, NEW file, NEW n, NEW m, NEW u, NEW v, Proper(T, u), Proper(T, v),
           HoldsTo(T, file, n, u \o v, m)
    PROVE  \E k \in Nat : HoldsTo(T, file, n, u, k) /\ HoldsTo(T, file, k, v, m)
  <1>1. u \in Seq(T) /\ v \in Seq(T) /\ Begins(v)
    BY DEF Proper
  <1>2. Holds(T, file, n, u) /\ Holds(T, file, n + Len(u), v)
    BY <1>1, HoldsBoth DEF HoldsTo
  <1>3. n \in Nat /\ Len(u) \in Nat /\ Len(v) \in Nat
    BY <1>2, HoldsType
  <1>4. PICK k \in Nat : k = n + Len(u)
    BY <1>3
  <1>5. Len(u \o v) = Len(u) + Len(v)
    BY <1>1, JoinedIs DEF Joint
  <1>6. m = k + Len(v)
    BY <1>3, <1>4, <1>5 DEF HoldsTo
  <1> QED BY <1>2, <1>4, <1>6 DEF HoldsTo

LEMMA PartedType ==
    ASSUME NEW T, NEW file, NEW n, NEW m, NEW w, HoldsTo(T, file, n, w, m)
    PROVE  n \in Nat /\ m \in Nat /\ n <= m
  <1>1. n \in Nat /\ Len(w) \in Nat
    BY HoldsType DEF HoldsTo
  <1> QED BY <1>1 DEF HoldsTo

LEMMA NothingTo ==
    ASSUME NEW T, NEW file, NEW n, NEW m, HoldsTo(T, file, n, <<>>, m)
    PROVE  m = n
  <1>1. n \in Nat
    BY HoldsType DEF HoldsTo
  <1>2. Len(<<>>) = 0
    OBVIOUS
  <1> QED BY <1>1, <1>2 DEF HoldsTo

LEMMA FieldTo ==
    ASSUME NEW T, NEW tag, NEW value, Writable(T, tag, value)
    PROVE  /\ Proper(T, file_chunk_write_field(tag, value))
           /\ \A file, n, m : HoldsTo(T, file, n, file_chunk_write_field(tag, value), m) =>
                ChunkAt(file, n, "field", tag, value, m)
  <1>1. file_chunk_write_field(tag, value) \in Seq(T)
    <2>1. <<>> \in Seq(T)
      OBVIOUS
    <2> QED BY <2>1, FieldRead
  <1>2. Begins(file_chunk_write_field(tag, value))
    <2>1. tag \in T /\ ":" \in T /\ "~" \in T /\ "\n" \in T /\ tag \notin Newlines /\ value \in Seq(T)
      BY Spaced DEF Writable
    <2>2. PICK h \in Seq(T) : h = <<tag, ":">> /\ Len(h) = 2 /\ h[1] = tag
      <3>1. <<tag, ":">> \in Seq(T) /\ Len(<<tag, ":">>) = 2 /\ <<tag, ":">>[1] = tag
        BY <2>1
      <3> QED BY <3>1
    <2>3. PICK t \in Seq(T) : t = <<"~", "\n">>
      <3>1. <<"~", "\n">> \in Seq(T)
        BY <2>1
      <3> QED BY <3>1, Zenon
    <2>4. file_chunk_write_field(tag, value) = (h \o value) \o t
      BY <2>2, <2>3 DEF file_chunk_write_field
    <2>5. Begins(h)
      BY <2>1, <2>2 DEF Begins
    <2>6. h \o value \in Seq(T) /\ (h \o value)[1] = tag
      <3>1. h \o value \in Seq(T) /\ Joint(h \o value, h, value)
        BY <2>1, JoinedIs
      <3> QED BY <2>2, <3>1 DEF Joint
    <2>7. Len(h \o value) # 0
      <3>1. Len(h \o value) = 2 + Len(value) /\ Len(value) \in Nat
        BY <2>1, <2>2, JoinedIs DEF Joint
      <3> QED BY <3>1
    <2>8. ((h \o value) \o t)[1] = tag
      <3>1. Joint((h \o value) \o t, h \o value, t)
        BY <2>6, JoinedIs
      <3>2. Len(h \o value) \in Nat /\ 1 \in 1 .. Len(h \o value)
        BY <2>6, <2>7
      <3> QED BY <2>6, <3>1, <3>2 DEF Joint
    <2> QED BY <2>1, <2>4, <2>8 DEF Begins
  <1>3. ASSUME NEW file, NEW n, NEW m, HoldsTo(T, file, n, file_chunk_write_field(tag, value), m)
        PROVE  ChunkAt(file, n, "field", tag, value, m)
    BY <1>3, FieldHeld DEF HoldsTo
  <1> QED BY <1>1, <1>2, <1>3 DEF Proper

LEMMA StartTo ==
    ASSUME NEW T, "#" \in T, "\n" \in T, NEW tag \in T, Plain(tag), tag # "end"
    PROVE  /\ Proper(T, file_chunk_write_section_start(tag))
           /\ \A file, n, m : HoldsTo(T, file, n, file_chunk_write_section_start(tag), m) =>
                ChunkAt(file, n, "start", tag, <<>>, m)
  <1>1. PICK w \in Seq(T) : w = <<"#", tag, "\n">> /\ Len(w) = 3 /\ w[1] = "#"
    <2>1. <<"#", tag, "\n">> \in Seq(T) /\ Len(<<"#", tag, "\n">>) = 3 /\ <<"#", tag, "\n">>[1] = "#"
      OBVIOUS
    <2> QED BY <2>1
  <1>2. Begins(w)
    BY <1>1 DEF Begins, Newlines
  <1>3. file_chunk_write_section_start(tag) = w
    BY <1>1 DEF file_chunk_write_section_start
  <1>4. ASSUME NEW file, NEW n, NEW m, HoldsTo(T, file, n, file_chunk_write_section_start(tag), m)
        PROVE  ChunkAt(file, n, "start", tag, <<>>, m)
    <2>1. m = n + 3
      BY <1>1, <1>3, <1>4 DEF HoldsTo
    <2> QED BY <1>4, <2>1, StartHeld DEF HoldsTo
  <1> QED BY <1>2, <1>3, <1>4 DEF Proper

LEMMA EndTo ==
    ASSUME NEW T, "#" \in T, "end" \in T, Space \in T, "\n" \in T, NEW tag \in T, Plain(tag),
           NEW blank, NEW size \in Nat, Blank(T, blank, size)
    PROVE  /\ Proper(T, file_chunk_write_section_end(tag) \o blank)
           /\ \A file, n, m : HoldsTo(T, file, n, file_chunk_write_section_end(tag) \o blank, m) =>
                ChunkAt(file, n, "end", tag, <<>>, m)
  <1>1. PICK w \in Seq(T) : w = <<"#", "end", Space, tag, "\n">> /\ Len(w) = 5 /\ w[1] = "#"
    <2>1. /\ <<"#", "end", Space, tag, "\n">> \in Seq(T) /\ Len(<<"#", "end", Space, tag, "\n">>) = 5
          /\ <<"#", "end", Space, tag, "\n">>[1] = "#"
      OBVIOUS
    <2> QED BY <2>1
  <1>2. file_chunk_write_section_end(tag) = w
    BY <1>1, EndWritten
  <1>3. blank \in Seq(T) /\ Len(blank) = size
    BY DEF Blank
  <1>4. w \o blank \in Seq(T) /\ Joint(w \o blank, w, blank)
    BY <1>3, JoinedIs
  <1>5. (w \o blank)[1] = "#" /\ Len(w \o blank) = 5 + size
    BY <1>1, <1>3, <1>4 DEF Joint
  <1>6. Begins(w \o blank)
    BY <1>5 DEF Begins, Newlines
  <1>7. ASSUME NEW file, NEW n, NEW m,
               HoldsTo(T, file, n, file_chunk_write_section_end(tag) \o blank, m)
        PROVE  ChunkAt(file, n, "end", tag, <<>>, m)
    <2>1. ChunkAt(file, n, "end", tag, <<>>, n + 5 + size)
      BY <1>7, EndHeld DEF HoldsTo
    <2>2. n \in Nat
      BY <1>7, HoldsType DEF HoldsTo
    <2>3. m = n + (5 + size)
      BY <1>2, <1>5, <1>7 DEF HoldsTo
    <2>4. n + 5 + size = m
      BY <2>2, <2>3
    <2> QED BY <2>1, <2>4
  <1> QED BY <1>2, <1>4, <1>6, <1>7 DEF Proper

\* Text in one line, without a tilde.
OneLine(T, args) ==
    /\ args \in Seq(T) /\ args # <<>> /\ Trimmed(args)
    /\ \A k \in 1 .. Len(args) : args[k] \notin {"~"} \cup Newlines

LEMMA InlineTo ==
    ASSUME NEW T, "#" \in T, Space \in T, "~" \in T, "\n" \in T, NEW tag \in T, Plain(tag), tag # "end",
           NEW args, OneLine(T, args)
    PROVE  /\ Proper(T, file_chunk_write_section_inline(tag, args))
           /\ \A file, n, m : HoldsTo(T, file, n, file_chunk_write_section_inline(tag, args), m) =>
                ChunkAt(file, n, "start", tag, args, m)
  <1>1. PICK h \in Seq(T) : h = <<"#", tag, Space>> /\ Len(h) = 3 /\ h[1] = "#"
    <2>1. /\ <<"#", tag, Space>> \in Seq(T) /\ Len(<<"#", tag, Space>>) = 3
          /\ <<"#", tag, Space>>[1] = "#"
      OBVIOUS
    <2> QED BY <2>1
  <1>2. PICK t \in Seq(T) : t = <<"~", "\n">> /\ Len(t) = 2
    <2>1. <<"~", "\n">> \in Seq(T) /\ Len(<<"~", "\n">>) = 2
      OBVIOUS
    <2> QED BY <2>1
  <1>3. PICK size \in Nat : size = Len(args) /\ args \in Seq(T)
    BY DEF OneLine
  <1>4. PICK ha \in Seq(T) : ha = h \o args /\ Len(ha) = 3 + size /\ ha[1] = "#"
    <2>1. h \o args \in Seq(T) /\ Joint(h \o args, h, args)
      BY <1>3, JoinedIs
    <2>2. 1 \in 1 .. Len(h)
      BY <1>1
    <2>3. (h \o args)[1] = h[1] /\ Len(h \o args) = Len(h) + Len(args)
      BY <2>1, <2>2 DEF Joint
    <2> QED BY <1>1, <1>3, <2>1, <2>3
  <1>5. ha \o t \in Seq(T) /\ Len(ha \o t) = 3 + size + 2 /\ (ha \o t)[1] = "#"
    <2>1. ha \o t \in Seq(T) /\ Joint(ha \o t, ha, t)
      BY JoinedIs
    <2>2. 1 \in 1 .. Len(ha)
      BY <1>3, <1>4
    <2>3. (ha \o t)[1] = ha[1] /\ Len(ha \o t) = Len(ha) + Len(t)
      BY <2>1, <2>2 DEF Joint
    <2> QED BY <1>2, <1>4, <2>1, <2>3
  <1>6. file_chunk_write_section_inline(tag, args) = ha \o t
    BY <1>1, <1>2, <1>4, InlineWritten
  <1>7. Begins(ha \o t)
    BY <1>5 DEF Begins, Newlines
  <1>8. ASSUME NEW file, NEW n, NEW m,
               HoldsTo(T, file, n, file_chunk_write_section_inline(tag, args), m)
        PROVE  ChunkAt(file, n, "start", tag, args, m)
    <2>1. ChunkAt(file, n, "start", tag, args, n + Len(args) + 5)
      BY <1>8, InlineHeld DEF HoldsTo, OneLine
    <2>2. n \in Nat
      BY <1>8, HoldsType DEF HoldsTo
    <2>3. m = n + (3 + size + 2)
      BY <1>5, <1>6, <1>8 DEF HoldsTo
    <2>4. n + size + 5 = m
      BY <2>2, <2>3
    <2> QED BY <1>3, <2>1, <2>4
  <1> QED BY <1>5, <1>6, <1>7, <1>8 DEF Proper

\* Texts stand in the file from one place to the next.
HoldsAll(T, file, at, P, k) ==
    /\ at \in [1 .. k + 1 -> Nat]
    /\ \A i \in 1 .. k : \A j \in 1 .. k + 1 : j = i + 1 => HoldsTo(T, file, at[i], P[i], at[j])

LEMMA ProperFlat ==
    ASSUME NEW T, NEW P, NEW n \in Nat, n = Len(P), n = 0 => P = <<>>,
           \A k \in 1 .. n : Proper(T, P[k])
    PROVE  Proper(T, FlattenSeq(P))
  <1>1. CASE n = 0
    BY <1>1, FlattenNothing, ProperNothing
  <1>2. CASE n # 0
    <2>1. n \in Nat \ {0} /\ \A k \in 1 .. n : P[k] \in Seq(T)
      BY <1>2 DEF Proper
    <2>2. PICK g : Flat(T, P, n, g) /\ FlattenSeq(P) = g[n]
      BY <2>1, FlattenIs
    <2> DEFINE bad == { k \in 1 .. n : ~ Proper(T, g[k]) }
    <2>3. ASSUME bad # {} PROVE FALSE
      <3>1. PICK m \in bad : \A k \in bad : m <= k
        <4>1. bad \in SUBSET Nat
          OBVIOUS
        <4> HIDE DEF bad
        <4> QED BY <2>3, <4>1, MinOf
      <3>2. m \in 1 .. n /\ g[m] = IF m = 1 THEN P[m] ELSE g[m - 1] \o P[m]
        BY <3>1, <2>2 DEF Flat
      <3>3. m # 1 => m - 1 \in 1 .. n /\ ~(m <= m - 1)
        BY <3>2
      <3>4. m # 1 => Proper(T, g[m - 1])
        BY <3>1, <3>3
      <3>5. Proper(T, g[m])
        BY <3>2, <3>4, ProperJoined
      <3> QED BY <3>1, <3>5
    <2>4. n \in 1 .. n
      BY <2>1
    <2> QED BY <2>2, <2>3, <2>4
  <1> QED BY <1>1, <1>2

FlatAt(T, file, P, n, s, m) == \E at : HoldsAll(T, file, at, P, n) /\ at[1] = s /\ at[n + 1] = m

LEMMA FlatTo ==
    ASSUME NEW T, NEW P, NEW n \in Nat, n = Len(P), n = 0 => P = <<>>,
           \A k \in 1 .. n : Proper(T, P[k]),
           NEW file, NEW s, NEW m, HoldsTo(T, file, s, FlattenSeq(P), m)
    PROVE  FlatAt(T, file, P, n, s, m)
  <1>1. \A k \in 1 .. n : P[k] \in Seq(T) /\ Begins(P[k])
    BY DEF Proper
  <1>2. PICK at : Laid(T, file, at, P, n) /\ at[1] = s /\ at[n + 1] = s + Len(FlattenSeq(P))
    <2>1. Holds(T, file, s, FlattenSeq(P))
      BY Zenon DEF HoldsTo
    <2>2. LaidOut(T, file, P, n, s, s + Len(FlattenSeq(P)))
      BY <1>1, <2>1, FlattenLaid, Zenon
    <2> QED BY <2>2 DEF LaidOut
  <1>3. HoldsAll(T, file, at, P, n)
    BY <1>2, Zenon DEF HoldsAll, Laid, HoldsTo
  <1>4. s + Len(FlattenSeq(P)) = m
    BY DEF HoldsTo
  <1> QED BY <1>2, <1>3, <1>4, Zenon DEF FlatAt

-----------------------------------------------------------------------------
(* A line of words.                                                          *)

\* A word in front of a line is what is read of it first.
LEMMA WordInFront ==
    ASSUME NEW T, Space \in T, NEW word \in T, Plain(word), NEW s, OneLine(T, s)
    PROVE  OneLine(T, <<word>> \o (<<Space>> \o s)) /\ WordParsed(<<word>> \o (<<Space>> \o s), word, s)
  <1>1. s \in Seq(T) /\ s # <<>> /\ Worded(s)
    BY DEF OneLine, Trimmed, Worded
  <1>2. PICK w \in Seq(T) : w = <<word>> /\ Len(w) = 1 /\ w[1] = word
    BY OneToken
  <1>3. PICK e \in Seq(T) : e = <<Space>> /\ Len(e) = 1 /\ e[1] = Space
    BY OneToken
  <1>4. PICK r \in Seq(T) : r = e \o s /\ Joint(r, e, s)
    <2>1. e \o s \in Seq(T) /\ Joint(e \o s, e, s)
      BY <1>1, JoinedIs
    <2> QED BY <2>1
  <1>5. PICK u \in Seq(T) : u = w \o r /\ Joint(u, w, r)
    <2>1. w \o r \in Seq(T) /\ Joint(w \o r, w, r)
      BY JoinedIs
    <2> QED BY <2>1
  <1>6. PICK n \in Nat \ {0} : n = Len(s)
    BY <1>1, EmptyOrFull
  <1>7. /\ Len(u) = n + 2 /\ u[1] = word /\ u[2] = Space
        /\ \A k \in 1 .. n : u[k + 2] = s[k]
    <2>1. Len(r) = 1 + n /\ r[1] = Space /\ \A k \in 1 .. n : r[1 + k] = s[k]
      BY <1>3, <1>4, <1>6 DEF Joint
    <2>2. Len(u) = 1 + (1 + n) /\ u[1] = word /\ \A k \in 1 .. 1 + n : u[1 + k] = r[k]
      BY <1>2, <1>5, <2>1 DEF Joint
    <2>3. 1 \in 1 .. 1 + n /\ 1 + 1 = 2
      OBVIOUS
    <2>4. \A k \in 1 .. n : 1 + k \in 1 .. 1 + n /\ 1 + (1 + k) = k + 2
      OBVIOUS
    <2>5. \A k \in 1 .. n : u[k + 2] = s[k]
      <3> TAKE k \in 1 .. n
      <3>1. u[1 + (1 + k)] = r[1 + k]
        BY <2>2, <2>4
      <3> QED BY <2>1, <2>4, <3>1
    <2> QED BY <2>1, <2>2, <2>3, <2>5
  <1>8. \A k \in 1 .. Len(u) : k = 1 \/ k = 2 \/ (k - 2 \in 1 .. n /\ (k - 2) + 2 = k)
    BY <1>7
  <1>9. \A k \in 1 .. Len(u) : u[k] \notin {"~"} \cup Newlines
    <2>1. \A k \in 1 .. n : s[k] \notin {"~"} \cup Newlines
      BY <1>6 DEF OneLine
    <2>2. word \notin {"~"} \cup Newlines /\ Space \notin {"~"} \cup Newlines
      BY Spaced
    <2> TAKE k \in 1 .. Len(u)
    <2>3. CASE k = 1
      BY <1>7, <2>2, <2>3
    <2>4. CASE k = 2
      BY <1>7, <2>2, <2>4
    <2>5. CASE k - 2 \in 1 .. n /\ (k - 2) + 2 = k
      BY <1>7, <2>1, <2>5
    <2> QED BY <1>8, <2>3, <2>4, <2>5
  <1>10. Trimmed(u) /\ u # <<>>
    <2>1. u[n + 2] = s[n] /\ n \in 1 .. n
      BY <1>7
    <2>2. s[n] \notin Whitespace /\ word \notin Whitespace
      BY <1>1, <1>6 DEF OneLine, Trimmed, Plain
    <2> QED BY <1>7, <2>1, <2>2 DEF Trimmed
  <1>11. OneLine(T, u)
    BY <1>9, <1>10 DEF OneLine
  <1>12. u = <<word>> \o (<<Space>> \o s)
    BY <1>2, <1>3, <1>4, <1>5
  <1>13. WordParsed(u, word, s)
    <2>1. word \notin Whitespace
      BY DEF Plain
    <2> QED BY <1>1, <1>12, <2>1, FirstWord
  <1> QED BY <1>11, <1>12, <1>13

LEMMA LastWord ==
    ASSUME NEW T, NEW word \in T, Plain(word)
    PROVE  OneLine(T, <<word>>) /\ WordParsed(<<word>>, word, <<>>)
  <1>1. PICK w \in Seq(T) : w = <<word>> /\ Len(w) = 1 /\ w[1] = word
    BY OneToken
  <1>2. word \notin Whitespace /\ word \notin {"~"} \cup Newlines
    BY Spaced DEF Plain
  <1>3. OneLine(T, w)
    BY <1>1, <1>2 DEF OneLine, Trimmed
  <1>4. WordParsed(<<word>>, word, <<>>)
    BY <1>2, OnlyWord
  <1> QED BY <1>1, <1>3, <1>4

\* A tuple is its first token in front of the others.
LEMMA TwoTokens ==
    ASSUME NEW T, NEW d \in T, NEW e \in T
    PROVE  <<d, e>> = <<d>> \o <<e>>
  <1>1. PICK h \in Seq(T) : h = <<d, e>> /\ Len(h) = 2 /\ h[1] = d /\ h[2] = e
    <2>1. <<d, e>> \in Seq(T) /\ Len(<<d, e>>) = 2 /\ <<d, e>>[1] = d /\ <<d, e>>[2] = e
      OBVIOUS
    <2> QED BY <2>1
  <1>2. PICK f \in Seq(T) : f = <<d>> /\ Len(f) = 1 /\ f[1] = d
    BY OneToken
  <1>3. PICK g \in Seq(T) : g = <<e>> /\ Len(g) = 1 /\ g[1] = e
    BY OneToken
  <1>4. PICK u \in Seq(T) : u = f \o g /\ Joint(u, f, g)
    BY JoinedIs
  <1>5. Len(u) = 1 + 1 /\ u[1] = d /\ u[1 + 1] = e
    BY <1>2, <1>3, <1>4 DEF Joint
  <1>6. \A k \in 1 .. 2 : h[k] = u[k]
    <2>1. \A k \in 1 .. 2 : k = 1 \/ k = 2
      OBVIOUS
    <2> QED BY <1>1, <1>5, <2>1
  <1>7. Len(h) = 2 /\ Len(u) = 2
    BY <1>1, <1>5
  <1>8. h = u
    BY <1>6, <1>7, SeqEqual
  <1> QED BY <1>1, <1>2, <1>3, <1>4, <1>8

FirstOfThree(c, d, e) == <<c, d, e>> = <<c>> \o <<d, e>>
FirstOfFour(b, c, d, e) == <<b, c, d, e>> = <<b>> \o <<c, d, e>>
FirstOfFive(a, b, c, d, e) == <<a, b, c, d, e>> = <<a>> \o <<b, c, d, e>>

LEMMA FirstOfMore ==
    ASSUME NEW T, NEW a \in T, NEW b \in T, NEW c \in T, NEW d \in T, NEW e \in T
    PROVE  FirstOfThree(c, d, e) /\ FirstOfFour(b, c, d, e) /\ FirstOfFive(a, b, c, d, e)
  <1>1. FirstOfThree(c, d, e)
    BY DEF FirstOfThree
  <1>2. FirstOfFour(b, c, d, e)
    BY DEF FirstOfFour
  <1>3. FirstOfFive(a, b, c, d, e)
    BY DEF FirstOfFive
  <1> QED BY <1>1, <1>2, <1>3

\* Three words, one by one, and the rest of the line.
ThreeWords(T, line, x, y, z, rest) ==
    /\ OneLine(T, line)
    /\ \E r1, r2 : WordParsed(line, x, r1) /\ WordParsed(r1, y, r2) /\ WordParsed(r2, z, rest)

LEMMA ThreeWordsRead ==
    ASSUME NEW T, Space \in T, NEW x \in T, NEW y \in T, NEW z \in T, Plain(x), Plain(y), Plain(z),
           NEW rest, rest = <<>> \/ OneLine(T, rest),
           NEW more, more = IF rest = <<>> THEN <<>> ELSE <<Space>> \o rest
    PROVE  ThreeWords(T, <<x, Space, y, Space, z>> \o more, x, y, z, rest)
  <1>1. PICK r2 : r2 = <<z>> \o more /\ OneLine(T, r2) /\ WordParsed(r2, z, rest)
    <2>1. CASE rest = <<>>
      <3>1. <<z>> \o more = <<z>>
        <4>1. <<z>> \o <<>> = <<z>>
          OBVIOUS
        <4> QED BY <2>1, <4>1, Zenon
      <3> QED BY <2>1, <3>1, LastWord
    <2>2. CASE rest # <<>>
      BY <2>2, WordInFront
    <2> QED BY <2>1, <2>2
  <1>2. PICK r1 : r1 = <<y>> \o (<<Space>> \o r2) /\ OneLine(T, r1) /\ WordParsed(r1, y, r2)
    BY <1>1, WordInFront
  <1>3. PICK line : line = <<x>> \o (<<Space>> \o r1) /\ OneLine(T, line) /\ WordParsed(line, x, r1)
    BY <1>2, WordInFront
  <1>4. PICK tail \in Seq(T) : tail = more
    <2>1. CASE rest = <<>>
      <3>1. <<>> \in Seq(T)
        OBVIOUS
      <3> QED BY <2>1, <3>1, Zenon
    <2>2. CASE rest # <<>>
      <3>1. rest \in Seq(T) /\ <<Space>> \in Seq(T)
        BY <2>2, OneToken DEF OneLine
      <3> QED BY <2>2, <3>1, JoinedIs
    <2> QED BY <2>1, <2>2
  <1>5. line = <<x, Space, y, Space, z>> \o more
    <2>1. PICK a \in Seq(T) : a = <<x>>
      BY OneToken
    <2>2. PICK b \in Seq(T) : b = <<y>>
      BY OneToken
    <2>3. PICK c \in Seq(T) : c = <<z>>
      BY OneToken
    <2>4. PICK e \in Seq(T) : e = <<Space>>
      BY OneToken
    <2>5. PICK ec \in Seq(T) : ec = e \o c
      BY JoinedIs
    <2>6. PICK bec \in Seq(T) : bec = b \o ec
      BY JoinedIs
    <2>7. PICK ebec \in Seq(T) : ebec = e \o bec
      BY JoinedIs
    <2>8. a \o ebec = <<x, Space, y, Space, z>>
      <3>1. ec = <<Space, z>>
        BY <2>3, <2>4, <2>5, TwoTokens, Zenon
      <3>2. /\ FirstOfThree(y, Space, z) /\ FirstOfFour(Space, y, Space, z)
            /\ FirstOfFive(x, Space, y, Space, z)
        BY FirstOfMore
      <3>3. bec = <<y, Space, z>>
        BY <2>2, <2>6, <3>1, <3>2, Zenon DEF FirstOfThree
      <3>4. ebec = <<Space, y, Space, z>>
        BY <2>4, <2>7, <3>2, <3>3, Zenon DEF FirstOfFour
      <3> QED BY <2>1, <3>2, <3>4, Zenon DEF FirstOfFive
    <2>9. PICK ct \in Seq(T) : ct = c \o tail
      BY JoinedIs
    <2>10. (e \o c) \o tail = e \o (c \o tail)
      <3>1. Regrouped(T, e, c, tail)
        BY ThreeTexts, Zenon
      <3> QED BY <3>1 DEF Regrouped
    <2>11. PICK ect \in Seq(T) : ect = e \o ct /\ ect = ec \o tail
      BY <2>5, <2>9, <2>10, JoinedIs
    <2>12. (b \o ec) \o tail = b \o (ec \o tail)
      <3>1. Regrouped(T, b, ec, tail)
        BY ThreeTexts, Zenon
      <3> QED BY <3>1 DEF Regrouped
    <2>13. PICK bect \in Seq(T) : bect = b \o ect /\ bect = bec \o tail
      BY <2>6, <2>11, <2>12, JoinedIs
    <2>14. (e \o bec) \o tail = e \o (bec \o tail)
      <3>1. Regrouped(T, e, bec, tail)
        BY ThreeTexts, Zenon
      <3> QED BY <3>1 DEF Regrouped
    <2>15. PICK ebect \in Seq(T) : ebect = e \o bect /\ ebect = ebec \o tail
      BY <2>7, <2>13, <2>14, JoinedIs
    <2>16. (a \o ebec) \o tail = a \o (ebec \o tail)
      <3>1. Regrouped(T, a, ebec, tail)
        BY ThreeTexts, Zenon
      <3> QED BY <3>1 DEF Regrouped
    <2>17. r2 = ct
      BY <1>1, <1>4, <2>3, <2>9
    <2>18. r1 = bect
      BY <1>2, <2>2, <2>4, <2>11, <2>13, <2>17
    <2>19. line = a \o ebect
      BY <1>3, <2>1, <2>4, <2>15, <2>18
    <2> QED BY <1>4, <2>8, <2>15, <2>16, <2>19
  <1> QED BY <1>1, <1>2, <1>3, <1>5 DEF ThreeWords

\* Five texts one behind the other.
InFive(T, f, n, m, u1, u2, u3, u4, u5) ==
    \E k1, k2, k3, k4 \in Nat :
        /\ HoldsTo(T, f, n, u1, k1) /\ HoldsTo(T, f, k1, u2, k2) /\ HoldsTo(T, f, k2, u3, k3)
        /\ HoldsTo(T, f, k3, u4, k4) /\ HoldsTo(T, f, k4, u5, m)

LEMMA FiveParted ==
    ASSUME NEW T, NEW u1, NEW u2, NEW u3, NEW u4, NEW u5,
           Proper(T, u1), Proper(T, u2), Proper(T, u3), Proper(T, u4), Proper(T, u5)
    PROVE  /\ Proper(T, u1 \o u2 \o u3 \o u4 \o u5)
           /\ \A f, n, m : HoldsTo(T, f, n, u1 \o u2 \o u3 \o u4 \o u5, m) =>
                InFive(T, f, n, m, u1, u2, u3, u4, u5)
  <1>1. PICK v2 : v2 = u1 \o u2 /\ Proper(T, v2)
    BY ProperJoined, Zenon
  <1>2. PICK v3 : v3 = v2 \o u3 /\ Proper(T, v3)
    BY <1>1, ProperJoined, Zenon
  <1>3. PICK v4 : v4 = v3 \o u4 /\ Proper(T, v4)
    BY <1>2, ProperJoined, Zenon
  <1>4. PICK v5 : v5 = v4 \o u5 /\ Proper(T, v5)
    BY <1>3, ProperJoined, Zenon
  <1>5. ASSUME NEW f, NEW n, NEW m, HoldsTo(T, f, n, v5, m)
        PROVE  InFive(T, f, n, m, u1, u2, u3, u4, u5)
    <2>1. PICK k4 \in Nat : HoldsTo(T, f, n, v4, k4) /\ HoldsTo(T, f, k4, u5, m)
      BY <1>3, <1>4, <1>5, Parted, Zenon
    <2>2. PICK k3 \in Nat : HoldsTo(T, f, n, v3, k3) /\ HoldsTo(T, f, k3, u4, k4)
      BY <1>2, <1>3, <2>1, Parted, Zenon
    <2>3. PICK k2 \in Nat : HoldsTo(T, f, n, v2, k2) /\ HoldsTo(T, f, k2, u3, k3)
      BY <1>1, <1>2, <2>2, Parted, Zenon
    <2>4. PICK k1 \in Nat : HoldsTo(T, f, n, u1, k1) /\ HoldsTo(T, f, k1, u2, k2)
      BY <1>1, <2>3, Parted, Zenon
    <2> QED BY <2>1, <2>2, <2>3, <2>4, Zenon DEF InFive
  <1>6. v5 = u1 \o u2 \o u3 \o u4 \o u5
    BY <1>1, <1>2, <1>3, <1>4, Zenon
  <1> QED BY <1>4, <1>5, <1>6, Zenon

LEMMA ThreeParted ==
    ASSUME NEW T, NEW u1, NEW u2, NEW u3, Proper(T, u1), Proper(T, u2), Proper(T, u3)
    PROVE  /\ Proper(T, u1 \o u2 \o u3)
           /\ \A f, n, m : HoldsTo(T, f, n, u1 \o u2 \o u3, m) =>
                \E k1, k2 \in Nat : /\ HoldsTo(T, f, n, u1, k1) /\ HoldsTo(T, f, k1, u2, k2)
                                    /\ HoldsTo(T, f, k2, u3, m)
  <1>1. PICK v2 : v2 = u1 \o u2 /\ Proper(T, v2)
    BY ProperJoined, Zenon
  <1>2. PICK v3 : v3 = v2 \o u3 /\ Proper(T, v3)
    BY <1>1, ProperJoined, Zenon
  <1>3. ASSUME NEW f, NEW n, NEW m, HoldsTo(T, f, n, v3, m)
        PROVE  \E k1, k2 \in Nat : /\ HoldsTo(T, f, n, u1, k1) /\ HoldsTo(T, f, k1, u2, k2)
                                   /\ HoldsTo(T, f, k2, u3, m)
    <2>1. PICK k2 \in Nat : HoldsTo(T, f, n, v2, k2) /\ HoldsTo(T, f, k2, u3, m)
      BY <1>1, <1>2, <1>3, Parted, Zenon
    <2>2. PICK k1 \in Nat : HoldsTo(T, f, n, u1, k1) /\ HoldsTo(T, f, k1, u2, k2)
      BY <1>1, <2>1, Parted, Zenon
    <2> QED BY <2>1, <2>2, Zenon
  <1> QED BY <1>1, <1>2, <1>3, Zenon
-----------------------------------------------------------------------------
(* Several fields, one behind the other.                                    *)

\* The file has three fields, which end behind n1, n2 and n3 tokens, and no more.
ThreeFields(T, text, t1, v1, t2, v2, t3, v3, n1, n2, n3) ==
    /\ text \in Seq(T) /\ Len(text) = n3
    /\ FieldAt(text, 0, t1, v1) /\ FieldAt(text, n1, t2, v2) /\ FieldAt(text, n2, t3, v3)
    /\ file_chunk_read(text, n3 + 1).result = "eof"

LEMMA ThreeFieldsRead ==
    ASSUME NEW T, NEW t1, NEW t2, NEW t3, NEW v1, NEW v2, NEW v3,
           Writable(T, t1, v1), Writable(T, t2, v2), Writable(T, t3, v3),
           NEW text, text = file_chunk_write_field(t1, v1) \o file_chunk_write_field(t2, v2)
                              \o file_chunk_write_field(t3, v3),
           NEW n1 \in Nat, n1 = Len(v1) + 4, NEW n2 \in Nat, n2 = n1 + Len(v2) + 4,
           NEW n3 \in Nat, n3 = n2 + Len(v3) + 4
    PROVE  ThreeFields(T, text, t1, v1, t2, v2, t3, v3, n1, n2, n3)
  <1>1. Len(v1) \in Nat /\ Len(v2) \in Nat /\ Len(v3) \in Nat /\ <<>> \in Seq(T)
    BY DEF Writable
  <1>2. PICK f1 \in Seq(T) : f1 = file_chunk_write_field(t1, v1) /\ Len(f1) = Len(v1) + 4
    BY <1>1, FieldRead
  <1>3. PICK f2 \in Seq(T) : f2 = file_chunk_write_field(t2, v2) /\ Len(f2) = Len(v2) + 4
    BY <1>1, FieldRead
  <1>4. PICK f3 \in Seq(T) : f3 = file_chunk_write_field(t3, v3) /\ Len(f3) = Len(v3) + 4
    BY <1>1, FieldRead
  <1>5. text = f1 \o f2 \o f3
    BY <1>2, <1>3, <1>4
  <1>6. PICK f12 \in Seq(T) : f12 = f1 \o f2 /\ Len(f12) = Len(f1) + Len(f2)
    <2>1. f1 \o f2 \in Seq(T) /\ Len(f1 \o f2) = Len(f1) + Len(f2)
      BY JoinedIs DEF Joint
    <2> QED BY <2>1
  <1>7. PICK f23 \in Seq(T) : f23 = f2 \o f3 /\ f12 \o f3 = f1 \o f23
    <2>1. Regrouped(T, f1, f2, f3)
      BY ThreeTexts, Zenon
    <2> QED BY <1>6, <2>1 DEF Regrouped
  <1>8. /\ text \in Seq(T) /\ text = <<>> \o (f1 \o f23) /\ text = f1 \o f23
        /\ text = f12 \o (f3 \o <<>>)
        /\ Len(text) = Len(f1) + Len(f2) + Len(f3) /\ Len(<<>>) = 0
    <2>1. text = f12 \o f3
      BY <1>5, <1>6
    <2>2. text \in Seq(T) /\ Len(text) = Len(f12) + Len(f3)
      BY <2>1, JoinedIs DEF Joint
    <2>3. f1 \o f23 = text
      BY <1>7, <2>1
    <2>4. f3 \o <<>> = f3 /\ <<>> \o text = text /\ Len(<<>>) = 0
      BY <2>2
    <2> QED BY <1>6, <2>1, <2>2, <2>3, <2>4
  <1>9. Len(f1) = n1 /\ Len(f12) = n2 /\ Len(text) = n3
    BY <1>1, <1>2, <1>3, <1>4, <1>8
  <1>10. FieldAt(text, 0, t1, v1)
    <2>1. FieldAt(<<>> \o (file_chunk_write_field(t1, v1) \o f23), Len(<<>>), t1, v1)
      BY <1>1, FieldRead, Zenon
    <2> QED BY <1>2, <1>8, <2>1, Zenon
  <1>11. FieldAt(text, n1, t2, v2)
    <2>1. FieldAt(f1 \o (file_chunk_write_field(t2, v2) \o f3), Len(f1), t2, v2)
      BY FieldRead, Zenon
    <2>2. FieldAt(f1 \o (f2 \o f3), n1, t2, v2)
      BY <1>3, <1>9, <2>1, Zenon
    <2>3. f1 \o (f2 \o f3) = text
      BY <1>7, <1>8, Zenon
    <2> QED BY <2>2, <2>3
  <1>12. FieldAt(text, n2, t3, v3)
    <2>1. FieldAt(f12 \o (file_chunk_write_field(t3, v3) \o <<>>), Len(f12), t3, v3)
      BY <1>1, FieldRead, Zenon
    <2> QED BY <1>4, <1>8, <1>9, <2>1, Zenon
  <1>13. file_chunk_read(text, n3 + 1).result = "eof"
    BY <1>8, <1>9, NothingLeft
  <1> QED BY <1>8, <1>9, <1>10, <1>11, <1>12, <1>13 DEF ThreeFields
=============================================================================
