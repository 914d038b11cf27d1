-------------------------- MODULE WorldSpec_proofs --------------------------
(***************************************************************************)
(* Theorems about WorldSpec, for any number of actors and rooms and any     *)
(* allocator: lists of contents that, walked as the code walks them, match  *)
(* where the actors are go on matching until an address is handed out that  *)
(* a list still holds, and not beyond.                                      *)
(***************************************************************************)
EXTENDS WorldSpec, World_proofs, Sequences, FiniteSetTheorems, WellFoundedInduction

-----------------------------------------------------------------------------
(* Lists of cells, as the sequences they spell.                             *)

\* The k-th cell of a list, NULL behind its end.
At(s, k) == IF k \in 1 .. Len(s) THEN s[k] ELSE NULL

Holds(s, a) == \E k \in 1 .. Len(s) : s[k] = a

\* The links from `head` on spell s, and come by no cell twice.
Chain(s, head, next) ==
    /\ s \in Seq(Actors)
    /\ \A j, k \in 1 .. Len(s) : s[j] = s[k] => j = k
    /\ head = At(s, 1)
    /\ \A k \in 1 .. Len(s) : next[s[k]] = At(s, k + 1)

Pushed(s, a)  == [j \in 1 .. Len(s) + 1 |-> IF j = 1 THEN a ELSE s[j - 1]]
Removed(s, k) == [j \in 1 .. Len(s) - 1 |-> IF j < k THEN s[j] ELSE s[j + 1]]

\* The lists of all rooms: a live actor is on that of its location and on no
\* other.  Freed cells may be on any.
Listed(lists) ==
    /\ lists \in [Rooms -> Seq(Actors)]
    /\ \A r \in Rooms : Chain(lists[r], contents[r], next_contents)
    /\ \A r \in Rooms, a \in Actors : actors[a] # NULL =>
          (Holds(lists[r], a) <=> actors[a].location = r)

Lists == \E lists : Listed(lists)

\* No pointer leads to a cell that was never handed out.
PointsToUsed ==
    /\ \A r \in Rooms : contents[r] # NULL => next_contents[contents[r]] # Unused
    /\ \A a \in Actors : next_contents[a] \in Actors =>
          next_contents[next_contents[a]] # Unused

PointerInv == WorldInv /\ PointsToUsed /\ server \in Statuses

-----------------------------------------------------------------------------
(* What a walk along a list meets.                                          *)

LEMMA LeastExists ==
    ASSUME NEW T \in SUBSET Nat, T # {}
    PROVE  \E m \in T : \A k \in T : m <= k
  <1>1. IsWellFoundedOn(OpToRel(<, Nat), Nat)
    BY NatLessThanWellFounded
  <1>2. PICK m \in T : \A k \in T : ~(<<k, m>> \in OpToRel(<, Nat))
    BY <1>1, WFMin
  <1>3. \A k \in T : ~(k < m)
    BY <1>2 DEF OpToRel
  <1> QED BY <1>3

LEMMA ActorCells == Cardinality(Actors) \in Nat /\ NULL \notin Actors
  BY WorldAssumption, FS_CardinalityType

\* A list has no more cells than there are.
LEMMA ChainLength ==
    ASSUME NEW s, NEW head, NEW next, Chain(s, head, next)
    PROVE  Len(s) \in Nat /\ Len(s) <= Cardinality(Actors)
  <1>1. s \in [1 .. Len(s) -> Actors] /\ Len(s) \in Nat
    BY DEF Chain
  <1>2. /\ IsFiniteSet(1 .. Len(s))
        /\ Cardinality(1 .. Len(s)) = IF 1 > Len(s) THEN 0 ELSE Len(s) - 1 + 1
    BY <1>1, 1 \in Int, Len(s) \in Int, FS_Interval
  <1>3. ~(Cardinality(Actors) < Len(s))
    <2> SUFFICES ASSUME Cardinality(Actors) < Len(s) PROVE FALSE
      OBVIOUS
    <2>0. Cardinality(1 .. Len(s)) = Len(s)
      BY <1>1, <1>2
    <2>1. \E x, y \in 1 .. Len(s) : x # y /\ s[x] = s[y]
      BY <1>1, <1>2, <2>0, WorldAssumption, FS_PigeonHole
    <2> QED BY <2>1 DEF Chain
  <1> QED BY <1>1, <1>3, ActorCells

\* A walk meets the cells of the list in order, and NULL behind the last.
LEMMA ChainWalk ==
    ASSUME NEW s, NEW head, NEW next, Chain(s, head, next)
    PROVE  Walk(head, next) = [k \in 0 .. Cardinality(Actors) |-> At(s, k + 1)]
  <1> DEFINE N == Cardinality(Actors)
             Step(c) == [k \in 0 .. N |->
                           IF k = 0 THEN head
                           ELSE IF c[k-1] = NULL THEN NULL ELSE next[c[k-1]]]
             w == [k \in 0 .. N |-> At(s, k + 1)]
  <1>1. N \in Nat /\ Len(s) \in Nat /\ NULL \notin Actors /\ s \in [1 .. Len(s) -> Actors]
    BY ActorCells, ChainLength DEF Chain
  <1>2. ASSUME NEW k \in 1 .. N
        PROVE  At(s, k + 1) = IF At(s, k) = NULL THEN NULL ELSE next[At(s, k)]
    BY <1>1 DEF At, Chain
  <1>3. w = Step(w)
    <2>1. ASSUME NEW k \in 0 .. N
          PROVE  w[k] = IF k = 0 THEN head
                        ELSE IF w[k-1] = NULL THEN NULL ELSE next[w[k-1]]
      <3>1. CASE k = 0
        BY <3>1 DEF Chain
      <3>2. CASE k # 0
        <4>1. k \in 1 .. N /\ k - 1 \in 0 .. N /\ (k - 1) + 1 = k
          BY <1>1, <3>2
        <4>2. w[k] = At(s, k + 1) /\ w[k-1] = At(s, k)
          BY <4>1
        <4> QED BY <1>2, <3>2, <4>1, <4>2
      <3> QED BY <3>1, <3>2
    <2> QED BY <2>1
  <1>4. ASSUME NEW c, c = Step(c)
        PROVE  c = w
    <2> DEFINE T == { k \in 0 .. N : c[k] # w[k] }
    <2>1. CASE T = {}
      BY <1>4, <2>1
    <2>2. CASE T # {}
      <3>1. T \in SUBSET Nat
        OBVIOUS
      <3>2. PICK m \in T : \A k \in T : m <= k
        BY <2>2, <3>1, LeastExists
      <3>3. m \in 0 .. N /\ c[m] # w[m]
        BY <3>2
      <3>4. c[m] = IF m = 0 THEN head ELSE IF c[m-1] = NULL THEN NULL ELSE next[c[m-1]]
        BY <1>4, <3>3
      <3>5. w[m] = IF m = 0 THEN head ELSE IF w[m-1] = NULL THEN NULL ELSE next[w[m-1]]
        BY <1>3, <3>3
      <3>6. m # 0 => m - 1 \in 0 .. N /\ m - 1 \notin T
        BY <1>1, <3>2, <3>3
      <3> QED BY <3>3, <3>4, <3>5, <3>6
    <2> QED BY <2>1, <2>2
  <1>5. Walk(head, next) = CHOOSE c : c = Step(c)
    BY DEF Walk
  <1> HIDE DEF w, Step
  <1>6. Walk(head, next) = w
    BY <1>3, <1>4, <1>5
  <1> QED BY <1>6 DEF w

LEMMA ChainWalkAt ==
    ASSUME NEW s, NEW head, NEW next, Chain(s, head, next)
    PROVE  \A k \in 0 .. Cardinality(Actors) : Walk(head, next)[k] = At(s, k + 1)
  <1> DEFINE w == Walk(head, next)
  <1>1. w = [k \in 0 .. Cardinality(Actors) |-> At(s, k + 1)]
    BY ChainWalk
  <1> HIDE DEF w
  <1>2. \A k \in 0 .. Cardinality(Actors) : w[k] = At(s, k + 1)
    BY <1>1, Zenon
  <1> QED BY <1>2 DEF w

\* So it ends, and has met them all.
LEMMA ChainVisited ==
    ASSUME NEW s, NEW head, NEW next, Chain(s, head, next)
    PROVE  /\ ~Endless(head, next)
           /\ \A a : a \in Visited(head, next) <=> Holds(s, a)
  <1> DEFINE N == Cardinality(Actors)
             w == Walk(head, next)
  <1>1. /\ N \in Nat /\ Len(s) \in Nat /\ Len(s) <= N /\ NULL \notin Actors
        /\ s \in [1 .. Len(s) -> Actors]
    BY ActorCells, ChainLength DEF Chain
  <1>2. \A k \in 0 .. N : w[k] = At(s, k + 1)
    BY ChainWalkAt, Zenon
  <1>3. w[N] = NULL
    BY <1>1, <1>2 DEF At
  <1>4. ASSUME NEW a, Holds(s, a)
        PROVE  a \in Visited(head, next)
    <2>1. PICK k \in 1 .. Len(s) : s[k] = a
      BY <1>4 DEF Holds
    <2>2. k - 1 \in 0 .. N /\ w[k - 1] = a /\ a # NULL
      BY <1>1, <1>2, <2>1 DEF At
    <2> QED BY <2>2 DEF Visited
  <1>5. ASSUME NEW a, a \in Visited(head, next)
        PROVE  Holds(s, a)
    <2>1. PICK k \in 0 .. N : w[k] = a /\ a # NULL
      BY <1>5 DEF Visited
    <2>2. At(s, k + 1) = a
      BY <1>2, <2>1
    <2> QED BY <2>1, <2>2 DEF At, Holds
  <1> QED BY <1>3, <1>4, <1>5 DEF Endless

LEMMA ChainOutcomes ==
    ASSUME NEW s, NEW head, NEW next, Chain(s, head, next), NEW cells
    PROVE  WalkOutcomes(cells, head, next) \subseteq {"running", "undefined"}
  BY ChainVisited DEF WalkOutcomes

\* What actor_remove_contents finds before the k-th cell.
LEMMA ChainLink ==
    ASSUME NEW s, NEW heads, NEW next, NEW r, Chain(s, heads[r], next),
           NEW k \in 2 .. Len(s)
    PROVE  LinkTo(next, heads, s[k], r) = s[k - 1]
  <1> DEFINE N == Cardinality(Actors)
             w == Walk(heads[r], next)
             P(i) == w[i] = s[k] /\ \A j \in 0 .. i - 1 : w[j] # s[k]
  <1>1. /\ N \in Nat /\ Len(s) \in Nat /\ Len(s) <= N /\ NULL \notin Actors
        /\ s \in [1 .. Len(s) -> Actors]
    BY ActorCells, ChainLength DEF Chain
  <1>2. \A i \in 0 .. N : w[i] = At(s, i + 1)
    BY ChainWalkAt, Zenon
  <1>3. \A i \in 0 .. N : w[i] = s[k] <=> i = k - 1
    BY <1>1, <1>2 DEF At, Chain
  <1>4. k - 1 \in 1 .. N /\ P(k - 1)
    BY <1>1, <1>3
  <1>5. \A i \in 1 .. N : P(i) => i = k - 1
    BY <1>1, <1>3
  <1>6. (CHOOSE i \in 1 .. N : P(i)) = k - 1
    BY <1>4, <1>5
  <1>7. LinkTo(next, heads, s[k], r) = w[(CHOOSE i \in 1 .. N : P(i)) - 1]
    BY DEF LinkTo
  <1>8. w[k - 2] = s[k - 1]
    BY <1>1, <1>2 DEF At
  <1>9. (k - 1) - 1 = k - 2
    BY <1>1
  <1> HIDE DEF P, w
  <1> QED BY <1>6, <1>7, <1>8, <1>9

-----------------------------------------------------------------------------
(* A walk that ends has come along a list.                                  *)

\* What a walk does at every position.
LEMMA WalkStep ==
    ASSUME NEW head, NEW next
    PROVE  \A k \in 0 .. Cardinality(Actors) :
              Walk(head, next)[k] =
                IF k = 0 THEN head
                ELSE IF Walk(head, next)[k-1] = NULL THEN NULL
                     ELSE next[Walk(head, next)[k-1]]
  <1> DEFINE N == Cardinality(Actors)
             F(c, k) == IF k = 0 THEN head
                        ELSE IF c[k-1] = NULL THEN NULL ELSE next[c[k-1]]
             Fits(c, n) == \A k \in 0 .. n : c[k] = F(c, k)
             T == { n \in 0 .. N : ~ \E c : Fits(c, n) }
             w == Walk(head, next)
  <1>1. N \in Nat
    BY ActorCells
  <1>2. T = {}
    <2> SUFFICES ASSUME T # {} PROVE FALSE
      OBVIOUS
    <2>1. T \in SUBSET Nat
      OBVIOUS
    <2> HIDE DEF T
    <2>2. PICK m \in T : \A k \in T : m <= k
      BY <2>1, LeastExists
    <2> USE DEF T
    <2>3. m \in 0 .. N /\ ~ \E c : Fits(c, m)
      BY <2>2
    <2>4. CASE m = 0
      <3> DEFINE c == [k \in 0 .. 0 |-> head]
      <3>1. Fits(c, 0)
        OBVIOUS
      <3> QED BY <2>3, <2>4, <3>1
    <2>5. CASE m # 0
      <3>1. m - 1 \in 0 .. N /\ ~(m <= m - 1)
        BY <1>1, <2>3, <2>5
      <3>2. PICK c : Fits(c, m - 1)
        BY <2>2, <3>1
      <3> DEFINE d == [k \in 0 .. m |-> IF k = m THEN F(c, m) ELSE c[k]]
      <3>3. ASSUME NEW k \in 0 .. m
            PROVE  d[k] = F(d, k)
        <4>1. k # 0 => k - 1 \in 0 .. m /\ k - 1 # m
          BY <2>3, <3>3
        <4>2. k # 0 => d[k - 1] = c[k - 1]
          BY <4>1
        <4>3. k # m => k \in 0 .. m - 1
          BY <2>3, <3>3
        <4>4. d[k] = F(c, k)
          BY <3>2, <4>3
        <4> QED BY <4>2, <4>4
      <3>4. Fits(d, m)
        BY <3>3
      <3> QED BY <2>3, <3>4
    <2> QED BY <2>4, <2>5
  <1>3. PICK c : Fits(c, N)
    BY <1>1, <1>2
  <1> DEFINE Step(x) == [k \in 0 .. N |-> F(x, k)]
             d == [k \in 0 .. N |-> c[k]]
  <1>4. d = Step(d)
    <2>1. ASSUME NEW k \in 0 .. N
          PROVE  d[k] = F(d, k)
      <3>1. k # 0 => k - 1 \in 0 .. N
        BY <1>1
      <3> QED BY <1>3, <3>1
    <2> QED BY <2>1
  <1>5. w = CHOOSE x : x = Step(x)
    BY DEF Walk
  <1> HIDE DEF d, Step, w
  <1>6. w = Step(w)
    BY <1>4, <1>5
  <1>7. \A k \in 0 .. N : w[k] = F(w, k)
    BY <1>6 DEF Step
  <1> QED BY <1>7 DEF w

LEMMA WalkChain ==
    ASSUME NEW head \in Actors \cup {NULL},
           NEW next \in [Actors -> Actors \cup {NULL, Unused}],
           head # NULL => next[head] # Unused,
           \A a \in Actors : next[a] \in Actors => next[next[a]] # Unused,
           ~Endless(head, next)
    PROVE  \E s : Chain(s, head, next)
  <1> DEFINE N == Cardinality(Actors)
             w == Walk(head, next)
             Linked(k) == w[k] \in Actors \cup {NULL} /\ (w[k] # NULL => next[w[k]] # Unused)
  <1>1. N \in Nat /\ NULL \notin Actors
    BY ActorCells
  <1>2. \A k \in 0 .. N :
           w[k] = IF k = 0 THEN head ELSE IF w[k-1] = NULL THEN NULL ELSE next[w[k-1]]
    BY WalkStep
  <1>3. w[N] = NULL
    BY DEF Endless
  <1> HIDE DEF w
  <1>4. \A k \in 0 .. N : Linked(k)
    <2> DEFINE T == { k \in 0 .. N : ~Linked(k) }
    <2> SUFFICES ASSUME T # {} PROVE FALSE
      OBVIOUS
    <2>1. T \in SUBSET Nat
      OBVIOUS
    <2> HIDE DEF T
    <2>2. PICK m \in T : \A k \in T : m <= k
      BY <2>1, LeastExists
    <2> USE DEF T
    <2>3. m \in 0 .. N /\ ~Linked(m)
      BY <2>2
    <2>4. m # 0
      BY <1>2, <2>3
    <2>5. m - 1 \in 0 .. N /\ ~(m <= m - 1)
      BY <1>1, <2>3, <2>4
    <2>6. Linked(m - 1)
      BY <2>2, <2>5
    <2>7. w[m] = IF w[m-1] = NULL THEN NULL ELSE next[w[m-1]]
      BY <1>2, <2>3, <2>4
    <2>8. w[m - 1] # NULL
      BY <2>3, <2>7
    <2>9. w[m - 1] \in Actors /\ w[m] = next[w[m - 1]] /\ w[m] # Unused
      BY <2>6, <2>7, <2>8
    <2>10. w[m] \in Actors \cup {NULL}
      BY <2>9
    <2> QED BY <2>3, <2>9, <2>10
  <1>5. PICK m \in 0 .. N : w[m] = NULL /\ \A k \in 0 .. m - 1 : w[k] # NULL
    <2> DEFINE T == { k \in 0 .. N : w[k] = NULL }
    <2>1. N \in T /\ T \in SUBSET Nat
      BY <1>1, <1>3
    <2> HIDE DEF T
    <2>2. PICK m \in T : \A k \in T : m <= k
      BY <2>1, LeastExists
    <2> USE DEF T
    <2>3. m \in 0 .. N /\ w[m] = NULL
      BY <2>2
    <2>4. ASSUME NEW k \in 0 .. m - 1
          PROVE  w[k] # NULL
      <3>1. k \in 0 .. N /\ ~(m <= k)
        BY <1>1, <2>3
      <3> QED BY <2>2, <3>1
    <2> QED BY <2>3, <2>4
  <1>6. \A k \in 0 .. m - 1 : w[k] \in Actors /\ w[k + 1] = next[w[k]]
    <2> SUFFICES ASSUME NEW k \in 0 .. m - 1
                 PROVE  w[k] \in Actors /\ w[k + 1] = next[w[k]]
      OBVIOUS
    <2>1. k \in 0 .. N /\ k + 1 \in 0 .. N /\ k + 1 # 0 /\ (k + 1) - 1 = k
      BY <1>1
    <2>2. w[k + 1] = IF w[k] = NULL THEN NULL ELSE next[w[k]]
      BY <1>2, <2>1
    <2>3. Linked(k)
      BY <1>4, <2>1
    <2> QED BY <1>5, <2>2, <2>3
  \* Cells that are the same have the same cells behind them.
  <1>7. ASSUME NEW i \in 0 .. m - 1, NEW j \in 0 .. m - 1, i < j, w[i] = w[j]
        PROVE  FALSE
    <2> DEFINE T == { n \in 0 .. m - j : w[i + n] # w[j + n] }
    <2>0. m \in Nat /\ i \in Nat /\ j \in Nat /\ j < m
      BY <1>1
    <2>1. T = {}
      <3> SUFFICES ASSUME T # {} PROVE FALSE
        OBVIOUS
      <3>1. T \in SUBSET Nat
        BY <2>0
      <3> HIDE DEF T
      <3>2. PICK n \in T : \A k \in T : n <= k
        BY <3>1, LeastExists
      <3> USE DEF T
      <3>3. n \in 0 .. m - j /\ w[i + n] # w[j + n]
        BY <3>2
      <3>4. n # 0
        BY <1>7, <2>0, <3>3
      <3>5. n - 1 \in 0 .. m - j /\ ~(n <= n - 1)
        BY <2>0, <3>3, <3>4
      <3>6. w[i + (n - 1)] = w[j + (n - 1)]
        BY <3>2, <3>5
      <3>7. /\ i + (n - 1) \in 0 .. m - 1 /\ (i + (n - 1)) + 1 = i + n
            /\ j + (n - 1) \in 0 .. m - 1 /\ (j + (n - 1)) + 1 = j + n
        BY <1>7, <2>0, <3>3, <3>4
      <3>8. w[i + n] = next[w[i + (n - 1)]] /\ w[j + n] = next[w[j + (n - 1)]]
        BY <1>6, <3>7
      <3> QED BY <3>3, <3>6, <3>8
    <2>2. m - j \in 0 .. m - j /\ j + (m - j) = m /\ i + (m - j) \in 0 .. m - 1
      BY <1>7, <2>0
    <2>3. w[i + (m - j)] = w[m]
      BY <2>1, <2>2
    <2> QED BY <1>5, <2>2, <2>3
  <1> DEFINE s == [k \in 1 .. m |-> w[k - 1]]
  <1>8. \A k \in 1 .. m : k - 1 \in 0 .. m - 1 /\ s[k] = w[k - 1] /\ s[k] \in Actors
    <2> SUFFICES ASSUME NEW k \in 1 .. m
                 PROVE  k - 1 \in 0 .. m - 1 /\ s[k] = w[k - 1] /\ s[k] \in Actors
      OBVIOUS
    <2>1. k - 1 \in 0 .. m - 1
      BY <1>1
    <2> QED BY <1>6, <2>1
  <1>9. s \in [1 .. m -> Actors] /\ m \in Nat
    BY <1>1, <1>8
  <1> HIDE DEF s
  <1>10. s \in Seq(Actors) /\ Len(s) = m
    BY <1>9
  <1>11. ASSUME NEW j \in 1 .. m, NEW k \in 1 .. m, s[j] = s[k]
         PROVE  j = k
    <2>1. /\ j - 1 \in 0 .. m - 1 /\ k - 1 \in 0 .. m - 1 /\ w[j - 1] = w[k - 1]
      BY <1>8, <1>11
    <2>2. ~(j - 1 < k - 1) /\ ~(k - 1 < j - 1)
      BY <1>7, <2>1
    <2> QED BY <1>9, <2>2
  <1>12. ASSUME NEW k \in 1 .. m
         PROVE  next[s[k]] = At(s, k + 1)
    <2>1. k - 1 \in 0 .. m - 1 /\ (k - 1) + 1 = k /\ s[k] = w[k - 1]
      BY <1>8, <1>9
    <2>2. next[s[k]] = w[k]
      BY <1>6, <2>1
    <2>3. k # m => k + 1 \in 1 .. m /\ (k + 1) - 1 = k
      BY <1>9
    <2>4. k # m => s[k + 1] = w[k]
      BY <1>8, <2>3
    <2> QED BY <1>5, <1>9, <1>10, <2>2, <2>3, <2>4 DEF At
  <1>13. head = At(s, 1)
    <2>1. w[0] = head
      BY <1>1, <1>2
    <2>2. m # 0 => s[1] = w[0] /\ 1 \in 1 .. m
      BY <1>8, <1>9
    <2> QED BY <1>5, <1>9, <1>10, <2>1, <2>2 DEF At
  <1> QED BY <1>10, <1>11, <1>12, <1>13 DEF Chain

\* What follows a cell of a list is on it.
LEMMA ChainNext ==
    ASSUME NEW s, NEW head, NEW next, Chain(s, head, next), NEW b, Holds(s, b),
           next[b] \in Actors
    PROVE  Holds(s, next[b])
  <1>1. PICK k \in 1 .. Len(s) : s[k] = b
    BY DEF Holds
  <1>2. next[b] = At(s, k + 1)
    BY <1>1 DEF Chain
  <1>3. k + 1 \in 1 .. Len(s) /\ s[k + 1] = next[b]
    BY <1>2, ActorCells DEF At
  <1> QED BY <1>3 DEF Holds

-----------------------------------------------------------------------------
(* What the operations do to a list.                                        *)

\* A list is not disturbed by links written elsewhere.
LEMMA ChainKept ==
    ASSUME NEW s, NEW head, NEW next, NEW new, Chain(s, head, next),
           \A a \in Actors : Holds(s, a) => new[a] = next[a]
    PROVE  Chain(s, head, new)
  <1>1. \A k \in 1 .. Len(s) : s[k] \in Actors /\ Holds(s, s[k])
    BY DEF Chain, Holds
  <1> QED BY <1>1 DEF Chain

\* actor_add_contents.
LEMMA ChainPushed ==
    ASSUME NEW s, NEW head, NEW next, Chain(s, head, next), NEW a \in Actors, ~Holds(s, a),
           a \in DOMAIN next
    PROVE  /\ Chain(Pushed(s, a), a, [next EXCEPT ![a] = head])
           /\ \A b : Holds(Pushed(s, a), b) <=> Holds(s, b) \/ b = a
  <1> DEFINE t == Pushed(s, a)
             new == [next EXCEPT ![a] = head]
  <1>1. /\ Len(s) \in Nat /\ s \in [1 .. Len(s) -> Actors]
    BY DEF Chain
  <1>2. /\ t \in [1 .. Len(s) + 1 -> Actors]
        /\ t[1] = a /\ \A j \in 1 .. Len(s) : t[j + 1] = s[j]
    BY <1>1 DEF Pushed
  <1>3. t \in Seq(Actors) /\ Len(t) = Len(s) + 1
    BY <1>1, <1>2
  <1> HIDE DEF t
  <1>4. \A j \in 2 .. Len(t) : j - 1 \in 1 .. Len(s) /\ t[j] = s[j - 1]
    <2> SUFFICES ASSUME NEW j \in 2 .. Len(t)
                 PROVE  j - 1 \in 1 .. Len(s) /\ t[j] = s[j - 1]
      OBVIOUS
    <2>1. j - 1 \in 1 .. Len(s) /\ (j - 1) + 1 = j
      BY <1>1, <1>3
    <2> QED BY <1>2, <2>1
  <1>5. \A j, k \in 1 .. Len(t) : t[j] = t[k] => j = k
    <2> SUFFICES ASSUME NEW j \in 1 .. Len(t), NEW k \in 1 .. Len(t), t[j] = t[k]
                 PROVE  j = k
      OBVIOUS
    <2>1. CASE j = 1 /\ k = 1
      BY <2>1
    <2>2. CASE j # 1 /\ k # 1
      <3>1. j \in 2 .. Len(t) /\ k \in 2 .. Len(t)
        BY <1>1, <1>3, <2>2
      <3>2. j - 1 = k - 1
        <4>1. PICK m, n \in 1 .. Len(s) : m = j - 1 /\ n = k - 1 /\ s[m] = s[n]
          BY <1>4, <3>1
        <4>2. m = n
          BY <4>1, Zenon DEF Chain
        <4> QED BY <4>1, <4>2
      <3>3. j \in Int /\ k \in Int
        BY <1>1, <1>3
      <3> QED BY <3>2, <3>3
    <2>3. CASE (j = 1) # (k = 1)
      <3>1. \A m \in 2 .. Len(t) : t[m] # a
        BY <1>4 DEF Holds
      <3> QED BY <1>1, <1>2, <1>3, <2>3, <3>1
    <2> QED BY <2>1, <2>2, <2>3
  <1>6. \A j \in 1 .. Len(t) : new[t[j]] = At(t, j + 1)
    <2>1. new[t[1]] = At(t, 2)
      <3>1. new[t[1]] = At(s, 1)
        BY <1>2 DEF Chain
      <3> QED BY <1>1, <1>2, <1>3, <3>1 DEF At
    <2>2. ASSUME NEW j \in 2 .. Len(t)
          PROVE  new[t[j]] = At(t, j + 1)
      <3>1. j - 1 \in 1 .. Len(s) /\ t[j] = s[j - 1]
        BY <1>4
      <3>2. t[j] # a
        BY <3>1 DEF Holds
      <3>3. new[t[j]] = At(s, j)
        <4>1. next[s[j - 1]] = At(s, (j - 1) + 1) /\ (j - 1) + 1 = j
          BY <1>3, <3>1 DEF Chain
        <4> QED BY <3>1, <3>2, <4>1
      <3>4. At(t, j + 1) = At(s, j)
        BY <1>1, <1>2, <1>3 DEF At
      <3> QED BY <3>3, <3>4
    <2> QED BY <1>1, <1>3, <2>1, <2>2
  <1>7. At(t, 1) = a
    BY <1>1, <1>2, <1>3 DEF At
  <1>8. Chain(t, a, new)
    BY <1>3, <1>5, <1>6, <1>7 DEF Chain
  <1>9. \A b : Holds(t, b) <=> Holds(s, b) \/ b = a
    <2>1. ASSUME NEW b, Holds(t, b)
          PROVE  Holds(s, b) \/ b = a
      <3>1. PICK j \in 1 .. Len(t) : t[j] = b
        BY <2>1 DEF Holds
      <3>2. CASE j = 1
        BY <1>2, <3>1, <3>2
      <3>3. CASE j # 1
        <4>1. j \in 2 .. Len(t)
          BY <1>3, <3>1, <3>3
        <4> QED BY <1>4, <3>1, <4>1 DEF Holds
      <3> QED BY <3>2, <3>3
    <2>2. ASSUME NEW b, Holds(s, b) \/ b = a
          PROVE  Holds(t, b)
      <3>1. CASE b = a
        <4>1. 1 \in 1 .. Len(t)
          BY <1>1, <1>3
        <4> QED BY <1>2, <3>1, <4>1 DEF Holds
      <3>2. CASE Holds(s, b)
        <4>1. PICK j \in 1 .. Len(s) : s[j] = b
          BY <3>2 DEF Holds
        <4>2. j + 1 \in 1 .. Len(t)
          BY <1>1, <1>3
        <4> QED BY <1>2, <4>1, <4>2 DEF Holds
      <3> QED BY <2>2, <3>1, <3>2
    <2> QED BY <2>1, <2>2
  <1> QED BY <1>8, <1>9 DEF t

\* actor_remove_contents.
LEMMA ChainPopped ==
    ASSUME NEW s, NEW heads, NEW next, NEW r, Chain(s, heads[r], next),
           r \in DOMAIN heads, Actors \subseteq DOMAIN next,
           NEW k \in 1 .. Len(s)
    PROVE  /\ Chain(Removed(s, k), PopHead(next, heads, s[k], r)[r],
                    PopNext(next, heads, s[k], r))
           /\ \A b : Holds(Removed(s, k), b) <=> Holds(s, b) /\ b # s[k]
           /\ \A b \in Actors : next[b] # s[k] => PopNext(next, heads, s[k], r)[b] = next[b]
  <1> DEFINE t == Removed(s, k)
             a == s[k]
             new == PopNext(next, heads, a, r)
  <1>1. Len(s) \in Nat /\ s \in [1 .. Len(s) -> Actors] /\ NULL \notin Actors
    BY ActorCells DEF Chain
  <1>2. /\ t \in [1 .. Len(s) - 1 -> Actors]
        /\ \A j \in 1 .. Len(s) - 1 : t[j] = IF j < k THEN s[j] ELSE s[j + 1]
    BY <1>1 DEF Removed
  <1>3. t \in Seq(Actors) /\ Len(t) = Len(s) - 1
    <2>1. Len(s) - 1 \in Nat
      BY <1>1
    <2> QED BY <1>2, <2>1
  <1>4. heads[r] = a <=> k = 1
    BY <1>1 DEF Chain, At
  <1>5. PopHead(next, heads, a, r)[r] = At(t, 1)
    <2>1. CASE k = 1
      <3>1. PopHead(next, heads, a, r)[r] = At(s, 2)
        BY <1>4, <2>1 DEF PopHead, Chain
      <3> QED BY <1>1, <1>2, <1>3, <2>1, <3>1 DEF At
    <2>2. CASE k # 1
      <3>1. PopHead(next, heads, a, r)[r] = At(s, 1)
        BY <1>4, <2>2 DEF PopHead, Chain
      <3> QED BY <1>1, <1>2, <1>3, <2>2, <3>1 DEF At
    <2> QED BY <2>1, <2>2
  <1>6. /\ k = 1 => new = next
        /\ k # 1 => new = [next EXCEPT ![s[k - 1]] = At(s, k + 1)]
    <2>1. CASE k = 1
      BY <1>4, <2>1 DEF PopNext
    <2>2. CASE k # 1
      <3>1. k \in 2 .. Len(s)
        BY <1>1, <2>2
      <3>2. LinkTo(next, heads, a, r) = s[k - 1] /\ next[a] = At(s, k + 1)
        BY <3>1, ChainLink DEF Chain
      <3> QED BY <1>4, <2>2, <3>2 DEF PopNext
    <2> QED BY <2>1, <2>2
  <1> HIDE DEF t, new
  <1>7. \A i, j \in 1 .. Len(t) : t[i] = t[j] => i = j
    <2> SUFFICES ASSUME NEW i \in 1 .. Len(t), NEW j \in 1 .. Len(t), t[i] = t[j]
                 PROVE  i = j
      OBVIOUS
    <2> DEFINE at(m) == IF m < k THEN m ELSE m + 1
    <2>1. at(i) \in 1 .. Len(s) /\ at(j) \in 1 .. Len(s) /\ t[i] = s[at(i)] /\ t[j] = s[at(j)]
      BY <1>1, <1>2, <1>3
    <2>2. at(i) = at(j)
      <3>1. PICK m, n \in 1 .. Len(s) : m = at(i) /\ n = at(j) /\ s[m] = s[n]
        BY <2>1
      <3>2. m = n
        BY <3>1, Zenon DEF Chain
      <3> QED BY <3>1, <3>2
    <2> QED BY <1>3, <2>2
  <1>8. \A j \in 1 .. Len(t) : new[t[j]] = At(t, j + 1)
    <2> SUFFICES ASSUME NEW j \in 1 .. Len(t)
                 PROVE  new[t[j]] = At(t, j + 1)
      OBVIOUS
    <2>1. j \in 1 .. Len(s) /\ j + 1 \in 1 .. Len(s)
      BY <1>1, <1>3
    <2>2. next[s[j]] = At(s, j + 1) /\ next[s[j + 1]] = At(s, j + 2)
      BY <1>1, <2>1 DEF Chain
    <2>3. CASE j < k - 1
      <3>1. t[j] = s[j] /\ s[j] # s[k - 1] /\ j + 1 < k
        BY <1>1, <1>2, <1>3, <2>1, <2>3 DEF Chain
      <3>2. new[t[j]] = At(s, j + 1)
        BY <1>1, <1>6, <2>1, <2>2, <3>1
      <3> QED BY <1>1, <1>2, <1>3, <2>1, <3>1, <3>2 DEF At
    <2>4. CASE j = k - 1
      <3>1. t[j] = s[k - 1] /\ k # 1 /\ s[k - 1] \in Actors
        BY <1>1, <1>2, <1>3, <2>1, <2>4
      <3>2. new[t[j]] = At(s, k + 1)
        BY <1>6, <3>1
      <3> QED BY <1>1, <1>2, <1>3, <2>4, <3>2 DEF At
    <2>5. CASE j >= k
      <3>1. t[j] = s[j + 1]
        BY <1>1, <1>2, <1>3, <2>5
      <3>2. k # 1 => k - 1 \in 1 .. Len(s) /\ s[j + 1] # s[k - 1]
        BY <1>1, <2>1, <2>5 DEF Chain
      <3>3. new[t[j]] = At(s, j + 2)
        BY <1>1, <1>6, <2>1, <2>2, <3>1, <3>2
      <3> QED BY <1>1, <1>2, <1>3, <2>5, <3>3 DEF At
    <2> QED BY <1>1, <1>3, <2>3, <2>4, <2>5
  <1>9. Chain(t, PopHead(next, heads, a, r)[r], new)
    BY <1>3, <1>5, <1>7, <1>8 DEF Chain
  <1>10. \A b : Holds(t, b) <=> Holds(s, b) /\ b # a
    <2>1. ASSUME NEW b, Holds(t, b)
          PROVE  Holds(s, b) /\ b # a
      <3>1. PICK j \in 1 .. Len(t) : t[j] = b
        BY <2>1 DEF Holds
      <3> DEFINE m == IF j < k THEN j ELSE j + 1
      <3>2. m \in 1 .. Len(s) /\ m # k /\ s[m] = b
        BY <1>1, <1>2, <1>3, <3>1
      <3> HIDE DEF m
      <3> QED BY <3>2 DEF Holds, Chain
    <2>2. ASSUME NEW b, Holds(s, b), b # a
          PROVE  Holds(t, b)
      <3>1. PICK j \in 1 .. Len(s) : s[j] = b
        BY <2>2 DEF Holds
      <3>2. j # k
        BY <2>2, <3>1
      <3> DEFINE m == IF j < k THEN j ELSE j - 1
      <3>3. m \in 1 .. Len(t) /\ t[m] = b
        BY <1>1, <1>2, <1>3, <3>1, <3>2
      <3> QED BY <3>3 DEF Holds
    <2> QED BY <2>1, <2>2
  <1>11. \A b \in Actors : next[b] # a => new[b] = next[b]
    <2>1. k # 1 => k - 1 \in 1 .. Len(s) /\ next[s[k - 1]] = a
      <3>1. k # 1 => k - 1 \in 1 .. Len(s) /\ (k - 1) + 1 = k
        BY <1>1
      <3>2. k # 1 => next[s[k - 1]] = At(s, k)
        BY <3>1 DEF Chain
      <3> QED BY <1>1, <3>1, <3>2 DEF At
    <2> QED BY <1>6, <2>1
  <1> QED BY <1>9, <1>10, <1>11 DEF t, new

-----------------------------------------------------------------------------
(* What the steps of the world do to its lists.                             *)

\* Lists that match the locations are lists, and the other way round.
LEMMA MatchListed == PointerInv /\ ContentsMatchLocations => Lists
  <1> SUFFICES ASSUME PointerInv, ContentsMatchLocations
               PROVE  Lists
    OBVIOUS
  <1>1. ASSUME NEW r \in Rooms
        PROVE  \E s : Chain(s, contents[r], next_contents)
    <2>1. ~Endless(contents[r], next_contents)
      BY DEF ContentsMatchLocations
    <2> QED BY <2>1, WalkChain DEF PointerInv, PointsToUsed, WorldInv, WorldTypeOK
  <1> DEFINE lists == [r \in Rooms |-> CHOOSE s : Chain(s, contents[r], next_contents)]
  <1>2. \A r \in Rooms : Chain(lists[r], contents[r], next_contents)
    BY <1>1
  <1>3. lists \in [Rooms -> Seq(Actors)]
    <2>1. \A r \in Rooms : lists[r] \in Seq(Actors)
      BY <1>2 DEF Chain
    <2> QED BY <2>1
  <1> HIDE DEF lists
  <1>4. ASSUME NEW r \in Rooms, NEW a \in Actors, actors[a] # NULL
        PROVE  Holds(lists[r], a) <=> actors[a].location = r
    <2>1. \A b : b \in Visited(contents[r], next_contents) <=> Holds(lists[r], b)
      BY <1>2, ChainVisited
    <2>2. { b \in Visited(contents[r], next_contents) : actors[b] # NULL }
            = { b \in Actors : actors[b] # NULL /\ actors[b].location = r }
      BY DEF ContentsMatchLocations
    <2> QED BY <1>4, <2>1, <2>2
  <1> QED BY <1>2, <1>3, <1>4 DEF Lists, Listed

LEMMA ListedMatch == Lists => ContentsMatchLocations
  <1> SUFFICES ASSUME Lists, NEW r \in Rooms
               PROVE  /\ ~Endless(contents[r], next_contents)
                      /\ { a \in Visited(contents[r], next_contents) : actors[a] # NULL }
                           = { a \in Actors : actors[a] # NULL /\ actors[a].location = r }
    BY DEF ContentsMatchLocations
  <1>1. PICK lists : Listed(lists)
    BY DEF Lists
  <1>2. Chain(lists[r], contents[r], next_contents)
    BY <1>1 DEF Listed
  <1>3. /\ ~Endless(contents[r], next_contents)
        /\ \A a : a \in Visited(contents[r], next_contents) <=> Holds(lists[r], a)
    BY <1>2, ChainVisited
  <1>4. \A a : Holds(lists[r], a) => a \in Actors
    BY <1>2 DEF Chain, Holds
  <1>5. \A a \in Actors : actors[a] # NULL =>
           (Holds(lists[r], a) <=> actors[a].location = r)
    BY <1>1 DEF Listed
  <1> QED BY <1>3, <1>4, <1>5

\* A cell that no list holds is pushed in front of one.
LEMMA EnterListed ==
    ASSUME WorldInv, NEW lists, Listed(lists),
           NEW a \in Actors, NEW n \in Names, NEW r \in Rooms, NEW p \in Players,
           EnterWorld(a, n, r, p), \A q \in Rooms : ~Holds(lists[q], a)
    PROVE  Listed([lists EXCEPT ![r] = Pushed(lists[r], a)])'
  <1> DEFINE new == [lists EXCEPT ![r] = Pushed(lists[r], a)]
  <1>1. /\ actors' = [actors EXCEPT ![a] = [name |-> n, location |-> r, player |-> p]]
        /\ next_contents' = [next_contents EXCEPT ![a] = contents[r]]
        /\ contents' = [contents EXCEPT ![r] = a]
        /\ actors[a] = NULL
    BY DEF EnterWorld, Allocatable, PushNext, PushHead
  <1>3. \A q \in Rooms : Chain(lists[q], contents[q], next_contents)
    BY DEF Listed
  <1>4. a \in DOMAIN next_contents
    BY DEF WorldInv, WorldTypeOK
  <1>5. /\ Chain(Pushed(lists[r], a), a, next_contents')
        /\ \A b : Holds(Pushed(lists[r], a), b) <=> Holds(lists[r], b) \/ b = a
    BY <1>1, <1>3, <1>4, ChainPushed
  <1>6. ASSUME NEW q \in Rooms, q # r
        PROVE  Chain(lists[q], contents[q], next_contents')
    <2>1. \A b \in Actors : Holds(lists[q], b) => next_contents'[b] = next_contents[b]
      BY <1>1 DEF WorldInv, WorldTypeOK
    <2> QED BY <1>3, <2>1, ChainKept
  <1>7. /\ new \in [Rooms -> Seq(Actors)]
        /\ new[r] = Pushed(lists[r], a) /\ \A q \in Rooms : q # r => new[q] = lists[q]
    <2>1. Pushed(lists[r], a) \in Seq(Actors)
      BY <1>5 DEF Chain
    <2> QED BY <2>1 DEF Listed
  <1> HIDE DEF new
  <1>8. \A q \in Rooms : Chain(new[q], contents'[q], next_contents')
    BY <1>1, <1>5, <1>6, <1>7 DEF WorldInv, WorldTypeOK
  <1>9. \A q \in Rooms, b \in Actors :
           Holds(new[q], b) <=> Holds(lists[q], b) \/ (q = r /\ b = a)
    BY <1>5, <1>7
  <1>10. ASSUME NEW q \in Rooms, NEW b \in Actors, actors'[b] # NULL
         PROVE  Holds(new[q], b) <=> actors'[b].location = q
    <2>1. CASE b = a
      <3>1. actors'[b] = [name |-> n, location |-> r, player |-> p]
        BY <1>1, <2>1 DEF WorldInv, WorldTypeOK
      <3> QED BY <1>9, <2>1, <3>1
    <2>2. CASE b # a
      <3>1. actors'[b] = actors[b]
        BY <1>1, <2>2 DEF WorldInv, WorldTypeOK
      <3> QED BY <1>9, <1>10, <2>2, <3>1 DEF Listed
    <2> QED BY <2>1, <2>2
  <1>11. Listed(new)'
    BY <1>7, <1>8, <1>10 DEF Listed
  <1> QED BY <1>11 DEF new

\* An actor that leaves stays on its list, as a freed cell.
LEMMA LeaveListed ==
    ASSUME WorldInv, NEW lists, Listed(lists), NEW a \in Actors, LeaveWorld(a)
    PROVE  Listed(lists)'
  <1>1. /\ actors' = [actors EXCEPT ![a] = NULL] /\ UNCHANGED <<next_contents, contents>>
    BY DEF LeaveWorld
  <1>2. \A b \in Actors : actors'[b] # NULL => actors'[b] = actors[b]
    BY <1>1 DEF WorldInv, WorldTypeOK
  <1> QED BY <1>1, <1>2 DEF Listed

\* A move takes the actor off one list and puts it in front of another.
LEMMA MoveListed ==
    ASSUME WorldInv, NEW lists, Listed(lists), NEW a \in Actors, actors[a] # NULL,
           NEW to \in Rooms, to # actors[a].location,
           actors' = [actors EXCEPT ![a].location = to],
           next_contents' = MovedNext(a, actors[a].location, to),
           contents' = MovedHeads(a, actors[a].location, to)
    PROVE  \E new : Listed(new)'
  <1> DEFINE from == actors[a].location
             s    == lists[from]
             n1   == PopNext(next_contents, contents, a, from)
             h1   == PopHead(next_contents, contents, a, from)
  <1>1. from \in Rooms /\ actors[a] \in Actor
    BY DEF WorldInv, WorldTypeOK, Actor
  <1>2. /\ next_contents' = [n1 EXCEPT ![a] = h1[to]]
        /\ contents' = [h1 EXCEPT ![to] = a]
    BY DEF MovedNext, MovedHeads, PushNext, PushHead
  <1>3. /\ n1 \in [Actors -> Actors \cup {NULL, Unused}]
        /\ h1 \in [Rooms -> Actors \cup {NULL}]
    BY <1>1, PopType
  <1>4. \A q \in Rooms : q # from => h1[q] = contents[q]
    BY <1>1 DEF PopHead, WorldInv, WorldTypeOK
  <1>5. PICK k \in 1 .. Len(s) : s[k] = a
    BY <1>1 DEF Listed, Holds
  <1> DEFINE t == Removed(s, k)
             u == Pushed(lists[to], a)
  <1>6. \A q \in Rooms : Chain(lists[q], contents[q], next_contents)
    BY DEF Listed
  <1>7. \A q \in Rooms : Holds(lists[q], a) => q = from
    BY <1>1 DEF Listed
  <1>8. /\ Chain(t, h1[from], n1)
        /\ \A b : Holds(t, b) <=> Holds(s, b) /\ b # a
        /\ \A b \in Actors : next_contents[b] # a => n1[b] = next_contents[b]
    <2>1. from \in DOMAIN contents /\ Actors \subseteq DOMAIN next_contents
      BY <1>1 DEF WorldInv, WorldTypeOK
    <2>2. Chain(s, contents[from], next_contents)
      BY <1>1, <1>6
    <2> HIDE DEF s, from
    <2> QED BY <1>5, <2>1, <2>2, ChainPopped
  <1> HIDE DEF n1, h1, t, s
  <1>9. ASSUME NEW q \in Rooms, q # from
        PROVE  Chain(lists[q], contents[q], n1)
    <2>1. \A b \in Actors : Holds(lists[q], b) => next_contents[b] # a
      BY <1>6, <1>7, <1>9, ChainNext
    <2> QED BY <1>6, <1>8, <2>1, ChainKept
  <1>10. /\ Chain(u, a, next_contents')
         /\ \A b : Holds(u, b) <=> Holds(lists[to], b) \/ b = a
    <2>1. Chain(lists[to], h1[to], n1) /\ ~Holds(lists[to], a) /\ a \in DOMAIN n1
      BY <1>3, <1>4, <1>7, <1>9
    <2>2. /\ Chain(Pushed(lists[to], a), a, [n1 EXCEPT ![a] = h1[to]])
          /\ \A b : Holds(Pushed(lists[to], a), b) <=> Holds(lists[to], b) \/ b = a
      BY <2>1, ChainPushed
    <2> QED BY <1>2, <2>2
  <1> HIDE DEF u
  <1>11. Chain(t, h1[from], next_contents')
    <2>1. \A b \in Actors : Holds(t, b) => next_contents'[b] = n1[b]
      BY <1>2, <1>3, <1>8
    <2> QED BY <1>8, <2>1, ChainKept
  <1>12. ASSUME NEW q \in Rooms, q # from
         PROVE  Chain(lists[q], contents[q], next_contents')
    <2>1. \A b \in Actors : Holds(lists[q], b) => next_contents'[b] = n1[b]
      BY <1>2, <1>3, <1>7, <1>12
    <2> QED BY <1>9, <1>12, <2>1, ChainKept
  <1>13. PICK new : /\ new \in [Rooms -> Seq(Actors)]
                    /\ new[from] = t /\ new[to] = u
                    /\ \A q \in Rooms : q # from /\ q # to => new[q] = lists[q]
    <2> DEFINE x == [lists EXCEPT ![from] = t, ![to] = u]
    <2>1. t \in Seq(Actors) /\ u \in Seq(Actors)
      BY <1>10, <1>11 DEF Chain
    <2>2. /\ x \in [Rooms -> Seq(Actors)] /\ x[from] = t /\ x[to] = u
          /\ \A q \in Rooms : q # from /\ q # to => x[q] = lists[q]
      BY <1>1, <2>1 DEF Listed
    <2> QED BY <2>2
  <1>14. \A q \in Rooms : Chain(new[q], contents'[q], next_contents')
    <2> SUFFICES ASSUME NEW q \in Rooms
                 PROVE  Chain(new[q], contents'[q], next_contents')
      OBVIOUS
    <2>1. CASE q = to
      BY <1>2, <1>3, <1>10, <1>13, <2>1
    <2>2. CASE q = from
      BY <1>2, <1>3, <1>11, <1>13, <2>2
    <2>3. CASE q # to /\ q # from
      BY <1>2, <1>3, <1>4, <1>12, <1>13, <2>3
    <2> QED BY <2>1, <2>2, <2>3
  <1>15. \A q \in Rooms, b \in Actors :
            Holds(new[q], b) <=> IF b = a THEN q = to ELSE Holds(lists[q], b)
    <2> SUFFICES ASSUME NEW q \in Rooms, NEW b \in Actors
                 PROVE  Holds(new[q], b) <=> IF b = a THEN q = to ELSE Holds(lists[q], b)
      OBVIOUS
    <2>1. CASE q = to
      BY <1>10, <1>13, <2>1
    <2>2. CASE q = from
      BY <1>8, <1>13, <2>2 DEF s
    <2>3. CASE q # to /\ q # from
      BY <1>7, <1>13, <2>3
    <2> QED BY <2>1, <2>2, <2>3
  <1>16. ASSUME NEW q \in Rooms, NEW b \in Actors, actors'[b] # NULL
         PROVE  Holds(new[q], b) <=> actors'[b].location = q
    <2>1. CASE b = a
      <3>1. actors'[a] = [actors[a] EXCEPT !.location = to]
        BY DEF WorldInv, WorldTypeOK
      <3>2. actors'[a].location = to
        BY <1>1, <3>1 DEF Actor
      <3> QED BY <1>15, <2>1, <3>2
    <2>2. CASE b # a
      <3>1. actors'[b] = actors[b]
        BY <2>2 DEF WorldInv, WorldTypeOK
      <3> QED BY <1>15, <1>16, <2>2, <3>1 DEF Listed
    <2> QED BY <2>1, <2>2
  <1>17. Listed(new)'
    BY <1>13, <1>14, <1>16 DEF Listed
  <1> QED BY <1>17

\* A walk along unchanged links meets the cells of the list it has come upon.
LEMMA ChainFollowed ==
    ASSUME NEW s, NEW head, NEW next, Chain(s, head, next),
           NEW t, NEW head2, NEW next2, Chain(t, head2, next2),
           NEW k \in 1 .. Len(s), \A j \in 1 .. k - 1 : next2[s[j]] = next[s[j]],
           NEW i \in Nat, At(t, i + 1) = s[1]
    PROVE  i + k \in 1 .. Len(t) /\ t[i + k] = s[k]
  <1> DEFINE Meets(j) == i + j \in 1 .. Len(t) /\ t[i + j] = s[j]
             T == { j \in 1 .. k : ~Meets(j) }
  <1>1. /\ Len(s) \in Nat /\ s \in [1 .. Len(s) -> Actors] /\ NULL \notin Actors
        /\ Len(t) \in Nat /\ k \in Nat
    BY ActorCells DEF Chain
  <1>2. T = {}
    <2> SUFFICES ASSUME T # {} PROVE FALSE
      OBVIOUS
    <2>1. T \in SUBSET Nat
      BY <1>1
    <2> HIDE DEF T
    <2>2. PICK m \in T : \A j \in T : m <= j
      BY <2>1, LeastExists
    <2> USE DEF T
    <2>3. m \in 1 .. k /\ m \in Nat /\ ~Meets(m)
      BY <1>1, <2>2
    <2>4. At(t, i + m) = s[m]
      <3>1. CASE m = 1
        BY <3>1
      <3>2. CASE m # 1
        <4>1. m - 1 \in 1 .. k - 1 /\ ~(m <= m - 1) /\ (m - 1) + 1 = m
          BY <1>1, <2>3, <3>2
        <4>2. Meets(m - 1)
          BY <1>1, <2>2, <4>1
        <4>3. next2[t[i + (m - 1)]] = At(t, (i + (m - 1)) + 1)
          BY <4>2 DEF Chain
        <4>4. (i + (m - 1)) + 1 = i + m
          BY <1>1, <2>3
        <4>5. m - 1 \in 1 .. Len(s) /\ m \in 1 .. Len(s)
          BY <1>1, <2>3, <4>1
        <4>6. next2[s[m - 1]] = next[s[m - 1]]
          BY <4>1
        <4>7. next[s[m - 1]] = At(s, m)
          BY <4>1, <4>5 DEF Chain
        <4> QED BY <4>2, <4>3, <4>4, <4>5, <4>6, <4>7 DEF At
      <3> QED BY <3>1, <3>2
    <2>5. s[m] # NULL
      BY <1>1, <2>3
    <2>6. i + m \in 1 .. Len(t)
      BY <2>4, <2>5 DEF At
    <2> QED BY <2>3, <2>4, <2>6 DEF At
  <1>3. k \in 1 .. k
    BY <1>1
  <1> QED BY <1>2, <1>3

\* A cell pushed on one list while another, or the same, goes on leading to it:
\* the live actor is met in two rooms, or the list is a loop.
LEMMA EnterBreaks ==
    ASSUME PointerInv, NEW lists, Listed(lists),
           NEW a \in Actors, NEW n \in Names, NEW r \in Rooms, NEW p \in Players,
           EnterWorld(a, n, r, p), NEW q \in Rooms, Holds(lists[q], a)
    PROVE  ~Lists'
  <1> SUFFICES ASSUME NEW new, Listed(new)'
               PROVE  FALSE
    BY DEF Lists
  <1>1. /\ actors'[a] = [name |-> n, location |-> r, player |-> p]
        /\ next_contents' = [next_contents EXCEPT ![a] = contents[r]]
        /\ contents' = [contents EXCEPT ![r] = a]
        /\ a # NULL
    BY ActorCells DEF EnterWorld, PushNext, PushHead, PointerInv, WorldInv, WorldTypeOK
  <1>2. /\ next_contents'[a] = contents[r] /\ contents'[r] = a
        /\ actors'[a] # NULL /\ actors'[a].location = r
    BY <1>1, WorldAssumption DEF Actor, PointerInv, WorldInv, WorldTypeOK
  <1> DEFINE s == lists[q]
             t == new[q]
  <1>3. Chain(s, contents[q], next_contents) /\ Chain(t, contents'[q], next_contents')
    BY DEF Listed
  <1>4. PICK k \in 1 .. Len(s) : s[k] = a
    BY DEF Holds
  <1>5. Len(s) \in Nat /\ k \in Nat /\ 1 \in 1 .. Len(s) /\ s \in [1 .. Len(s) -> Actors]
    BY <1>3 DEF Chain
  <1>6. At(s, 1) = s[1] /\ s[1] \in Actors
    BY <1>5 DEF At
  <1>7. contents[q] = s[1]
    BY <1>3, <1>6 DEF Chain
  <1> HIDE DEF s, t
  <1>8. \A j \in 1 .. k - 1 : next_contents'[s[j]] = next_contents[s[j]]
    <2> SUFFICES ASSUME NEW j \in 1 .. k - 1
                 PROVE  next_contents'[s[j]] = next_contents[s[j]]
      OBVIOUS
    <2>1. j \in 1 .. Len(s) /\ j # k
      BY <1>5
    <2>2. s[j] \in Actors /\ s[j] # a
      BY <1>3, <1>4, <1>5, <2>1 DEF Chain
    <2> QED BY <1>1, <2>2 DEF PointerInv, WorldInv, WorldTypeOK
  <1>9. CASE q # r
    <2>1. contents'[q] = contents[q]
      BY <1>1, <1>9 DEF PointerInv, WorldInv, WorldTypeOK
    <2>2. At(t, 0 + 1) = s[1]
      BY <1>3, <1>7, <2>1 DEF Chain
    <2>3. k \in 1 .. Len(t) /\ t[k] = s[k]
      <3>1. 0 \in Nat /\ 0 + k = k
        BY <1>5
      <3>2. \A i \in Nat : At(t, i + 1) = s[1] => i + k \in 1 .. Len(t) /\ t[i + k] = s[k]
        BY <1>3, <1>8, ChainFollowed
      <3> QED BY <2>2, <3>1, <3>2
    <2>4. Holds(t, a)
      BY <1>4, <2>3 DEF Holds
    <2>5. actors'[a].location = q
      BY <1>2, <2>4 DEF Listed, t
    <2> QED BY <1>2, <1>9, <2>5
  <1>10. CASE q = r
    <2>1. At(t, 1) = a
      BY <1>2, <1>3, <1>10 DEF Chain
    <2>2. 1 \in 1 .. Len(t) /\ t[1] = a
      BY <1>1, <2>1 DEF At
    <2>3. At(t, 1 + 1) = s[1]
      BY <1>2, <1>3, <1>7, <1>10, <2>2 DEF Chain
    <2>4. 1 + k \in 1 .. Len(t) /\ t[1 + k] = s[k]
      BY <1>3, <1>8, <2>3, ChainFollowed
    <2>5. 1 + k = 1
      BY <1>3, <1>4, <2>2, <2>4 DEF Chain
    <2> QED BY <1>5, <2>5
  <1> QED BY <1>9, <1>10

\* An actor that moves is on the list of its room, so that the move takes place.
LEMMA WalkToListed ==
    ASSUME PointerInv, NEW lists, Listed(lists), NEW a \in Actors,
           actors[a] # NULL, NEW to \in Rooms, WalkTo(a, to)
    PROVE  /\ Lists'
           /\ server' \in WalkOutcomes(actors, contents[actors[a].location], next_contents)
                \cup WalkOutcomes(actors', contents'[to], next_contents')
  <1> DEFINE from == actors[a].location
  <1>1. from \in Rooms
    BY DEF PointerInv, WorldInv, WorldTypeOK, Actor
  <1>2. Chain(lists[from], contents[from], next_contents) /\ Holds(lists[from], a)
    BY <1>1 DEF Listed
  <1>3. a \in Visited(contents[from], next_contents)
    BY <1>2, ChainVisited
  <1>4. /\ to # from
        /\ actors' = [actors EXCEPT ![a].location = to]
        /\ next_contents' = MovedNext(a, from, to)
        /\ contents' = MovedHeads(a, from, to)
        /\ server' \in WalkOutcomes(actors, contents[from], next_contents)
             \cup WalkOutcomes(actors', contents'[to], next_contents')
    BY <1>3 DEF WalkTo
  <1>5. \E new : Listed(new)'
    BY <1>4, MoveListed DEF PointerInv
  <1> QED BY <1>4, <1>5 DEF Lists

-----------------------------------------------------------------------------
(* What a step does to lists that match.                                    *)

\* No step makes a pointer lead to a cell that was never handed out.
LEMMA NextPointers == PointerInv /\ [Next]_<<server, worldVars>> => PointerInv'
  <1> SUFFICES ASSUME PointerInv, [Next]_<<server, worldVars>>
               PROVE  PointerInv'
    OBVIOUS
  <1>1. WorldInv
    BY DEF PointerInv
  <1>2. ASSUME NEW a \in Actors, NEW n \in Names, NEW r \in Rooms, NEW p \in Players,
               EnterWorld(a, n, r, p)
        PROVE  PointerInv'
    <2>1. WorldInv' /\ server' \in Statuses
      BY <1>1, <1>2, EnterWorldInv
    <2>2. /\ next_contents' = [next_contents EXCEPT ![a] = contents[r]]
          /\ contents' = [contents EXCEPT ![r] = a]
      BY <1>2 DEF EnterWorld, PushNext, PushHead
    <2>3. PointsToUsed'
      BY <1>1, <2>2, WorldAssumption DEF PointerInv, PointsToUsed, WorldInv, WorldTypeOK
    <2> QED BY <2>1, <2>3 DEF PointerInv
  <1>3. ASSUME NEW a \in Actors, LeaveWorld(a), UNCHANGED server
        PROVE  PointerInv'
    BY <1>1, <1>3, LeaveWorldInv DEF LeaveWorld, PointerInv, PointsToUsed
  <1>4. ASSUME NEW a \in Actors, LookAround(a)
        PROVE  PointerInv'
    BY <1>1, <1>4, LookAroundInv DEF LookAround, worldVars, PointerInv, PointsToUsed
  <1>5. ASSUME NEW a \in Actors, actors[a] # NULL, NEW to \in Rooms, WalkTo(a, to)
        PROVE  PointerInv'
    <2> DEFINE from == actors[a].location
               n1 == PopNext(next_contents, contents, a, from)
               h1 == PopHead(next_contents, contents, a, from)
    <2>1. WorldInv' /\ server' \in Statuses
      BY <1>1, <1>5, WalkToInv
    <2>2. CASE a \in Visited(contents[from], next_contents)
      <3>1. /\ next_contents' = [n1 EXCEPT ![a] = h1[to]]
            /\ contents' = [h1 EXCEPT ![to] = a]
        BY <1>5, <2>2 DEF WalkTo, MovedNext, MovedHeads, PushNext, PushHead
      <3>2. from \in Rooms
        BY <1>1, <1>5 DEF WorldInv, WorldTypeOK, Actor
      <3>3. n1 \in [Actors -> Actors \cup {NULL, Unused}] /\ h1 \in [Rooms -> Actors \cup {NULL}]
        BY <1>1, <1>5, <3>2, PopType
      <3>4. next_contents[a] \in Actors \cup {NULL}
        BY <1>1, <1>5 DEF WorldInv, WorldTypeOK, CellsLinked
      <3>5. /\ \A b \in Actors : next_contents[b] # Unused => n1[b] # Unused
            /\ \A b \in Actors : n1[b] = next_contents[b] \/ n1[b] = next_contents[a]
            /\ \A q \in Rooms : h1[q] = contents[q] \/ h1[q] = next_contents[a]
        BY <1>1, <3>4, WorldAssumption DEF PopNext, PopHead, WorldInv, WorldTypeOK
      <3> HIDE DEF n1, h1, from
      <3>6. /\ \A b \in Actors : next_contents[b] # Unused => next_contents'[b] # Unused
            /\ next_contents'[a] # Unused
        BY <3>1, <3>3, <3>5, WorldAssumption
      <3>7. ASSUME NEW c \in Actors,
                   \/ \E b \in Actors : next_contents[b] = c
                   \/ \E q \in Rooms : contents[q] = c
            PROVE  next_contents'[c] # Unused
        BY <3>6, <3>7, ActorCells DEF PointerInv, PointsToUsed
      <3>8. \A q \in Rooms : contents'[q] \in Actors => next_contents'[contents'[q]] # Unused
        BY <3>1, <3>3, <3>5, <3>6, <3>7
      <3>9. \A b \in Actors : next_contents'[b] \in Actors =>
               next_contents'[next_contents'[b]] # Unused
        BY <3>1, <3>3, <3>5, <3>7
      <3>10. \A q \in Rooms : contents'[q] # NULL => contents'[q] \in Actors
        BY <2>1 DEF WorldInv, WorldTypeOK
      <3> QED BY <2>1, <3>8, <3>9, <3>10 DEF PointerInv, PointsToUsed
    <2>3. CASE a \notin Visited(contents[from], next_contents)
      <3>1. UNCHANGED worldVars
        BY <1>5, <2>3 DEF WalkTo
      <3> QED BY <2>1, <3>1 DEF worldVars, PointerInv, PointsToUsed
    <2> QED BY <2>2, <2>3
  <1>6. CASE UNCHANGED <<server, worldVars>>
    BY <1>6 DEF worldVars, PointerInv, PointsToUsed, WorldInv, WorldTypeOK, CellsLinked
  <1> QED BY <1>2, <1>3, <1>4, <1>5, <1>6 DEF Next, Act, Stopped

\* Only an actor that enters can be given a cell some list holds.
LEMMA NextLists ==
    ASSUME PointerInv, Lists, [Next]_<<server, worldVars>>
    PROVE  \/ UNCHANGED <<server, worldVars>>
           \/ HandsOutListed /\ ~Lists'
           \/ ~HandsOutListed /\ Lists' /\ server' \notin {"hung", "contents_located"}
  <1>1. PICK lists : Listed(lists)
    BY DEF Lists
  <1>2. \A r \in Rooms : Chain(lists[r], contents[r], next_contents)
    BY <1>1 DEF Listed
  <1>3. \A r \in Rooms : \A a : a \in Visited(contents[r], next_contents) <=> Holds(lists[r], a)
    BY <1>2, ChainVisited
  <1>4. WorldInv /\ WorldTypeOK
    BY DEF PointerInv, WorldInv
  <1>5. ASSUME NEW a \in Actors, NEW n \in Names, NEW r \in Rooms, NEW p \in Players,
               EnterWorld(a, n, r, p)
        PROVE  \/ HandsOutListed /\ ~Lists'
               \/ ~HandsOutListed /\ Lists' /\ server' \notin {"hung", "contents_located"}
    <2>1. /\ actors[a] = NULL
          /\ actors' = [actors EXCEPT ![a] = [name |-> n, location |-> r, player |-> p]]
      BY <1>5 DEF EnterWorld, Allocatable
    <2>2. HandsOutListed <=> \E q \in Rooms : Holds(lists[q], a)
      <3>1. actors'[a] # NULL /\ \A b \in Actors \ {a} : actors'[b] = actors[b]
        BY <1>4, <2>1, WorldAssumption DEF Actor, WorldTypeOK
      <3> QED BY <1>3, <2>1, <3>1 DEF HandsOutListed
    <2>3. CASE \E q \in Rooms : Holds(lists[q], a)
      BY <1>1, <1>5, <2>2, <2>3, EnterBreaks
    <2>4. CASE \A q \in Rooms : ~Holds(lists[q], a)
      <3>1. PICK new : Listed(new)'
        BY <1>1, <1>4, <1>5, <2>4, EnterListed
      <3>2. Chain(new[r], contents'[r], next_contents')
        BY <3>1 DEF Listed
      <3>3. server' \in WalkOutcomes(actors', contents'[r], next_contents')
        BY <1>5 DEF EnterWorld
      <3>4. server' \in {"running", "undefined"}
        BY <3>2, <3>3, ChainOutcomes
      <3> QED BY <2>2, <2>4, <3>1, <3>4 DEF Lists
    <2> QED BY <2>3, <2>4
  <1>6. ASSUME NEW a \in Actors, LeaveWorld(a), UNCHANGED server, server = "running"
        PROVE  ~HandsOutListed /\ Lists' /\ server' \notin {"hung", "contents_located"}
    <2>1. Listed(lists)'
      BY <1>1, <1>4, <1>6, LeaveListed
    <2>2. ~HandsOutListed
      BY <1>4, <1>6 DEF HandsOutListed, LeaveWorld, WorldTypeOK
    <2> QED BY <1>6, <2>1, <2>2 DEF Lists
  <1>7. ASSUME NEW a \in Actors, actors[a] # NULL, LookAround(a)
        PROVE  ~HandsOutListed /\ Lists' /\ server' \notin {"hung", "contents_located"}
    <2>1. Listed(lists)' /\ ~HandsOutListed
      BY <1>1, <1>7 DEF LookAround, worldVars, Listed, HandsOutListed
    <2>2. actors[a].location \in Rooms
      BY <1>4, <1>7 DEF WorldTypeOK, Actor
    <2>3. server' \in {"running", "undefined"}
      BY <1>2, <1>7, <2>2, ChainOutcomes DEF LookAround
    <2> QED BY <2>1, <2>3 DEF Lists
  <1>8. ASSUME NEW a \in Actors, actors[a] # NULL, NEW to \in Rooms, WalkTo(a, to)
        PROVE  ~HandsOutListed /\ Lists' /\ server' \notin {"hung", "contents_located"}
    <2>1. /\ Lists'
          /\ server' \in WalkOutcomes(actors, contents[actors[a].location], next_contents)
               \cup WalkOutcomes(actors', contents'[to], next_contents')
      BY <1>1, <1>8, WalkToListed
    <2>2. PICK new : Listed(new)'
      BY <2>1 DEF Lists
    <2>3. Chain(new[to], contents'[to], next_contents')
      BY <2>2 DEF Listed
    <2>4. actors[a].location \in Rooms
      BY <1>4, <1>8 DEF WorldTypeOK, Actor
    <2>5. Chain(lists[actors[a].location], contents[actors[a].location], next_contents)
      BY <1>2, <2>4
    <2>6. server' \in {"running", "undefined"}
      BY <2>1, <2>3, <2>5, ChainOutcomes
    <2>7. ~HandsOutListed
      BY <1>4, <1>8 DEF HandsOutListed, WalkTo, worldVars, WorldTypeOK
    <2> QED BY <2>1, <2>6, <2>7
  <1> QED BY <1>5, <1>6, <1>7, <1>8 DEF Next, Act, Stopped

-----------------------------------------------------------------------------
(* Theorems.                                                                *)

\* No pointer of the world leads to a cell that was never handed out.
LEMMA PointersInvariant == Spec => []PointerInv
  <1>1. Init => PointerInv
    BY WorldInitInv, WorldAssumption
    DEF Init, WorldInit, PointerInv, PointsToUsed, Statuses
  <1> QED BY <1>1, NextPointers, PTL DEF Spec

\* Every pointer of the world is NULL or the address of a cell.
THEOREM WorldTyped == Spec => []TypeOK
  <1>1. PointerInv => TypeOK
    BY DEF PointerInv, WorldInv, TypeOK
  <1> QED BY <1>1, PointersInvariant, PTL

\* Whoever perceives "to the actor's location and all actors in it" (act.h)
\* goes on reaching exactly the actors that are there until calloc hands out an
\* address that a list still holds, and no longer; until then no walk loops and
\* no CHECK of actor_add_contents fails.
THEOREM ReuseAloneBreaksContents == Spec => ContentsBreakExactlyOnReuse
  <1>1. (PointerInv /\ ContentsMatchLocations => Lists)'
    BY MatchListed, PTL
  <1>2. (Lists => ContentsMatchLocations)'
    BY ListedMatch, PTL
  <1>3. PointerInv /\ PointerInv' /\ [Next]_<<server, worldVars>> =>
          [ContentsMatchLocations =>
             /\ ContentsMatchLocations' <=> ~HandsOutListed
             /\ ~HandsOutListed => server' \notin {"hung", "contents_located"}
           ]_<<server, worldVars>>
    <2> SUFFICES ASSUME PointerInv, PointerInv', [Next]_<<server, worldVars>>,
                        ContentsMatchLocations, ~UNCHANGED <<server, worldVars>>
                 PROVE  /\ ContentsMatchLocations' <=> ~HandsOutListed
                        /\ ~HandsOutListed => server' \notin {"hung", "contents_located"}
      OBVIOUS
    <2>1. Lists
      BY MatchListed
    <2>2. \/ HandsOutListed /\ ~Lists'
          \/ ~HandsOutListed /\ Lists' /\ server' \notin {"hung", "contents_located"}
      BY <2>1, NextLists
    <2>3. Lists' <=> ContentsMatchLocations'
      BY <1>1, <1>2
    <2> QED BY <2>2, <2>3
  <1> QED BY <1>3, PointersInvariant, PTL DEF Spec, ContentsBreakExactlyOnReuse

\* So they match all along a run that hands out no such address.
COROLLARY ContentsMatchUntilReuse ==
    Spec /\ [][~HandsOutListed]_<<server, worldVars>> => []ContentsMatchLocations
  <1>1. Init => ContentsMatchLocations
    <2> SUFFICES ASSUME Init PROVE Lists
      BY ListedMatch
    <2> DEFINE lists == [r \in Rooms |-> << >>]
    <2>1. \A r \in Rooms : Chain(lists[r], contents[r], next_contents)
      BY DEF Init, WorldInit, Chain, At
    <2>2. Listed(lists)
      BY <2>1 DEF Listed, Init, WorldInit, Holds
    <2> QED BY <2>2 DEF Lists
  <1>2. ContentsMatchLocations /\ [~HandsOutListed]_<<server, worldVars>>
          /\ [ContentsMatchLocations =>
                /\ ContentsMatchLocations' <=> ~HandsOutListed
                /\ ~HandsOutListed => server' \notin {"hung", "contents_located"}
              ]_<<server, worldVars>>
        => ContentsMatchLocations'
    BY DEF worldVars, ContentsMatchLocations
  <1> QED
    BY <1>1, <1>2, ReuseAloneBreaksContents, PTL DEF Spec, ContentsBreakExactlyOnReuse
=============================================================================
