--------------------------- MODULE RoundTripProofs ---------------------------
(***************************************************************************)
(* Theorems about roundtrip-verify: about Rotation, for every set of       *)
(* fields, every seed and every shuffle that is a permutation, every       *)
(* change of the objects between two invocations and every crash; and      *)
(* about RoundTrip, for every schema, object and mirror and every manifest *)
(* that a history of edits leads to.                                       *)
(***************************************************************************)
EXTENDS Rotation, RoundTrip, FiniteSetTheorems, SequenceTheorems, WellFoundedInduction, TLAPS

-----------------------------------------------------------------------------
(***************************************************************************)
(* Division.                                                               *)
(***************************************************************************)
LEMMA MulMono ==
    ASSUME NEW a \in Nat, NEW b \in Nat, NEW c \in Nat, a <= b
    PROVE  a * c <= b * c
<1>1. PICK d \in Nat : b = a + d
  <2>1. b - a \in Nat /\ b = a + (b - a)
    OBVIOUS
  <2>. QED  BY <2>1
<1>2. b * c = a * c + d * c /\ d * c \in Nat /\ a * c \in Nat
  BY <1>1
<1>. QED  BY <1>2

LEMMA DivFacts ==
    ASSUME NEW a \in Nat, NEW n \in Nat \ {0}
    PROVE  /\ a \div n \in Nat /\ a % n \in 0..(n - 1)
           /\ a = n * (a \div n) + (a % n)
OBVIOUS

LEMMA RemainderIsUnique ==
    ASSUME NEW n \in Nat \ {0}, NEW q \in Int, NEW p \in Int,
           NEW r \in 0..(n - 1), NEW t \in 0..(n - 1), n * q + r = n * p + t
    PROVE  r = t
<1>1. CASE q = p
  BY <1>1
<1>2. CASE q >= p + 1
  <2>1. PICK d \in Nat : q = p + 1 + d
    <3>1. q - p - 1 \in Nat /\ q = p + 1 + (q - p - 1)
      BY <1>2
    <3>. QED  BY <3>1
  <2>2. n * q = n * p + n + n * d /\ n * d \in Nat /\ n * p \in Int
    BY <2>1
  <2>. QED  BY <2>2
<1>3. CASE p >= q + 1
  <2>1. PICK d \in Nat : p = q + 1 + d
    <3>1. p - q - 1 \in Nat /\ p = q + 1 + (p - q - 1)
      BY <1>3
    <3>. QED  BY <3>1
  <2>2. n * p = n * q + n + n * d /\ n * d \in Nat /\ n * q \in Int
    BY <2>1
  <2>. QED  BY <2>2
<1>. QED  BY <1>1, <1>2, <1>3

LEMMA SmallRemainder ==
    ASSUME NEW n \in Nat \ {0}, NEW r \in 0..(n - 1)
    PROVE  r % n = r
<1>. DEFINE q == r \div n
            t == r % n
<1>0. r \in Nat
  OBVIOUS
<1>1. q \in Nat /\ t \in 0..(n - 1) /\ r = n * q + t
  BY <1>0, DivFacts, Zenon
<1>. HIDE DEF q, t
<1>2. r = n * 0 + r
  OBVIOUS
<1>3. 0 \in Int /\ q \in Int /\ n * q + t = n * 0 + r
  BY <1>1, <1>2
<1>4. t = r
  BY <1>1, <1>3, RemainderIsUnique, Zenon
<1>. QED  BY <1>4 DEF t

\* Walking on from a reduced cursor is walking on from the cursor itself.
LEMMA RemainderOfSum ==
    ASSUME NEW n \in Nat \ {0}, NEW a \in Nat, NEW d \in Nat
    PROVE  ((a % n) + d) % n = (a + d) % n
<1>. DEFINE u == a % n
            v == (u + d) % n
            w == (a + d) % n
<1>. DEFINE x == a \div n
            y == (u + d) \div n
            z == (a + d) \div n
<1>1. x \in Nat /\ u \in 0..(n - 1) /\ a = n * x + u
  BY DivFacts, Zenon
<1>. HIDE DEF u, x
<1>2. u + d \in Nat /\ a + d \in Nat
  BY <1>1
<1>3. y \in Nat /\ v \in 0..(n - 1) /\ u + d = n * y + v
  BY <1>2, DivFacts, Zenon
<1>4. z \in Nat /\ w \in 0..(n - 1) /\ a + d = n * z + w
  BY <1>2, DivFacts, Zenon
<1>. HIDE DEF v, w, y, z
<1>5. n * (x + y) = n * x + n * y /\ n * x \in Nat /\ n * y \in Nat
  BY <1>1, <1>3
<1>6. x + y \in Int /\ z \in Int /\ n * (x + y) + v = n * z + w
  BY <1>1, <1>3, <1>4, <1>5
<1>7. v = w
  BY <1>3, <1>4, <1>6, RemainderIsUnique, Zenon
<1>. QED  BY <1>7 DEF u, v, w

LEMMA CeilDivFacts ==
    ASSUME NEW a \in Nat \ {0}, NEW b \in Nat \ {0}
    PROVE  /\ CeilDiv(a, b) \in Nat \ {0} /\ CeilDiv(a, b) <= a
           /\ a <= CeilDiv(a, b) * b
<1>. DEFINE q == (a + b - 1) \div b
            r == (a + b - 1) % b
<1>0. a + b - 1 \in Nat
  OBVIOUS
<1>1. q \in Nat /\ r \in 0..(b - 1) /\ a + b - 1 = b * q + r
  BY <1>0, DivFacts, Zenon
<1>. HIDE DEF q, r
<1>2. b * q = q * b /\ q * b \in Nat
  BY <1>1
<1>3. a <= q * b /\ q * b <= a + b - 1
  BY <1>1, <1>2
<1>4. q # 0
  BY <1>1, <1>3
<1>5. q <= a
  <2>1. CASE q <= a
    BY <2>1
  <2>2. CASE a + 1 <= q
    <3>1. (a + 1) * b <= q * b
      BY <1>1, <2>2, MulMono
    <3>2. (a + 1) * b = a * b + b /\ a * b \in Nat
      OBVIOUS
    <3>3. a * 1 <= a * b
      <4>1. 1 * a <= b * a
        BY MulMono
      <4>. QED  BY <4>1
    <3>. QED  BY <1>3, <3>1, <3>2, <3>3, <1>2
  <2>. QED  BY <1>1, <2>1, <2>2
<1>. QED  BY <1>1, <1>3, <1>4, <1>5 DEF CeilDiv, q

\* The budget of a cell reaches all of it within Target runs.
LEMMA BudgetFacts ==
    ASSUME NEW n \in Nat \ {0}
    PROVE  /\ RepresentativesPerRun(n) \in Nat \ {0} /\ RepresentativesPerRun(n) <= n
           /\ Target(n) \in Nat \ {0}
           /\ n <= RepresentativesPerRun(n) * Target(n)
<1>1. Target(n) \in Nat \ {0}
  BY CeilDivFacts DEF Target
<1>2. /\ CeilDiv(n, Target(n)) \in Nat \ {0} /\ CeilDiv(n, Target(n)) <= n
      /\ n <= CeilDiv(n, Target(n)) * Target(n)
  BY <1>1, CeilDivFacts
<1>3. RepresentativesPerRun(n) = CeilDiv(n, Target(n))
  BY <1>2 DEF RepresentativesPerRun
<1>. QED  BY <1>1, <1>2, <1>3

-----------------------------------------------------------------------------
(***************************************************************************)
(* The sorted member list: Nth counts through a set of fields.             *)
(***************************************************************************)
Rank(S, f) == Cardinality({g \in S : g < f})

LEMMA FieldSets ==
    ASSUME NEW S \in SUBSET Fields
    PROVE  /\ IsFiniteSet(S) /\ Cardinality(S) \in 0..NumFields
           /\ S # {} <=> Cardinality(S) # 0
<1>1. IsFiniteSet(Fields) /\ Cardinality(Fields) = NumFields
  <2>1. NumFields \in Int /\ 1 \in Int /\ ~(1 > NumFields) /\ NumFields - 1 + 1 = NumFields
    BY RotationAssumption
  <2>2. IsFiniteSet(1..NumFields) /\ Cardinality(1..NumFields) = NumFields
    BY <2>1, FS_Interval
  <2>. QED  BY <2>2 DEF Fields
<1>2. IsFiniteSet(S) /\ Cardinality(S) <= NumFields
  BY <1>1, FS_Subset
<1>3. Cardinality(S) \in Nat
  BY <1>2, FS_CardinalityType
<1>4. Cardinality(S) \in 0..NumFields
  BY <1>2, <1>3, RotationAssumption
<1>. QED  BY <1>2, <1>4, FS_EmptySet

LEMMA RankType ==
    ASSUME NEW S \in SUBSET Fields, NEW f \in S
    PROVE  Rank(S, f) \in 0..(Cardinality(S) - 1)
<1>. DEFINE B == {g \in S : g < f}
<1>1. IsFiniteSet(S) /\ Cardinality(S) \in Nat
  BY FieldSets, RotationAssumption
<1>2. B \in SUBSET S /\ f \notin B
  BY DEF Fields
<1>3. B # S
  BY <1>2
<1>4. IsFiniteSet(B) /\ Cardinality(B) <= Cardinality(S) /\ Cardinality(B) # Cardinality(S)
  BY <1>1, <1>2, <1>3, FS_Subset
<1>5. Cardinality(B) \in Nat
  BY <1>4, FS_CardinalityType
<1>6. Cardinality(B) \in 0..(Cardinality(S) - 1)
  BY <1>1, <1>4, <1>5
<1>. QED  BY <1>6 DEF Rank

LEMMA RankGrows ==
    ASSUME NEW S \in SUBSET Fields, NEW f \in S, NEW g \in S, f < g
    PROVE  Rank(S, f) < Rank(S, g)
<1>. DEFINE A == {h \in S : h < f}
            B == {h \in S : h < g}
<1>1. IsFiniteSet(S)
  BY FieldSets
<1>2. A \in SUBSET B /\ f \in B /\ f \notin A /\ B \in SUBSET S
  <2>1. \A h \in S : h \in Int
    BY DEF Fields
  <2>2. \A h \in S : h < f => h < g
    BY <2>1
  <2>3. ~(f < f)
    BY <2>1
  <2>. QED  BY <2>2, <2>3
<1>3. IsFiniteSet(B)
  BY <1>1, <1>2, FS_Subset
<1>4. A # B
  BY <1>2
<1>5. IsFiniteSet(A) /\ Cardinality(A) <= Cardinality(B) /\ Cardinality(A) # Cardinality(B)
  BY <1>2, <1>3, <1>4, FS_Subset
<1>6. Cardinality(A) \in Nat /\ Cardinality(B) \in Nat
  BY <1>3, <1>5, FS_CardinalityType
<1>7. Cardinality(A) < Cardinality(B)
  BY <1>5, <1>6
<1>. QED  BY <1>7 DEF Rank

LEMMA RankIsInjective ==
    ASSUME NEW S \in SUBSET Fields, NEW f \in S, NEW g \in S, Rank(S, f) = Rank(S, g)
    PROVE  f = g
<1>1. Rank(S, f) \in Int
  BY RankType, FieldSets
<1>2. f \in Int /\ g \in Int
  BY DEF Fields
<1>3. ~(f < g)
  BY <1>1, RankGrows
<1>4. ~(g < f)
  BY <1>1, RankGrows
<1>. QED  BY <1>2, <1>3, <1>4

\* A member's rank is its index.
LEMMA NthOfRank ==
    ASSUME NEW S \in SUBSET Fields, NEW f \in S
    PROVE  Nth(S, Rank(S, f)) = f
<1>. DEFINE x == CHOOSE h \in S : Rank(S, h) = Rank(S, f)
<1>1. x \in S /\ Rank(S, x) = Rank(S, f)
  <2>1. \E h \in S : Rank(S, h) = Rank(S, f)
    OBVIOUS
  <2>. HIDE DEF Rank
  <2>. QED  BY <2>1, Zenon
<1>. HIDE DEF x
<1>2. x = f
  BY <1>1, RankIsInjective
<1>3. Nth(S, Rank(S, f)) = x
  BY DEF Nth, Rank, x
<1>. QED  BY <1>2, <1>3

\* Every index below the size names a member: no rank is left out.
LEMMA NthIsMember ==
    ASSUME NEW S \in SUBSET Fields, NEW j \in 0..(Cardinality(S) - 1)
    PROVE  Nth(S, j) \in S
<1>1. IsFiniteSet(S) /\ Cardinality(S) \in Nat
  BY FieldSets, RotationAssumption
<1>2. \E f \in S : Rank(S, f) = j
  <2>1. SUFFICES ASSUME \A f \in S : Rank(S, f) # j  PROVE FALSE
    OBVIOUS
  <2>. DEFINE n == Cardinality(S)
              T == (0..(n - 1)) \ {j}
              rank == [f \in S |-> Rank(S, f)]
  <2>2. IsFiniteSet(0..(n - 1)) /\ Cardinality(0..(n - 1)) = n
    <3>1. 0 \in Int /\ n - 1 \in Int /\ ~(0 > n - 1) /\ n - 1 - 0 + 1 = n
      BY <1>1
    <3>. QED  BY <3>1, FS_Interval
  <2>3. IsFiniteSet(T) /\ Cardinality(T) = n - 1
    BY <2>2, FS_RemoveElement
  <2>4. Cardinality(T) < Cardinality(S)
    BY <1>1, <2>3
  <2>5. rank \in [S -> T]
    <3>1. \A f \in S : Rank(S, f) \in T
      BY <2>1, RankType
    <3>. QED  BY <3>1
  <2>. HIDE DEF T, rank, n
  <2>6. PICK f \in S, g \in S : f # g /\ rank[f] = rank[g]
    BY <1>1, <2>3, <2>4, <2>5, FS_PigeonHole
  <2>7. Rank(S, f) = Rank(S, g)
    BY <2>6 DEF rank
  <2>. QED  BY <2>6, <2>7, RankIsInjective
<1>3. PICK f \in S : Rank(S, f) = j
  BY <1>2
<1>4. Nth(S, j) = f
  BY <1>3, NthOfRank
<1>. QED  BY <1>4

-----------------------------------------------------------------------------
(***************************************************************************)
(* What Select does with one cell, and CreditCells with one manifest.      *)
(***************************************************************************)
LEMMA StateParts ==
    ASSUME NEW s \in RotationStates
    PROVE  /\ s.seed \in Seeds /\ s.cursors \in [Slots -> 0..(NumFields - 1)]
           /\ s.sticky \in [Slots -> SUBSET Fields]
           /\ s = [seed |-> s.seed, cursors |-> s.cursors, sticky |-> s.sticky]
BY DEF RotationStates

LEMMA MakeState ==
    ASSUME NEW seed \in Seeds, NEW cursors \in [Slots -> 0..(NumFields - 1)],
           NEW sticky \in [Slots -> SUBSET Fields]
    PROVE  [seed |-> seed, cursors |-> cursors, sticky |-> sticky] \in RotationStates
BY DEF RotationStates

\* The order walks every index of the member list.
LEMMA OrderFacts ==
    ASSUME NEW seed \in Seeds, NEW k \in Shapes, NEW n \in 1..NumFields
    PROVE  /\ \A i \in 0..(n - 1) : Shuffle(seed, k, n)[i] \in 0..(n - 1)
           /\ \A j \in 0..(n - 1) : \E i \in 0..(n - 1) : Shuffle(seed, k, n)[i] = j
<1>1. {Shuffle(seed, k, n)[i] : i \in 0..(n - 1)} = 0..(n - 1)
  BY RotationAssumption
<1>. QED  BY <1>1

\* The member a cursor c points at, d places on.
Place(seed, k, S, c, d) == Nth(S, Shuffle(seed, k, Cardinality(S))[(c + d) % Cardinality(S)])

LEMMA PlaceIsMember ==
    ASSUME NEW seed \in Seeds, NEW k \in Shapes, NEW S \in SUBSET Fields, S # {},
           NEW c \in Nat, NEW d \in Nat
    PROVE  Place(seed, k, S, c, d) \in S
<1>. DEFINE n == Cardinality(S)
<1>1. n \in 1..NumFields /\ n \in Nat \ {0}
  BY FieldSets, RotationAssumption
<1>. HIDE DEF n
<1>2. c + d \in Nat
  OBVIOUS
<1>3. (c + d) % n \in 0..(n - 1)
  BY <1>1, <1>2, DivFacts, Zenon
<1>4. Shuffle(seed, k, n)[(c + d) % n] \in 0..(n - 1)
  BY <1>1, <1>3, OrderFacts, Zenon
<1>. QED  BY <1>4, NthIsMember DEF Place, n

\* Walking one whole round from any cursor meets every member.
LEMMA EveryMemberHasAPlace ==
    ASSUME NEW seed \in Seeds, NEW k \in Shapes, NEW S \in SUBSET Fields, NEW f \in S, NEW c \in Nat
    PROVE  \E d \in 0..(Cardinality(S) - 1) : Place(seed, k, S, c, d) = f
<1>. DEFINE n == Cardinality(S)
<1>1. n \in 1..NumFields /\ n \in Nat \ {0}
  BY FieldSets, RotationAssumption
<1>2. PICK j \in 0..(n - 1) : Nth(S, j) = f
  BY RankType, NthOfRank
<1>. HIDE DEF n
<1>7. \A h \in 0..(n - 1) : \E i \in 0..(n - 1) : Shuffle(seed, k, n)[i] = h
  BY <1>1, OrderFacts, Zenon
<1>3. PICK i \in 0..(n - 1) : Shuffle(seed, k, n)[i] = j
  BY <1>7
<1>4. \E d \in 0..(n - 1) : (c + d) % n = i
  <2>. DEFINE r == c % n
  <2>1. r \in 0..(n - 1)
    BY <1>1, DivFacts, Zenon
  <2>2. \A d \in Nat : (r + d) % n = (c + d) % n
    BY <1>1, RemainderOfSum, Zenon
  <2>. HIDE DEF r
  <2>3. CASE r <= i
    <3>1. i - r \in 0..(n - 1) /\ i - r \in Nat /\ r + (i - r) = i
      BY <2>1, <2>3, <1>1
    <3>2. i % n = i
      BY <1>1, SmallRemainder, Zenon
    <3>3. (r + (i - r)) % n = (c + (i - r)) % n
      BY <2>2, <3>1, Zenon
    <3>. QED  BY <3>1, <3>2, <3>3, Zenon
  <2>4. CASE i < r
    <3>1. i + n - r \in 0..(n - 1) /\ i + n - r \in Nat /\ r + (i + n - r) = n + i
      BY <2>1, <2>4, <1>1
    <3>2. n + i \in Nat /\ i \in Nat /\ i % n = i
      BY <1>1, SmallRemainder
    <3>3. (n + i) % n = i
      <4>. DEFINE q == (n + i) \div n
                  t == (n + i) % n
      <4>1. q \in Nat /\ t \in 0..(n - 1) /\ n + i = n * q + t
        BY <1>1, <3>2, DivFacts, Zenon
      <4>. HIDE DEF q, t
      <4>2. n * q + t = n * 1 + i /\ q \in Int /\ 1 \in Int
        BY <4>1, <1>1
      <4>3. t = i
        BY <4>1, <4>2, <1>1, RemainderIsUnique, Zenon
      <4>. QED  BY <4>3 DEF t
    <3>4. (r + (i + n - r)) % n = (c + (i + n - r)) % n
      BY <2>2, <3>1, Zenon
    <3>. QED  BY <3>1, <3>3, <3>4, Zenon
  <2>. QED  BY <2>1, <2>3, <2>4
<1>5. PICK d \in 0..(n - 1) : (c + d) % n = i
  BY <1>4
<1>. QED  BY <1>2, <1>3, <1>5 DEF Place, n

LEMMA SelectFacts ==
    ASSUME NEW s \in RotationStates, NEW scope \in Scopes, NEW k \in Shapes, NEW S \in SUBSET Fields
    PROVE  LET sel == Select(s, scope, k, S)
               slot == <<scope, k>>
               c == s.cursors[slot]
               b == RepresentativesPerRun(Cardinality(S))
           IN /\ c \in Nat
              /\ sel.state.cursors \in [Slots -> 0..(NumFields - 1)]
              /\ S = {} => sel.state = s /\ sel.chosen = {}
              /\ S # {} => /\ sel.state.cursors[slot] = (c + b) % Cardinality(S)
                           /\ sel.chosen = {Place(s.seed, k, S, c, i) : i \in 0..(b - 1)} \cup s.sticky[slot]
              /\ (S = {}) <=> (sel.chosen = {})
              /\ sel.chosen \in SUBSET Fields
<1>. DEFINE sel == Select(s, scope, k, S)
            slot == <<scope, k>>
            c == s.cursors[slot]
            n == Cardinality(S)
            b == RepresentativesPerRun(n)
            walk == {Place(s.seed, k, S, c, i) : i \in 0..(b - 1)}
            next == Advance(c, b, n)
<1>1. slot \in Slots /\ n \in 0..NumFields /\ (S # {} <=> n # 0)
  BY FieldSets DEF Slots
<1>2. /\ s.seed \in Seeds /\ s.cursors \in [Slots -> 0..(NumFields - 1)]
      /\ s.sticky \in [Slots -> SUBSET Fields]
  BY StateParts
<1>3. c \in Nat /\ s.sticky[slot] \in SUBSET Fields
  <2>1. s.cursors[slot] \in 0..(NumFields - 1) /\ s.sticky[slot] \in SUBSET Fields
    BY <1>1, <1>2
  <2>. QED  BY <2>1
<1>. HIDE DEF slot, n
<1>4. CASE S = {}
  <2>1. sel.state = s /\ sel.chosen = {}
    BY <1>1, <1>4 DEF Select, n
  <2>. QED  BY <1>2, <1>3, <1>4, <2>1 DEF n, slot
<1>5. CASE S # {}
  <2>1. n \in Nat \ {0} /\ n # 0 /\ n \in 1..NumFields
    BY <1>1, <1>5, RotationAssumption
  <2>2. b \in Nat \ {0}
    BY <2>1, BudgetFacts
  <2>3. next \in 0..(n - 1)
    <3>1. c + b \in Nat
      BY <1>3, <2>2
    <3>. QED  BY <2>1, <3>1, DivFacts, Zenon DEF Advance
  <2>4. /\ sel.state = [s EXCEPT !.cursors[slot] = Advance(@, b, n)]
        /\ sel.chosen = walk \cup s.sticky[slot]
    BY <2>1 DEF Select, stateKey, Place, n, slot
  <2>5. sel.state.cursors = [s.cursors EXCEPT ![slot] = next]
    BY <2>4, StateParts
  <2>6. next \in 0..(NumFields - 1)
    BY <2>1, <2>3, RotationAssumption
  <2>. HIDE DEF next
  <2>7. sel.state.cursors \in [Slots -> 0..(NumFields - 1)] /\ sel.state.cursors[slot] = next
    BY <1>1, <1>2, <2>5, <2>6
  <2>8. walk \in SUBSET Fields /\ walk # {}
    <3>1. \A i \in 0..(b - 1) : Place(s.seed, k, S, c, i) \in S
      BY <1>2, <1>3, <1>5, PlaceIsMember
    <3>2. 0 \in 0..(b - 1)
      BY <2>2
    <3>. HIDE DEF b, c
    <3>. QED  BY <3>1, <3>2
  <2>. HIDE DEF walk
  <2>9. sel.chosen \in SUBSET Fields /\ sel.chosen # {}
    BY <1>3, <2>4, <2>8
  <2>. QED  BY <1>3, <1>5, <2>4, <2>7, <2>9 DEF n, slot, walk, next, Advance
<1>. QED  BY <1>4, <1>5

\* A cell without members is left alone; one with members gets a representative.
LEMMA SelectSome ==
    ASSUME NEW s \in RotationStates, NEW scope \in Scopes, NEW k \in Shapes, NEW S \in SUBSET Fields
    PROVE  /\ S = {} => Select(s, scope, k, S).state = s
           /\ (S = {}) <=> (Select(s, scope, k, S).chosen = {})
<1>. DEFINE sel == Select(s, scope, k, S)
<1>1. S = {} => sel.state = s /\ sel.chosen = {}
  BY SelectFacts
<1>2. (S = {}) <=> (sel.chosen = {})
  BY SelectFacts
<1>. HIDE DEF sel
<1>3. /\ S = {} => sel.state = s
      /\ (S = {}) <=> (sel.chosen = {})
  BY <1>1, <1>2
<1>. QED  BY <1>3 DEF sel

\* CreditCells moves the cursors of its own scope and promotes nobody.
LEMMA CreditFacts ==
    ASSUME NEW s \in RotationStates, NEW m \in Ms
    PROVE  LET c == CreditCells(s, m)
           IN /\ c.state \in RotationStates
              /\ c.state.seed = s.seed /\ c.state.sticky = s.sticky
              /\ \A x \in Slots : x[1] # manifestScope[m] => c.state.cursors[x] = s.cursors[x]
              /\ \A k \in Shapes :
                   LET sel == Select(s, manifestScope[m], k, members(m, k))
                   IN /\ c.chosen[k] = sel.chosen
                      /\ c.state.cursors[<<manifestScope[m], k>>] = sel.state.cursors[<<manifestScope[m], k>>]
<1>. DEFINE scope == manifestScope[m]
            Sel(k) == Select(s, scope, k, members(m, k))
            sel == [k \in Shapes |-> Sel(k)]
            Mine(x) == {k \in Shapes : stateKey(scope, k) = x}
            Cursor(x) == IF Mine(x) = {} THEN s.cursors[x]
                         ELSE sel[CHOOSE k \in Mine(x) : TRUE].state.cursors[x]
            cursors == [x \in Slots |-> Cursor(x)]
            c == CreditCells(s, m)
<1>1. scope \in Scopes
  BY DEF Scopes
<1>2. /\ s.seed \in Seeds /\ s.cursors \in [Slots -> 0..(NumFields - 1)]
      /\ s.sticky \in [Slots -> SUBSET Fields]
      /\ s = [seed |-> s.seed, cursors |-> s.cursors, sticky |-> s.sticky]
  BY StateParts
<1>3. /\ c.state = [s EXCEPT !.cursors = cursors]
      /\ c.chosen = [k \in Shapes |-> sel[k].chosen]
  BY DEF CreditCells
<1>4. \A k \in Shapes : Sel(k).state.cursors \in [Slots -> 0..(NumFields - 1)]
  <2>. TAKE k \in Shapes
  <2>1. members(m, k) \in SUBSET Fields
    BY DEF members
  <2>. HIDE DEF scope
  <2>. QED  BY <1>1, <2>1, SelectFacts
<1>. HIDE DEF Sel, c, scope
<1>5. \A k \in Shapes : sel[k] = Sel(k)
  OBVIOUS
<1>. HIDE DEF sel
<1>6. \A k \in Shapes : Cursor(<<scope, k>>) = Sel(k).state.cursors[<<scope, k>>]
  <2>. TAKE k \in Shapes
  <2>1. Mine(<<scope, k>>) = {k}
    BY DEF stateKey
  <2>2. (CHOOSE h \in {k} : TRUE) = k
    OBVIOUS
  <2>. QED  BY <1>5, <2>1, <2>2
<1>7. \A x \in Slots : x[1] # scope => Cursor(x) = s.cursors[x]
  <2>1. \A x \in Slots : x[1] # scope => Mine(x) = {}
    BY DEF stateKey
  <2>. QED  BY <2>1
<1>. HIDE DEF Cursor
<1>8. cursors \in [Slots -> 0..(NumFields - 1)]
  <2>1. \A x \in Slots : Cursor(x) \in 0..(NumFields - 1)
    <3>. TAKE x \in Slots
    <3>1. CASE x[1] # scope
      BY <1>2, <1>7, <3>1
    <3>2. CASE x[1] = scope
      <4>1. PICK k \in Shapes : x = <<scope, k>>
        BY <3>2 DEF Slots
      <4>. QED  BY <1>4, <1>6, <4>1
    <3>. QED  BY <3>1, <3>2
  <2>. QED  BY <2>1
<1>9. \A k \in Shapes : <<scope, k>> \in Slots
  BY <1>1 DEF Slots
<1>10. \A x \in Slots : cursors[x] = Cursor(x)
  OBVIOUS
<1>. HIDE DEF cursors
<1>11. c.state = [seed |-> s.seed, cursors |-> cursors, sticky |-> s.sticky]
  BY <1>2, <1>3
<1>12. c.state \in RotationStates
  BY <1>2, <1>8, <1>11, MakeState
<1>13. c.state.seed = s.seed /\ c.state.sticky = s.sticky /\ c.state.cursors = cursors
  BY <1>11
<1>14. \A k \in Shapes : c.chosen[k] = Sel(k).chosen
  BY <1>3, <1>5
<1>15. \A k \in Shapes : c.state.cursors[<<scope, k>>] = Sel(k).state.cursors[<<scope, k>>]
  BY <1>6, <1>9, <1>10, <1>13
<1>16. \A x \in Slots : x[1] # scope => c.state.cursors[x] = s.cursors[x]
  BY <1>7, <1>10, <1>13
<1>. QED  BY <1>12, <1>13, <1>14, <1>15, <1>16 DEF c, Sel, scope

-----------------------------------------------------------------------------
(***************************************************************************)
(* Types.                                                                  *)
(***************************************************************************)
TypeInv ==
  /\ TypeOK
  /\ live \in [Ms -> UNION {Lives(m) : m \in Ms}]
  /\ pos # 0 => rotation \in RotationStates
  /\ idle \in [Slots -> [Fields -> Nat]] /\ settled \in [Slots -> SUBSET Fields]

LEMMA ManifestAt ==
    /\ Len(Manifests) \in Nat
    /\ \A p \in 1..Len(Manifests) : Manifests[p] \in Ms /\ manifestScope[Manifests[p]] \in Scopes
<1>1. Len(Manifests) \in Nat /\ DOMAIN Manifests = 1..Len(Manifests)
  BY RotationAssumption
<1>. QED  BY <1>1 DEF Ms, Scopes

LEMMA MembersAreFields == \A slot \in Slots : Members(slot) \in SUBSET Fields
BY DEF Members, members

LEMMA PromotionsType ==
    ASSUME NEW s \in RotationStates
    PROVE  Promotions(s) \subseteq Slots \X Fields
<1>1. s.sticky \in [Slots -> SUBSET Fields]
  BY StateParts
<1>2. \A slot \in Slots : {slot} \X s.sticky[slot] \subseteq Slots \X Fields
  BY <1>1
<1>. QED  BY <1>2 DEF Promotions

\* What a save counts has its type.
LEMMA CountedType ==
    ASSUME TypeInv, pos # 0, Counted
    PROVE  /\ idle' \in [Slots -> [Fields -> Nat]] /\ settled' \in [Slots -> SUBSET Fields]
           /\ promoted' \subseteq Slots \X Fields
<1>1. \A s \in Slots : SettledNow(s) \in SUBSET Fields
  <2>1. settled \in [Slots -> SUBSET Fields]
    BY DEF TypeInv
  <2>. QED  BY <2>1, MembersAreFields DEF SettledNow
<1>2. \A s \in Slots : \A f \in Fields : IdleNow(s, f) \in Nat
  <2>1. \A s \in Slots : \A f \in Fields : idle[s][f] \in Nat
    BY DEF TypeInv
  <2>. QED  BY <2>1 DEF IdleNow
<1>3. promoted' \subseteq Slots \X Fields
  BY PromotionsType DEF TypeInv, Counted
<1>4. idle' = [s \in Slots |-> [f \in Fields |-> IdleNow(s, f)]]
  BY DEF Counted
<1>5. settled' = [s \in Slots |-> SettledNow(s)]
  BY DEF Counted
<1>. HIDE DEF IdleNow, SettledNow
<1>. QED  BY <1>1, <1>2, <1>3, <1>4, <1>5

LEMMA TypeHolds == Init => TypeInv
<1>. SUFFICES ASSUME Init PROVE TypeInv
  OBVIOUS
<1>1. 0 \in 0..(Len(Manifests) + 1)
  BY ManifestAt
<1>2. idle \in [Slots -> [Fields -> Nat]] /\ settled \in [Slots -> SUBSET Fields]
  BY DEF Init
<1>. QED  BY <1>1, <1>2 DEF Init, TypeInv, TypeOK

LEMMA LoadKeepsType == TypeInv /\ Load => TypeInv'
<1>. SUFFICES ASSUME TypeInv, Load PROVE TypeInv'
  OBVIOUS
<1>1. PICK seed \in Seeds : \E s \in LoadRotationState(file, seed) :
        /\ pos = 0 /\ rotation' = s /\ pos' = 1 /\ exit' = "none"
        /\ UNCHANGED <<file, produced, anyFindings, live, picks, history>>
  BY DEF Load
<1>2. PICK s \in LoadRotationState(file, seed) :
        /\ pos = 0 /\ rotation' = s /\ pos' = 1 /\ exit' = "none"
        /\ UNCHANGED <<file, produced, anyFindings, live, picks, history>>
  BY <1>1
<1>3. NewRotationState(seed) \in RotationStates
  <2>1. 0 \in 0..(NumFields - 1)
    BY RotationAssumption
  <2>. QED  BY <2>1, MakeState DEF NewRotationState
<1>4. s \in RotationStates
  BY <1>2, <1>3 DEF LoadRotationState, TypeInv, TypeOK
<1>5. pos' \in 0..(Len(Manifests) + 1)
  BY <1>2, ManifestAt
<1>. QED  BY <1>2, <1>4, <1>5 DEF TypeInv, TypeOK, history

LEMMA ReportKeepsType == TypeInv /\ Report => TypeInv'
<1>. SUFFICES ASSUME TypeInv, Report PROVE TypeInv'
  OBVIOUS
<1>. DEFINE m == Manifests[pos]
            c == CreditCells(rotation, m)
            scope == manifestScope[m]
<1>1. PICK finding \in BOOLEAN :
        /\ pos \in 1..Len(Manifests) /\ pos' = pos + 1 /\ produced' = TRUE
        /\ anyFindings' = (anyFindings \/ finding) /\ rotation' = c.state
        /\ picks' = [x \in Slots |-> IF x[1] = scope THEN c.chosen[x[2]] ELSE picks[x]]
        /\ UNCHANGED <<file, exit, live, history>>
  BY DEF Report
<1>2. pos # 0 /\ pos' \in 1..(Len(Manifests) + 1) /\ pos' \in 0..(Len(Manifests) + 1)
  BY <1>1, ManifestAt
<1>3. m \in Ms /\ scope \in Scopes /\ rotation \in RotationStates
  BY <1>1, <1>2, ManifestAt DEF TypeInv
<1>. HIDE DEF m, scope
<1>4. /\ c.state \in RotationStates
      /\ \A k \in Shapes : c.chosen[k] = Select(rotation, scope, k, members(m, k)).chosen
  BY <1>3, CreditFacts DEF scope
<1>5. \A k \in Shapes : c.chosen[k] \in SUBSET Fields
  <2>. TAKE k \in Shapes
  <2>1. members(m, k) \in SUBSET Fields
    BY DEF members
  <2>2. Select(rotation, scope, k, members(m, k)).chosen \in SUBSET Fields
    BY <1>3, <2>1, SelectFacts
  <2>. QED  BY <1>4, <2>2
<1>. HIDE DEF c
<1>6. picks' \in [Slots -> SUBSET Fields]
  <2>1. \A x \in Slots : x[2] \in Shapes
    BY DEF Slots
  <2>2. picks \in [Slots -> SUBSET Fields]
    BY DEF TypeInv, TypeOK
  <2>. QED  BY <1>1, <1>5, <2>1, <2>2
<1>7. anyFindings' \in BOOLEAN
  BY <1>1 DEF TypeInv, TypeOK
<1>. QED  BY <1>1, <1>2, <1>4, <1>6, <1>7 DEF TypeInv, TypeOK, history

LEMMA PromotedState ==
    ASSUME NEW s \in RotationStates, NEW slot \in Slots, NEW f \in Fields
    PROVE  LET t == [s EXCEPT !.sticky[slot] = @ \cup {f}]
           IN /\ t \in RotationStates /\ t.seed = s.seed /\ t.cursors = s.cursors
              /\ \A x \in Slots : s.sticky[x] \subseteq t.sticky[x]
<1>. DEFINE t == [s EXCEPT !.sticky[slot] = @ \cup {f}]
            sticky == [s.sticky EXCEPT ![slot] = @ \cup {f}]
<1>1. /\ s.seed \in Seeds /\ s.cursors \in [Slots -> 0..(NumFields - 1)]
      /\ s.sticky \in [Slots -> SUBSET Fields]
      /\ s = [seed |-> s.seed, cursors |-> s.cursors, sticky |-> s.sticky]
  BY StateParts
<1>2. sticky \in [Slots -> SUBSET Fields] /\ \A x \in Slots : s.sticky[x] \subseteq sticky[x]
  BY <1>1
<1>. HIDE DEF sticky
<1>3. t = [seed |-> s.seed, cursors |-> s.cursors, sticky |-> sticky]
  <2>1. t = [s EXCEPT !.sticky = sticky]
    BY DEF sticky
  <2>. HIDE DEF t
  <2>. QED  BY <1>1, <2>1
<1>. HIDE DEF t
<1>4. t \in RotationStates
  BY <1>1, <1>2, <1>3, MakeState
<1>. QED  BY <1>2, <1>3, <1>4 DEF t

LEMMA PromoteKeepsType == TypeInv /\ PromoteFailure => TypeInv'
<1>. SUFFICES ASSUME TypeInv, PromoteFailure PROVE TypeInv'
  OBVIOUS
<1>1. PICK slot \in Slots : \E f \in picks[slot] :
        /\ pos > 1 /\ Cardinality(Promotions(rotation)) < MaxSticky
        /\ rotation' = [rotation EXCEPT !.sticky[slot] = @ \cup {f}]
        /\ UNCHANGED <<file, pos, produced, anyFindings, exit, live, picks, history>>
  BY DEF PromoteFailure
<1>2. PICK f \in picks[slot] :
        /\ pos > 1
        /\ rotation' = [rotation EXCEPT !.sticky[slot] = @ \cup {f}]
        /\ UNCHANGED <<file, pos, produced, anyFindings, exit, live, picks, history>>
  BY <1>1
<1>3. f \in Fields /\ rotation \in RotationStates
  BY <1>2 DEF TypeInv, TypeOK
<1>4. rotation' \in RotationStates
  BY <1>2, <1>3, PromotedState
<1>. QED  BY <1>2, <1>4 DEF TypeInv, TypeOK, history

LEMMA EndsKeepsType ==
    ASSUME TypeInv, Ends, file' \in {Missing, Torn} \cup RotationStates,
           exit' \in {"ok", "error", "killed"},
           /\ idle' \in [Slots -> [Fields -> Nat]] /\ settled' \in [Slots -> SUBSET Fields]
           /\ promoted' \subseteq Slots \X Fields
    PROVE  TypeInv'
<1>1. 0 \in 0..(Len(Manifests) + 1)
  BY ManifestAt
<1>2. picks' \in [Slots -> SUBSET Fields]
  BY DEF Ends
<1>. QED  BY <1>1, <1>2 DEF TypeInv, TypeOK, Ends

LEMMA EndKeepsType ==
    TypeInv /\ (Save \/ SaveFails \/ NothingToSave \/ CrashInSave \/ Crash) => TypeInv'
<1>. SUFFICES ASSUME TypeInv, Save \/ SaveFails \/ NothingToSave \/ CrashInSave \/ Crash PROVE TypeInv'
  OBVIOUS
<1>0. Finished => pos # 0
  BY ManifestAt DEF Finished
<1>1. CASE Save
  <2>1. pos # 0 /\ file' = rotation /\ exit' = Verdict /\ Ends /\ Counted
    BY <1>0, <1>1 DEF Save
  <2>2. file' \in RotationStates
    BY <2>1 DEF TypeInv
  <2>3. exit' \in {"ok", "error", "killed"}
    BY <2>1 DEF Verdict
  <2>. QED  BY <2>1, <2>2, <2>3, CountedType, EndsKeepsType
<1>2. CASE SaveFails \/ NothingToSave \/ CrashInSave \/ Crash
  <2>1. Ends /\ UNCHANGED history /\ file' \in {file, Torn} /\ exit' \in {Verdict, "killed"}
    BY <1>2 DEF SaveFails, NothingToSave, CrashInSave, Crash
  <2>2. exit' \in {"ok", "error", "killed"} /\ file' \in {Missing, Torn} \cup RotationStates
    BY <2>1 DEF Verdict, TypeInv, TypeOK
  <2>3. /\ idle' \in [Slots -> [Fields -> Nat]] /\ settled' \in [Slots -> SUBSET Fields]
        /\ promoted' \subseteq Slots \X Fields
    BY <2>1 DEF history, TypeInv, TypeOK
  <2>. QED  BY <2>1, <2>2, <2>3, EndsKeepsType
<1>. QED  BY <1>1, <1>2

LEMMA WorldKeepsType == TypeInv /\ (LiveChanges \/ FileRemoved) => TypeInv'
<1>. SUFFICES ASSUME TypeInv, LiveChanges \/ FileRemoved PROVE TypeInv'
  OBVIOUS
<1>1. CASE LiveChanges
  <2>1. PICK m \in Ms : \E l \in Lives(m) :
          /\ pos = 0 /\ live[m] # l /\ live' = [live EXCEPT ![m] = l]
          /\ UNCHANGED <<file, rotation, pos, produced, anyFindings, exit, picks, history>>
    BY <1>1 DEF LiveChanges
  <2>2. PICK l \in Lives(m) :
          /\ live' = [live EXCEPT ![m] = l]
          /\ UNCHANGED <<file, rotation, pos, produced, anyFindings, exit, picks, history>>
    BY <2>1
  <2>3. live' \in [Ms -> UNION {Lives(n) : n \in Ms}] /\ \A n \in Ms : live'[n] \in Lives(n)
    BY <2>2 DEF TypeInv, TypeOK
  <2>. QED  BY <2>2, <2>3 DEF TypeInv, TypeOK, history
<1>2. CASE FileRemoved
  <2>1. idle' \in [Slots -> [Fields -> Nat]] /\ settled' \in [Slots -> SUBSET Fields] /\ promoted' = {}
    BY <1>2 DEF FileRemoved
  <2>. QED  BY <1>2, <2>1 DEF FileRemoved, TypeInv, TypeOK
<1>. QED  BY <1>1, <1>2

LEMMA TypeStep == TypeInv /\ [Next]_vars => TypeInv'
<1>. SUFFICES ASSUME TypeInv, [Next]_vars PROVE TypeInv'
  OBVIOUS
<1>1. CASE LoadFails
  BY <1>1 DEF LoadFails, TypeInv, TypeOK, history
<1>2. CASE SkipManifest
  <2>1. pos' \in 1..(Len(Manifests) + 1) /\ pos' \in 0..(Len(Manifests) + 1) /\ pos # 0
    BY <1>2, ManifestAt DEF SkipManifest
  <2>. QED  BY <1>2, <2>1 DEF SkipManifest, TypeInv, TypeOK, history
<1>3. CASE UNCHANGED vars
  BY <1>3 DEF vars, TypeInv, TypeOK
<1>. QED  BY <1>1, <1>2, <1>3, LoadKeepsType, ReportKeepsType, PromoteKeepsType, EndKeepsType,
             WorldKeepsType DEF Next

\* Type correctness, for any manifests, objects and shuffle: whatever a run
\* loaded, chose and saved, a cursor on disk indexes the order of its cell.
THEOREM TypeOKAlways == Spec => []TypeOK
<1>1. TypeInv => TypeOK
  BY DEF TypeInv
<1>. QED  BY <1>1, TypeHolds, TypeStep, PTL DEF Spec

-----------------------------------------------------------------------------
(***************************************************************************)
(* A saved promotion is kept.                                              *)
(***************************************************************************)
Kept ==
  /\ file = Missing => promoted = {}
  /\ file \in RotationStates => \A x \in promoted : x[2] \in file.sticky[x[1]]
  /\ pos # 0 => \A x \in promoted : x[2] \in rotation.sticky[x[1]]
  /\ StickyIsChosen

LEMMA NoStateTwice == /\ Missing # Torn
                      /\ Missing \notin RotationStates /\ Torn \notin RotationStates
<1>1. {Missing, Torn, NoState} \cap RotationStates = {} /\ Missing # Torn
  BY RotationAssumption
<1>. QED  BY <1>1

LEMMA KeptHolds == Init => Kept
BY NoStateTwice DEF Init, Kept, StickyIsChosen

\* A loaded state is the saved one, or a new one where nothing was saved.
LEMMA Loaded ==
    ASSUME TypeInv, Load
    PROVE  /\ pos = 0 /\ pos' = 1 /\ rotation' \in RotationStates
           /\ (file = Missing) \/ (file \in RotationStates /\ rotation' = file)
           /\ UNCHANGED <<file, live, picks, idle, settled, promoted>>
<1>1. PICK seed \in Seeds : \E s \in LoadRotationState(file, seed) :
        /\ pos = 0 /\ rotation' = s /\ pos' = 1 /\ exit' = "none"
        /\ UNCHANGED <<file, produced, anyFindings, live, picks, history>>
  BY DEF Load
<1>2. PICK s \in LoadRotationState(file, seed) :
        /\ pos = 0 /\ rotation' = s /\ pos' = 1
        /\ UNCHANGED <<file, produced, anyFindings, live, picks, history>>
  BY <1>1
<1>3. file # Missing => file \in RotationStates /\ s = file
  BY <1>2, NoStateTwice DEF LoadRotationState, TypeInv, TypeOK
<1>4. TypeInv'
  BY LoadKeepsType
<1>5. rotation' \in RotationStates
  <2>1. pos' # 0
    BY <1>2
  <2>. QED  BY <1>4, <2>1 DEF TypeInv
<1>. QED  BY <1>2, <1>3, <1>5 DEF history

\* A report credits the manifest at pos and moves on.
LEMMA Credited ==
    ASSUME TypeInv, Report
    PROVE  LET m == Manifests[pos]
               c == CreditCells(rotation, m)
           IN /\ pos \in 1..Len(Manifests) /\ pos' = pos + 1 /\ pos # 0 /\ pos' # 0
              /\ m \in Ms /\ manifestScope[m] \in Scopes /\ rotation \in RotationStates
              /\ rotation' = c.state
              /\ picks' = [x \in Slots |-> IF x[1] = manifestScope[m] THEN c.chosen[x[2]] ELSE picks[x]]
              /\ UNCHANGED <<file, live, idle, settled, promoted>>
<1>. DEFINE m == Manifests[pos]
            c == CreditCells(rotation, m)
<1>1. PICK finding \in BOOLEAN :
        /\ pos \in 1..Len(Manifests) /\ pos' = pos + 1 /\ produced' = TRUE
        /\ anyFindings' = (anyFindings \/ finding) /\ rotation' = c.state
        /\ picks' = [x \in Slots |-> IF x[1] = manifestScope[m] THEN c.chosen[x[2]] ELSE picks[x]]
        /\ UNCHANGED <<file, exit, live, history>>
  BY DEF Report
<1>2. pos # 0 /\ pos' # 0
  BY <1>1, ManifestAt
<1>3. m \in Ms /\ manifestScope[m] \in Scopes /\ rotation \in RotationStates
  BY <1>1, <1>2, ManifestAt DEF TypeInv
<1>. QED  BY <1>1, <1>2, <1>3 DEF history

\* A promotion adds a member and leaves the walk alone.
LEMMA PromotedFacts ==
    ASSUME TypeInv, PromoteFailure
    PROVE  /\ pos # 0 /\ rotation \in RotationStates
           /\ rotation'.seed = rotation.seed /\ rotation'.cursors = rotation.cursors
           /\ \A x \in Slots : rotation.sticky[x] \subseteq rotation'.sticky[x]
           /\ UNCHANGED <<file, pos, live, picks, idle, settled, promoted>>
<1>1. PICK slot \in Slots : \E f \in picks[slot] :
        /\ pos > 1 /\ Cardinality(Promotions(rotation)) < MaxSticky
        /\ rotation' = [rotation EXCEPT !.sticky[slot] = @ \cup {f}]
        /\ UNCHANGED <<file, pos, produced, anyFindings, exit, live, picks, history>>
  BY DEF PromoteFailure
<1>2. PICK f \in picks[slot] :
        /\ pos > 1
        /\ rotation' = [rotation EXCEPT !.sticky[slot] = @ \cup {f}]
        /\ UNCHANGED <<file, pos, produced, anyFindings, exit, live, picks, history>>
  BY <1>1
<1>3. pos # 0 /\ rotation \in RotationStates /\ f \in Fields
  BY <1>2 DEF TypeInv, TypeOK
<1>4. /\ rotation'.seed = rotation.seed /\ rotation'.cursors = rotation.cursors
      /\ \A x \in Slots : rotation.sticky[x] \subseteq rotation'.sticky[x]
  BY <1>2, <1>3, PromotedState
<1>. QED  BY <1>2, <1>3, <1>4 DEF history

LEMMA PromotionsFacts ==
    ASSUME NEW s, NEW x \in Promotions(s)
    PROVE  x[2] \in s.sticky[x[1]]
<1>1. PICK slot \in Slots : x \in {slot} \X s.sticky[slot]
  BY DEF Promotions
<1>. QED  BY <1>1

LEMMA KeptStep == TypeInv /\ Kept /\ [Next]_vars => Kept'
<1>. SUFFICES ASSUME TypeInv, Kept, [Next]_vars PROVE Kept'
  OBVIOUS
<1>0. \A x \in promoted : x[1] \in Slots
  BY DEF TypeInv, TypeOK
<1>1. CASE Load
  <2>1. /\ pos = 0 /\ pos' = 1 /\ rotation' \in RotationStates
        /\ (file = Missing) \/ (file \in RotationStates /\ rotation' = file)
        /\ UNCHANGED <<file, live, picks, idle, settled, promoted>>
    BY <1>1, Loaded
  <2>2. \A x \in promoted' : x[2] \in rotation'.sticky[x[1]]
    BY <2>1 DEF Kept
  <2>. QED  BY <2>1, <2>2 DEF Kept, StickyIsChosen
<1>2. CASE Report
  <2>. DEFINE m == Manifests[pos]
              scope == manifestScope[m]
              c == CreditCells(rotation, m)
  <2>1. /\ pos # 0 /\ m \in Ms /\ scope \in Scopes /\ rotation \in RotationStates
        /\ rotation' = c.state
        /\ picks' = [x \in Slots |-> IF x[1] = scope THEN c.chosen[x[2]] ELSE picks[x]]
        /\ UNCHANGED <<file, live, idle, settled, promoted>>
    BY <1>2, Credited
  <2>. HIDE DEF m
  <2>2. /\ c.state.sticky = rotation.sticky
        /\ \A k \in Shapes : c.chosen[k] = Select(rotation, scope, k, members(m, k)).chosen
    BY <2>1, CreditFacts
  <2>. HIDE DEF c, scope
  <2>3. \A k \in Shapes : c.chosen[k] # {} => rotation.sticky[<<scope, k>>] \subseteq c.chosen[k]
    <3>. TAKE k \in Shapes
    <3>. DEFINE S == members(m, k)
                sel == Select(rotation, scope, k, S)
                walk == {Place(rotation.seed, k, S, rotation.cursors[<<scope, k>>], i) :
                           i \in 0..(RepresentativesPerRun(Cardinality(S)) - 1)}
    <3>1. S \in SUBSET Fields
      BY DEF members
    <3>. HIDE DEF S
    <3>2. /\ S = {} => sel.chosen = {}
          /\ S # {} => sel.chosen = walk \cup rotation.sticky[<<scope, k>>]
      BY <2>1, <3>1, SelectFacts
    <3>3. c.chosen[k] = sel.chosen
      BY <2>2 DEF S
    <3>. HIDE DEF sel, walk
    <3>. QED  BY <3>2, <3>3
  <2>4. StickyIsChosen'
    <3>1. SUFFICES ASSUME NEW x \in promoted, picks'[x[1]] # {}
                   PROVE  x[2] \in picks'[x[1]]
      BY <2>1 DEF StickyIsChosen
    <3>2. x[1] \in Slots /\ x[2] \in rotation.sticky[x[1]]
      BY <1>0, <2>1 DEF Kept
    <3>3. CASE x[1][1] = scope
      <4>1. PICK k \in Shapes : x[1] = <<scope, k>>
        BY <3>2, <3>3 DEF Slots
      <4>2. picks'[x[1]] = c.chosen[k]
        BY <2>1, <3>2, <4>1
      <4>. QED  BY <2>3, <3>1, <3>2, <4>1, <4>2
    <3>4. CASE x[1][1] # scope
      <4>1. picks'[x[1]] = picks[x[1]]
        BY <2>1, <3>2, <3>4
      <4>. QED  BY <3>1, <4>1 DEF Kept, StickyIsChosen
    <3>. QED  BY <3>3, <3>4
  <2>5. \A x \in promoted' : x[2] \in rotation'.sticky[x[1]]
    BY <2>1, <2>2 DEF Kept
  <2>. QED  BY <2>1, <2>4, <2>5 DEF Kept
<1>3. CASE PromoteFailure
  <2>1. /\ pos # 0
        /\ \A x \in Slots : rotation.sticky[x] \subseteq rotation'.sticky[x]
        /\ UNCHANGED <<file, pos, live, picks, idle, settled, promoted>>
    BY <1>3, PromotedFacts
  <2>2. \A x \in promoted' : x[2] \in rotation'.sticky[x[1]]
    BY <1>0, <2>1 DEF Kept
  <2>. QED  BY <2>1, <2>2 DEF Kept, StickyIsChosen
<1>4. CASE Save
  <2>1. /\ pos' = 0 /\ file' = rotation /\ promoted' = Promotions(rotation)
        /\ picks' = [s \in Slots |-> {}]
    BY <1>4 DEF Save, Ends, Counted
  <2>2. rotation \in RotationStates
    <3>1. pos # 0
      BY <1>4, ManifestAt DEF Save, Finished
    <3>. QED  BY <3>1 DEF TypeInv
  <2>3. \A x \in promoted' : x[2] \in file'.sticky[x[1]] /\ x[1] \in Slots
    BY <2>1, <2>2, PromotionsFacts, PromotionsType
  <2>. QED  BY <2>1, <2>2, <2>3, NoStateTwice DEF Kept, StickyIsChosen
<1>5. CASE SaveFails \/ NothingToSave \/ CrashInSave \/ Crash
  <2>1. /\ pos' = 0 /\ file' \in {file, Torn} /\ promoted' = promoted
        /\ picks' = [s \in Slots |-> {}]
    BY <1>5 DEF SaveFails, NothingToSave, CrashInSave, Crash, Ends, history
  <2>2. StickyIsChosen'
    BY <1>0, <2>1 DEF StickyIsChosen
  <2>3. CASE file' = file
    BY <2>1, <2>2, <2>3 DEF Kept
  <2>4. CASE file' = Torn
    <3>1. file' # Missing /\ file' \notin RotationStates
      BY <2>4, NoStateTwice
    <3>. QED  BY <2>1, <2>2, <3>1 DEF Kept
  <2>. QED  BY <2>1, <2>3, <2>4
<1>6. CASE LoadFails \/ SkipManifest \/ LiveChanges
  <2>1. UNCHANGED <<file, rotation, picks, promoted>> /\ (pos' # 0 => pos # 0)
    BY <1>6, ManifestAt DEF LoadFails, SkipManifest, LiveChanges, history
  <2>. QED  BY <2>1 DEF Kept, StickyIsChosen
<1>7. CASE FileRemoved
  <2>1. promoted' = {}
    BY <1>7 DEF FileRemoved
  <2>. QED  BY <2>1 DEF Kept, StickyIsChosen
<1>8. CASE UNCHANGED vars
  BY <1>8 DEF vars, Kept, StickyIsChosen
<1>. QED  BY <1>1, <1>2, <1>3, <1>4, <1>5, <1>6, <1>7, <1>8 DEF Next

\* A member that failed a live test and was saved so is a representative of every
\* later report of its slot: the rotation, a changed member list, a failed save and
\* a crash at any step keep it.
THEOREM StickyIsChosenAlways == Spec => []StickyIsChosen
<1>1. Kept => StickyIsChosen
  BY DEF Kept
<1>. QED  BY <1>1, TypeHolds, TypeStep, KeptHolds, KeptStep, PTL DEF Spec

-----------------------------------------------------------------------------
(***************************************************************************)
(* Every member in turn.  A field that n saved runs left out lies at most  *)
(* size - 1 - n * budget places ahead of its slot's cursor.                *)
(***************************************************************************)
\* The contract of stateKey: a scope identifies the manifest.
OneManifestPerScope ==
  \A i, j \in 1..Len(Manifests) : manifestScope[Manifests[i]] = manifestScope[Manifests[j]] => i = j

Budget(S) == RepresentativesPerRun(Cardinality(S))
Due(st, slot, S, n, f) ==
  \E d \in 0..(Cardinality(S) - 1) :
    Place(st.seed, slot[2], S, st.cursors[slot], d) = f /\ d + n * Budget(S) <= Cardinality(S) - 1

Ahead == \A s \in Slots : \A f \in SettledNow(s) : Due(rotation, s, SettledNow(s), IdleNow(s, f), f)
Unvisited ==
  \A p \in pos..Len(Manifests) : \A k \in Shapes : picks[<<manifestScope[Manifests[p]], k>>] = {}

Turn ==
  /\ pos = 0 => \A s \in Slots : picks[s] = {}
  /\ file = Missing => \A s \in Slots : settled[s] = {}
  /\ \A s \in Slots : \A f \in settled[s] :
       idle[s][f] * Budget(settled[s]) <= Cardinality(settled[s]) - 1
  /\ file \in RotationStates =>
       \A s \in Slots : \A f \in settled[s] : Due(file, s, settled[s], idle[s][f], f)
  /\ pos # 0 => Ahead /\ Unvisited

LEMMA SizeFacts ==
    ASSUME NEW S \in SUBSET Fields, S # {}
    PROVE  /\ Cardinality(S) \in Nat \ {0} /\ Budget(S) \in Nat \ {0} /\ Budget(S) <= Cardinality(S)
           /\ Target(Cardinality(S)) \in Nat \ {0}
           /\ Cardinality(S) <= Budget(S) * Target(Cardinality(S))
<1>1. Cardinality(S) \in Nat \ {0}
  BY FieldSets, RotationAssumption
<1>. QED  BY <1>1, BudgetFacts DEF Budget

\* A member that is not due any more has waited too long.
LEMMA DueIsBounded ==
    ASSUME NEW st, NEW slot, NEW S \in SUBSET Fields, NEW n \in Nat, NEW f \in S, Due(st, slot, S, n, f)
    PROVE  n * Budget(S) <= Cardinality(S) - 1
<1>1. PICK d \in 0..(Cardinality(S) - 1) :
        /\ Place(st.seed, slot[2], S, st.cursors[slot], d) = f
        /\ d + n * Budget(S) <= Cardinality(S) - 1
  BY DEF Due
<1>2. Cardinality(S) \in Nat \ {0} /\ Budget(S) \in Nat \ {0}
  BY SizeFacts
<1>3. n * Budget(S) \in Nat
  BY <1>2
<1>. QED  BY <1>1, <1>2, <1>3

\* The cursor moves on by the budget: what was b places further is now next.
LEMMA WalkOn ==
    ASSUME NEW S \in SUBSET Fields, S # {}, NEW c \in Nat, NEW b \in Nat, NEW d \in Nat
    PROVE  (((c + b) % Cardinality(S)) + d) % Cardinality(S) = (c + (b + d)) % Cardinality(S)
<1>. DEFINE n == Cardinality(S)
<1>1. n \in Nat \ {0} /\ c + b \in Nat
  BY SizeFacts
<1>. HIDE DEF n
<1>2. (((c + b) % n) + d) % n = ((c + b) + d) % n
  BY <1>1, RemainderOfSum, Zenon
<1>3. (c + b) + d = c + (b + d)
  OBVIOUS
<1>4. (((c + b) % n) + d) % n = (c + (b + d)) % n
  BY <1>2, <1>3
<1>. QED  BY <1>4 DEF n

\* A visit of a cell: whoever it leaves out has come closer by the budget,
\* whoever it chose has a full round to go.
LEMMA VisitFacts ==
    ASSUME NEW s \in RotationStates, NEW scope \in Scopes, NEW k \in Shapes,
           NEW S \in SUBSET Fields, S # {}, NEW t \in RotationStates, t.seed = s.seed,
           t.cursors[<<scope, k>>] = Select(s, scope, k, S).state.cursors[<<scope, k>>],
           NEW f \in S
    PROVE  /\ Due(t, <<scope, k>>, S, 0, f)
           /\ f \notin Select(s, scope, k, S).chosen =>
                /\ Due(t, <<scope, k>>, S, 1, f)
                /\ \A n \in Nat : Due(s, <<scope, k>>, S, n, f) => Due(t, <<scope, k>>, S, n + 1, f)
<1>. DEFINE slot == <<scope, k>>
            size == Cardinality(S)
            b == Budget(S)
            c == s.cursors[slot]
            e == t.cursors[slot]
            chosen == Select(s, scope, k, S).chosen
<1>1. size \in Nat \ {0} /\ b \in Nat \ {0} /\ b <= size
  BY SizeFacts
<1>2. c \in Nat /\ e = (c + b) % size
      /\ chosen = {Place(s.seed, k, S, c, i) : i \in 0..(b - 1)} \cup s.sticky[slot]
  BY SelectFacts DEF Budget
<1>3. e \in Nat /\ s.seed \in Seeds
  <2>1. c + b \in Nat
    BY <1>1, <1>2
  <2>2. e \in 0..(size - 1)
    BY <1>1, <1>2, <2>1, DivFacts, Zenon
  <2>. QED  BY <2>2, StateParts
<1>4. slot[2] = k
  OBVIOUS
<1>. HIDE DEF slot, b, c, e, chosen, size
<1>5. Due(t, slot, S, 0, f)
  <2>1. PICK d \in 0..(Cardinality(S) - 1) : Place(s.seed, k, S, e, d) = f
    BY <1>3, EveryMemberHasAPlace
  <2>2. d + 0 * Budget(S) <= Cardinality(S) - 1
    BY <1>1 DEF b, size
  <2>. QED  BY <1>4, <2>1, <2>2 DEF Due, e
<1>6. ASSUME f \notin chosen, NEW n \in Nat, NEW d \in 0..(size - 1),
             Place(s.seed, k, S, c, d) = f, d + n * b <= size - 1
      PROVE  Due(t, slot, S, n + 1, f)
  <2>1. d >= b
    <3>1. d \notin 0..(b - 1)
      BY <1>2, <1>6
    <3>. QED  BY <1>1, <1>6, <3>1
  <2>2. PICK x \in Nat : d = b + x
    <3>1. d - b \in Nat /\ d = b + (d - b)
      BY <1>1, <1>6, <2>1
    <3>. QED  BY <3>1
  <2>3. Place(s.seed, k, S, e, x) = Place(s.seed, k, S, c, b + x)
    <3>1. b \in Nat /\ c \in Nat /\ x \in Nat
      BY <1>1, <1>2
    <3>2. (((c + b) % Cardinality(S)) + x) % Cardinality(S) = (c + (b + x)) % Cardinality(S)
      BY <3>1, WalkOn, Zenon
    <3>3. (e + x) % Cardinality(S) = (c + (b + x)) % Cardinality(S)
      BY <1>2, <3>2, Zenon DEF size
    <3>. QED  BY <3>3, Zenon DEF Place
  <2>4. Place(s.seed, k, S, e, x) = f
    BY <1>6, <2>2, <2>3
  <2>5. x \in 0..(size - 1) /\ x + (n + 1) * b <= size - 1
    <3>1. (n + 1) * b = n * b + b /\ n * b \in Nat
      BY <1>1
    <3>. QED  BY <1>1, <1>6, <2>2, <3>1
  <2>. QED  BY <1>4, <2>4, <2>5 DEF Due, e, size, b
<1>7. ASSUME f \notin chosen
      PROVE  Due(t, slot, S, 1, f)
  <2>1. PICK d \in 0..(Cardinality(S) - 1) : Place(s.seed, k, S, c, d) = f
    BY <1>2, <1>3, EveryMemberHasAPlace
  <2>2. d + 0 * b <= size - 1
    BY <1>1 DEF size
  <2>3. Due(t, slot, S, 0 + 1, f)
    BY <1>6, <1>7, <2>1, <2>2 DEF size
  <2>. QED  BY <2>3
<1>8. ASSUME f \notin chosen, NEW n \in Nat, Due(s, slot, S, n, f)
      PROVE  Due(t, slot, S, n + 1, f)
  <2>1. PICK d \in 0..(Cardinality(S) - 1) :
          /\ Place(s.seed, slot[2], S, s.cursors[slot], d) = f
          /\ d + n * Budget(S) <= Cardinality(S) - 1
    BY <1>8 DEF Due
  <2>. QED  BY <1>4, <1>6, <1>8, <2>1 DEF c, b, size
<1>. QED  BY <1>5, <1>7, <1>8 DEF slot, chosen

LEMMA HistoryType ==
    ASSUME TypeInv, NEW s \in Slots
    PROVE  /\ settled[s] \in SUBSET Fields /\ SettledNow(s) \in SUBSET Fields
           /\ \A f \in Fields : idle[s][f] \in Nat /\ IdleNow(s, f) \in Nat
<1>1. settled[s] \in SUBSET Fields /\ \A f \in Fields : idle[s][f] \in Nat
  BY DEF TypeInv
<1>2. SettledNow(s) \in SUBSET Fields
  BY <1>1, MembersAreFields DEF SettledNow
<1>3. \A f \in Fields : IdleNow(s, f) \in Nat
  BY <1>1 DEF IdleNow
<1>. QED  BY <1>1, <1>2, <1>3

\* With the picks, the objects and the history unchanged, what a save would count is unchanged.
LEMMA SameCount ==
    ASSUME UNCHANGED <<picks, live, settled, idle>>
    PROVE  /\ \A s \in Slots : SettledNow(s)' = SettledNow(s)
           /\ \A s \in Slots : \A f \in Fields : IdleNow(s, f)' = IdleNow(s, f)
<1>1. \A s \in Slots : Members(s)' = Members(s) /\ (Reported(s)' <=> Reported(s))
  BY DEF Members, members, Reported
<1>. QED  BY <1>1 DEF SettledNow, IdleNow

\* Due asks for the seed and the cursor only.
LEMMA SameDue ==
    ASSUME NEW s, NEW t, NEW slot, t.seed = s.seed, t.cursors[slot] = s.cursors[slot],
           NEW S, NEW n, NEW f, Due(s, slot, S, n, f)
    PROVE  Due(t, slot, S, n, f)
BY DEF Due

LEMMA TurnHolds == Init => Turn
<1>. SUFFICES ASSUME Init PROVE Turn
  OBVIOUS
<1>1. /\ file = Missing /\ pos = 0 /\ picks = [s \in Slots |-> {}] /\ settled = [s \in Slots |-> {}]
  BY DEF Init
<1>. QED  BY <1>1, NoStateTwice DEF Turn

LEMMA LoadKeepsTurn == TypeInv /\ Turn /\ Load => Turn'
<1>. SUFFICES ASSUME TypeInv, Turn, Load PROVE Turn'
  OBVIOUS
<1>1. /\ pos = 0 /\ pos' = 1 /\ rotation' \in RotationStates
      /\ (file = Missing) \/ (file \in RotationStates /\ rotation' = file)
      /\ UNCHANGED <<file, live, picks, idle, settled, promoted>>
  BY Loaded
<1>2. \A s \in Slots : picks'[s] = {}
  BY <1>1 DEF Turn
<1>3. \A s \in Slots : SettledNow(s)' = settled[s] /\ \A f \in Fields : IdleNow(s, f)' = idle[s][f]
  BY <1>1, <1>2 DEF SettledNow, IdleNow, Reported
<1>4. Ahead'
  <2>1. SUFFICES ASSUME NEW s \in Slots, NEW f \in settled[s]
                 PROVE  Due(rotation', s, settled[s], idle[s][f], f)
    <3>1. \A s \in Slots : settled[s] \in SUBSET Fields
      BY HistoryType
    <3>2. SUFFICES ASSUME NEW s \in Slots, NEW f \in SettledNow(s)'
                   PROVE  Due(rotation', s, SettledNow(s)', IdleNow(s, f)', f)
      BY DEF Ahead, Due, Budget, Place
    <3>3. f \in settled[s] /\ f \in Fields
      BY <1>3, <3>1
    <3>. QED  BY <1>3, <2>1, <3>3
  <2>2. file # Missing
    BY <2>1 DEF Turn
  <2>. QED  BY <1>1, <2>1, <2>2 DEF Turn
<1>5. Unvisited'
  <2>1. \A p \in 1..Len(Manifests) : \A k \in Shapes : <<manifestScope[Manifests[p]], k>> \in Slots
    BY ManifestAt DEF Slots
  <2>. QED  BY <1>1, <1>2, <2>1 DEF Unvisited
<1>. QED  BY <1>1, <1>4, <1>5 DEF Turn

LEMMA QuietKeepsTurn ==
    ASSUME TypeInv, Turn, LoadFails \/ SkipManifest \/ PromoteFailure \/ LiveChanges
    PROVE  Turn'
<1>1. UNCHANGED <<file, picks, idle, settled>>
  BY PromotedFacts DEF LoadFails, SkipManifest, LiveChanges, history
<1>2. ASSUME pos' # 0
      PROVE  /\ pos # 0 /\ UNCHANGED live /\ pos' \in Nat /\ pos \in Nat /\ pos <= pos'
             /\ rotation'.seed = rotation.seed /\ rotation'.cursors = rotation.cursors
  <2>1. pos \in 0..(Len(Manifests) + 1) /\ Len(Manifests) \in Nat
    BY ManifestAt DEF TypeInv, TypeOK
  <2>2. CASE PromoteFailure
    BY <1>2, <2>1, <2>2, PromotedFacts
  <2>3. CASE LoadFails \/ SkipManifest \/ LiveChanges
    BY <1>2, <2>1, <2>3 DEF LoadFails, SkipManifest, LiveChanges
  <2>. QED  BY <2>2, <2>3
<1>3. (pos' = 0) => (pos = 0)
  <2>1. pos \in 0..(Len(Manifests) + 1) /\ Len(Manifests) \in Nat
    BY ManifestAt DEF TypeInv, TypeOK
  <2>2. CASE PromoteFailure
    BY <2>1, <2>2, PromotedFacts
  <2>3. CASE LoadFails \/ SkipManifest \/ LiveChanges
    BY <2>1, <2>3 DEF LoadFails, SkipManifest, LiveChanges
  <2>. QED  BY <2>2, <2>3
<1>4. ASSUME pos' # 0
      PROVE  Ahead' /\ Unvisited'
  <2>1. Ahead /\ Unvisited
    BY <1>2, <1>4 DEF Turn
  <2>2. Ahead'
    <3>1. /\ \A s \in Slots : SettledNow(s)' = SettledNow(s)
          /\ \A s \in Slots : \A f \in Fields : IdleNow(s, f)' = IdleNow(s, f)
      BY <1>1, <1>2, <1>4, SameCount
    <3>2. SUFFICES ASSUME NEW s \in Slots, NEW f \in SettledNow(s)'
                   PROVE  Due(rotation', s, SettledNow(s)', IdleNow(s, f)', f)
      BY DEF Ahead, Due, Budget, Place
    <3>3. f \in SettledNow(s) /\ f \in Fields
      BY <3>1, HistoryType
    <3>4. Due(rotation, s, SettledNow(s), IdleNow(s, f), f)
      BY <2>1, <3>3 DEF Ahead
    <3>5. rotation'.seed = rotation.seed /\ rotation'.cursors[s] = rotation.cursors[s]
      BY <1>2, <1>4
    <3>. QED  BY <3>1, <3>3, <3>4, <3>5, SameDue
  <2>3. Unvisited'
    BY <1>1, <1>2, <1>4, <2>1, ManifestAt DEF Unvisited
  <2>. QED  BY <2>2, <2>3
<1>. QED  BY <1>1, <1>3, <1>4 DEF Turn

LEMMA ReportKeepsTurn ==
    ASSUME OneManifestPerScope, TypeInv, Turn, Report
    PROVE  Turn'
<1>. DEFINE m == Manifests[pos]
            scope == manifestScope[m]
            c == CreditCells(rotation, m)
            Sel(k) == Select(rotation, scope, k, members(m, k))
<1>1. /\ pos \in 1..Len(Manifests) /\ pos' = pos + 1 /\ pos # 0 /\ pos' # 0
      /\ m \in Ms /\ scope \in Scopes /\ rotation \in RotationStates
      /\ rotation' = c.state
      /\ picks' = [x \in Slots |-> IF x[1] = scope THEN c.chosen[x[2]] ELSE picks[x]]
      /\ UNCHANGED <<file, live, idle, settled, promoted>>
  BY Credited
<1>2. /\ c.state \in RotationStates /\ c.state.seed = rotation.seed
      /\ \A x \in Slots : x[1] # scope => c.state.cursors[x] = rotation.cursors[x]
      /\ \A k \in Shapes : /\ c.chosen[k] = Sel(k).chosen
                           /\ c.state.cursors[<<scope, k>>] = Sel(k).state.cursors[<<scope, k>>]
  <2>. HIDE DEF m
  <2>. QED  BY <1>1, CreditFacts
<1>3. Ahead /\ Unvisited
  BY <1>1 DEF Turn
<1>4. \A k \in Shapes : <<scope, k>> \in Slots /\ picks[<<scope, k>>] = {}
  <2>1. pos \in pos..Len(Manifests)
    BY <1>1
  <2>. QED  BY <1>1, <1>3, <2>1 DEF Unvisited, Slots
<1>5. \A k \in Shapes : Members(<<scope, k>>) = members(m, k)
  <2>1. {n \in Ms : manifestScope[n] = scope} = {m}
    <3>1. ASSUME NEW n \in Ms, manifestScope[n] = scope
          PROVE  n = m
      <4>1. PICK j \in 1..Len(Manifests) : n = Manifests[j]
        BY RotationAssumption DEF Ms
      <4>2. j = pos
        BY <1>1, <3>1, <4>1 DEF OneManifestPerScope
      <4>. QED  BY <4>1, <4>2
    <3>. QED  BY <1>1, <3>1
  <2>. HIDE DEF m, scope
  <2>. QED  BY <2>1 DEF Members
<1>6. Unvisited'
  <2>1. SUFFICES ASSUME NEW p \in pos'..Len(Manifests), NEW k \in Shapes
                 PROVE  picks'[<<manifestScope[Manifests[p]], k>>] = {}
    BY DEF Unvisited
  <2>2. p \in 1..Len(Manifests) /\ p # pos /\ p \in pos..Len(Manifests)
    BY <1>1, ManifestAt
  <2>3. manifestScope[Manifests[p]] # scope
    BY <1>1, <2>2 DEF OneManifestPerScope
  <2>4. <<manifestScope[Manifests[p]], k>> \in Slots
    BY <2>2, ManifestAt DEF Slots
  <2>5. picks'[<<manifestScope[Manifests[p]], k>>] = picks[<<manifestScope[Manifests[p]], k>>]
    BY <1>1, <2>3, <2>4
  <2>. QED  BY <1>3, <2>2, <2>5 DEF Unvisited
<1>7. \A x \in Slots : Members(x)' = Members(x)
  BY <1>1 DEF Members, members
<1>8. TypeInv'
  BY ReportKeepsType
<1>. HIDE DEF m, scope, c, Sel
<1>9. ASSUME NEW s \in Slots, s[1] # scope, NEW f \in SettledNow(s)'
      PROVE  Due(rotation', s, SettledNow(s)', IdleNow(s, f)', f)
  <2>1. picks'[s] = picks[s]
    BY <1>1, <1>9
  <2>2. /\ SettledNow(s)' = SettledNow(s)
        /\ \A g \in Fields : IdleNow(s, g)' = IdleNow(s, g)
    BY <1>1, <1>7, <2>1 DEF SettledNow, IdleNow, Reported
  <2>3. f \in SettledNow(s) /\ f \in Fields
    BY <1>9, <2>2, HistoryType
  <2>4. Due(rotation, s, SettledNow(s), IdleNow(s, f), f)
    BY <1>3, <2>3 DEF Ahead
  <2>5. rotation'.seed = rotation.seed /\ rotation'.cursors[s] = rotation.cursors[s]
    BY <1>1, <1>2, <1>9
  <2>. QED  BY <2>2, <2>3, <2>4, <2>5, SameDue
<1>10. ASSUME NEW s \in Slots, NEW k \in Shapes, s = <<scope, k>>, NEW f \in SettledNow(s)'
       PROVE  Due(rotation', s, SettledNow(s)', IdleNow(s, f)', f)
  <2>. DEFINE S == members(m, k)
  <2>0. S \in SUBSET Fields
    BY DEF members
  <2>. HIDE DEF S
  <2>1. /\ picks[s] = {} /\ Members(s) = S /\ Members(s)' = S /\ S \in SUBSET Fields
    <3>1. picks[s] = {} /\ Members(s)' = Members(s)
      BY <1>4, <1>7, <1>10
    <3>2. Members(s) = S
      BY <1>5, <1>10 DEF S
    <3>. QED  BY <2>0, <3>1, <3>2
  <2>2. picks'[s] = Sel(k).chosen
    <3>1. s[1] = scope /\ s[2] = k
      BY <1>10
    <3>2. picks'[s] = c.chosen[k]
      BY <1>1, <2>1, <3>1
    <3>. QED  BY <1>2, <3>2
  <2>3. /\ SettledNow(s) = settled[s] /\ settled[s] \in SUBSET Fields
        /\ \A g \in Fields : IdleNow(s, g) = idle[s][g] /\ idle[s][g] \in Nat
    BY <2>1, HistoryType DEF SettledNow, IdleNow, Reported
  <2>4. \A g \in settled[s] : Due(rotation, s, settled[s], idle[s][g], g)
    BY <1>3, <2>1, <2>3 DEF Ahead
  <2>5. rotation' \in RotationStates /\ rotation'.seed = rotation.seed
    BY <1>1, <1>2
  <2>6. rotation'.cursors[s] = Sel(k).state.cursors[s]
    BY <1>1, <1>2, <1>10
  <2>9. /\ S = {} => /\ Select(rotation, scope, k, S).state = rotation
                     /\ Select(rotation, scope, k, S).chosen = {}
        /\ S # {} => Select(rotation, scope, k, S).chosen # {}
    <3>1. rotation \in RotationStates /\ scope \in Scopes
      BY <1>1
    <3>. QED  BY <2>0, <3>1, SelectSome
  <2>10. Sel(k) = Select(rotation, scope, k, S)
    BY DEF Sel, S
  <2>7. CASE S = {}
    <3>1. Sel(k).chosen = {} /\ Sel(k).state = rotation
      BY <2>7, <2>9, <2>10
    <3>2. picks'[s] = {} /\ rotation'.cursors[s] = rotation.cursors[s]
      BY <2>2, <2>6, <3>1
    <3>3. /\ SettledNow(s)' = settled[s]
          /\ \A g \in Fields : IdleNow(s, g)' = idle[s][g]
      BY <1>1, <3>2 DEF SettledNow, IdleNow, Reported
    <3>4. f \in settled[s] /\ f \in Fields
      BY <1>10, <2>3, <3>3
    <3>5. Due(rotation, s, settled[s], idle[s][f], f)
      BY <2>4, <3>4
    <3>6. Due(rotation', s, settled[s], idle[s][f], f)
      BY <2>5, <3>2, <3>5, SameDue
    <3>. QED  BY <3>3, <3>4, <3>6
  <2>8. CASE S # {}
    <3>1. Sel(k).chosen # {}
      BY <2>8, <2>9, <2>10
    <3>2. SettledNow(s)' = S
      BY <2>1, <2>2, <3>1 DEF SettledNow, Reported
    <3>3. f \in S /\ f \in Fields
      BY <1>10, <2>1, <3>2
    <3>4. IdleNow(s, f)' = IF f \in Sel(k).chosen THEN 0
                           ELSE IF settled[s] = S THEN idle[s][f] + 1 ELSE 1
      BY <1>1, <2>1, <2>2, <3>1, <3>3 DEF IdleNow, Reported
    <3>5. /\ Due(rotation', s, S, 0, f)
          /\ f \notin Sel(k).chosen =>
               /\ Due(rotation', s, S, 1, f)
               /\ \A n \in Nat : Due(rotation, s, S, n, f) => Due(rotation', s, S, n + 1, f)
      <4>1. rotation'.cursors[<<scope, k>>] = Select(rotation, scope, k, S).state.cursors[<<scope, k>>]
        BY <1>10, <2>6, <2>10
      <4>2. /\ Due(rotation', <<scope, k>>, S, 0, f)
            /\ f \notin Select(rotation, scope, k, S).chosen =>
                 /\ Due(rotation', <<scope, k>>, S, 1, f)
                 /\ \A n \in Nat : Due(rotation, <<scope, k>>, S, n, f) => Due(rotation', <<scope, k>>, S, n + 1, f)
        BY <1>1, <2>1, <2>5, <2>8, <3>3, <4>1, VisitFacts
      <4>. QED  BY <1>10, <2>10, <4>2
    <3>6. CASE f \in Sel(k).chosen
      BY <3>2, <3>4, <3>5, <3>6
    <3>7. CASE f \notin Sel(k).chosen /\ settled[s] = S
      <4>1. Due(rotation, s, S, idle[s][f], f) /\ idle[s][f] \in Nat
        BY <2>3, <2>4, <3>3, <3>7
      <4>2. Due(rotation', s, S, idle[s][f] + 1, f)
        BY <3>5, <3>7, <4>1
      <4>. QED  BY <3>2, <3>4, <3>7, <4>2
    <3>8. CASE f \notin Sel(k).chosen /\ settled[s] # S
      BY <3>2, <3>4, <3>5, <3>8
    <3>. QED  BY <3>6, <3>7, <3>8
  <2>. QED  BY <2>7, <2>8
<1>11. Ahead'
  <2>1. SUFFICES ASSUME NEW s \in Slots, NEW f \in SettledNow(s)'
                 PROVE  Due(rotation', s, SettledNow(s)', IdleNow(s, f)', f)
    BY DEF Ahead, Due, Budget, Place
  <2>2. CASE s[1] = scope
    <3>1. PICK k \in Shapes : s = <<scope, k>>
      BY <2>2 DEF Slots
    <3>. QED  BY <1>10, <2>1, <3>1
  <2>. QED  BY <1>9, <2>1, <2>2
<1>. QED  BY <1>1, <1>6, <1>11 DEF Turn

LEMMA EndKeepsTurn ==
    ASSUME TypeInv, Turn, Save \/ SaveFails \/ NothingToSave \/ CrashInSave \/ Crash
    PROVE  Turn'
<1>1. /\ pos' = 0 /\ picks' = [s \in Slots |-> {}]
  BY DEF Save, SaveFails, NothingToSave, CrashInSave, Crash, Ends
<1>2. CASE Save
  <2>1. pos # 0
    BY <1>2, ManifestAt DEF Save, Finished
  <2>2. /\ file' = rotation /\ rotation \in RotationStates /\ Ahead
        /\ settled' = [s \in Slots |-> SettledNow(s)]
        /\ idle' = [s \in Slots |-> [f \in Fields |-> IdleNow(s, f)]]
    BY <1>2, <2>1 DEF Save, Counted, TypeInv, Turn
  <2>3. \A s \in Slots : /\ settled'[s] = SettledNow(s) /\ SettledNow(s) \in SUBSET Fields
                         /\ \A f \in Fields : idle'[s][f] = IdleNow(s, f) /\ IdleNow(s, f) \in Nat
    <3>1. \A s \in Slots : /\ SettledNow(s) \in SUBSET Fields
                           /\ \A f \in Fields : IdleNow(s, f) \in Nat
      BY HistoryType
    <3>. HIDE DEF SettledNow, IdleNow
    <3>. QED  BY <2>2, <3>1
  <2>4. ASSUME NEW s \in Slots, NEW f \in settled'[s]
        PROVE  /\ Due(file', s, settled'[s], idle'[s][f], f)
               /\ idle'[s][f] * Budget(settled'[s]) <= Cardinality(settled'[s]) - 1
    <3>1. /\ f \in SettledNow(s) /\ f \in Fields /\ settled'[s] = SettledNow(s)
          /\ idle'[s][f] = IdleNow(s, f) /\ SettledNow(s) \in SUBSET Fields /\ IdleNow(s, f) \in Nat
      BY <2>3, <2>4
    <3>2. Due(rotation, s, SettledNow(s), IdleNow(s, f), f)
      BY <2>2, <3>1 DEF Ahead
    <3>3. IdleNow(s, f) * Budget(SettledNow(s)) <= Cardinality(SettledNow(s)) - 1
      BY <3>1, <3>2, DueIsBounded
    <3>. QED  BY <2>2, <3>1, <3>2, <3>3
  <2>5. \A s \in Slots : picks'[s] = {}
    BY <1>1
  <2>6. file' # Missing
    BY <2>2, NoStateTwice
  <2>7. /\ \A s \in Slots : \A f \in settled'[s] : Due(file', s, settled'[s], idle'[s][f], f)
        /\ \A s \in Slots : \A f \in settled'[s] :
             idle'[s][f] * Budget(settled'[s]) <= Cardinality(settled'[s]) - 1
    BY <2>4
  <2>8. pos' = 0
    BY <1>1
  <2>. HIDE DEF Due, Budget
  <2>. QED  BY <2>5, <2>6, <2>7, <2>8 DEF Turn, Due, Budget, Place
<1>3. CASE SaveFails \/ NothingToSave \/ CrashInSave \/ Crash
  <2>1. file' \in {file, Torn} /\ settled' = settled /\ idle' = idle
    BY <1>3 DEF SaveFails, NothingToSave, CrashInSave, Crash, history
  <2>2. CASE file' = file
    BY <1>1, <2>1, <2>2 DEF Turn, Due, Place, Budget
  <2>3. CASE file' = Torn
    <3>1. file' # Missing /\ file' \notin RotationStates
      BY <2>3, NoStateTwice
    <3>. QED  BY <1>1, <2>1, <3>1 DEF Turn, Budget
  <2>. QED  BY <2>1, <2>2, <2>3
<1>. QED  BY <1>2, <1>3

LEMMA TurnStep ==
    ASSUME OneManifestPerScope
    PROVE  TypeInv /\ Turn /\ [Next]_vars => Turn'
<1>. SUFFICES ASSUME TypeInv, Turn, [Next]_vars PROVE Turn'
  OBVIOUS
<1>1. CASE FileRemoved
  <2>1. /\ pos' = 0 /\ pos = 0 /\ picks' = picks /\ file' = Missing
        /\ settled' = [s \in Slots |-> {}]
    BY <1>1 DEF FileRemoved
  <2>. QED  BY <2>1, NoStateTwice DEF Turn
<1>2. CASE UNCHANGED vars
  <2>1. /\ UNCHANGED <<file, rotation, pos, live, picks, idle, settled>>
    BY <1>2 DEF vars
  <2>2. /\ \A s \in Slots : SettledNow(s)' = SettledNow(s)
        /\ \A s \in Slots : \A f \in Fields : IdleNow(s, f)' = IdleNow(s, f)
    BY <2>1, SameCount
  <2>3. Ahead => Ahead'
    <3>1. SUFFICES ASSUME Ahead, NEW s \in Slots, NEW f \in SettledNow(s)'
                   PROVE  Due(rotation, s, SettledNow(s)', IdleNow(s, f)', f)
      BY <2>1 DEF Ahead, Due, Budget, Place
    <3>2. f \in SettledNow(s) /\ f \in Fields
      BY <2>2, <3>1, HistoryType
    <3>. QED  BY <2>2, <3>1, <3>2 DEF Ahead
  <2>4. Unvisited => Unvisited'
    BY <2>1 DEF Unvisited
  <2>. QED  BY <2>1, <2>3, <2>4 DEF Turn, Due, Place, Budget
<1>. QED  BY <1>1, <1>2, LoadKeepsTurn, QuietKeepsTurn, ReportKeepsTurn, EndKeepsTurn DEF Next

\* When every manifest has a scope of its own, a member of a cell that keeps its
\* member list is chosen at least once in every Target(size) saved runs: for every
\* number of fields, every seed and permutation, whatever the list was before,
\* whichever manifests a run skips, and however many runs crash in between.
THEOREM EveryMemberInTurnAlways ==
    ASSUME OneManifestPerScope
    PROVE  Spec => []EveryMemberInTurn
<1>1. TypeInv /\ Turn => EveryMemberInTurn
  <2>1. SUFFICES ASSUME TypeInv, Turn, NEW s \in Slots, NEW f \in settled[s]
                 PROVE  idle[s][f] < Target(Cardinality(settled[s]))
    BY DEF EveryMemberInTurn
  <2>. DEFINE S == settled[s]
              n == idle[s][f]
              b == Budget(S)
              size == Cardinality(S)
              t == Target(size)
  <2>2. S \in SUBSET Fields /\ S # {} /\ n \in Nat /\ n * b <= size - 1
    BY <2>1, HistoryType DEF Turn
  <2>3. size \in Nat \ {0} /\ b \in Nat \ {0} /\ t \in Nat \ {0} /\ size <= b * t
    BY <2>2, SizeFacts
  <2>. HIDE DEF S, n, b, size, t
  <2>4. CASE t <= n
    <3>1. t * b <= n * b
      BY <2>2, <2>3, <2>4, MulMono
    <3>2. t * b = b * t /\ b * t \in Nat /\ n * b \in Nat
      BY <2>2, <2>3
    <3>. QED  BY <2>2, <2>3, <3>1, <3>2
  <2>5. n < t
    BY <2>2, <2>3, <2>4
  <2>. QED  BY <2>5 DEF n, t, size, S
<1>2. TypeInv /\ Turn /\ [Next]_vars => Turn'
  BY TurnStep
<1>. QED  BY <1>1, <1>2, TypeHolds, TypeStep, TurnHolds, PTL DEF Spec

-----------------------------------------------------------------------------
(***************************************************************************)
(* The rows of DiffReport, path by path.                                   *)
(***************************************************************************)
\* A declared field has a row when either side holds it, and the class of its two values.
LEMMA LeafRows ==
    ASSUME NEW schema, NEW obj, NEW mir, NEW f \in leafPaths(schema.fp)
    PROVE  LET c == classify(getValue(obj, f), getValue(mir, f))
           IN /\ \A r \in DiffReport(schema, obj, mir) : r.path = f =>
                   r.class = c /\ (r.immutable <=> f \in immutablePaths(schema)) /\ c # "unreported"
              /\ c # "unreported" => \E r \in DiffReport(schema, obj, mir) : r.path = f
<1>. DEFINE fp == leafPaths(schema.fp)
            row(p) == [path |-> p, spec |-> getValue(obj, p), mirror |-> getValue(mir, p),
                       class |-> IF p \in fp THEN classify(getValue(obj, p), getValue(mir, p))
                                 ELSE "present-in-mirror-absent-from-spec",
                       immutable |-> p \in immutablePaths(schema)]
            mirrorOnly == {p \in leafPaths(schema.ap) \ fp : getValue(mir, p) # {}}
            rows == DiffReport(schema, obj, mir)
            c == classify(getValue(obj, f), getValue(mir, f))
<1>1. rows = {r \in {row(p) : p \in fp \cup mirrorOnly} : r.class # "unreported"}
  BY Zenon DEF DiffReport
<1>2. \A p : row(p).path = p /\ row(p).immutable = (p \in immutablePaths(schema))
  OBVIOUS
<1>3. row(f).class = c
  OBVIOUS
<1>. HIDE DEF row, mirrorOnly, rows, c
<1>4. \A r \in rows : r.path = f => r = row(f)
  BY <1>1, <1>2
<1>5. \A r \in rows : r.path = f => r.class = c
  BY <1>3, <1>4
<1>6. \A r \in rows : r.path = f => (r.immutable <=> f \in immutablePaths(schema))
  BY <1>2, <1>4, Zenon
<1>7. \A r \in rows : r.class # "unreported"
  BY <1>1
<1>8. c # "unreported" => row(f) \in rows
  BY <1>1, <1>3
<1>9. c # "unreported" => \E r \in rows : r.path = f
  BY <1>2, <1>8
<1>10. \A r \in rows : r.path = f => c # "unreported"
  BY <1>5, <1>7, Zenon
<1>. QED  BY <1>5, <1>6, <1>9, <1>10, Zenon DEF rows, c

\* When the waiver of a declared field is disproved.
LEMMA LeafDisproved ==
    ASSUME NEW schema, NEW obj, NEW mir, NEW f \in leafPaths(schema.fp), NEW skip
    PROVE  LET c == classify(getValue(obj, f), getValue(mir, f))
           IN Disproved(f, skip, DiffReport(schema, obj, mir)) <=>
                \/ c = "unreported" /\ skip \in {"legacy", "write-only"}
                \/ c \in {"value-changed", "defaulted-by-server"}
                \/ /\ c = "present-in-spec-absent-from-mirror" /\ f \notin immutablePaths(schema)
                   /\ skip # "write-only"
<1>. DEFINE rows == DiffReport(schema, obj, mir)
            own == {r \in rows : r.path = f}
            c == classify(getValue(obj, f), getValue(mir, f))
<1>1. /\ \A r \in rows : r.path = f =>
           r.class = c /\ (r.immutable <=> f \in immutablePaths(schema)) /\ c # "unreported"
      /\ c # "unreported" => \E r \in rows : r.path = f
  BY LeafRows, Zenon
<1>. HIDE DEF rows, c
<1>2. CASE c = "unreported"
  <2>1. own = {}
    BY <1>1, <1>2
  <2>2. Disproved(f, skip, rows) <=> skip \in {"legacy", "write-only"}
    BY <2>1, Zenon DEF Disproved
  <2>3. c \notin {"value-changed", "defaulted-by-server"} /\ c # "present-in-spec-absent-from-mirror"
    BY <1>2
  <2>. QED  BY <1>2, <2>2, <2>3, Zenon DEF rows, c
<1>3. CASE c # "unreported"
  <2>1. PICK r0 \in rows : r0.path = f
    BY <1>1, <1>3
  <2>2. own # {}
    BY <2>1
  <2>3. Disproved(f, skip, rows) <=>
          \E r \in own : \/ r.class \in {"value-changed", "defaulted-by-server"}
                         \/ r.class = "present-in-spec-absent-from-mirror" /\ ~r.immutable /\ skip # "write-only"
    BY <2>2, Zenon DEF Disproved
  <2>4. \A r \in own : r.class = c /\ (r.immutable <=> f \in immutablePaths(schema))
    BY <1>1, Zenon
  <2>5. r0 \in own
    BY <2>1
  <2>. HIDE DEF own
  <2>6. Disproved(f, skip, rows) <=>
          \/ c \in {"value-changed", "defaulted-by-server"}
          \/ c = "present-in-spec-absent-from-mirror" /\ ~(f \in immutablePaths(schema)) /\ skip # "write-only"
    BY <2>3, <2>4, <2>5, Zenon
  <2>. QED  BY <1>3, <2>6, Zenon DEF rows, c
<1>. QED  BY <1>2, <1>3

\* The verdict on a declared field depends on the object only by the field's value.
LEMMA SameValueSameVerdict ==
    ASSUME NEW schema, NEW obj, NEW other, NEW mir, NEW f \in leafPaths(schema.fp), NEW skip,
           getValue(other, f) = getValue(obj, f), Disproved(f, skip, DiffReport(schema, obj, mir))
    PROVE  Disproved(f, skip, DiffReport(schema, other, mir))
<1>. DEFINE c(o) == classify(getValue(o, f), getValue(mir, f))
            verdict(x) == \/ x = "unreported" /\ skip \in {"legacy", "write-only"}
                          \/ x \in {"value-changed", "defaulted-by-server"}
                          \/ /\ x = "present-in-spec-absent-from-mirror" /\ f \notin immutablePaths(schema)
                             /\ skip # "write-only"
<1>1. Disproved(f, skip, DiffReport(schema, obj, mir)) <=> verdict(c(obj))
  BY LeafDisproved, Zenon
<1>2. Disproved(f, skip, DiffReport(schema, other, mir)) <=> verdict(c(other))
  BY LeafDisproved, Zenon
<1>3. c(other) = c(obj)
  OBVIOUS
<1>. HIDE DEF c, verdict
<1>. QED  BY <1>1, <1>2, <1>3, Zenon

\* Prose or write-only is no evidence for a declared field the object does not hold.
LEMMA AbsentIsDisproved ==
    ASSUME NEW schema, NEW obj, NEW mir, NEW f \in leafPaths(schema.fp), getValue(obj, f) = {},
           NEW skip \in {"legacy", "write-only"}
    PROVE  Disproved(f, skip, DiffReport(schema, obj, mir))
<1>. DEFINE c == classify(getValue(obj, f), getValue(mir, f))
<1>1. c = "unreported" \/ c = "defaulted-by-server"
  BY Zenon DEF classify
<1>2. Disproved(f, skip, DiffReport(schema, obj, mir)) <=>
        \/ c = "unreported" /\ skip \in {"legacy", "write-only"}
        \/ c \in {"value-changed", "defaulted-by-server"}
        \/ /\ c = "present-in-spec-absent-from-mirror" /\ f \notin immutablePaths(schema)
           /\ skip # "write-only"
  BY LeafDisproved, Zenon
<1>. HIDE DEF c
<1>. QED  BY <1>1, <1>2, Zenon

\* The waiver of any other path is disproved when it cites nothing and the mirror does
\* not hold the path, whatever the object holds.
LEMMA OtherDisproved ==
    ASSUME NEW schema, NEW obj, NEW mir, NEW f, ~(f \in leafPaths(schema.fp)), NEW skip
    PROVE  Disproved(f, skip, DiffReport(schema, obj, mir)) <=>
             /\ ~(f \in leafPaths(schema.ap) /\ getValue(mir, f) # {})
             /\ skip \in {"legacy", "write-only"}
<1>. DEFINE fp == leafPaths(schema.fp)
            row(p) == [path |-> p, spec |-> getValue(obj, p), mirror |-> getValue(mir, p),
                       class |-> IF p \in fp THEN classify(getValue(obj, p), getValue(mir, p))
                                 ELSE "present-in-mirror-absent-from-spec",
                       immutable |-> p \in immutablePaths(schema)]
            mirrorOnly == {p \in leafPaths(schema.ap) \ fp : getValue(mir, p) # {}}
            rows == DiffReport(schema, obj, mir)
            own == {r \in rows : r.path = f}
            held == f \in fp \cup mirrorOnly
<1>1. rows = {r \in {row(p) : p \in fp \cup mirrorOnly} : r.class # "unreported"}
  BY Zenon DEF DiffReport
<1>2. \A p : row(p).path = p
  OBVIOUS
<1>3. row(f).class = "present-in-mirror-absent-from-spec"
  OBVIOUS
<1>4. held <=> f \in leafPaths(schema.ap) /\ getValue(mir, f) # {}
  OBVIOUS
<1>. HIDE DEF row, mirrorOnly, rows, fp
<1>5. \A r \in rows : r.path = f => r = row(f) /\ held
  BY <1>1, <1>2
<1>6. held => row(f) \in rows
  BY <1>1, <1>3
<1>7. CASE held
  <2>1. own # {}
    BY <1>2, <1>6, <1>7
  <2>2. \A r \in own : /\ r.class \notin {"value-changed", "defaulted-by-server"}
                       /\ r.class # "present-in-spec-absent-from-mirror"
    BY <1>3, <1>5
  <2>3. ~Disproved(f, skip, rows)
    BY <2>1, <2>2, Zenon DEF Disproved
  <2>. QED  BY <1>4, <1>7, <2>3, Zenon DEF rows
<1>8. CASE ~held
  <2>1. own = {}
    BY <1>5, <1>8
  <2>2. Disproved(f, skip, rows) <=> skip \in {"legacy", "write-only"}
    BY <2>1, Zenon DEF Disproved
  <2>. QED  BY <1>4, <1>8, <2>2, Zenon DEF rows
<1>. QED  BY <1>7, <1>8

-----------------------------------------------------------------------------
(***************************************************************************)
(* Waivers are earned.                                                     *)
(***************************************************************************)
SkipsAreKnown == tests \in [TestFields -> Skips]

LEMMA SkipsHold == ReportInit => SkipsAreKnown
BY DEF ReportInit, SkipsAreKnown, Skips

LEMMA SkipsStep == SkipsAreKnown /\ [ReportNext]_reportVars => SkipsAreKnown'
BY DEF SkipsAreKnown, ReportNext, SetField, DeleteField, Echo, Withdraw, Declare, reportVars

\* For every schema, object and mirror: a waiver that roundtrip-verify lets pass has
\* the evidence its kind needs.
THEOREM WaiverIsEarnedAlways == ReportSpec => []WaiverIsEarned
<1>1. SkipsAreKnown => WaiverIsEarned
  <2>1. SUFFICES ASSUME SkipsAreKnown, Gate = "ok", NEW f \in Waived \cap leafPaths(Schema.fp)
                 PROVE  \/ getValue(mirror, f) # {} /\ getValue(spec, f) = getValue(mirror, f)
                        \/ /\ getValue(spec, f) # {} /\ getValue(mirror, f) = {}
                           /\ tests[f] = "write-only" \/ \E q \in Schema.marked : IsPrefix(q, f)
                        \/ getValue(spec, f) = {} /\ getValue(mirror, f) = {} /\ tests[f] = "cited"
    BY Zenon DEF WaiverIsEarned
  <2>. DEFINE c == classify(getValue(spec, f), getValue(mirror, f))
  <2>2. f \in Waived /\ f \in leafPaths(Schema.fp)
    OBVIOUS
  <2>3. ~Disproved(f, tests[f], Rows)
    <3>1. findings(Rows) = {}
      BY <2>1 DEF Gate
    <3>. QED  BY <2>2, <3>1, Zenon DEF findings
  <2>4. Disproved(f, tests[f], Rows) <=>
          \/ c = "unreported" /\ tests[f] \in {"legacy", "write-only"}
          \/ c \in {"value-changed", "defaulted-by-server"}
          \/ /\ c = "present-in-spec-absent-from-mirror" /\ f \notin immutablePaths(Schema)
             /\ tests[f] # "write-only"
    BY <2>2, LeafDisproved, Zenon DEF Rows
  <2>5. tests[f] \in {"legacy", "write-only", "cited"}
    BY <2>1, <2>2 DEF Waived, SkipsAreKnown, Skips
  <2>6. f \in immutablePaths(Schema) => \E q \in Schema.marked : IsPrefix(q, f)
    BY Zenon DEF immutablePaths
  <2>7. /\ c = "unreported" => tests[f] = "cited"
        /\ c \notin {"value-changed", "defaulted-by-server"}
        /\ c = "present-in-spec-absent-from-mirror" =>
             tests[f] = "write-only" \/ \E q \in Schema.marked : IsPrefix(q, f)
    BY <2>3, <2>4, <2>5, <2>6, Zenon
  <2>. HIDE DEF c
  <2>8. /\ getValue(spec, f) # {} /\ getValue(mirror, f) # {} =>
             c = "value-changed" \/ getValue(spec, f) = getValue(mirror, f)
        /\ getValue(spec, f) # {} /\ getValue(mirror, f) = {} => c = "present-in-spec-absent-from-mirror"
        /\ getValue(spec, f) = {} /\ getValue(mirror, f) # {} => c = "defaulted-by-server"
        /\ getValue(spec, f) = {} /\ getValue(mirror, f) = {} => c = "unreported"
    BY Zenon DEF c, classify
  <2>. QED  BY <2>7, <2>8, Zenon
<1>. QED  BY <1>1, SkipsHold, SkipsStep, PTL DEF ReportSpec

-----------------------------------------------------------------------------
(***************************************************************************)
(* Paths.                                                                  *)
(***************************************************************************)
Paths == Seq(STRING)

\* A prefix, segment by segment.
LEMMA PrefixIsPointwise ==
    ASSUME NEW p \in Paths, NEW q \in Paths
    PROVE  IsPrefix(p, q) <=> Len(p) <= Len(q) /\ \A i \in 1..Len(p) : p[i] = q[i]
<1>1. Len(p) \in Nat /\ Len(q) \in Nat
  BY DEF Paths
<1>2. SubSeq(p, 1, Len(p)) = p
  BY DEF Paths
<1>3. ASSUME Len(p) <= Len(q)
      PROVE  (p = SubSeq(q, 1, Len(p))) <=> (\A i \in 1..Len(p) : p[i] = q[i])
  <2>. DEFINE s == SubSeq(q, 1, Len(p))
  <2>1. s \in Paths /\ Len(s) = Len(p) /\ \A i \in 1..Len(p) : s[i] = q[i]
    BY <1>1, <1>3 DEF Paths
  <2>2. (p = s) <=> (Len(p) = Len(s) /\ \A i \in 1..Len(p) : p[i] = s[i])
    BY <2>1, SeqEqual DEF Paths
  <2>. QED  BY <2>1, <2>2
<1>. QED  BY <1>2, <1>3 DEF IsPrefix

LEMMA PrefixIsTransitive ==
    ASSUME NEW p \in Paths, NEW q \in Paths, NEW r \in Paths, IsPrefix(p, q), IsPrefix(q, r)
    PROVE  IsPrefix(p, r)
<1>1. /\ Len(p) <= Len(q) /\ \A i \in 1..Len(p) : p[i] = q[i]
      /\ Len(q) <= Len(r) /\ \A i \in 1..Len(q) : q[i] = r[i]
  BY PrefixIsPointwise
<1>2. Len(p) \in Nat /\ Len(q) \in Nat /\ Len(r) \in Nat
  BY DEF Paths
<1>3. Len(p) <= Len(r) /\ \A i \in 1..Len(p) : p[i] = r[i]
  BY <1>1, <1>2
<1>. QED  BY <1>3, PrefixIsPointwise

\* Two prefixes of one path are prefixes of each other.
LEMMA PrefixesCompare ==
    ASSUME NEW p \in Paths, NEW q \in Paths, NEW r \in Paths, IsPrefix(p, r), IsPrefix(q, r)
    PROVE  IsPrefix(p, q) \/ IsPrefix(q, p)
<1>1. /\ Len(p) <= Len(r) /\ \A i \in 1..Len(p) : p[i] = r[i]
      /\ Len(q) <= Len(r) /\ \A i \in 1..Len(q) : q[i] = r[i]
  BY PrefixIsPointwise
<1>2. Len(p) \in Nat /\ Len(q) \in Nat /\ Len(r) \in Nat
  BY DEF Paths
<1>3. CASE Len(p) <= Len(q)
  <2>1. \A i \in 1..Len(p) : p[i] = q[i]
    BY <1>1, <1>2, <1>3
  <2>. QED  BY <1>3, <2>1, PrefixIsPointwise
<1>4. CASE Len(q) <= Len(p)
  <2>1. \A i \in 1..Len(q) : q[i] = p[i]
    BY <1>1, <1>2, <1>4
  <2>. QED  BY <1>4, <2>1, PrefixIsPointwise
<1>. QED  BY <1>2, <1>3, <1>4

-----------------------------------------------------------------------------
(***************************************************************************)
(* The schema a manifest is judged by is one of the CRD files'.            *)
(***************************************************************************)
LEMMA MinIsMember ==
    ASSUME NEW S \in SUBSET Nat, S # {}
    PROVE  Min(S) \in S
<1>1. PICK x \in S : \A y \in S : <<y, x>> \notin OpToRel(<, Nat)
  BY WFMin, NatLessThanWellFounded
<1>2. \A y \in S : x <= y
  <2>1. SUFFICES ASSUME NEW y \in S, y < x  PROVE FALSE
    OBVIOUS
  <2>2. <<y, x>> \in OpToRel(<, Nat)
    BY <2>1 DEF OpToRel
  <2>. QED  BY <1>1, <2>2
<1>. QED  BY <1>2 DEF Min

LEMMA ServedIsAVersion ==
    ASSUME NEW versions, versions \in Seq(Range(versions))
    PROVE  servedSchema(versions) \in {0} \cup DOMAIN versions
<1>. DEFINE I == {i \in 1..Len(versions) : versions[i].served}
<1>1. Len(versions) \in Nat /\ DOMAIN versions = 1..Len(versions)
  OBVIOUS
<1>2. versions # <<>> => 1 \in 1..Len(versions)
  OBVIOUS
<1>3. SelectInSeq(versions, LAMBDA v : v.served) = IF I # {} THEN Min(I) ELSE 0
  BY DEF SelectInSeq
<1>4. I \in SUBSET Nat /\ I \subseteq 1..Len(versions)
  OBVIOUS
<1>. HIDE DEF I
<1>5. I # {} => Min(I) \in I
  BY <1>4, MinIsMember, Zenon
<1>6. servedSchema(versions) \in {0} \cup 1..Len(versions)
  BY <1>2, <1>3, <1>4, <1>5 DEF servedSchema
<1>. QED  BY <1>1, <1>6

LEMMA FoundIsAFile ==
    ASSUME NEW files, files \in Seq(Range(files))
    PROVE  FindCRD(files, Group, Kind) \in {0} \cup DOMAIN files
<1>. DEFINE I == {i \in 1..Len(files) : /\ files[i].parses /\ files[i].isCRD
                                        /\ files[i].group = Group /\ files[i].kind = Kind}
<1>1. Len(files) \in Nat /\ DOMAIN files = 1..Len(files)
  OBVIOUS
<1>2. FindCRD(files, Group, Kind) = IF I # {} THEN Min(I) ELSE 0
  BY DEF FindCRD, SelectInSeq
<1>3. I \in SUBSET Nat /\ I \subseteq 1..Len(files)
  OBVIOUS
<1>. HIDE DEF I
<1>4. I # {} => Min(I) \in I
  BY <1>3, MinIsMember, Zenon
<1>. QED  BY <1>1, <1>2, <1>3, <1>4

LEMMA SchemaIsPaths ==
    ASSUME dir \in CrdFiles
    PROVE  \A p \in Schema.fp : p \in Paths /\ \A form \in Forms(p) : DOMAIN form \subseteq Paths
<1>. DEFINE i == FindCRD(dir, Group, Kind)
            v == servedSchema(Crd)
<1>1. CASE v = 0
  BY <1>1 DEF Schema
<1>2. CASE v # 0
  <2>1. i # 0
    BY <1>2 DEF Crd, servedSchema
  <2>2. i \in DOMAIN dir
    BY <2>1, FoundIsAFile, CrdAssumption
  <2>3. Crd = dir[i].versions
    BY <2>1 DEF Crd
  <2>4. Crd \in Seq(Range(Crd))
    BY <2>2, <2>3, CrdAssumption
  <2>5. v \in DOMAIN Crd
    BY <1>2, <2>4, ServedIsAVersion
  <2>6. Schema = Crd[v].schema
    BY <1>2 DEF Schema
  <2>. HIDE DEF i, v
  <2>. QED  BY <2>2, <2>3, <2>5, <2>6, CrdAssumption DEF Paths
<1>. QED  BY <1>1, <1>2

-----------------------------------------------------------------------------
(***************************************************************************)
(* Deleting a field of the schema removes whole declared fields: it leaves *)
(* the value of any other leaf as it was.                                  *)
(***************************************************************************)
ObjectIsPaths == dir \in CrdFiles /\ DOMAIN spec \subseteq Paths

LEMMA ObjectHolds == ReportInit => ObjectIsPaths
BY DEF ReportInit, ObjectIsPaths

LEMMA ObjectStep == ObjectIsPaths /\ [ReportNext]_reportVars => ObjectIsPaths'
<1>1. SUFFICES ASSUME ObjectIsPaths, [ReportNext]_reportVars  PROVE ObjectIsPaths'
  OBVIOUS
<1>2. CASE SetField
  <2>1. PICK p \in Schema.fp : \E v \in Forms(p) : spec' = Put(spec, p, v) /\ UNCHANGED <<dir, mirror, tests>>
    BY <1>2 DEF SetField
  <2>2. PICK v \in Forms(p) : spec' = Put(spec, p, v) /\ UNCHANGED <<dir, mirror, tests>>
    BY <2>1
  <2>3. p \in Paths /\ DOMAIN v \subseteq Paths
    BY <1>1, SchemaIsPaths DEF ObjectIsPaths
  <2>. DEFINE kept == {q \in Without(spec, p) : ~IsPrefix(q, p)}
              new == {p \o r : r \in DOMAIN v}
  <2>4. DOMAIN spec' = kept \cup new
    BY <2>2 DEF Put
  <2>5. kept \subseteq DOMAIN spec
    BY DEF Without
  <2>6. new \subseteq Paths
    <3>1. \A r \in DOMAIN v : r \in Paths
      BY <2>3
    <3>2. \A r \in DOMAIN v : p \o r \in Paths
      BY <2>3, <3>1, ConcatProperties DEF Paths
    <3>. QED  BY <3>2
  <2>. HIDE DEF kept, new
  <2>. QED  BY <1>1, <2>2, <2>4, <2>5, <2>6 DEF ObjectIsPaths
<1>3. CASE DeleteField
  <2>1. PICK p \in Schema.fp : spec' = Unset(spec, p) /\ UNCHANGED <<dir, mirror, tests>>
    BY <1>3 DEF DeleteField
  <2>2. DOMAIN spec' \subseteq DOMAIN spec
    BY <2>1 DEF Unset, Without
  <2>. QED  BY <1>1, <2>1, <2>2 DEF ObjectIsPaths
<1>4. CASE Echo \/ Withdraw \/ Declare \/ UNCHANGED reportVars
  BY <1>1, <1>4 DEF Echo, Withdraw, Declare, reportVars, ObjectIsPaths
<1>. QED  BY <1>1, <1>2, <1>3, <1>4 DEF ReportNext

LEMMA DeletedOrKept ==
    ASSUME ObjectIsPaths, NEW p \in Schema.fp, NEW f \in leafPaths(Schema.fp)
    PROVE  getValue(Unset(spec, p), f) \in {{}, getValue(spec, f)}
<1>. DEFINE obj == Unset(spec, p)
            under == {q \in DOMAIN spec : IsPrefix(f, q)}
            left == {q \in DOMAIN obj : IsPrefix(f, q)}
            value(o, q) == <<SubSeq(q, Len(f) + 1, Len(q)), o[q]>>
<1>1. p \in Paths /\ f \in Paths /\ DOMAIN spec \subseteq Paths
  BY SchemaIsPaths DEF ObjectIsPaths, leafPaths
<1>2. DOMAIN obj = {q \in DOMAIN spec : ~IsPrefix(p, q)} /\ \A q \in DOMAIN obj : obj[q] = spec[q]
  BY DEF Unset, Without
<1>3. /\ getValue(obj, f) = {value(obj, q) : q \in left}
      /\ getValue(spec, f) = {value(spec, q) : q \in under}
  BY Zenon DEF getValue
<1>4. CASE IsPrefix(p, f)
  <2>1. \A q \in under : IsPrefix(p, q)
    BY <1>1, <1>4, PrefixIsTransitive
  <2>2. left = {}
    BY <1>2, <2>1
  <2>. QED  BY <1>3, <2>2
<1>5. CASE ~IsPrefix(p, f)
  <2>1. ~IsPrefix(f, p)
    <3>1. IsPrefix(f, f)
      BY <1>1, PrefixIsPointwise DEF Paths
    <3>. QED  BY <1>5, <3>1 DEF leafPaths, IsStrictPrefix
  <2>2. \A q \in under : ~IsPrefix(p, q)
    BY <1>1, <1>5, <2>1, PrefixesCompare
  <2>3. left = under /\ \A q \in left : value(obj, q) = value(spec, q)
    BY <1>2, <2>2
  <2>. HIDE DEF left, under, value, obj
  <2>4. getValue(obj, f) = getValue(spec, f)
    BY <1>3, <2>3
  <2>. QED  BY <2>4 DEF obj
<1>. QED  BY <1>4, <1>5

\* For every schema, object, mirror and manifest: deleting a declared field leaves every
\* disproved write-only or free-prose waiver disproved.
THEOREM DeletingEarnsNothingAlways == ReportSpec => DeletingEarnsNothing
<1>. DEFINE Earned == {f \in findings(Rows) : tests[f] \in {"legacy", "write-only"}}
                        \subseteq findings(DiffReport(Schema, spec', mirror))
<1>1. ObjectIsPaths /\ [ReportNext]_reportVars => [DeleteField => Earned]_reportVars
  <2>1. SUFFICES ASSUME ObjectIsPaths, DeleteField  PROVE Earned
    OBVIOUS
  <2>2. PICK p \in Schema.fp : spec' = Unset(spec, p)
    BY <2>1 DEF DeleteField
  <2>3. SUFFICES ASSUME NEW f \in Waived, Disproved(f, tests[f], Rows), tests[f] \in {"legacy", "write-only"}
                 PROVE  Disproved(f, tests[f], DiffReport(Schema, spec', mirror))
    BY DEF findings
  <2>4. CASE ~(f \in leafPaths(Schema.fp))
    BY <2>3, <2>4, OtherDisproved, Zenon DEF Rows
  <2>5. CASE f \in leafPaths(Schema.fp)
    <3>1. getValue(spec', f) = {} \/ getValue(spec', f) = getValue(spec, f)
      BY <2>1, <2>2, <2>5, DeletedOrKept
    <3>2. CASE getValue(spec', f) = getValue(spec, f)
      BY <2>3, <2>5, <3>2, SameValueSameVerdict, Zenon DEF Rows
    <3>3. CASE getValue(spec', f) = {}
      BY <2>3, <2>5, <3>3, AbsentIsDisproved, Zenon
    <3>. QED  BY <3>1, <3>2, <3>3
  <2>. QED  BY <2>4, <2>5
<1>. QED  BY <1>1, ObjectHolds, ObjectStep, PTL DEF ReportSpec, DeletingEarnsNothing

=============================================================================
