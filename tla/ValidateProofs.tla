---------------------------- MODULE ValidateProofs ----------------------------
(***************************************************************************)
(* Theorems about Validate and the modules it extends, for every schema,   *)
(* every manifest, every example object and every history of edits.        *)
(***************************************************************************)
EXTENDS Validate, SequenceTheorems, FiniteSetTheorems, WellFoundedInduction, TLAPS

-----------------------------------------------------------------------------
(***************************************************************************)
(* Paths: prefixes and the rest behind them.                               *)
(***************************************************************************)
\* The provers do not know that a string written out is one.
Names == STRING \cup {"0", "k"}
Paths == Seq(Names)
Drop(p, n) == SubSeq(p, n + 1, Len(p))

LEMMA PrefixIsPointwise ==
    ASSUME NEW p \in Paths, NEW q \in Paths
    PROVE  IsPrefix(p, q) <=> Len(p) <= Len(q) /\ \A i \in 1..Len(p) : p[i] = q[i]
<1>1. Len(p) \in Nat /\ Len(q) \in Nat
  BY DEF Paths
<1>2. SubSeq(p, 1, Len(p)) = p
  BY DEF Paths
<1>3. ASSUME Len(p) <= Len(q)
      PROVE  (p = SubSeq(q, 1, Len(p))) <=> (\A i \in 1..Len(p) : p[i] = q[i])
  <2>. DEFINE s == SubSeq(q, 1, Len(p))
  <2>1. s \in Paths /\ Len(s) = Len(p) /\ \A i \in 1..Len(p) : s[i] = q[i]
    BY <1>1, <1>3 DEF Paths
  <2>2. (p = s) <=> (Len(p) = Len(s) /\ \A i \in 1..Len(p) : p[i] = s[i])
    BY <2>1, SeqEqual DEF Paths
  <2>. QED  BY <2>1, <2>2
<1>. QED  BY <1>2, <1>3 DEF IsPrefix

\* A path is its prefix of any length followed by what is behind it.
LEMMA DropFacts ==
    ASSUME NEW p \in Paths, NEW n \in 0..Len(p)
    PROVE  /\ Drop(p, n) \in Paths /\ Len(Drop(p, n)) = Len(p) - n
           /\ \A i \in 1..(Len(p) - n) : Drop(p, n)[i] = p[n + i]
           /\ SubSeq(p, 1, n) \in Paths /\ Len(SubSeq(p, 1, n)) = n
           /\ \A i \in 1..n : SubSeq(p, 1, n)[i] = p[i]
<1>1. Len(p) \in Nat /\ \A i \in 1..Len(p) : p[i] \in Names
  BY DEF Paths
<1>2. \A i \in (n + 1)..Len(p) : p[i] \in Names
  BY <1>1
<1>. QED  BY <1>1, <1>2, SubSeqProperties DEF Drop, Paths

LEMMA NonEmpty ==
    ASSUME NEW p \in Paths, p # <<>>
    PROVE  Len(p) \in Nat \ {0} /\ 1 \in 1..Len(p) /\ p[1] \in Names
<1>1. Len(p) \in Nat \ {0}
  BY EmptySeq DEF Paths
<1>. QED  BY <1>1, ElementOfSeq DEF Paths

LEMMA JoinFacts ==
    ASSUME NEW p \in Paths, NEW r \in Paths
    PROVE  /\ p \o r \in Paths /\ Len(p \o r) = Len(p) + Len(r) /\ IsPrefix(p, p \o r)
           /\ \A i \in 1..Len(p) : (p \o r)[i] = p[i]
           /\ \A i \in 1..Len(r) : (p \o r)[Len(p) + i] = r[i]
           /\ Drop(p \o r, Len(p)) = r
<1>. DEFINE j == p \o r
<1>1. /\ j \in Paths /\ Len(j) = Len(p) + Len(r) /\ Len(p) \in Nat /\ Len(r) \in Nat
      /\ \A i \in 1..Len(p) : j[i] = p[i]
      /\ \A i \in 1..Len(r) : j[Len(p) + i] = r[i]
  <2>1. /\ j \in Paths /\ Len(j) = Len(p) + Len(r)
        /\ \A i \in 1..(Len(p) + Len(r)) : j[i] = IF i <= Len(p) THEN p[i] ELSE r[i - Len(p)]
    BY ConcatProperties DEF Paths
  <2>2. Len(p) \in Nat /\ Len(r) \in Nat
    BY DEF Paths
  <2>. HIDE DEF j
  <2>. QED  BY <2>1, <2>2
<1>. HIDE DEF j
<1>4. Len(p) <= Len(j) /\ Len(p) \in 0..Len(j) /\ Len(j) - Len(p) = Len(r)
  BY <1>1
<1>2. IsPrefix(p, j)
  BY <1>1, <1>4, PrefixIsPointwise
<1>3. Drop(j, Len(p)) = r
  <2>. DEFINE d == Drop(j, Len(p))
  <2>1. d \in Paths /\ Len(d) = Len(r) /\ \A i \in 1..Len(r) : d[i] = j[Len(p) + i]
    <3>1. d \in Paths /\ Len(d) = Len(j) - Len(p) /\ \A i \in 1..(Len(j) - Len(p)) : d[i] = j[Len(p) + i]
      BY <1>1, <1>4, DropFacts
    <3>. HIDE DEF d
    <3>. QED  BY <1>4, <3>1
  <2>2. \A i \in 1..Len(d) : d[i] = r[i]
    BY <1>1, <2>1
  <2>. HIDE DEF d
  <2>3. d = r
    BY <2>1, <2>2, SeqEqual DEF Paths
  <2>. QED  BY <2>3 DEF d
<1>. QED  BY <1>1, <1>2, <1>3 DEF j

LEMMA SplitAtPrefix ==
    ASSUME NEW p \in Paths, NEW q \in Paths, IsPrefix(p, q)
    PROVE  Drop(q, Len(p)) \in Paths /\ p \o Drop(q, Len(p)) = q
<1>. DEFINE d == Drop(q, Len(p))
<1>1. Len(p) \in Nat /\ Len(q) \in Nat /\ Len(p) <= Len(q) /\ \A i \in 1..Len(p) : p[i] = q[i]
  BY PrefixIsPointwise DEF Paths
<1>2. d \in Paths /\ Len(d) = Len(q) - Len(p) /\ \A i \in 1..(Len(q) - Len(p)) : d[i] = q[Len(p) + i]
  BY <1>1, DropFacts
<1>. HIDE DEF d
<1>3. p \o d \in Paths /\ Len(p \o d) = Len(q)
  BY <1>1, <1>2, JoinFacts
<1>7. /\ \A i \in 1..Len(p) : (p \o d)[i] = p[i]
      /\ \A i \in 1..Len(d) : (p \o d)[Len(p) + i] = d[i]
  BY <1>2, JoinFacts
<1>4. \A i \in 1..Len(q) : (p \o d)[i] = q[i]
  <2>. SUFFICES ASSUME NEW i \in 1..Len(q)  PROVE (p \o d)[i] = q[i]
    OBVIOUS
  <2>2. CASE i <= Len(p)
    <3>1. i \in 1..Len(p)
      BY <1>1, <2>2
    <3>. QED  BY <1>1, <1>7, <3>1
  <2>3. CASE i > Len(p)
    <3>1. i - Len(p) \in 1..Len(d) /\ Len(p) + (i - Len(p)) = i
      BY <1>1, <1>2, <2>3
    <3>2. (p \o d)[Len(p) + (i - Len(p))] = d[i - Len(p)]
      BY <1>7, <3>1
    <3>3. d[i - Len(p)] = q[Len(p) + (i - Len(p))]
      BY <1>2, <3>1
    <3>4. Len(p) + (i - Len(p)) = i
      BY <3>1
    <3>5. (p \o d)[i] = (p \o d)[Len(p) + (i - Len(p))] /\ q[i] = q[Len(p) + (i - Len(p))]
      BY <3>4, Zenon
    <3>. QED  BY <3>2, <3>3, <3>5, Zenon
  <2>4. i <= Len(p) \/ i > Len(p)
    BY <1>1
  <2>. QED  BY <2>2, <2>3, <2>4
<1>5. p \o d = q
  BY <1>3, <1>4, SeqEqual DEF Paths
<1>. QED  BY <1>2, <1>5 DEF d

\* What Above holds: the shorter prefixes.
LEMMA AboveFacts ==
    ASSUME NEW p \in Paths, NEW a
    PROVE  a \in Above(p) <=> a \in Paths /\ Len(a) < Len(p) /\ IsPrefix(a, p)
<1>1. Len(p) \in Nat
  BY DEF Paths
<1>2. ASSUME a \in Above(p)  PROVE a \in Paths /\ Len(a) < Len(p) /\ IsPrefix(a, p)
  <2>1. PICK n \in 0..(Len(p) - 1) : a = SubSeq(p, 1, n)
    BY <1>2 DEF Above
  <2>2. /\ a \in Paths /\ Len(a) = n /\ n < Len(p) /\ n \in 0..Len(p)
        /\ \A i \in 1..n : a[i] = p[i]
    BY <1>1, <2>1, DropFacts
  <2>. QED  BY <1>1, <2>2, PrefixIsPointwise
<1>3. ASSUME a \in Paths, Len(a) < Len(p), IsPrefix(a, p)  PROVE a \in Above(p)
  <2>1. Len(a) \in 0..(Len(p) - 1) /\ SubSeq(a, 1, Len(a)) = a
    BY <1>1, <1>3 DEF Paths
  <2>2. a = SubSeq(p, 1, Len(a))
    BY <1>3, <2>1 DEF IsPrefix
  <2>. QED  BY <2>1, <2>2 DEF Above
<1>. QED  BY <1>2, <1>3

-----------------------------------------------------------------------------
(***************************************************************************)
(* Trees: what is found in them and what a patch makes of them.            *)
(***************************************************************************)
LEMMA ValueAtFacts ==
    ASSUME NEW tree, DOMAIN tree \subseteq Paths, NEW p \in Paths
    PROVE  /\ DOMAIN ValueAt(tree, p) \subseteq Paths
           /\ \A r \in Paths : r \in DOMAIN ValueAt(tree, p) <=> p \o r \in DOMAIN tree
           /\ \A r \in DOMAIN ValueAt(tree, p) : ValueAt(tree, p)[r] = tree[p \o r]
<1>. DEFINE below == {q \in DOMAIN tree : IsPrefix(p, q)}
            rests == {SubSeq(q, Len(p) + 1, Len(q)) : q \in below}
<1>1. ValueAt(tree, p) = [r \in rests |-> tree[p \o r]]
  BY DEF ValueAt
<1>2. ASSUME NEW r, r \in rests  PROVE r \in Paths /\ p \o r \in DOMAIN tree
  <2>1. PICK q \in below : r = Drop(q, Len(p))
    BY <1>2 DEF Drop
  <2>. QED  BY <2>1, SplitAtPrefix
<1>3. ASSUME NEW r \in Paths, p \o r \in DOMAIN tree  PROVE r \in rests
  <2>1. IsPrefix(p, p \o r) /\ Drop(p \o r, Len(p)) = r
    BY JoinFacts
  <2>2. p \o r \in below
    BY <1>3, <2>1
  <2>. QED  BY <2>1, <2>2 DEF Drop
<1>. HIDE DEF rests
<1>. QED  BY <1>1, <1>2, <1>3

LEMMA AtRoot ==
    ASSUME NEW p \in Paths
    PROVE  <<>> \in Paths /\ p \o <<>> = p
BY EmptySeq, ConcatEmptySeq DEF Paths

LEMMA RootOfValue ==
    ASSUME NEW tree, DOMAIN tree \subseteq Paths, NEW p \in Paths
    PROVE  /\ <<>> \in DOMAIN ValueAt(tree, p) <=> p \in DOMAIN tree
           /\ p \in DOMAIN tree => ValueAt(tree, p)[<<>>] = tree[p]
<1>. DEFINE e == <<>>
<1>1. e \in Paths /\ p \o e = p
  BY AtRoot
<1>. HIDE DEF e
<1>2. e \in DOMAIN ValueAt(tree, p) <=> p \in DOMAIN tree
  BY <1>1, ValueAtFacts
<1>3. p \in DOMAIN tree => ValueAt(tree, p)[e] = tree[p]
  <2>1. \A r \in DOMAIN ValueAt(tree, p) : ValueAt(tree, p)[r] = tree[p \o r]
    BY ValueAtFacts
  <2>2. p \in DOMAIN tree => ValueAt(tree, p)[e] = tree[p \o e]
    BY <1>2, <2>1, Zenon
  <2>. QED  BY <1>1, <2>2, Zenon
<1>. QED  BY <1>2, <1>3, Zenon DEF e

LEMMA NoDomain ==
    ASSUME NEW v, v = [q \in {} |-> v[q]]
    PROVE  v = <<>>
OBVIOUS

\* A tree holds what is above its paths; one that is there has a root.
LEMMA TreeFacts ==
    ASSUME NEW v, IsTree(v)
    PROVE  /\ DOMAIN v \subseteq Paths /\ v = [q \in DOMAIN v |-> v[q]]
           /\ \A q \in DOMAIN v : \A a \in Above(q) : a \in DOMAIN v /\ v[a] \in {"obj", "arr"}
           /\ v # Missing => <<>> \in DOMAIN v
<1>1. DOMAIN v \subseteq Paths
  <2>1. DOMAIN v \subseteq Seq(STRING)
    BY DEF IsTree
  <2>2. Seq(STRING) \subseteq Paths
    BY SeqMonotonic DEF Paths, Names
  <2>. QED  BY <2>1, <2>2
<1>2. \A q \in DOMAIN v : \A a \in Above(q) : a \in DOMAIN v /\ v[a] \in {"obj", "arr"}
  BY Zenon DEF IsTree, Above
<1>3. ASSUME v # Missing  PROVE <<>> \in DOMAIN v
  <2>1. DOMAIN v # {}
    <3>1. SUFFICES ASSUME DOMAIN v = {}  PROVE v = <<>>
      BY <1>3 DEF Missing
    <3>2. v = [q \in {} |-> v[q]]
      <4>1. v = [q \in DOMAIN v |-> v[q]]
        BY Zenon DEF IsTree
      <4>. QED  BY <3>1, <4>1, Zenon
    <3>. QED  BY <3>2, NoDomain
  <2>2. PICK q \in DOMAIN v : TRUE
    BY <2>1
  <2>3. <<>> = q \/ <<>> \in Above(q)
    <3>1. q \in Paths
      BY <1>1
    <3>. DEFINE e == <<>>
    <3>2. e \in Paths /\ Len(e) = 0
      BY EmptySeq DEF Paths
    <3>3. e = q \/ Len(q) \in Nat \ {0}
      BY <3>1, NonEmpty
    <3>. HIDE DEF e
    <3>4. IsPrefix(e, q) /\ (e # q => Len(e) < Len(q))
      <4>1. Len(q) \in Nat /\ Len(e) <= Len(q) /\ \A i \in 1..Len(e) : e[i] = q[i]
        BY <3>1, <3>2 DEF Paths
      <4>2. e # q => Len(e) < Len(q)
        BY <3>2, <3>3
      <4>. QED  BY <3>1, <3>2, <4>1, <4>2, PrefixIsPointwise
    <3>5. e = q \/ e \in Above(q)
      BY <3>1, <3>2, <3>4, AboveFacts
    <3>. QED  BY <3>5 DEF e
  <2>. QED  BY <1>2, <2>2, <2>3
<1>. QED  BY <1>1, <1>2, <1>3, Zenon DEF IsTree

\* Where a merge patch puts something, and what it takes away.
LEMMA MergePatchFacts ==
    ASSUME NEW tree, NEW patch
    PROVE  LET replaces(r) == r # <<>> /\ ~(patch[r] = "obj" /\ r \in DOMAIN tree /\ tree[r] = "obj")
               new == {r \in DOMAIN patch : r # <<>> /\ patch[r] # "null"}
           IN /\ \A q : q \in DOMAIN MergePatch(tree, patch) <=>
                   \/ q \in new
                   \/ q \in DOMAIN tree /\ ~\E r \in DOMAIN patch : replaces(r) /\ IsPrefix(r, q)
              /\ \A q \in new : MergePatch(tree, patch)[q] = patch[q]
              /\ \A q \in DOMAIN MergePatch(tree, patch) \ new : MergePatch(tree, patch)[q] = tree[q]
<1>. DEFINE replaces(r) == r # <<>> /\ ~(patch[r] = "obj" /\ r \in DOMAIN tree /\ tree[r] = "obj")
            new == {r \in DOMAIN patch : r # <<>> /\ patch[r] # "null"}
            kept == {q \in DOMAIN tree : ~\E r \in DOMAIN patch : replaces(r) /\ IsPrefix(r, q)}
<1>1. MergePatch(tree, patch) = [q \in kept \cup new |-> IF q \in new THEN patch[q] ELSE tree[q]]
  BY Zenon DEF MergePatch
<1>2. \A q : q \in kept <=> q \in DOMAIN tree /\ ~\E r \in DOMAIN patch : replaces(r) /\ IsPrefix(r, q)
  BY Zenon
<1>. HIDE DEF kept, new, replaces
<1>3. /\ DOMAIN MergePatch(tree, patch) = kept \cup new
      /\ \A q \in new : MergePatch(tree, patch)[q] = patch[q]
      /\ \A q \in DOMAIN MergePatch(tree, patch) \ new : MergePatch(tree, patch)[q] = tree[q]
  BY <1>1
<1>4. \A q : q \in DOMAIN MergePatch(tree, patch) <=>
        q \in new \/ (q \in DOMAIN tree /\ ~\E r \in DOMAIN patch : replaces(r) /\ IsPrefix(r, q))
  BY <1>2, <1>3, Zenon
<1>. QED  BY <1>3, <1>4, Zenon DEF new, replaces

\* The paths of a patch for one entry: down to its field, below it, and what it clears and sets besides.
Body(t) == Above(t.field) \cup {t.field \o r : r \in DOMAIN t.value}
Siblings(t) == UNION {{s \o r : r \in DOMAIN t.with[s]} : s \in DOMAIN t.with}
\* What the parser and the author see to.
Written(t) ==
  /\ t.field \in Paths \ {<<>>} /\ t.clear \subseteq Paths /\ DOMAIN t.with \subseteq Paths
  /\ DOMAIN t.value \subseteq Paths /\ \A s \in DOMAIN t.with : DOMAIN t.with[s] \subseteq Paths
  /\ <<>> \in DOMAIN t.value
  /\ ValidateClear(t) /\ ValidateWithValues(t)

LEMMA BodyFacts ==
    ASSUME NEW f \in Paths \ {<<>>}, NEW v, DOMAIN v \subseteq Paths
    PROVE  LET body == setAtPath(Empty, f, v)
           IN /\ DOMAIN body = Above(f) \cup {f \o r : r \in DOMAIN v}
              /\ \A r \in DOMAIN v : body[f \o r] = v[r]
              /\ \A q \in Above(f) : body[q] = "obj"
<1>. DEFINE body == setAtPath(Empty, f, v)
            new == {f \o r : r \in DOMAIN v}
            kept == {q \in DOMAIN Empty : ~IsPrefix(f, q) /\ ~\E a \in Above(f) : IsStrictPrefix(a, q) /\ Empty[a] # "obj"}
<1>1. body = [q \in kept \cup new \cup Above(f) |->
               IF q \in new THEN v[SubSeq(q, Len(f) + 1, Len(q))] ELSE IF q \in Above(f) THEN "obj" ELSE Empty[q]]
  BY Zenon DEF setAtPath
<1>2. kept \subseteq Above(f)
  <2>1. <<>> \in Paths /\ Len(<<>>) = 0 /\ Len(f) \in Nat /\ Len(f) # 0
    BY EmptySeq DEF Paths
  <2>2. IsPrefix(<<>>, f)
    BY <2>1, PrefixIsPointwise
  <2>3. <<>> \in Above(f)
    BY <2>1, <2>2, AboveFacts
  <2>. QED  BY <2>3 DEF Empty
<1>3. \A q \in Above(f) : q \notin new
  <2>. SUFFICES ASSUME NEW q \in Above(f), NEW r \in DOMAIN v, q = f \o r  PROVE FALSE
    OBVIOUS
  <2>1. Len(q) < Len(f)
    BY AboveFacts
  <2>2. Len(q) = Len(f) + Len(r) /\ Len(f) \in Nat /\ Len(r) \in Nat
    BY JoinFacts DEF Paths
  <2>. QED  BY <2>1, <2>2
<1>4. \A r \in DOMAIN v : SubSeq(f \o r, Len(f) + 1, Len(f \o r)) = r
  BY JoinFacts DEF Drop
<1>5. \A r \in DOMAIN v : f \o r \in new
  OBVIOUS
<1>. HIDE DEF new, kept
<1>6. DOMAIN body = Above(f) \cup new
  BY <1>1, <1>2
<1>7. \A r \in DOMAIN v : body[f \o r] = v[r]
  BY <1>1, <1>4, <1>5
<1>8. \A q \in Above(f) : body[q] = "obj"
  BY <1>1, <1>3
<1>. QED  BY <1>6, <1>7, <1>8 DEF new

LEMMA OneName ==
    ASSUME NEW p \in Paths, Len(p) = 1
    PROVE  p[1] \in Names /\ p = <<p[1]>> /\ p # <<>>
<1>1. p[1] \in Names /\ 1 \in 1..Len(p)
  BY ElementOfSeq DEF Paths
<1>2. <<p[1]>> \in Seq(Names) /\ Len(<<p[1]>>) = 1 /\ <<p[1]>>[1] = p[1]
  BY <1>1
<1>3. \A i \in 1..Len(p) : p[i] = <<p[1]>>[i]
  BY <1>2
<1>4. p = <<p[1]>>
  BY <1>2, <1>3, SeqEqual DEF Paths
<1>. QED  BY <1>1, <1>4, EmptySeq DEF Paths

LEMMA FirstOfJoin ==
    ASSUME NEW p \in Paths, NEW r \in Paths, p # <<>>
    PROVE  (p \o r)[1] = p[1] /\ p \o r \in Paths \ {<<>>}
<1>1. Len(p) \in Nat \ {0}
  BY EmptySeq DEF Paths
<1>2. /\ p \o r \in Paths /\ Len(p \o r) = Len(p) + Len(r) /\ Len(r) \in Nat
      /\ \A i \in 1..Len(p) : (p \o r)[i] = p[i]
  BY JoinFacts DEF Paths
<1>3. 1 \in 1..Len(p) /\ Len(p \o r) # 0
  BY <1>1, <1>2
<1>. QED  BY <1>2, <1>3, EmptySeq DEF Paths

\* What is under one name, and what under another.
LEMMA TopsOfPatch ==
    ASSUME NEW t, Written(t)
    PROVE  /\ \A q \in Body(t) : q \in Paths /\ (q # <<>> => q[1] = t.field[1])
           /\ \A c \in t.clear : c \in Paths \ {<<>>} /\ Len(c) = 1 /\ c = <<c[1]>> /\ c[1] # t.field[1]
           /\ \A s \in DOMAIN t.with :
                /\ s \in Paths /\ Len(s) = 1 /\ s = <<s[1]>> /\ s[1] # t.field[1] /\ s \notin t.clear
                /\ \A r \in DOMAIN t.with[s] :
                     r \in Paths /\ s \o r \in Paths \ {<<>>} /\ (s \o r)[1] = s[1] /\ Tail(s \o r) = r
<1>. USE DEF Written
<1>1. ASSUME NEW q \in Body(t)  PROVE q \in Paths /\ (q # <<>> => q[1] = t.field[1])
  <2>1. CASE q \in Above(t.field)
    <3>1. q \in Paths /\ IsPrefix(q, t.field)
      BY <2>1, AboveFacts
    <3>. QED  BY <3>1, PrefixIsPointwise, NonEmpty
  <2>2. CASE \E r \in DOMAIN t.value : q = t.field \o r
    BY <2>2, FirstOfJoin
  <2>. QED  BY <1>1, <2>1, <2>2 DEF Body
<1>2. ASSUME NEW c \in t.clear  PROVE c \in Paths \ {<<>>} /\ Len(c) = 1 /\ c = <<c[1]>> /\ c[1] # t.field[1]
  <2>1. c \in Paths /\ Len(c) = 1 /\ Len(t.field) = 1 /\ c # t.field
    BY DEF ValidateClear
  <2>. QED  BY <2>1, OneName
<1>3. ASSUME NEW s \in DOMAIN t.with
      PROVE  s \in Paths /\ Len(s) = 1 /\ s = <<s[1]>> /\ s # <<>> /\ s[1] # t.field[1] /\ s \notin t.clear
  <2>1. s \in Paths /\ Len(s) = 1 /\ Len(t.field) = 1 /\ s # t.field /\ s \notin t.clear
    BY DEF ValidateWithValues
  <2>. QED  BY <2>1, OneName
<1>4. ASSUME NEW s \in DOMAIN t.with, NEW r \in DOMAIN t.with[s]
      PROVE  r \in Paths /\ s \o r \in Paths \ {<<>>} /\ (s \o r)[1] = s[1] /\ Tail(s \o r) = r
  <2>1. s \in Paths /\ s # <<>> /\ r \in Paths /\ Len(s) = 1
    BY <1>3
  <2>2. s \o r \in Paths \ {<<>>} /\ (s \o r)[1] = s[1] /\ Drop(s \o r, Len(s)) = r
    BY <2>1, FirstOfJoin, JoinFacts, Zenon
  <2>3. Tail(s \o r) = SubSeq(s \o r, 2, Len(s \o r))
    BY <2>2, TailIsSubSeq DEF Paths
  <2>. QED  BY <2>1, <2>2, <2>3 DEF Drop
<1>. QED  BY <1>1, <1>2, <1>3, <1>4

\* The merge patch of an entry, path by path.
LEMMA PatchFacts ==
    ASSUME NEW t, Written(t)
    PROVE  LET patch == buildMergePatch(t)
           IN /\ DOMAIN patch = Body(t) \cup t.clear \cup Siblings(t)
              /\ \A a \in Above(t.field) : patch[a] = "obj"
              /\ \A r \in DOMAIN t.value : patch[t.field \o r] = t.value[r]
              /\ \A c \in t.clear : patch[c] = "null"
              /\ \A s \in DOMAIN t.with : \A r \in DOMAIN t.with[s] : patch[s \o r] = t.with[s][r]
<1>. DEFINE patch == buildMergePatch(t)
            body == setAtPath(Empty, t.field, t.value)
<1>1. patch = [q \in DOMAIN body \cup t.clear \cup Siblings(t) |->
                IF q \in Siblings(t) THEN t.with[<<q[1]>>][Tail(q)] ELSE IF q \in t.clear THEN "null" ELSE body[q]]
  BY Zenon DEF buildMergePatch, Siblings
<1>2. /\ DOMAIN body = Body(t)
      /\ \A r \in DOMAIN t.value : body[t.field \o r] = t.value[r] /\ t.field \o r \in Body(t)
      /\ \A a \in Above(t.field) : body[a] = "obj" /\ a \in Body(t)
  <2>1. t.field \in Paths \ {<<>>} /\ DOMAIN t.value \subseteq Paths
    BY DEF Written
  <2>2. /\ DOMAIN body = Above(t.field) \cup {t.field \o r : r \in DOMAIN t.value}
        /\ \A r \in DOMAIN t.value : body[t.field \o r] = t.value[r]
        /\ \A a \in Above(t.field) : body[a] = "obj"
    BY <2>1, BodyFacts, Zenon
  <2>. HIDE DEF body
  <2>. QED  BY <2>2 DEF Body
<1>3. \A q \in Siblings(t) : \E s \in DOMAIN t.with : \E r \in DOMAIN t.with[s] : q = s \o r
  BY DEF Siblings
<1>4. \A s \in DOMAIN t.with : \A r \in DOMAIN t.with[s] : s \o r \in Siblings(t)
  BY DEF Siblings
<1>5. \A q \in Siblings(t) : q \notin t.clear /\ q \notin Body(t)
  BY <1>3, TopsOfPatch
<1>6. \A c \in t.clear : c \notin Body(t)
  BY TopsOfPatch
<1>. HIDE DEF body
<1>7. DOMAIN patch = Body(t) \cup t.clear \cup Siblings(t)
  BY <1>1, <1>2
<1>8. \A a \in Above(t.field) : patch[a] = "obj"
  BY <1>1, <1>2, <1>5, <1>6
<1>9. \A r \in DOMAIN t.value : patch[t.field \o r] = t.value[r]
  BY <1>1, <1>2, <1>5, <1>6
<1>10. \A c \in t.clear : patch[c] = "null"
  BY <1>1, <1>5
<1>11. ASSUME NEW s \in DOMAIN t.with, NEW r \in DOMAIN t.with[s]  PROVE patch[s \o r] = t.with[s][r]
  <2>1. patch[s \o r] = t.with[<<(s \o r)[1]>>][Tail(s \o r)]
    BY <1>1, <1>4
  <2>2. <<(s \o r)[1]>> = s /\ Tail(s \o r) = r
    BY TopsOfPatch
  <2>. QED  BY <2>1, <2>2
<1>. QED  BY <1>7, <1>8, <1>9, <1>10, <1>11

\* Nothing else of the patch is under the name of a field, of what is cleared or set besides.
LEMMA UnderOneName ==
    ASSUME NEW t, Written(t), NEW q \in DOMAIN buildMergePatch(t), q # <<>>
    PROVE  /\ q \in Paths
           /\ q[1] = t.field[1] => q \in Body(t)
           /\ \A c \in t.clear : q[1] = c[1] => q = c
           /\ \A s \in DOMAIN t.with : q[1] = s[1] => \E r \in DOMAIN t.with[s] : q = s \o r
<1>1. q \in Body(t) \/ q \in t.clear \/ \E s \in DOMAIN t.with : \E r \in DOMAIN t.with[s] : q = s \o r
  <2>1. DOMAIN buildMergePatch(t) = Body(t) \cup t.clear \cup Siblings(t)
    BY PatchFacts
  <2>2. q \in Body(t) \/ q \in t.clear \/ q \in Siblings(t)
    BY <2>1
  <2>. QED  BY <2>2 DEF Siblings
<1>2. CASE q \in Body(t)
  BY <1>2, TopsOfPatch
<1>3. CASE q \in t.clear
  BY <1>3, TopsOfPatch
<1>4. CASE \E s \in DOMAIN t.with : \E r \in DOMAIN t.with[s] : q = s \o r
  <2>1. PICK s \in DOMAIN t.with : \E r \in DOMAIN t.with[s] : q = s \o r
    BY <1>4
  <2>2. PICK r \in DOMAIN t.with[s] : q = s \o r
    BY <2>1
  <2>3. q \in Paths /\ q[1] = s[1] /\ s = <<s[1]>> /\ s[1] # t.field[1] /\ s \notin t.clear
    BY <2>2, TopsOfPatch
  <2>4. \A c \in t.clear : c = <<c[1]>>
    BY TopsOfPatch
  <2>5. \A s2 \in DOMAIN t.with : s2 = <<s2[1]>>
    BY TopsOfPatch
  <2>6. ASSUME NEW c \in t.clear, q[1] = c[1]  PROVE FALSE
    BY <2>3, <2>4, <2>6
  <2>7. ASSUME NEW s2 \in DOMAIN t.with, q[1] = s2[1]  PROVE s2 = s
    BY <2>3, <2>5, <2>7
  <2>. QED  BY <2>2, <2>3, <2>6, <2>7
<1>. QED  BY <1>1, <1>2, <1>3, <1>4

-----------------------------------------------------------------------------
(***************************************************************************)
(* Container clears: credit is kept when the manifest grows.               *)
(***************************************************************************)
\* An entry appended to a manifest comes after the others, which stay.
LEMMA AppendedEntries ==
    ASSUME NEW S, NEW ts \in Seq(S), NEW t
    PROVE  /\ DOMAIN Append(ts, t) = DOMAIN ts \cup {Len(ts) + 1} /\ Len(ts) + 1 \notin DOMAIN ts
           /\ \A i \in DOMAIN ts : Append(ts, t)[i] = ts[i] /\ i < Len(ts) + 1
           /\ Append(ts, t)[Len(ts) + 1] = t
<1>. DEFINE T == S \cup {t}
<1>1. ts \in Seq(T) /\ t \in T
  OBVIOUS
<1>. HIDE DEF T
<1>. QED  BY <1>1

LEMMA EntriesGrow ==
    ASSUME NEW S, NEW ts \in Seq(S), NEW t
    PROVE  EntriesOf(Append(ts, t)) = EntriesOf(ts) \cup {t}
BY AppendedEntries DEF EntriesOf

\* The entry that stands for a field is the last one for it.
LEMMA OwnEntry ==
    ASSUME NEW S, NEW ts \in Seq(S), NEW t, NEW p, \A i \in DOMAIN ts : ts[i].field # t.field
    PROVE  /\ t.field = p => selfByField(ts, p) = {} /\ selfByField(Append(ts, t), p) = {t}
           /\ t.field # p => selfByField(Append(ts, t), p) = selfByField(ts, p)
<1>. DEFINE more == Append(ts, t)
            n(s) == {i \in DOMAIN s : s[i].field = p}
            last(s) == {j \in n(s) : \A k \in n(s) : k <= j}
            own(s, I) == {s[i] : i \in I}
<1>1. /\ selfByField(ts, p) = own(ts, last(ts))
      /\ selfByField(more, p) = own(more, last(more))
  BY Zenon DEF selfByField
<1>2. CASE t.field = p
  <2>1. n(ts) = {} /\ n(more) = {Len(ts) + 1}
    BY <1>2, AppendedEntries
  <2>2. last(ts) = {} /\ last(more) = {Len(ts) + 1}
    BY <2>1
  <2>3. own(ts, {}) = {} /\ own(more, {Len(ts) + 1}) = {t}
    BY AppendedEntries
  <2>. HIDE DEF own, last, more
  <2>. QED  BY <1>1, <1>2, <2>2, <2>3 DEF more
<1>3. CASE t.field # p
  <2>1. n(more) = n(ts)
    BY <1>3, AppendedEntries
  <2>2. last(more) = last(ts)
    BY <2>1
  <2>3. \A i \in last(ts) : more[i] = ts[i]
    BY AppendedEntries
  <2>. HIDE DEF last, more
  <2>4. own(more, last(ts)) = own(ts, last(ts))
    BY <2>3
  <2>. HIDE DEF own
  <2>. QED  BY <1>1, <1>3, <2>2, <2>4 DEF more
<1>. QED  BY <1>2, <1>3

\* The five routes by which a leaf is covered.
LEMMA Routes ==
    ASSUME NEW p, NEW ts
    PROVE  LET all == EntriesOf(ts)
           IN Covers(p, ts) <=>
                \/ \E t \in all : p \in t.clear
                \/ /\ ShapeOfLeaf(p) = "list"
                   /\ \E t \in all : p \in DOMAIN t.with /\ t.with[p] = [q \in {<<>>} |-> "arr"]
                \/ \E t \in all : \E c \in t.clear : IsStrictPrefix(c, p)
                \/ \E t \in all : t.field = p /\ hasNestedNullMember(t.value)
                \/ \E t \in selfByField(ts, p) : selfTombstoned(t, ShapeOfLeaf(p))
<1>. DEFINE all == EntriesOf(ts)
            cleared == UNION {t.clear : t \in all}
            A == p \in cleared
            B == ShapeOfLeaf(p) = "list" /\ \E t \in all : p \in DOMAIN t.with /\ t.with[p] = [q \in {<<>>} |-> "arr"]
            C == \E c \in cleared : IsStrictPrefix(c, p)
            D == \E t \in all : t.field = p /\ hasNestedNullMember(t.value)
            E == \E t \in selfByField(ts, p) : selfTombstoned(t, ShapeOfLeaf(p))
            route == IF A THEN "sibling clear:" ELSE IF B THEN "sibling withValues:"
                     ELSE IF C THEN "ancestor-tombstone" ELSE IF D THEN "per-key-null"
                     ELSE IF E THEN "self-tombstone" ELSE "none"
<1>1. Covers(p, ts) <=> route # "none"
  BY Zenon DEF Covers, coverageFor
<1>2. A <=> \E t \in all : p \in t.clear
  OBVIOUS
<1>3. C <=> \E t \in all : \E c \in t.clear : IsStrictPrefix(c, p)
  BY DEF IsStrictPrefix, IsStrictPrefix, IsPrefix, IsPrefix
<1>. HIDE DEF A, B, C, D, E
<1>4. route # "none" <=> A \/ B \/ C \/ D \/ E
  OBVIOUS
<1>. QED  BY <1>1, <1>2, <1>3, <1>4, Zenon DEF B, D, E

\* No route is lost: the entries stay, and no other entry takes over a field.
LEMMA CoversGrows ==
    ASSUME NEW S, NEW ts \in Seq(S), NEW t, \A i \in DOMAIN ts : ts[i].field # t.field, NEW p,
           Covers(p, ts)
    PROVE  Covers(p, Append(ts, t))
<1>. DEFINE more == Append(ts, t)
            all(s) == EntriesOf(s)
            route(s) == \/ \E e \in all(s) : p \in e.clear
                        \/ /\ ShapeOfLeaf(p) = "list"
                           /\ \E e \in all(s) : p \in DOMAIN e.with /\ e.with[p] = [q \in {<<>>} |-> "arr"]
                        \/ \E e \in all(s) : \E c \in e.clear : IsStrictPrefix(c, p)
                        \/ \E e \in all(s) : e.field = p /\ hasNestedNullMember(e.value)
            self(s) == \E e \in selfByField(s, p) : selfTombstoned(e, ShapeOfLeaf(p))
<1>1. Covers(p, ts) <=> route(ts) \/ self(ts)
  BY Routes, Zenon
<1>2. Covers(p, more) <=> route(more) \/ self(more)
  BY Routes, Zenon
<1>3. all(ts) \subseteq all(more)
  BY EntriesGrow
<1>4. self(ts) => self(more)
  <2>1. /\ t.field = p => selfByField(ts, p) = {}
        /\ t.field # p => selfByField(more, p) = selfByField(ts, p)
    BY OwnEntry
  <2>. HIDE DEF more
  <2>. QED  BY <2>1
<1>. HIDE DEF all, self, more
<1>5. route(ts) => route(more)
  BY <1>3, Zenon
<1>. HIDE DEF route
<1>. QED  BY <1>1, <1>2, <1>4, <1>5, Zenon DEF more

\* What the leaf's own entry declares stays, unless it has one only now.
LEMMA DispositionKept ==
    ASSUME NEW S, NEW ts \in Seq(S), NEW t, \A i \in DOMAIN ts : ts[i].field # t.field,
           EffectiveDisposition(t) = "none", NEW p,
           dispositionFor(p, ts) # "backend-discards"
    PROVE  dispositionFor(p, Append(ts, t)) # "backend-discards"
<1>1. CASE t.field = p
  <2>1. selfByField(Append(ts, t), p) = {t}
    BY <1>1, OwnEntry
  <2>2. (CHOOSE e \in {t} : TRUE) = t
    OBVIOUS
  <2>3. dispositionFor(p, Append(ts, t)) = "none"
    BY <2>1, <2>2 DEF dispositionFor
  <2>. QED  BY <2>3
<1>2. CASE t.field # p
  <2>1. selfByField(Append(ts, t), p) = selfByField(ts, p)
    BY <1>2, OwnEntry
  <2>. QED  BY <2>1 DEF dispositionFor
<1>. QED  BY <1>1, <1>2

\* A covered leaf, and any leaf of its cell that the schema does not rule out, is
\* ruled out by nothing else.
LEMMA CoveredCellIsEligible ==
    ASSUME NEW p \in DeclaredContainerLeaves, NEW q \in DeclaredContainerLeaves,
           NEW ts, NEW fp, CellOf(p) = CellOf(q),
           structural(p, fp) = "none", structural(q, fp) = "none", Covers(q, ts)
    PROVE  ineligible(p, ts, fp) = "none"
<1>1. CellOf(q) \in cellCovered(ts, fp)
  BY Zenon DEF cellCovered
<1>. QED  BY <1>1, Zenon DEF ineligible

\* For every schema, object and manifest: a new entry, for a field that has none yet and
\* without a disposition of its own, takes no leaf's credit away (ContainerClearCoverage).
\* This is what CreditIsKept of Validate says of the edit that adds an entry.
THEOREM NewEntryKeepsCredit ==
    ASSUME NEW S, NEW ts \in Seq(S), NEW t, \A i \in DOMAIN ts : ts[i].field # t.field,
           EffectiveDisposition(t) = "none", NEW fp,
           NEW p \in DeclaredContainerLeaves, Credited(p, ts, fp)
    PROVE  Credited(p, Append(ts, t), fp)
<1>. DEFINE more == Append(ts, t)
            finding(q, s) == ContainerClearFinding(q, ineligible(q, s, fp),
                               coverageFor(q, s), dispositionFor(q, s))
<1>1. PICK q \in DeclaredContainerLeaves :
        finding(q, ts).covered /\ CellOf(finding(q, ts).path) = CellOf(p)
  BY DEF Credited, ContainerClearCoverage
<1>2. \A s : /\ finding(q, s).path = q
             /\ finding(q, s).covered <=> /\ ineligible(q, s, fp) = "none" /\ Covers(q, s)
                                          /\ dispositionFor(q, s) # "backend-discards"
  BY DEF ContainerClearFinding, Covers
<1>. HIDE DEF finding
<1>3. /\ CellOf(p) = CellOf(q)
      /\ ineligible(q, ts, fp) = "none" /\ Covers(q, ts)
      /\ dispositionFor(q, ts) # "backend-discards"
  BY <1>1, <1>2, Zenon
<1>4. \A r, s : ineligible(r, s, fp) = "none" => structural(r, fp) = "none"
  BY Zenon DEF ineligible
<1>5. structural(p, fp) = "none" /\ structural(q, fp) = "none"
  BY <1>3, <1>4, Zenon DEF Credited
<1>6. Covers(q, more)
  BY <1>3, CoversGrows
<1>7. ineligible(q, more, fp) = "none" /\ ineligible(p, more, fp) = "none"
  BY <1>3, <1>5, <1>6, CoveredCellIsEligible, Zenon
<1>8. dispositionFor(q, more) # "backend-discards"
  BY <1>3, DispositionKept
<1>9. finding(q, more).covered /\ finding(q, more).path = q
  BY <1>2, <1>6, <1>7, <1>8, Zenon
<1>10. finding(q, more) \in ContainerClearCoverage(more, fp)
  BY DEF finding, ContainerClearCoverage
<1>. QED  BY <1>3, <1>7, <1>9, <1>10, Zenon DEF Credited

-----------------------------------------------------------------------------
(***************************************************************************)
(* The history of edits.                                                   *)
(***************************************************************************)
\* The manifest is a sequence of entries that the author may write.
ManifestIsEntries == tests \in Seq(Entries)

LEMMA ManifestHolds == Init => ManifestIsEntries
BY DEF Init, ManifestIsEntries

\* An edit adds one entry at the end, or there are no more entries than before.
LEMMA OneEntryAtATime ==
    ManifestIsEntries /\ [Next]_vars =>
      /\ ManifestIsEntries'
      /\ \/ \E t \in Entries : tests' = Append(tests, t)
         \/ ~(Len(tests') > Len(tests))
<1>. SUFFICES ASSUME ManifestIsEntries, [Next]_vars
     PROVE  /\ ManifestIsEntries'
            /\ \/ \E t \in Entries : tests' = Append(tests, t)
               \/ ~(Len(tests') > Len(tests))
  OBVIOUS
<1>1. CASE Declare
  BY <1>1 DEF Declare, ManifestIsEntries
<1>2. CASE Withdraw
  <2>1. tests' = SubSeq(tests, 1, Len(tests) - 1) /\ tests # <<>>
    BY <1>2 DEF Withdraw, Front
  <2>. QED  BY <2>1, SubSeqProperties DEF ManifestIsEntries
<1>3. CASE SetField \/ UNCHANGED vars
  BY <1>3 DEF SetField, vars, ManifestIsEntries
<1>. QED  BY <1>1, <1>2, <1>3 DEF Next

\* For every schema, manifest and history of edits: an entry for a new field, without a
\* disposition, takes no leaf's credit away (ContainerClearCoverage of containerclear.go).
THEOREM CreditIsKeptAlways == Spec => CreditIsKept
<1>. DEFINE Kept ==
       (/\ Len(tests') > Len(tests) /\ EffectiveDisposition(Last(tests')) = "none"
        /\ \A i \in DOMAIN tests : tests[i].field # Last(tests').field
        /\ ~CoverageFails(tests', forProvider))
       => \A p \in DeclaredContainerLeaves : Credited(p, tests, forProvider) => Credited(p, tests', forProvider)
<1>1. ManifestIsEntries /\ [Next]_vars => [Kept]_vars
  <2>. SUFFICES ASSUME ManifestIsEntries, [Next]_vars, Len(tests') > Len(tests),
                       EffectiveDisposition(Last(tests')) = "none",
                       \A i \in DOMAIN tests : tests[i].field # Last(tests').field,
                       NEW p \in DeclaredContainerLeaves, Credited(p, tests, forProvider)
       PROVE  Credited(p, tests', forProvider)
    OBVIOUS
  <2>1. PICK t \in Entries : tests' = Append(tests, t)
    BY OneEntryAtATime
  <2>2. tests \in Seq(Entries) /\ Last(tests') = t
    BY <2>1 DEF ManifestIsEntries, Last
  <2>. QED  BY <2>1, <2>2, NewEntryKeepsCredit
<1>. QED  BY <1>1, ManifestHolds, OneEntryAtATime, PTL DEF Spec, CreditIsKept

-----------------------------------------------------------------------------
(***************************************************************************)
(* Container clears: a credited removal is one.                            *)
(***************************************************************************)
\* What it takes to see a removal at a path.
Removes(tree, patch, p) ==
  LET before == ValueAt(tree, p)
      after == ValueAt(MergePatch(tree, patch), p)
  IN ~(DOMAIN before \subseteq DOMAIN after /\ after[<<>>] = before[<<>>])

LEMMA MergedPaths ==
    ASSUME NEW tree, NEW patch, DOMAIN tree \subseteq Paths, DOMAIN patch \subseteq Paths
    PROVE  DOMAIN MergePatch(tree, patch) \subseteq Paths
BY MergePatchFacts

LEMMA GoneIsRemoved ==
    ASSUME NEW tree, NEW patch, DOMAIN tree \subseteq Paths, DOMAIN patch \subseteq Paths,
           NEW p \in Paths, NEW r \in Paths, p \o r \in DOMAIN tree, p \o r \notin DOMAIN MergePatch(tree, patch)
    PROVE  Removes(tree, patch, p)
<1>1. DOMAIN MergePatch(tree, patch) \subseteq Paths
  BY MergedPaths
<1>2. r \in DOMAIN ValueAt(tree, p)
  BY ValueAtFacts
<1>3. r \notin DOMAIN ValueAt(MergePatch(tree, patch), p)
  BY <1>1, ValueAtFacts
<1>. QED  BY <1>2, <1>3 DEF Removes

LEMMA ChangedIsRemoved ==
    ASSUME NEW tree, NEW patch, DOMAIN tree \subseteq Paths, DOMAIN patch \subseteq Paths,
           NEW p \in DOMAIN tree, p \in DOMAIN MergePatch(tree, patch), MergePatch(tree, patch)[p] # tree[p]
    PROVE  Removes(tree, patch, p)
<1>1. DOMAIN MergePatch(tree, patch) \subseteq Paths
  BY MergedPaths
<1>2. p \in Paths
  OBVIOUS
<1>3. ValueAt(tree, p)[<<>>] = tree[p]
  BY <1>2, RootOfValue
<1>4. ValueAt(MergePatch(tree, patch), p)[<<>>] = MergePatch(tree, patch)[p]
  BY <1>1, <1>2, RootOfValue
<1>. QED  BY <1>3, <1>4 DEF Removes

LEMMA PrefixOfJoin ==
    ASSUME NEW p \in Paths, NEW r \in Paths
    PROVE  IsPrefix(p, p \o r) /\ IsPrefix(p, p)
<1>1. IsPrefix(p, p)
  BY PrefixIsPointwise DEF Paths
<1>. QED  BY <1>1, JoinFacts

LEMMA OneLong ==
    ASSUME NEW S, NEW k \in S, NEW s \in Seq(S)
    PROVE  /\ <<k>> \in Seq(S) /\ Len(<<k>>) = 1 /\ <<k>>[1] = k
           /\ Append(s, k) \in Seq(S)
OBVIOUS

LEMMA AppendIsJoin ==
    ASSUME NEW p \in Paths, NEW k \in Names
    PROVE  <<k>> \in Paths /\ Append(p, k) = p \o <<k>> /\ Append(p, k) \in Paths
<1>1. <<k>> \in Paths
  BY OneLong DEF Paths
<1>2. Append(p, k) \in Paths
  BY OneLong DEF Paths
<1>3. Append(p, k) = p \o <<k>>
  BY AppendIsConcat DEF Paths
<1>. QED  BY <1>1, <1>2, <1>3

\* The patch sets null at a path, or something that is no object where there are members.
LEMMA NullRemoves ==
    ASSUME NEW tree, NEW patch, DOMAIN tree \subseteq Paths, DOMAIN patch \subseteq Paths,
           NEW p \in Paths, NEW c \in DOMAIN patch, c # <<>>, patch[c] # "obj",
           NEW r \in Paths, IsPrefix(c, p \o r), p \o r \in DOMAIN tree,
           p \o r \notin DOMAIN patch \/ patch[p \o r] = "null"
    PROVE  Removes(tree, patch, p)
<1>1. p \o r \notin DOMAIN MergePatch(tree, patch)
  BY MergePatchFacts
<1>. QED  BY <1>1, GoneIsRemoved

\* Members of an object, one name long.
LEMMA KeysFacts ==
    ASSUME NEW v, DOMAIN v \subseteq Paths, NEW k
    PROVE  k \in Keys(v, <<>>) <=> k \in Names /\ <<k>> \in DOMAIN v
<1>1. Len(<<>>) = 0 /\ <<>> \in Paths /\ \A q \in Paths : IsPrefix(<<>>, q)
  <2>. DEFINE e == <<>>
  <2>1. Len(e) = 0 /\ e \in Paths /\ \A q \in Paths : Len(q) \in Nat
    BY EmptySeq DEF Paths
  <2>. HIDE DEF e
  <2>2. \A q \in Paths : IsPrefix(e, q)
    BY <2>1, PrefixIsPointwise
  <2>. QED  BY <2>1, <2>2 DEF e
<1>2. ASSUME k \in Keys(v, <<>>)  PROVE k \in Names /\ <<k>> \in DOMAIN v
  <2>1. PICK q \in DOMAIN v : Len(q) = Len(<<>>) + 1 /\ k = Last(q)
    BY <1>2 DEF Keys
  <2>2. Len(q) = 1 /\ k = q[1]
    BY <1>1, <2>1 DEF Last
  <2>. QED  BY <2>1, <2>2, OneName
<1>3. ASSUME k \in Names, <<k>> \in DOMAIN v  PROVE k \in Keys(v, <<>>)
  <2>1. Len(<<k>>) = 1 /\ Last(<<k>>) = k
    BY DEF Last
  <2>2. Len(<<k>>) = Len(<<>>) + 1 /\ IsPrefix(<<>>, <<k>>)
    BY <1>1, <1>3, <2>1
  <2>. QED  BY <1>3, <2>1, <2>2 DEF Keys
<1>. QED  BY <1>2, <1>3

\* What the parser has accepted, of entries that the author may write.
LEMMA AcceptedEntry ==
    ASSUME ManifestIsEntries, Accepted, NEW t \in EntriesOf(tests)
    PROVE  /\ t \in Entries /\ Written(t)
           /\ entryCarriesTestedContent(t) => t \in Tested
<1>1. PICK i \in DOMAIN tests : t = tests[i]
  BY DEF EntriesOf
<1>2. t \in Entries
  BY <1>1, ElementOfSeq DEF ManifestIsEntries
<1>3. /\ t.field \in Paths \ {<<>>} /\ t.clear \subseteq Paths /\ DOMAIN t.with \subseteq Paths
      /\ DOMAIN t.value \subseteq Paths /\ \A s \in DOMAIN t.with : DOMAIN t.with[s] \subseteq Paths
  <2>1. /\ t.field \in Paths \ {<<>>} /\ t.clear \subseteq Paths /\ DOMAIN t.with \subseteq Paths
        /\ \A v \in {t.value, t.expect} \cup {t.with[s] : s \in DOMAIN t.with} : IsTree(v)
    <3>1. Seq(STRING) \subseteq Paths
      BY SeqMonotonic DEF Paths, Names
    <3>2. /\ t.field \in Seq(STRING) \ {<<>>} /\ t.clear \subseteq Seq(STRING) /\ DOMAIN t.with \subseteq Seq(STRING)
          /\ \A v \in {t.value, t.expect} \cup {t.with[s] : s \in DOMAIN t.with} : IsTree(v)
      BY <1>2, ValidateAssumption, Zenon
    <3>. QED  BY <3>1, <3>2
  <2>2. IsTree(t.value) /\ \A s \in DOMAIN t.with : IsTree(t.with[s])
    BY <2>1
  <2>3. \A v : IsTree(v) => DOMAIN v \subseteq Paths
    BY TreeFacts, Zenon
  <2>. QED  BY <2>1, <2>2, <2>3, Zenon
<1>5. <<>> \in DOMAIN t.value
  <2>1. IsTree(t.value) /\ t.value # Missing
    BY <1>2, ValidateAssumption
  <2>. QED  BY <2>1, TreeFacts
<1>4. ValidateClear(t) /\ ValidateWithValues(t) /\ ~(Skipped(t) /\ entryCarriesTestedContent(t))
  BY <1>1, Zenon DEF Accepted, ParseAnnotation, ValidateFieldEntryMix
<1>. QED  BY <1>2, <1>3, <1>4, <1>5, Zenon DEF Written, Tested

\* What the object on which credit is judged holds.
LEMMA FullFacts ==
    ASSUME ManifestIsEntries, Accepted
    PROVE  /\ DOMAIN Full \subseteq Paths
           /\ \A p \in DeclaredContainerLeaves :
                /\ p \in Paths \ {<<>>} /\ p \in DOMAIN Full
                /\ Full[p] = IF ShapeOfLeaf(p) = "list" THEN "arr" ELSE "obj"
                /\ \A k \in MembersOf(p) : k \in Names /\ p \o <<k>> \in DOMAIN Full
<1>. DEFINE leaves == DeclaredContainerLeaves
            members == UNION {{Append(p, k) : k \in MembersOf(p)} : p \in leaves}
            above == UNION {Above(p) : p \in leaves}
<1>1. Full = [q \in {<<>>} \cup above \cup leaves \cup members |->
                IF q \in leaves THEN IF ShapeOfLeaf(q) = "list" THEN "arr" ELSE "obj" ELSE IF q \in members THEN "x" ELSE "obj"]
  BY Zenon DEF Full
<1>2. \A p \in leaves : p \in Paths \ {<<>>}
  <2>1. DOMAIN Nodes \subseteq Paths
    BY ValidateAssumption, SeqMonotonic DEF Paths, Names
  <2>. QED  BY <2>1 DEF DeclaredContainerLeaves
<1>3. \A p \in leaves : \A k \in MembersOf(p) : k \in Names
  <2>. SUFFICES ASSUME NEW p \in leaves, NEW k \in MembersOf(p)  PROVE k \in Names
    OBVIOUS
  <2>1. CASE k \in {"0", "k"}
    <3>1. k = "0" \/ k = "k"
      BY <2>1
    <3>2. "0" \in Names /\ "k" \in Names
      BY DEF Names
    <3>. QED  BY <3>1, <3>2
  <2>2. CASE \E t \in EntriesOf(tests) : k \in Keys(t.value, <<>>)
    <3>1. PICK t \in EntriesOf(tests) : k \in Keys(t.value, <<>>)
      BY <2>2
    <3>2. DOMAIN t.value \subseteq Paths
      BY AcceptedEntry DEF Written
    <3>. QED  BY <3>1, <3>2, KeysFacts
  <2>3. MembersOf(p) \subseteq {"0", "k"} \cup UNION {Keys(t.value, <<>>) : t \in EntriesOf(tests)}
    BY DEF MembersOf
  <2>. QED  BY <2>1, <2>2, <2>3
<1>4. \A p \in leaves : \A k \in MembersOf(p) : Append(p, k) = p \o <<k>> /\ Append(p, k) \in Paths
  BY <1>2, <1>3, AppendIsJoin
<1>5. above \subseteq Paths
  BY <1>2, AboveFacts
<1>6. members \subseteq Paths
  <2>. SUFFICES ASSUME NEW q \in members  PROVE q \in Paths
    OBVIOUS
  <2>1. PICK p \in leaves : \E k \in MembersOf(p) : q = Append(p, k)
    BY Zenon
  <2>. QED  BY <1>4, <2>1
<1>7. \A p \in leaves : \A k \in MembersOf(p) : p \o <<k>> \in members
  BY <1>4
<1>8. <<>> \in Paths
  BY EmptySeq DEF Paths
<1>. HIDE DEF leaves, members, above
<1>9. DOMAIN Full \subseteq Paths
  BY <1>1, <1>2, <1>5, <1>6, <1>8
<1>10. \A p \in leaves : p \in DOMAIN Full /\ Full[p] = IF ShapeOfLeaf(p) = "list" THEN "arr" ELSE "obj"
  BY <1>1
<1>11. \A q \in members : q \in DOMAIN Full
  BY <1>1
<1>. QED  BY <1>2, <1>3, <1>7, <1>9, <1>10, <1>11, Zenon DEF leaves

LEMMA PatchPaths ==
    ASSUME NEW t, Written(t)
    PROVE  DOMAIN buildMergePatch(t) \subseteq Paths
<1>1. <<>> \in Paths
  BY EmptySeq DEF Paths
<1>. QED  BY <1>1, UnderOneName

\* Null in the patch takes the path away, and all that is below it.
LEMMA ClearTakesAway ==
    ASSUME NEW t, Written(t), NEW tree, DOMAIN tree \subseteq Paths,
           NEW c \in t.clear, NEW p \in DOMAIN tree, IsPrefix(c, p)
    PROVE  Removes(tree, buildMergePatch(t), p)
<1>1. c \in Paths \ {<<>>} /\ c \in DOMAIN buildMergePatch(t) /\ buildMergePatch(t)[c] = "null"
  <2>1. c \in Paths \ {<<>>}
    BY TopsOfPatch
  <2>2. /\ DOMAIN buildMergePatch(t) = Body(t) \cup t.clear \cup Siblings(t)
        /\ \A b \in t.clear : buildMergePatch(t)[b] = "null"
    BY PatchFacts
  <2>. QED  BY <2>1, <2>2
<1>2. <<>> \in Paths /\ p \o <<>> = p /\ p \in Paths
  BY AtRoot
<1>3. p # <<>> /\ p[1] = c[1]
  <2>1. Len(c) \in Nat \ {0} /\ 1 \in 1..Len(c)
    BY <1>1, NonEmpty
  <2>2. Len(c) <= Len(p) /\ \A i \in 1..Len(c) : c[i] = p[i]
    BY <1>1, <1>2, PrefixIsPointwise
  <2>3. Len(<<>>) = 0
    OBVIOUS
  <2>. QED  BY <2>1, <2>2, <2>3
<1>4. p \notin DOMAIN buildMergePatch(t) \/ buildMergePatch(t)[p] = "null"
  BY <1>1, <1>3, UnderOneName
<1>5. DOMAIN buildMergePatch(t) \subseteq Paths
  BY PatchPaths
<1>. DEFINE e == <<>>
<1>6. e \in Paths /\ p \o e = p
  BY <1>2
<1>. HIDE DEF e
<1>7. c # <<>> /\ buildMergePatch(t)[c] # "obj"
  BY <1>1
<1>. QED  BY <1>1, <1>2, <1>4, <1>5, <1>6, <1>7, NullRemoves

\* An empty list in the patch leaves the list without its elements.
LEMMA EmptyListTakesAway ==
    ASSUME NEW t, Written(t), NEW tree, DOMAIN tree \subseteq Paths,
           NEW p \in DOMAIN t.with, t.with[p] = [q \in {<<>>} |-> "arr"], NEW k \in Names, p \o <<k>> \in DOMAIN tree
    PROVE  Removes(tree, buildMergePatch(t), p)
<1>. DEFINE e == <<>>
<1>1. p \in Paths \ {<<>>} /\ \A q \in DOMAIN buildMergePatch(t) : q # <<>> /\ q[1] = p[1] => \E r \in DOMAIN t.with[p] : q = p \o r
  BY TopsOfPatch, UnderOneName, OneName
<1>2. e \in Paths /\ p \o e = p
  BY <1>1, AtRoot
<1>8. t.with[p] = [q \in {e} |-> "arr"]
  OBVIOUS
<1>3. DOMAIN t.with[p] = {e} /\ e \in DOMAIN t.with[p] /\ t.with[p][e] = "arr"
  OBVIOUS
<1>4. p \in DOMAIN buildMergePatch(t) /\ buildMergePatch(t)[p] = "arr"
  <2>1. p \o e \in Siblings(t)
    <3>. HIDE DEF e
    <3>1. p \o e \in {p \o r : r \in DOMAIN t.with[p]}
      BY <1>3
    <3>. QED  BY <3>1 DEF Siblings
  <2>2. buildMergePatch(t)[p \o e] = t.with[p][e]
    <3>1. \A r \in DOMAIN t.with[p] : buildMergePatch(t)[p \o r] = t.with[p][r]
      BY PatchFacts
    <3>. HIDE DEF e
    <3>. QED  BY <1>3, <3>1
  <2>3. DOMAIN buildMergePatch(t) = Body(t) \cup t.clear \cup Siblings(t)
    BY PatchFacts
  <2>. QED  BY <1>2, <1>3, <2>1, <2>2, <2>3
<1>5. <<k>> \in Paths /\ IsPrefix(p, p \o <<k>>) /\ (p \o <<k>>)[1] = p[1] /\ p \o <<k>> # <<>> /\ p \o <<k>> # p
  <2>1. <<k>> \in Paths /\ Len(<<k>>) = 1
    BY OneLong DEF Paths
  <2>2. Len(p \o <<k>>) = Len(p) + 1 /\ Len(p) \in Nat
    BY <1>1, <2>1, JoinFacts DEF Paths
  <2>3. p \o <<k>> # p
    BY <2>2
  <2>. QED  BY <1>1, <2>1, <2>3, PrefixOfJoin, FirstOfJoin
<1>6. p \o <<k>> \notin DOMAIN buildMergePatch(t)
  BY <1>1, <1>2, <1>3, <1>5
<1>7. DOMAIN buildMergePatch(t) \subseteq Paths
  BY PatchPaths
<1>. QED  BY <1>1, <1>4, <1>5, <1>6, <1>7, NullRemoves

\* An entry that puts null, or an empty list, in place of a list takes its element away.
LEMMA OwnTombstone ==
    ASSUME NEW t, Written(t), NEW tree, DOMAIN tree \subseteq Paths, DOMAIN t.value = {<<>>},
           \/ t.value[<<>>] = "null" /\ t.field \in DOMAIN tree
           \/ t.value[<<>>] = "arr" /\ \E k \in Names : t.field \o <<k>> \in DOMAIN tree
    PROVE  Removes(tree, buildMergePatch(t), t.field)
<1>. DEFINE e == <<>>
            patch == buildMergePatch(t)
            p == t.field
<1>1. p \in Paths \ {<<>>} /\ e \in Paths /\ p \o e = p
  BY AtRoot DEF Written
<1>2. p \in DOMAIN patch /\ patch[p] = t.value[e]
  <2>1. /\ DOMAIN patch = Body(t) \cup t.clear \cup Siblings(t)
        /\ \A r \in DOMAIN t.value : patch[p \o r] = t.value[r]
    BY PatchFacts
  <2>2. e \in DOMAIN t.value
    OBVIOUS
  <2>. HIDE DEF e
  <2>3. p \o e \in Body(t)
    BY <2>2 DEF Body
  <2>. QED  BY <1>1, <2>1, <2>2, <2>3
<1>3. DOMAIN patch \subseteq Paths /\ IsPrefix(p, p)
  BY <1>1, PatchPaths, PrefixOfJoin
<1>4. CASE t.value[e] = "null" /\ p \in DOMAIN tree
  <2>. HIDE DEF e
  <2>. QED  BY <1>1, <1>2, <1>3, <1>4, NullRemoves
<1>5. CASE t.value[e] = "arr" /\ \E k \in Names : p \o <<k>> \in DOMAIN tree
  <2>1. PICK k \in Names : p \o <<k>> \in DOMAIN tree
    BY <1>5
  <2>2. <<k>> \in Paths /\ Len(<<k>>) = 1
    BY OneLong DEF Paths
  <2>3. /\ IsPrefix(p, p \o <<k>>) /\ p \o <<k>> \in Paths /\ (p \o <<k>>)[1] = p[1] /\ p \o <<k>> # <<>>
        /\ Len(p \o <<k>>) = Len(p) + 1 /\ Len(p) \in Nat
    <3>1. Len(p \o <<k>>) = Len(p) + Len(<<k>>) /\ Len(p) \in Nat
      BY <1>1, <2>2, JoinFacts DEF Paths
    <3>. QED  BY <1>1, <2>2, <3>1, PrefixOfJoin, FirstOfJoin
  <2>4. p \o <<k>> \notin DOMAIN patch
    <3>1. SUFFICES ASSUME p \o <<k>> \in DOMAIN patch  PROVE FALSE
      OBVIOUS
    <3>2. p \o <<k>> \in Body(t)
      BY <2>3, <3>1, UnderOneName
    <3>3. p \o <<k>> \notin Above(p)
      <4>1. p \in Paths /\ ~(Len(p \o <<k>>) < Len(p))
        BY <1>1, <2>3
      <4>. HIDE DEF p
      <4>. QED  BY <4>1, AboveFacts
    <3>4. p \o <<k>> \in {p \o r : r \in DOMAIN t.value}
      BY <3>2, <3>3 DEF Body
    <3>5. p \o <<k>> = p \o e
      BY <3>4
    <3>. HIDE DEF e
    <3>6. p \o <<k>> = p
      BY <1>1, <3>5
    <3>. QED  BY <2>3, <3>6
  <2>. HIDE DEF e
  <2>. QED  BY <1>1, <1>2, <1>3, <1>5, <2>1, <2>2, <2>3, <2>4, NullRemoves
<1>. QED  BY <1>4, <1>5

\* An entry that puts null for a member takes it from a map, and the elements from a list.
LEMMA OwnNullMember ==
    ASSUME NEW t, Written(t), NEW tree, DOMAIN tree \subseteq Paths, IsObject(t.value),
           NEW k \in Keys(t.value, <<>>), t.value[<<k>>] = "null", t.field \in DOMAIN tree,
           tree[t.field] = "arr" \/ (tree[t.field] = "obj" /\ t.field \o <<k>> \in DOMAIN tree)
    PROVE  Removes(tree, buildMergePatch(t), t.field)
<1>. DEFINE e == <<>>
            patch == buildMergePatch(t)
            p == t.field
<1>1. p \in Paths \ {<<>>} /\ e \in Paths /\ p \o e = p
  BY AtRoot DEF Written
<1>2. k \in Names /\ <<k>> \in DOMAIN t.value /\ <<k>> \in Paths
  BY KeysFacts DEF Written
<1>3. \A r \in DOMAIN t.value : p \o r \in DOMAIN patch /\ patch[p \o r] = t.value[r]
  <2>1. /\ DOMAIN patch = Body(t) \cup t.clear \cup Siblings(t)
        /\ \A r \in DOMAIN t.value : patch[p \o r] = t.value[r]
    BY PatchFacts
  <2>. QED  BY <2>1 DEF Body
<1>4. e \in DOMAIN t.value /\ t.value[e] = "obj"
  BY DEF Written, IsObject
<1>. HIDE DEF e
<1>5. p \in DOMAIN patch /\ patch[p] = "obj"
  BY <1>1, <1>3, <1>4
<1>6. DOMAIN patch \subseteq Paths
  BY PatchPaths
<1>7. CASE tree[p] = "arr"
  <2>1. p \in DOMAIN MergePatch(tree, patch) /\ MergePatch(tree, patch)[p] = "obj"
    BY <1>1, <1>5, MergePatchFacts
  <2>. QED  BY <1>6, <1>7, <2>1, ChangedIsRemoved
<1>8. CASE tree[p] = "obj" /\ p \o <<k>> \in DOMAIN tree
  <2>1. p \o <<k>> \in DOMAIN patch /\ patch[p \o <<k>>] = "null" /\ p \o <<k>> # <<>> /\ p \o <<k>> \in Paths
    BY <1>1, <1>2, <1>3, FirstOfJoin
  <2>2. IsPrefix(p \o <<k>>, p \o <<k>>)
    BY <2>1, PrefixOfJoin
  <2>. QED  BY <1>1, <1>2, <1>6, <1>8, <2>1, <2>2, NullRemoves
<1>. QED  BY <1>7, <1>8

\* Each route ends in a removal.
LEMMA CoveredIsRemoved ==
    ASSUME ManifestIsEntries, Accepted, NEW p \in DeclaredContainerLeaves, Covers(p, tests)
    PROVE  \E t \in Tested : Removes(Full, buildMergePatch(t), p)
<1>1. /\ DOMAIN Full \subseteq Paths /\ p \in Paths \ {<<>>} /\ p \in DOMAIN Full
      /\ Full[p] = IF ShapeOfLeaf(p) = "list" THEN "arr" ELSE "obj"
      /\ \A k \in MembersOf(p) : k \in Names /\ p \o <<k>> \in DOMAIN Full
  BY FullFacts
<1>2. ASSUME ShapeOfLeaf(p) = "list"  PROVE "0" \in Names /\ p \o <<"0">> \in DOMAIN Full
  <2>1. "0" \in MembersOf(p)
    BY <1>2 DEF MembersOf
  <2>. QED  BY <1>1, <2>1
<1>3. \A t \in EntriesOf(tests) : Written(t) /\ (entryCarriesTestedContent(t) => t \in Tested)
  BY AcceptedEntry
<1>4. ASSUME NEW t \in EntriesOf(tests), NEW c \in t.clear, c = p \/ IsStrictPrefix(c, p)
      PROVE  t \in Tested /\ Removes(Full, buildMergePatch(t), p)
  <2>1. IsPrefix(c, p)
    BY <1>1, <1>4, PrefixOfJoin DEF IsStrictPrefix
  <2>2. t \in Tested
    BY <1>3, <1>4 DEF entryCarriesTestedContent
  <2>. QED  BY <1>1, <1>3, <1>4, <2>1, <2>2, ClearTakesAway
<1>5. ASSUME ShapeOfLeaf(p) = "list", NEW t \in EntriesOf(tests), p \in DOMAIN t.with, t.with[p] = [q \in {<<>>} |-> "arr"]
      PROVE  t \in Tested /\ Removes(Full, buildMergePatch(t), p)
  <2>1. t.with # Missing
    BY <1>5 DEF Missing
  <2>2. t \in Tested
    BY <1>3, <1>5, <2>1 DEF entryCarriesTestedContent
  <2>. QED  BY <1>1, <1>2, <1>3, <1>5, <2>2, EmptyListTakesAway
<1>6. ASSUME NEW t \in EntriesOf(tests), t.field = p, hasNestedNullMember(t.value)
      PROVE  t \in Tested /\ Removes(Full, buildMergePatch(t), p)
  <2>1. PICK k \in Keys(t.value, <<>>) : t.value[<<k>>] = "null"
    BY <1>6 DEF hasNestedNullMember
  <2>2. IsObject(t.value) /\ t.value # Nil
    BY <1>6 DEF hasNestedNullMember, IsObject, Nil
  <2>3. t \in Tested
    BY <1>3, <1>6, <2>2 DEF entryCarriesTestedContent
  <2>4. Full[p] = "arr" \/ (Full[p] = "obj" /\ p \o <<k>> \in DOMAIN Full)
    <3>1. CASE ShapeOfLeaf(p) = "list"
      BY <1>1, <3>1
    <3>2. CASE ShapeOfLeaf(p) # "list"
      <4>1. k \in MembersOf(p)
        BY <1>6, <2>1, <3>2 DEF MembersOf
      <4>. QED  BY <1>1, <3>2, <4>1
    <3>. QED  BY <3>1, <3>2
  <2>. QED  BY <1>1, <1>3, <1>6, <2>1, <2>2, <2>3, <2>4, OwnNullMember
<1>7. ASSUME NEW t \in selfByField(tests, p), selfTombstoned(t, ShapeOfLeaf(p))
      PROVE  t \in Tested /\ Removes(Full, buildMergePatch(t), p)
  <2>1. t \in EntriesOf(tests) /\ t.field = p
    BY DEF selfByField, EntriesOf
  <2>2. \/ t.value = Nil /\ t.explicit
        \/ ShapeOfLeaf(p) = "list" /\ t.value = [q \in {<<>>} |-> "arr"]
    BY <1>7 DEF selfTombstoned
  <2>3. DOMAIN t.value = {<<>>} /\ (t.value[<<>>] = "null" \/ (ShapeOfLeaf(p) = "list" /\ t.value[<<>>] = "arr" /\ t.value # Nil))
    BY <2>2 DEF Nil
  <2>4. t \in Tested
    BY <1>3, <2>1, <2>2, <2>3 DEF entryCarriesTestedContent
  <2>. QED  BY <1>1, <1>2, <1>3, <2>1, <2>3, <2>4, OwnTombstone
<1>. QED  BY <1>4, <1>5, <1>6, <1>7, Routes

\* For every schema, manifest and history of edits: a leaf that ContainerClearCoverage
\* counts as covered does lose its value, or a member, by the patch of an entry that runs.
THEOREM CreditIsRealAlways == Spec => []CreditIsReal
<1>1. ManifestIsEntries => CreditIsReal
  <2>. SUFFICES ASSUME ManifestIsEntries, Accepted,
                       NEW f \in ContainerClearCoverage(tests, forProvider), f.covered
       PROVE  \E t \in Tested : Removes(Full, buildMergePatch(t), f.path)
    BY Zenon DEF CreditIsReal, Removes
  <2>1. PICK p \in DeclaredContainerLeaves :
          f = ContainerClearFinding(p, ineligible(p, tests, forProvider), coverageFor(p, tests), dispositionFor(p, tests))
    BY DEF ContainerClearCoverage
  <2>2. f.path = p /\ coverageFor(p, tests) # "none"
    BY <2>1 DEF ContainerClearFinding
  <2>. QED  BY <2>2, CoveredIsRemoved DEF Covers
<1>. QED  BY <1>1, ManifestHolds, OneEntryAtATime, PTL DEF Spec

-----------------------------------------------------------------------------
(***************************************************************************)
(* What the entries before one leave of its field.                         *)
(***************************************************************************)
LEMMA NatInd ==
    ASSUME NEW S, 0 \in S, \A n \in Nat : n \in S => n + 1 \in S
    PROVE  Nat \subseteq S
<1>. DEFINE R == OpToRel(<, Nat)
            T == Nat \ S
<1>1. SUFFICES ASSUME T # {}  PROVE FALSE
  OBVIOUS
<1>2. IsWellFoundedOn(R, Nat)
  BY NatLessThanWellFounded
<1>3. T \subseteq Nat
  OBVIOUS
<1>. HIDE DEF T, R
<1>4. PICK x \in T : \A y \in T : ~(<<y, x>> \in R)
  BY <1>1, <1>2, <1>3, WFMin
<1>5. x \in Nat /\ x \notin S /\ x # 0
  BY DEF T
<1>6. x - 1 \in Nat /\ x - 1 < x /\ x = (x - 1) + 1
  BY <1>5
<1>7. <<x - 1, x>> \in R
  BY <1>5, <1>6 DEF R, OpToRel
<1>8. x - 1 \in S
  BY <1>4, <1>6, <1>7 DEF T
<1>. QED  BY <1>5, <1>6, <1>8

\* Before is what its definition says: the objects up to the n-th entry exist for every n.
LEMMA BeforeDef ==
    ASSUME ManifestIsEntries
    PROVE  \A i \in 1..(Len(tests) + 1) :
             Before[i] = IF i = 1 THEN forProvider ELSE Apply(Before[i - 1], tests[i - 1])
<1>. DEFINE I(n) == 1..n
            Is(g, n) == g = [i \in I(n) |-> IF i = 1 THEN forProvider ELSE Apply(g[i - 1], tests[i - 1])]
            S == {n \in Nat : \E g : Is(g, n)}
<1>1. 0 \in S
  <2>1. I(0) = {}
    OBVIOUS
  <2>. DEFINE g == [i \in {} |-> forProvider]
  <2>2. g = [i \in I(0) |-> IF i = 1 THEN forProvider ELSE Apply(g[i - 1], tests[i - 1])]
    BY <2>1
  <2>. QED  BY <2>2
<1>2. ASSUME NEW n \in Nat, n \in S  PROVE n + 1 \in S
  <2>1. PICK g : Is(g, n)
    BY <1>2
  <2>. DEFINE h == [i \in I(n + 1) |-> IF i = 1 THEN forProvider ELSE Apply(g[i - 1], tests[i - 1])]
  <2>2. \A i \in I(n) : g[i] = h[i]
    BY <2>1
  <2>3. \A i \in I(n + 1) : i # 1 => i - 1 \in I(n)
    OBVIOUS
  <2>4. \A i \in I(n + 1) : i # 1 => Apply(g[i - 1], tests[i - 1]) = Apply(h[i - 1], tests[i - 1])
    BY <2>2, <2>3, Zenon
  <2>5. \A i \in I(n + 1) : h[i] = IF i = 1 THEN forProvider ELSE Apply(h[i - 1], tests[i - 1])
    BY <2>4
  <2>6. Is(h, n + 1)
    <3>. DEFINE k == [i \in I(n + 1) |-> IF i = 1 THEN forProvider ELSE Apply(h[i - 1], tests[i - 1])]
    <3>1. DOMAIN h = I(n + 1) /\ DOMAIN k = I(n + 1) /\ h = [i \in DOMAIN h |-> h[i]] /\ k = [i \in DOMAIN k |-> k[i]]
      OBVIOUS
    <3>2. \A i \in I(n + 1) : h[i] = k[i]
      BY <2>5
    <3>. HIDE DEF h, k
    <3>3. h = k
      BY <3>1, <3>2
    <3>. QED  BY <3>3 DEF k
  <2>. HIDE DEF h, Is
  <2>7. \E g2 : Is(g2, n + 1)
    BY <2>6
  <2>. QED  BY <2>7
<1>3. Len(tests) + 1 \in Nat
  BY DEF ManifestIsEntries
<1>. HIDE DEF S
<1>4. Len(tests) + 1 \in S
  BY <1>1, <1>2, <1>3, NatInd
<1>5. \E g : Is(g, Len(tests) + 1)
  BY <1>4 DEF S
<1>6. Before = CHOOSE g : Is(g, Len(tests) + 1)
  BY DEF Before
<1>7. Is(Before, Len(tests) + 1)
  BY <1>5, <1>6
<1>. QED  BY <1>7

\* A patch leaves alone what is under names it does not touch.
LEMMA PatchKeeps ==
    ASSUME NEW t, Written(t), NEW tree, DOMAIN tree \subseteq Paths,
           NEW q \in Paths \ {<<>>}, q[1] \notin Touches(t)
    PROVE  LET m == MergePatch(tree, buildMergePatch(t))
           IN (q \in DOMAIN m <=> q \in DOMAIN tree) /\ (q \in DOMAIN tree => m[q] = tree[q])
<1>. DEFINE patch == buildMergePatch(t)
<1>1. \A r \in DOMAIN patch : r # <<>> => r \in Paths /\ r[1] \in Touches(t)
  <2>. SUFFICES ASSUME NEW r \in DOMAIN patch, r # <<>>  PROVE r \in Paths /\ r[1] \in Touches(t)
    OBVIOUS
  <2>1. r \in Paths
    BY UnderOneName
  <2>2. DOMAIN patch = Body(t) \cup t.clear \cup Siblings(t)
    BY PatchFacts
  <2>3. CASE r \in Body(t)
    <3>1. r[1] = t.field[1]
      BY <2>3, TopsOfPatch
    <3>. QED  BY <2>1, <3>1 DEF Touches, top
  <2>4. CASE r \in t.clear
    BY <2>1, <2>4 DEF Touches, top
  <2>5. CASE r \in Siblings(t)
    <3>1. PICK s \in DOMAIN t.with : \E x \in DOMAIN t.with[s] : r = s \o x
      BY <2>5 DEF Siblings
    <3>2. r[1] = s[1]
      BY <3>1, TopsOfPatch
    <3>. QED  BY <2>1, <3>2 DEF Touches, top
  <2>. QED  BY <2>2, <2>3, <2>4, <2>5
<1>2. q \notin DOMAIN patch
  BY <1>1
<1>3. ASSUME NEW r \in DOMAIN patch, r # <<>>, IsPrefix(r, q)  PROVE FALSE
  <2>1. r \in Paths /\ r[1] \in Touches(t)
    BY <1>1, <1>3
  <2>2. r[1] = q[1]
    BY <1>3, <2>1, NonEmpty, PrefixIsPointwise
  <2>. QED  BY <2>1, <2>2
<1>. HIDE DEF patch
<1>4. q \in DOMAIN MergePatch(tree, patch) <=> q \in DOMAIN tree
  BY <1>2, <1>3, MergePatchFacts
<1>5. q \in DOMAIN tree => MergePatch(tree, patch)[q] = tree[q]
  BY <1>2, <1>4, MergePatchFacts
<1>. QED  BY <1>4, <1>5 DEF patch

LEMMA ApplyKeeps ==
    ASSUME NEW t, Written(t), NEW tree, DOMAIN tree \subseteq Paths
    PROVE  /\ DOMAIN Apply(tree, t) \subseteq Paths
           /\ \A q \in Paths \ {<<>>} : ~Skipped(t) /\ q[1] \notin Touches(t) =>
                (q \in DOMAIN Apply(tree, t) <=> q \in DOMAIN tree) /\ (q \in DOMAIN tree => Apply(tree, t)[q] = tree[q])
           /\ Skipped(t) => Apply(tree, t) = tree
<1>1. DOMAIN MergePatch(tree, buildMergePatch(t)) \subseteq Paths
  BY PatchPaths, MergedPaths
<1>2. \/ Apply(tree, t) = tree
      \/ ~Skipped(t) /\ Apply(tree, t) = MergePatch(tree, buildMergePatch(t))
  BY DEF Apply
<1>3. CASE Apply(tree, t) = tree
  BY <1>3
<1>4. CASE ~Skipped(t) /\ Apply(tree, t) = MergePatch(tree, buildMergePatch(t))
  BY <1>1, <1>4, PatchKeeps
<1>. QED  BY <1>2, <1>3, <1>4

\* The object is one of paths.
ObjectIsPaths == DOMAIN forProvider \subseteq Paths

LEMMA SameBelow ==
    ASSUME NEW x, NEW y, DOMAIN x \subseteq Paths, DOMAIN y \subseteq Paths, NEW p \in Paths,
           \A r \in Paths : (p \o r \in DOMAIN x <=> p \o r \in DOMAIN y) /\ (p \o r \in DOMAIN y => x[p \o r] = y[p \o r])
    PROVE  ValueAt(x, p) = ValueAt(y, p)
<1>. DEFINE a == ValueAt(x, p)
            b == ValueAt(y, p)
<1>1. DOMAIN a \subseteq Paths /\ DOMAIN b \subseteq Paths
  BY ValueAtFacts
<1>2. \A r \in Paths : r \in DOMAIN a <=> p \o r \in DOMAIN x
  BY ValueAtFacts
<1>3. \A r \in Paths : r \in DOMAIN b <=> p \o r \in DOMAIN y
  BY ValueAtFacts
<1>4. \A r \in DOMAIN a : a[r] = x[p \o r]
  BY ValueAtFacts
<1>5. \A r \in DOMAIN b : b[r] = y[p \o r]
  BY ValueAtFacts
<1>6. a = [r \in DOMAIN a |-> a[r]] /\ b = [r \in DOMAIN b |-> b[r]]
  BY DEF ValueAt
<1>. HIDE DEF a, b
<1>7. DOMAIN a = DOMAIN b
  BY <1>1, <1>2, <1>3
<1>8. \A r \in DOMAIN a : a[r] = b[r]
  BY <1>1, <1>2, <1>4, <1>5, <1>7
<1>9. a = b
  BY <1>6, <1>7, <1>8
<1>. QED  BY <1>9 DEF a, b

LEMMA BeforePaths ==
    ASSUME ManifestIsEntries, Accepted, ObjectIsPaths
    PROVE  \A i \in 1..(Len(tests) + 1) : DOMAIN Before[i] \subseteq Paths
<1>. DEFINE S == {n \in Nat : n + 1 \in 1..(Len(tests) + 1) => DOMAIN Before[n + 1] \subseteq Paths}
<1>1. Len(tests) \in Nat /\ \A i \in 1..Len(tests) : tests[i] \in EntriesOf(tests)
  BY DEF ManifestIsEntries, EntriesOf
<1>2. 0 \in S
  <2>1. Before[0 + 1] = forProvider
    BY <1>1, BeforeDef
  <2>. QED  BY <2>1 DEF ObjectIsPaths
<1>3. ASSUME NEW n \in Nat, n \in S  PROVE n + 1 \in S
  <2>. SUFFICES ASSUME n + 2 \in 1..(Len(tests) + 1)  PROVE DOMAIN Before[n + 2] \subseteq Paths
    OBVIOUS
  <2>1. n + 1 \in 1..(Len(tests) + 1) /\ n + 1 \in 1..Len(tests) /\ n + 2 # 1 /\ n + 2 - 1 = n + 1
    BY <1>1
  <2>2. DOMAIN Before[n + 1] \subseteq Paths
    BY <1>3, <2>1
  <2>3. Before[n + 2] = Apply(Before[n + 1], tests[n + 1])
    BY <2>1, BeforeDef
  <2>4. Written(tests[n + 1])
    BY <1>1, <2>1, AcceptedEntry
  <2>. QED  BY <2>2, <2>3, <2>4, ApplyKeeps
<1>. HIDE DEF S
<1>4. Nat \subseteq S
  BY <1>2, <1>3, NatInd
<1>5. ASSUME NEW i \in 1..(Len(tests) + 1)  PROVE DOMAIN Before[i] \subseteq Paths
  <2>1. i - 1 \in Nat /\ (i - 1) + 1 = i
    BY <1>1
  <2>2. i - 1 \in S
    BY <1>4, <2>1
  <2>. QED  BY <2>1, <2>2 DEF S
<1>. QED  BY <1>5

\* The first entry that touches a field finds it as the author left it.
LEMMA FirstTouchFindsIt ==
    ASSUME ManifestIsEntries, Accepted, ObjectIsPaths, NEW i \in DOMAIN tests, FirstTouch(i)
    PROVE  ValueAt(Before[i], tests[i].field) = ValueAt(forProvider, tests[i].field)
<1>. DEFINE f == tests[i].field
            Same(x) == \A r \in Paths : /\ f \o r \in DOMAIN x <=> f \o r \in DOMAIN forProvider
                                        /\ f \o r \in DOMAIN forProvider => x[f \o r] = forProvider[f \o r]
            S == {n \in Nat : n + 1 \in 1..i => Same(Before[n + 1])}
<1>1. Len(tests) \in Nat /\ i \in 1..Len(tests) /\ \A j \in 1..Len(tests) : tests[j] \in EntriesOf(tests)
  BY DEF ManifestIsEntries, EntriesOf
<1>2. \A j \in 1..Len(tests) : Written(tests[j])
  BY <1>1, AcceptedEntry
<1>3. f \in Paths \ {<<>>}
  BY <1>1, <1>2 DEF Written
<1>4. \A r \in Paths : f \o r \in Paths \ {<<>>} /\ (f \o r)[1] = f[1]
  BY <1>3, FirstOfJoin
<1>5. 0 \in S
  <2>1. Before[0 + 1] = forProvider
    BY <1>1, BeforeDef
  <2>. QED  BY <2>1
<1>6. ASSUME NEW n \in Nat, n \in S  PROVE n + 1 \in S
  <2>. SUFFICES ASSUME n + 2 \in 1..i  PROVE Same(Before[n + 2])
    OBVIOUS
  <2>1. /\ n + 1 \in 1..i /\ n + 1 \in 1..Len(tests) /\ n + 1 \in 1..(i - 1) /\ n + 2 \in 1..(Len(tests) + 1)
        /\ n + 1 \in 1..(Len(tests) + 1) /\ n + 2 # 1 /\ n + 2 - 1 = n + 1
    BY <1>1
  <2>. DEFINE x == Before[n + 1]
              t == tests[n + 1]
  <2>2. Same(x)
    BY <1>6, <2>1
  <2>3. Before[n + 2] = Apply(x, t)
    BY <2>1, BeforeDef
  <2>4. Written(t) /\ DOMAIN x \subseteq Paths
    BY <1>2, <2>1, BeforePaths
  <2>5. ~Skipped(t) => f[1] \notin Touches(t)
    BY <2>1 DEF FirstTouch, top
  <2>. HIDE DEF x, t
  <2>6. CASE Skipped(t)
    <3>1. Apply(x, t) = x
      BY <2>4, <2>6, ApplyKeeps
    <3>. QED  BY <2>2, <2>3, <3>1
  <2>7. CASE ~Skipped(t)
    <3>1. \A q \in Paths \ {<<>>} : q[1] = f[1] =>
            (q \in DOMAIN Apply(x, t) <=> q \in DOMAIN x) /\ (q \in DOMAIN x => Apply(x, t)[q] = x[q])
      BY <2>4, <2>5, <2>7, ApplyKeeps
    <3>2. \A r \in Paths : (f \o r \in DOMAIN Apply(x, t) <=> f \o r \in DOMAIN x) /\ (f \o r \in DOMAIN x => Apply(x, t)[f \o r] = x[f \o r])
      BY <1>4, <3>1
    <3>. QED  BY <2>2, <2>3, <3>2
  <2>. QED  BY <2>6, <2>7
<1>. HIDE DEF S, Same
<1>7. Nat \subseteq S
  BY <1>5, <1>6, NatInd
<1>8. i - 1 \in S /\ (i - 1) + 1 = i /\ i \in 1..i /\ i \in 1..(Len(tests) + 1)
  BY <1>1, <1>7
<1>9. Same(Before[i])
  BY <1>8 DEF S
<1>10. DOMAIN Before[i] \subseteq Paths
  BY <1>8, BeforePaths
<1>. QED  BY <1>3, <1>9, <1>10, SameBelow DEF Same, ObjectIsPaths

\* A no-op that validate reports is skipped as one.
LEMMA NoOpIsReal ==
    ASSUME ManifestIsEntries, Accepted, ObjectIsPaths, NEW i \in DOMAIN tests, CheckGuaranteedNoOp(i), tests[i].value # Nil
    PROVE  NoOp(tests[i], Before[i])
<1>1. FirstTouch(i) /\ ValueAt(forProvider, tests[i].field) = tests[i].value
  BY DEF CheckGuaranteedNoOp, guaranteedNoOpEqual
<1>2. ValueAt(Before[i], tests[i].field) = tests[i].value
  BY <1>1, FirstTouchFindsIt
<1>3. tests[i].value # Missing
  <2>1. tests[i] \in EntriesOf(tests)
    BY DEF EntriesOf
  <2>. QED  BY <2>1, AcceptedEntry, ValidateAssumption DEF Written
<1>4. readCurrentValue(Before[i], tests[i].field) = tests[i].value
  BY <1>2, <1>3 DEF readCurrentValue, HeldIn
<1>. QED  BY <1>4 DEF NoOp, jsonEqual

-----------------------------------------------------------------------------
(***************************************************************************)
(* What it takes for an entry to match.                                    *)
(***************************************************************************)
\* Prefixes and the next name, whatever the names.
LEMMA PrefixPointwise ==
    ASSUME NEW S, NEW p \in Seq(S), NEW q \in Seq(S)
    PROVE  IsPrefix(p, q) <=> Len(p) <= Len(q) /\ \A i \in 1..Len(p) : p[i] = q[i]
<1>1. Len(p) \in Nat /\ Len(q) \in Nat /\ SubSeq(p, 1, Len(p)) = p
  OBVIOUS
<1>2. ASSUME Len(p) <= Len(q)
      PROVE  (p = SubSeq(q, 1, Len(p))) <=> (\A i \in 1..Len(p) : p[i] = q[i])
  <2>. DEFINE s == SubSeq(q, 1, Len(p))
  <2>1. s \in Seq(S) /\ Len(s) = Len(p) /\ \A i \in 1..Len(p) : s[i] = q[i]
    BY <1>1, <1>2
  <2>2. (p = s) <=> (Len(p) = Len(s) /\ \A i \in 1..Len(p) : p[i] = s[i])
    BY <2>1, SeqEqual
  <2>. QED  BY <2>1, <2>2
<1>. QED  BY <1>1, <1>2 DEF IsPrefix

LEMMA NextName ==
    ASSUME NEW q \in Paths, NEW k
    PROVE  LET r == Append(q, k)
           IN /\ Len(r) = Len(q) + 1 /\ Len(q) \in Nat /\ r[Len(q) + 1] = k /\ Last(r) = k
              /\ \A i \in 1..Len(q) : r[i] = q[i]
              /\ IsStrictPrefix(q, r) /\ r # <<>>
              /\ \A o \in Paths : IsStrictPrefix(o, r) => IsPrefix(o, q) /\ Len(o) <= Len(q)
              /\ r \in Paths => k \in Names /\ r = q \o <<k>>
<1>. DEFINE S == Names \cup {k}
            r == Append(q, k)
<1>1. q \in Seq(S) /\ k \in S /\ Paths \subseteq Seq(S)
  BY SeqMonotonic DEF Paths
<1>. HIDE DEF S
<1>2. /\ r \in Seq(S) /\ Len(r) = Len(q) + 1 /\ Len(q) \in Nat /\ r[Len(q) + 1] = k
      /\ \A i \in 1..Len(q) : r[i] = q[i]
  BY <1>1
<1>3. Last(r) = k
  BY <1>2 DEF Last
<1>. HIDE DEF r
<1>4. IsStrictPrefix(q, r) /\ r # <<>>
  <2>1. IsPrefix(q, r)
    BY <1>1, <1>2, PrefixPointwise
  <2>2. q # r
    BY <1>2
  <2>3. Len(r) # 0 /\ Len(<<>>) = 0
    BY <1>2
  <2>. QED  BY <2>1, <2>2, <2>3 DEF IsStrictPrefix
<1>5. ASSUME NEW o \in Paths, IsStrictPrefix(o, r)  PROVE IsPrefix(o, q) /\ Len(o) <= Len(q)
  <2>1. o \in Seq(S) /\ Len(o) \in Nat
    BY <1>1 DEF Paths
  <2>2. Len(o) <= Len(r) /\ o # r /\ \A i \in 1..Len(o) : o[i] = r[i]
    BY <1>2, <1>5, <2>1, PrefixPointwise DEF IsStrictPrefix
  <2>3. Len(o) # Len(r)
    BY <1>2, <2>1, <2>2, SeqEqual
  <2>4. Len(o) <= Len(q) /\ \A i \in 1..Len(o) : o[i] = q[i]
    BY <1>2, <2>1, <2>2, <2>3
  <2>. QED  BY <1>1, <2>1, <2>4, PrefixPointwise
<1>6. ASSUME r \in Paths  PROVE k \in Names /\ r = q \o <<k>>
  <2>1. k \in Names
    <3>1. Len(q) + 1 \in 1..Len(r)
      BY <1>2
    <3>2. r[Len(q) + 1] \in Names
      BY <1>6, <3>1, ElementOfSeq DEF Paths
    <3>. QED  BY <1>2, <3>2
  <2>. QED  BY <2>1, AppendIsJoin DEF r
<1>. QED  BY <1>2, <1>3, <1>4, <1>5, <1>6 DEF r

\* What is left to compare when the ignored keys are gone.
Strip(t, tree) == stripListElementKeys(stripKeys(tree, t.ignoreMap), t.ignoreList)

LEMMA StripShrinks ==
    ASSUME NEW t, NEW tree
    PROVE  /\ DOMAIN Strip(t, tree) \subseteq DOMAIN tree
           /\ \A q \in DOMAIN Strip(t, tree) : Strip(t, tree)[q] = tree[q]
<1>1. \A v, keys : DOMAIN stripKeys(v, keys) \subseteq DOMAIN v /\ \A q \in DOMAIN stripKeys(v, keys) : stripKeys(v, keys)[q] = v[q]
  BY DEF stripKeys
<1>2. \A v, keys : /\ DOMAIN stripListElementKeys(v, keys) \subseteq DOMAIN v
                   /\ \A q \in DOMAIN stripListElementKeys(v, keys) : stripListElementKeys(v, keys)[q] = v[q]
  BY DEF stripListElementKeys
<1>. QED  BY <1>1, <1>2 DEF Strip

\* Of a value that is there: which paths are left.
LEMMA StripFacts ==
    ASSUME NEW t, NEW tree, <<>> \in DOMAIN tree, NEW q \in DOMAIN tree
    PROVE  q \in DOMAIN Strip(t, tree) <=>
             /\ tree[<<>>] = "obj" => q = <<>> \/ q[1] \notin t.ignoreMap
             /\ tree[<<>>] = "arr" => Len(q) < 2 \/ tree[<<q[1]>>] # "obj" \/ q[2] \notin t.ignoreList
<1>. DEFINE s == stripKeys(tree, t.ignoreMap)
<1>1. \A v : <<>> \in DOMAIN v => (IsObject(v) <=> v[<<>>] = "obj") /\ (IsArray(v) <=> v[<<>>] = "arr")
  <2>1. \A v : <<>> \in DOMAIN v => v # Missing
    BY DEF Missing
  <2>. QED  BY <2>1 DEF IsObject, IsArray
<1>2. CASE tree[<<>>] = "obj"
  <2>1. s = [x \in {r \in DOMAIN tree : r = <<>> \/ r[1] \notin t.ignoreMap} |-> tree[x]]
    BY <1>1, <1>2 DEF stripKeys
  <2>2. <<>> \in DOMAIN s /\ s[<<>>] = "obj"
    BY <1>2, <2>1
  <2>3. stripListElementKeys(s, t.ignoreList) = s
    BY <1>1, <2>2 DEF stripListElementKeys
  <2>. QED  BY <1>2, <2>1, <2>3 DEF Strip
<1>3. CASE tree[<<>>] = "arr"
  <2>1. s = tree
    BY <1>1, <1>3 DEF stripKeys
  <2>2. stripListElementKeys(tree, t.ignoreList)
          = [x \in {r \in DOMAIN tree : Len(r) < 2 \/ tree[<<r[1]>>] # "obj" \/ r[2] \notin t.ignoreList} |-> tree[x]]
    BY <1>1, <1>3 DEF stripListElementKeys
  <2>. QED  BY <1>3, <2>1, <2>2 DEF Strip
<1>4. CASE tree[<<>>] # "obj" /\ tree[<<>>] # "arr"
  <2>1. s = tree
    BY <1>1, <1>4 DEF stripKeys
  <2>2. stripListElementKeys(tree, t.ignoreList) = tree
    BY <1>1, <1>4 DEF stripListElementKeys
  <2>. QED  BY <1>4, <2>1, <2>2 DEF Strip
<1>. QED  BY <1>2, <1>3, <1>4

\* A match of an object or a list: the same root, and the same paths left on both sides.
LEMMA MatchFacts ==
    ASSUME NEW t, NEW a, compareFieldValue(t, a),
           LET e == effectiveExpectation(t) IN <<>> \in DOMAIN e /\ e[<<>>] \in {"obj", "arr"}
    PROVE  LET e == effectiveExpectation(t)
           IN /\ \A q \in DOMAIN Strip(t, e) : q \in DOMAIN a /\ a[q] = e[q]
              /\ \A q \in DOMAIN Strip(t, a) : q \in DOMAIN e
<1>. DEFINE e == effectiveExpectation(t)
<1>1. e = a \/ Strip(t, e) = Strip(t, a)
  <2>1. e # Nil
    BY DEF Nil
  <2>2. CASE t.ignoreMap = {} /\ t.ignoreList = {}
    <3>1. jsonEqual(e, a)
      BY <2>2 DEF compareFieldValue
    <3>. QED  BY <2>1, <3>1 DEF jsonEqual
  <2>3. CASE ~(t.ignoreMap = {} /\ t.ignoreList = {})
    BY <2>3 DEF compareFieldValue, Strip
  <2>. QED  BY <2>2, <2>3
<1>. HIDE DEF e
<1>2. CASE e = a
  BY <1>2, StripShrinks DEF e
<1>3. CASE Strip(t, e) = Strip(t, a)
  <2>1. ASSUME NEW q \in DOMAIN Strip(t, e)  PROVE q \in DOMAIN a /\ a[q] = e[q]
    <3>1. Strip(t, e)[q] = e[q]
      BY <2>1, StripShrinks
    <3>2. q \in DOMAIN a /\ Strip(t, a)[q] = a[q]
      BY <1>3, <2>1, StripShrinks
    <3>. QED  BY <1>3, <3>1, <3>2
  <2>2. ASSUME NEW q \in DOMAIN Strip(t, a)  PROVE q \in DOMAIN e
    BY <1>3, <2>2, StripShrinks
  <2>. QED  BY <2>1, <2>2 DEF e
<1>. QED  BY <1>1, <1>2, <1>3

\* Where the objects are that the checks of members look at.
Bases(e) == {b \in DOMAIN e : e[b] = "obj" /\ (b = <<>> \/ (e[<<>>] = "arr" /\ Len(b) = 1))}

LEMMA RootAbove ==
    ASSUME NEW q \in Paths, q # <<>>
    PROVE  <<>> \in Above(q) /\ (Len(q) > 1 => <<q[1]>> \in Above(q)) /\ <<q[1]>> \in Paths /\ (Len(q) = 1 => q = <<q[1]>>)
<1>1. Len(q) \in Nat \ {0} /\ 1 \in 1..Len(q) /\ q[1] \in Names
  BY NonEmpty
<1>. DEFINE e == <<>>
            o == <<q[1]>>
<1>2. e \in Paths /\ Len(e) = 0
  BY EmptySeq DEF Paths
<1>3. o \in Paths /\ Len(o) = 1 /\ o[1] = q[1]
  BY <1>1, OneLong DEF Paths
<1>. HIDE DEF e, o
<1>4. e \in Above(q)
  BY <1>1, <1>2, AboveFacts, PrefixIsPointwise
<1>5. ASSUME Len(q) > 1  PROVE o \in Above(q)
  <2>1. IsPrefix(o, q)
    BY <1>1, <1>3, <1>5, PrefixIsPointwise
  <2>. QED  BY <1>3, <1>5, <2>1, AboveFacts
<1>6. Len(q) = 1 => q = o
  BY OneName DEF o
<1>. QED  BY <1>3, <1>4, <1>5, <1>6 DEF e, o

\* What asObjects finds is below a base, and its members are one name further.
LEMMA ObjectsAreBases ==
    ASSUME NEW e, IsTree(e), e # Missing, NEW o \in asObjects(e)
    PROVE  \E b \in Bases(e) : \A k : k \in Keys(o, <<>>) <=> k \in Names /\ b \o <<k>> \in DOMAIN e
<1>1. DOMAIN e \subseteq Paths /\ <<>> \in DOMAIN e
  BY TreeFacts
<1>2. ASSUME NEW b \in DOMAIN e
      PROVE  \A k : k \in Keys(ValueAt(e, b), <<>>) <=> k \in Names /\ b \o <<k>> \in DOMAIN e
  <2>1. DOMAIN ValueAt(e, b) \subseteq Paths /\ b \in Paths
    BY <1>1, ValueAtFacts
  <2>2. \A k : k \in Keys(ValueAt(e, b), <<>>) <=> k \in Names /\ <<k>> \in DOMAIN ValueAt(e, b)
    BY <2>1, KeysFacts
  <2>3. \A k \in Names : <<k>> \in Paths
    BY OneLong DEF Paths
  <2>4. \A k \in Names : <<k>> \in DOMAIN ValueAt(e, b) <=> b \o <<k>> \in DOMAIN e
    BY <1>1, <2>1, <2>3, ValueAtFacts
  <2>. QED  BY <2>2, <2>4
<1>3. CASE IsObject(e)
  <2>1. o = e /\ e[<<>>] = "obj" /\ <<>> \in Bases(e)
    BY <1>1, <1>3 DEF asObjects, IsObject, Bases
  <2>2. \A k : k \in Keys(e, <<>>) <=> k \in Names /\ <<k>> \in DOMAIN e
    BY <1>1, KeysFacts
  <2>3. \A k \in Names : <<>> \o <<k>> = <<k>>
    BY OneLong, ConcatEmptySeq
  <2>. QED  BY <2>1, <2>2, <2>3
<1>4. CASE ~IsObject(e)
  <2>1. IsArray(e)
    BY <1>4 DEF asObjects
  <2>2. PICK k \in Keys(e, <<>>) : o = ValueAt(e, <<k>>) /\ IsObject(o)
    BY <1>4, <2>1 DEF asObjects
  <2>3. k \in Names /\ <<k>> \in DOMAIN e
    BY <1>1, KeysFacts
  <2>4. e[<<k>>] = "obj"
    <3>1. ValueAt(e, <<k>>)[<<>>] = e[<<k>>]
      BY <1>1, <2>3, RootOfValue
    <3>. QED  BY <2>2, <3>1 DEF IsObject
  <2>5. e[<<>>] = "arr" /\ Len(<<k>>) = 1
    BY <2>1 DEF IsArray
  <2>6. <<k>> \in Bases(e)
    BY <2>3, <2>4, <2>5 DEF Bases
  <2>. QED  BY <1>2, <2>2, <2>3, <2>6
<1>. QED  BY <1>3, <1>4

\* and each base is found.
LEMMA BasesAreObjects ==
    ASSUME NEW e, IsTree(e), e # Missing, NEW b \in Bases(e)
    PROVE  ValueAt(e, b) \in asObjects(e) \/ (b = <<>> /\ e \in asObjects(e))
<1>1. DOMAIN e \subseteq Paths /\ <<>> \in DOMAIN e
  BY TreeFacts
<1>2. CASE b = <<>>
  BY <1>2 DEF asObjects, IsObject, Bases
<1>3. CASE b # <<>>
  <2>1. e[<<>>] = "arr" /\ Len(b) = 1 /\ b \in Paths /\ b \in DOMAIN e /\ e[b] = "obj"
    BY <1>1, <1>3 DEF Bases
  <2>2. b[1] \in Names /\ b = <<b[1]>>
    BY <2>1, OneName
  <2>3. b[1] \in Keys(e, <<>>)
    BY <1>1, <2>1, <2>2, KeysFacts
  <2>4. ~IsObject(e) /\ IsArray(e)
    BY <2>1 DEF IsObject, IsArray
  <2>5. IsObject(ValueAt(e, b))
    <3>1. <<>> \in DOMAIN ValueAt(e, b) /\ ValueAt(e, b)[<<>>] = e[b]
      BY <1>1, <2>1, RootOfValue
    <3>2. ValueAt(e, b) # Missing
      BY <3>1 DEF Missing
    <3>. QED  BY <2>1, <3>1, <3>2 DEF IsObject
  <2>6. ValueAt(e, b) \in {ValueAt(e, <<k>>) : k \in Keys(e, <<>>)}
    BY <2>2, <2>3
  <2>. QED  BY <2>4, <2>5, <2>6 DEF asObjects
<1>. QED  BY <1>2, <1>3

\* The expectation of an entry that the parser has accepted.
Expectation(t) ==
  LET e == effectiveExpectation(t)
  IN IsTree(e) /\ e # Missing /\ ValidateIgnoreMapKeys(t) /\ ValidateIgnoreListElementKeys(t)

LEMMA AcceptedExpectation ==
    ASSUME ManifestIsEntries, Accepted, NEW t \in EntriesOf(tests)
    PROVE  Expectation(t)
<1>1. PICK i \in DOMAIN tests : t = tests[i]
  BY DEF EntriesOf
<1>2. ValidateIgnoreMapKeys(t) /\ ValidateIgnoreListElementKeys(t)
  BY <1>1, Zenon DEF Accepted, ParseAnnotation
<1>3. t \in Entries
  BY AcceptedEntry
<1>4. IsTree(t.value) /\ t.value # Missing /\ IsTree(t.expect) /\ t.expect # Missing
  BY <1>3, ValidateAssumption
<1>. QED  BY <1>2, <1>4, Zenon DEF Expectation, effectiveExpectation

\* The parser refuses an expectation that names an ignored key, so it is compared as it is.
LEMMA NothingIgnored ==
    ASSUME NEW t, Expectation(t)
    PROVE  DOMAIN Strip(t, effectiveExpectation(t)) = DOMAIN effectiveExpectation(t)
<1>. DEFINE e == effectiveExpectation(t)
<1>1. IsTree(e) /\ e # Missing /\ DOMAIN e \subseteq Paths /\ <<>> \in DOMAIN e
  BY TreeFacts DEF Expectation
<1>2. \A q \in DOMAIN e : \A a \in Above(q) : a \in DOMAIN e
  BY <1>1, TreeFacts
<1>. HIDE DEF e
<1>3. ASSUME NEW q \in DOMAIN e, e[<<>>] = "obj", q # <<>>  PROVE q[1] \notin t.ignoreMap
  <2>1. q \in Paths /\ <<q[1]>> \in DOMAIN e /\ q[1] \in Names
    <3>1. q \in Paths
      BY <1>1
    <3>2. Len(q) \in Nat \ {0} /\ q[1] \in Names
      BY <1>3, <3>1, NonEmpty
    <3>3. (Len(q) > 1 => <<q[1]>> \in Above(q)) /\ (Len(q) = 1 => q = <<q[1]>>)
      BY <1>3, <3>1, RootAbove
    <3>. DEFINE o == <<q[1]>>
    <3>. HIDE DEF o
    <3>4. (Len(q) > 1 => o \in Above(q)) /\ (Len(q) = 1 => q = o)
      BY <3>3 DEF o
    <3>5. Len(q) > 1 \/ Len(q) = 1
      <4>1. \A n \in Nat \ {0} : n > 1 \/ n = 1
        OBVIOUS
      <4>. QED  BY <3>2, <4>1, Zenon
    <3>6. o \in DOMAIN e
      BY <1>2, <1>3, <3>4, <3>5
    <3>. QED  BY <3>1, <3>2, <3>6 DEF o
  <2>2. q[1] \in Keys(e, <<>>)
    BY <1>1, <2>1, KeysFacts
  <2>3. IsObject(e)
    BY <1>1, <1>3 DEF IsObject
  <2>. QED  BY <2>2, <2>3 DEF Expectation, ValidateIgnoreMapKeys, e
<1>4. ASSUME NEW q \in DOMAIN e, e[<<>>] = "arr", ~(Len(q) < 2), e[<<q[1]>>] = "obj"  PROVE q[2] \notin t.ignoreList
  <2>. DEFINE b == <<q[1]>>
  <2>1. q \in Paths /\ Len(q) \in Nat /\ Len(q) >= 2 /\ q # <<>>
    BY <1>1, <1>4, NonEmpty DEF Paths
  <2>2. b \in DOMAIN e /\ b \in Paths /\ Len(b) = 1 /\ b[1] = q[1]
    BY <1>2, <2>1, RootAbove
  <2>3. q[1] \in Names /\ q[2] \in Names
    <3>1. 1 \in 1..Len(q) /\ 2 \in 1..Len(q)
      BY <2>1
    <3>. QED  BY <2>1, <3>1, ElementOfSeq DEF Paths
  <2>. DEFINE c == b \o <<q[2]>>
  <2>4. c \in Paths /\ Len(c) = 2 /\ c[1] = q[1] /\ c[2] = q[2]
    <3>1. <<q[2]>> \in Paths /\ Len(<<q[2]>>) = 1 /\ <<q[2]>>[1] = q[2]
      BY <2>3, OneLong DEF Paths
    <3>. HIDE DEF b
    <3>2. /\ c \in Paths /\ Len(c) = Len(b) + Len(<<q[2]>>)
          /\ \A i \in 1..Len(b) : c[i] = b[i]
          /\ \A i \in 1..Len(<<q[2]>>) : c[Len(b) + i] = <<q[2]>>[i]
      BY <2>2, <3>1, JoinFacts
    <3>. HIDE DEF c
    <3>3. 1 \in 1..Len(b) /\ 1 \in 1..Len(<<q[2]>>)
      BY <2>2, <3>1
    <3>4. c[1] = b[1] /\ c[Len(b) + 1] = <<q[2]>>[1]
      BY <3>2, <3>3
    <3>5. Len(b) + 1 = 2
      BY <2>2
    <3>. QED  BY <2>2, <3>1, <3>2, <3>4, <3>5
  <2>. HIDE DEF c
  <2>5. c \in DOMAIN e
    <3>1. IsPrefix(c, q)
      <4>1. \A n \in 1..Len(c) : n = 1 \/ n = 2
        BY <2>4
      <4>2. \A n \in 1..Len(c) : c[n] = q[n]
        BY <2>4, <4>1
      <4>. QED  BY <2>1, <2>4, <4>2, PrefixIsPointwise
    <3>2. CASE Len(q) > 2
      BY <1>2, <2>1, <2>4, <3>1, <3>2, AboveFacts
    <3>3. CASE Len(q) = 2
      <4>1. c = q
        BY <2>1, <2>4, <3>3, SeqEqual DEF Paths
      <4>. QED  BY <4>1
    <3>4. Len(q) > 2 \/ Len(q) = 2
      <4>1. \A n \in Nat : n >= 2 => n > 2 \/ n = 2
        OBVIOUS
      <4>. QED  BY <2>1, <4>1, Zenon
    <3>. QED  BY <3>2, <3>3, <3>4
  <2>6. b \in Bases(e)
    BY <1>4, <2>2 DEF Bases
  <2>7. PICK o \in asObjects(e) : o = ValueAt(e, b)
    <3>. HIDE DEF b
    <3>1. b # <<>>
      BY <2>2, EmptySeq
    <3>. QED  BY <1>1, <2>6, <3>1, BasesAreObjects
  <2>8. q[2] \in Keys(o, <<>>)
    <3>. HIDE DEF b
    <3>1. <<q[2]>> \in DOMAIN ValueAt(e, b)
      <4>1. <<q[2]>> \in Paths
        BY <2>3, OneLong DEF Paths
      <4>. QED  BY <1>1, <2>2, <2>5, <4>1, ValueAtFacts DEF c
    <3>2. DOMAIN ValueAt(e, b) \subseteq Paths
      BY <1>1, <2>2, ValueAtFacts
    <3>. QED  BY <2>3, <2>7, <3>1, <3>2, KeysFacts
  <2>9. IsArray(e)
    BY <1>1, <1>4 DEF IsArray
  <2>. QED  BY <2>7, <2>8, <2>9 DEF Expectation, ValidateIgnoreListElementKeys, e
<1>5. \A q \in DOMAIN e : q \in DOMAIN Strip(t, e)
  BY <1>1, <1>3, <1>4, StripFacts
<1>6. DOMAIN Strip(t, e) \subseteq DOMAIN e
  BY StripShrinks
<1>. QED  BY <1>5, <1>6 DEF e

\* The types of members depend on what is a list above them, and on nothing else.
LEMMA SameType ==
    ASSUME NEW elem, NEW x, NEW y, NEW q, Len(q) \in Nat,
           \A n \in 0..(Len(q) - 1) : x[SubSeq(q, 1, n)] = y[SubSeq(q, 1, n)]
    PROVE  TypeAt(elem, x, q) = TypeAt(elem, y, q)
<1>. DEFINE Step(e, name) ==
              LET f == {g \in resolveTypeFieldsForWalk(e) : g.json = name}
              IN IF f = {} THEN "none" ELSE (CHOOSE g \in f : TRUE).elem
            List(tree, k) == tree[SubSeq(q, 1, k)] = "arr"
            Below(type, name, m, list, listAbove) ==
              IF type = "none" \/ list THEN IF m > 1 /\ list /\ listAbove THEN "none" ELSE type
              ELSE Step(type, name)
            Level(tree, it, n) ==
              IF n = 0 THEN elem ELSE Below(it[n - 1], q[n], n, List(tree, n - 1), List(tree, n - 2))
            F(tree, it) == [n \in 0..Len(q) |-> Level(tree, it, n)]
<1>1. TypeAt(elem, x, q) = (CHOOSE it : it = F(x, it))[Len(q)]
  BY DEF TypeAt
<1>2. TypeAt(elem, y, q) = (CHOOSE it : it = F(y, it))[Len(q)]
  BY DEF TypeAt
<1>3. ASSUME NEW it, NEW n \in 0..Len(q)  PROVE Level(x, it, n) = Level(y, it, n)
  <2>1. CASE n = 0
    BY <2>1
  <2>2. CASE n = 1
    <3>1. x[SubSeq(q, 1, 0)] = y[SubSeq(q, 1, 0)]
      BY <2>2
    <3>2. List(x, n - 1) = List(y, n - 1)
      BY <2>2, <3>1
    <3>. HIDE DEF List, Step
    <3>. QED  BY <2>2, <3>2
  <2>3. CASE n > 1
    <3>1. n - 1 \in 0..(Len(q) - 1) /\ n - 2 \in 0..(Len(q) - 1)
      BY <2>3
    <3>2. List(x, n - 1) = List(y, n - 1) /\ List(x, n - 2) = List(y, n - 2)
      BY <3>1
    <3>. HIDE DEF List, Below
    <3>. QED  BY <2>3, <3>2
  <2>. QED  BY <2>1, <2>2, <2>3
<1>. HIDE DEF Level
<1>4. \A it : F(x, it) = F(y, it)
  BY <1>3
<1>. HIDE DEF F
<1>5. \A it : it = F(x, it) <=> it = F(y, it)
  BY <1>4, Zenon
<1>6. (CHOOSE it : it = F(x, it)) = (CHOOSE it : it = F(y, it))
  BY <1>5, Zenon
<1>. QED  BY <1>1, <1>2, <1>6, Zenon

\* What a right provider shows: what is there, and what it adds, without what its struct
\* cannot hold.
HiddenIn(t, v, q) == \E o \in Shown(t, v) : IsStrictPrefix(o, q) /\ q[Len(o) + 1] \notin {f.json : f \in Observed(t)}
NullsIn(t, v) == {Append(o, f.json) : o \in Shown(t, v), f \in {g \in Observed(t) : ~g.omitempty}} \ DOMAIN v
EchoesIn(t, v) == UNION {{Append(q, k) : k \in UNION {EchoedAt(f.elem, v, q) : f \in Shaped(t)}} : q \in DOMAIN v}

LEMMA MirrorFacts ==
    ASSUME NEW t, NEW v
    PROVE  LET m == Mirror(t, v)
           IN /\ \A q : q \in DOMAIN m <=> q \in DOMAIN v \cup NullsIn(t, v) \cup EchoesIn(t, v) /\ ~HiddenIn(t, v, q)
              /\ \A q \in DOMAIN m : m[q] \in {"obj", "arr"} => q \in DOMAIN v /\ v[q] = m[q]
<1>. DEFINE D == {r \in DOMAIN v \cup NullsIn(t, v) \cup EchoesIn(t, v) : ~HiddenIn(t, v, r)}
            m == [q \in D |-> IF q \in EchoesIn(t, v) THEN "default" ELSE IF q \in NullsIn(t, v) THEN "null" ELSE v[q]]
<1>1. Mirror(t, v) = m
  BY DEF Mirror, HiddenIn, NullsIn, EchoesIn
<1>2. \A q : q \in DOMAIN m <=> q \in DOMAIN v \cup NullsIn(t, v) \cup EchoesIn(t, v) /\ ~HiddenIn(t, v, q)
  OBVIOUS
<1>3. ASSUME NEW q \in DOMAIN m, m[q] \in {"obj", "arr"}  PROVE q \in DOMAIN v /\ v[q] = m[q]
  <2>1. q \notin EchoesIn(t, v) /\ q \notin NullsIn(t, v)
    BY <1>3
  <2>. QED  BY <1>3, <2>1
<1>. HIDE DEF m
<1>. QED  BY <1>1, <1>2, <1>3

\* The first names of a path, and what is there.
LEMMA RootIsContainer ==
    ASSUME NEW e, IsTree(e), e # Missing, NEW q \in DOMAIN e, e[q] = "obj" \/ q # <<>>
    PROVE  e[<<>>] \in {"obj", "arr"}
<1>1. q \in Paths /\ <<>> \in DOMAIN e
  BY TreeFacts
<1>2. CASE q = <<>>
  BY <1>2
<1>3. CASE q # <<>>
  <2>1. <<>> \in Above(q)
    BY <1>1, <1>3, RootAbove
  <2>. QED  BY <1>1, <2>1, TreeFacts
<1>. QED  BY <1>2, <1>3

\* When the mirrored value matches, it has what is expected, and of the rest only what is
\* ignored.
Agrees(t, v) ==
  LET e == effectiveExpectation(t)
      a == Mirror(t, v)
  IN /\ e[<<>>] \in {"obj", "arr"}
     /\ \A q \in DOMAIN e : q \in DOMAIN a /\ a[q] = e[q] /\ ~HiddenIn(t, v, q)
     /\ \A q \in DOMAIN e : e[q] \in {"obj", "arr"} => q \in DOMAIN v /\ v[q] = e[q]
     /\ Resolved(t) => Bases(e) \subseteq Shown(t, v)
     /\ \A q \in DOMAIN e : \A k : k \notin t.ignoreMap \cup t.ignoreList /\ Append(q, k) \in DOMAIN a
          => Append(q, k) \in DOMAIN e

LEMMA MatchAgrees ==
    ASSUME NEW t, Expectation(t), NEW v, DOMAIN v \subseteq Paths, compareFieldValue(t, Mirror(t, v)),
           effectiveExpectation(t)[<<>>] \in {"obj", "arr"}
    PROVE  Agrees(t, v)
<1>. DEFINE e == effectiveExpectation(t)
            a == Mirror(t, v)
<1>1. IsTree(e) /\ e # Missing /\ DOMAIN e \subseteq Paths /\ <<>> \in DOMAIN e
  BY TreeFacts DEF Expectation
<1>2. DOMAIN Strip(t, e) = DOMAIN e
  BY NothingIgnored
<1>3. \A q \in DOMAIN e : q \in DOMAIN a /\ a[q] = e[q]
  BY <1>1, <1>2, MatchFacts
<1>4. \A q \in DOMAIN Strip(t, a) : q \in DOMAIN e
  BY <1>1, MatchFacts
<1>. HIDE DEF e, a
<1>5. e[<<>>] \in {"obj", "arr"}
  BY DEF e
<1>6. \A q \in DOMAIN e : ~HiddenIn(t, v, q)
  BY <1>3, MirrorFacts DEF a
<1>7. \A q \in DOMAIN e : e[q] \in {"obj", "arr"} => q \in DOMAIN v /\ v[q] = e[q]
  BY <1>3, MirrorFacts DEF a
<1>8. ASSUME Resolved(t)  PROVE Bases(e) \subseteq Shown(t, v)
  <2>1. v[<<>>] = e[<<>>]
    BY <1>1, <1>5, <1>7
  <2>. SUFFICES ASSUME NEW b \in Bases(e)  PROVE b \in Shown(t, v)
    OBVIOUS
  <2>2. b \in DOMAIN e /\ e[b] = "obj" /\ (b = <<>> \/ (e[<<>>] = "arr" /\ Len(b) = 1))
    BY DEF Bases
  <2>3. b \in DOMAIN v /\ v[b] = "obj"
    BY <1>7, <2>2
  <2>. QED  BY <1>8, <2>1, <2>2, <2>3 DEF Shown
<1>9. ASSUME NEW q \in DOMAIN e, NEW k, k \notin t.ignoreMap \cup t.ignoreList, Append(q, k) \in DOMAIN a
      PROVE  Append(q, k) \in DOMAIN e
  <2>. DEFINE r == Append(q, k)
  <2>1. q \in Paths /\ Len(r) = Len(q) + 1 /\ Len(q) \in Nat /\ r[Len(q) + 1] = k /\ r # <<>> /\ \A i \in 1..Len(q) : r[i] = q[i]
    BY <1>1, NextName
  <2>. HIDE DEF r
  <2>2. <<>> \in DOMAIN a /\ a[<<>>] = e[<<>>]
    BY <1>1, <1>3
  <2>3. q \in DOMAIN Strip(t, e)
    BY <1>2
  <2>4. ASSUME e[<<>>] = "obj"  PROVE r[1] \notin t.ignoreMap
    <3>1. CASE Len(q) = 0
      BY <1>9, <2>1, <3>1
    <3>2. CASE Len(q) # 0
      <4>1. r[1] = q[1] /\ q # <<>>
        BY <2>1, <3>2
      <4>. QED  BY <1>1, <2>3, <2>4, <4>1, StripFacts
    <3>. QED  BY <3>1, <3>2
  <2>5. ASSUME e[<<>>] = "arr"  PROVE Len(r) < 2 \/ a[<<r[1]>>] # "obj" \/ r[2] \notin t.ignoreList
    <3>1. CASE Len(q) = 0
      BY <2>1, <3>1
    <3>2. CASE Len(q) = 1
      BY <1>9, <2>1, <3>2
    <3>3. CASE Len(q) > 1
      <4>1. r[1] = q[1] /\ r[2] = q[2] /\ q # <<>>
        BY <2>1, <3>3
      <4>2. <<q[1]>> \in Above(q)
        BY <2>1, <3>3, <4>1, RootAbove
      <4>3. <<q[1]>> \in DOMAIN e
        BY <1>1, <4>2, TreeFacts
      <4>4. a[<<q[1]>>] = e[<<q[1]>>]
        BY <1>3, <4>3
      <4>5. ~(Len(q) < 2)
        BY <2>1, <3>3
      <4>6. e[<<q[1]>>] # "obj" \/ q[2] \notin t.ignoreList
        BY <1>1, <2>3, <2>5, <4>5, StripFacts
      <4>. DEFINE o == <<q[1]>>
      <4>7. <<r[1]>> = o
        BY <4>1
      <4>. HIDE DEF o
      <4>8. a[o] # "obj" \/ q[2] \notin t.ignoreList
        BY <4>4, <4>6 DEF o
      <4>. QED  BY <4>1, <4>7, <4>8
    <3>4. Len(q) = 0 \/ Len(q) = 1 \/ Len(q) > 1
      <4>1. \A n \in Nat : n = 0 \/ n = 1 \/ n > 1
        OBVIOUS
      <4>. QED  BY <2>1, <4>1, Zenon
    <3>. QED  BY <3>1, <3>2, <3>3, <3>4, Zenon
  <2>6. r \in DOMAIN a
    BY <1>9 DEF r
  <2>7. r \in DOMAIN Strip(t, a)
    BY <2>2, <2>4, <2>5, <2>6, StripFacts
  <2>. QED  BY <1>4, <2>7 DEF r
<1>. QED  BY <1>3, <1>5, <1>6, <1>7, <1>8, <1>9 DEF Agrees, e, a

\* Where the status type is known, it is an object or a list of objects that holds it.
LEMMA ShownFacts ==
    ASSUME NEW t, NEW v, DOMAIN v \subseteq Paths
    PROVE  /\ Shown(t, v) \subseteq DOMAIN v
           /\ \A o, b \in Shown(t, v) : IsPrefix(o, b) => o = b
<1>1. \A o \in Shown(t, v) : o \in DOMAIN v /\ v[o] = "obj" /\ (o = <<>> \/ (v[<<>>] = "arr" /\ Len(o) = 1))
  BY DEF Shown
<1>2. ASSUME NEW o \in Shown(t, v), NEW b \in Shown(t, v), IsPrefix(o, b)  PROVE o = b
  <2>1. o \in Paths /\ b \in Paths /\ \A p \in Paths : p # <<>> => Len(p) \in Nat \ {0}
    BY <1>1, NonEmpty
  <2>2. CASE v[<<>>] = "obj"
    BY <1>1, <2>2
  <2>3. CASE v[<<>>] # "obj"
    <3>1. Len(o) = 1 /\ Len(b) = 1
      BY <1>1, <2>3
    <3>2. Len(o) = Len(b) /\ \A i \in 1..Len(o) : o[i] = b[i]
      BY <1>2, <2>1, <3>1, PrefixIsPointwise
    <3>. QED  BY <2>1, <3>2, SeqEqual DEF Paths
  <2>. QED  BY <2>2, <2>3
<1>. QED  BY <1>1, <1>2

\* A base has the members that are one name below it.
LEMMA MemberBelow ==
    ASSUME NEW e, DOMAIN e \subseteq Paths, NEW q \in DOMAIN e, NEW k
    PROVE  k \in Keys(e, q) <=> Append(q, k) \in DOMAIN e
<1>. DEFINE r == Append(q, k)
<1>1. /\ q \in Paths /\ Len(r) = Len(q) + 1 /\ Len(q) \in Nat /\ r[Len(q) + 1] = k /\ Last(r) = k
      /\ IsStrictPrefix(q, r) /\ \A i \in 1..Len(q) : r[i] = q[i]
  BY NextName
<1>. HIDE DEF r
<1>2. ASSUME r \in DOMAIN e  PROVE k \in Keys(e, q)
  BY <1>1, <1>2 DEF Keys, IsStrictPrefix
<1>3. ASSUME k \in Keys(e, q)  PROVE r \in DOMAIN e
  <2>1. PICK x \in DOMAIN e : Len(x) = Len(q) + 1 /\ IsPrefix(q, x) /\ k = Last(x)
    BY <1>3 DEF Keys
  <2>2. x \in Paths /\ k = x[Len(q) + 1] /\ \A i \in 1..Len(q) : x[i] = q[i]
    BY <1>1, <2>1, PrefixIsPointwise DEF Last
  <2>3. k \in Names
    <3>1. Len(q) + 1 \in 1..Len(x)
      BY <1>1, <2>1
    <3>. QED  BY <2>2, <3>1, ElementOfSeq DEF Paths
  <2>4. r \in Paths
    BY <1>1, <2>3, AppendIsJoin DEF r
  <2>5. \A i \in 1..Len(x) : i \in 1..Len(q) \/ i = Len(q) + 1
    BY <1>1, <2>1
  <2>6. \A i \in 1..Len(x) : x[i] = r[i]
    BY <1>1, <2>2, <2>5
  <2>7. x = r
    BY <1>1, <2>1, <2>2, <2>4, <2>6, SeqEqual DEF Paths
  <2>. QED  BY <2>1, <2>7
<1>. QED  BY <1>2, <1>3 DEF r

LEMMA ObjectsAreContainers ==
    ASSUME NEW e, IsTree(e), e # Missing, asObjects(e) # {}
    PROVE  e[<<>>] \in {"obj", "arr"}
BY DEF asObjects, IsObject, IsArray

\* The three checks of members.
LEMMA UnobservableIsReal ==
    ASSUME NEW t, Expectation(t), NEW v, DOMAIN v \subseteq Paths, unobservableKeys(t) # {}
    PROVE  ~compareFieldValue(t, Mirror(t, v))
<1>. DEFINE e == effectiveExpectation(t)
            names == {f.json : f \in Observed(t)}
<1>0. PICK k : k \in unobservableKeys(t)
  OBVIOUS
<1>1. PICK o \in asObjects(e) : k \in Keys(o, <<>>) /\ Resolved(t) /\ k \notin names
  BY <1>0 DEF unobservableKeys
<1>2. IsTree(e) /\ e # Missing /\ DOMAIN e \subseteq Paths
  BY TreeFacts DEF Expectation
<1>. HIDE DEF e, names
<1>3. PICK b \in Bases(e) : k \in Names /\ b \o <<k>> \in DOMAIN e
  BY <1>1, <1>2, ObjectsAreBases
<1>4. b \in Paths /\ b \o <<k>> = Append(b, k) /\ IsStrictPrefix(b, Append(b, k)) /\ Append(b, k)[Len(b) + 1] = k
  BY <1>2, <1>3, AppendIsJoin, NextName DEF Bases
<1>5. e[<<>>] \in {"obj", "arr"}
  BY <1>1, <1>2, ObjectsAreContainers
<1>6. ASSUME compareFieldValue(t, Mirror(t, v))  PROVE FALSE
  <2>1. Agrees(t, v)
    BY <1>5, <1>6, MatchAgrees DEF e
  <2>2. b \in Shown(t, v) /\ ~HiddenIn(t, v, Append(b, k))
    BY <1>1, <1>3, <1>4, <2>1 DEF Agrees, e
  <2>. QED  BY <1>1, <1>4, <2>2 DEF HiddenIn, names
<1>. QED  BY <1>6

\* Members are declared by a type that was found.
LEMMA ObservedIsResolved ==
    ASSUME NEW t, NEW g \in Observed(t)
    PROVE  Resolved(t)
<1>1. PICK f \in Shaped(t) : g \in resolveObservationFieldsForKindField(f).fields
  BY DEF Observed
<1>2. NotFound.fields = {} /\ \A name : StructOf(name).fields # {} => StructOf(name).found
  <2>1. \A parsed : FirstParsed(parsed).fields # {} => FirstParsed(parsed).found
    BY DEF FirstParsed, NotFound
  <2>. QED  BY <2>1, Zenon DEF StructOf, NotFound
<1>3. resolveObservationFieldsForKindField(f).found
  <2>. DEFINE declared == resolveKindObservationFieldType(f.json)
              fallback == IF declared = {} THEN NotFound ELSE StructOf(<<CHOOSE e \in declared : TRUE, "">>)
  <2>1. resolveObservationFieldsForKindField(f) = FirstFound(resolveObservationFields(f.elem), fallback)
    BY Zenon DEF resolveObservationFieldsForKindField
  <2>2. fallback.fields # {} => fallback.found
    BY <1>2
  <2>. HIDE DEF fallback
  <2>. QED  BY <1>1, <2>1, <2>2 DEF FirstFound
<1>. QED  BY <1>1, <1>3 DEF Resolved

LEMMA IncompleteIsReal ==
    ASSUME NEW t, Expectation(t), NEW v, DOMAIN v \subseteq Paths, incompleteExpectationKeys(t) # {}
    PROVE  ~compareFieldValue(t, Mirror(t, v))
<1>. DEFINE e == effectiveExpectation(t)
            names == {f.json : f \in Observed(t)}
<1>1. PICK g \in Observed(t) : /\ ~g.omitempty /\ g.json \notin t.ignoreMap \cup t.ignoreList
                               /\ \E o \in asObjects(e) : g.json \notin Keys(o, <<>>)
  <2>1. PICK k : k \in incompleteExpectationKeys(t)
    OBVIOUS
  <2>. QED  BY <2>1 DEF incompleteExpectationKeys
<1>2. PICK o \in asObjects(e) : g.json \notin Keys(o, <<>>)
  BY <1>1
<1>3. IsTree(e) /\ e # Missing /\ DOMAIN e \subseteq Paths
  BY TreeFacts DEF Expectation
<1>4. Resolved(t) /\ g.json \in names
  BY ObservedIsResolved
<1>. DEFINE k == g.json
<1>. HIDE DEF e, names, k
<1>5. PICK b \in Bases(e) : \A n : n \in Keys(o, <<>>) <=> n \in Names /\ b \o <<n>> \in DOMAIN e
  BY <1>2, <1>3, ObjectsAreBases
<1>. DEFINE r == Append(b, k)
<1>6. /\ b \in Paths /\ b \in DOMAIN e /\ r[Len(b) + 1] = k
      /\ \A p \in Paths : IsStrictPrefix(p, r) => IsPrefix(p, b)
      /\ r \in Paths => k \in Names /\ r = b \o <<k>>
  BY <1>3, <1>5, NextName DEF Bases
<1>7. e[<<>>] \in {"obj", "arr"}
  BY <1>2, <1>3, ObjectsAreContainers
<1>8. ASSUME compareFieldValue(t, Mirror(t, v))  PROVE FALSE
  <2>1. Agrees(t, v)
    BY <1>7, <1>8, MatchAgrees DEF e
  <2>2. b \in Shown(t, v)
    BY <1>4, <1>5, <2>1 DEF Agrees, e
  <2>3. r \in DOMAIN v \cup NullsIn(t, v)
    BY <1>1, <2>2 DEF NullsIn, k
  <2>4. ~HiddenIn(t, v, r)
    <3>. SUFFICES ASSUME NEW p \in Shown(t, v), IsStrictPrefix(p, r)  PROVE r[Len(p) + 1] \in names
      BY DEF HiddenIn, names
    <3>1. p = b
      <4>1. p \in Paths
        BY ShownFacts
      <4>2. IsPrefix(p, b)
        BY <1>6, <4>1
      <4>. QED  BY <2>2, <4>2, ShownFacts
    <3>. QED  BY <1>4, <1>6, <3>1 DEF k
  <2>5. r \in DOMAIN Mirror(t, v)
    BY <2>3, <2>4, MirrorFacts
  <2>6. r \in DOMAIN e
    BY <1>1, <1>6, <2>1, <2>5 DEF Agrees, e, k
  <2>7. k \in Names /\ b \o <<k>> \in DOMAIN e
    BY <1>3, <1>6, <2>6
  <2>. QED  BY <1>2, <1>5, <2>7 DEF k
<1>. QED  BY <1>8

LEMMA EchoIsReal ==
    ASSUME NEW t, Expectation(t), NEW v, DOMAIN v \subseteq Paths, EchoedAndShown(t) # {}
    PROVE  ~compareFieldValue(t, Mirror(t, v))
<1>. DEFINE e == effectiveExpectation(t)
            names == {f.json : f \in Observed(t)}
<1>1. PICK k : k \in EchoedAndShown(t)
  OBVIOUS
<1>2. PICK f \in Shaped(t), q \in DOMAIN e : /\ k \in EchoedAt(f.elem, e, q) /\ k \notin t.ignoreMap \cup t.ignoreList
                                             /\ q \in Shown(t, e) => k \in names
  BY <1>1 DEF EchoedAndShown
<1>3. IsTree(e) /\ e # Missing /\ DOMAIN e \subseteq Paths /\ <<>> \in DOMAIN e
  BY TreeFacts DEF Expectation
<1>. HIDE DEF e, names
<1>. DEFINE r == Append(q, k)
<1>4. /\ q \in Paths /\ Len(q) \in Nat /\ r[Len(q) + 1] = k /\ Len(r) = Len(q) + 1 /\ \A i \in 1..Len(q) : r[i] = q[i]
      /\ \A p \in Paths : IsStrictPrefix(p, r) => IsPrefix(p, q) /\ Len(p) <= Len(q)
  BY <1>3, NextName
<1>5. e[q] = "obj" /\ k \notin Keys(e, q)
  BY <1>2 DEF EchoedAt
<1>6. e[<<>>] \in {"obj", "arr"}
  BY <1>3, <1>5, RootIsContainer
<1>7. \A n \in 0..(Len(q) - 1) : SubSeq(q, 1, n) \in DOMAIN e /\ e[SubSeq(q, 1, n)] \in {"obj", "arr"}
  BY <1>3 DEF IsTree
<1>8. ASSUME compareFieldValue(t, Mirror(t, v))  PROVE FALSE
  <2>1. Agrees(t, v)
    BY <1>6, <1>8, MatchAgrees DEF e
  <2>2. q \in DOMAIN v /\ v[q] = "obj" /\ v[<<>>] = e[<<>>]
    BY <1>3, <1>5, <1>6, <2>1 DEF Agrees, e
  <2>3. \A n \in 0..(Len(q) - 1) : e[SubSeq(q, 1, n)] = v[SubSeq(q, 1, n)]
    BY <1>7, <2>1 DEF Agrees, e
  <2>4. TypeAt(f.elem, e, q) = TypeAt(f.elem, v, q)
    BY <1>4, <2>3, SameType
  <2>5. r \in DOMAIN v \cup EchoesIn(t, v)
    <3>1. CASE k \in Keys(v, q)
      BY <2>2, <3>1, MemberBelow
    <3>2. CASE k \notin Keys(v, q)
      <4>1. k \in EchoedAt(f.elem, v, q)
        BY <1>2, <1>5, <2>2, <2>4, <3>2 DEF EchoedAt
      <4>. QED  BY <2>2, <4>1 DEF EchoesIn
    <3>. QED  BY <3>1, <3>2
  <2>6. ~HiddenIn(t, v, r)
    <3>. SUFFICES ASSUME NEW p \in Shown(t, v), IsStrictPrefix(p, r)  PROVE r[Len(p) + 1] \in names
      BY DEF HiddenIn, names
    <3>1. p \in Paths /\ IsPrefix(p, q) /\ Len(p) \in Nat /\ Len(p) <= Len(q)
      <4>1. p \in Paths
        BY ShownFacts
      <4>2. Len(p) \in Nat
        BY <4>1 DEF Paths
      <4>. QED  BY <1>4, <4>1, <4>2
    <3>2. CASE p = q
      <4>1. q \in Shown(t, e)
        BY <1>5, <2>2, <3>2 DEF Shown
      <4>. QED  BY <1>2, <1>4, <3>2, <4>1
    <3>3. CASE p # q
      <4>1. IsStrictPrefix(p, q)
        BY <3>1, <3>3 DEF IsStrictPrefix
      <4>2. q[Len(p) + 1] \in names
        BY <2>1, <4>1 DEF Agrees, HiddenIn, names, e
      <4>3. Len(p) # Len(q)
        <5>1. Len(p) = Len(q) => \A i \in 1..Len(p) : p[i] = q[i]
          BY <1>4, <3>1, PrefixIsPointwise
        <5>. QED  BY <1>4, <3>1, <3>3, <5>1, SeqEqual DEF Paths
      <4>4. Len(p) + 1 \in 1..Len(q)
        BY <1>4, <3>1, <4>3
      <4>. QED  BY <1>4, <4>2, <4>4
    <3>. QED  BY <3>2, <3>3
  <2>7. r \in DOMAIN Mirror(t, v)
    BY <2>5, <2>6, MirrorFacts
  <2>8. r \in DOMAIN e
    BY <1>2, <2>1, <2>7 DEF Agrees, e
  <2>. QED  BY <1>3, <1>5, <2>8, MemberBelow
<1>. QED  BY <1>8

-----------------------------------------------------------------------------
(***************************************************************************)
(* What a manifest without findings leads to.                              *)
(***************************************************************************)
LEMMA PrefixOrder ==
    ASSUME NEW p \in Paths, NEW q \in Paths, NEW r \in Paths, IsPrefix(q, r)
    PROVE  /\ IsPrefix(p, q) => IsPrefix(p, r)
           /\ IsPrefix(p, r) /\ Len(p) <= Len(q) => IsPrefix(p, q)
<1>1. Len(p) \in Nat /\ Len(q) \in Nat /\ Len(r) \in Nat
  BY DEF Paths
<1>2. Len(q) <= Len(r) /\ \A i \in 1..Len(q) : q[i] = r[i]
  BY PrefixIsPointwise
<1>3. Len(p) <= Len(q) => \A i \in 1..Len(p) : i \in 1..Len(q)
  BY <1>1
<1>. QED  BY <1>1, <1>2, <1>3, PrefixIsPointwise

LEMMA JoinKeepsPrefix ==
    ASSUME NEW p \in Paths, NEW a \in Paths, NEW x \in Paths
    PROVE  IsPrefix(a, x) <=> IsPrefix(p \o a, p \o x)
<1>. DEFINE b == p \o a
            y == p \o x
<1>1. Len(p) \in Nat /\ Len(a) \in Nat /\ Len(x) \in Nat
  BY DEF Paths
<1>2. /\ b \in Paths /\ Len(b) = Len(p) + Len(a)
      /\ \A i \in 1..Len(p) : b[i] = p[i]
      /\ \A i \in 1..Len(a) : b[Len(p) + i] = a[i]
  BY JoinFacts
<1>3. /\ y \in Paths /\ Len(y) = Len(p) + Len(x)
      /\ \A i \in 1..Len(p) : y[i] = p[i]
      /\ \A i \in 1..Len(x) : y[Len(p) + i] = x[i]
  BY JoinFacts
<1>. HIDE DEF b, y
<1>4. ASSUME IsPrefix(a, x)  PROVE IsPrefix(b, y)
  <2>1. Len(a) <= Len(x) /\ \A i \in 1..Len(a) : a[i] = x[i]
    BY <1>4, PrefixIsPointwise
  <2>2. \A i \in 1..Len(b) : i \in 1..Len(p) \/ (i - Len(p) \in 1..Len(a) /\ i - Len(p) \in 1..Len(x) /\ i = Len(p) + (i - Len(p)))
    BY <1>1, <1>2, <2>1
  <2>3. ASSUME NEW i \in 1..Len(b)  PROVE b[i] = y[i]
    <3>1. CASE i \in 1..Len(p)
      BY <1>2, <1>3, <3>1
    <3>2. CASE i \notin 1..Len(p)
      <4>. DEFINE j == i - Len(p)
      <4>1. j \in 1..Len(a) /\ j \in 1..Len(x) /\ i = Len(p) + j
        BY <2>2, <3>2
      <4>. HIDE DEF j
      <4>2. b[Len(p) + j] = a[j] /\ y[Len(p) + j] = x[j]
        BY <1>2, <1>3, <4>1
      <4>. QED  BY <2>1, <4>1, <4>2
    <3>. QED  BY <3>1, <3>2
  <2>4. Len(b) <= Len(y)
    BY <1>1, <1>2, <1>3, <2>1
  <2>. QED  BY <1>2, <1>3, <2>3, <2>4, PrefixIsPointwise
<1>5. ASSUME IsPrefix(b, y)  PROVE IsPrefix(a, x)
  <2>1. Len(b) <= Len(y) /\ \A i \in 1..Len(b) : b[i] = y[i]
    BY <1>2, <1>3, <1>5, PrefixIsPointwise
  <2>2. Len(a) <= Len(x)
    BY <1>1, <1>2, <1>3, <2>1
  <2>3. \A i \in 1..Len(a) : Len(p) + i \in 1..Len(b) /\ i \in 1..Len(x)
    BY <1>1, <1>2, <2>2
  <2>4. \A i \in 1..Len(a) : a[i] = x[i]
    BY <1>2, <1>3, <2>1, <2>3
  <2>. QED  BY <2>2, <2>4, PrefixIsPointwise
<1>. QED  BY <1>4, <1>5 DEF b, y

\* Nothing is there without what it is below.
Closed(tree) == DOMAIN tree \subseteq Paths /\ \A q \in DOMAIN tree : Above(q) \subseteq DOMAIN tree

LEMMA ClosedValue ==
    ASSUME NEW tree, Closed(tree), NEW p \in Paths
    PROVE  Closed(ValueAt(tree, p))
<1>1. DOMAIN ValueAt(tree, p) \subseteq Paths /\ DOMAIN tree \subseteq Paths
  BY ValueAtFacts DEF Closed
<1>2. ASSUME NEW x \in DOMAIN ValueAt(tree, p), NEW a \in Above(x)  PROVE a \in DOMAIN ValueAt(tree, p)
  <2>1. x \in Paths /\ a \in Paths /\ Len(a) < Len(x) /\ IsPrefix(a, x)
    BY <1>1, <1>2, AboveFacts
  <2>2. p \o x \in DOMAIN tree
    BY <1>1, <1>2, <2>1, ValueAtFacts
  <2>3. p \o a \in Above(p \o x)
    <3>1. IsPrefix(p \o a, p \o x)
      BY <2>1, JoinKeepsPrefix
    <3>2. Len(p \o a) = Len(p) + Len(a) /\ Len(p \o x) = Len(p) + Len(x) /\ p \o a \in Paths /\ p \o x \in Paths
      BY <2>1, JoinFacts
    <3>3. Len(p) \in Nat /\ Len(a) \in Nat /\ Len(x) \in Nat
      BY <2>1 DEF Paths
    <3>4. Len(p \o a) < Len(p \o x)
      BY <2>1, <3>2, <3>3
    <3>. QED  BY <3>1, <3>2, <3>4, AboveFacts
  <2>4. p \o a \in DOMAIN tree
    BY <2>2, <2>3 DEF Closed
  <2>. QED  BY <1>1, <2>1, <2>4, ValueAtFacts
<1>. QED  BY <1>1, <1>2 DEF Closed

LEMMA ClosedSetAtPath ==
    ASSUME NEW tree, Closed(tree), NEW path \in Paths, NEW v, IsTree(v)
    PROVE  Closed(setAtPath(tree, path, v))
<1>. DEFINE new == {path \o r : r \in DOMAIN v}
            kept == {q \in DOMAIN tree : ~IsPrefix(path, q) /\ ~\E a \in Above(path) : IsStrictPrefix(a, q) /\ tree[a] # "obj"}
            D == kept \cup new \cup Above(path)
<1>1. DOMAIN setAtPath(tree, path, v) = D
  BY DEF setAtPath
<1>2. DOMAIN v \subseteq Paths /\ \A r \in DOMAIN v : Above(r) \subseteq DOMAIN v
  BY TreeFacts
<1>3. DOMAIN tree \subseteq Paths
  BY DEF Closed
<1>4. D \subseteq Paths
  <2>1. new \subseteq Paths
    BY <1>2, JoinFacts
  <2>2. Above(path) \subseteq Paths
    BY AboveFacts
  <2>. QED  BY <1>3, <2>1, <2>2
<1>5. ASSUME NEW q \in Above(path), NEW a \in Above(q)  PROVE a \in Above(path)
  <2>1. q \in Paths /\ Len(q) < Len(path) /\ IsPrefix(q, path)
    BY <1>5, AboveFacts
  <2>2. a \in Paths /\ Len(a) < Len(q) /\ IsPrefix(a, q)
    BY <1>5, <2>1, AboveFacts
  <2>3. IsPrefix(a, path)
    BY <2>1, <2>2, PrefixOrder
  <2>4. Len(a) < Len(path)
    BY <2>1, <2>2 DEF Paths
  <2>. QED  BY <2>2, <2>3, <2>4, AboveFacts
<1>6. ASSUME NEW r \in DOMAIN v, NEW a \in Above(path \o r)  PROVE a \in D
  <2>. DEFINE q == path \o r
  <2>1. r \in Paths /\ q \in Paths /\ IsPrefix(path, q) /\ Len(q) = Len(path) + Len(r)
    BY <1>2, <1>6, JoinFacts
  <2>. HIDE DEF q
  <2>2. a \in Paths /\ Len(a) < Len(q) /\ IsPrefix(a, q)
    BY <1>6, <2>1, AboveFacts DEF q
  <2>3. Len(a) \in Nat /\ Len(path) \in Nat /\ Len(r) \in Nat
    BY <2>1, <2>2 DEF Paths
  <2>4. CASE Len(a) < Len(path)
    <3>1. IsPrefix(a, path)
      BY <2>1, <2>2, <2>3, <2>4, PrefixOrder
    <3>2. a \in Above(path)
      BY <2>2, <2>4, <3>1, AboveFacts
    <3>. QED  BY <3>2
  <2>5. CASE ~(Len(a) < Len(path))
    <3>1. IsPrefix(path, a)
      BY <2>1, <2>2, <2>3, <2>5, PrefixOrder
    <3>. DEFINE b == Drop(a, Len(path))
    <3>2. b \in Paths /\ path \o b = a
      BY <2>2, <3>1, SplitAtPrefix
    <3>. HIDE DEF b
    <3>3. IsPrefix(b, r)
      BY <2>1, <2>2, <3>2, JoinKeepsPrefix DEF q
    <3>4. Len(b) < Len(r)
      <4>1. Len(a) = Len(path) + Len(b) /\ Len(b) \in Nat
        BY <3>2, JoinFacts DEF Paths
      <4>. QED  BY <2>1, <2>2, <2>3, <4>1
    <3>5. b \in Above(r)
      BY <2>1, <3>2, <3>3, <3>4, AboveFacts
    <3>6. a \in new
      BY <1>2, <3>2, <3>5
    <3>. QED  BY <3>6
  <2>. QED  BY <2>4, <2>5
<1>7. ASSUME NEW q \in kept, NEW a \in Above(q)  PROVE a \in kept
  <2>1. q \in DOMAIN tree /\ q \in Paths /\ a \in DOMAIN tree
    BY <1>3, <1>7 DEF Closed
  <2>2. a \in Paths /\ Len(a) < Len(q) /\ IsPrefix(a, q) /\ Len(a) \in Nat /\ Len(q) \in Nat
    BY <1>7, <2>1, AboveFacts DEF Paths
  <2>3. ~IsPrefix(path, a)
    BY <1>7, <2>1, <2>2, PrefixOrder
  <2>4. ASSUME NEW b \in Above(path), IsStrictPrefix(b, a), tree[b] # "obj"  PROVE FALSE
    <3>1. b \in Paths /\ IsPrefix(b, a)
      BY <2>4, AboveFacts DEF IsStrictPrefix
    <3>2. IsPrefix(b, q)
      BY <2>1, <2>2, <3>1, PrefixOrder
    <3>3. Len(b) <= Len(a) /\ Len(b) \in Nat
      BY <2>2, <3>1, PrefixIsPointwise DEF Paths
    <3>4. b # q
      BY <2>2, <3>3
    <3>. QED  BY <1>7, <2>4, <3>2, <3>4 DEF IsStrictPrefix
  <2>. QED  BY <2>1, <2>3, <2>4
<1>. HIDE DEF D
<1>8. \A q \in D : Above(q) \subseteq D
  BY <1>5, <1>6, <1>7 DEF D
<1>. QED  BY <1>1, <1>4, <1>8 DEF Closed

\* The field when its patch has been applied: the value, and of what was there only members
\* of objects that were merged.
LEMMA FieldAfter ==
    ASSUME NEW t, Written(t), NEW tree, DOMAIN tree \subseteq Paths, ~\E q \in DOMAIN t.value : t.value[q] = "null"
    PROVE  LET v == ValueAt(MergePatch(tree, buildMergePatch(t)), t.field)
               c == ValueAt(tree, t.field)
           IN /\ \A x \in DOMAIN t.value : x \in DOMAIN v /\ v[x] = t.value[x]
              /\ \A x \in DOMAIN v \ DOMAIN t.value :
                   /\ x \in DOMAIN c /\ v[x] = c[x]
                   /\ \A y \in DOMAIN t.value : IsPrefix(y, x) => t.value[y] = "obj" /\ y \in DOMAIN c /\ c[y] = "obj"
<1>. DEFINE patch == buildMergePatch(t)
            m == MergePatch(tree, patch)
            f == t.field
            v == ValueAt(m, f)
            c == ValueAt(tree, f)
<1>1. f \in Paths /\ f # <<>> /\ DOMAIN t.value \subseteq Paths
  BY DEF Written
<1>2. DOMAIN m \subseteq Paths
  BY PatchPaths, MergedPaths
<1>3. \A x \in Paths : f \o x \in Paths /\ f \o x # <<>> /\ (f \o x)[1] = f[1]
  BY <1>1, FirstOfJoin
<1>4. \A x \in DOMAIN t.value : f \o x \in DOMAIN patch /\ patch[f \o x] = t.value[x]
  BY PatchFacts DEF Body
<1>5. ASSUME NEW x \in DOMAIN t.value  PROVE x \in DOMAIN v /\ v[x] = t.value[x]
  <2>1. x \in Paths /\ f \o x # <<>> /\ f \o x \in DOMAIN patch /\ patch[f \o x] # "null" /\ patch[f \o x] = t.value[x]
    BY <1>1, <1>3, <1>4, <1>5
  <2>. DEFINE q == f \o x
  <2>. HIDE DEF patch, q
  <2>4. q # <<>> /\ q \in DOMAIN patch /\ patch[q] # "null"
    BY <2>1 DEF q
  <2>5. q \in {r \in DOMAIN patch : r # <<>> /\ patch[r] # "null"}
    BY <2>4
  <2>. HIDE DEF m
  <2>6. \A z \in {r \in DOMAIN patch : r # <<>> /\ patch[r] # "null"} : z \in DOMAIN m /\ m[z] = patch[z]
    BY MergePatchFacts DEF m
  <2>2. f \o x \in DOMAIN m /\ m[f \o x] = patch[f \o x]
    BY <2>5, <2>6, Zenon DEF q
  <2>. HIDE DEF m
  <2>3. x \in DOMAIN v /\ v[x] = m[f \o x]
    BY <1>1, <1>2, <2>1, <2>2, ValueAtFacts
  <2>. QED  BY <2>1, <2>2, <2>3
<1>6. ASSUME NEW x \in DOMAIN v, x \notin DOMAIN t.value
      PROVE  /\ x \in DOMAIN c /\ v[x] = c[x]
             /\ \A y \in DOMAIN t.value : IsPrefix(y, x) => t.value[y] = "obj" /\ y \in DOMAIN c /\ c[y] = "obj"
  <2>1. x \in Paths /\ f \o x \in DOMAIN m /\ v[x] = m[f \o x]
    <3>. HIDE DEF m
    <3>1. x \in Paths
      BY <1>1, <1>2, <1>6, ValueAtFacts
    <3>. QED  BY <1>1, <1>2, <1>6, <3>1, ValueAtFacts
  <2>2. f \o x \notin DOMAIN patch
    <3>. SUFFICES ASSUME f \o x \in DOMAIN patch  PROVE FALSE
      OBVIOUS
    <3>1. f \o x \in Body(t)
      BY <1>3, <2>1, UnderOneName
    <3>2. f \o x \notin Above(f)
      <4>1. Len(f \o x) = Len(f) + Len(x)
        BY <1>1, <2>1, JoinFacts
      <4>2. Len(f) \in Nat /\ Len(x) \in Nat
        BY <1>1, <2>1, Zenon, LenProperties DEF Paths
      <4>3. ~(Len(f \o x) < Len(f))
        BY <4>1, <4>2
      <4>. QED  BY <1>1, <4>3, AboveFacts
    <3>3. PICK r \in DOMAIN t.value : f \o x = f \o r
      BY <3>1, <3>2 DEF Body
    <3>4. r = x
      <4>1. Drop(f \o x, Len(f)) = x /\ Drop(f \o r, Len(f)) = r
        BY <1>1, <2>1, JoinFacts
      <4>. QED  BY <3>3, <4>1
    <3>. QED  BY <1>6, <3>4
  <2>. DEFINE replaces(r) == r # <<>> /\ ~(patch[r] = "obj" /\ r \in DOMAIN tree /\ tree[r] = "obj")
  <2>3. /\ f \o x \in DOMAIN tree /\ m[f \o x] = tree[f \o x]
        /\ ~\E r \in DOMAIN patch : replaces(r) /\ IsPrefix(r, f \o x)
    <3>. HIDE DEF patch
    <3>. QED  BY <2>1, <2>2, MergePatchFacts
  <2>4. x \in DOMAIN c /\ c[x] = tree[f \o x]
    BY <1>1, <2>1, <2>3, ValueAtFacts
  <2>5. ASSUME NEW y \in DOMAIN t.value, IsPrefix(y, x)  PROVE t.value[y] = "obj" /\ y \in DOMAIN c /\ c[y] = "obj"
    <3>1. y \in Paths /\ f \o y \in DOMAIN patch /\ f \o y # <<>> /\ patch[f \o y] = t.value[y]
      BY <1>1, <1>3, <1>4, <2>5
    <3>2. IsPrefix(f \o y, f \o x)
      BY <1>1, <2>1, <2>5, <3>1, JoinKeepsPrefix
    <3>3. patch[f \o y] = "obj" /\ f \o y \in DOMAIN tree /\ tree[f \o y] = "obj"
      BY <2>3, <3>1, <3>2
    <3>4. y \in DOMAIN c /\ c[y] = tree[f \o y]
      BY <1>1, <3>1, <3>3, ValueAtFacts
    <3>. QED  BY <3>1, <3>3, <3>4
  <2>. QED  BY <2>1, <2>3, <2>4, <2>5
<1>. QED  BY <1>5, <1>6

LEMMA BaseMembers ==
    ASSUME NEW e, IsTree(e), e # Missing, NEW b \in Bases(e)
    PROVE  \E o \in asObjects(e) : \A k : k \in Keys(o, <<>>) <=> Append(b, k) \in DOMAIN e
<1>1. DOMAIN e \subseteq Paths /\ <<>> \in DOMAIN e /\ b \in DOMAIN e /\ b \in Paths
  BY TreeFacts DEF Bases
<1>2. ASSUME NEW o, b = <<>> /\ o = e  PROVE \A k : k \in Keys(o, <<>>) <=> Append(b, k) \in DOMAIN e
  BY <1>1, <1>2, MemberBelow
<1>3. ASSUME NEW o, o = ValueAt(e, b)  PROVE \A k : k \in Keys(o, <<>>) <=> Append(b, k) \in DOMAIN e
  <2>1. DOMAIN o \subseteq Paths
    BY <1>1, <1>3, ValueAtFacts
  <2>. SUFFICES ASSUME NEW k  PROVE k \in Keys(o, <<>>) <=> Append(b, k) \in DOMAIN e
    OBVIOUS
  <2>2. k \in Keys(o, <<>>) <=> k \in Names /\ <<k>> \in DOMAIN o
    BY <2>1, KeysFacts
  <2>3. k \in Names => <<k>> \in Paths /\ Append(b, k) = b \o <<k>>
    BY <1>1, AppendIsJoin
  <2>4. k \in Names => (<<k>> \in DOMAIN o <=> b \o <<k>> \in DOMAIN e)
    BY <1>1, <1>3, <2>3, ValueAtFacts
  <2>5. Append(b, k) \in DOMAIN e => k \in Names
    <3>1. Append(b, k) \in Paths => k \in Names
      BY <1>1, NextName
    <3>. QED  BY <1>1, <3>1
  <2>. QED  BY <2>2, <2>3, <2>4, <2>5
<1>. QED  BY <1>2, <1>3, BasesAreObjects

LEMMA PrefixIsThere ==
    ASSUME NEW e, IsTree(e), NEW x \in DOMAIN e, NEW p \in Paths, IsPrefix(p, x)
    PROVE  p \in DOMAIN e
<1>1. x \in Paths
  BY TreeFacts
<1>2. Len(p) <= Len(x) /\ Len(p) \in Nat /\ Len(x) \in Nat /\ \A i \in 1..Len(p) : p[i] = x[i]
  BY <1>1, PrefixIsPointwise DEF Paths
<1>3. CASE Len(p) = Len(x)
  <2>1. p = x
    BY <1>1, <1>2, <1>3, SeqEqual DEF Paths
  <2>. QED  BY <2>1
<1>4. CASE Len(p) # Len(x)
  <2>1. Len(p) < Len(x)
    BY <1>2, <1>4
  <2>2. p \in Above(x)
    BY <1>1, <2>1, AboveFacts
  <2>. QED  BY <2>2, TreeFacts
<1>. QED  BY <1>3, <1>4

LEMMA NextPrefix ==
    ASSUME NEW o \in Paths, NEW x \in Paths, IsStrictPrefix(o, x)
    PROVE  LET r == Append(o, x[Len(o) + 1]) IN r \in Paths /\ IsPrefix(r, x) /\ IsPrefix(o, x)
<1>. DEFINE k == x[Len(o) + 1]
            r == Append(o, k)
<1>1. /\ IsPrefix(o, x) /\ o # x /\ Len(o) <= Len(x) /\ Len(o) \in Nat /\ Len(x) \in Nat
      /\ \A i \in 1..Len(o) : o[i] = x[i]
  BY PrefixIsPointwise DEF IsStrictPrefix, Paths
<1>2. Len(o) # Len(x)
  BY <1>1, SeqEqual DEF Paths
<1>3. Len(o) + 1 \in 1..Len(x)
  BY <1>1, <1>2
<1>4. k \in Names
  BY <1>3, ElementOfSeq DEF Paths
<1>5. r \in Paths
  BY <1>4, AppendIsJoin
<1>. HIDE DEF k
<1>6. Len(r) = Len(o) + 1 /\ r[Len(o) + 1] = k /\ \A i \in 1..Len(o) : r[i] = o[i]
  BY NextName
<1>. HIDE DEF r
<1>7. \A i \in 1..Len(r) : i \in 1..Len(o) \/ i = Len(o) + 1
  BY <1>1, <1>6
<1>8. \A i \in 1..Len(r) : r[i] = x[i]
  BY <1>1, <1>6, <1>7 DEF k
<1>9. Len(r) <= Len(x)
  BY <1>1, <1>2, <1>6
<1>. QED  BY <1>1, <1>5, <1>8, <1>9, PrefixIsPointwise DEF r, k

\* What is there is mirrored as it is.
LEMMA MirrorKeeps ==
    ASSUME NEW t, NEW v, DOMAIN v \subseteq Paths, NEW q \in DOMAIN v
    PROVE  q \in DOMAIN Mirror(t, v) => Mirror(t, v)[q] = v[q]
<1>. DEFINE D == {r \in DOMAIN v \cup NullsIn(t, v) \cup EchoesIn(t, v) : ~HiddenIn(t, v, r)}
            m == [r \in D |-> IF r \in EchoesIn(t, v) THEN "default" ELSE IF r \in NullsIn(t, v) THEN "null" ELSE v[r]]
<1>1. Mirror(t, v) = m
  BY DEF Mirror, HiddenIn, NullsIn, EchoesIn
<1>2. q \notin NullsIn(t, v)
  BY DEF NullsIn
<1>3. q \notin EchoesIn(t, v)
  <2>. SUFFICES ASSUME q \in EchoesIn(t, v)  PROVE FALSE
    OBVIOUS
  <2>1. PICK p \in DOMAIN v : q \in {Append(p, k) : k \in UNION {EchoedAt(f.elem, v, p) : f \in Shaped(t)}}
    BY DEF EchoesIn
  <2>2. PICK k \in UNION {EchoedAt(f.elem, v, p) : f \in Shaped(t)} : q = Append(p, k)
    BY <2>1
  <2>3. k \notin Keys(v, p)
    BY <2>2 DEF EchoedAt
  <2>. QED  BY <2>2, <2>3, MemberBelow
<1>4. q \in DOMAIN m => m[q] = v[q]
  BY <1>2, <1>3
<1>. QED  BY <1>1, <1>4

\* The field holds what is expected, and of the rest only what is ignored.
Fits(t, v) ==
  LET e == effectiveExpectation(t)
  IN /\ DOMAIN v \subseteq Paths
     /\ \A x \in DOMAIN e : x \in DOMAIN v /\ v[x] = e[x]
     /\ \A x \in DOMAIN v \ DOMAIN e : e[<<>>] = "obj" /\ x # <<>> /\ x[1] \in t.ignoreMap

\* Without a member that the status cannot hold, all that is expected is shown.
LEMMA ExpectedIsShown ==
    ASSUME NEW t, Expectation(t), NEW v, Fits(t, v), unobservableKeys(t) = {}
    PROVE  LET e == effectiveExpectation(t)
               a == Mirror(t, v)
           IN \A x \in DOMAIN e : x \in DOMAIN a /\ a[x] = e[x]
<1>. DEFINE e == effectiveExpectation(t)
            names == {f.json : f \in Observed(t)}
<1>1. IsTree(e) /\ e # Missing /\ DOMAIN e \subseteq Paths /\ <<>> \in DOMAIN e
  BY TreeFacts DEF Expectation
<1>2. \A x \in DOMAIN e : x \in DOMAIN v /\ v[x] = e[x]
  BY DEF Fits
<1>3. DOMAIN v \subseteq Paths
  BY DEF Fits
<1>4. unobservableKeys(t) = IF ~Resolved(t) THEN {} ELSE (UNION {Keys(o, <<>>) : o \in asObjects(e)}) \ names
  BY DEF unobservableKeys
<1>. HIDE DEF e, names
<1>5. ASSUME NEW x \in DOMAIN e, HiddenIn(t, v, x)  PROVE FALSE
  <2>1. PICK o \in Shown(t, v) : IsStrictPrefix(o, x) /\ x[Len(o) + 1] \notin names
    BY <1>5 DEF HiddenIn, names
  <2>. DEFINE k == x[Len(o) + 1]
              r == Append(o, k)
  <2>2. Resolved(t) /\ o \in DOMAIN v /\ v[o] = "obj" /\ (o = <<>> \/ (v[<<>>] = "arr" /\ Len(o) = 1))
    BY DEF Shown
  <2>3. o \in Paths /\ x \in Paths
    BY <1>1, <1>3, <2>2
  <2>4. r \in Paths /\ IsPrefix(r, x) /\ IsPrefix(o, x)
    BY <2>1, <2>3, NextPrefix
  <2>5. r \in DOMAIN e /\ o \in DOMAIN e
    BY <1>1, <2>3, <2>4, PrefixIsThere
  <2>6. o \in Bases(e)
    BY <1>1, <1>2, <2>2, <2>5 DEF Bases
  <2>7. PICK object \in asObjects(e) : k \in Keys(object, <<>>) <=> r \in DOMAIN e
    BY <1>1, <2>6, BaseMembers
  <2>. QED  BY <1>4, <2>1, <2>2, <2>5, <2>7
<1>6. ASSUME NEW x \in DOMAIN e  PROVE x \in DOMAIN Mirror(t, v) /\ Mirror(t, v)[x] = e[x]
  <2>1. x \in DOMAIN v /\ v[x] = e[x] /\ ~HiddenIn(t, v, x)
    BY <1>2, <1>5
  <2>2. x \in DOMAIN Mirror(t, v)
    BY <2>1, MirrorFacts
  <2>. QED  BY <1>3, <2>1, <2>2, MirrorKeeps
<1>. QED  BY <1>6 DEF e

\* The rest that the provider shows is ignored, when no omitted and no echoed member is found.
Ignored(t, e, x) ==
  \/ e[<<>>] = "obj" /\ x # <<>> /\ x[1] \in t.ignoreMap
  \/ e[<<>>] = "arr" /\ ~(Len(x) < 2) /\ <<x[1]>> \in DOMAIN e /\ e[<<x[1]>>] = "obj" /\ x[2] \in t.ignoreList

LEMMA RestIsIgnored ==
    ASSUME NEW t, Expectation(t), NEW v, Fits(t, v),
           incompleteExpectationKeys(t) = {}, survivingSiblingKeys(t) = {}, walkServerEchoedMembers(t) = {},
           t.ignoreMap # {} => IsObject(effectiveExpectation(t)), t.ignoreList # {} => IsArray(effectiveExpectation(t)),
           NEW x \in DOMAIN Mirror(t, v), x \notin DOMAIN effectiveExpectation(t)
    PROVE  Ignored(t, effectiveExpectation(t), x)
<1>. DEFINE e == effectiveExpectation(t)
<1>1. IsTree(e) /\ e # Missing /\ DOMAIN e \subseteq Paths /\ <<>> \in DOMAIN e
  BY TreeFacts DEF Expectation
<1>2. /\ DOMAIN v \subseteq Paths
      /\ \A q \in DOMAIN e : q \in DOMAIN v /\ v[q] = e[q]
      /\ \A q \in DOMAIN v \ DOMAIN e : e[<<>>] = "obj" /\ q # <<>> /\ q[1] \in t.ignoreMap
  BY DEF Fits
<1>3. \A g \in Observed(t) : \A o \in asObjects(e) : ~g.omitempty /\ g.json \notin Keys(o, <<>>) => g.json \in t.ignoreMap \cup t.ignoreList
  BY DEF incompleteExpectationKeys, mergePatchSiblingKeySet
<1>4. \A f \in Shaped(t) : \A q \in DOMAIN e : EchoedAt(f.elem, e, q) = {}
  BY DEF walkServerEchoedMembers
<1>5. (t.ignoreMap # {} => e[<<>>] = "obj") /\ (t.ignoreList # {} => e[<<>>] = "arr")
  BY DEF IsObject, IsArray
<1>6. x \notin DOMAIN e
  OBVIOUS
<1>. SUFFICES Ignored(t, e, x)
  OBVIOUS
<1>. HIDE DEF e
<1>7. x \in DOMAIN v \cup NullsIn(t, v) \cup EchoesIn(t, v)
  BY MirrorFacts
<1>11. e[<<>>] = "obj" /\ x # <<>> /\ x[1] \in t.ignoreMap => Ignored(t, e, x)
  BY Zenon DEF Ignored
<1>12. e[<<>>] = "arr" /\ ~(Len(x) < 2) /\ <<x[1]>> \in DOMAIN e /\ e[<<x[1]>>] = "obj" /\ x[2] \in t.ignoreList => Ignored(t, e, x)
  BY Zenon DEF Ignored
<1>8. CASE x \in DOMAIN v
  BY <1>2, <1>6, <1>8, <1>11, Zenon
<1>9. CASE x \in NullsIn(t, v)
  <2>1. PICK o \in Shown(t, v), g \in {h \in Observed(t) : ~h.omitempty} : x = Append(o, g.json)
    BY <1>9 DEF NullsIn
  <2>. DEFINE k == g.json
  <2>2. o \in DOMAIN v /\ v[o] = "obj" /\ (o = <<>> \/ (v[<<>>] = "arr" /\ Len(o) = 1)) /\ o \in Paths
    BY <1>2 DEF Shown
  <2>3. v[<<>>] = e[<<>>]
    BY <1>1, <1>2
  <2>4. o \in DOMAIN e
    BY <1>1, <1>2, <2>2, <2>3
  <2>5. o \in Bases(e)
    BY <1>2, <2>2, <2>3, <2>4 DEF Bases
  <2>6. PICK object \in asObjects(e) : k \in Keys(object, <<>>) <=> Append(o, k) \in DOMAIN e
    BY <1>1, <2>5, BaseMembers
  <2>7. k \in t.ignoreMap \cup t.ignoreList
    BY <1>3, <1>6, <2>1, <2>6
  <2>. HIDE DEF k
  <2>8. Len(x) = Len(o) + 1 /\ Len(o) \in Nat /\ x # <<>> /\ x[Len(o) + 1] = k /\ \A i \in 1..Len(o) : x[i] = o[i]
    BY <2>1, <2>2, NextName DEF k
  <2>9. CASE k \in t.ignoreMap
    <3>1. e[<<>>] = "obj" /\ o = <<>>
      BY <1>5, <2>2, <2>3, <2>9
    <3>2. x[1] = k
      BY <2>8, <3>1
    <3>. QED  BY <1>11, <2>8, <2>9, <3>1, <3>2, Zenon
  <2>10. CASE k \in t.ignoreList
    <3>1. e[<<>>] = "arr"
      BY <1>5, <2>10
    <3>2. Len(o) = 1 /\ o # <<>>
      BY <2>2, <2>3, <2>4, <3>1, <1>2
    <3>3. x[2] = k /\ x[1] = o[1] /\ ~(Len(x) < 2)
      BY <2>8, <3>2
    <3>4. o = <<o[1]>>
      BY <2>2, <3>2, OneName
    <3>5. <<x[1]>> = o
      BY <3>3, <3>4
    <3>6. e[o] = "obj"
      BY <1>2, <2>2, <2>4
    <3>. QED  BY <1>12, <2>4, <2>10, <3>1, <3>3, <3>5, <3>6, Zenon
  <2>. QED  BY <2>7, <2>9, <2>10
<1>10. CASE x \in EchoesIn(t, v)
  <2>1. PICK q \in DOMAIN v : x \in {Append(q, k) : k \in UNION {EchoedAt(f.elem, v, q) : f \in Shaped(t)}}
    BY <1>10 DEF EchoesIn
  <2>2. PICK k \in UNION {EchoedAt(f.elem, v, q) : f \in Shaped(t)} : x = Append(q, k)
    BY <2>1
  <2>3. PICK f \in Shaped(t) : k \in EchoedAt(f.elem, v, q)
    BY <2>2
  <2>4. q \in Paths /\ Len(q) \in Nat
    BY <1>2 DEF Paths
  <2>5. CASE q \in DOMAIN e
    <3>1. \A n \in 0..(Len(q) - 1) : SubSeq(q, 1, n) \in DOMAIN e
      BY <1>1, <2>5 DEF IsTree
    <3>2. \A n \in 0..(Len(q) - 1) : v[SubSeq(q, 1, n)] = e[SubSeq(q, 1, n)]
      BY <1>2, <3>1
    <3>3. TypeAt(f.elem, v, q) = TypeAt(f.elem, e, q)
      BY <2>4, <3>2, SameType
    <3>4. k \notin Keys(v, q) /\ v[q] = "obj"
      BY <2>3 DEF EchoedAt
    <3>5. k \notin Keys(e, q)
      BY <1>1, <1>2, <2>5, <3>4, MemberBelow
    <3>6. k \in EchoedAt(f.elem, e, q)
      BY <1>2, <2>3, <2>5, <3>3, <3>4, <3>5 DEF EchoedAt
    <3>. QED  BY <1>4, <2>5, <3>6
  <2>6. CASE q \notin DOMAIN e
    <3>1. e[<<>>] = "obj" /\ q # <<>> /\ q[1] \in t.ignoreMap
      BY <1>2, <2>6
    <3>2. x # <<>> /\ \A i \in 1..Len(q) : x[i] = q[i]
      BY <2>2, <2>4, NextName
    <3>3. x[1] = q[1]
      BY <2>4, <3>1, <3>2, NonEmpty
    <3>. QED  BY <1>11, <3>1, <3>2, <3>3, Zenon
  <2>. QED  BY <2>5, <2>6
<1>. QED  BY <1>7, <1>8, <1>9, <1>10

LEMMA StripIsFunction ==
    ASSUME NEW t, NEW tree, tree = [q \in DOMAIN tree |-> tree[q]]
    PROVE  Strip(t, tree) = [q \in DOMAIN Strip(t, tree) |-> Strip(t, tree)[q]]
<1>1. \A v, keys : v = [q \in DOMAIN v |-> v[q]] => stripKeys(v, keys) = [q \in DOMAIN stripKeys(v, keys) |-> stripKeys(v, keys)[q]]
  BY DEF stripKeys
<1>2. \A v, keys : v = [q \in DOMAIN v |-> v[q]] =>
        stripListElementKeys(v, keys) = [q \in DOMAIN stripListElementKeys(v, keys) |-> stripListElementKeys(v, keys)[q]]
  BY DEF stripListElementKeys
<1>3. stripKeys(tree, t.ignoreMap) = [q \in DOMAIN stripKeys(tree, t.ignoreMap) |-> stripKeys(tree, t.ignoreMap)[q]]
  BY <1>1, Zenon
<1>. DEFINE s == stripKeys(tree, t.ignoreMap)
<1>. HIDE DEF s
<1>4. s = [q \in DOMAIN s |-> s[q]]
  BY <1>3 DEF s
<1>5. stripListElementKeys(s, t.ignoreList)
        = [q \in DOMAIN stripListElementKeys(s, t.ignoreList) |-> stripListElementKeys(s, t.ignoreList)[q]]
  BY <1>2, <1>4, Zenon
<1>. QED  BY <1>5 DEF Strip, s

\* With no finding, what the provider shows is what is expected.
LEMMA CleanMatches ==
    ASSUME NEW t, Expectation(t), NEW v, Fits(t, v),
           unobservableKeys(t) = {}, incompleteExpectationKeys(t) = {}, survivingSiblingKeys(t) = {}, walkServerEchoedMembers(t) = {},
           t.ignoreMap # {} => IsObject(effectiveExpectation(t)), t.ignoreList # {} => IsArray(effectiveExpectation(t)),
           effectiveExpectation(t)[<<>>] # "null"
    PROVE  compareFieldValue(t, Mirror(t, v))
<1>. DEFINE e == effectiveExpectation(t)
            a == Mirror(t, v)
<1>1. IsTree(e) /\ e # Missing /\ DOMAIN e \subseteq Paths /\ <<>> \in DOMAIN e /\ e = [q \in DOMAIN e |-> e[q]]
  BY TreeFacts DEF Expectation
<1>2. \A x \in DOMAIN e : x \in DOMAIN a /\ a[x] = e[x]
  BY ExpectedIsShown
<1>3. \A x \in DOMAIN a \ DOMAIN e : Ignored(t, e, x)
  BY RestIsIgnored
<1>4. a = [q \in DOMAIN a |-> a[q]]
  <2>. DEFINE D == {r \in DOMAIN v \cup NullsIn(t, v) \cup EchoesIn(t, v) : ~HiddenIn(t, v, r)}
              m == [r \in D |-> IF r \in EchoesIn(t, v) THEN "default" ELSE IF r \in NullsIn(t, v) THEN "null" ELSE v[r]]
  <2>1. a = m
    BY DEF Mirror, HiddenIn, NullsIn, EchoesIn
  <2>2. m = [q \in DOMAIN m |-> m[q]]
    BY Zenon
  <2>. HIDE DEF a, m
  <2>. QED  BY <2>1, <2>2
<1>5. (t.ignoreMap # {} => IsObject(e)) /\ (t.ignoreList # {} => IsArray(e)) /\ e[<<>>] # "null"
  OBVIOUS
<1>6. DOMAIN Strip(t, e) = DOMAIN e
  BY NothingIgnored
<1>7. compareFieldValue(t, a) =
        IF t.ignoreMap = {} /\ t.ignoreList = {} THEN jsonEqual(e, a) ELSE Decodes(a) /\ Strip(t, e) = Strip(t, a)
  BY DEF compareFieldValue, Strip
<1>. HIDE DEF e, a
<1>8. CASE t.ignoreMap = {} /\ t.ignoreList = {}
  <2>1. \A x \in DOMAIN a : x \in DOMAIN e
    BY <1>3, <1>8 DEF Ignored
  <2>2. DOMAIN a = DOMAIN e /\ \A x \in DOMAIN a : a[x] = e[x]
    BY <1>2, <2>1
  <2>3. a = e
    BY <1>1, <1>4, <2>2
  <2>4. e # Nil
    BY <1>5 DEF Nil
  <2>5. jsonEqual(e, a)
    BY <2>3, <2>4 DEF jsonEqual
  <2>. QED  BY <1>7, <1>8, <2>5 DEF a
<1>9. CASE ~(t.ignoreMap = {} /\ t.ignoreList = {})
  <2>1. <<>> \in DOMAIN a /\ a[<<>>] = e[<<>>]
    BY <1>1, <1>2
  <2>2. Decodes(a)
    <3>1. a # Missing
      BY <2>1 DEF Missing
    <3>2. e[<<>>] \in {"obj", "arr"}
      BY <1>5, <1>9 DEF IsObject, IsArray
    <3>. QED  BY <2>1, <3>1, <3>2 DEF Decodes
  <2>3. ASSUME NEW x \in DOMAIN a  PROVE x \in DOMAIN Strip(t, a) => x \in DOMAIN e
    <3>. SUFFICES ASSUME x \notin DOMAIN e  PROVE x \notin DOMAIN Strip(t, a)
      OBVIOUS
    <3>1. Ignored(t, e, x)
      BY <1>3
    <3>2. CASE e[<<>>] = "obj" /\ x # <<>> /\ x[1] \in t.ignoreMap
      BY <2>1, <3>2, StripFacts
    <3>3. CASE e[<<>>] = "arr" /\ ~(Len(x) < 2) /\ <<x[1]>> \in DOMAIN e /\ e[<<x[1]>>] = "obj" /\ x[2] \in t.ignoreList
      <4>1. a[<<x[1]>>] = "obj"
        BY <1>2, <3>3
      <4>. QED  BY <2>1, <3>3, <4>1, StripFacts
    <3>. QED  BY <3>1, <3>2, <3>3, Zenon DEF Ignored
  <2>4. ASSUME NEW x \in DOMAIN e  PROVE x \in DOMAIN Strip(t, a)
    <3>1. x \in Paths /\ x \in DOMAIN Strip(t, e) /\ x \in DOMAIN a
      BY <1>1, <1>2, <1>6
    <3>2. CASE e[<<>>] = "obj"
      <4>1. x = <<>> \/ x[1] \notin t.ignoreMap
        BY <1>1, <3>1, <3>2, StripFacts
      <4>. QED  BY <2>1, <3>1, <3>2, <4>1, StripFacts
    <3>3. CASE e[<<>>] = "arr"
      <4>1. Len(x) < 2 \/ e[<<x[1]>>] # "obj" \/ x[2] \notin t.ignoreList
        BY <1>1, <3>1, <3>3, StripFacts
      <4>2. Len(x) < 2 \/ a[<<x[1]>>] = e[<<x[1]>>]
        <5>. SUFFICES ASSUME ~(Len(x) < 2)  PROVE a[<<x[1]>>] = e[<<x[1]>>]
          OBVIOUS
        <5>1. Len(x) \in Nat
          BY <3>1 DEF Paths
        <5>2. x # <<>> /\ Len(x) > 1
          BY <3>1, <5>1
        <5>3. <<x[1]>> \in Above(x)
          BY <3>1, <5>2, RootAbove
        <5>4. <<x[1]>> \in DOMAIN e
          BY <1>1, <5>3, TreeFacts
        <5>. QED  BY <1>2, <5>4
      <4>3. Len(x) < 2 \/ a[<<x[1]>>] # "obj" \/ x[2] \notin t.ignoreList
        BY <4>1, <4>2
      <4>. QED  BY <2>1, <3>1, <3>3, <4>3, StripFacts
    <3>4. CASE e[<<>>] # "obj" /\ e[<<>>] # "arr"
      BY <2>1, <3>1, <3>4, StripFacts
    <3>. QED  BY <3>2, <3>3, <3>4
  <2>. DEFINE se == Strip(t, e)
              sa == Strip(t, a)
  <2>5. se = [q \in DOMAIN se |-> se[q]] /\ sa = [q \in DOMAIN sa |-> sa[q]]
    BY <1>1, <1>4, StripIsFunction
  <2>6. DOMAIN sa \subseteq DOMAIN a /\ (\A q \in DOMAIN sa : sa[q] = a[q]) /\ (\A q \in DOMAIN se : se[q] = e[q])
    BY StripShrinks
  <2>7. DOMAIN se = DOMAIN e
    BY <1>6
  <2>. HIDE DEF se, sa
  <2>8. DOMAIN se = DOMAIN sa
    BY <2>3, <2>4, <2>6, <2>7 DEF sa
  <2>9. \A q \in DOMAIN se : se[q] = sa[q]
    BY <1>2, <2>6, <2>7, <2>8
  <2>10. se = sa
    BY <2>5, <2>8, <2>9
  <2>. QED  BY <1>7, <1>9, <2>2, <2>10 DEF a, se, sa
<1>. QED  BY <1>8, <1>9

\* A member of the created object that outlives the patch is ignored, when no surviving member
\* is found and no object is merged inside the object.
LEMMA OnlyIgnoredSurvive ==
    ASSUME NEW t, IsTree(t.value), t.value # Missing, t.expect = Nil, t.field \in Paths,
           Closed(forProvider), survivingSiblingKeys(t) = {},
           \A k \in Keys(t.value, <<>>) : ~(t.value[<<k>>] = "obj" /\ IsObject(ValueAt(forProvider, Append(t.field, k)))),
           NEW x, x \in DOMAIN ValueAt(forProvider, t.field), x \notin DOMAIN t.value,
           \A y \in DOMAIN t.value : IsPrefix(y, x) =>
             t.value[y] = "obj" /\ y \in DOMAIN ValueAt(forProvider, t.field) /\ ValueAt(forProvider, t.field)[y] = "obj"
    PROVE  t.value[<<>>] = "obj" /\ x # <<>> /\ x[1] \in t.ignoreMap
<1>. DEFINE c == ValueAt(forProvider, t.field)
            val == t.value
            f == t.field
<1>1. DOMAIN val \subseteq Paths /\ <<>> \in DOMAIN val /\ DOMAIN forProvider \subseteq Paths
  BY TreeFacts DEF Closed
<1>2. Closed(c) /\ DOMAIN c \subseteq Paths /\ x \in Paths
  BY ClosedValue DEF Closed
<1>3. survivingSiblingKeys(t) = IF ~IsObject(val) \/ ~IsObject(c) THEN {}
                                ELSE Keys(c, <<>>) \ (t.ignoreMap \cup Keys(val, <<>>) \cup (IF IsObject(val) THEN Keys(val, <<>>) ELSE {}))
  BY DEF survivingSiblingKeys, effectiveExpectation
<1>4. IsPrefix(<<>>, x)
  <2>1. <<>> \in Paths /\ Len(<<>>) = 0
    BY <1>1
  <2>2. Len(x) \in Nat
    BY <1>2 DEF Paths
  <2>. DEFINE o == <<>>
  <2>3. o \in Paths /\ Len(o) = 0
    BY <2>1
  <2>. HIDE DEF o
  <2>4. IsPrefix(o, x)
    BY <1>2, <2>2, <2>3, PrefixIsPointwise
  <2>. QED  BY <2>4 DEF o
<1>5. val[<<>>] = "obj" /\ <<>> \in DOMAIN c /\ c[<<>>] = "obj"
  BY <1>1, <1>4
<1>6. IsObject(val) /\ IsObject(c)
  BY <1>1, <1>5 DEF IsObject, Missing
<1>7. x # <<>>
  BY <1>1
<1>. DEFINE k == x[1]
<1>8. Len(x) \in Nat \ {0} /\ k \in Names
  BY <1>2, <1>7, NonEmpty
<1>9. <<k>> \in Paths /\ <<k>> \in DOMAIN c /\ IsPrefix(<<k>>, x)
  <2>1. (Len(x) > 1 => <<k>> \in Above(x)) /\ <<k>> \in Paths /\ (Len(x) = 1 => x = <<k>>)
    BY <1>2, <1>7, RootAbove
  <2>. DEFINE o == <<k>>
  <2>2. (Len(x) > 1 => o \in Above(x)) /\ o \in Paths /\ (Len(x) = 1 => x = o)
    BY <2>1
  <2>. HIDE DEF o, k
  <2>3. CASE Len(x) = 1
    BY <1>2, <2>2, <2>3, PrefixOfJoin DEF o
  <2>4. CASE Len(x) # 1
    <3>1. Len(x) > 1
      <4>1. \A n \in Nat \ {0} : n # 1 => n > 1
        OBVIOUS
      <4>. QED  BY <1>8, <2>4, <4>1, Zenon
    <3>2. o \in Above(x) /\ o \in DOMAIN c
      BY <1>2, <2>2, <3>1 DEF Closed
    <3>3. IsPrefix(o, x)
      BY <1>2, <3>2, AboveFacts
    <3>. QED  BY <2>2, <3>2, <3>3 DEF o
  <2>. QED  BY <2>3, <2>4
<1>. HIDE DEF k
<1>10. k \in Keys(c, <<>>)
  BY <1>2, <1>8, <1>9, KeysFacts
<1>11. k \notin Keys(val, <<>>)
  <2>. SUFFICES ASSUME k \in Keys(val, <<>>)  PROVE FALSE
    OBVIOUS
  <2>1. <<k>> \in DOMAIN val
    BY <1>1, KeysFacts
  <2>2. val[<<k>>] = "obj" /\ c[<<k>>] = "obj"
    BY <1>9, <2>1
  <2>3. Append(f, k) \in Paths /\ Append(f, k) = f \o <<k>>
    BY <1>8, AppendIsJoin
  <2>4. Append(f, k) \in DOMAIN forProvider /\ forProvider[Append(f, k)] = "obj"
    BY <1>1, <1>9, <2>2, <2>3, ValueAtFacts
  <2>5. <<>> \in DOMAIN ValueAt(forProvider, Append(f, k)) /\ ValueAt(forProvider, Append(f, k))[<<>>] = "obj"
    BY <1>1, <2>3, <2>4, RootOfValue
  <2>6. IsObject(ValueAt(forProvider, Append(f, k)))
    BY <2>5 DEF IsObject, Missing
  <2>. QED  BY <2>2, <2>6
<1>12. k \in t.ignoreMap
  BY <1>3, <1>6, <1>10, <1>11
<1>. QED  BY <1>5, <1>7, <1>12 DEF k

-----------------------------------------------------------------------------
(***************************************************************************)
(* The object that the author writes, and what follows of its entries.     *)
(***************************************************************************)
ObjectInv == ManifestIsEntries /\ Closed(forProvider)

LEMMA ObjectInvInit == Init => ObjectInv
<1>. DEFINE o == <<>>
<1>1. o \in Paths /\ Len(o) = 0
  BY EmptySeq DEF Paths
<1>2. DOMAIN Empty = {o}
  BY DEF Empty
<1>. HIDE DEF o
<1>3. Above(o) = {}
  <2>. SUFFICES ASSUME NEW a \in Above(o)  PROVE FALSE
    OBVIOUS
  <2>1. a \in Paths /\ Len(a) < 0
    BY <1>1, AboveFacts
  <2>2. Len(a) \in Nat
    BY <2>1 DEF Paths
  <2>. QED  BY <2>1, <2>2
<1>. QED  BY <1>1, <1>2, <1>3, ManifestHolds DEF Init, ObjectInv, Closed

LEMMA ObjectInvNext == ObjectInv /\ [Next]_vars => ObjectInv'
<1>. SUFFICES ASSUME ObjectInv, [Next]_vars  PROVE ObjectInv'
  OBVIOUS
<1>1. ManifestIsEntries'
  BY OneEntryAtATime DEF ObjectInv
<1>2. CASE SetField
  <2>1. PICK e \in Edits : forProvider' = setAtPath(forProvider, e.path, e.value)
    BY <1>2 DEF SetField
  <2>2. e.path \in Seq(STRING) \ {<<>>} /\ IsTree(e.value)
    BY ValidateAssumption
  <2>3. e.path \in Paths
    <3>1. Seq(STRING) \subseteq Paths
      BY SeqMonotonic DEF Paths, Names
    <3>. QED  BY <2>2, <3>1
  <2>4. Closed(setAtPath(forProvider, e.path, e.value))
    BY <2>2, <2>3, ClosedSetAtPath DEF ObjectInv
  <2>. QED  BY <1>1, <2>1, <2>4 DEF ObjectInv, Closed
<1>3. CASE Declare \/ Withdraw \/ UNCHANGED vars
  <2>1. forProvider' = forProvider
    BY <1>3 DEF Declare, Withdraw, vars
  <2>. QED  BY <1>1, <2>1 DEF ObjectInv, Closed
<1>. QED  BY <1>2, <1>3 DEF Next

\* What validate reports of the members of an expectation, and every no-op, does fail the entry.
THEOREM FindingsAreRealAlways == Spec => []FindingsAreReal
<1>1. ObjectInv => FindingsAreReal
  <2>. SUFFICES ASSUME ObjectInv, Accepted, NEW i \in DOMAIN tests
                PROVE  LET t == tests[i]
                       IN ~Skipped(t) =>
                            /\ CheckGuaranteedNoOp(i) /\ t.value # Nil => NoOp(t, Before[i])
                            /\ unobservableKeys(t) # {} \/ incompleteExpectationKeys(t) # {} \/ EchoedAndShown(t) # {}
                                 => NoOp(t, Before[i]) \/ ~Matches(i)
    BY DEF FindingsAreReal, Readable
  <2>. DEFINE t == tests[i]
              v == ValueAt(Apply(Before[i], t), t.field)
  <2>1. ManifestIsEntries /\ ObjectIsPaths /\ t \in EntriesOf(tests) /\ i \in 1..(Len(tests) + 1)
    BY DEF ObjectInv, Closed, ObjectIsPaths, ManifestIsEntries, EntriesOf
  <2>2. CheckGuaranteedNoOp(i) /\ t.value # Nil => NoOp(t, Before[i])
    BY <2>1, NoOpIsReal
  <2>3. Written(t) /\ Expectation(t)
    BY <2>1, AcceptedEntry, AcceptedExpectation
  <2>4. DOMAIN v \subseteq Paths
    <3>1. DOMAIN Before[i] \subseteq Paths
      BY <2>1, BeforePaths
    <3>2. DOMAIN Apply(Before[i], t) \subseteq Paths
      BY <2>3, <3>1, ApplyKeeps
    <3>3. t.field \in Paths
      BY <2>3 DEF Written
    <3>. QED  BY <3>2, <3>3, ValueAtFacts
  <2>5. Matches(i) <=> compareFieldValue(t, Mirror(t, v))
    BY DEF Matches
  <2>. HIDE DEF t, v
  <2>6. unobservableKeys(t) # {} \/ incompleteExpectationKeys(t) # {} \/ EchoedAndShown(t) # {} => ~Matches(i)
    BY <2>3, <2>4, <2>5, UnobservableIsReal, IncompleteIsReal, EchoIsReal
  <2>. QED  BY <2>2, <2>6 DEF t
<1>. QED  BY <1>1, ObjectInvInit, ObjectInvNext, PTL DEF Spec

\* A manifest that validate passes passes on a right provider (but for the entries whose match
\* validate does not judge).
THEOREM CleanManifestPassesAlways == Spec => []CleanManifestPasses
<1>1. ObjectInv => CleanManifestPasses
  <2>. DEFINE Judged(t) ==
                /\ ~Skipped(t) /\ Len(t.field) = 1 /\ ~RepeatsDefault(t) /\ t.expect = Nil
                /\ \A q \in DOMAIN t.value : t.value[q] # "null"
                /\ t.ignoreMap # {} => IsObject(t.value)
                /\ t.ignoreList # {} => IsArray(t.value)
                /\ \A k \in Keys(t.value, <<>>) : ~(t.value[<<k>>] = "obj" /\ IsObject(ValueAt(forProvider, Append(t.field, k))))
  <2>. SUFFICES ASSUME ObjectInv, cmdValidate, NEW i \in DOMAIN tests, FirstTouch(i), Judged(tests[i])
                PROVE  ~NoOp(tests[i], Before[i]) /\ Matches(i)
    BY Zenon DEF CleanManifestPasses
  <2>. DEFINE t == tests[i]
              x == Before[i]
              v == ValueAt(Apply(x, t), t.field)
              c == ValueAt(forProvider, t.field)
  <2>1. /\ ManifestIsEntries /\ ObjectIsPaths /\ Closed(forProvider)
        /\ t \in EntriesOf(tests) /\ i \in 1..(Len(tests) + 1)
    BY DEF ObjectInv, Closed, ObjectIsPaths, ManifestIsEntries, EntriesOf
  <2>2. Accepted /\ NoFindings(t) /\ ~CheckGuaranteedNoOp(i)
    BY DEF cmdValidate, Readable
  <2>3. Written(t) /\ Expectation(t) /\ t \in Entries
    BY <2>1, <2>2, AcceptedEntry, AcceptedExpectation
  <2>4. IsTree(t.value) /\ t.value # Missing /\ t.field \in Paths
    BY <2>3, ValidateAssumption DEF Written
  <2>5. effectiveExpectation(t) = t.value
    BY DEF effectiveExpectation
  <2>6. unobservableKeys(t) = {} /\ incompleteExpectationKeys(t) = {} /\ survivingSiblingKeys(t) = {} /\ walkServerEchoedMembers(t) = {}
    BY <2>2 DEF NoFindings, CheckObservability, CheckMergePatchSiblings, CheckIncompleteExpectations, CheckServerEchoedExpectations
  <2>7. ValueAt(x, t.field) = c
    BY <2>1, <2>2, FirstTouchFindsIt
  <2>8. t.value[<<>>] # "null" /\ <<>> \in DOMAIN t.value
    BY <2>4, TreeFacts
  <2>9. ~NoOp(t, x)
    <3>1. t.value # Nil
      BY <2>8 DEF Nil
    <3>2. c # t.value
      BY <2>2 DEF CheckGuaranteedNoOp, guaranteedNoOpEqual
    <3>3. readCurrentValue(x, t.field) # t.value
      <4>1. CASE HeldIn(x, t.field)
        BY <2>7, <3>2, <4>1 DEF readCurrentValue
      <4>2. CASE ~HeldIn(x, t.field)
        <5>1. ~HeldIn(forProvider, t.field)
          BY <2>7, <4>2 DEF HeldIn
        <5>2. ValueAt(Backend, t.field) # t.value
          BY <5>1 DEF RepeatsDefault
        <5>. QED  BY <4>2, <5>2 DEF readCurrentValue
      <4>. QED  BY <4>1, <4>2
    <3>. QED  BY <3>1, <3>3 DEF NoOp, jsonEqual
  <2>10. DOMAIN x \subseteq Paths
    BY <2>1, <2>2, BeforePaths
  <2>11. Apply(x, t) = MergePatch(x, buildMergePatch(t))
    BY <2>9 DEF Apply
  <2>12. DOMAIN v \subseteq Paths
    <3>1. DOMAIN Apply(x, t) \subseteq Paths
      BY <2>3, <2>10, ApplyKeeps
    <3>. QED  BY <2>4, <3>1, ValueAtFacts
  <2>. HIDE DEF x
  <2>13. /\ \A q \in DOMAIN t.value : q \in DOMAIN v /\ v[q] = t.value[q]
         /\ \A q \in DOMAIN v \ DOMAIN t.value :
              /\ q \in DOMAIN c
              /\ \A y \in DOMAIN t.value : IsPrefix(y, q) => t.value[y] = "obj" /\ y \in DOMAIN c /\ c[y] = "obj"
    BY <2>3, <2>7, <2>10, <2>11, FieldAfter
  <2>14. \A q \in DOMAIN v \ DOMAIN t.value : t.value[<<>>] = "obj" /\ q # <<>> /\ q[1] \in t.ignoreMap
    BY <2>1, <2>4, <2>6, <2>13, OnlyIgnoredSurvive
  <2>15. Fits(t, v)
    BY <2>5, <2>12, <2>13, <2>14 DEF Fits
  <2>16. compareFieldValue(t, Mirror(t, v))
    BY <2>3, <2>5, <2>6, <2>8, <2>15, CleanMatches
  <2>. QED  BY <2>9, <2>16 DEF Matches, x
<1>. QED  BY <1>1, ObjectInvInit, ObjectInvNext, PTL DEF Spec

==============================================================================
