------------------------- MODULE ToolCallScan_proof -------------------------
(***************************************************************************)
(* Proofs about ToolCallScan for replies of any bounded length: the loop   *)
(* with its three locals cuts at the place where the grammar ends the      *)
(* first object, and nowhere else.  The grammar is recursive, so the       *)
(* lemmas about its words go by induction on their length.                 *)
(***************************************************************************)
EXTENDS ToolCallScan, SequenceTheorems, WellFoundedInduction, TLAPS

-----------------------------------------------------------------------------
(* Induction, from the well-foundedness of < : a set of numbers takes the  *)
(* place of the predicate                                                  *)

Below == {p \in Nat \X Nat : p[1] < p[2]}

LEMMA LeastMember ==
  ASSUME NEW S \in SUBSET Nat, S # {}
  PROVE  \E n \in S : \A m \in S : n <= m
<1>1. IsWellFoundedOn(Below, Nat)
  BY NatLessThanWellFounded DEF Below, OpToRel
<1>2. PICK n \in S : ~ \E m \in S : <<m, n>> \in Below
  BY <1>1, WFMin
<1>3. ASSUME NEW m \in S, m < n
      PROVE  FALSE
  <2>1. <<m, n>> \in Below
    BY <1>3 DEF Below
  <2>2. QED
    BY <1>2, <2>1
<1>4. n \in Nat /\ \A m \in S : m \in Nat
  OBVIOUS
<1>5. QED
  BY <1>3, <1>4

LEMMA Induction ==
  ASSUME NEW S, \A n \in Nat : (\A k \in 0 .. n - 1 : k \in S) => n \in S
  PROVE  \A n \in Nat : n \in S
<1> DEFINE Missing == {n \in Nat : n \notin S}
<1>1. SUFFICES ASSUME Missing # {}
               PROVE  FALSE
  OBVIOUS
<1>2. PICK n \in Missing : \A m \in Missing : n <= m
  BY <1>1, LeastMember
<1>3. \A k \in 0 .. n - 1 : k \in S
  BY <1>2
<1>4. QED
  BY <1>2, <1>3

-----------------------------------------------------------------------------
(* The grammar is the fixed point its definition writes down *)

Lengths     == 0 .. MaxLength
Level(G, n) == [contents |-> Contents(G, n), items |-> Items(G, n)]

\* A level looks at shorter words only.
LEMMA LevelIsLocal ==
  ASSUME NEW G, NEW H, NEW n \in Nat, \A k \in 0 .. n - 1 : G[k] = H[k]
  PROVE  Level(G, n) = Level(H, n)
<1>1. Contents(G, n) = Contents(H, n)
  <2>1. CASE n = 0
    BY <2>1 DEF Contents
  <2>2. CASE n = 1
    <3>1. G[n - 1] = H[n - 1]
      BY <2>2
    <3>2. QED
      BY <2>2, <3>1 DEF Contents
  <2>3. CASE n > 1
    <3>1. G[n - 1] = H[n - 1] /\ G[n - 2] = H[n - 2]
      BY <2>3
    <3>2. QED
      BY <2>3, <3>1 DEF Contents
  <2>4. QED
    BY <2>1, <2>2, <2>3
<1>2. \A k \in Nat : k <= n => StringsOf(G, k) = StringsOf(H, k) /\ ObjectsOf(G, k) = ObjectsOf(H, k)
  BY DEF StringsOf, ObjectsOf
<1>3. \A k \in 1 .. n : ItemsOf(G, k) = ItemsOf(H, k)
  BY <1>2 DEF ItemsOf
<1>4. \A k \in 1 .. n : Concat(ItemsOf(G, k), G[n - k].items) = Concat(ItemsOf(H, k), H[n - k].items)
  BY <1>3
<1>5. Items(G, n) = Items(H, n)
  BY <1>4 DEF Items
<1>6. QED
  BY <1>1, <1>5 DEF Level

GrammarUpTo(G, m) == G = [n \in 0 .. m |-> Level(G, n)]

LEMMA GrammarExists == \A m \in Nat : \E G : GrammarUpTo(G, m)
<1> DEFINE S == {m \in Nat : \E G : GrammarUpTo(G, m)}
<1>1. ASSUME NEW m \in Nat, \A k \in 0 .. m - 1 : k \in S
      PROVE  m \in S
  <2>1. PICK H : m > 0 => GrammarUpTo(H, m - 1)
    <3>1. CASE m = 0
      BY <3>1
    <3>2. CASE m > 0
      BY <1>1, <3>2
    <3>3. QED
      BY <3>1, <3>2
  <2> DEFINE G == [n \in 0 .. m |-> IF n = m THEN Level(H, m) ELSE H[n]]
  <2>2. \A k \in 0 .. m - 1 : G[k] = H[k] /\ H[k] = Level(H, k)
    BY <2>1 DEF GrammarUpTo
  <2>3. G[m] = Level(H, m)
    OBVIOUS
  <2>4. DOMAIN G = 0 .. m /\ G = [n \in 0 .. m |-> G[n]]
    OBVIOUS
  <2> HIDE DEF G
  <2>5. \A n \in 0 .. m : Level(G, n) = Level(H, n)
    BY <2>2, LevelIsLocal
  <2>6. \A n \in 0 .. m : G[n] = Level(G, n)
    BY <2>2, <2>3, <2>5
  <2>7. GrammarUpTo(G, m)
    BY <2>4, <2>6 DEF GrammarUpTo
  <2>8. QED
    BY <2>7
<1> HIDE DEF S
<1>2. \A m \in Nat : m \in S
  BY <1>1, Induction
<1>3. QED
  BY <1>2 DEF S

LEMMA GrammarIsRecursive == \A n \in Lengths : Grammar[n] = Level(Grammar, n)
<1>1. PICK G : GrammarUpTo(G, MaxLength)
  BY GrammarExists, LengthAssumption
<1>2. Grammar = CHOOSE H : GrammarUpTo(H, MaxLength)
  BY DEF Grammar, GrammarUpTo, Level
<1>3. GrammarUpTo(Grammar, MaxLength)
  BY <1>1, <1>2
<1>4. QED
  BY <1>3 DEF GrammarUpTo, Lengths

-----------------------------------------------------------------------------
(* How a word of the grammar is put together *)

LEMMA EmptyWord == Grammar[0] = [contents |-> {<<>>}, items |-> {<<>>}]
<1>1. 0 \in Lengths
  BY LengthAssumption DEF Lengths
<1>2. QED
  BY <1>1, GrammarIsRecursive DEF Level, Contents, Items

LEMMA GrammarFields ==
  ASSUME NEW n \in Lengths
  PROVE  Grammar[n].contents = Contents(Grammar, n) /\ Grammar[n].items = Items(Grammar, n)
<1>1. Grammar[n] = Level(Grammar, n)
  BY GrammarIsRecursive
<1>2. QED
  BY <1>1 DEF Level

LEMMA ConcatRule ==
  ASSUME NEW S, NEW T, NEW w
  PROVE  w \in Concat(S, T) <=> \E s \in S, t \in T : w = s \o t
BY DEF Concat

Prefixed(c, v)    == <<c>> \o v
Escaped(c, v)     == <<Backslash, c>> \o v
Enclosed(b, v, e) == (<<b>> \o v) \o <<e>>

Enclosing(b, S, e) == Concat(Concat({<<b>>}, S), {<<e>>})

LEMMA EnclosedRule ==
  ASSUME NEW b, NEW S, NEW e, NEW w
  PROVE  w \in Enclosing(b, S, e) <=> \E v \in S : w = Enclosed(b, v, e)
<1> DEFINE B == {<<b>>}
           E == {<<e>>}
           A == Concat(B, S)
<1>1. (\A s : s \in B <=> s = <<b>>) /\ (\A s : s \in E <=> s = <<e>>)
  OBVIOUS
<1> HIDE DEF B, E
<1>2. ASSUME NEW s
      PROVE  s \in A <=> \E r \in B, v \in S : s = r \o v
  BY ConcatRule
<1> HIDE DEF A
<1>3. w \in Concat(A, E) <=> \E s \in A, r \in E : w = s \o r
  BY ConcatRule
<1>4. ASSUME w \in Concat(A, E)
      PROVE  \E v \in S : w = Enclosed(b, v, e)
  <2>1. PICK s \in A : w = s \o <<e>>
    BY <1>1, <1>3, <1>4, Zenon
  <2>2. PICK v \in S : s = <<b>> \o v
    BY <1>1, <1>2, <2>1, Zenon
  <2>3. QED
    BY <2>1, <2>2 DEF Enclosed
<1>5. ASSUME NEW v \in S, w = Enclosed(b, v, e)
      PROVE  w \in Concat(A, E)
  <2>1. <<b>> \in B /\ <<e>> \in E
    BY <1>1
  <2>2. <<b>> \o v \in A
    BY <1>2, <2>1, Zenon
  <2>3. w = (<<b>> \o v) \o <<e>>
    BY <1>5 DEF Enclosed
  <2>4. QED
    BY <1>3, <2>1, <2>2, <2>3, Zenon
<1>6. QED
  BY <1>4, <1>5 DEF A, B, E, Enclosing

LEMMA ContentsRule ==
  ASSUME NEW n \in Lengths, n > 0, NEW w
  PROVE  w \in Grammar[n].contents <=>
           \/ \E c \in {Open, Close, Other} : \E v \in Grammar[n - 1].contents : w = Prefixed(c, v)
           \/ n > 1 /\ \E c \in Chars : \E v \in Grammar[n - 2].contents : w = Escaped(c, v)
<1> DEFINE single == {<<Open>>, <<Close>>, <<Other>>}
           pair   == {<<Backslash, c>> : c \in Chars}
           A      == Concat(single, Grammar[n - 1].contents)
           B      == Concat(pair, Grammar[n - 2].contents)
<1>1. Grammar[n].contents = A \cup IF n = 1 THEN {} ELSE B
  <2>1. n # 0
    BY LengthAssumption DEF Lengths
  <2>2. QED
    BY <2>1, GrammarFields DEF Contents
<1>2. w \in A <=> \E c \in {Open, Close, Other} : \E v \in Grammar[n - 1].contents : w = Prefixed(c, v)
  <2> HIDE DEF single
  <2>1. w \in A <=> \E s \in single, v \in Grammar[n - 1].contents : w = s \o v
    BY ConcatRule
  <2>2. QED
    BY <2>1 DEF single, Prefixed
<1>3. w \in B <=> \E c \in Chars : \E v \in Grammar[n - 2].contents : w = Escaped(c, v)
  <2> HIDE DEF pair
  <2>1. w \in B <=> \E s \in pair, v \in Grammar[n - 2].contents : w = s \o v
    BY ConcatRule
  <2>2. QED
    BY <2>1 DEF pair, Escaped
<1>4. n \in Nat /\ (n > 1 <=> n # 1)
  BY LengthAssumption DEF Lengths
<1> HIDE DEF A, B
<1>5. QED
  BY <1>1, <1>2, <1>3, <1>4

LEMMA StringsRule ==
  ASSUME NEW n \in Nat, n >= 2, NEW w
  PROVE  w \in StringsOf(Grammar, n) <=>
           \E v \in Grammar[n - 2].contents : w = Enclosed(Quote, v, Quote)
<1>1. StringsOf(Grammar, n) = Enclosing(Quote, Grammar[n - 2].contents, Quote)
  BY DEF StringsOf, Enclosing
<1>2. QED
  BY <1>1, EnclosedRule

LEMMA ObjectsRule ==
  ASSUME NEW n \in Nat, n >= 2, NEW w
  PROVE  w \in ObjectsOf(Grammar, n) <=>
           \E v \in Grammar[n - 2].items : w = Enclosed(Open, v, Close)
<1>1. ObjectsOf(Grammar, n) = Enclosing(Open, Grammar[n - 2].items, Close)
  BY DEF ObjectsOf, Enclosing
<1>2. QED
  BY <1>1, EnclosedRule

\* An item and what follows it.
Splits(w, n) ==
  \E k \in 1 .. n : \E u \in ItemsOf(Grammar, k), v \in Grammar[n - k].items : w = u \o v

LEMMA ItemsRule ==
  ASSUME NEW n \in Lengths, n > 0, NEW w
  PROVE  w \in Grammar[n].items <=> Splits(w, n)
<1>1. n # 0
  BY LengthAssumption DEF Lengths
<1>2. Grammar[n].items = UNION {Concat(ItemsOf(Grammar, k), Grammar[n - k].items) : k \in 1 .. n}
  BY <1>1, GrammarFields DEF Items
<1>3. w \in Grammar[n].items <=> \E k \in 1 .. n : w \in Concat(ItemsOf(Grammar, k), Grammar[n - k].items)
  BY <1>2
<1>4. \A k \in 1 .. n : w \in Concat(ItemsOf(Grammar, k), Grammar[n - k].items) <=>
        \E u \in ItemsOf(Grammar, k), v \in Grammar[n - k].items : w = u \o v
  BY ConcatRule
<1>5. QED
  BY <1>3, <1>4 DEF Splits

Words(n) == {w \in Seq(Chars) : Len(w) = n}

LEMMA ConcatWords ==
  ASSUME NEW m \in Nat, NEW n \in Nat, NEW u \in Words(m), NEW v \in Words(n)
  PROVE  u \o v \in Words(m + n)
BY ConcatProperties DEF Words

LEMMA ShortWords ==
  /\ <<>> \in Words(0)
  /\ \A c \in Chars : <<c>> \in Words(1) /\ <<Backslash, c>> \in Words(2)
<1>1. Backslash \in Chars
  BY DEF Chars
<1>2. QED
  BY <1>1 DEF Words

LEMMA LongerWords ==
  ASSUME NEW n \in Nat, NEW b \in Chars, NEW c \in Chars, NEW v \in Words(n)
  PROVE  /\ Prefixed(c, v) \in Words(n + 1)
         /\ Escaped(c, v) \in Words(n + 2)
         /\ Enclosed(b, v, c) \in Words(n + 2)
<1>1. <<b>> \in Words(1) /\ <<c>> \in Words(1) /\ <<Backslash, c>> \in Words(2)
  BY ShortWords
<1>2. <<b>> \o v \in Words(1 + n) /\ <<c>> \o v \in Words(1 + n)
  BY <1>1, ConcatWords
<1>3. <<Backslash, c>> \o v \in Words(2 + n)
  BY <1>1, ConcatWords
<1>4. (<<b>> \o v) \o <<c>> \in Words((1 + n) + 1)
  BY <1>1, <1>2, ConcatWords
<1>5. 1 + n = n + 1 /\ 2 + n = n + 2 /\ (1 + n) + 1 = n + 2
  OBVIOUS
<1>6. QED
  BY <1>2, <1>3, <1>4, <1>5 DEF Prefixed, Escaped, Enclosed

\* What level n of the grammar holds are words of length n.
HasItsLength(n) == Grammar[n].contents \subseteq Words(n) /\ Grammar[n].items \subseteq Words(n)

LEMMA PartsAreWords ==
  ASSUME NEW n \in Nat, n >= 2 => HasItsLength(n - 2)
  PROVE  /\ StringsOf(Grammar, n) \subseteq Words(n) 
         /\ ObjectsOf(Grammar, n) \subseteq Words(n)
         /\ ItemsOf(Grammar, n) \subseteq Words(n)
<1>1. {Quote, Open, Close, Other} \subseteq Chars
  BY DEF Chars
<1>2. StringsOf(Grammar, n) \subseteq Words(n)
  <2>1. CASE n < 2
    BY <2>1 DEF StringsOf
  <2>2. CASE n >= 2
    <3>1. n - 2 \in Nat /\ (n - 2) + 2 = n
      BY <2>2
    <3>2. \A v \in Grammar[n - 2].contents : v \in Words(n - 2)
      BY <2>2 DEF HasItsLength
    <3>3. \A v \in Grammar[n - 2].contents : Enclosed(Quote, v, Quote) \in Words((n - 2) + 2)
      BY <1>1, <3>1, <3>2, LongerWords
    <3>4. ASSUME NEW w \in StringsOf(Grammar, n)
          PROVE  w \in Words(n)
      BY <2>2, <3>1, <3>3, StringsRule
    <3>5. QED
      BY <3>4
  <2>3. QED
    BY <2>1, <2>2
<1>3. ObjectsOf(Grammar, n) \subseteq Words(n)
  <2>1. CASE n < 2
    BY <2>1 DEF ObjectsOf
  <2>2. CASE n >= 2
    <3>1. n - 2 \in Nat /\ (n - 2) + 2 = n
      BY <2>2
    <3>2. \A v \in Grammar[n - 2].items : v \in Words(n - 2)
      BY <2>2 DEF HasItsLength
    <3>3. \A v \in Grammar[n - 2].items : Enclosed(Open, v, Close) \in Words((n - 2) + 2)
      BY <1>1, <3>1, <3>2, LongerWords
    <3>4. ASSUME NEW w \in ObjectsOf(Grammar, n)
          PROVE  w \in Words(n)
      BY <2>2, <3>1, <3>3, ObjectsRule
    <3>5. QED
      BY <3>4
  <2>3. QED
    BY <2>1, <2>2
<1>4. <<Other>> \in Words(1)
  BY <1>1, ShortWords
<1>5. QED
  BY <1>2, <1>3, <1>4 DEF ItemsOf

LEMMA WordsHaveTheirLength == \A n \in Lengths : HasItsLength(n)
<1> DEFINE S == {n \in Nat : n \in Lengths => HasItsLength(n)}
<1>1. ASSUME NEW n \in Nat, \A k \in 0 .. n - 1 : k \in S, n \in Lengths
      PROVE  HasItsLength(n)
  <2>1. CASE n = 0
    BY <2>1, EmptyWord, ShortWords DEF HasItsLength
  <2>2. CASE n > 0
    <3>1. \A k \in 0 .. n - 1 : HasItsLength(k)
      BY <1>1, LengthAssumption DEF Lengths
    <3> HIDE DEF S
    <3>2. Grammar[n].contents \subseteq Words(n)
      <4>1. \A v \in Grammar[n - 1].contents : v \in Words(n - 1)
        BY <2>2, <3>1 DEF HasItsLength
      <4>2. {Open, Close, Other} \subseteq Chars
        BY DEF Chars
      <4>3. n - 1 \in Nat /\ (n - 1) + 1 = n
        BY <2>2
      <4>4. \A c \in Chars : \A v \in Grammar[n - 1].contents : Prefixed(c, v) \in Words((n - 1) + 1)
        BY <4>1, <4>3, LongerWords
      <4>5. ASSUME n > 1
            PROVE  \A c \in Chars : \A v \in Grammar[n - 2].contents : Escaped(c, v) \in Words(n)
        <5>1. \A v \in Grammar[n - 2].contents : v \in Words(n - 2)
          BY <4>5, <3>1 DEF HasItsLength
        <5>2. n - 2 \in Nat /\ (n - 2) + 2 = n
          BY <4>5
        <5>3. \A c \in Chars : \A v \in Grammar[n - 2].contents : Escaped(c, v) \in Words((n - 2) + 2)
          BY <5>1, <5>2, LongerWords
        <5>4. QED
          BY <5>2, <5>3
      <4>6. ASSUME NEW w \in Grammar[n].contents
            PROVE  w \in Words(n)
        BY <1>1, <2>2, <4>2, <4>3, <4>4, <4>5, ContentsRule
      <4>7. QED
        BY <4>6
    <3>3. Grammar[n].items \subseteq Words(n)
      <4>1. ASSUME NEW k \in 1 .. n, NEW u \in ItemsOf(Grammar, k), NEW v \in Grammar[n - k].items
            PROVE  u \o v \in Words(n)
        <5>1. k \in Nat /\ n - k \in Nat /\ k + (n - k) = n /\ n - k \in 0 .. n - 1
          OBVIOUS
        <5>2. k >= 2 => k - 2 \in 0 .. n - 1
          OBVIOUS
        <5>3. u \in Words(k)
          BY <5>1, <5>2, <3>1, PartsAreWords
        <5>4. v \in Words(n - k)
          BY <5>1, <3>1 DEF HasItsLength
        <5>5. u \o v \in Words(k + (n - k))
          BY <5>1, <5>3, <5>4, ConcatWords
        <5>6. QED
          BY <5>1, <5>5
      <4>2. ASSUME NEW w \in Grammar[n].items
            PROVE  w \in Words(n)
        <5>1. Splits(w, n)
          BY <1>1, <2>2, <4>2, ItemsRule
        <5>2. QED
          BY <4>1, <5>1 DEF Splits
      <4>3. QED
        BY <4>2
    <3>4. QED
      BY <3>2, <3>3 DEF HasItsLength
  <2>3. QED
    BY <2>1, <2>2
<1>2. \A n \in Nat : (\A k \in 0 .. n - 1 : k \in S) => n \in S
  BY <1>1
<1> HIDE DEF S
<1>3. \A n \in Nat : n \in S
  BY <1>2, Induction
<1>4. QED
  BY <1>3, LengthAssumption DEF S, Lengths

-----------------------------------------------------------------------------
(* The loop on a word of the grammar.  h holds the locals after each       *)
(* character; they are back where they were at the end of the word, and    *)
(* the depth has not been below it in between.                             *)

Plain(d)    == [depth |-> d, inString |-> FALSE, escaped |-> FALSE]
InString(d) == [depth |-> d, inString |-> TRUE, escaped |-> FALSE]
InEscape(d) == [depth |-> d, inString |-> TRUE, escaped |-> TRUE]

\* From position a on, h are the locals along the word w.
Reads(h, a, w) == \A i \in 1 .. Len(w) : h[a + i] = Step(h[a + i - 1], w[i])

\* The depth is at least d in the n steps after position a.
Deep(l, d)        == l.depth \in Int /\ l.depth >= d
Above(h, a, n, d) == \A i \in 0 .. n : Deep(h[a + i], d)

LEMMA CharsDiffer ==
  /\ Open # Close /\ Open # Quote /\ Open # Backslash /\ Open # Other
  /\ Close # Quote /\ Close # Backslash /\ Close # Other
  /\ Quote # Backslash /\ Quote # Other /\ Backslash # Other
BY DEF Open, Close, Quote, Backslash, Other

LEMMA StepsOutside ==
  ASSUME NEW d \in Int
  PROVE  /\ Step(Plain(d), Open) = Plain(d + 1)
         /\ Step(Plain(d), Close) = Plain(d - 1)
         /\ Step(Plain(d), Quote) = InString(d)
         /\ Step(Plain(d), Other) = Plain(d)
BY CharsDiffer DEF Step, Plain, InString

LEMMA StepsInside ==
  ASSUME NEW d \in Int
  PROVE  /\ \A c \in {Open, Close, Other} : Step(InString(d), c) = InString(d)
         /\ Step(InString(d), Quote) = Plain(d)
         /\ Step(InString(d), Backslash) = InEscape(d)
         /\ \A c \in Chars : Step(InEscape(d), c) = InString(d)
BY CharsDiffer DEF Step, Plain, InString, InEscape

LEMMA ReadsConcat ==
  ASSUME NEW m \in Nat, NEW n \in Nat, NEW u \in Words(m), NEW v \in Words(n),
         NEW h, NEW a \in Nat, Reads(h, a, u \o v)
  PROVE  Reads(h, a, u) /\ Reads(h, a + m, v)
<1>1. /\ Len(u) = m /\ Len(v) = n /\ Len(u \o v) = m + n
      /\ \A i \in 1 .. m + n : (u \o v)[i] = IF i <= m THEN u[i] ELSE v[i - m]
  <2>1. u \in Seq(Chars) /\ v \in Seq(Chars) /\ Len(u) = m /\ Len(v) = n
    BY DEF Words
  <2>2. /\ Len(u \o v) = Len(u) + Len(v)
        /\ \A i \in 1 .. Len(u) + Len(v) : (u \o v)[i] = IF i <= Len(u) THEN u[i] ELSE v[i - Len(u)]
    BY <2>1, ConcatProperties
  <2>3. QED
    BY <2>1, <2>2
<1> DEFINE w == u \o v
<1> HIDE DEF w
<1>2. \A i \in 1 .. m + n : h[a + i] = Step(h[a + i - 1], w[i])
  BY <1>1 DEF Reads, w
<1>3. ASSUME NEW i \in 1 .. m
      PROVE  h[a + i] = Step(h[a + i - 1], u[i])
  BY <1>1, <1>2 DEF w
<1>4. ASSUME NEW i \in 1 .. n
      PROVE  h[(a + m) + i] = Step(h[(a + m) + i - 1], v[i])
  <2>1. m + i \in 1 .. m + n /\ ~(m + i <= m) /\ (m + i) - m = i
    OBVIOUS
  <2>2. w[m + i] = v[i]
    BY <1>1, <2>1 DEF w
  <2>3. h[a + (m + i)] = Step(h[a + (m + i) - 1], w[m + i])
    BY <1>2, <2>1
  <2>4. a + (m + i) = (a + m) + i
    OBVIOUS
  <2>5. QED
    BY <2>2, <2>3, <2>4
<1>5. QED
  BY <1>1, <1>3, <1>4 DEF Reads

LEMMA ReadsOne ==
  ASSUME NEW c \in Chars, NEW h, NEW a \in Nat, Reads(h, a, <<c>>)
  PROVE  h[a + 1] = Step(h[a], c)
<1>1. Len(<<c>>) = 1 /\ <<c>>[1] = c /\ (a + 1) - 1 = a
  OBVIOUS
<1>2. QED
  BY <1>1 DEF Reads

LEMMA ReadsTwo ==
  ASSUME NEW b \in Chars, NEW c \in Chars, NEW h, NEW a \in Nat, Reads(h, a, <<b, c>>)
  PROVE  h[a + 1] = Step(h[a], b) /\ h[a + 2] = Step(h[a + 1], c)
<1>1. Len(<<b, c>>) = 2 /\ <<b, c>>[1] = b /\ <<b, c>>[2] = c
  OBVIOUS
<1>2. (a + 1) - 1 = a /\ (a + 2) - 1 = a + 1 /\ 1 \in 1 .. 2 /\ 2 \in 1 .. 2
  OBVIOUS
<1>3. QED
  BY <1>1, <1>2 DEF Reads

LEMMA ReadsPrefixed ==
  ASSUME NEW n \in Nat, NEW v \in Words(n), NEW c \in Chars, NEW h, NEW a \in Nat,
         Reads(h, a, Prefixed(c, v))
  PROVE  h[a + 1] = Step(h[a], c) /\ Reads(h, a + 1, v)
<1>1. <<c>> \in Words(1)
  BY ShortWords
<1>2. Reads(h, a, <<c>>) /\ Reads(h, a + 1, v)
  BY <1>1, ReadsConcat DEF Prefixed
<1>3. QED
  BY <1>2, ReadsOne

LEMMA ReadsEscaped ==
  ASSUME NEW n \in Nat, NEW v \in Words(n), NEW c \in Chars, NEW h, NEW a \in Nat,
         Reads(h, a, Escaped(c, v))
  PROVE  /\ h[a + 1] = Step(h[a], Backslash) /\ h[a + 2] = Step(h[a + 1], c)
         /\ Reads(h, a + 2, v)
<1>1. <<Backslash, c>> \in Words(2) /\ Backslash \in Chars
  BY ShortWords DEF Chars
<1>2. Reads(h, a, <<Backslash, c>>) /\ Reads(h, a + 2, v)
  BY <1>1, ReadsConcat DEF Escaped
<1>3. QED
  BY <1>1, <1>2, ReadsTwo

LEMMA ReadsEnclosed ==
  ASSUME NEW n \in Nat, NEW v \in Words(n), NEW b \in Chars, NEW e \in Chars, NEW h, NEW a \in Nat,
         Reads(h, a, Enclosed(b, v, e))
  PROVE  /\ h[a + 1] = Step(h[a], b) 
         /\ Reads(h, a + 1, v)
         /\ h[a + 1 + n + 1] = Step(h[a + 1 + n], e)
<1>1. <<b>> \in Words(1) /\ <<e>> \in Words(1)
  BY ShortWords
<1>2. <<b>> \o v \in Words(1 + n) /\ 1 + n \in Nat
  BY <1>1, ConcatWords
<1>3. Reads(h, a, <<b>> \o v) /\ Reads(h, a + (1 + n), <<e>>)
  BY <1>1, <1>2, ReadsConcat DEF Enclosed
<1>4. Reads(h, a, <<b>>) /\ Reads(h, a + 1, v)
  BY <1>1, <1>3, ReadsConcat
<1>5. a + (1 + n) = a + 1 + n /\ a + 1 + n \in Nat
  OBVIOUS
<1>6. Reads(h, a + 1 + n, <<e>>)
  BY <1>3, <1>5
<1>7. QED
  BY <1>4, <1>5, <1>6, ReadsOne

\* Inside a string the contents keep the loop inside it, at its depth.
ContentsKeep(n) ==
  \A w \in Grammar[n].contents : \A h : \A a \in Nat, d \in Int :
    h[a] = InString(d) /\ Reads(h, a, w) => h[a + n] = InString(d) /\ Above(h, a, n, d)

LEMMA DeepLocals ==
  ASSUME NEW d \in Int
  PROVE  Deep(Plain(d), d) /\ Deep(InString(d), d) /\ Deep(InEscape(d), d)
BY DEF Deep, Plain, InString, InEscape

\* Two stretches one after the other.
LEMMA AboveInParts ==
  ASSUME NEW h, NEW a \in Nat, NEW m \in Nat, NEW n \in Nat, NEW d \in Int,
         Above(h, a, m, d), Above(h, a + m, n, d)
  PROVE  Above(h, a, m + n, d)
<1> SUFFICES ASSUME NEW i \in 0 .. m + n
             PROVE  Deep(h[a + i], d)
  BY DEF Above
<1>1. CASE i <= m
  BY <1>1 DEF Above
<1>2. CASE i > m
  <2>1. i - m \in 0 .. n /\ (a + m) + (i - m) = a + i
    BY <1>2
  <2>2. Deep(h[(a + m) + (i - m)], d)
    BY <2>1 DEF Above
  <2>3. QED
    BY <2>1, <2>2
<1>3. QED
  BY <1>1, <1>2

LEMMA AboveOne ==
  ASSUME NEW h, NEW a \in Nat, NEW d \in Int, Deep(h[a], d), Deep(h[a + 1], d)
  PROVE  Above(h, a, 1, d)
<1>1. \A i \in 0 .. 1 : i = 0 \/ i = 1
  OBVIOUS
<1>2. a + 0 = a
  OBVIOUS
<1>3. QED
  BY <1>1, <1>2 DEF Above

LEMMA ContentsKeepTheString == \A n \in Lengths : ContentsKeep(n)
<1> DEFINE S == {n \in Nat : n \in Lengths => ContentsKeep(n)}
<1>1. ASSUME NEW n \in Nat, \A k \in 0 .. n - 1 : k \in S, n \in Lengths
      PROVE  ContentsKeep(n)
  <2>1. \A k \in 0 .. n - 1 : k \in Lengths /\ ContentsKeep(k) /\ HasItsLength(k)
    BY <1>1, LengthAssumption, WordsHaveTheirLength DEF Lengths
  <2> HIDE DEF S
  <2> SUFFICES ASSUME NEW w \in Grammar[n].contents, NEW h, NEW a \in Nat, NEW d \in Int,
                      h[a] = InString(d), Reads(h, a, w)
               PROVE  h[a + n] = InString(d) /\ Above(h, a, n, d)
    BY DEF ContentsKeep
  <2>2. CASE n = 0
    <3>1. a + n = a /\ \A i \in 0 .. n : a + i = a
      BY <2>2
    <3>2. QED
      BY <3>1, DeepLocals DEF Above
  <2>3. ASSUME n > 0, NEW c \in {Open, Close, Other}, NEW v \in Grammar[n - 1].contents, w = Prefixed(c, v)
        PROVE  h[a + n] = InString(d) /\ Above(h, a, n, d)
    <3>1. n - 1 \in Nat /\ v \in Words(n - 1) /\ ContentsKeep(n - 1)
      BY <2>1, <2>3 DEF HasItsLength
    <3>2. c \in Chars
      BY DEF Chars
    <3>3. h[a + 1] = Step(h[a], c) /\ Reads(h, a + 1, v)
      BY <2>3, <3>1, <3>2, ReadsPrefixed
    <3>4. h[a + 1] = InString(d)
      BY <3>3, StepsInside
    <3>5. h[(a + 1) + (n - 1)] = InString(d) /\ Above(h, a + 1, n - 1, d)
      BY <3>1, <3>3, <3>4 DEF ContentsKeep
    <3>6. Above(h, a, 1, d)
      BY <3>4, DeepLocals, AboveOne
    <3>7. Above(h, a, 1 + (n - 1), d)
      BY <3>1, <3>5, <3>6, AboveInParts
    <3>8. 1 + (n - 1) = n /\ (a + 1) + (n - 1) = a + n
      OBVIOUS
    <3>9. QED
      BY <3>5, <3>7, <3>8
  <2>4. ASSUME n > 1, NEW c \in Chars, NEW v \in Grammar[n - 2].contents, w = Escaped(c, v)
        PROVE  h[a + n] = InString(d) /\ Above(h, a, n, d)
    <3>1. n - 2 \in Nat /\ v \in Words(n - 2) /\ ContentsKeep(n - 2)
      BY <2>1, <2>4 DEF HasItsLength
    <3>2. h[a + 1] = Step(h[a], Backslash) /\ h[a + 2] = Step(h[a + 1], c) /\ Reads(h, a + 2, v)
      BY <2>4, <3>1, ReadsEscaped
    <3>3. h[a + 1] = InEscape(d)
      BY <3>2, StepsInside
    <3>4. h[a + 2] = InString(d)
      BY <3>2, <3>3, StepsInside
    <3>5. h[(a + 2) + (n - 2)] = InString(d) /\ Above(h, a + 2, n - 2, d)
      BY <3>1, <3>2, <3>4 DEF ContentsKeep
    <3>6. Above(h, a, 1, d)
      BY <3>3, DeepLocals, AboveOne
    <3>7. Above(h, a + 1, 1, d)
      <4>1. (a + 1) + 1 = a + 2
        OBVIOUS
      <4>2. QED
        BY <3>3, <3>4, <4>1, DeepLocals, AboveOne
    <3>8. Above(h, a, 1 + 1, d)
      BY <3>6, <3>7, AboveInParts
    <3>9. 1 + 1 = 2 /\ 2 + (n - 2) = n /\ (a + 2) + (n - 2) = a + n
      OBVIOUS
    <3>10. Above(h, a, 2 + (n - 2), d)
      BY <3>1, <3>5, <3>8, <3>9, AboveInParts
    <3>11. QED
      BY <3>5, <3>9, <3>10
  <2>5. QED
    BY <1>1, <2>2, <2>3, <2>4, ContentsRule
<1>2. \A n \in Nat : (\A k \in 0 .. n - 1 : k \in S) => n \in S
  BY <1>1
<1> HIDE DEF S
<1>3. \A n \in Nat : n \in S
  BY <1>2, Induction
<1>4. QED
  BY <1>3, LengthAssumption DEF S, Lengths

LEMMA AboveEnclosed ==
  ASSUME NEW h, NEW a \in Nat, NEW n \in Nat, n >= 2, NEW d \in Int,
         Deep(h[a], d), Above(h, a + 1, n - 2, d), Deep(h[a + 1 + (n - 2) + 1], d)
  PROVE  Above(h, a, n, d)
<1> SUFFICES ASSUME NEW i \in 0 .. n
             PROVE  Deep(h[a + i], d)
  BY DEF Above
<1>1. CASE i = 0
  BY <1>1
<1>2. CASE i = n
  <2>1. a + i = a + 1 + (n - 2) + 1
    BY <1>2
  <2>2. QED
    BY <2>1
<1>3. CASE i > 0 /\ i < n
  <2>1. i - 1 \in 0 .. n - 2 /\ (a + 1) + (i - 1) = a + i
    BY <1>3
  <2>2. Deep(h[(a + 1) + (i - 1)], d)
    BY <2>1 DEF Above
  <2>3. QED
    BY <2>1, <2>2
<1>4. QED
  BY <1>1, <1>2, <1>3

\* Outside strings, sequences of items keep the loop at its depth.
ItemsKeep(n) ==
  \A w \in Grammar[n].items : \A h : \A a \in Nat, d \in Int :
    h[a] = Plain(d) /\ Reads(h, a, w) => h[a + n] = Plain(d) /\ Above(h, a, n, d)

LEMMA StringKeeps ==
  ASSUME NEW n \in Lengths, NEW w \in StringsOf(Grammar, n), NEW h, NEW a \in Nat, NEW d \in Int,
         h[a] = Plain(d), Reads(h, a, w)
  PROVE  h[a + n] = Plain(d) /\ Above(h, a, n, d)
<1>1. n >= 2 /\ n \in Nat /\ n - 2 \in Nat /\ n - 2 \in Lengths
  BY LengthAssumption DEF Lengths, StringsOf
<1>2. PICK v \in Grammar[n - 2].contents : w = Enclosed(Quote, v, Quote)
  BY <1>1, StringsRule
<1>3. v \in Words(n - 2) /\ Quote \in Chars
  BY <1>1, WordsHaveTheirLength DEF HasItsLength, Chars
<1>4. h[a + 1] = Step(h[a], Quote) /\ Reads(h, a + 1, v)
  BY <1>1, <1>2, <1>3, ReadsEnclosed
<1>5. h[a + 1 + (n - 2) + 1] = Step(h[a + 1 + (n - 2)], Quote)
  BY <1>1, <1>2, <1>3, ReadsEnclosed
<1>6. h[a + 1] = InString(d)
  BY <1>4, StepsOutside
<1>7. h[a + 1 + (n - 2)] = InString(d) /\ Above(h, a + 1, n - 2, d)
  BY <1>1, <1>4, <1>6, ContentsKeepTheString DEF ContentsKeep
<1>8. h[a + 1 + (n - 2) + 1] = Plain(d)
  BY <1>5, <1>7, StepsInside
<1>9. a + 1 + (n - 2) + 1 = a + n
  BY <1>1
<1>10. Above(h, a, n, d)
  BY <1>1, <1>7, <1>8, <1>9, DeepLocals, AboveEnclosed
<1>11. QED
  BY <1>8, <1>9, <1>10

\* Between its braces an object keeps the loop deeper than it begins.
LEMMA ObjectKeeps ==
  ASSUME NEW n \in Lengths, n >= 2 => ItemsKeep(n - 2),
         NEW w \in ObjectsOf(Grammar, n), NEW h, NEW a \in Nat, NEW d \in Int,
         h[a] = Plain(d), Reads(h, a, w)
  PROVE  /\ n >= 2 
         /\ h[a + n] = Plain(d)
         /\ Above(h, a + 1, n - 2, d + 1)
         /\ Above(h, a, n, d)
<1>1. n >= 2 /\ n \in Nat /\ n - 2 \in Nat /\ n - 2 \in Lengths
  BY LengthAssumption DEF Lengths, ObjectsOf
<1>2. PICK v \in Grammar[n - 2].items : w = Enclosed(Open, v, Close)
  BY <1>1, ObjectsRule
<1>3. v \in Words(n - 2) /\ Open \in Chars /\ Close \in Chars
  BY <1>1, WordsHaveTheirLength DEF HasItsLength, Chars
<1>4. h[a + 1] = Step(h[a], Open) /\ Reads(h, a + 1, v)
  BY <1>1, <1>2, <1>3, ReadsEnclosed
<1>5. h[a + 1 + (n - 2) + 1] = Step(h[a + 1 + (n - 2)], Close)
  BY <1>1, <1>2, <1>3, ReadsEnclosed
<1>6. h[a + 1] = Plain(d + 1)
  BY <1>4, StepsOutside
<1>7. h[a + 1 + (n - 2)] = Plain(d + 1) /\ Above(h, a + 1, n - 2, d + 1)
  BY <1>1, <1>4, <1>6 DEF ItemsKeep
<1>8. h[a + 1 + (n - 2) + 1] = Plain(d)
  <2>1. d + 1 \in Int /\ (d + 1) - 1 = d
    OBVIOUS
  <2>2. QED
    BY <1>5, <1>7, <2>1, StepsOutside
<1>9. a + 1 + (n - 2) + 1 = a + n
  BY <1>1
<1>10. Above(h, a + 1, n - 2, d)
  <2>1. \A l : Deep(l, d + 1) => Deep(l, d)
    BY DEF Deep
  <2>2. QED
    BY <1>7, <2>1 DEF Above
<1>11. Above(h, a, n, d)
  BY <1>1, <1>8, <1>10, DeepLocals, AboveEnclosed
<1>12. QED
  BY <1>1, <1>7, <1>8, <1>9, <1>11

LEMMA ItemKeeps ==
  ASSUME NEW n \in Lengths, n >= 2 => ItemsKeep(n - 2),
         NEW w \in ItemsOf(Grammar, n), NEW h, NEW a \in Nat, NEW d \in Int,
         h[a] = Plain(d), Reads(h, a, w)
  PROVE  h[a + n] = Plain(d) /\ Above(h, a, n, d)
<1>1. CASE n = 1 /\ w = <<Other>>
  <2>1. h[a + 1] = Plain(d)
    <3>1. Other \in Chars
      BY DEF Chars
    <3>2. h[a + 1] = Step(h[a], Other)
      BY <1>1, <3>1, ReadsOne
    <3>3. QED
      BY <3>2, StepsOutside
  <2>2. QED
    BY <1>1, <2>1, DeepLocals, AboveOne
<1>2. CASE w \in StringsOf(Grammar, n)
  BY <1>2, StringKeeps
<1>3. CASE w \in ObjectsOf(Grammar, n)
  BY <1>3, ObjectKeeps
<1>4. QED
  BY <1>1, <1>2, <1>3 DEF ItemsOf

LEMMA ItemsKeepTheDepth == \A n \in Lengths : ItemsKeep(n)
<1> DEFINE S == {n \in Nat : n \in Lengths => ItemsKeep(n)}
<1>1. ASSUME NEW n \in Nat, \A k \in 0 .. n - 1 : k \in S, n \in Lengths
      PROVE  ItemsKeep(n)
  <2>1. \A k \in 0 .. n - 1 : k \in Lengths /\ ItemsKeep(k) /\ HasItsLength(k)
    BY <1>1, LengthAssumption, WordsHaveTheirLength DEF Lengths
  <2> HIDE DEF S
  <2> SUFFICES ASSUME NEW w \in Grammar[n].items, NEW h, NEW a \in Nat, NEW d \in Int,
                      h[a] = Plain(d), Reads(h, a, w)
               PROVE  h[a + n] = Plain(d) /\ Above(h, a, n, d)
    BY DEF ItemsKeep
  <2>2. CASE n = 0
    <3>1. a + n = a /\ \A i \in 0 .. n : a + i = a
      BY <2>2
    <3>2. QED
      BY <3>1, DeepLocals DEF Above
  <2>3. ASSUME NEW k \in 1 .. n, NEW u \in ItemsOf(Grammar, k), NEW v \in Grammar[n - k].items, w = u \o v
        PROVE  h[a + n] = Plain(d) /\ Above(h, a, n, d)
    <3>1. k \in Nat /\ n - k \in Nat /\ n - k \in 0 .. n - 1 /\ k + (n - k) = n /\ (a + k) + (n - k) = a + n
      OBVIOUS
    <3>2. k \in Lengths /\ (k >= 2 => k - 2 \in 0 .. n - 1)
      BY <1>1, LengthAssumption DEF Lengths
    <3>3. u \in Words(k) /\ v \in Words(n - k)
      BY <2>1, <3>1, <3>2, PartsAreWords DEF HasItsLength
    <3>4. Reads(h, a, u) /\ Reads(h, a + k, v)
      BY <2>3, <3>1, <3>3, ReadsConcat
    <3>5. h[a + k] = Plain(d) /\ Above(h, a, k, d)
      BY <2>1, <3>2, <3>4, ItemKeeps
    <3>6. a + k \in Nat
      OBVIOUS
    <3>7. h[(a + k) + (n - k)] = Plain(d) /\ Above(h, a + k, n - k, d)
      BY <2>1, <3>1, <3>4, <3>5, <3>6 DEF ItemsKeep
    <3>8. Above(h, a, k + (n - k), d)
      BY <3>1, <3>5, <3>7, AboveInParts
    <3>9. QED
      BY <3>1, <3>7, <3>8
  <2>4. CASE n > 0
    <3>1. Splits(w, n)
      BY <1>1, <2>4, ItemsRule
    <3>2. QED
      BY <2>3, <3>1 DEF Splits
  <2>5. QED
    BY <2>2, <2>4
<1>2. \A n \in Nat : (\A k \in 0 .. n - 1 : k \in S) => n \in S
  BY <1>1
<1> HIDE DEF S
<1>3. \A n \in Nat : n \in S
  BY <1>2, Induction
<1>4. QED
  BY <1>3, LengthAssumption DEF S, Lengths

-----------------------------------------------------------------------------
(* From the locals to the grammar: a stretch of text without escapes that  *)
(* begins and ends outside strings at one depth and does not go below it   *)
(* is a sequence of items.                                                 *)

Locals == [depth : Int, inString : BOOLEAN, escaped : BOOLEAN]

\* The characters after position a up to b.
Stretch(t, a, b) == SubSeq(t, a + 1, b)

\* h holds the locals after each of them.
Follows(h, t, a, b) == \A i \in a + 1 .. b : h[i] = Step(h[i - 1], t[i])

\* A text that fits, and a part of it.
Part(t, a, b) ==
  t \in Seq(Chars) /\ Len(t) \in Lengths /\ a \in Nat /\ b \in Nat /\ a <= b /\ b <= Len(t)

LEMMA StretchIsWord ==
  ASSUME NEW t, NEW a, NEW b, Part(t, a, b)
  PROVE  /\ b - a \in Nat /\ b - a \in Lengths
         /\ Stretch(t, a, b) \in Words(b - a)
         /\ \A i \in 1 .. b - a : Stretch(t, a, b)[i] = t[a + i]
<1>1. t \in Seq(Chars) /\ Len(t) \in Lengths /\ a \in Nat /\ b \in Nat /\ a <= b /\ b <= Len(t)
  BY DEF Part
<1>2. \A i \in a + 1 .. b : t[i] \in Chars
  BY <1>1, ElementOfSeq
<1>3. a + 1 \in Int /\ b \in Int
  BY <1>1
<1>4. /\ SubSeq(t, a + 1, b) \in Seq(Chars)
      /\ Len(SubSeq(t, a + 1, b)) = IF a + 1 <= b THEN b - (a + 1) + 1 ELSE 0
      /\ \A i \in 1 .. b - (a + 1) + 1 : SubSeq(t, a + 1, b)[i] = t[a + 1 + i - 1]
  BY <1>2, <1>3, SubSeqProperties
<1>5. Len(SubSeq(t, a + 1, b)) = b - a
  BY <1>1, <1>4
<1>6. \A i \in 1 .. b - a : i \in 1 .. b - (a + 1) + 1 /\ a + 1 + i - 1 = a + i
  BY <1>1
<1>7. b - a \in Nat /\ b - a \in Lengths
  BY <1>1, LengthAssumption DEF Lengths
<1>8. QED
  BY <1>4, <1>5, <1>6, <1>7 DEF Stretch, Words

LEMMA StretchReads ==
  ASSUME NEW t, NEW a, NEW b, Part(t, a, b), NEW h, Follows(h, t, a, b)
  PROVE  Reads(h, a, Stretch(t, a, b))
<1>1. a \in Nat /\ b \in Nat /\ a <= b
  BY DEF Part
<1>2. Len(Stretch(t, a, b)) = b - a
  BY StretchIsWord DEF Words
<1>3. ASSUME NEW i \in 1 .. b - a
      PROVE  h[a + i] = Step(h[a + i - 1], Stretch(t, a, b)[i])
  <2>1. a + i \in a + 1 .. b /\ (a + i) - 1 = a + i - 1
    BY <1>1
  <2>2. h[a + i] = Step(h[(a + i) - 1], t[a + i])
    BY <2>1 DEF Follows
  <2>3. Stretch(t, a, b)[i] = t[a + i]
    BY StretchIsWord
  <2>4. QED
    BY <2>1, <2>2, <2>3
<1>4. QED
  BY <1>2, <1>3 DEF Reads

LEMMA StretchesConcat ==
  ASSUME NEW t, NEW a \in Nat, NEW k \in Nat, NEW b, a <= k, k <= b, Part(t, a, b)
  PROVE  /\ Stretch(t, a, b) = Stretch(t, a, k) \o Stretch(t, k, b)
         /\ Part(t, a, k) /\ Part(t, k, b)
<1>1. t \in Seq(Chars) /\ Len(t) \in Nat /\ b \in Nat /\ b <= Len(t)
  BY LengthAssumption DEF Part, Lengths
<1>2. a + 1 \in 1 .. Len(t) + 1 /\ k \in (a + 1) - 1 .. Len(t) /\ b \in k .. Len(t)
  BY <1>1
<1>3. SubSeq(t, a + 1, k) \o SubSeq(t, k + 1, b) = SubSeq(t, a + 1, b)
  BY <1>1, <1>2, ConcatAdjacentSubSeq
<1>4. Part(t, a, k) /\ Part(t, k, b)
  BY <1>1 DEF Part
<1>5. QED
  BY <1>3, <1>4 DEF Stretch

LEMMA StretchOfOne ==
  ASSUME NEW t, NEW a \in Nat, Part(t, a, a + 1)
  PROVE  Stretch(t, a, a + 1) = <<t[a + 1]>> /\ t[a + 1] \in Chars
<1>1. t \in Seq(Chars) /\ Len(t) \in Nat /\ a + 1 <= Len(t)
  BY LengthAssumption DEF Part, Lengths
<1>2. t[a + 1] \in Chars
  BY <1>1, ElementOfSeq
<1>3. (a + 1) - a = 1
  OBVIOUS
<1>4. Stretch(t, a, a + 1) \in Words(1) /\ Stretch(t, a, a + 1)[1] = t[a + 1]
  BY <1>3, StretchIsWord
<1>5. QED
  BY <1>2, <1>4 DEF Words

LEMMA StretchPrefixed ==
  ASSUME NEW t, NEW a \in Nat, NEW b, a < b, Part(t, a, b)
  PROVE  /\ Stretch(t, a, b) = Prefixed(t[a + 1], Stretch(t, a + 1, b))
         /\ Part(t, a + 1, b) /\ t[a + 1] \in Chars
<1>1. a + 1 \in Nat /\ a <= a + 1 /\ a + 1 <= b
  BY DEF Part
<1>2. /\ Stretch(t, a, b) = Stretch(t, a, a + 1) \o Stretch(t, a + 1, b)
      /\ Part(t, a, a + 1) /\ Part(t, a + 1, b)
  BY <1>1, StretchesConcat
<1>3. QED
  BY <1>2, StretchOfOne DEF Prefixed

LEMMA StretchEnclosed ==
  ASSUME NEW t, NEW a \in Nat, NEW b \in Nat, a + 1 < b, Part(t, a, b)
  PROVE  /\ Stretch(t, a, b) = Enclosed(t[a + 1], Stretch(t, a + 1, b - 1), t[b])
         /\ Part(t, a + 1, b - 1) /\ t[b] \in Chars
<1>1. a + 1 \in Nat /\ b - 1 \in Nat /\ a < b - 1 /\ a <= b - 1 /\ b - 1 <= b /\ (b - 1) + 1 = b
  OBVIOUS
<1>2. /\ Stretch(t, a, b) = Stretch(t, a, b - 1) \o Stretch(t, b - 1, b)
      /\ Part(t, a, b - 1) /\ Part(t, b - 1, b)
  BY <1>1, StretchesConcat
<1>3. Stretch(t, b - 1, b) = <<t[b]>> /\ t[b] \in Chars
  <2>1. Part(t, b - 1, (b - 1) + 1)
    BY <1>1, <1>2
  <2>2. QED
    BY <1>1, <2>1, StretchOfOne
<1>4. /\ Stretch(t, a, b - 1) = Prefixed(t[a + 1], Stretch(t, a + 1, b - 1))
      /\ Part(t, a + 1, b - 1)
  BY <1>1, <1>2, StretchPrefixed
<1>5. QED
  BY <1>2, <1>3, <1>4 DEF Prefixed, Enclosed

\* Neither a quote nor a backslash ends or interrupts the contents of a string.
LEMMA StretchIsContents ==
  ASSUME NEW t, NEW a, NEW b, Part(t, a, b), \A i \in a + 1 .. b : t[i] # Quote /\ t[i] # Backslash
  PROVE  Stretch(t, a, b) \in Grammar[b - a].contents
<1> DEFINE Found(x) == Stretch(t, x, b) \in Grammar[b - x].contents
           S        == {n \in Nat : n <= b => (b - n >= a => Found(b - n))}
<1>1. a \in Nat /\ b \in Nat /\ a <= b
  BY DEF Part
<1>2. ASSUME NEW n \in Nat, \A k \in 0 .. n - 1 : k \in S, n <= b, b - n >= a
      PROVE  Found(b - n)
  <2> DEFINE x == b - n
  <2>1. x \in Nat /\ a <= x /\ x <= b /\ b - x = n
    BY <1>1, <1>2
  <2>2. Part(t, x, b)
    BY <1>1, <2>1, StretchesConcat
  <2>3. CASE n = 0
    <3>1. Stretch(t, x, b) \in Words(0)
      BY <2>1, <2>2, <2>3, StretchIsWord
    <3>2. Stretch(t, x, b) = <<>>
      BY <3>1, EmptySeq DEF Words
    <3>3. QED
      BY <2>1, <2>3, <3>2, EmptyWord
  <2>4. CASE n > 0
    <3>1. x < b
      BY <1>1, <2>4
    <3>2. /\ Stretch(t, x, b) = Prefixed(t[x + 1], Stretch(t, x + 1, b))
          /\ t[x + 1] \in Chars
      BY <2>1, <2>2, <3>1, StretchPrefixed
    <3>3. t[x + 1] \in {Open, Close, Other}
      <4>1. x + 1 \in a + 1 .. b
        BY <1>1, <2>1, <3>1
      <4>2. QED
        BY <3>2, <4>1 DEF Chars
    <3>4. n - 1 \in S
      BY <1>2, <2>4
    <3>5. b - (n - 1) = x + 1 /\ n - 1 <= b /\ x + 1 >= a /\ b - (x + 1) = n - 1 /\ n - 1 \in Nat
      BY <1>1, <1>2, <2>1, <2>4
    <3>6. Stretch(t, x + 1, b) \in Grammar[n - 1].contents
      BY <3>4, <3>5
    <3>7. n \in Lengths
      BY <2>1, <2>2, StretchIsWord
    <3> HIDE DEF x, S
    <3>8. Stretch(t, x, b) \in Grammar[n].contents
      BY <2>4, <3>2, <3>3, <3>6, <3>7, ContentsRule
    <3>9. QED
      BY <2>1, <3>8 DEF x
  <2>5. QED
    BY <2>3, <2>4
<1>3. \A n \in Nat : (\A k \in 0 .. n - 1 : k \in S) => n \in S
  BY <1>2
<1> HIDE DEF S, Found
<1>4. \A n \in Nat : n \in S
  BY <1>3, Induction
<1>5. b - a \in S /\ b - a <= b /\ b - (b - a) = a
  BY <1>1, <1>4
<1>6. QED
  BY <1>1, <1>5 DEF S, Found

LEMMA StepBackOut ==
  ASSUME NEW l \in Locals, NEW d \in Int, NEW c \in Chars,
         l.depth >= d + 1, Step(l, c).depth < d + 1
  PROVE  c = Close /\ l = Plain(d + 1) /\ Step(l, c) = Plain(d)
<1>1. l.depth \in Int /\ l.inString \in BOOLEAN /\ l.escaped \in BOOLEAN
  BY DEF Locals
<1>2. ~l.escaped /\ ~l.inString /\ c = Close /\ l.depth - 1 < d + 1
  BY <1>1, CharsDiffer DEF Step, Locals
<1>3. l.depth = d + 1
  BY <1>1, <1>2
<1>4. l = Plain(d + 1)
  BY <1>1, <1>2, <1>3 DEF Plain, Locals
<1>5. Step(l, c) = Plain((d + 1) - 1)
  BY <1>2, <1>4, StepsOutside
<1>6. QED
  BY <1>2, <1>4, <1>5

LEMMA StepIsLocals ==
  ASSUME NEW l \in Locals, NEW c
  PROVE  Step(l, c) \in Locals
<1>1. \A x \in BOOLEAN : [l EXCEPT !.escaped = x] \in Locals /\ [l EXCEPT !.inString = x] \in Locals
  BY DEF Locals
<1>2. \A x \in Int : [l EXCEPT !.depth = x] \in Locals
  BY DEF Locals
<1>3. l.depth + 1 \in Int /\ l.depth - 1 \in Int
  BY DEF Locals
<1>4. [l EXCEPT !.inString = ~@] \in Locals
  <2>1. CASE l.inString
    <3>1. (~l.inString) = FALSE
      BY <2>1, Zenon
    <3>2. QED
      BY <1>1, <3>1, Zenon
  <2>2. CASE ~l.inString
    <3>1. (~l.inString) = TRUE
      BY <2>2, Zenon
    <3>2. QED
      BY <1>1, <3>1, Zenon
  <2>3. QED
    BY <2>1, <2>2
<1>5. QED
  BY <1>1, <1>2, <1>3, <1>4 DEF Step

LEMMA ItemThenItems ==
  ASSUME NEW t, NEW a \in Nat, NEW k \in Nat, NEW b \in Nat, a < k, k <= b, Part(t, a, b),
         Stretch(t, a, k) \in ItemsOf(Grammar, k - a), Stretch(t, k, b) \in Grammar[b - k].items
  PROVE  Stretch(t, a, b) \in Grammar[b - a].items
<1>1. Stretch(t, a, b) = Stretch(t, a, k) \o Stretch(t, k, b)
  <2>1. a <= k
    OBVIOUS
  <2>2. QED
    BY <2>1, StretchesConcat
<1>2. b - a \in Lengths /\ b - a > 0 /\ k - a \in 1 .. b - a /\ (b - a) - (k - a) = b - k
  BY StretchIsWord
<1>3. Splits(Stretch(t, a, b), b - a)
  BY <1>1, <1>2 DEF Splits
<1>4. QED
  BY <1>2, <1>3, ItemsRule

\* h is at depth d outside strings at both ends of a stretch, and not below
\* it in between.
Balanced(h, t, a, b, d) ==
  Part(t, a, b) /\ Follows(h, t, a, b) /\ h[a] = Plain(d) /\ h[b] = Plain(d) /\ Above(h, a, b - a, d)

LEMMA BalancedInner ==
  ASSUME NEW h, NEW t, NEW a \in Nat, NEW b \in Nat, NEW d \in Int, Balanced(h, t, a, b, d),
         NEW x \in Nat, NEW y \in Nat, a <= x, x <= y, y <= b
  PROVE  /\ Part(t, x, y) /\ Follows(h, t, x, y)
         /\ \A i \in x .. y : Deep(h[i], d)
<1>1. Part(t, x, y)
  BY DEF Balanced, Part
<1>2. Follows(h, t, x, y)
  BY DEF Balanced, Follows
<1>3. ASSUME NEW i \in x .. y
      PROVE  Deep(h[i], d)
  <2>1. i - a \in 0 .. b - a /\ a + (i - a) = i
    OBVIOUS
  <2>2. Deep(h[a + (i - a)], d)
    BY <2>1 DEF Balanced, Above
  <2>3. QED
    BY <2>1, <2>2
<1>4. QED
  BY <1>1, <1>2, <1>3

LEMMA BalancedRest ==
  ASSUME NEW h, NEW t, NEW a \in Nat, NEW b \in Nat, NEW d \in Int, Balanced(h, t, a, b, d),
         NEW x \in Nat, a <= x, x <= b, h[x] = Plain(d)
  PROVE  Balanced(h, t, x, b, d)
<1>1. Part(t, x, b) /\ Follows(h, t, x, b) /\ \A i \in x .. b : Deep(h[i], d)
  <2>1. b <= b
    OBVIOUS
  <2>2. QED
    BY <2>1, BalancedInner
<1>2. \A i \in 0 .. b - x : x + i \in x .. b
  OBVIOUS
<1>3. Above(h, x, b - x, d)
  BY <1>1, <1>2 DEF Above
<1>4. QED
  BY <1>1, <1>3 DEF Balanced

\* An item ends after position k, at the depth of its beginning.
BeginsWithItem(h, t, a, b, d) ==
  \E k \in Nat : /\ a < k /\ k <= b /\ h[k] = Plain(d)
                /\ Stretch(t, a, k) \in ItemsOf(Grammar, k - a)

\* The string that begins a stretch.
LEMMA FirstString ==
  ASSUME NEW h, NEW t, NEW a \in Nat, NEW b \in Nat, NEW d \in Int, Balanced(h, t, a, b, d),
         \A i \in a + 1 .. b : t[i] # Backslash, a < b, t[a + 1] = Quote
  PROVE  BeginsWithItem(h, t, a, b, d)
<1>1. h[a + 1] = InString(d)
  <2>1. a + 1 \in a + 1 .. b /\ (a + 1) - 1 = a
    OBVIOUS
  <2>2. h[a + 1] = Step(h[a], t[a + 1])
    BY <2>1 DEF Balanced, Follows
  <2>3. QED
    BY <2>2, StepsOutside DEF Balanced
\* Without another quote the loop stays inside the string.
<1>2. ASSUME NEW y \in Nat, a + 1 <= y, y <= b, \A i \in a + 2 .. y : t[i] # Quote
      PROVE  Part(t, a + 1, y) /\ Stretch(t, a + 1, y) \in Grammar[y - (a + 1)].contents /\ h[y] = InString(d)
  <2>1. Part(t, a + 1, y) /\ Follows(h, t, a + 1, y)
    <3>1. a + 1 \in Nat /\ a <= a + 1
      OBVIOUS
    <3>2. QED
      BY <1>2, <3>1, BalancedInner
  <2>2. Stretch(t, a + 1, y) \in Grammar[y - (a + 1)].contents
    <3>1. \A i \in (a + 1) + 1 .. y : i \in a + 2 .. y /\ i \in a + 1 .. b
      BY <1>2
    <3>2. QED
      BY <1>2, <2>1, <3>1, StretchIsContents
  <2>3. Reads(h, a + 1, Stretch(t, a + 1, y))
    BY <2>1, StretchReads
  <2>4. y - (a + 1) \in Lengths /\ a + 1 \in Nat
    BY <2>1, StretchIsWord
  <2>5. h[(a + 1) + (y - (a + 1))] = InString(d)
    BY <1>1, <2>2, <2>3, <2>4, ContentsKeepTheString DEF ContentsKeep
  <2>6. (a + 1) + (y - (a + 1)) = y
    BY <1>2
  <2>7. QED
    BY <2>1, <2>2, <2>5, <2>6
<1> DEFINE J == {j \in Nat : a + 2 <= j /\ j <= b /\ t[j] = Quote}
<1>3. J # {}
  <2>1. SUFFICES ASSUME J = {}
                 PROVE  FALSE
    OBVIOUS
  <2>2. \A i \in a + 2 .. b : t[i] # Quote
    BY <2>1
  <2>3. h[b] = InString(d)
    BY <1>2, <2>2
  <2>4. QED
    BY <2>3 DEF Balanced, InString, Plain
<1>4. PICK k \in J : \A j \in J : k <= j
  BY <1>3, LeastMember
<1>5. k \in Nat /\ a + 2 <= k /\ k <= b /\ t[k] = Quote
  BY <1>4
<1>6. \A i \in a + 2 .. k - 1 : t[i] # Quote
  BY <1>4, <1>5
<1> HIDE DEF J
<1>7. k - 1 \in Nat /\ a + 1 <= k - 1 /\ k - 1 <= b /\ k - a \in Nat /\ k - a >= 2 /\ (k - 1) - (a + 1) = (k - a) - 2
  BY <1>5
<1>8. Stretch(t, a + 1, k - 1) \in Grammar[(k - a) - 2].contents /\ h[k - 1] = InString(d)
  BY <1>2, <1>6, <1>7
<1>9. h[k] = Plain(d)
  <2>1. k \in a + 1 .. b
    BY <1>5
  <2>2. h[k] = Step(h[k - 1], t[k])
    BY <2>1 DEF Balanced, Follows
  <2>3. QED
    BY <1>5, <1>8, <2>2, StepsInside
<1>10. Stretch(t, a, k) \in StringsOf(Grammar, k - a)
  <2>1. a + 1 < k /\ a <= a /\ a <= k
    BY <1>5
  <2>2. Part(t, a, k)
    BY <1>5, <2>1, BalancedInner
  <2>3. Stretch(t, a, k) = Enclosed(Quote, Stretch(t, a + 1, k - 1), Quote)
    BY <1>5, <2>1, <2>2, StretchEnclosed
  <2>4. QED
    BY <1>7, <1>8, <2>3, StringsRule
<1>11. QED
  BY <1>5, <1>9, <1>10 DEF BeginsWithItem, ItemsOf

\* The object that begins a stretch, given what is known of shorter stretches.
LEMMA FirstObject ==
  ASSUME NEW h \in [Nat -> Locals], NEW t, NEW a \in Nat, NEW b \in Nat, NEW d \in Int,
         Balanced(h, t, a, b, d), a < b, t[a + 1] = Open,
         \A x, y \in Nat : a < x /\ x <= y /\ y < b /\ Balanced(h, t, x, y, d + 1) =>
           Stretch(t, x, y) \in Grammar[y - x].items
  PROVE  BeginsWithItem(h, t, a, b, d)
<1>1. h[a + 1] = Plain(d + 1)
  <2>1. a + 1 \in a + 1 .. b /\ (a + 1) - 1 = a
    OBVIOUS
  <2>2. h[a + 1] = Step(h[a], t[a + 1])
    BY <2>1 DEF Balanced, Follows
  <2>3. QED
    BY <2>2, StepsOutside DEF Balanced
<1> DEFINE J == {j \in Nat : a + 2 <= j /\ j <= b /\ h[j].depth < d + 1}
<1>2. b \in J
  <2>1. h[b].depth < d + 1
    BY DEF Balanced, Plain
  <2>2. a + 1 # b
    BY <1>1 DEF Balanced, Plain
  <2>3. QED
    BY <2>1, <2>2
<1>3. PICK k \in J : \A j \in J : k <= j
  <2>1. J \in SUBSET Nat /\ J # {}
    BY <1>2
  <2> HIDE DEF J
  <2>2. QED
    BY <2>1, LeastMember
<1>4. k \in Nat /\ a + 2 <= k /\ k <= b /\ h[k].depth < d + 1
  BY <1>3
<1>5. \A i \in a + 2 .. k - 1 : ~(h[i].depth < d + 1)
  BY <1>3, <1>4
<1> HIDE DEF J
<1>6. /\ k - 1 \in Nat /\ a + 1 \in Nat /\ a < a + 1 /\ a + 1 <= k - 1 /\ k - 1 < b /\ k - 1 <= b
      /\ k - a \in Nat /\ k - a >= 2 /\ (k - 1) - (a + 1) = (k - a) - 2
  BY <1>4
<1>7. \A i \in a + 1 .. k - 1 : Deep(h[i], d + 1)
  <2>1. TAKE i \in a + 1 .. k - 1
  <2>2. CASE i = a + 1
    <3>1. d + 1 \in Int
      OBVIOUS
    <3>2. QED
      BY <1>1, <2>2, <3>1, DeepLocals
  <2>3. CASE i # a + 1
    <3>1. i \in a + 2 .. k - 1 /\ i \in Nat
      BY <1>6, <2>3
    <3>2. h[i].depth \in Int /\ ~(h[i].depth < d + 1)
      BY <1>5, <3>1 DEF Locals
    <3>3. QED
      BY <3>2 DEF Deep
  <2>4. QED
    BY <2>2, <2>3
<1>8. t[k] \in Chars
  <2>1. k \in 1 .. Len(t) /\ t \in Seq(Chars)
    BY <1>4, LengthAssumption DEF Balanced, Part, Lengths
  <2>2. QED
    BY <2>1, ElementOfSeq
<1>9. t[k] = Close /\ h[k - 1] = Plain(d + 1) /\ h[k] = Plain(d)
  <2>1. k \in a + 1 .. b
    BY <1>4
  <2>2. h[k] = Step(h[k - 1], t[k])
    BY <2>1 DEF Balanced, Follows
  <2>3. k - 1 \in a + 1 .. k - 1
    BY <1>6
  <2>4. h[k - 1].depth >= d + 1
    BY <1>7, <2>3 DEF Deep
  <2>5. h[k - 1] \in Locals
    BY <1>6
  <2>6. QED
    BY <1>4, <1>8, <2>2, <2>4, <2>5, StepBackOut
<1>10. Balanced(h, t, a + 1, k - 1, d + 1)
  <2>1. Part(t, a + 1, k - 1) /\ Follows(h, t, a + 1, k - 1)
    <3>1. a <= a + 1
      OBVIOUS
    <3>2. QED
      BY <1>6, <3>1, BalancedInner
  <2>2. \A i \in 0 .. (k - 1) - (a + 1) : (a + 1) + i \in a + 1 .. k - 1
    BY <1>6
  <2>3. Above(h, a + 1, (k - 1) - (a + 1), d + 1)
    BY <1>7, <2>2 DEF Above
  <2>4. QED
    BY <1>1, <1>9, <2>1, <2>3 DEF Balanced
<1>11. Stretch(t, a + 1, k - 1) \in Grammar[(k - a) - 2].items
  BY <1>6, <1>10
<1>12. Stretch(t, a, k) \in ObjectsOf(Grammar, k - a)
  <2>1. a + 1 < k /\ a <= a /\ a <= k
    BY <1>4
  <2>2. Part(t, a, k)
    BY <1>4, <2>1, BalancedInner
  <2>3. Stretch(t, a, k) = Enclosed(Open, Stretch(t, a + 1, k - 1), Close)
    BY <1>4, <1>9, <2>1, <2>2, StretchEnclosed
  <2>4. QED
    BY <1>6, <1>11, <2>3, ObjectsRule
<1>13. QED
  BY <1>4, <1>9, <1>12 DEF BeginsWithItem, ItemsOf

LEMMA BalancedIsItems ==
  ASSUME NEW h \in [Nat -> Locals], NEW t, NEW a \in Nat, NEW b \in Nat, NEW d \in Int,
         Balanced(h, t, a, b, d), \A i \in a + 1 .. b : t[i] # Backslash
  PROVE  Stretch(t, a, b) \in Grammar[b - a].items
<1> DEFINE Known(x, y, e) ==
             Balanced(h, t, x, y, e) /\ (\A i \in x + 1 .. y : t[i] # Backslash)
               => Stretch(t, x, y) \in Grammar[y - x].items
           S == {n \in Nat : \A x, y \in Nat, e \in Int : y - x = n => Known(x, y, e)}
<1>1. ASSUME NEW n \in Nat, \A m \in 0 .. n - 1 : m \in S,
             NEW x \in Nat, NEW y \in Nat, NEW e \in Int, y - x = n,
             Balanced(h, t, x, y, e), \A i \in x + 1 .. y : t[i] # Backslash
      PROVE  Stretch(t, x, y) \in Grammar[y - x].items
  <2>1. \A u, v \in Nat, f \in Int : 0 <= v - u /\ v - u < n => Known(u, v, f)
    <3>1. TAKE u \in Nat, v \in Nat, f \in Int
    <3>2. HAVE 0 <= v - u /\ v - u < n
    <3>3. v - u \in 0 .. n - 1
      BY <3>2
    <3>4. QED
      BY <1>1, <3>3
  <2> HIDE DEF S
  <2>2. Part(t, x, y)
    BY <1>1 DEF Balanced
  <2>3. CASE n = 0
    <3>1. Stretch(t, x, y) \in Words(0)
      BY <1>1, <2>2, <2>3, StretchIsWord
    <3>2. Stretch(t, x, y) = <<>>
      BY <3>1, EmptySeq DEF Words
    <3>3. QED
      BY <1>1, <2>3, <3>2, EmptyWord
  <2>4. ASSUME NEW k \in Nat, x < k, k <= y, h[k] = Plain(e),
               Stretch(t, x, k) \in ItemsOf(Grammar, k - x)
        PROVE  Stretch(t, x, y) \in Grammar[y - x].items
    <3>1. Balanced(h, t, k, y, e)
      <4>1. x <= k
        BY <2>4
      <4>2. QED
        BY <1>1, <2>4, <4>1, BalancedRest
    <3>2. 0 <= y - k /\ y - k < n /\ \A i \in k + 1 .. y : i \in x + 1 .. y
      BY <1>1, <2>4
    <3>3. Stretch(t, k, y) \in Grammar[y - k].items
      BY <1>1, <2>1, <3>1, <3>2
    <3>4. QED
      BY <2>2, <2>4, <3>3, ItemThenItems
  <2>5. CASE n > 0
    <3>1. x < y /\ x + 1 \in x + 1 .. y /\ (x + 1) - 1 = x /\ x + 1 \in Nat /\ x <= x + 1 /\ x + 1 <= y
      BY <1>1, <2>5
    <3>2. h[x + 1] = Step(Plain(e), t[x + 1])
      BY <1>1, <3>1 DEF Balanced, Follows
    <3>3. t[x + 1] \in Chars /\ Part(t, x + 1, y)
      BY <2>2, <3>1, StretchPrefixed
    <3>4. t[x + 1] # Backslash
      BY <1>1, <3>1
    <3>5. CASE t[x + 1] = Other
      <4>1. h[x + 1] = Plain(e)
        BY <3>2, <3>5, StepsOutside
      <4>2. Part(t, x, x + 1)
        BY <2>2, <3>1, StretchesConcat
      <4>3. Stretch(t, x, x + 1) = <<Other>> /\ (x + 1) - x = 1
        BY <3>5, <4>2, StretchOfOne
      <4>4. Stretch(t, x, x + 1) \in ItemsOf(Grammar, (x + 1) - x)
        BY <4>3 DEF ItemsOf
      <4>5. QED
        BY <2>4, <3>1, <4>1, <4>4
    <3>6. CASE t[x + 1] = Close
      <4>1. h[x + 1] = Plain(e - 1)
        BY <3>2, <3>6, StepsOutside
      <4>2. Deep(h[x + 1], e)
        <5>1. 1 \in 0 .. y - x
          BY <3>1
        <5>2. QED
          BY <1>1, <5>1 DEF Balanced, Above
      <4>3. QED
        BY <4>1, <4>2 DEF Deep, Plain
    <3>7. CASE t[x + 1] = Quote
      <4>1. BeginsWithItem(h, t, x, y, e)
        BY <1>1, <3>1, <3>7, FirstString
      <4>2. QED
        BY <2>4, <4>1 DEF BeginsWithItem
    <3>8. CASE t[x + 1] = Open
      <4>1. ASSUME NEW u \in Nat, NEW v \in Nat, x < u, u <= v, v < y, Balanced(h, t, u, v, e + 1)
            PROVE  Stretch(t, u, v) \in Grammar[v - u].items
        <5>1. 0 <= v - u /\ v - u < n /\ e + 1 \in Int /\ \A i \in u + 1 .. v : i \in x + 1 .. y
          BY <1>1, <4>1
        <5>2. QED
          BY <1>1, <2>1, <4>1, <5>1
      <4>2. BeginsWithItem(h, t, x, y, e)
        BY <1>1, <3>1, <3>8, <4>1, FirstObject
      <4>3. QED
        BY <2>4, <4>2 DEF BeginsWithItem
    <3>9. QED
      BY <3>3, <3>4, <3>5, <3>6, <3>7, <3>8 DEF Chars
  <2>6. QED
    BY <2>3, <2>5
<1>2. \A n \in Nat : (\A m \in 0 .. n - 1 : m \in S) => n \in S
  BY <1>1
<1> HIDE DEF S
<1>3. \A n \in Nat : n \in S
  BY <1>2, Induction
<1>4. b - a \in S
  <2>1. b - a \in Nat
    BY StretchIsWord DEF Balanced
  <2>2. QED
    BY <1>3, <2>1
<1>5. QED
  BY <1>4 DEF S

-----------------------------------------------------------------------------
(* The invariant: there are locals for every character read, the loop is   *)
(* below depth 1 at the very end at most, and then it has returned         *)

\* h holds the locals from before the first brace, at f, to now, where they are l,
\* and was inside braces until now.
History(h, t, f, l) ==
  /\ h \in [Nat -> Locals]
  /\ Follows(h, t, f - 1, Len(t))
  /\ h[f - 1] = Plain(0) /\ h[Len(t)] = l
  /\ \A i \in f .. Len(t) - 1 : h[i].depth > 0

ScanInv ==
  /\ text \in Seq(Chars) /\ Len(text) \in Lengths
  /\ from \in 0 .. Len(text)
  /\ loc \in Locals
  /\ from = 0 => loc = Plain(0) /\ cut = <<>>
  /\ from # 0 => text[from] = Open /\ \E h : History(h, text, from, loc)
  /\ from # 0 /\ cut = <<>> => loc.depth > 0
  /\ cut # <<>> => cut = Stretch(text, from - 1, Len(text)) /\ loc = Plain(0)

LEMMA PlainIsLocals ==
  ASSUME NEW d \in Int
  PROVE  Plain(d) \in Locals
BY DEF Plain, Locals

LEMMA InitScan == Init => ScanInv
<1> SUFFICES ASSUME Init
             PROVE  ScanInv
  OBVIOUS
<1>1. text \in Seq(Chars) /\ Len(text) = 0 /\ from = 0 /\ cut = <<>> /\ loc = Plain(0)
  BY DEF Init, Plain
<1>2. 0 \in Lengths /\ Plain(0) \in Locals
  BY LengthAssumption, PlainIsLocals DEF Lengths
<1>3. QED
  BY <1>1, <1>2 DEF ScanInv

LEMMA SkipKeepsScanInv ==
  ASSUME ScanInv, Len(text) < MaxLength, NEW c \in Chars, Skip(c)
  PROVE  ScanInv'
<1>1. from = 0 /\ from' = 0 /\ loc' = loc /\ cut' = cut /\ text' = Append(text, c)
  BY DEF Skip, Started
<1>2. text' \in Seq(Chars) /\ Len(text') = Len(text) + 1
  BY <1>1, AppendProperties DEF ScanInv
<1>3. Len(text') \in Lengths
  BY <1>2, LengthAssumption DEF ScanInv, Lengths
<1>4. from' \in 0 .. Len(text')
  BY <1>1, <1>2 DEF ScanInv, Lengths
<1>5. QED
  BY <1>1, <1>2, <1>3, <1>4 DEF ScanInv

\* What the return test decides: the depth stays above 0 exactly when the loop
\* goes on.
LEMMA ReturnsAtZero ==
  ASSUME NEW l \in Locals, l.depth > 0, NEW c \in Chars
  PROVE  IF Returns(l, c) THEN Step(l, c) = Plain(0) ELSE Step(l, c).depth > 0
<1>1. Step(l, c) \in Locals
  BY StepIsLocals
<1>2. l.depth \in Int /\ Step(l, c).depth \in Int /\ 0 + 1 = 1 /\ 0 \in Int
  BY <1>1 DEF Locals
<1>3. CASE Step(l, c).depth > 0
  BY <1>2, <1>3 DEF Returns
<1>4. CASE ~(Step(l, c).depth > 0)
  <2>1. l.depth >= 0 + 1 /\ Step(l, c).depth < 0 + 1
    BY <1>2, <1>4
  <2>2. c = Close /\ l = Plain(1) /\ Step(l, c) = Plain(0)
    BY <1>2, <2>1, StepBackOut
  <2>3. Returns(l, c)
    BY <2>2 DEF Returns, Plain
  <2>4. QED
    BY <2>2, <2>3
<1>5. QED
  BY <1>3, <1>4

\* The scan of the first brace begins a history, every other one extends it.
LEMMA ScanExtendsHistory ==
  ASSUME ScanInv, cut = <<>>, NEW c \in Chars, Scan(c)
  PROVE  \E h : History(h, text', from', loc')
<1> DEFINE n == Len(text)
<1>1. /\ text' = Append(text, c) /\ loc' = Step(loc, c)
      /\ from' = IF from = 0 THEN Len(text') ELSE from
  BY DEF Scan
<1>2. /\ text' \in Seq(Chars) /\ Len(text') = n + 1 /\ n \in Nat
      /\ \A i \in 1 .. n : text'[i] = text[i]
      /\ text'[n + 1] = c
  BY <1>1, AppendProperties DEF ScanInv
<1>3. loc \in Locals /\ loc' \in Locals
  BY <1>1, StepIsLocals DEF ScanInv
<1>4. CASE from = 0
  <2> DEFINE h == [i \in Nat |-> IF i <= n THEN loc ELSE loc']
  <2>1. h \in [Nat -> Locals]
    BY <1>3
  <2>2. from' = n + 1 /\ from' - 1 = n /\ (n + 1) - 1 = n /\ n + 1 \in Nat
    BY <1>1, <1>2, <1>4
  <2>3. h[n] = loc /\ h[n + 1] = loc' /\ loc = Plain(0)
    BY <1>2, <1>4 DEF ScanInv
  <2> HIDE DEF h
  <2>4. Follows(h, text', n, n + 1)
    <3>1. \A i \in n + 1 .. n + 1 : i = n + 1
      BY <1>2
    <3>2. h[n + 1] = Step(h[n], text'[n + 1])
      BY <1>1, <1>2, <2>3
    <3>3. QED
      BY <2>2, <3>1, <3>2 DEF Follows
  <2>5. \A i \in n + 1 .. (n + 1) - 1 : FALSE
    BY <1>2
  <2>6. History(h, text', from', loc')
    BY <1>2, <2>1, <2>2, <2>3, <2>4, <2>5 DEF History
  <2>7. QED
    BY <2>6
<1>5. CASE from # 0
  <2>1. PICK g : History(g, text, from, loc)
    BY <1>5 DEF ScanInv
  <2> DEFINE h == [g EXCEPT ![n + 1] = loc']
  <2>2. h \in [Nat -> Locals]
    BY <1>2, <1>3, <2>1 DEF History
  <2>3. /\ h[n + 1] = loc' 
        /\ \A i \in Nat : i <= n => h[i] = g[i]
    BY <1>2, <2>1 DEF History
  <2>4. from' = from /\ from \in Nat /\ from \in 1 .. n /\ from - 1 \in Nat /\ from - 1 <= n
    BY <1>1, <1>2, <1>5 DEF ScanInv
  <2>5. h[from - 1] = Plain(0) /\ h[n] = loc
    BY <1>2, <2>1, <2>3, <2>4 DEF History
  <2> HIDE DEF h
  <2>6. ASSUME NEW i \in (from - 1) + 1 .. n + 1
        PROVE  h[i] = Step(h[i - 1], text'[i])
    <3>1. CASE i = n + 1
      <4>1. i - 1 = n
        BY <1>2, <3>1
      <4>2. QED
        BY <1>1, <1>2, <2>3, <2>5, <3>1, <4>1
    <3>2. CASE i # n + 1
      <4>1. i \in 1 .. n /\ i \in Nat /\ i - 1 \in Nat /\ i <= n /\ i - 1 <= n /\ i \in (from - 1) + 1 .. n
        BY <1>2, <2>4, <3>2
      <4>2. g[i] = Step(g[i - 1], text[i])
        BY <2>1, <4>1 DEF History, Follows
      <4>3. QED
        BY <1>2, <2>3, <4>1, <4>2
    <3>3. QED
      BY <3>1, <3>2
  <2>7. Follows(h, text', from - 1, n + 1)
    BY <2>6 DEF Follows
  <2>8. ASSUME NEW i \in from .. (n + 1) - 1
        PROVE  h[i].depth > 0
    <3>1. i \in Nat /\ i <= n /\ h[i] = g[i]
      BY <1>2, <2>3, <2>4
    <3>2. CASE i = n
      <4>1. loc.depth > 0
        BY <1>5 DEF ScanInv
      <4>2. QED
        BY <2>5, <3>2, <4>1
    <3>3. CASE i # n
      <4>1. i \in from .. n - 1
        BY <1>2, <2>4, <3>1, <3>3
      <4>2. QED
        BY <2>1, <3>1, <4>1 DEF History
    <3>4. QED
      BY <3>2, <3>3
  <2>9. History(h, text', from', loc')
    BY <1>2, <2>2, <2>3, <2>4, <2>5, <2>7, <2>8 DEF History
  <2>10. QED
    BY <2>9
<1>6. QED
  BY <1>4, <1>5

LEMMA ScanKeepsScanInv ==
  ASSUME ScanInv, cut = <<>>, Len(text) < MaxLength, NEW c \in Chars, Scan(c)
  PROVE  ScanInv'
<1>1. /\ text' = Append(text, c) /\ loc' = Step(loc, c)
      /\ from' = IF from = 0 THEN Len(text') ELSE from
      /\ cut' = IF Returns(loc, c) THEN SubSeq(text', from', Len(text')) ELSE cut
  BY DEF Scan
<1>2. /\ text' \in Seq(Chars) /\ Len(text') = Len(text) + 1 /\ Len(text) \in Nat
      /\ \A i \in 1 .. Len(text) : text'[i] = text[i]
      /\ text'[Len(text) + 1] = c
  BY <1>1, AppendProperties DEF ScanInv
<1>3. Len(text') \in Lengths
  BY <1>2, LengthAssumption DEF ScanInv, Lengths
<1>4. /\ from' \in 1 .. Len(text') /\ (from' - 1) + 1 = from'
      /\ from' - 1 \in Nat /\ Len(text') \in Nat /\ from' - 1 <= Len(text')
  <2>1. from \in 0 .. Len(text) /\ from' = IF from = 0 THEN Len(text) + 1 ELSE from
    BY <1>1, <1>2 DEF ScanInv
  <2>2. QED
    BY <1>2, <2>1
<1>5. loc' \in Locals
  BY <1>1, StepIsLocals DEF ScanInv
<1>6. text'[from'] = Open
  <2>1. CASE from = 0
    BY <1>1, <1>2, <2>1 DEF Scan, Started
  <2>2. CASE from # 0
    BY <1>1, <1>2, <2>2 DEF ScanInv
  <2>3. QED
    BY <2>1, <2>2
<1>7. \E h : History(h, text', from', loc')
  BY ScanExtendsHistory
<1>8. IF Returns(loc, c) THEN loc' = Plain(0) ELSE loc'.depth > 0
  <2>1. CASE from = 0
    <3>1. loc = Plain(0) /\ c = Open /\ 0 \in Int
      BY <2>1 DEF Scan, Started, ScanInv
    <3>2. loc' = Plain(0 + 1)
      BY <1>1, <3>1, StepsOutside
    <3>3. ~Returns(loc, c)
      BY <3>1, CharsDiffer DEF Returns
    <3>4. QED
      BY <3>2, <3>3 DEF Plain
  <2>2. CASE from # 0
    <3>1. loc \in Locals /\ loc.depth > 0
      BY <2>2 DEF ScanInv
    <3>2. QED
      BY <1>1, <3>1, ReturnsAtZero
  <2>3. QED
    BY <2>1, <2>2
<1>9. cut' = <<>> => loc'.depth > 0
  <2>1. ASSUME Returns(loc, c)
        PROVE  cut' # <<>>
    <3>1. cut' = Stretch(text', from' - 1, Len(text'))
      BY <1>1, <1>4, <2>1 DEF Stretch
    <3>2. Part(text', from' - 1, Len(text'))
      <4>1. Len(text') <= Len(text')
        BY <1>4
      <4>2. QED
        BY <1>2, <1>3, <1>4, <4>1 DEF Part
    <3>3. cut' \in Words(Len(text') - (from' - 1))
      BY <3>1, <3>2, StretchIsWord
    <3>4. Len(cut') # 0
      BY <1>2, <1>4, <3>3 DEF Words
    <3>5. QED
      BY <3>4
  <2>2. QED
    BY <1>8, <2>1
<1>10. cut' # <<>> => cut' = Stretch(text', from' - 1, Len(text')) /\ loc' = Plain(0)
  BY <1>1, <1>4, <1>8 DEF Stretch
<1>11. from' # 0
  BY <1>4
<1>12. QED
  BY <1>2, <1>3, <1>4, <1>5, <1>6, <1>7, <1>9, <1>10, <1>11 DEF ScanInv

LEMMA SpecScan == Spec => []ScanInv
<1>1. ScanInv /\ [Next]_vars => ScanInv'
  <2> SUFFICES ASSUME ScanInv, [Next]_vars
               PROVE  ScanInv'
    OBVIOUS
  <2>1. CASE Next
    BY <2>1, SkipKeepsScanInv, ScanKeepsScanInv DEF Next
  <2>2. CASE UNCHANGED vars
    BY <2>2 DEF vars, ScanInv, History, Follows, Stretch
  <2>3. QED
    BY <2>1, <2>2
<1>2. QED
  BY <1>1, InitScan, PTL DEF Spec

\* The locals are where a reader of extractJSONObject expects them: inside
\* braces exactly from the first one to the return, and in no string or escape
\* outside.
THEOREM ScanTypeCorrect == Spec => []ScanTypeOK
<1>1. ScanInv => ScanTypeOK
  <2> SUFFICES ASSUME ScanInv
               PROVE  ScanTypeOK
    OBVIOUS
  <2>1. from \in 0 .. Len(text)
    BY DEF ScanInv
  <2>2. loc.depth > 0 <=> from # 0 /\ cut = <<>>
    BY DEF ScanInv, Plain
  <2>3. loc.inString \/ loc.escaped => loc.depth > 0
    BY DEF ScanInv, Plain
  <2>4. QED
    BY <2>1, <2>2, <2>3 DEF ScanTypeOK
<1>2. QED
  BY <1>1, SpecScan, PTL

\* The text from the first brace on fits.
LEMMA ReadPart ==
  ASSUME ScanInv, from # 0
  PROVE  /\ Part(text, from - 1, Len(text)) /\ Len(text) \in Nat
         /\ from - 1 \in Nat /\ (from - 1) + 1 = from
<1>1. Len(text) \in Nat /\ from \in 1 .. Len(text)
  BY LengthAssumption DEF ScanInv, Lengths
<1>2. from - 1 \in Nat /\ (from - 1) + 1 = from /\ from - 1 <= Len(text)
  BY <1>1
<1>3. QED
  BY <1>1, <1>2 DEF ScanInv, Part

LEMMA ObjectLength ==
  ASSUME NEW w \in Objects
  PROVE  \E n \in Lengths : w \in ObjectsOf(Grammar, n) /\ w \in Words(n) /\ n >= 2
<1>1. PICK n \in Lengths : w \in ObjectsOf(Grammar, n)
  BY DEF Objects, Lengths
<1>2. n \in Nat /\ n >= 2 /\ n - 2 \in Lengths
  BY <1>1, LengthAssumption DEF Lengths, ObjectsOf
<1>3. HasItsLength(n - 2)
  BY <1>2, WordsHaveTheirLength
<1>4. w \in Words(n)
  BY <1>1, <1>2, <1>3, PartsAreWords
<1>5. QED
  BY <1>1, <1>2, <1>4

\* An object that begins at the first brace ends where the loop has returned.
LEMMA ObjectEndsAtTheCut ==
  ASSUME ScanInv, from # 0, NEW n \in 1 .. Len(text) - from + 1,
         SubSeq(text, from, from + n - 1) \in Objects
  PROVE  from + n - 1 = Len(text) /\ cut = SubSeq(text, from, from + n - 1)
<1> DEFINE a == from - 1
           b == from + n - 1
<1>1. Part(text, a, Len(text)) /\ a \in Nat /\ a + 1 = from /\ Len(text) \in Nat
  BY ReadPart
<1>2. b \in Nat /\ a <= b /\ b <= Len(text) /\ b - a = n /\ a + n = b
  BY <1>1
<1> HIDE DEF b
<1>3. Part(text, a, b) /\ SubSeq(text, from, b) = Stretch(text, a, b)
  BY <1>1, <1>2, StretchesConcat DEF Stretch
<1>4. Stretch(text, a, b) \in Objects
  BY <1>3 DEF b
<1>5. PICK m \in Lengths : /\ Stretch(text, a, b) \in ObjectsOf(Grammar, m)
                          /\ Stretch(text, a, b) \in Words(m) /\ m >= 2
  BY <1>4, ObjectLength
<1>6. m = n
  BY <1>2, <1>3, <1>5, StretchIsWord DEF Words
<1>7. PICK h : History(h, text, from, loc)
  BY DEF ScanInv
<1> HIDE DEF a
<1>8. Follows(h, text, a, b)
  <2>1. \A i \in a + 1 .. b : i \in a + 1 .. Len(text)
    BY <1>1, <1>2
  <2>2. Follows(h, text, a, Len(text)) 
    BY <1>7 DEF History, a
  <2>3. QED
    BY <2>1, <2>2 DEF Follows
<1>9. Reads(h, a, Stretch(text, a, b)) /\ h[a] = Plain(0)
  BY <1>3, <1>7, <1>8, StretchReads DEF History, a
<1>10. h[b] = Plain(0)
  <2>1. n \in Lengths /\ n - 2 \in Lengths /\ 0 \in Int
    BY <1>5, <1>6, LengthAssumption DEF Lengths
  <2>2. ItemsKeep(n - 2)
    BY <2>1, ItemsKeepTheDepth
  <2>3. h[a + n] = Plain(0)
    BY <1>1, <1>5, <1>6, <1>9, <2>1, <2>2, ObjectKeeps
  <2>4. QED
    BY <1>2, <2>3
<1>11. b = Len(text)
  <2>1. SUFFICES ASSUME b # Len(text)
                 PROVE  FALSE
    OBVIOUS
  <2>2. b \in from .. Len(text) - 1
    BY <1>1, <1>2, <2>1 DEF b
  <2>3. h[b].depth > 0
    BY <1>7, <2>2 DEF History
  <2>4. QED
    BY <1>10, <2>3 DEF Plain
<1>12. loc = Plain(0)
  BY <1>7, <1>10, <1>11 DEF History
<1>13. cut # <<>>
  BY <1>12 DEF ScanInv, Plain
<1>14. cut = SubSeq(text, from, b)
  BY <1>3, <1>11, <1>13 DEF ScanInv, a
<1>15. QED
  BY <1>11, <1>14 DEF b

\* When an object begins at the first brace, extractJSONObject cuts out the
\* whole of it, and only then is what it cuts out an object: neither braces in
\* strings nor escaped quotes move the end.
THEOREM CutsWholeObjects == Spec => []CutsTheObject
<1>1. ScanInv => CutsTheObject
  <2> SUFFICES ASSUME ScanInv
               PROVE  CutsTheObject
    OBVIOUS
  <2>1. ASSUME NEW n \in ObjectsRead
        PROVE  cut \in Objects /\ n = Len(cut)
    <3>1. from # 0 /\ n \in 1 .. Len(text) - from + 1 /\ SubSeq(text, from, from + n - 1) \in Objects
      BY DEF ObjectsRead
    <3>2. from + n - 1 = Len(text) /\ cut = SubSeq(text, from, from + n - 1)
      BY <3>1, ObjectEndsAtTheCut
    <3>3. cut = Stretch(text, from - 1, Len(text))
      <4>1. (from - 1) + 1 = from
        BY <3>1, ReadPart
      <4>2. QED
        BY <3>2, <4>1 DEF Stretch
    <3>4. Len(cut) = Len(text) - (from - 1)
      BY <3>1, <3>3, ReadPart, StretchIsWord DEF Words
    <3>5. Len(text) \in Nat /\ from \in 0 .. Len(text)
      BY <3>1, ReadPart DEF ScanInv
    <3>6. n = Len(cut)
      BY <3>1, <3>2, <3>4, <3>5
    <3>7. QED
      BY <3>1, <3>2, <3>6
  <2>2. ASSUME cut \in Objects
        PROVE  Len(cut) \in ObjectsRead
    <3>1. PICK m \in Lengths : cut \in Words(m) /\ m >= 2
      BY <2>2, ObjectLength
    <3>2. Len(cut) = m /\ m \in Nat
      BY <3>1, LengthAssumption DEF Words, Lengths
    <3>3. cut # <<>>
      BY <3>1, <3>2
    <3>4. from # 0 /\ cut = Stretch(text, from - 1, Len(text))
      BY <3>3 DEF ScanInv
    <3>5. Len(cut) = Len(text) - (from - 1) /\ Len(text) \in Nat /\ from \in 0 .. Len(text) /\ (from - 1) + 1 = from
      <4>1. Part(text, from - 1, Len(text)) /\ Len(text) \in Nat /\ (from - 1) + 1 = from
        BY <3>4, ReadPart
      <4>2. Len(cut) = Len(text) - (from - 1)
        BY <3>4, <4>1, StretchIsWord DEF Words
      <4>3. QED
        BY <4>1, <4>2 DEF ScanInv
    <3>6. Len(cut) \in 1 .. Len(text) - from + 1 /\ from + Len(cut) - 1 = Len(text)
      BY <3>1, <3>2, <3>5
    <3>7. SubSeq(text, from, from + Len(cut) - 1) = cut
      BY <3>4, <3>5, <3>6 DEF Stretch
    <3>8. QED
      BY <2>2, <3>4, <3>6, <3>7 DEF ObjectsRead
  <2>3. CASE cut \in Objects
    <3>1. ObjectsRead = {Len(cut)}
      BY <2>1, <2>2, <2>3
    <3>2. QED
      BY <2>3, <3>1 DEF CutsTheObject
  <2>4. CASE cut \notin Objects
    <3>1. ObjectsRead = {}
      BY <2>1, <2>4
    <3>2. QED
      BY <2>4, <3>1 DEF CutsTheObject
  <2>5. QED
    BY <2>3, <2>4
<1>2. QED
  BY <1>1, SpecScan, PTL

\* A cut without escapes is an object.  Its locals return to depth 0 with the
\* last character and not before, so the text between its first and its last
\* brace is a sequence of items.
THEOREM PlainCutsParse == Spec => []PlainCutsAreObjects
<1>1. ScanInv => PlainCutsAreObjects
  <2> SUFFICES ASSUME ScanInv, cut # <<>>, \A i \in DOMAIN cut : cut[i] # Backslash
               PROVE  cut \in Objects
    BY DEF PlainCutsAreObjects
  <2> DEFINE a == from - 1
             b == Len(text)
  <2>1. from # 0 /\ cut = Stretch(text, a, b) /\ loc = Plain(0)
    BY DEF ScanInv
  <2>2. Part(text, a, b) /\ a \in Nat /\ b \in Nat /\ a + 1 = from /\ text[from] = Open
    BY <2>1, ReadPart DEF ScanInv
  <2>3. PICK h : History(h, text, from, loc)
    BY <2>1 DEF ScanInv
  <2>4. \A i \in from .. b : text[i] # Backslash
    <3> HIDE DEF a, b
    <3>1. TAKE i \in from .. b
    <3>2. i - a \in 1 .. b - a /\ a + (i - a) = i
      BY <2>2
    <3>3. cut \in Words(b - a) /\ \A j \in 1 .. b - a : cut[j] = text[a + j]
      BY <2>1, <2>2, StretchIsWord
    <3>4. i - a \in DOMAIN cut
      BY <3>2, <3>3, LenProperties DEF Words
    <3>5. cut[i - a] = text[a + (i - a)]
      BY <3>2, <3>3
    <3>6. QED
      BY <3>2, <3>4, <3>5
  <2>5. /\ h \in [Nat -> Locals]
        /\ Follows(h, text, a, b) /\ h[a] = Plain(0) /\ h[b] = Plain(0)
        /\ \A i \in from .. b - 1 : h[i].depth > 0
    BY <2>1, <2>3 DEF History
  <2> HIDE DEF a, b
  <2>6. h[from] = Plain(1)
    <3>1. from \in a + 1 .. b /\ from - 1 = a
      <4>1. from \in 0 .. b
        BY DEF ScanInv, b
      <4>2. QED
        BY <2>1, <2>2, <4>1
    <3>2. h[from] = Step(Plain(0), Open)
      BY <2>2, <2>5, <3>1 DEF Follows
    <3>3. 0 \in Int /\ 0 + 1 = 1
      OBVIOUS
    <3>4. QED
      BY <3>2, <3>3, StepsOutside
  <2>7. /\ from \in Nat /\ from < b /\ b - 1 \in Nat /\ from <= b - 1 /\ b - 1 <= b /\ a <= from
        /\ a + 1 < b /\ b \in a + 1 .. b /\ b - 1 \in from .. b - 1
    <3>1. from # b
      BY <2>5, <2>6 DEF Plain
    <3>2. from \in 0 .. b
      BY DEF ScanInv, b
    <3>3. QED
      BY <2>2, <3>1, <3>2
  <2>8. \A i \in from .. b - 1 : Deep(h[i], 1)
    <3>1. TAKE i \in from .. b - 1
    <3>2. h[i] \in Locals /\ h[i].depth > 0
      BY <2>5, <2>7
    <3>3. QED
      BY <3>2 DEF Deep, Locals
  <2>9. text[b] = Close /\ h[b - 1] = Plain(1)
    <3>1. text[b] \in Chars
      BY <2>2, <2>7, StretchEnclosed
    <3>2. h[b] = Step(h[b - 1], text[b])
      BY <2>5, <2>7 DEF Follows
    <3>3. h[b - 1] \in Locals /\ h[b - 1].depth >= 0 + 1
      BY <2>5, <2>7, <2>8 DEF Deep
    <3>4. Step(h[b - 1], text[b]).depth < 0 + 1
      BY <2>5, <3>2 DEF Plain
    <3>5. 0 \in Int /\ 0 + 1 = 1
      OBVIOUS
    <3>6. QED
      BY <3>1, <3>3, <3>4, <3>5, StepBackOut
  <2>10. Balanced(h, text, from, b - 1, 1)
    <3>1. Part(text, from, b - 1)
      BY <2>2, <2>7 DEF Part
    <3>2. Follows(h, text, from, b - 1)
      <4>1. \A i \in from + 1 .. b - 1 : i \in a + 1 .. b
        BY <2>2, <2>7
      <4>2. QED
        BY <2>5, <4>1 DEF Follows
    <3>3. \A i \in 0 .. (b - 1) - from : from + i \in from .. b - 1
      BY <2>7
    <3>4. Above(h, from, (b - 1) - from, 1)
      BY <2>8, <3>3 DEF Above
    <3>5. QED
      BY <2>6, <2>9, <3>1, <3>2, <3>4 DEF Balanced
  <2>11. Stretch(text, from, b - 1) \in Grammar[(b - 1) - from].items
    <3>1. \A i \in from + 1 .. b - 1 : i \in from .. b
      BY <2>7
    <3>2. QED
      BY <2>4, <2>5, <2>7, <2>10, <3>1, BalancedIsItems
  <2>12. cut = Enclosed(Open, Stretch(text, from, b - 1), Close)
    BY <2>1, <2>2, <2>7, <2>9, StretchEnclosed DEF a, b
  <2>13. b - a \in Lengths /\ b - a \in Nat /\ b - a >= 2 /\ (b - a) - 2 = (b - 1) - from
    BY <2>2, <2>7, StretchIsWord
  <2>14. cut \in ObjectsOf(Grammar, b - a)
    BY <2>11, <2>12, <2>13, ObjectsRule
  <2>15. QED
    BY <2>13, <2>14 DEF Objects, Lengths
<1>2. QED
  BY <1>1, SpecScan, PTL
=============================================================================
