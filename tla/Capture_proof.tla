--------------------------- MODULE Capture_proof ---------------------------
(***************************************************************************)
(* Proofs about Capture and the pairs run inside it, for any spans, any    *)
(* number of them and any clock: what the stable sort by start times does  *)
(* to the recorder's list, and why the result respects causality.          *)
(***************************************************************************)
EXTENDS PairCapture, FiniteSetTheorems, SequenceTheorems, WellFoundedInduction, TLAPS

-----------------------------------------------------------------------------
(* Ranking the positions of a sequence by a strict total order, a set of   *)
(* pairs of positions                                                      *)

IsOrder(R, D) ==
  /\ \A i \in D : <<i, i>> \notin R
  /\ \A i, j \in D : i = j \/ <<i, j>> \in R \/ <<j, i>> \in R
  /\ \A i, j, k \in D : <<i, j>> \in R /\ <<j, k>> \in R => <<i, k>> \in R

Lower(R, D, i) == {j \in D : <<j, i>> \in R}
Place(R, D, i) == Cardinality(Lower(R, D, i)) + 1

LEMMA LowerIsFinite ==
  ASSUME NEW n \in Nat, NEW R, NEW i
  PROVE  /\ IsFiniteSet(1 .. n) /\ Cardinality(1 .. n) = n
         /\ IsFiniteSet(Lower(R, 1 .. n, i)) /\ Cardinality(Lower(R, 1 .. n, i)) \in Nat
<1>1. IsFiniteSet(1 .. n) /\ Cardinality(1 .. n) = n
  <2>1. /\ IsFiniteSet(1 .. n)
        /\ Cardinality(1 .. n) = IF 1 > n THEN 0 ELSE n - 1 + 1
    BY FS_Interval
  <2>2. QED
    BY <2>1
<1>2. Lower(R, 1 .. n, i) \in SUBSET (1 .. n)
  BY DEF Lower
<1>3. IsFiniteSet(Lower(R, 1 .. n, i))
  BY <1>1, <1>2, FS_Subset
<1>4. QED
  BY <1>1, <1>3, FS_CardinalityType

\* Places follow the order.
LEMMA PlaceIsMonotone ==
  ASSUME NEW n \in Nat, NEW R, IsOrder(R, 1 .. n),
         NEW i \in 1 .. n, NEW j \in 1 .. n, <<i, j>> \in R
  PROVE  Place(R, 1 .. n, i) < Place(R, 1 .. n, j)
<1> DEFINE L(k) == Lower(R, 1 .. n, k)
<1>1. L(i) \in SUBSET L(j)
  BY DEF Lower, IsOrder
<1>2. i \in L(j) /\ i \notin L(i)
  BY DEF Lower, IsOrder
<1>3. IsFiniteSet(L(j)) /\ Cardinality(L(j)) \in Nat /\ Cardinality(L(i)) \in Nat
  BY LowerIsFinite
<1> HIDE DEF L
<1>4. Cardinality(L(i)) <= Cardinality(L(j)) /\ Cardinality(L(i)) # Cardinality(L(j))
  BY <1>1, <1>2, <1>3, FS_Subset
<1>5. QED
  BY <1>3, <1>4 DEF Place, L

LEMMA PlaceIsPosition ==
  ASSUME NEW n \in Nat, NEW R, IsOrder(R, 1 .. n), NEW i \in 1 .. n
  PROVE  Place(R, 1 .. n, i) \in 1 .. n
<1> DEFINE below == Lower(R, 1 .. n, i)
<1>1. below \in SUBSET (1 .. n) /\ i \notin below
  BY DEF Lower, IsOrder
<1>2. IsFiniteSet(1 .. n) /\ Cardinality(1 .. n) = n /\ Cardinality(below) \in Nat
  BY LowerIsFinite
<1> HIDE DEF below
<1>3. Cardinality(below) <= n /\ Cardinality(below) # n
  BY <1>1, <1>2, FS_Subset
<1>4. QED
  BY <1>2, <1>3 DEF Place, below

\* On a finite sequence every place is taken, by exactly one position.
LEMMA Ranking ==
  ASSUME NEW n \in Nat, NEW R, IsOrder(R, 1 .. n)
  PROVE  LET D == 1 .. n IN
         /\ \A i \in D : Place(R, D, i) \in D
         /\ \A i, j \in D : <<i, j>> \in R <=> Place(R, D, i) < Place(R, D, j)
         /\ \A i, j \in D : Place(R, D, i) = Place(R, D, j) => i = j
         /\ \A p \in D : \E i \in D : Place(R, D, i) = p
<1> DEFINE D == 1 .. n
           place == [i \in D |-> Place(R, D, i)]
           At(i) == Place(R, D, i)
<1>1. \A i \in D : At(i) \in D /\ At(i) \in Nat
  BY PlaceIsPosition
<1>2. \A i, j \in D : <<i, j>> \in R => At(i) < At(j)
  BY PlaceIsMonotone
<1>3. /\ \A i, j \in D : i = j \/ <<i, j>> \in R \/ <<j, i>> \in R
      /\ \A i \in D : <<i, i>> \notin R
  BY DEF IsOrder
<1>4. \A i, j \in D : At(i) = At(j) => i = j
  <2> HIDE DEF At, D
  <2>1. SUFFICES ASSUME NEW i \in D, NEW j \in D, At(i) = At(j), i # j
                 PROVE  FALSE
    OBVIOUS
  <2>2. At(i) < At(j) \/ At(j) < At(i)
    BY <1>2, <1>3, <2>1
  <2>3. QED
    BY <1>1, <2>1, <2>2
<1>5. \A i, j \in D : <<i, j>> \in R <=> At(i) < At(j)
  <2> HIDE DEF At, D
  <2>1. SUFFICES ASSUME NEW i \in D, NEW j \in D, At(i) < At(j), <<i, j>> \notin R
                 PROVE  FALSE
    BY <1>2
  <2>2. i # j /\ <<j, i>> \in R
    BY <1>1, <1>3, <2>1
  <2>3. At(j) < At(i)
    BY <1>2, <2>2
  <2>4. QED
    BY <1>1, <2>1, <2>3
<1>6. place \in [D -> D]
  BY <1>1
<1>7. \A i, j \in D : place[i] = place[j] => i = j
  BY <1>4
<1>8. \A p \in D : \E i \in D : place[i] = p
  <2>1. IsFiniteSet(D)
    BY FS_Interval
  <2> HIDE DEF place
  <2>2. place \in Injection(D, D)
    BY <1>6, <1>7 DEF Injection, IsInjective
  <2>3. place \in Surjection(D, D)
    BY <2>1, <2>2, FS_Injection
  <2>4. QED
    BY <2>3 DEF Surjection
<1>9. \A p \in D : \E i \in D : Place(R, D, i) = p
  BY <1>8
<1>10. QED
  BY <1>1, <1>4, <1>5, <1>9

\* The sequence SortBy makes of a ranking.
SortedBy(R, n, s) ==
  [p \in 1 .. n |-> s[CHOOSE i \in 1 .. n : Place(R, 1 .. n, i) = p]]

\* The sequence r is s in the order of R: f says which element stands at a
\* place, and pos at which place an element stands.
InOrder(R, n, s, r) ==
  \E f, pos \in [1 .. n -> 1 .. n] :
    /\ r = [p \in 1 .. n |-> s[f[p]]]
    /\ \A i \in 1 .. n : f[pos[i]] = i /\ pos[f[i]] = i
    /\ \A i, j \in 1 .. n : <<i, j>> \in R <=> pos[i] < pos[j]

LEMMA Sorted ==
  ASSUME NEW n \in Nat, NEW R, IsOrder(R, 1 .. n), NEW s
  PROVE  InOrder(R, n, s, SortedBy(R, n, s))
<1> DEFINE D == 1 .. n
           pos == [i \in D |-> Place(R, D, i)]
           f == [p \in D |-> CHOOSE i \in D : Place(R, D, i) = p]
           r == SortedBy(R, n, s)
<1>1. /\ \A i \in D : Place(R, D, i) \in D
      /\ \A i, j \in D : <<i, j>> \in R <=> Place(R, D, i) < Place(R, D, j)
      /\ \A i, j \in D : Place(R, D, i) = Place(R, D, j) => i = j
      /\ \A p \in D : \E i \in D : Place(R, D, i) = p
  BY Ranking
<1>2. \A p \in D : f[p] \in D /\ Place(R, D, f[p]) = p
  BY <1>1
<1>3. \A i \in D : pos[i] = Place(R, D, i)
  OBVIOUS
<1>4. pos \in [D -> D] /\ f \in [D -> D]
  BY <1>1, <1>2
<1>5. r = [p \in D |-> s[f[p]]]
  <2>1. \A p \in D : f[p] = CHOOSE i \in D : Place(R, D, i) = p
    OBVIOUS
  <2>2. r = [p \in D |-> s[CHOOSE i \in D : Place(R, D, i) = p]]
    BY DEF SortedBy
  <2> HIDE DEF f, D, r
  <2>3. \A p \in D : s[f[p]] = s[CHOOSE i \in D : Place(R, D, i) = p]
    BY <2>1, Zenon
  <2>4. QED
    BY <2>2, <2>3
<1> HIDE DEF f, pos
<1>6. \A i \in D : f[pos[i]] = i /\ pos[f[i]] = i
  BY <1>1, <1>2, <1>3, <1>4
<1>7. \A i, j \in D : <<i, j>> \in R <=> pos[i] < pos[j]
  <2> SUFFICES ASSUME NEW i \in D, NEW j \in D
               PROVE  <<i, j>> \in R <=> pos[i] < pos[j]
    OBVIOUS
  <2>1. <<i, j>> \in R <=> Place(R, D, i) < Place(R, D, j)
    BY <1>1
  <2>2. QED
    BY <1>3, <2>1
<1>8. QED
  BY <1>4, <1>5, <1>6, <1>7 DEF InOrder

-----------------------------------------------------------------------------
(* sort.SliceStable *)

Earlier(s, i, j) == \/ s[i].start < s[j].start
                    \/ s[i].start = s[j].start /\ i < j

Starts(s) == \A i \in DOMAIN s : s[i].start \in Nat

Stable(s) == {q \in (DOMAIN s) \X (DOMAIN s) : Earlier(s, q[1], q[2])}

\* The sorted sequence is in the stable order.
LEMMA SortIsInOrder ==
  ASSUME NEW T, NEW s \in Seq(T), Starts(s)
  PROVE  InOrder(Stable(s), Len(s), s, SortByStart(s))
<1> DEFINE D == 1 .. Len(s)
           R == Stable(s)
<1>1. DOMAIN s = D /\ Len(s) \in Nat
  OBVIOUS
<1>2. \A i, j \in D : <<i, j>> \in R <=> Earlier(s, i, j)
  BY <1>1 DEF Stable
<1>3. \A i \in D : s[i].start \in Nat
  BY <1>1 DEF Starts
<1> HIDE DEF R
<1>4. IsOrder(R, D)
  <2>1. D \subseteq Nat
    BY <1>1
  <2> HIDE DEF D
  <2>2. /\ \A i \in D : ~Earlier(s, i, i)
        /\ \A i, j \in D : i = j \/ Earlier(s, i, j) \/ Earlier(s, j, i)
        /\ \A i, j, k \in D : Earlier(s, i, j) /\ Earlier(s, j, k) => Earlier(s, i, k)
    BY <1>3, <2>1 DEF Earlier
  <2>3. QED
    BY <1>2, <2>2 DEF IsOrder
<1>5. SortByStart(s) = SortedBy(R, Len(s), s)
  <2>1. \A i \in D : Lower(R, D, i) = {j \in D : Earlier(s, j, i)}
    BY <1>2 DEF Lower
  <2>2. \A i \in D : Place(R, D, i) = Cardinality({j \in D : Earlier(s, j, i)}) + 1
    BY <2>1 DEF Place
  <2>3. SortByStart(s)
          = [p \in D |-> s[CHOOSE i \in D : Cardinality({j \in D : Earlier(s, j, i)}) + 1 = p]]
    BY <1>1 DEF SortByStart, SortBy, Earlier
  <2>4. \A p \in D : (CHOOSE i \in D : Place(R, D, i) = p)
                   = (CHOOSE i \in D : Cardinality({j \in D : Earlier(s, j, i)}) + 1 = p)
    BY <2>2
  <2>5. SortByStart(s) = [p \in D |-> s[CHOOSE i \in D : Place(R, D, i) = p]]
    BY <2>3, <2>4, Zenon
  <2>6. QED
    BY <2>5 DEF SortedBy
<1>6. QED
  BY <1>1, <1>4, <1>5, Sorted DEF R

\* It lists every position once.
LEMMA SortIsStable ==
  ASSUME NEW T, NEW s \in Seq(T), Starts(s)
  PROVE  \E f \in [DOMAIN s -> DOMAIN s] :
           /\ SortByStart(s) = [p \in DOMAIN s |-> s[f[p]]]
           /\ \A p, q \in DOMAIN s : p < q => Earlier(s, f[p], f[q])
           /\ \A i \in DOMAIN s : \E p \in DOMAIN s : f[p] = i
<1> DEFINE D == 1 .. Len(s)
           R == Stable(s)
<1>1. DOMAIN s = D /\ Len(s) \in Nat
  OBVIOUS
<1>2. \A i, j \in D : <<i, j>> \in R <=> Earlier(s, i, j)
  BY <1>1 DEF Stable
<1> HIDE DEF R
<1>3. PICK f \in [D -> D], pos \in [D -> D] :
        /\ SortByStart(s) = [p \in D |-> s[f[p]]]
        /\ \A i \in D : f[pos[i]] = i /\ pos[f[i]] = i
        /\ \A i, j \in D : <<i, j>> \in R <=> pos[i] < pos[j]
  BY SortIsInOrder DEF InOrder, R
<1>4. \A p, q \in D : p < q => Earlier(s, f[p], f[q])
  BY <1>2, <1>3
<1>5. \A i \in D : \E p \in D : f[p] = i
  BY <1>3
<1>6. QED
  BY <1>1, <1>3, <1>4, <1>5

-----------------------------------------------------------------------------
(* Sequences of spans.  What a span is named and carries is anything, so   *)
(* the elements of a sequence are in some set nobody names.                *)

IsSequence(s) == \E T : s \in Seq(T)

LEMMA AppendSequence ==
  ASSUME NEW s, IsSequence(s), NEW e
  PROVE  /\ IsSequence(Append(s, e))
         /\ Len(Append(s, e)) = Len(s) + 1 /\ Len(s) \in Nat
         /\ DOMAIN Append(s, e) = 1 .. Len(s) + 1 /\ DOMAIN s = 1 .. Len(s)
         /\ \A i \in 1 .. Len(s) : Append(s, e)[i] = s[i]
         /\ Append(s, e)[Len(s) + 1] = e
<1>1. PICK T : s \in Seq(T)
  BY DEF IsSequence
<1>2. s \in Seq(T \cup {e}) /\ e \in T \cup {e}
  BY <1>1
<1>3. Append(s, e) \in Seq(T \cup {e})
  BY <1>2
<1>4. QED
  BY <1>2, <1>3 DEF IsSequence

LEMMA ButLast ==
  ASSUME NEW s, IsSequence(s), Len(s) > 0
  PROVE  LET r == SubSeq(s, 1, Len(s) - 1) IN
         /\ IsSequence(r)
         /\ Len(r) = Len(s) - 1 /\ Len(s) \in Nat
         /\ DOMAIN r = 1 .. Len(s) - 1 /\ DOMAIN s = 1 .. Len(s)
         /\ \A i \in DOMAIN r : r[i] = s[i]
<1>1. PICK T : s \in Seq(T)
  BY DEF IsSequence
<1> DEFINE r == SubSeq(s, 1, Len(s) - 1)
<1> DEFINE n == Len(s) - 1
<1>2. n \in Nat /\ Len(s) = n + 1 /\ Len(s) \in Nat /\ \A i \in 1 .. n : s[i] \in T
  BY <1>1
<1>3. /\ r \in Seq(T) /\ Len(r) = Len(s) - 1
      /\ \A i \in 1 .. Len(s) - 1 : r[i] = s[i]
  <2>1. /\ SubSeq(s, 1, n) \in Seq(T)
        /\ Len(SubSeq(s, 1, n)) = IF 1 <= n THEN n - 1 + 1 ELSE 0
        /\ \A i \in 1 .. n - 1 + 1 : SubSeq(s, 1, n)[i] = s[1 + i - 1]
    BY <1>2, SubSeqProperties
  <2> HIDE DEF n
  <2>2. \A i \in 1 .. n : SubSeq(s, 1, n)[i] = s[i]
    BY <1>2, <2>1
  <2>3. Len(SubSeq(s, 1, n)) = n
    BY <1>2, <2>1
  <2>4. QED
    BY <2>1, <2>2, <2>3 DEF n
<1>4. DOMAIN r = 1 .. Len(s) - 1 /\ DOMAIN s = 1 .. Len(s)
  BY <1>1, <1>2
<1>5. QED
  BY <1>2, <1>3, <1>4 DEF IsSequence

LEMMA LastReplaced ==
  ASSUME NEW s, IsSequence(s), Len(s) > 0, NEW e
  PROVE  LET r == [s EXCEPT ![Len(s)] = e] IN
         /\ IsSequence(r)
         /\ Len(r) = Len(s) /\ Len(s) \in Nat
         /\ DOMAIN r = 1 .. Len(s) /\ DOMAIN s = 1 .. Len(s)
         /\ \A i \in DOMAIN r : r[i] = IF i = Len(s) THEN e ELSE s[i]
<1>1. PICK T : s \in Seq(T)
  BY DEF IsSequence
<1>2. s \in Seq(T \cup {e}) /\ e \in T \cup {e}
  BY <1>1
<1>3. [s EXCEPT ![Len(s)] = e] \in Seq(T \cup {e})
  BY <1>2
<1>4. QED
  BY <1>2, <1>3 DEF IsSequence

-----------------------------------------------------------------------------
(* The inductive invariant *)

Fields == {"name", "attrs", "start", "born", "after", "depth"}

\* A span started by the given time, one of n, when the list of ended spans is
\* as given: every span that had ended by its start had started before it.
Started(span, n, time, list) ==
  /\ DOMAIN span = Fields
  /\ span.start \in 0 .. time
  /\ span.born \in 1 .. n
  /\ span.after \in 0 .. Len(list)
  /\ span.depth \in Nat
  /\ \A e \in 1 .. span.after : /\ list[e].start <= span.start
                               /\ list[e].born < span.born

OpenInv ==
  \A i \in DOMAIN open : /\ Started(open[i], Len(open) + Len(ended), now, ended)
                         /\ open[i].depth = i - 1

EndedInv ==
  \A i \in DOMAIN ended : /\ Started(ended[i], Len(open) + Len(ended), now, ended)
                          /\ ended[i].after < i

BirthInv ==
  /\ \A i, j \in DOMAIN open : open[i].born = open[j].born => i = j
  /\ \A i, j \in DOMAIN ended : ended[i].born = ended[j].born => i = j
  /\ \A i \in DOMAIN open, j \in DOMAIN ended : open[i].born # ended[j].born

\* Between the start and the end of a child of the session only spans inside it
\* ended.
SiblingsInv ==
  /\ \A j \in DOMAIN ended :
       ended[j].depth = 1 => \A i \in ended[j].after + 1 .. j - 1 : ended[i].depth >= 2
  /\ Len(open) >= 2 => \A i \in open[2].after + 1 .. Len(ended) : ended[i].depth >= 2

BoundInv ==
  /\ IsSequence(open) /\ IsSequence(ended)
  /\ now \in 0 .. MaxTime
  /\ Len(open) + Len(ended) <= MaxSpans

TraceInv ==
  \/ trace = <<>>
  \/ open = <<>> /\ trace = SortByStart(ended)

SpansInv   == BoundInv /\ OpenInv /\ EndedInv /\ BirthInv /\ SiblingsInv
CaptureInv == SpansInv /\ TraceInv

-----------------------------------------------------------------------------
(* The operations, on spans of any name and attributes *)

LEMMA InitInv == CaptureInit => CaptureInv
<1>1. SUFFICES ASSUME CaptureInit PROVE CaptureInv
  OBVIOUS
<1>2. ended = <<>> /\ trace = <<>> /\ Len(ended) = 0 /\ DOMAIN ended = {} /\ IsSequence(ended)
  BY <1>1 DEF CaptureInit, IsSequence
<1>3. /\ open \in Seq({open[1]}) /\ Len(open) = 1 /\ DOMAIN open = {1}
      /\ open[1] = [name |-> "session", attrs |-> NoAttrs, start |-> 0,
                    born |-> 1, after |-> 0, depth |-> 0]
  BY <1>1 DEF CaptureInit
<1>4. BoundInv
  <2>1. IsSequence(open)
    BY <1>3 DEF IsSequence
  <2>2. QED
    BY <1>1, <1>2, <1>3, <2>1, CaptureAssumption DEF BoundInv, CaptureInit
<1>5. OpenInv
  <2>1. Started(open[1], 1, now, ended)
    BY <1>1, <1>2, <1>3, CaptureAssumption DEF Started, Fields, CaptureInit
  <2>2. QED
    BY <1>2, <1>3, <2>1 DEF OpenInv
<1>6. EndedInv /\ BirthInv /\ TraceInv /\ SiblingsInv
  BY <1>2, <1>3 DEF EndedInv, BirthInv, TraceInv, SiblingsInv
<1>7. QED
  BY <1>4, <1>5, <1>6 DEF CaptureInv, SpansInv

LEMMA TickInv == CaptureInv /\ Tick => CaptureInv'
<1>1. SUFFICES ASSUME CaptureInv, Tick PROVE CaptureInv'
  OBVIOUS
<1>2. /\ now' = now + 1 /\ now \in Nat /\ now < MaxTime
      /\ open' = open /\ ended' = ended /\ trace' = trace
  BY <1>1, CaptureAssumption DEF Tick, CaptureInv, SpansInv, BoundInv
<1>3. BoundInv'
  BY <1>1, <1>2, CaptureAssumption DEF CaptureInv, SpansInv, BoundInv
<1>4. \A span, n : Started(span, n, now, ended) => Started(span, n, now + 1, ended)
  BY <1>2 DEF Started
<1>5. OpenInv' /\ EndedInv'
  BY <1>1, <1>2, <1>4 DEF CaptureInv, SpansInv, OpenInv, EndedInv
<1>6. BirthInv' /\ SiblingsInv' /\ TraceInv'
  BY <1>1, <1>2 DEF CaptureInv, SpansInv, BirthInv, SiblingsInv, TraceInv
<1>7. QED
  BY <1>3, <1>5, <1>6 DEF CaptureInv, SpansInv

LEMMA StartInv ==
  ASSUME NEW name, NEW attrs
  PROVE  CaptureInv /\ StartSpan(name, attrs) => CaptureInv'
<1>1. SUFFICES ASSUME CaptureInv, StartSpan(name, attrs) PROVE CaptureInv'
  OBVIOUS
<1> DEFINE e == NewSpan(name, attrs)
           n == Len(open)
           m == Len(ended)
<1>2. /\ open # <<>> /\ n + m < MaxSpans /\ open' = Append(open, e)
      /\ now' = now /\ ended' = ended /\ trace' = trace
  BY <1>1 DEF StartSpan, Recording
<1>3. /\ IsSequence(open) /\ IsSequence(ended) /\ m \in Nat /\ DOMAIN ended = 1 .. m
      /\ now \in Nat
  BY <1>1, CaptureAssumption DEF CaptureInv, SpansInv, BoundInv, IsSequence
<1>4. /\ IsSequence(open') /\ Len(open') = n + 1 /\ n \in Nat
      /\ DOMAIN open' = 1 .. n + 1 /\ DOMAIN open = 1 .. n
      /\ \A i \in 1 .. n : open'[i] = open[i]
      /\ open'[n + 1] = e
  BY <1>2, <1>3, AppendSequence
<1>5. /\ DOMAIN e = Fields /\ e.start = now /\ e.born = n + m + 1
      /\ e.after = m /\ e.depth = n
  BY DEF NewSpan, Fields
<1> HIDE DEF e
<1>6. \A span : Started(span, n + m, now, ended)
                 => Started(span, n + m + 1, now, ended)
  BY <1>3, <1>4 DEF Started
<1>7. BoundInv'
  BY <1>1, <1>2, <1>3, <1>4, CaptureAssumption DEF CaptureInv, SpansInv, BoundInv
<1>8. OpenInv'
  <2>1. Started(e, n + m + 1, now, ended)
    <3>1. \A i \in 1 .. m : ended[i].start <= now /\ ended[i].born < n + m + 1
      BY <1>1, <1>3, <1>4 DEF CaptureInv, SpansInv, EndedInv, Started
    <3>2. QED
      BY <1>3, <1>4, <1>5, <3>1 DEF Started
  <2>2. \A i \in 1 .. n : Started(open[i], n + m + 1, now, ended) /\ open[i].depth = i - 1
    BY <1>1, <1>4, <1>6 DEF CaptureInv, SpansInv, OpenInv
  <2>3. \A i \in 1 .. n + 1 : Started(open'[i], n + m + 1, now, ended) /\ open'[i].depth = i - 1
    BY <1>4, <1>5, <2>1, <2>2
  <2>4. Len(open') + Len(ended') = n + m + 1
    BY <1>2, <1>3, <1>4
  <2>5. \A i \in DOMAIN open' : /\ Started(open'[i], Len(open') + Len(ended'), now', ended')
                               /\ open'[i].depth = i - 1
    BY <1>2, <1>4, <2>3, <2>4
  <2>6. QED
    BY <2>5 DEF OpenInv
<1>9. EndedInv'
  BY <1>1, <1>2, <1>3, <1>4, <1>6 DEF CaptureInv, SpansInv, EndedInv
<1>10. BirthInv'
  <2>1. \A i \in 1 .. n : open[i].born \in 1 .. n + m
    BY <1>1, <1>4 DEF CaptureInv, SpansInv, OpenInv, Started
  <2>2. \A i \in 1 .. m : ended[i].born \in 1 .. n + m
    BY <1>1, <1>3 DEF CaptureInv, SpansInv, EndedInv, Started
  <2>3. /\ BirthInv /\ n \in Nat /\ m \in Nat /\ ended' = ended
        /\ DOMAIN open' = 1 .. n + 1 /\ DOMAIN open = 1 .. n /\ DOMAIN ended = 1 .. m
        /\ open'[n + 1].born = n + m + 1 /\ \A i \in 1 .. n : open'[i].born = open[i].born
    BY <1>1, <1>2, <1>3, <1>4, <1>5 DEF CaptureInv, SpansInv
  <2> HIDE DEF n, m
  <2>4. ASSUME NEW i \in DOMAIN open', NEW j \in DOMAIN open', open'[i].born = open'[j].born
        PROVE  i = j
    <3>1. CASE i = n + 1
      BY <2>1, <2>3, <2>4, <3>1
    <3>2. CASE j = n + 1
      BY <2>1, <2>3, <2>4, <3>2
    <3>3. CASE i \in 1 .. n /\ j \in 1 .. n
      BY <2>3, <2>4, <3>3 DEF BirthInv
    <3>4. QED
      BY <2>3, <3>1, <3>2, <3>3
  <2>5. ASSUME NEW i \in DOMAIN open', NEW j \in DOMAIN ended'
        PROVE  open'[i].born # ended'[j].born
    <3>1. CASE i = n + 1
      BY <2>2, <2>3, <3>1
    <3>2. CASE i \in 1 .. n
      BY <2>3, <3>2 DEF BirthInv
    <3>3. QED
      BY <2>3, <3>1, <3>2
  <2>6. QED
    BY <2>3, <2>4, <2>5 DEF BirthInv
<1>11. SiblingsInv'
  <2>1. CASE n = 1
    BY <1>1, <1>2, <1>3, <1>4, <1>5, <2>1 DEF CaptureInv, SpansInv, SiblingsInv
  <2>2. CASE n >= 2
    BY <1>1, <1>2, <1>3, <1>4, <2>2 DEF CaptureInv, SpansInv, SiblingsInv
  <2>3. n # 0
    BY <1>2, <1>3 DEF IsSequence
  <2>4. QED
    BY <1>4, <2>1, <2>2, <2>3
<1>12. TraceInv'
  BY <1>1, <1>2 DEF CaptureInv, TraceInv
<1>13. QED
  BY <1>7, <1>8, <1>9, <1>10, <1>11, <1>12 DEF CaptureInv, SpansInv

LEMMA StampInv ==
  ASSUME NEW attrs
  PROVE  CaptureInv /\ Stamp(attrs) => CaptureInv'
<1>1. SUFFICES ASSUME CaptureInv, Stamp(attrs) PROVE CaptureInv'
  OBVIOUS
<1> DEFINE e == SetAttributes(open[Len(open)], attrs)
           n == Len(open)
           m == Len(ended)
<1>2. /\ open # <<>> /\ open' = [open EXCEPT ![n] = e]
      /\ now' = now /\ ended' = ended /\ trace' = trace
  BY <1>1 DEF Stamp, Recording, SetAttributes
<1>3. IsSequence(open) /\ IsSequence(ended)
  BY <1>1 DEF CaptureInv, SpansInv, BoundInv
<1>4. n \in Nat /\ n > 0
  BY <1>2, <1>3 DEF IsSequence
<1>5. /\ IsSequence(open') /\ Len(open') = n
      /\ DOMAIN open' = 1 .. n /\ DOMAIN open = 1 .. n
      /\ \A i \in DOMAIN open' : open'[i] = IF i = n THEN e ELSE open[i]
  <2> HIDE DEF e
  <2>1. QED
    BY <1>2, <1>3, <1>4, LastReplaced
<1>6. /\ DOMAIN e = Fields /\ e.start = open[n].start /\ e.born = open[n].born
      /\ e.after = open[n].after /\ e.depth = open[n].depth
  <2>1. DOMAIN open[n] = Fields
    BY <1>1, <1>4, <1>5 DEF CaptureInv, SpansInv, OpenInv, Started
  <2>2. QED
    BY <2>1 DEF SetAttributes, Fields
<1> HIDE DEF e
<1>7. \A i \in 1 .. n : /\ DOMAIN open'[i] = DOMAIN open[i] /\ open'[i].start = open[i].start
                        /\ open'[i].born = open[i].born /\ open'[i].after = open[i].after
                        /\ open'[i].depth = open[i].depth
  <2>1. DOMAIN open[n] = Fields
    BY <1>1, <1>4, <1>5 DEF CaptureInv, SpansInv, OpenInv, Started
  <2>2. QED
    BY <1>5, <1>6, <2>1
<1>8. BoundInv'
  BY <1>1, <1>2, <1>5 DEF CaptureInv, SpansInv, BoundInv
<1>9. OpenInv'
  <2>1. \A i \in 1 .. n : Started(open[i], n + m, now, ended) /\ open[i].depth = i - 1
    BY <1>1, <1>5 DEF CaptureInv, SpansInv, OpenInv
  <2>2. \A i \in 1 .. n : Started(open'[i], n + m, now, ended) /\ open'[i].depth = i - 1
    BY <1>7, <2>1 DEF Started
  <2>3. \A i \in DOMAIN open' : /\ Started(open'[i], Len(open') + Len(ended'), now', ended')
                               /\ open'[i].depth = i - 1
    BY <1>2, <1>5, <2>2
  <2>4. QED
    BY <2>3 DEF OpenInv
<1>10. EndedInv'
  BY <1>1, <1>2, <1>5 DEF CaptureInv, SpansInv, EndedInv
<1>11. BirthInv'
  <2>1. BirthInv
    BY <1>1 DEF CaptureInv, SpansInv
  <2>2. \A i \in 1 .. n : open'[i].born = open[i].born
    BY <1>7
  <2>3. DOMAIN open' = 1 .. n /\ DOMAIN open = 1 .. n /\ ended' = ended
    BY <1>2, <1>5
  <2> HIDE DEF n
  <2>4. \A i, j \in DOMAIN open' : open'[i].born = open'[j].born => i = j
    BY <2>1, <2>2, <2>3 DEF BirthInv
  <2>5. \A i \in DOMAIN open', j \in DOMAIN ended' : open'[i].born # ended'[j].born
    BY <2>1, <2>2, <2>3 DEF BirthInv
  <2>6. QED
    BY <2>1, <2>3, <2>4, <2>5 DEF BirthInv
<1>12. SiblingsInv'
  <2>1. SiblingsInv /\ ended' = ended /\ Len(open') = Len(open)
    BY <1>1, <1>2, <1>5 DEF CaptureInv, SpansInv
  <2>2. Len(open) >= 2 => open'[2].after = open[2].after
    BY <1>4, <1>7
  <2>3. QED
    BY <2>1, <2>2 DEF SiblingsInv
<1>13. TraceInv'
  BY <1>1, <1>2 DEF CaptureInv, TraceInv
<1>14. QED
  BY <1>8, <1>9, <1>10, <1>11, <1>12, <1>13 DEF CaptureInv, SpansInv

\* The innermost open span is recorded: by EndSpan, or by Finish when it is the
\* session span.
RecordLast ==
  /\ open # <<>>
  /\ ended' = Append(ended, open[Len(open)])
  /\ open' = SubSeq(open, 1, Len(open) - 1)
  /\ now' = now

LEMMA RecordInv == SpansInv /\ RecordLast => SpansInv'
<1>1. SUFFICES ASSUME SpansInv, RecordLast PROVE SpansInv'
  OBVIOUS
<1> DEFINE n == Len(open)
           m == Len(ended)
<1>2. IsSequence(open) /\ IsSequence(ended)
  BY <1>1 DEF SpansInv, BoundInv
<1>3. n \in Nat /\ n > 0
  BY <1>1, <1>2 DEF IsSequence, RecordLast
<1>4. /\ IsSequence(open') /\ Len(open') = n - 1
      /\ DOMAIN open' = 1 .. n - 1 /\ DOMAIN open = 1 .. n
      /\ \A i \in 1 .. n - 1 : open'[i] = open[i]
  BY <1>1, <1>2, <1>3, ButLast DEF RecordLast
<1>5. /\ IsSequence(ended') /\ Len(ended') = m + 1 /\ m \in Nat
      /\ DOMAIN ended' = 1 .. m + 1 /\ DOMAIN ended = 1 .. m
      /\ \A i \in 1 .. m : ended'[i] = ended[i]
      /\ ended'[m + 1] = open[n]
  BY <1>1, <1>2, AppendSequence DEF RecordLast
<1>6. now' = now /\ Len(open') + Len(ended') = n + m
  <2>1. n \in Nat /\ m \in Nat /\ Len(open') = n - 1 /\ Len(ended') = m + 1
    BY <1>3, <1>4, <1>5
  <2>2. now' = now
    BY <1>1 DEF RecordLast
  <2> HIDE DEF n, m
  <2>3. Len(open') + Len(ended') = n + m
    BY <2>1
  <2>4. QED
    BY <2>2, <2>3
<1>7. \A span : Started(span, n + m, now, ended) => Started(span, n + m, now, ended')
  BY <1>5 DEF Started
<1>8. \A i \in 1 .. n : Started(open[i], n + m, now, ended) /\ open[i].depth = i - 1
  BY <1>1, <1>4 DEF SpansInv, OpenInv
<1>9. \A i \in 1 .. m : Started(ended[i], n + m, now, ended) /\ ended[i].after < i
  BY <1>1, <1>5 DEF SpansInv, EndedInv
<1>10. BoundInv'
  BY <1>1, <1>4, <1>5, <1>6 DEF SpansInv, BoundInv
<1>11. OpenInv'
  <2>1. \A i \in DOMAIN open' : /\ Started(open'[i], n + m, now, ended')
                               /\ open'[i].depth = i - 1
    BY <1>3, <1>4, <1>7, <1>8
  <2>2. QED
    BY <1>6, <2>1 DEF OpenInv
<1>12. EndedInv'
  <2>1. Started(open[n], n + m, now, ended') /\ open[n].after < m + 1
    BY <1>3, <1>5, <1>7, <1>8 DEF Started
  <2>2. \A i \in 1 .. m + 1 : Started(ended'[i], n + m, now, ended') /\ ended'[i].after < i
    BY <1>5, <1>7, <1>9, <2>1
  <2>3. QED
    BY <1>5, <1>6, <2>2 DEF EndedInv
<1>13. BirthInv'
  <2>1. /\ BirthInv /\ n \in Nat /\ n > 0 /\ m \in Nat
        /\ DOMAIN open' = 1 .. n - 1 /\ DOMAIN open = 1 .. n
        /\ DOMAIN ended' = 1 .. m + 1 /\ DOMAIN ended = 1 .. m
        /\ \A i \in 1 .. n - 1 : open'[i] = open[i]
        /\ \A i \in 1 .. m : ended'[i] = ended[i]
        /\ ended'[m + 1] = open[n]
    BY <1>1, <1>3, <1>4, <1>5 DEF SpansInv
  <2> HIDE DEF n, m
  <2>2. \A i, j \in DOMAIN open' : open'[i].born = open'[j].born => i = j
    BY <2>1 DEF BirthInv
  <2>3. \A i \in 1 .. m : ended'[i].born # ended'[m + 1].born
    BY <2>1 DEF BirthInv
  <2>4. ASSUME NEW i \in DOMAIN ended', NEW j \in DOMAIN ended', ended'[i].born = ended'[j].born
        PROVE  i = j
    <3>1. CASE i = m + 1
      BY <2>1, <2>3, <2>4, <3>1
    <3>2. CASE j = m + 1
      BY <2>1, <2>3, <2>4, <3>2
    <3>3. CASE i \in 1 .. m /\ j \in 1 .. m
      BY <2>1, <2>4, <3>3 DEF BirthInv
    <3>4. QED
      BY <2>1, <3>1, <3>2, <3>3
  <2>5. \A i \in DOMAIN open', j \in DOMAIN ended' : open'[i].born # ended'[j].born
    BY <2>1 DEF BirthInv
  <2>6. QED
    BY <2>2, <2>4, <2>5 DEF BirthInv
<1>14. SiblingsInv'
  <2>1. SiblingsInv
    BY <1>1 DEF SpansInv
  <2>2. open[n].depth = n - 1 /\ n \in Nat /\ n > 0 /\ m \in Nat
    BY <1>3, <1>5, <1>8
  <2>3. \A i \in 1 .. m : ended[i].depth \in Nat /\ ended[i].after \in Nat
    BY <1>9 DEF Started
  <2>4. open[n].after \in Nat
    BY <1>3, <1>8 DEF Started
  <2>5. ASSUME NEW j \in DOMAIN ended', ended'[j].depth = 1,
               NEW i \in ended'[j].after + 1 .. j - 1
        PROVE  ended'[i].depth >= 2
    <3>1. CASE j = m + 1
      <4>1. n = 2 /\ i \in open[2].after + 1 .. m
        <5>1. ended'[j] = open[n]
          BY <1>5, <3>1
        <5>2. open[n].depth = 1 /\ i \in open[n].after + 1 .. j - 1
          BY <2>5, <5>1
        <5> HIDE DEF n, m
        <5>3. n = 2
          BY <2>2, <5>2
        <5>4. QED
          BY <2>2, <3>1, <5>2, <5>3
      <4>2. i \in 1 .. m
        BY <2>2, <2>4, <4>1
      <4>3. QED
        BY <1>5, <2>1, <4>1, <4>2 DEF SiblingsInv
    <3>2. CASE j \in 1 .. m
      <4>1. ended'[j] = ended[j] /\ j \in DOMAIN ended
        BY <1>5, <3>2
      <4>2. i \in 1 .. m
        BY <2>2, <2>3, <2>5, <3>2, <4>1
      <4>3. QED
        BY <1>5, <2>1, <2>5, <4>1, <4>2 DEF SiblingsInv
    <3>3. QED
      BY <1>5, <2>2, <3>1, <3>2
  <2>6. ASSUME Len(open') >= 2, NEW i \in open'[2].after + 1 .. Len(ended')
        PROVE  ended'[i].depth >= 2
    <3>1. n >= 3 /\ open'[2] = open[2] /\ open[2].after \in Nat
      BY <1>4, <1>8, <2>2, <2>6 DEF Started
    <3>2. CASE i = m + 1
      BY <1>5, <2>2, <3>1, <3>2
    <3>3. CASE i # m + 1
      <4>1. i \in 1 .. m /\ i \in open[2].after + 1 .. Len(ended)
        BY <1>5, <2>2, <2>6, <3>1, <3>3
      <4>2. ended[i].depth >= 2
        BY <2>1, <2>2, <3>1, <4>1 DEF SiblingsInv
      <4>3. QED
        BY <1>5, <4>1, <4>2
    <3>4. QED
      BY <3>2, <3>3
  <2>7. QED
    BY <2>5, <2>6 DEF SiblingsInv
<1>15. QED
  BY <1>10, <1>11, <1>12, <1>13, <1>14 DEF SpansInv

LEMMA EndInv == CaptureInv /\ EndSpan => CaptureInv'
<1>1. SUFFICES ASSUME CaptureInv, EndSpan PROVE CaptureInv'
  OBVIOUS
<1>2. open # <<>>
  BY <1>1 DEF EndSpan, CaptureInv, SpansInv, BoundInv, IsSequence
<1>3. SpansInv'
  BY <1>1, <1>2, RecordInv DEF EndSpan, RecordLast, CaptureInv
<1>4. TraceInv'
  BY <1>1, <1>2 DEF EndSpan, CaptureInv, TraceInv
<1>5. QED
  BY <1>3, <1>4 DEF CaptureInv

LEMMA FinishInv == CaptureInv /\ Finish => CaptureInv'
<1>1. SUFFICES ASSUME CaptureInv, Finish PROVE CaptureInv'
  OBVIOUS
<1>2. PICK T : open \in Seq(T)
  BY <1>1 DEF CaptureInv, SpansInv, BoundInv, IsSequence
<1>3. open # <<>> /\ SubSeq(open, 1, Len(open) - 1) = <<>>
  <2>1. Len(open) = 1
    BY <1>1 DEF Finish
  <2>2. SubSeq(open, 1, 0) = <<>>
    BY SubSeqEmpty
  <2>3. QED
    BY <1>2, <2>1, <2>2
<1>4. SpansInv'
  BY <1>1, <1>3, RecordInv DEF Finish, RecordLast, CaptureInv
<1>5. TraceInv'
  BY <1>1 DEF Finish, TraceInv
<1>6. QED
  BY <1>4, <1>5 DEF CaptureInv

-----------------------------------------------------------------------------
(* Every step of a session is one of these operations *)

LEMMA StepInv == CaptureInv /\ [PairNext]_pairVars => CaptureInv'
<1> SUFFICES ASSUME CaptureInv, [PairNext]_pairVars PROVE CaptureInv'
  OBVIOUS
<1>1. CASE Explore
  <2>1. CASE Tick
    BY <2>1, TickInv
  <2>2. CASE \E name \in SpanNames, attrs \in StartAttrs : StartSpan(name, attrs)
    BY <2>2, StartInv
  <2>3. CASE \E attrs \in StampAttrs : Stamp(attrs)
    BY <2>3, StampInv
  <2>4. CASE EndSpan
    BY <2>4, EndInv
  <2>5. CASE Finish
    BY <2>5, FinishInv
  <2>6. QED
    BY <1>1, <2>1, <2>2, <2>3, <2>4, <2>5 DEF Explore, CaptureNext
<1>2. CASE BeginStep
  BY <1>2, StartInv DEF BeginStep
<1>3. CASE RunBody
  BY <1>3, StampInv DEF RunBody
<1>4. CASE EndStep
  BY <1>4, EndInv DEF EndStep
<1>5. CASE Return
  BY <1>5, FinishInv DEF Return
<1>6. CASE PairTick
  BY <1>6, TickInv DEF PairTick
<1>7. CASE UNCHANGED pairVars
  BY <1>7 DEF pairVars, captureVars, CaptureInv, SpansInv, BoundInv, OpenInv, EndedInv,
              BirthInv, SiblingsInv, TraceInv
<1>8. QED
  BY <1>1, <1>2, <1>3, <1>4, <1>5, <1>6, <1>7 DEF PairNext

LEMMA CaptureInvariant == PairSpec => []CaptureInv
<1>1. PairInit => CaptureInv
  BY InitInv DEF PairInit
<1>2. QED
  BY <1>1, StepInv, PTL DEF PairSpec

-----------------------------------------------------------------------------
(* Theorems *)

LEMMA EndedSequence ==
  ASSUME CaptureInv
  PROVE  /\ DOMAIN ended = 1 .. Len(ended) /\ Len(ended) \in Nat
         /\ IsSequence(ended) /\ Starts(ended)
<1>1. IsSequence(ended) /\ now \in Nat
  BY CaptureAssumption DEF CaptureInv, SpansInv, BoundInv
<1>2. Starts(ended)
  BY <1>1 DEF Starts, CaptureInv, SpansInv, EndedInv, Started
<1>3. QED
  BY <1>1, <1>2 DEF IsSequence

\* A captured trace lists the recorder's spans in the stable order.
LEMMA TraceIsStable ==
  ASSUME CaptureInv, trace # <<>>
  PROVE  \E f \in [DOMAIN ended -> DOMAIN ended] :
           /\ trace = [p \in DOMAIN ended |-> ended[f[p]]]
           /\ \A p, q \in DOMAIN ended : p < q => Earlier(ended, f[p], f[q])
<1>1. trace = SortByStart(ended)
  BY DEF CaptureInv, TraceInv
<1>2. PICK T : ended \in Seq(T)
  BY EndedSequence DEF IsSequence
<1>3. Starts(ended)
  BY EndedSequence
<1>4. QED
  BY <1>1, <1>2, <1>3, SortIsStable

LEMMA InvIsTyped == CaptureInv => CaptureTypeOK
<1>1. SUFFICES ASSUME CaptureInv PROVE CaptureTypeOK
  OBVIOUS
<1>2. now \in 0 .. MaxTime /\ Len(open) + Len(ended) <= MaxSpans
  BY <1>1 DEF CaptureInv, SpansInv, BoundInv
<1>3. \A i \in DOMAIN open : open[i].depth = i - 1 /\ open[i].start <= now
  BY <1>1, <1>2, CaptureAssumption DEF CaptureInv, SpansInv, OpenInv, Started
<1>4. Len(trace) \in {0, Len(ended)}
  <2>1. CASE trace = <<>>
    BY <2>1
  <2>2. CASE trace # <<>>
    <3>1. DOMAIN trace = 1 .. Len(ended) /\ Len(ended) \in Nat
      BY <1>1, <2>2, TraceIsStable, EndedSequence
    <3>2. Len(trace) = Len(ended)
      BY <3>1
    <3>3. QED
      BY <3>2
  <2>3. QED
    BY <2>1, <2>2
<1>5. QED
  BY <1>2, <1>3, <1>4 DEF CaptureTypeOK

\* The bookkeeping of open and recorded spans is what its type says.
THEOREM TypeCorrect == PairSpec => []CaptureTypeOK
  BY CaptureInvariant, InvIsTyped, PTL

LEMMA InvIsCausal == CaptureInv => CausalOrder
<1>1. SUFFICES ASSUME CaptureInv,
                      NEW p \in DOMAIN trace, NEW q \in DOMAIN trace, p < q,
                      NEW e \in 1 .. trace[p].after, ended[e] = trace[q]
               PROVE  FALSE
  BY DEF CausalOrder
<1>2. trace # <<>>
  BY <1>1
<1>3. PICK f \in [DOMAIN ended -> DOMAIN ended] :
        /\ trace = [r \in DOMAIN ended |-> ended[f[r]]]
        /\ \A r, s \in DOMAIN ended : r < s => Earlier(ended, f[r], f[s])
  BY <1>1, <1>2, TraceIsStable
<1>4. DOMAIN ended = 1 .. Len(ended) /\ Len(ended) \in Nat /\ now \in Nat
  BY <1>1, EndedSequence, CaptureAssumption DEF CaptureInv, SpansInv, BoundInv
<1> DEFINE i == f[p]
           j == f[q]
<1>5. /\ i \in DOMAIN ended /\ j \in DOMAIN ended
      /\ trace[p] = ended[i] /\ trace[q] = ended[j]
      /\ Earlier(ended, i, j)
  BY <1>1, <1>3
<1> HIDE DEF i, j
<1>6. Started(ended[i], Len(open) + Len(ended), now, ended) /\ ended[i].after < i
  BY <1>1, <1>5 DEF CaptureInv, SpansInv, EndedInv
<1>7. e \in 1 .. ended[i].after /\ e < i /\ e \in DOMAIN ended
  BY <1>1, <1>4, <1>5, <1>6 DEF Started
<1>8. e = j
  <2>1. ended[e].born = ended[j].born
    BY <1>1, <1>5
  <2>2. QED
    BY <1>1, <1>5, <1>7, <2>1 DEF CaptureInv, SpansInv, BirthInv
<1>9. ended[j].start <= ended[i].start
  BY <1>6, <1>7, <1>8 DEF Started
<1>10. ended[i].start \in Nat /\ ended[j].start \in Nat
  BY <1>1, <1>5, EndedSequence DEF Starts
<1>11. QED
  BY <1>4, <1>5, <1>7, <1>8, <1>9, <1>10 DEF Earlier

\* Whatever spans a session nests, and however often the clock repeats itself,
\* sort.SliceStable puts no span before one that had ended when it started.
THEOREM SortIsCausal == PairSpec => []CausalOrder
  BY CaptureInvariant, InvIsCausal, PTL

\* Two places of a trace hold two spans of the session, the first one started
\* no later than the second.
LEMMA PlacesAreRows ==
  ASSUME CaptureInv, NEW p \in DOMAIN trace, NEW q \in DOMAIN trace, p < q
  PROVE  /\ trace[p] \in Rows /\ trace[q] \in Rows
         /\ trace[p].start \in Nat /\ trace[q].start \in Nat
         /\ trace[p].start <= trace[q].start
         /\ trace[p].born # trace[q].born
<1>1. trace # <<>>
  OBVIOUS
<1>2. PICK f \in [DOMAIN ended -> DOMAIN ended] :
        /\ trace = [r \in DOMAIN ended |-> ended[f[r]]]
        /\ \A r, s \in DOMAIN ended : r < s => Earlier(ended, f[r], f[s])
  BY <1>1, TraceIsStable
<1> DEFINE i == f[p]
           j == f[q]
<1>3. /\ i \in DOMAIN ended /\ j \in DOMAIN ended
      /\ trace[p] = ended[i] /\ trace[q] = ended[j]
      /\ Earlier(ended, i, j)
  BY <1>2
<1> HIDE DEF i, j
<1>4. ended[i].start \in Nat /\ ended[j].start \in Nat
  BY <1>3, EndedSequence DEF Starts
<1>5. i # j
  BY <1>3, <1>4, EndedSequence DEF Earlier
<1>6. ended[i].born # ended[j].born
  BY <1>3, <1>5 DEF CaptureInv, SpansInv, BirthInv
<1>7. QED
  BY <1>3, <1>4, <1>6 DEF Earlier, Rows

LEMMA PlaceIsRow ==
  ASSUME CaptureInv, NEW p \in DOMAIN trace
  PROVE  /\ trace[p] \in Rows /\ trace[p].start \in Nat
         /\ trace[p].born \in Nat /\ trace[p].depth \in Nat
<1>1. trace # <<>>
  OBVIOUS
<1>2. PICK f \in [DOMAIN ended -> DOMAIN ended] : trace = [r \in DOMAIN ended |-> ended[f[r]]]
  BY <1>1, TraceIsStable
<1>3. f[p] \in DOMAIN ended /\ trace[p] = ended[f[p]]
  BY <1>2
<1>4. trace[p].born \in Nat /\ trace[p].depth \in Nat
  BY <1>3 DEF CaptureInv, SpansInv, EndedInv, Started
<1>5. QED
  BY <1>3, <1>4, EndedSequence DEF Rows, Starts

LEMMA TraceDomain ==
  ASSUME CaptureInv, trace # <<>>
  PROVE  DOMAIN trace = 1 .. Len(ended) /\ Len(trace) = Len(ended) /\ Len(ended) \in Nat
<1>1. DOMAIN trace = 1 .. Len(ended) /\ Len(ended) \in Nat
  BY TraceIsStable, EndedSequence
<1>2. QED
  BY <1>1

\* The two rankings differ in scopes without a rank only, and those are never the
\* broader one in Go.
LEMMA SqlRankFollows ==
  ASSUME NEW s, NEW t, ScopeRank(s) < ScopeRank(t)
  PROVE  SqlRank(s) < SqlRank(t)
<1>1. t.prefix \in {"admin", "write"}
  BY DEF ScopeRank
<1>2. SqlRank(t) = ScopeRank(t)
  BY <1>1 DEF SqlRank, ScopeRank
<1>3. SqlRank(s) <= ScopeRank(s) /\ SqlRank(s) \in Nat /\ ScopeRank(s) \in Nat
  BY DEF SqlRank, ScopeRank
<1>4. ScopeRank(t) \in Nat
  BY DEF ScopeRank
<1>5. QED
  BY <1>2, <1>3, <1>4

LEMMA InvCoversRules == CaptureInv => QueriesCoverRules
<1>1. SUFFICES ASSUME CaptureInv, trace # <<>>
               PROVE  /\ MemoryTaint(trace) => SqlTaint
                      /\ InjectionExfil(trace) =>
                           SqlInjection \/ \E s \in Rows : IsTrue(s, KeyUntrusted) /\ IsTrue(s, KeyEgress)
                      /\ PrivilegeWidening(trace) =>
                           \/ SqlWidening
                           \/ \E a, b \in Rows : /\ a.born # b.born /\ a.start = b.start
                                                 /\ Has(a, KeyPrivilegeScope)
                                                 /\ Has(b, KeyPrivilegeScope)
                           \/ \E s \in Rows : Has(s, KeyPrivilegeScope) /\ s \notin Ranked
  BY DEF QueriesCoverRules
<1>2. DOMAIN trace = 1 .. Len(trace) /\ Len(trace) \in Nat
  BY <1>1, TraceDomain
<1>3. ASSUME MemoryTaint(trace) PROVE SqlTaint
  <2>1. PICK i \in DOMAIN trace, j \in DOMAIN trace :
          /\ i <= j
          /\ Tainting(trace[i])
          /\ Has(trace[j], KeyPrivilegeScope)
          /\ trace[j].attrs[KeyPrivilegeScope].prefix = "write"
    BY <1>3 DEF MemoryTaint
  <2>2. trace[i] \in Rows /\ trace[j] \in Rows /\ trace[i].start \in Nat /\ trace[j].start \in Nat
    BY <1>1, PlaceIsRow
  <2>3. trace[j].start >= trace[i].start
    <3>1. CASE i = j
      BY <2>2, <3>1
    <3>2. CASE i < j
      BY <1>1, <2>2, <3>2, PlacesAreRows
    <3>3. QED
      BY <1>2, <2>1, <3>1, <3>2
  <2>4. QED
    BY <2>1, <2>2, <2>3 DEF SqlTaint
<1>4. ASSUME InjectionExfil(trace)
      PROVE  SqlInjection \/ \E s \in Rows : IsTrue(s, KeyUntrusted) /\ IsTrue(s, KeyEgress)
  <2>1. PICK u \in DOMAIN trace, j \in DOMAIN trace :
          u <= j /\ IsTrue(trace[u], KeyUntrusted) /\ IsTrue(trace[j], KeyEgress)
    <3>1. PICK u \in FirstUntrusted(trace) : \E j \in u .. Len(trace) : IsTrue(trace[j], KeyEgress)
      BY <1>4 DEF InjectionExfil
    <3>2. PICK j \in u .. Len(trace) : IsTrue(trace[j], KeyEgress)
      BY <3>1
    <3>3. u \in DOMAIN trace /\ IsTrue(trace[u], KeyUntrusted)
      BY DEF FirstUntrusted
    <3>4. j \in DOMAIN trace /\ u <= j
      BY <1>2, <3>3
    <3>5. QED
      BY <3>2, <3>3, <3>4
  <2>2. j \in DOMAIN trace
    OBVIOUS
  <2>3. trace[u] \in Rows /\ trace[j] \in Rows
    BY <1>1, <2>2, PlaceIsRow
  <2>4. CASE u = j
    BY <2>1, <2>3, <2>4
  <2>5. CASE u < j
    <3>1. trace[j].start >= trace[u].start /\ trace[j].born # trace[u].born
      BY <1>1, <2>2, <2>5, PlacesAreRows
    <3>2. QED
      BY <2>1, <2>3, <3>1 DEF SqlInjection
  <2>6. QED
    <3>1. u = j \/ u < j
      BY <1>2, <2>1
    <3>2. QED
      BY <2>4, <2>5, <3>1
<1>5. ASSUME PrivilegeWidening(trace)
      PROVE  \/ SqlWidening
             \/ \E a, b \in Rows : /\ a.born # b.born /\ a.start = b.start
                                   /\ Has(a, KeyPrivilegeScope) /\ Has(b, KeyPrivilegeScope)
             \/ \E s \in Rows : Has(s, KeyPrivilegeScope) /\ s \notin Ranked
  <2>1. PICK j \in Scoped(trace) :
          \E i \in Scoped(trace) : i < j /\ Rank(trace, i) < Rank(trace, j)
    BY <1>5 DEF PrivilegeWidening
  <2>2. PICK i \in Scoped(trace) : i < j /\ Rank(trace, i) < Rank(trace, j)
    BY <2>1
  <2>3. /\ i \in DOMAIN trace /\ Has(trace[i], KeyPrivilegeScope)
        /\ j \in DOMAIN trace /\ Has(trace[j], KeyPrivilegeScope)
    BY DEF Scoped
  <2>4. /\ trace[i] \in Rows /\ trace[j] \in Rows
        /\ trace[i].start \in Nat /\ trace[j].start \in Nat
        /\ trace[i].start <= trace[j].start /\ trace[i].born # trace[j].born
    BY <1>1, <2>2, <2>3, PlacesAreRows
  <2>5. SqlRank(trace[j].attrs[KeyPrivilegeScope])
          > SqlRank(trace[i].attrs[KeyPrivilegeScope])
    <3>1. SqlRank(trace[i].attrs[KeyPrivilegeScope]) < SqlRank(trace[j].attrs[KeyPrivilegeScope])
      BY <2>2, SqlRankFollows DEF Rank
    <3>2. QED
      BY <3>1 DEF SqlRank
  <2>6. CASE trace[i].start = trace[j].start
    BY <2>3, <2>4, <2>6
  <2>7. CASE trace[j].start > trace[i].start /\ trace[i] \in Ranked /\ trace[j] \in Ranked
    BY <2>5, <2>7 DEF SqlWidening
  <2>8. CASE trace[i] \notin Ranked \/ trace[j] \notin Ranked
    BY <2>3, <2>4, <2>8
  <2>9. QED
    BY <2>4, <2>6, <2>7, <2>8
<1>6. QED
  BY <1>3, <1>4, <1>5

\* An alarm of the Go rules on a captured session is a row of the ClickHouse
\* query too, but for the three exceptions the property names.
THEOREM QueriesFindTheAlarms == PairSpec => []QueriesCoverRules
  BY CaptureInvariant, InvCoversRules, PTL

\* Every row of the session has a place in its trace, and rows at different
\* readings stand in the order of these.
LEMMA RowsHavePlaces ==
  ASSUME CaptureInv, trace # <<>>, NEW a \in Rows
  PROVE  \E p \in DOMAIN trace : trace[p] = a
<1>1. trace = SortByStart(ended)
  BY DEF CaptureInv, TraceInv
<1>2. PICK T : ended \in Seq(T)
  BY EndedSequence DEF IsSequence
<1>3. PICK f \in [DOMAIN ended -> DOMAIN ended] :
        /\ trace = [p \in DOMAIN ended |-> ended[f[p]]]
        /\ \A i \in DOMAIN ended : \E p \in DOMAIN ended : f[p] = i
  BY <1>1, <1>2, EndedSequence, SortIsStable
<1>4. PICK i \in DOMAIN ended : ended[i] = a
  BY DEF Rows
<1>5. PICK p \in DOMAIN ended : f[p] = i
  BY <1>3
<1>6. QED
  BY <1>3, <1>4, <1>5

LEMMA RowsInOrder ==
  ASSUME CaptureInv, NEW p \in DOMAIN trace, NEW q \in DOMAIN trace,
         trace[p].start < trace[q].start
  PROVE  p < q
<1>1. trace # <<>>
  OBVIOUS
<1>2. p \in Nat /\ q \in Nat
  BY <1>1, TraceDomain
<1>3. trace[p].start \in Nat /\ trace[q].start \in Nat
  BY PlaceIsRow
<1>4. ~(q < p)
  <2>1. ASSUME q < p PROVE trace[q].start <= trace[p].start
    BY <2>1, PlacesAreRows
  <2>2. QED
    BY <1>3, <2>1
<1>5. p # q
  BY <1>3
<1>6. QED
  BY <1>2, <1>4, <1>5

\* The search for the first untrusted span finds one if there is any.
LEMMA FirstUntrustedExists ==
  ASSUME NEW t, NEW n \in Nat, DOMAIN t = 1 .. n,
         NEW p \in 1 .. n, IsTrue(t[p], KeyUntrusted)
  PROVE  \E u \in FirstUntrusted(t) : u <= p
<1> DEFINE S == {i \in 1 .. n : IsTrue(t[i], KeyUntrusted)}
<1>1. S # {} /\ S \subseteq Nat /\ p \in S
  OBVIOUS
<1>2. PICK u \in S : \A j \in S : ~(<<j, u>> \in OpToRel(<, Nat))
  BY <1>1, NatLessThanWellFounded, WFMin, Zenon
<1>3. \A j \in S : <<j, u>> \in OpToRel(<, Nat) <=> j < u
  BY <1>1, <1>2 DEF OpToRel
<1>4. \A j \in S : j \in Nat /\ ~(j < u)
  BY <1>1, <1>2, <1>3
<1>5. u \in 1 .. n /\ IsTrue(t[u], KeyUntrusted)
  BY <1>2
<1>6. \A i \in 1 .. u - 1 : ~IsTrue(t[i], KeyUntrusted)
  <2>1. SUFFICES ASSUME NEW i \in 1 .. u - 1, IsTrue(t[i], KeyUntrusted) PROVE FALSE
    OBVIOUS
  <2>2. i \in 1 .. n /\ i < u
    BY <1>5
  <2>3. i \in S
    BY <2>1, <2>2
  <2>4. QED
    BY <1>4, <2>2, <2>3
<1>7. u <= p
  BY <1>1, <1>4, <1>5
<1>8. QED
  BY <1>5, <1>6, <1>7 DEF FirstUntrusted

LEMMA RanksAreOrdered ==
  ASSUME NEW s, NEW t, ~(ScopeRank(s) < ScopeRank(t))
  PROVE  ScopeRank(s) >= ScopeRank(t)
<1>1. ScopeRank(s) \in Nat /\ ScopeRank(t) \in Nat
  BY DEF ScopeRank
<1>2. QED
  BY <1>1

LEMMA TaintRows ==
  ASSUME CaptureInv, trace # <<>>, SqlTaint
  PROVE  \/ MemoryTaint(trace)
         \/ \E t, w \in Rows : /\ t.born # w.born /\ t.start = w.start
                               /\ Tainting(t) /\ Has(w, KeyPrivilegeScope)
<1>1. PICK t \in Rows, w \in Rows :
        /\ w.start >= t.start
        /\ Tainting(t)
        /\ Has(w, KeyPrivilegeScope)
        /\ w.attrs[KeyPrivilegeScope].prefix = "write"
  BY DEF SqlTaint
<1>2. PICK p \in DOMAIN trace : trace[p] = t
  BY RowsHavePlaces
<1>3. PICK q \in DOMAIN trace : trace[q] = w
  BY RowsHavePlaces
<1>4. p \in Nat /\ q \in Nat /\ t.start \in Nat /\ w.start \in Nat
  BY <1>2, <1>3, TraceDomain, PlaceIsRow
<1>5. CASE p <= q
  BY <1>1, <1>2, <1>3, <1>5 DEF MemoryTaint
<1>6. CASE q < p
  <2>1. w.start <= t.start /\ w.born # t.born
    BY <1>2, <1>3, <1>6, PlacesAreRows
  <2>2. t.start = w.start
    BY <1>1, <1>4, <2>1
  <2>3. QED
    BY <1>1, <2>1, <2>2
<1>7. QED
  BY <1>4, <1>5, <1>6

LEMMA InjectionRows ==
  ASSUME CaptureInv, trace # <<>>, SqlInjection
  PROVE  \/ InjectionExfil(trace)
         \/ \E u, e \in Rows : /\ u.born # e.born /\ u.start = e.start
                               /\ IsTrue(u, KeyUntrusted) /\ IsTrue(e, KeyEgress)
<1>1. PICK u \in Rows, e \in Rows :
        /\ e.start >= u.start /\ e.born # u.born
        /\ IsTrue(u, KeyUntrusted) /\ IsTrue(e, KeyEgress)
  BY DEF SqlInjection
<1>2. PICK p \in DOMAIN trace : trace[p] = u
  BY RowsHavePlaces
<1>3. PICK q \in DOMAIN trace : trace[q] = e
  BY RowsHavePlaces
<1>4. /\ DOMAIN trace = 1 .. Len(trace) /\ Len(trace) \in Nat
      /\ u.start \in Nat /\ e.start \in Nat
  BY <1>2, <1>3, TraceDomain, PlaceIsRow
<1>5. CASE u.start < e.start
  <2>1. p < q
    BY <1>2, <1>3, <1>5, RowsInOrder
  <2>2. PICK f \in FirstUntrusted(trace) : f <= p
    BY <1>1, <1>2, <1>4, FirstUntrustedExists
  <2>3. f \in DOMAIN trace
    BY DEF FirstUntrusted
  <2>4. q \in f .. Len(trace)
    BY <1>4, <2>1, <2>2, <2>3
  <2>5. QED
    BY <1>1, <1>3, <2>2, <2>4 DEF InjectionExfil
<1>6. CASE u.start = e.start
  BY <1>1, <1>6
<1>7. QED
  BY <1>1, <1>4, <1>5, <1>6

LEMMA WideningRows ==
  ASSUME CaptureInv, trace # <<>>, SqlWidening, ~PrivilegeWidening(trace)
  PROVE  \E a, b \in Ranked, c \in Rows :
           /\ a.start < b.start
           /\ SqlRank(a.attrs[KeyPrivilegeScope]) < SqlRank(b.attrs[KeyPrivilegeScope])
           /\ Has(c, KeyPrivilegeScope) /\ c.born # b.born /\ c.start <= b.start
           /\ ScopeRank(c.attrs[KeyPrivilegeScope]) >= ScopeRank(b.attrs[KeyPrivilegeScope])
<1>1. PICK a \in Ranked, b \in Ranked :
        /\ b.start > a.start
        /\ SqlRank(b.attrs[KeyPrivilegeScope]) > SqlRank(a.attrs[KeyPrivilegeScope])
  BY DEF SqlWidening
<1>2. /\ a \in Rows /\ Has(a, KeyPrivilegeScope)
      /\ b \in Rows /\ Has(b, KeyPrivilegeScope)
  BY DEF Ranked
<1>3. PICK p \in DOMAIN trace : trace[p] = a
  BY <1>2, RowsHavePlaces
<1>4. PICK q \in DOMAIN trace : trace[q] = b
  BY <1>2, RowsHavePlaces
<1>5. a.start \in Nat /\ b.start \in Nat
  BY <1>3, <1>4, PlaceIsRow
<1>6. a.start < b.start
  BY <1>1, <1>5
<1>7. p < q
  BY <1>3, <1>4, <1>6, RowsInOrder
<1>8. p \in Scoped(trace) /\ q \in Scoped(trace)
  BY <1>2, <1>3, <1>4 DEF Scoped
<1>9. PICK i \in Scoped(trace) : i < q /\ ~(Rank(trace, i) < Rank(trace, q))
  BY <1>7, <1>8 DEF PrivilegeWidening
<1> DEFINE c == trace[i]
<1>10. i \in DOMAIN trace /\ Has(c, KeyPrivilegeScope)
  BY DEF Scoped
<1>11. c \in Rows /\ c.start <= b.start /\ c.born # b.born
  BY <1>4, <1>9, <1>10, PlacesAreRows
<1>12. ScopeRank(c.attrs[KeyPrivilegeScope]) >= ScopeRank(b.attrs[KeyPrivilegeScope])
  BY <1>4, <1>9, RanksAreOrdered DEF Rank
<1>13. SqlRank(a.attrs[KeyPrivilegeScope]) < SqlRank(b.attrs[KeyPrivilegeScope])
  <2>1. SqlRank(a.attrs[KeyPrivilegeScope]) \in Nat /\ SqlRank(b.attrs[KeyPrivilegeScope]) \in Nat
    BY DEF SqlRank
  <2>2. QED
    BY <1>1, <2>1
<1>14. QED
  BY <1>6, <1>10, <1>11, <1>12, <1>13

LEMMA InvBoundsQueries == CaptureInv => RowsAreAlarms
  BY TaintRows, InjectionRows, WideningRows DEF RowsAreAlarms

\* A row of a ClickHouse query on a captured session is an alarm of the Go rules,
\* but for what the property names.
THEOREM QueriesRaiseNoMore == PairSpec => []RowsAreAlarms
  BY CaptureInvariant, InvBoundsQueries, PTL

-----------------------------------------------------------------------------
(* The rules do not see where spans without attributes stand *)

Carries(span) == DOMAIN span.attrs # {}

\* The sequences hold the same spans, and those that carry attributes in the
\* same order: pos says where the spans of s stand in t, and back the reverse.
Moves(s, t, n, pos, back) ==
  /\ n \in Nat
  /\ DOMAIN s = 1 .. n /\ Len(s) = n
  /\ DOMAIN t = 1 .. n /\ Len(t) = n
  /\ pos \in [1 .. n -> 1 .. n] /\ back \in [1 .. n -> 1 .. n]
  /\ \A p \in 1 .. n : pos[back[p]] = p /\ back[pos[p]] = p /\ t[pos[p]] = s[p]
  /\ \A p, q \in 1 .. n :
       Carries(s[p]) /\ Carries(s[q]) => (p < q <=> pos[p] < pos[q])

LEMMA MovesBack ==
  ASSUME NEW s, NEW t, NEW n, NEW pos, NEW back, Moves(s, t, n, pos, back)
  PROVE  Moves(t, s, n, back, pos)
<1>1. \A p \in 1 .. n : back[p] \in 1 .. n /\ s[back[p]] = t[p] /\ pos[back[p]] = p
  BY DEF Moves
<1>2. ASSUME NEW p \in 1 .. n, NEW q \in 1 .. n, Carries(t[p]), Carries(t[q])
      PROVE  p < q <=> back[p] < back[q]
  <2>1. Carries(s[back[p]]) /\ Carries(s[back[q]])
    BY <1>1, <1>2
  <2>2. back[p] < back[q] <=> pos[back[p]] < pos[back[q]]
    BY <1>1, <2>1 DEF Moves
  <2>3. QED
    BY <1>1, <2>2
<1>3. QED
  BY <1>1, <1>2 DEF Moves

LEMMA CarriersAreOrdered ==
  ASSUME NEW s, NEW t, NEW n, NEW pos, NEW back, Moves(s, t, n, pos, back),
         NEW p \in 1 .. n, NEW q \in 1 .. n, Carries(s[p]), Carries(s[q])
  PROVE  /\ p < q <=> pos[p] < pos[q]
         /\ p <= q <=> pos[p] <= pos[q]
<1>1. /\ p < q <=> pos[p] < pos[q]
      /\ q < p <=> pos[q] < pos[p]
      /\ n \in Nat /\ pos[p] \in 1 .. n /\ pos[q] \in 1 .. n
  BY DEF Moves
<1>2. QED
  BY <1>1

LEMMA InjectionMoves ==
  ASSUME NEW s, NEW t, NEW n, NEW pos, NEW back, Moves(s, t, n, pos, back),
         InjectionExfil(s)
  PROVE  InjectionExfil(t)
<1>1. PICK u \in FirstUntrusted(s) : \E j \in u .. Len(s) : IsTrue(s[j], KeyEgress)
  BY DEF InjectionExfil
<1>2. PICK j \in u .. Len(s) : IsTrue(s[j], KeyEgress)
  BY <1>1
<1>3. /\ n \in Nat /\ DOMAIN s = 1 .. n /\ Len(s) = n /\ DOMAIN t = 1 .. n /\ Len(t) = n
      /\ \A p \in 1 .. n : pos[p] \in 1 .. n /\ t[pos[p]] = s[p]
      /\ \A p \in 1 .. n : back[p] \in 1 .. n /\ pos[back[p]] = p
  BY DEF Moves
<1>4. /\ u \in 1 .. n /\ IsTrue(s[u], KeyUntrusted)
      /\ \A i \in 1 .. u - 1 : ~IsTrue(s[i], KeyUntrusted)
  BY <1>3 DEF FirstUntrusted
<1>5. j \in 1 .. n /\ u <= j
  BY <1>2, <1>3, <1>4
<1>6. \A p \in 1 .. n : IsTrue(s[p], KeyUntrusted) \/ IsTrue(s[p], KeyEgress) => Carries(s[p])
  BY DEF IsTrue, Carries
<1>7. pos[u] \in FirstUntrusted(t)
  <2>1. ASSUME NEW i \in 1 .. pos[u] - 1, IsTrue(t[i], KeyUntrusted)
        PROVE  FALSE
    <3>1. i \in 1 .. n /\ i < pos[u]
      BY <1>3, <1>4
    <3>2. back[i] \in 1 .. n /\ pos[back[i]] = i /\ IsTrue(s[back[i]], KeyUntrusted)
      BY <1>3, <2>1, <3>1
    <3>3. back[i] < u
      BY <1>4, <1>6, <3>1, <3>2, CarriersAreOrdered
    <3>4. back[i] \in 1 .. u - 1
      BY <1>3, <1>4, <3>2, <3>3
    <3>5. QED
      BY <1>4, <3>2, <3>4
  <2>2. QED
    BY <1>3, <1>4, <2>1 DEF FirstUntrusted
<1>8. pos[j] \in pos[u] .. Len(t)
  <2>1. pos[u] <= pos[j]
    BY <1>2, <1>4, <1>5, <1>6, CarriersAreOrdered
  <2>2. QED
    BY <1>3, <1>4, <1>5, <2>1
<1>9. IsTrue(t[pos[j]], KeyEgress)
  BY <1>2, <1>3, <1>5
<1>10. QED
  BY <1>7, <1>8, <1>9 DEF InjectionExfil

LEMMA BypassMoves ==
  ASSUME NEW s, NEW t, NEW n, NEW pos, NEW back, Moves(s, t, n, pos, back),
         HITLBypass(s)
  PROVE  HITLBypass(t)
<1>1. \A i \in DOMAIN s : pos[i] \in DOMAIN t /\ t[pos[i]] = s[i]
  BY DEF Moves
<1>2. QED
  BY <1>1 DEF HITLBypass

LEMMA LoopMoves ==
  ASSUME NEW s, NEW t, NEW n, NEW pos, NEW back, Moves(s, t, n, pos, back),
         LoopRunaway(s)
  PROVE  LoopRunaway(t)
<1>1. /\ n \in Nat /\ DOMAIN s = 1 .. n /\ DOMAIN t = 1 .. n
      /\ \A p \in 1 .. n : pos[p] \in 1 .. n /\ t[pos[p]] = s[p] /\ back[pos[p]] = p
      /\ \A p \in 1 .. n : back[p] \in 1 .. n /\ pos[back[p]] = p
  BY DEF Moves
<1>2. PICK i \in 1 .. n : Cardinality(Named(s, s[i].name)) > LoopThreshold
  BY <1>1 DEF LoopRunaway
<1> DEFINE name == s[i].name
           move == [p \in Named(s, name) |-> pos[p]]
<1>3. Named(s, name) \in SUBSET (1 .. n)
  BY <1>1 DEF Named
<1> HIDE DEF name
<1>4. move \in [Named(s, name) -> Named(t, name)]
  BY <1>1, <1>3 DEF Named
<1>5. \A p, q \in Named(s, name) : move[p] = move[q] => p = q
  BY <1>1, <1>3
<1>6. \A r \in Named(t, name) : \E p \in Named(s, name) : move[p] = r
  <2>1. SUFFICES ASSUME NEW r \in Named(t, name)
                 PROVE  back[r] \in Named(s, name) /\ move[back[r]] = r
    OBVIOUS
  <2>2. r \in 1 .. n /\ t[r].name = name
    BY <1>1 DEF Named
  <2>3. back[r] \in 1 .. n /\ pos[back[r]] = r /\ s[back[r]].name = name
    BY <1>1, <2>2
  <2>4. QED
    BY <1>1, <2>3 DEF Named
<1> HIDE DEF move
<1>7. move \in Bijection(Named(s, name), Named(t, name))
  BY <1>4, <1>5, <1>6 DEF Bijection, Injection, IsInjective, Surjection
<1>8. IsFiniteSet(Named(s, name))
  BY <1>1, <1>3, LowerIsFinite, FS_Subset
<1>9. Cardinality(Named(t, name)) = Cardinality(Named(s, name))
  BY <1>7, <1>8, FS_Bijection DEF ExistsBijection
<1>10. t[pos[i]].name = name /\ pos[i] \in DOMAIN t
  BY <1>1 DEF name
<1>11. Cardinality(Named(t, name)) > LoopThreshold
  BY <1>2, <1>9 DEF name
<1>12. QED
  BY <1>10, <1>11 DEF LoopRunaway

LEMMA WideningMoves ==
  ASSUME NEW s, NEW t, NEW n, NEW pos, NEW back, Moves(s, t, n, pos, back),
         PrivilegeWidening(s)
  PROVE  PrivilegeWidening(t)
<1>1. /\ n \in Nat /\ DOMAIN s = 1 .. n /\ DOMAIN t = 1 .. n
      /\ \A p \in 1 .. n : pos[p] \in 1 .. n /\ t[pos[p]] = s[p]
      /\ \A p \in 1 .. n : back[p] \in 1 .. n /\ pos[back[p]] = p
  BY DEF Moves
<1>2. PICK j \in Scoped(s) : /\ {i \in Scoped(s) : i < j} # {}
                             /\ \A i \in {k \in Scoped(s) : k < j} : Rank(s, i) < Rank(s, j)
  BY DEF PrivilegeWidening
<1>3. PICK i \in Scoped(s) : i < j
  BY <1>2
<1>4. \A p \in Scoped(s) : p \in 1 .. n /\ Carries(s[p])
  BY <1>1 DEF Scoped, Has, Carries
<1>5. \A p \in Scoped(s) : pos[p] \in Scoped(t) /\ Rank(t, pos[p]) = Rank(s, p)
  BY <1>1, <1>4 DEF Scoped, Rank
<1>6. pos[i] < pos[j]
  BY <1>3, <1>4, CarriersAreOrdered
<1>7. ASSUME NEW k \in Scoped(t), k < pos[j]
      PROVE  Rank(t, k) < Rank(t, pos[j])
  <2>1. k \in 1 .. n /\ back[k] \in Scoped(s) /\ pos[back[k]] = k
    BY <1>1 DEF Scoped
  <2>2. back[k] < j
    BY <1>4, <1>7, <2>1, CarriersAreOrdered
  <2>3. Rank(s, back[k]) < Rank(s, j)
    BY <1>2, <2>1, <2>2
  <2>4. QED
    BY <1>5, <2>1, <2>3
<1>8. QED
  BY <1>5, <1>6, <1>7 DEF PrivilegeWidening

LEMMA TaintMoves ==
  ASSUME NEW s, NEW t, NEW n, NEW pos, NEW back, Moves(s, t, n, pos, back),
         MemoryTaint(s)
  PROVE  MemoryTaint(t)
<1>1. PICK i \in DOMAIN s, j \in DOMAIN s :
        /\ i <= j
        /\ Tainting(s[i])
        /\ Has(s[j], KeyPrivilegeScope)
        /\ s[j].attrs[KeyPrivilegeScope].prefix = "write"
  BY DEF MemoryTaint
<1>2. /\ i \in 1 .. n /\ j \in 1 .. n
      /\ pos[i] \in DOMAIN t /\ pos[j] \in DOMAIN t /\ t[pos[i]] = s[i] /\ t[pos[j]] = s[j]
  BY DEF Moves
<1>3. Carries(s[i]) /\ Carries(s[j])
  BY <1>1 DEF Tainting, Has, Carries
<1>4. pos[i] <= pos[j]
  BY <1>1, <1>2, <1>3, CarriersAreOrdered
<1>5. QED
  BY <1>1, <1>2, <1>4 DEF MemoryTaint

LEMMA VerdictMoves ==
  ASSUME NEW s, NEW t, NEW n, NEW pos, NEW back, Moves(s, t, n, pos, back)
  PROVE  EvaluateAll(s) = EvaluateAll(t)
<1>1. Moves(t, s, n, back, pos)
  BY MovesBack
<1>2. InjectionExfil(s) <=> InjectionExfil(t)
  BY <1>1, InjectionMoves
<1>3. HITLBypass(s) <=> HITLBypass(t)
  BY <1>1, BypassMoves
<1>4. LoopRunaway(s) <=> LoopRunaway(t)
  BY <1>1, LoopMoves
<1>5. PrivilegeWidening(s) <=> PrivilegeWidening(t)
  BY <1>1, WideningMoves
<1>6. MemoryTaint(s) <=> MemoryTaint(t)
  BY <1>1, TaintMoves
<1>7. QED
  BY <1>2, <1>3, <1>4, <1>5, <1>6 DEF EvaluateAll

-----------------------------------------------------------------------------
(* A flat session in the order of its births *)

\* Of two children, the one recorded first had ended when the other started.
LEMMA SiblingsInTurn ==
  ASSUME CaptureInv, NEW i \in DOMAIN ended, NEW j \in DOMAIN ended, i < j,
         ended[i].depth = 1, ended[j].depth = 1
  PROVE  ended[i].start <= ended[j].start /\ ended[i].born < ended[j].born
<1>1. DOMAIN ended = 1 .. Len(ended) /\ Len(ended) \in Nat
  BY EndedSequence
<1>2. /\ ended[j].after \in 0 .. j - 1
      /\ \A e \in 1 .. ended[j].after : /\ ended[e].start <= ended[j].start
                                        /\ ended[e].born < ended[j].born
  <2>1. Started(ended[j], Len(open) + Len(ended), now, ended) /\ ended[j].after < j
    BY DEF CaptureInv, SpansInv, EndedInv
  <2>2. QED
    BY <1>1, <2>1 DEF Started
<1>3. ~(i \in ended[j].after + 1 .. j - 1)
  BY DEF CaptureInv, SpansInv, SiblingsInv
<1>4. i \in 1 .. ended[j].after
  BY <1>1, <1>2, <1>3
<1>5. QED
  BY <1>2, <1>4

\* The children of a session stand in its trace in the order they started: the
\* clock can only put them level, and then the recorder decides.
LEMMA ChildrenInOrder ==
  ASSUME CaptureInv, NEW p \in DOMAIN trace, NEW q \in DOMAIN trace, p < q,
         trace[p].depth = 1, trace[q].depth = 1
  PROVE  trace[p].born < trace[q].born
<1>1. trace # <<>>
  OBVIOUS
<1>2. PICK f \in [DOMAIN ended -> DOMAIN ended] :
        /\ trace = [r \in DOMAIN ended |-> ended[f[r]]]
        /\ \A r, s \in DOMAIN ended : r < s => Earlier(ended, f[r], f[s])
  BY <1>1, TraceIsStable
<1>3. DOMAIN ended = 1 .. Len(ended) /\ Len(ended) \in Nat
  BY EndedSequence
<1>4. \A j \in DOMAIN ended : ended[j].start \in Nat
  BY EndedSequence DEF Starts
<1>5. ASSUME NEW i \in DOMAIN ended, NEW j \in DOMAIN ended, i < j,
             ended[i].depth = 1, ended[j].depth = 1
      PROVE  ended[i].start <= ended[j].start /\ ended[i].born < ended[j].born
  BY <1>5, SiblingsInTurn
<1> DEFINE i == f[p]
           j == f[q]
<1>6. /\ i \in DOMAIN ended /\ j \in DOMAIN ended
      /\ trace[p] = ended[i] /\ trace[q] = ended[j] /\ Earlier(ended, i, j)
  BY <1>2
<1> HIDE DEF i, j
<1>7. i < j
  <2>1. SUFFICES ASSUME ~(i < j) PROVE FALSE
    OBVIOUS
  <2>2. ended[i].start < ended[j].start
    BY <1>6, <2>1 DEF Earlier
  <2>3. j < i
    BY <1>3, <1>4, <1>6, <2>1, <2>2
  <2>4. ended[j].start <= ended[i].start
    BY <1>5, <1>6, <2>3
  <2>5. QED
    BY <1>4, <1>6, <2>2, <2>4
<1>8. QED
  BY <1>5, <1>6, <1>7

Born(s) == {q \in (DOMAIN s) \X (DOMAIN s) : s[q[1]].born < s[q[2]].born}

LEMMA InvIgnoresClock == CaptureInv => VerdictIgnoresClock
<1>1. SUFFICES ASSUME CaptureInv, Flat
               PROVE  EvaluateAll(trace) = EvaluateAll(ByBirth)
  BY DEF VerdictIgnoresClock
<1> DEFINE n == Len(trace)
           D == 1 .. n
           R == Born(trace)
<1>2. n \in Nat /\ DOMAIN trace = D
  <2>1. CASE trace = <<>>
    BY <2>1
  <2>2. CASE trace # <<>>
    BY <1>1, <2>2, TraceDomain
  <2>3. QED
    BY <2>1, <2>2
<1>3. \A p, q \in D : p < q => trace[p].born # trace[q].born
  BY <1>1, <1>2, PlacesAreRows
<1>4. \A p \in D : trace[p].born \in Nat /\ trace[p].depth \in Nat
  BY <1>1, <1>2, PlaceIsRow
<1>5. \A p \in D : Carries(trace[p]) => trace[p].depth = 1
  BY <1>1, <1>2, <1>4 DEF Flat, Carries, NoAttrs
<1>6. \A p, q \in D : <<p, q>> \in R <=> trace[p].born < trace[q].born
  BY <1>2 DEF Born
<1>7. \A p, q \in D : p = q \/ trace[p].born # trace[q].born
  BY <1>2, <1>3
<1> HIDE DEF R
<1>8. IsOrder(R, D)
  <2> HIDE DEF D
  <2>1. QED
    BY <1>4, <1>6, <1>7 DEF IsOrder
<1>9. ByBirth = SortedBy(R, n, trace)
  <2>1. \A p \in D : Lower(R, D, p) = {j \in D : trace[j].born < trace[p].born}
    BY <1>6 DEF Lower
  <2>2. \A p \in D : Place(R, D, p) = Cardinality({j \in D : trace[j].born < trace[p].born}) + 1
    BY <2>1 DEF Place
  <2>3. ByBirth = [p \in D |-> trace[CHOOSE i \in D :
                      Cardinality({j \in D : trace[j].born < trace[i].born}) + 1 = p]]
    BY <1>2 DEF ByBirth, SortBy
  <2>4. \A p \in D : (CHOOSE i \in D : Place(R, D, i) = p)
           = (CHOOSE i \in D : Cardinality({j \in D : trace[j].born < trace[i].born}) + 1 = p)
    BY <2>2
  <2>5. \A p \in D : trace[CHOOSE i \in D : Place(R, D, i) = p]
           = trace[CHOOSE i \in D : Cardinality({j \in D : trace[j].born < trace[i].born}) + 1 = p]
    BY <2>4, Zenon
  <2>6. SortedBy(R, n, trace) = [p \in D |-> trace[CHOOSE i \in D : Place(R, D, i) = p]]
    BY DEF SortedBy
  <2> HIDE DEF D, n
  <2>7. QED
    BY <2>3, <2>5, <2>6
<1>10. InOrder(R, n, trace, ByBirth)
  BY <1>2, <1>8, <1>9, Sorted
<1>11. PICK f \in [D -> D], pos \in [D -> D] :
         /\ ByBirth = [p \in D |-> trace[f[p]]]
         /\ \A i \in D : f[pos[i]] = i /\ pos[f[i]] = i
         /\ \A i, j \in D : <<i, j>> \in R <=> pos[i] < pos[j]
  BY <1>10 DEF InOrder
<1>12. Moves(trace, ByBirth, n, pos, f)
  <2>1. DOMAIN ByBirth = D /\ Len(ByBirth) = n
    BY <1>2, <1>11
  <2>2. \A p \in D : ByBirth[pos[p]] = trace[p]
    BY <1>11
  <2>3. ASSUME NEW p \in D, NEW q \in D, Carries(trace[p]), Carries(trace[q])
        PROVE  p < q <=> pos[p] < pos[q]
    <3>1. trace[p].depth = 1 /\ trace[q].depth = 1
      BY <1>5, <2>3
    <3>2. p < q => trace[p].born < trace[q].born
      BY <1>1, <1>2, <3>1, ChildrenInOrder
    <3>3. q < p => trace[q].born < trace[p].born
      BY <1>1, <1>2, <3>1, ChildrenInOrder
    <3>4. p < q <=> trace[p].born < trace[q].born
      BY <1>2, <1>4, <3>2, <3>3
    <3>5. QED
      BY <1>6, <1>11, <3>4
  <2>4. QED
    BY <1>2, <1>11, <2>1, <2>2, <2>3 DEF Moves
<1>13. QED
  BY <1>12, VerdictMoves

\* However coarse the clock, the rules say of a flat session what they would say
\* of its spans in the order they really started.
THEOREM VerdictsIgnoreTheClock == PairSpec => []VerdictIgnoresClock
  BY CaptureInvariant, InvIgnoresClock, PTL
=============================================================================
