--------------------------- MODULE RuleScan_proof ---------------------------
(***************************************************************************)
(* Proofs about RuleScan, for every set of spans and every length of a     *)
(* trace: the single pass of each rule decides exactly the pattern the     *)
(* rule is about.                                                          *)
(*                                                                         *)
(* The invariant says what each loop variable remembers of the prefix.     *)
(* For every rule a lemma says what one more span does to its pattern.     *)
(***************************************************************************)
EXTENDS RuleScan, FiniteSetTheorems, TLAPS

\* firstUntrustedIndex has an answer, or no span is untrusted.
UntrustedInv ==
  /\ untrusted => FirstUntrusted(trace) # {}
  /\ ~untrusted => \A i \in DOMAIN trace : ~IsTrue(trace[i], KeyUntrusted)

CountsInv ==
  \A n \in Names : /\ IsFiniteSet(Named(trace, n))
                   /\ counts[n] = Cardinality(Named(trace, n))

\* maxRank is the greatest rank seen, -1 standing for none.
MaxRankInv ==
  /\ maxRank = -1 => Scoped(trace) = {}
  /\ maxRank # -1 => \E i \in Scoped(trace) : Rank(trace, i) = maxRank
  /\ \A i \in Scoped(trace) : Rank(trace, i) <= maxRank

TaintInv == tainted <=> \E i \in DOMAIN trace : Tainting(trace[i])

FiredInv ==
  /\ "GG-DET-01" \in fired <=> InjectionExfil(trace)
  /\ "GG-DET-02" \in fired <=> HITLBypass(trace)
  /\ "GG-DET-03" \in fired <=> LoopRunaway(trace)
  /\ "GG-DET-04" \in fired <=> PrivilegeWidening(trace)
  /\ "GG-DET-05" \in fired <=> MemoryTaint(trace)

ScanInv ==
  TypeOK /\ UntrustedInv /\ CountsInv /\ MaxRankInv /\ TaintInv /\ FiredInv

-----------------------------------------------------------------------------
(* One more span *)

LEMMA OneMore ==
  ASSUME NEW t \in Seq(Spans), NEW s \in Spans
  PROVE  /\ Append(t, s) \in Seq(Spans)
         /\ Len(Append(t, s)) = Len(t) + 1 /\ Len(t) \in Nat
         /\ DOMAIN t = 1 .. Len(t)
         /\ DOMAIN Append(t, s) = DOMAIN t \cup {Len(t) + 1}
         /\ Append(t, s)[Len(t) + 1] = s
         /\ \A i \in DOMAIN t : Append(t, s)[i] = t[i]
         /\ \A i \in DOMAIN t : i \in Nat /\ i < Len(t) + 1
  OBVIOUS

LEMMA RankType == \A scope : ScopeRank(scope) \in 1 .. 3
  BY DEF ScopeRank

\* GG-DET-02 and the taint and untrusted flags look at one span at a time.
LEMMA HITLAppend ==
  ASSUME NEW t \in Seq(Spans), NEW s \in Spans
  PROVE  HITLBypass(Append(t, s)) <=> HITLBypass(t) \/ NotApproved(s)
<1> DEFINE t2 == Append(t, s)
<1>1. \A i \in DOMAIN t2 : i \in DOMAIN t \/ i = Len(t) + 1
  BY OneMore
<1>2. /\ DOMAIN t \subseteq DOMAIN t2 /\ Len(t) + 1 \in DOMAIN t2
      /\ t2[Len(t) + 1] = s /\ \A i \in DOMAIN t : t2[i] = t[i]
  BY OneMore
<1> HIDE DEF t2
<1>3. HITLBypass(t2) <=> HITLBypass(t) \/ NotApproved(s)
  BY <1>1, <1>2 DEF HITLBypass, NotApproved
<1>4. QED
  BY <1>3 DEF t2

\* The first untrusted span of a trace stays the first.
LEMMA FirstUntrustedAppend ==
  ASSUME NEW t \in Seq(Spans), NEW s \in Spans,
         NEW u \in FirstUntrusted(t)
  PROVE  FirstUntrusted(Append(t, s)) = {u}
<1> DEFINE t2 == Append(t, s)
<1>1. /\ u \in DOMAIN t /\ IsTrue(t[u], KeyUntrusted)
      /\ \A i \in 1 .. u - 1 : ~IsTrue(t[i], KeyUntrusted)
  BY DEF FirstUntrusted
<1>2. u \in DOMAIN t2 /\ IsTrue(t2[u], KeyUntrusted)
  BY <1>1, OneMore
<1>3. \A i \in 1 .. u - 1 : ~IsTrue(t2[i], KeyUntrusted)
  BY <1>1, OneMore
<1>4. ASSUME NEW v \in FirstUntrusted(t2)
      PROVE  v = u
  <2>1. /\ v \in DOMAIN t2 /\ IsTrue(t2[v], KeyUntrusted)
        /\ \A i \in 1 .. v - 1 : ~IsTrue(t2[i], KeyUntrusted)
    BY DEF FirstUntrusted
  <2>2. u \in Nat /\ u >= 1 /\ v \in Nat /\ v >= 1
    BY <1>1, <2>1, OneMore
  <2>3. ~(v < u) /\ ~(u < v)
    BY <1>2, <1>3, <2>1, <2>2
  <2>4. QED
    BY <2>2, <2>3
<1>5. u \in FirstUntrusted(t2)
  BY <1>2, <1>3 DEF FirstUntrusted
<1>6. QED
  BY <1>4, <1>5

\* In a trace without untrusted spans, a new untrusted span is the first.
LEMMA FirstUntrustedNew ==
  ASSUME NEW t \in Seq(Spans), NEW s \in Spans,
         \A i \in DOMAIN t : ~IsTrue(t[i], KeyUntrusted)
  PROVE  FirstUntrusted(Append(t, s)) =
           IF IsTrue(s, KeyUntrusted) THEN {Len(t) + 1} ELSE {}
<1> DEFINE t2 == Append(t, s)
<1>1. \A i \in DOMAIN t : ~IsTrue(t2[i], KeyUntrusted)
  BY OneMore
<1>2. /\ DOMAIN t2 = DOMAIN t \cup {Len(t) + 1} /\ t2[Len(t) + 1] = s
      /\ 1 .. (Len(t) + 1) - 1 = DOMAIN t
  BY OneMore
<1> HIDE DEF t2
<1>3. \A u \in FirstUntrusted(t2) : u = Len(t) + 1 /\ IsTrue(s, KeyUntrusted)
  BY <1>1, <1>2 DEF FirstUntrusted
<1>4. IsTrue(s, KeyUntrusted) => Len(t) + 1 \in FirstUntrusted(t2)
  BY <1>1, <1>2 DEF FirstUntrusted
<1>5. FirstUntrusted(t2) = IF IsTrue(s, KeyUntrusted) THEN {Len(t) + 1} ELSE {}
  BY <1>3, <1>4
<1>6. QED
  BY <1>5 DEF t2

\* GG-DET-01, given what the flag remembers of the prefix.
LEMMA InjectionAppend ==
  ASSUME NEW t \in Seq(Spans), NEW s \in Spans, NEW seen \in BOOLEAN,
         seen => FirstUntrusted(t) # {},
         ~seen => \A i \in DOMAIN t : ~IsTrue(t[i], KeyUntrusted)
  PROVE  InjectionExfil(Append(t, s)) <=>
           \/ InjectionExfil(t)
           \/ (seen \/ IsTrue(s, KeyUntrusted)) /\ IsTrue(s, KeyEgress)
<1> DEFINE t2 == Append(t, s)
           n  == Len(t) + 1
<1>1. /\ Len(t) \in Nat /\ Len(t2) = n /\ DOMAIN t = 1 .. Len(t)
      /\ t2[n] = s /\ \A i \in DOMAIN t : t2[i] = t[i]
  BY OneMore
<1> HIDE DEF t2
<1>2. CASE seen
  <2>1. PICK u \in FirstUntrusted(t) : TRUE
    BY <1>2
  <2>2. FirstUntrusted(t2) = {u}
    BY FirstUntrustedAppend DEF t2
  <2>3. FirstUntrusted(t) = {u}
    <3>1. \A v \in FirstUntrusted(t) : FirstUntrusted(t2) = {v}
      BY FirstUntrustedAppend DEF t2
    <3>2. QED
      BY <2>1, <2>2, <3>1
  <2>4. u \in 1 .. Len(t)
    BY <1>1 DEF FirstUntrusted
  <2>5. (\E j \in u .. n : IsTrue(t2[j], KeyEgress)) <=>
          (\E j \in u .. Len(t) : IsTrue(t[j], KeyEgress)) \/ IsTrue(s, KeyEgress)
    <3>1. \A j \in u .. n : j = n \/ (j \in u .. Len(t) /\ j \in DOMAIN t)
      BY <1>1, <2>4
    <3>2. /\ n \in u .. n
          /\ \A j \in u .. Len(t) : j \in u .. n /\ j \in DOMAIN t
      BY <1>1, <2>4
    <3> HIDE DEF n
    <3>3. QED
      BY <1>1, <3>1, <3>2
  <2>6. InjectionExfil(t2) <=> \E j \in u .. n : IsTrue(t2[j], KeyEgress)
    BY <2>2, <1>1 DEF InjectionExfil
  <2>7. InjectionExfil(t) <=> \E j \in u .. Len(t) : IsTrue(t[j], KeyEgress)
    BY <2>3 DEF InjectionExfil
  <2>8. QED
    BY <1>2, <2>5, <2>6, <2>7 DEF t2
<1>3. CASE ~seen
  <2>1. FirstUntrusted(t2) = IF IsTrue(s, KeyUntrusted) THEN {n} ELSE {}
    BY <1>3, FirstUntrustedNew DEF t2
  <2>2. ~InjectionExfil(t)
    BY <1>3 DEF InjectionExfil, FirstUntrusted
  <2>3. n .. n = {n}
    BY <1>1
  <2>4. InjectionExfil(t2) <=> IsTrue(s, KeyUntrusted) /\ IsTrue(t2[n], KeyEgress)
    <3> HIDE DEF n
    <3>1. InjectionExfil(t2) <=>
            \E u \in FirstUntrusted(t2) : \E j \in u .. n : IsTrue(t2[j], KeyEgress)
      BY <1>1 DEF InjectionExfil
    <3>2. CASE IsTrue(s, KeyUntrusted)
      <4>1. FirstUntrusted(t2) = {n}
        BY <2>1, <3>2
      <4>2. (\E u \in FirstUntrusted(t2) : \E j \in u .. n : IsTrue(t2[j], KeyEgress))
              <=> \E j \in {n} : IsTrue(t2[j], KeyEgress)
        BY <4>1, <2>3
      <4>3. QED
        BY <3>1, <3>2, <4>2
    <3>3. CASE ~IsTrue(s, KeyUntrusted)
      BY <2>1, <3>1, <3>3
    <3>4. QED
      BY <3>2, <3>3
  <2>5. QED
    BY <1>1, <1>3, <2>2, <2>4 DEF t2
<1>4. QED
  BY <1>2, <1>3

\* GG-DET-03: the new span joins the spans of its name, and no others.
LEMMA NamedAppend ==
  ASSUME NEW t \in Seq(Spans), NEW s \in Spans, NEW n
  PROVE  Named(Append(t, s), n) =
           IF n = s.name THEN Named(t, n) \cup {Len(t) + 1} ELSE Named(t, n)
<1> DEFINE t2 == Append(t, s)
<1>1. /\ DOMAIN t2 = DOMAIN t \cup {Len(t) + 1} /\ t2[Len(t) + 1] = s
      /\ \A i \in DOMAIN t : t2[i] = t[i]
  BY OneMore
<1> HIDE DEF t2
<1>2. Named(t2, n) =
        IF n = s.name THEN Named(t, n) \cup {Len(t) + 1} ELSE Named(t, n)
  BY <1>1 DEF Named
<1>3. QED
  BY <1>2 DEF t2

LEMMA LoopAppend ==
  ASSUME NEW t \in Seq(Spans), NEW s \in Spans,
         \A n \in Names : IsFiniteSet(Named(t, n))
  PROVE  LoopRunaway(Append(t, s)) <=>
           LoopRunaway(t) \/ Cardinality(Named(Append(t, s), s.name)) > LoopThreshold
<1> DEFINE t2 == Append(t, s)
           Over(w, n) == Cardinality(Named(w, n)) > LoopThreshold
<1>1. /\ DOMAIN t2 = DOMAIN t \cup {Len(t) + 1} /\ t2[Len(t) + 1] = s
      /\ \A i \in DOMAIN t : t2[i] = t[i] /\ Len(t) + 1 \notin DOMAIN t
  BY OneMore
<1>2. s.name \in Names /\ \A i \in DOMAIN t : t[i].name \in Names
  BY OneMore DEF Names
<1>3. \A n : n # s.name => Named(t2, n) = Named(t, n)
  BY NamedAppend
<1>4. Over(t, s.name) => Over(t2, s.name)
  <2>1. IsFiniteSet(Named(t, s.name)) /\ Len(t) + 1 \notin Named(t, s.name)
    BY <1>1, <1>2 DEF Named
  <2>2. Named(t2, s.name) = Named(t, s.name) \cup {Len(t) + 1}
    BY NamedAppend
  <2>3. Cardinality(Named(t2, s.name)) = Cardinality(Named(t, s.name)) + 1
    BY <2>1, <2>2, FS_AddElement
  <2>4. Cardinality(Named(t, s.name)) \in Nat
    BY <2>1, FS_CardinalityType
  <2>5. QED
    BY <2>3, <2>4 DEF LoopThreshold
<1>5. \A i \in DOMAIN t : Over(t, t[i].name) => Over(t2, t2[i].name)
  BY <1>1, <1>3, <1>4
<1>6. \A i \in DOMAIN t : Over(t2, t2[i].name) => Over(t, t[i].name) \/ Over(t2, s.name)
  BY <1>1, <1>3
<1> HIDE DEF t2, Over
<1>7. (\E i \in DOMAIN t2 : Over(t2, t2[i].name)) <=>
        (\E i \in DOMAIN t : Over(t, t[i].name)) \/ Over(t2, s.name)
  BY <1>1, <1>5, <1>6
<1>8. QED
  BY <1>7 DEF LoopRunaway, t2, Over

\* GG-DET-04.
LEMMA ScopedAppend ==
  ASSUME NEW t \in Seq(Spans), NEW s \in Spans
  PROVE  /\ Scoped(Append(t, s)) =
              IF Has(s, KeyPrivilegeScope) THEN Scoped(t) \cup {Len(t) + 1} ELSE Scoped(t)
         /\ \A i \in Scoped(t) : Rank(Append(t, s), i) = Rank(t, i)
         /\ Has(s, KeyPrivilegeScope) =>
              Rank(Append(t, s), Len(t) + 1) = ScopeRank(s.attrs[KeyPrivilegeScope])
         /\ \A i \in Scoped(t) : i \in Nat /\ i < Len(t) + 1
<1> DEFINE t2 == Append(t, s)
<1>1. /\ DOMAIN t2 = DOMAIN t \cup {Len(t) + 1} /\ t2[Len(t) + 1] = s
      /\ \A i \in DOMAIN t : t2[i] = t[i]
      /\ \A i \in DOMAIN t : i \in Nat /\ i < Len(t) + 1
  BY OneMore
<1> HIDE DEF t2
<1>2. /\ Scoped(t2) = IF Has(s, KeyPrivilegeScope) THEN Scoped(t) \cup {Len(t) + 1} ELSE Scoped(t)
      /\ \A i \in Scoped(t) : Rank(t2, i) = Rank(t, i)
      /\ Has(s, KeyPrivilegeScope) => Rank(t2, Len(t) + 1) = ScopeRank(s.attrs[KeyPrivilegeScope])
      /\ \A i \in Scoped(t) : i \in Nat /\ i < Len(t) + 1
  BY <1>1 DEF Scoped, Rank
<1>3. QED
  BY <1>2 DEF t2

LEMMA WideningAppend ==
  ASSUME NEW t \in Seq(Spans), NEW s \in Spans
  PROVE  PrivilegeWidening(Append(t, s)) <=>
           \/ PrivilegeWidening(t)
           \/ /\ Has(s, KeyPrivilegeScope)
              /\ Scoped(t) # {}
              /\ \A i \in Scoped(t) : Rank(t, i) < ScopeRank(s.attrs[KeyPrivilegeScope])
<1> DEFINE t2 == Append(t, s)
           n  == Len(t) + 1
           Before(w, j) == {i \in Scoped(w) : i < j}
           Widest(w, j) == Before(w, j) # {} /\ \A i \in Before(w, j) : Rank(w, i) < Rank(w, j)
<1>1. /\ Scoped(t2) = IF Has(s, KeyPrivilegeScope) THEN Scoped(t) \cup {n} ELSE Scoped(t)
      /\ \A i \in Scoped(t) : Rank(t2, i) = Rank(t, i)
      /\ Has(s, KeyPrivilegeScope) => Rank(t2, n) = ScopeRank(s.attrs[KeyPrivilegeScope])
      /\ \A i \in Scoped(t) : i \in Nat /\ i < n
      /\ n \in Nat
  BY ScopedAppend, OneMore
<1> HIDE DEF t2, n
<1>2. \A j \in Scoped(t) : Before(t2, j) = Before(t, j)
  BY <1>1
<1>3. Before(t2, n) = Scoped(t)
  BY <1>1
<1>4. \A j \in Scoped(t) : Widest(t2, j) <=> Widest(t, j)
  BY <1>1, <1>2
<1>5. Has(s, KeyPrivilegeScope) =>
        (Widest(t2, n) <=>
           /\ Scoped(t) # {}
           /\ \A i \in Scoped(t) : Rank(t, i) < ScopeRank(s.attrs[KeyPrivilegeScope]))
  BY <1>1, <1>3
<1>6. \A w : PrivilegeWidening(w) <=> \E j \in Scoped(w) : Widest(w, j)
  BY DEF PrivilegeWidening
<1> HIDE DEF Widest, Before
<1>7. (\E j \in Scoped(t2) : Widest(t2, j)) <=>
        \/ \E j \in Scoped(t) : Widest(t, j)
        \/ Has(s, KeyPrivilegeScope) /\ Widest(t2, n)
  BY <1>1, <1>4
<1>8. QED
  BY <1>5, <1>6, <1>7 DEF t2

\* GG-DET-05.
LEMMA TaintAppend ==
  ASSUME NEW t \in Seq(Spans), NEW s \in Spans
  PROVE  MemoryTaint(Append(t, s)) <=>
           \/ MemoryTaint(t)
           \/ /\ Tainting(s) \/ \E i \in DOMAIN t : Tainting(t[i])
              /\ Has(s, KeyPrivilegeScope)
              /\ s.attrs[KeyPrivilegeScope].prefix = "write"
<1> DEFINE t2 == Append(t, s)
           n  == Len(t) + 1
           Mutates(x) == Has(x, KeyPrivilegeScope) /\ x.attrs[KeyPrivilegeScope].prefix = "write"
<1>1. /\ DOMAIN t2 = DOMAIN t \cup {n} /\ t2[n] = s /\ n \in Nat
      /\ \A i \in DOMAIN t : t2[i] = t[i]
      /\ \A i \in DOMAIN t : i \in Nat /\ i < n
  BY OneMore
<1>2. \A w : MemoryTaint(w) <=>
               \E i, j \in DOMAIN w : i <= j /\ Tainting(w[i]) /\ Mutates(w[j])
  BY DEF MemoryTaint
<1> HIDE DEF t2, n, Mutates
<1>3. (\E i, j \in DOMAIN t2 : i <= j /\ Tainting(t2[i]) /\ Mutates(t2[j])) <=>
        \/ \E i, j \in DOMAIN t : i <= j /\ Tainting(t[i]) /\ Mutates(t[j])
        \/ (Tainting(s) \/ \E i \in DOMAIN t : Tainting(t[i])) /\ Mutates(s)
  <2>1. \A i, j \in DOMAIN t2 : i <= j => (i \in DOMAIN t /\ j \in DOMAIN t) \/ j = n
    BY <1>1
  <2>2. n <= n /\ \A i \in DOMAIN t : i <= n
    BY <1>1
  <2>3. QED
    BY <1>1, <2>1, <2>2
<1>4. QED
  BY <1>2, <1>3 DEF t2, Mutates

-----------------------------------------------------------------------------
(* The invariant *)

LEMMA ScanInit == Init => ScanInv
<1> SUFFICES ASSUME Init PROVE ScanInv
  OBVIOUS
<1> USE DEF Init
<1>1. trace \in Seq(Spans) /\ Len(trace) = 0 /\ DOMAIN trace = {}
  OBVIOUS
<1>2. TypeOK
  <2>1. counts \in [Names -> Nat]
    OBVIOUS
  <2>2. maxRank \in -1 .. 3 /\ fired \subseteq RuleIDs
    OBVIOUS
  <2>3. Len(trace) <= MaxSpans
    BY <1>1, BoundAssumption
  <2>4. untrusted \in BOOLEAN /\ tainted \in BOOLEAN
    OBVIOUS
  <2>5. QED
    BY <1>1, <2>1, <2>2, <2>3, <2>4 DEF TypeOK
<1>3. UntrustedInv /\ MaxRankInv /\ TaintInv
  BY <1>1 DEF UntrustedInv, MaxRankInv, TaintInv, Scoped
<1>4. CountsInv
  <2>1. \A n : Named(trace, n) = {}
    BY <1>1 DEF Named
  <2>2. QED
    BY <2>1, FS_EmptySet DEF CountsInv
<1>5. FiredInv
  BY <1>1 DEF FiredInv, InjectionExfil, HITLBypass, LoopRunaway, PrivilegeWidening,
              MemoryTaint, Scoped, FirstUntrusted
<1>6. QED
  BY <1>2, <1>3, <1>4, <1>5 DEF ScanInv

LEMMA ScanStep ==
  ASSUME ScanInv, NEW s \in Spans, Visit(s)
  PROVE  ScanInv'
<1>1. /\ TypeOK /\ UntrustedInv /\ CountsInv /\ MaxRankInv /\ TaintInv /\ FiredInv
  BY DEF ScanInv
<1>2. /\ trace \in Seq(Spans) /\ trace' = Append(trace, s)
      /\ untrusted' = (untrusted \/ IsTrue(s, KeyUntrusted))
      /\ tainted' = (tainted \/ Tainting(s))
      /\ maxRank' = RaisedMaximum(s) /\ maxRank \in -1 .. 3
      /\ fired' = fired \cup RulesFiringAt(s)
      /\ untrusted \in BOOLEAN /\ tainted \in BOOLEAN
  BY <1>1 DEF TypeOK, Visit
<1>3. s.name \in Names
  BY DEF Names
<1>4. /\ counts' \in [Names -> Nat]
      /\ \A n \in Names : counts'[n] = IF n = s.name THEN counts[n] + 1 ELSE counts[n]
  BY <1>1, <1>3 DEF TypeOK, Visit
<1>5. TypeOK'
  <2>1. trace' \in Seq(Spans) /\ Len(trace') <= MaxSpans
    BY <1>1, <1>2, OneMore, BoundAssumption DEF TypeOK, Visit
  <2>2. maxRank' \in -1 .. 3
    BY <1>2, RankType DEF RaisedMaximum
  <2>3. untrusted' \in BOOLEAN /\ tainted' \in BOOLEAN
    BY <1>2
  <2>4. fired' \subseteq RuleIDs
    BY <1>1, <1>2 DEF TypeOK, RulesFiringAt
  <2>5. QED
    BY <1>4, <2>1, <2>2, <2>3, <2>4 DEF TypeOK
<1>6. UntrustedInv'
  <2>1. CASE untrusted
    <3>1. PICK u \in FirstUntrusted(trace) : TRUE
      BY <1>1, <2>1 DEF UntrustedInv
    <3>2. FirstUntrusted(trace') = {u}
      BY <1>2, <3>1, FirstUntrustedAppend
    <3>3. QED
      BY <1>2, <2>1, <3>2 DEF UntrustedInv
  <2>2. CASE ~untrusted
    <3>1. \A i \in DOMAIN trace : ~IsTrue(trace[i], KeyUntrusted)
      BY <1>1, <2>2 DEF UntrustedInv
    <3>2. FirstUntrusted(trace') =
            IF IsTrue(s, KeyUntrusted) THEN {Len(trace) + 1} ELSE {}
      BY <1>2, <3>1, FirstUntrustedNew
    <3>3. untrusted' <=> IsTrue(s, KeyUntrusted)
      BY <1>2, <2>2
    <3>4. ~untrusted' => \A i \in DOMAIN trace' : ~IsTrue(trace'[i], KeyUntrusted)
      BY <1>2, <3>1, <3>3, OneMore
    <3>5. QED
      BY <3>2, <3>3, <3>4 DEF UntrustedInv
  <2>3. QED
    BY <2>1, <2>2
<1>7. CountsInv'
  <2> SUFFICES ASSUME NEW n \in Names
               PROVE  /\ IsFiniteSet(Named(trace', n))
                      /\ counts'[n] = Cardinality(Named(trace', n))
    BY DEF CountsInv
  <2>1. IsFiniteSet(Named(trace, n)) /\ counts[n] = Cardinality(Named(trace, n))
    BY <1>1 DEF CountsInv
  <2>2. Len(trace) + 1 \notin Named(trace, n)
    BY <1>2, OneMore DEF Named
  <2>3. Named(trace', n) =
          IF n = s.name THEN Named(trace, n) \cup {Len(trace) + 1} ELSE Named(trace, n)
    BY <1>2, NamedAppend
  <2>4. CASE n = s.name
    BY <1>4, <2>1, <2>2, <2>3, <2>4, FS_AddElement
  <2>5. CASE n # s.name
    BY <1>4, <2>1, <2>3, <2>5
  <2>6. QED
    BY <2>4, <2>5
<1>8. MaxRankInv'
  <2>1. /\ Scoped(trace') =
             IF Has(s, KeyPrivilegeScope) THEN Scoped(trace) \cup {Len(trace) + 1}
                                          ELSE Scoped(trace)
        /\ \A i \in Scoped(trace) : Rank(trace', i) = Rank(trace, i)
        /\ Has(s, KeyPrivilegeScope) =>
             Rank(trace', Len(trace) + 1) = ScopeRank(s.attrs[KeyPrivilegeScope])
    BY <1>2, ScopedAppend
  <2>2. ScopeRank(s.attrs[KeyPrivilegeScope]) \in 1 .. 3
    BY RankType
  <2>3. /\ \A i \in Scoped(trace) : Rank(trace, i) \in 1 .. 3
        /\ maxRank = -1 => Scoped(trace) = {}
        /\ maxRank # -1 => \E i \in Scoped(trace) : Rank(trace, i) = maxRank
        /\ \A i \in Scoped(trace) : Rank(trace, i) <= maxRank
    BY <1>1, RankType DEF MaxRankInv, Rank
  <2>4. CASE Has(s, KeyPrivilegeScope)
    BY <1>2, <2>1, <2>2, <2>3, <2>4 DEF RaisedMaximum, MaxRankInv
  <2>5. CASE ~Has(s, KeyPrivilegeScope)
    BY <1>2, <2>1, <2>3, <2>5 DEF RaisedMaximum, MaxRankInv
  <2>6. QED
    BY <2>4, <2>5
<1>9. TaintInv'
  <2>1. (\E i \in DOMAIN trace' : Tainting(trace'[i])) <=>
          (\E i \in DOMAIN trace : Tainting(trace[i])) \/ Tainting(s)
    <3>1. /\ DOMAIN trace' = DOMAIN trace \cup {Len(trace) + 1}
          /\ trace'[Len(trace) + 1] = s
          /\ \A i \in DOMAIN trace : trace'[i] = trace[i]
      BY <1>2, OneMore
    <3>2. QED
      BY <3>1
  <2>2. QED
    BY <1>1, <1>2, <2>1 DEF TaintInv
<1>10. FiredInv'
  <2>1. "GG-DET-01" \in fired' <=> InjectionExfil(trace')
    <3>1. InjectionExfil(trace') <=>
            \/ InjectionExfil(trace)
            \/ (untrusted \/ IsTrue(s, KeyUntrusted)) /\ IsTrue(s, KeyEgress)
      BY <1>1, <1>2, InjectionAppend DEF UntrustedInv
    <3>2. "GG-DET-01" \in fired' <=>
            "GG-DET-01" \in fired \/ EgressAfterUntrusted(s)
      BY <1>2 DEF RulesFiringAt, RuleIDs
    <3>3. QED
      BY <1>1, <1>2, <3>1, <3>2 DEF FiredInv, EgressAfterUntrusted
  <2>2. "GG-DET-02" \in fired' <=> HITLBypass(trace')
    <3>1. "GG-DET-02" \in fired' <=> "GG-DET-02" \in fired \/ NotApproved(s)
      BY <1>2 DEF RulesFiringAt, RuleIDs
    <3>2. QED
      BY <1>1, <1>2, <3>1, HITLAppend DEF FiredInv
  <2>3. "GG-DET-03" \in fired' <=> LoopRunaway(trace')
    <3>1. "GG-DET-03" \in fired' <=> "GG-DET-03" \in fired \/ OverBudget(s)
      BY <1>2 DEF RulesFiringAt, RuleIDs
    <3>2. counts'[s.name] = Cardinality(Named(trace', s.name))
      BY <1>3, <1>7 DEF CountsInv
    <3>3. LoopRunaway(trace') <=>
            LoopRunaway(trace) \/ Cardinality(Named(trace', s.name)) > LoopThreshold
      BY <1>1, <1>2, LoopAppend DEF CountsInv
    <3>4. QED
      BY <1>1, <3>1, <3>2, <3>3 DEF FiredInv, OverBudget
  <2>4. "GG-DET-04" \in fired' <=> PrivilegeWidening(trace')
    <3>1. "GG-DET-04" \in fired' <=> "GG-DET-04" \in fired \/ Widens(s)
      BY <1>2 DEF RulesFiringAt, RuleIDs
    <3>2. PrivilegeWidening(trace') <=>
            \/ PrivilegeWidening(trace)
            \/ /\ Has(s, KeyPrivilegeScope)
               /\ Scoped(trace) # {}
               /\ \A i \in Scoped(trace) :
                    Rank(trace, i) < ScopeRank(s.attrs[KeyPrivilegeScope])
      BY <1>2, WideningAppend
    <3>3. ScopeRank(s.attrs[KeyPrivilegeScope]) \in 1 .. 3
      BY RankType
    <3>4. \A i \in Scoped(trace) : Rank(trace, i) \in 1 .. 3
      BY RankType DEF Rank
    <3>5. Scoped(trace) # {} <=> maxRank >= 0
      BY <1>1, <1>2, <3>4 DEF MaxRankInv
    <3>6. maxRank >= 0 =>
            (ScopeRank(s.attrs[KeyPrivilegeScope]) > maxRank <=>
              \A i \in Scoped(trace) :
                Rank(trace, i) < ScopeRank(s.attrs[KeyPrivilegeScope]))
      BY <1>1, <1>2, <3>3, <3>4 DEF MaxRankInv
    <3>7. QED
      BY <1>1, <3>1, <3>2, <3>5, <3>6 DEF FiredInv, Widens
  <2>5. "GG-DET-05" \in fired' <=> MemoryTaint(trace')
    <3>1. "GG-DET-05" \in fired' <=> "GG-DET-05" \in fired \/ MutatesTainted(s)
      BY <1>2 DEF RulesFiringAt, RuleIDs
    <3>2. MemoryTaint(trace') <=>
            \/ MemoryTaint(trace)
            \/ /\ Tainting(s) \/ \E i \in DOMAIN trace : Tainting(trace[i])
               /\ Has(s, KeyPrivilegeScope)
               /\ s.attrs[KeyPrivilegeScope].prefix = "write"
      BY <1>2, TaintAppend
    <3>3. QED
      BY <1>1, <1>2, <3>1, <3>2 DEF FiredInv, TaintInv, MutatesTainted
  <2>6. QED
    BY <2>1, <2>2, <2>3, <2>4, <2>5 DEF FiredInv
<1>11. QED
  BY <1>5, <1>6, <1>7, <1>8, <1>9, <1>10 DEF ScanInv

LEMMA ScanInvariant == Spec => []ScanInv
<1>1. ASSUME ScanInv, [Next]_vars
      PROVE  ScanInv'
  <2>1. CASE Next
    BY <1>1, <2>1, ScanStep DEF Next
  <2>2. CASE UNCHANGED vars
    BY <1>1, <2>2 DEF vars, ScanInv, TypeOK, UntrustedInv, CountsInv, MaxRankInv,
                     TaintInv, FiredInv
  <2>3. QED
    BY <1>1, <2>1, <2>2
<1>2. QED
  BY <1>1, ScanInit, PTL DEF Spec

\* What the loops have fired is what the rules say.
LEMMA FiredIsEvaluated == ScanInv => ScanDecides
<1> SUFFICES ASSUME ScanInv PROVE fired = EvaluateAll(trace)
  BY DEF ScanDecides
<1>1. fired \subseteq RuleIDs /\ EvaluateAll(trace) \subseteq RuleIDs
  BY DEF ScanInv, TypeOK, EvaluateAll
<1>2. \A r \in RuleIDs : r \in fired <=> r \in EvaluateAll(trace)
  BY DEF ScanInv, FiredInv, EvaluateAll, RuleIDs
<1>3. QED
  BY <1>1, <1>2

-----------------------------------------------------------------------------
(* What GG-DET-04 compares with *)

\* While the rule is quiet no scope is broader than the first; once it has fired
\* some scope is.
FirstInv ==
  /\ Scoped(trace) # {} => FirstScoped(trace) # {}
  /\ "GG-DET-04" \in fired =>
       \E i \in FirstScoped(trace), j \in Scoped(trace) : Rank(trace, i) < Rank(trace, j)
  /\ "GG-DET-04" \notin fired =>
       \A i \in FirstScoped(trace), j \in Scoped(trace) : Rank(trace, j) <= Rank(trace, i)

LEMMA RanksAreIntegers ==
  ASSUME NEW t, NEW i
  PROVE  Rank(t, i) \in Int
  BY RankType DEF Rank

LEMMA FirstDecides == ScanInv /\ FirstInv => WideningIsFromTheFirst
<1>1. SUFFICES ASSUME FirstInv, "GG-DET-04" \notin fired,
                      NEW i \in FirstScoped(trace), NEW j \in Scoped(trace)
               PROVE  ~(Rank(trace, i) < Rank(trace, j))
  BY DEF FirstInv, WideningIsFromTheFirst
<1>2. Rank(trace, j) <= Rank(trace, i)
  BY <1>1 DEF FirstInv
<1>3. Rank(trace, i) \in Int /\ Rank(trace, j) \in Int
  BY RanksAreIntegers
<1>4. QED
  BY <1>2, <1>3

\* The first scope of a trace stays the first.
LEMMA FirstScopedAppend ==
  ASSUME NEW t \in Seq(Spans), NEW s \in Spans
  PROVE  FirstScoped(Append(t, s)) =
           IF Scoped(t) # {} THEN FirstScoped(t)
           ELSE IF Has(s, KeyPrivilegeScope) THEN {Len(t) + 1} ELSE {}
<1> DEFINE t2 == Append(t, s)
<1>1. Scoped(t2) = IF Has(s, KeyPrivilegeScope) THEN Scoped(t) \cup {Len(t) + 1}
                                                ELSE Scoped(t)
  BY ScopedAppend
<1>2. \A i \in Scoped(t) : i \in Nat /\ i <= Len(t) + 1 /\ ~(Len(t) + 1 <= i)
  BY OneMore DEF Scoped
<1>3. Len(t) + 1 <= Len(t) + 1
  BY OneMore
<1> HIDE DEF t2
<1>4. CASE Scoped(t) # {}
  <2>1. \A i \in FirstScoped(t) : i \in FirstScoped(t2)
    BY <1>1, <1>2 DEF FirstScoped
  <2>2. \A i \in FirstScoped(t2) : i \in FirstScoped(t)
    BY <1>1, <1>2, <1>4 DEF FirstScoped
  <2>3. QED
    BY <1>4, <2>1, <2>2 DEF t2
<1>5. CASE Scoped(t) = {}
  <2>1. CASE Has(s, KeyPrivilegeScope)
    BY <1>1, <1>3, <1>5, <2>1 DEF FirstScoped, t2
  <2>2. CASE ~Has(s, KeyPrivilegeScope)
    BY <1>1, <1>5, <2>2 DEF FirstScoped, t2
  <2>3. QED
    BY <2>1, <2>2
<1>6. QED
  BY <1>4, <1>5

LEMMA FirstStep ==
  ASSUME ScanInv, FirstInv, NEW s \in Spans, Visit(s)
  PROVE  FirstInv'
<1> DEFINE new  == Len(trace) + 1
           rank == ScopeRank(s.attrs[KeyPrivilegeScope])
<1>1. trace \in Seq(Spans) /\ trace' = Append(trace, s)
  BY DEF ScanInv, TypeOK, Visit
<1>2. "GG-DET-04" \in fired' <=> "GG-DET-04" \in fired \/ Widens(s)
  BY DEF Visit, RulesFiringAt, RuleIDs
<1>3. /\ Scoped(trace') = IF Has(s, KeyPrivilegeScope) THEN Scoped(trace) \cup {new}
                                                      ELSE Scoped(trace)
      /\ \A i \in Scoped(trace) : Rank(trace', i) = Rank(trace, i)
      /\ Has(s, KeyPrivilegeScope) => Rank(trace', new) = rank
  BY <1>1, ScopedAppend
<1>4. FirstScoped(trace') =
        IF Scoped(trace) # {} THEN FirstScoped(trace)
        ELSE IF Has(s, KeyPrivilegeScope) THEN {new} ELSE {}
  BY <1>1, FirstScopedAppend
<1>5. FirstScoped(trace) \subseteq Scoped(trace)
  BY DEF FirstScoped
<1>6. rank \in 1 .. 3 /\ maxRank \in -1 .. 3
  BY RankType DEF ScanInv, TypeOK
<1>7. \A i \in Scoped(trace) : Rank(trace, i) \in 1 .. 3
  BY RankType DEF Rank
<1>8. /\ maxRank = -1 => Scoped(trace) = {}
      /\ maxRank # -1 => \E i \in Scoped(trace) : Rank(trace, i) = maxRank
      /\ \A i \in Scoped(trace) : Rank(trace, i) <= maxRank
  BY DEF ScanInv, MaxRankInv
<1>9. Widens(s) <=> Has(s, KeyPrivilegeScope) /\ maxRank >= 0 /\ rank > maxRank
  BY DEF Widens
<1>10. /\ Scoped(trace) # {} => FirstScoped(trace) # {}
       /\ "GG-DET-04" \in fired =>
            \E i \in FirstScoped(trace), j \in Scoped(trace) : Rank(trace, i) < Rank(trace, j)
       /\ "GG-DET-04" \notin fired =>
            \A i \in FirstScoped(trace), j \in Scoped(trace) : Rank(trace, j) <= Rank(trace, i)
  BY DEF FirstInv
<1> HIDE DEF new, rank
<1>11. Scoped(trace') # {} => FirstScoped(trace') # {}
  BY <1>3, <1>4, <1>10
<1>12. ASSUME "GG-DET-04" \in fired
       PROVE  \E i \in FirstScoped(trace'), j \in Scoped(trace') :
                Rank(trace', i) < Rank(trace', j)
  <2>1. PICK i \in FirstScoped(trace), j \in Scoped(trace) : Rank(trace, i) < Rank(trace, j)
    BY <1>10, <1>12
  <2>2. i \in FirstScoped(trace') /\ j \in Scoped(trace')
    BY <1>3, <1>4
  <2>3. Rank(trace', i) < Rank(trace', j)
    BY <1>3, <1>5, <2>1
  <2>4. QED
    BY <2>2, <2>3
<1>13. ASSUME Widens(s)
       PROVE  \E i \in FirstScoped(trace'), j \in Scoped(trace') :
                Rank(trace', i) < Rank(trace', j)
  <2>1. Scoped(trace) # {}
    BY <1>6, <1>8, <1>9, <1>13
  <2>2. PICK i \in FirstScoped(trace) : i \in Scoped(trace)
    BY <1>5, <1>10, <2>1
  <2>3. i \in FirstScoped(trace') /\ new \in Scoped(trace')
    BY <1>3, <1>4, <1>9, <1>13, <2>1
  <2>4. Rank(trace, i) < rank
    BY <1>6, <1>7, <1>8, <1>9, <1>13, <2>2
  <2>5. Rank(trace', i) = Rank(trace, i) /\ Rank(trace', new) = rank
    BY <1>3, <1>9, <1>13, <2>2
  <2>6. QED
    BY <2>3, <2>4, <2>5
<1>14. ASSUME "GG-DET-04" \notin fired, ~Widens(s),
              NEW i \in FirstScoped(trace'), NEW j \in Scoped(trace')
       PROVE  Rank(trace', j) <= Rank(trace', i)
  <2>1. CASE Scoped(trace) = {}
    <3>1. i = new /\ j = new
      BY <1>3, <1>4, <2>1
    <3>2. Rank(trace', new) \in Int
      BY RanksAreIntegers
    <3>3. QED
      BY <3>1, <3>2
  <2>2. CASE Scoped(trace) # {}
    <3>1. i \in FirstScoped(trace) /\ i \in Scoped(trace) /\ Rank(trace', i) = Rank(trace, i)
      BY <1>3, <1>4, <1>5, <2>2
    <3>2. CASE j \in Scoped(trace)
      <4>1. Rank(trace, j) <= Rank(trace, i)
        BY <1>10, <1>14, <3>1, <3>2
      <4>2. QED
        BY <1>3, <3>1, <3>2, <4>1
    <3>3. CASE j \notin Scoped(trace)
      <4>1. Has(s, KeyPrivilegeScope) /\ j = new /\ Rank(trace', j) = rank
        BY <1>3, <3>3
      <4>2. PICK k \in Scoped(trace) : Rank(trace, k) = maxRank
        BY <1>8, <2>2
      <4>3. Rank(trace, k) <= Rank(trace, i)
        BY <1>10, <1>14, <3>1
      <4>4. maxRank \in 1 .. 3
        BY <1>7, <4>2
      <4>5. rank <= maxRank
        BY <1>6, <1>9, <1>14, <4>1, <4>4
      <4>6. Rank(trace, i) \in 1 .. 3
        BY <1>7, <3>1
      <4>7. rank <= Rank(trace, i)
        BY <1>6, <4>2, <4>3, <4>4, <4>5, <4>6
      <4>8. QED
        BY <3>1, <4>1, <4>7
    <3>4. QED
      BY <3>2, <3>3
  <2>3. QED
    BY <2>1, <2>2
<1>15. "GG-DET-04" \in fired' =>
         \E i \in FirstScoped(trace'), j \in Scoped(trace') : Rank(trace', i) < Rank(trace', j)
  BY <1>2, <1>12, <1>13
<1>16. "GG-DET-04" \notin fired' =>
         \A i \in FirstScoped(trace'), j \in Scoped(trace') : Rank(trace', j) <= Rank(trace', i)
  BY <1>2, <1>14
<1>17. QED
  BY <1>11, <1>15, <1>16 DEF FirstInv

LEMMA FirstInvariant == Spec => []FirstInv
<1>1. Init => FirstInv
  BY DEF Init, FirstInv, FirstScoped, Scoped
<1>2. ASSUME ScanInv, FirstInv, [Next]_vars
      PROVE  FirstInv'
  <2>1. CASE Next
    BY <1>2, <2>1, FirstStep DEF Next
  <2>2. CASE UNCHANGED vars
    BY <1>2, <2>2 DEF vars, FirstInv, FirstScoped, Scoped, Rank
  <2>3. QED
    BY <1>2, <2>1, <2>2
<1>3. QED
  BY <1>1, <1>2, ScanInvariant, PTL DEF Spec

-----------------------------------------------------------------------------
(* The theorems *)

\* The locals of the five loops of rules.go keep their types.
THEOREM TypeCorrect == Spec => []TypeOK
<1>1. ScanInv => TypeOK
  BY DEF ScanInv
<1>2. QED
  BY <1>1, ScanInvariant, PTL

\* The single-pass loops of rules.go decide the patterns they are about, on
\* every prefix of every trace.
THEOREM ScanIsExact == Spec => []ScanDecides
  BY ScanInvariant, FiredIsEvaluated, PTL

\* The running maximum of detectPrivilegeWidening amounts to the first scope.
THEOREM FirstScopeDecides == Spec => []WideningIsFromTheFirst
<1>1. ScanInv /\ FirstInv => WideningIsFromTheFirst
  BY FirstDecides
<1>2. QED
  BY <1>1, ScanInvariant, FirstInvariant, PTL
=============================================================================
