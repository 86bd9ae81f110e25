------------------------------ MODULE RuleScan ------------------------------
(***************************************************************************)
(* The five rules of internal/detect/rules.go as the code runs them: one   *)
(* pass over the spans of a trace, oldest first, with the local variables  *)
(* of each loop.  Module Detect says which traces a rule is about; here is *)
(* how it finds out.  The five loops are run side by side: Visit is one    *)
(* iteration of each, and a rule that has fired (and returned) stays in    *)
(* fired.                                                                  *)
(***************************************************************************)
EXTENDS Detect, Integers, FiniteSets

CONSTANTS
  Spans,      \* the spans a session may produce: [name, attrs] records of Trust
  MaxSpans    \* bound on the length of a trace

ASSUME BoundAssumption == MaxSpans \in Nat

VARIABLES
  trace,      \* the spans visited so far
  untrusted,  \* detectInjectionExfil: firstUntrustedIndex has an answer
  counts,     \* detectLoopRunaway: counts
  maxRank,    \* detectPrivilegeWidening: maxRank
  tainted,    \* detectMemoryTaint: tainted
  fired       \* the IDs of the rules that have fired

vars == <<trace, untrusted, counts, maxRank, tainted, fired>>

Names == {s.name : s \in Spans}

Init ==
  /\ trace = <<>>
  /\ untrusted = FALSE
  /\ counts = [n \in Names |-> 0]
  /\ maxRank = -1
  /\ tainted = FALSE
  /\ fired = {}

-----------------------------------------------------------------------------
(* One iteration of each loop, after its locals have been updated *)

\* GG-DET-01: from the first untrusted span on, that span included.
EgressAfterUntrusted(s) == untrusted' /\ IsTrue(s, KeyEgress)

\* GG-DET-02.
NotApproved(s) ==
  /\ IsTrue(s, KeyHITLRequired)
  /\ ~(Has(s, KeyHITLResult) /\ s.attrs[KeyHITLResult] = HITLApproved)

\* GG-DET-03.
OverBudget(s) == counts'[s.name] > LoopThreshold

\* Mutant: the first scope seen counts as a widening.
WidensFromNothing(s) ==
  /\ Has(s, KeyPrivilegeScope)
  /\ ScopeRank(s.attrs[KeyPrivilegeScope]) > maxRank

\* GG-DET-04: against the highest rank of the spans before s.
Widens(s) ==
  /\ Has(s, KeyPrivilegeScope)
  /\ maxRank >= 0
  /\ ScopeRank(s.attrs[KeyPrivilegeScope]) > maxRank

\* GG-DET-05.
MutatesTainted(s) ==
  /\ tainted'
  /\ Has(s, KeyPrivilegeScope)
  /\ s.attrs[KeyPrivilegeScope].prefix = "write"

\* Mutant: `maxRank += r` for `maxRank = r`.
RaisedMaximumAdded(s) ==
  IF /\ Has(s, KeyPrivilegeScope)
     /\ ScopeRank(s.attrs[KeyPrivilegeScope]) > maxRank
  THEN maxRank + ScopeRank(s.attrs[KeyPrivilegeScope]) ELSE maxRank

\* Mutant: each scope is compared with the one before it.
LatestRank(s) ==
  IF Has(s, KeyPrivilegeScope) THEN ScopeRank(s.attrs[KeyPrivilegeScope]) ELSE maxRank

RaisedMaximum(s) ==
  IF /\ Has(s, KeyPrivilegeScope)
     /\ ScopeRank(s.attrs[KeyPrivilegeScope]) > maxRank
  THEN ScopeRank(s.attrs[KeyPrivilegeScope]) ELSE maxRank

RulesFiringAt(s) ==
  {r \in RuleIDs :
     \/ r = "GG-DET-01" /\ EgressAfterUntrusted(s)
     \/ r = "GG-DET-02" /\ NotApproved(s)
     \/ r = "GG-DET-03" /\ OverBudget(s)
     \/ r = "GG-DET-04" /\ Widens(s)
     \/ r = "GG-DET-05" /\ MutatesTainted(s)}

Visit(s) ==
  /\ Len(trace) < MaxSpans
  /\ trace' = Append(trace, s)
  /\ untrusted' = (untrusted \/ IsTrue(s, KeyUntrusted))
  /\ counts' = [counts EXCEPT ![s.name] = @ + 1]
  /\ maxRank' = RaisedMaximum(s)
  /\ tainted' = (tainted \/ Tainting(s))
  /\ fired' = fired \cup RulesFiringAt(s)

Next == \E s \in Spans : Visit(s)

Spec == Init /\ [][Next]_vars

-----------------------------------------------------------------------------
(* Properties *)

\* The locals of the five loops keep their types.
TypeOK ==
  /\ trace \in Seq(Spans) /\ Len(trace) <= MaxSpans
  /\ untrusted \in BOOLEAN /\ tainted \in BOOLEAN
  /\ counts \in [Names -> Nat]
  /\ maxRank \in -1 .. 3
  /\ fired \subseteq RuleIDs

\* The single passes decide exactly what the rules are about: after any prefix
\* of a trace, a rule has fired iff the prefix shows its pattern.
ScanDecides == fired = EvaluateAll(trace)

FirstScoped(t) == {i \in Scoped(t) : \A k \in Scoped(t) : i <= k}

\* How far GG-DET-04 sees (rules.go:146-166): for all its running maximum, it fires
\* exactly when some scope is broader than the FIRST one of the session.  A session
\* that begins with the broadest scope it will use never raises it, whatever it
\* drops to and climbs back from.
WideningIsFromTheFirst ==
  "GG-DET-04" \in fired <=>
    \E i \in FirstScoped(trace), j \in Scoped(trace) : Rank(trace, i) < Rank(trace, j)

\* What the comment of detectPrivilegeWidening (rules.go:144) and the table of
\* detections/README.md say of GG-DET-04: it fires when a later span runs under
\* a strictly broader scope than an earlier one.
WideningAsDocumented ==
  (\E i, j \in Scoped(trace) : i < j /\ Rank(trace, i) < Rank(trace, j))
    => "GG-DET-04" \in fired
=============================================================================
