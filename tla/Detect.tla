------------------------------- MODULE Detect -------------------------------
(***************************************************************************)
(* The five seed rules of internal/detect/rules.go as predicates on a      *)
(* trace, a sequence of spans oldest first.  A rule of the code is a loop  *)
(* with an early return; here it is the condition under which that return  *)
(* is reached.  The evidence text is left out.                             *)
(***************************************************************************)
EXTENDS Trust, FiniteSets

LoopThreshold == 5

\* Trace.firstUntrustedIndex, as the set holding that index (or empty).
FirstUntrusted(t) ==
  {u \in DOMAIN t : /\ IsTrue(t[u], KeyUntrusted)
                    /\ \A i \in 1 .. u - 1 : ~IsTrue(t[i], KeyUntrusted)}

\* GG-DET-01.  The search for egress starts AT the untrusted span.
InjectionExfil(t) ==
  \E u \in FirstUntrusted(t) : \E j \in u .. Len(t) : IsTrue(t[j], KeyEgress)

\* GG-DET-02.  A missing result reads as "", which is not approved.
HITLBypass(t) ==
  \E i \in DOMAIN t :
    /\ IsTrue(t[i], KeyHITLRequired)
    /\ ~(Has(t[i], KeyHITLResult) /\ t[i].attrs[KeyHITLResult] = HITLApproved)

\* GG-DET-03.  Spans are counted by name alone.
Named(t, name) == {i \in DOMAIN t : t[i].name = name}

LoopRunaway(t) ==
  \E i \in DOMAIN t : Cardinality(Named(t, t[i].name)) > LoopThreshold

ScopeRank(scope) ==
  CASE scope.prefix = "admin" -> 3
    [] scope.prefix = "write" -> 2
    [] OTHER                  -> 1

Scoped(t)  == {i \in DOMAIN t : Has(t[i], KeyPrivilegeScope)}
Rank(t, i) == ScopeRank(t[i].attrs[KeyPrivilegeScope])

\* GG-DET-04.  A scoped span fires when an earlier one exists and its rank
\* exceeds the running maximum of all of them.
PrivilegeWidening(t) ==
  \E j \in Scoped(t) :
    LET before == {i \in Scoped(t) : i < j} IN
    /\ before # {}
    /\ \A i \in before : Rank(t, i) < Rank(t, j)

\* Any label that is neither empty nor starts with "user".
IsUntrustedProvenance(prov) == prov.kind # "" /\ prov.kind # "user"

Tainting(span) ==
  Has(span, KeyMemProvenance) /\ IsUntrustedProvenance(span.attrs[KeyMemProvenance])

\* GG-DET-05.  The tainting span may itself be the mutating one.
MemoryTaint(t) ==
  \E i, j \in DOMAIN t :
    /\ i <= j
    /\ Tainting(t[i])
    /\ Has(t[j], KeyPrivilegeScope)
    /\ t[j].attrs[KeyPrivilegeScope].prefix = "write"

RuleIDs == {"GG-DET-01", "GG-DET-02", "GG-DET-03", "GG-DET-04", "GG-DET-05"}

\* EvaluateAll: the IDs of the rules that fire.
EvaluateAll(t) ==
  {r \in RuleIDs :
     \/ r = "GG-DET-01" /\ InjectionExfil(t)
     \/ r = "GG-DET-02" /\ HITLBypass(t)
     \/ r = "GG-DET-03" /\ LoopRunaway(t)
     \/ r = "GG-DET-04" /\ PrivilegeWidening(t)
     \/ r = "GG-DET-05" /\ MemoryTaint(t)}
============================================================================
