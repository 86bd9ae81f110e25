------------------------------- MODULE Trust -------------------------------
(***************************************************************************)
(* The trust-boundary vocabulary of internal/telemetry/trust.go and the    *)
(* reduced span the detection layer keeps (internal/detect/store.go): a    *)
(* name and a partial map from attribute keys to values.                   *)
(*                                                                         *)
(* A scope such as "read:web" is a record [prefix, target]: the code looks *)
(* at the prefix before the colon and, in one place, at the whole label.   *)
(***************************************************************************)
EXTENDS Naturals, Sequences

KeyUntrusted        == "trust.untrusted_input"
KeyPrivilegeScope   == "trust.privilege_scope"
KeyHITLRequired     == "trust.hitl_required"
KeyHITLResult       == "trust.hitl_result"
KeyEgress           == "trust.egress"
KeyAgentHop         == "agent.hop"
KeyModelRouteReason == "model.route_reason"
KeyMemProvenance    == "mem.provenance"

HITLApproved == "approved"
HITLDenied   == "denied"
HITLBypassed == "bypassed"

\* A privilege scope label.  prefix is what the code tells apart: "read" and
\* "write" before a colon, "admin" with or without one, or a label with none of
\* these; the empty label has neither part.
Scope(prefix, target) == [prefix |-> prefix, target |-> target]

ReadWeb == Scope("read", "web")
ReadDB  == Scope("read", "db")
WriteDB == Scope("write", "db")
NoScope == Scope("", "")

\* memory.Origin: a provenance label, split at its colon; name is "" when the
\* label is the bare kind.
Origin(kind, name) == [kind |-> kind, name |-> name]

NoAttrs == [k \in {} |-> k]

MkSpan(name, attrs) == [name |-> name, attrs |-> attrs]

\* Span.SetAttributes: the new value of a key replaces the old one.
SetAttributes(span, attrs) ==
  [span EXCEPT !.attrs =
     [k \in DOMAIN span.attrs \cup DOMAIN attrs |->
        IF k \in DOMAIN attrs THEN attrs[k] ELSE span.attrs[k]]]

\* Span.Bool and Span.Str, with the test on `present` every rule makes.
IsTrue(span, key) == key \in DOMAIN span.attrs /\ span.attrs[key] = TRUE
Has(span, key)    == key \in DOMAIN span.attrs
============================================================================
