----------------------------- MODULE MCRuleScan -----------------------------
EXTENDS RuleScan

Tool(attrs) == MkSpan("tool", attrs)

\* One span per attribute a rule reads, or a few that go together;
\* the scope beside the untrusted result is one the code does not rank.
MCSpans ==
  {MkSpan("session", NoAttrs),
   Tool([k \in {KeyUntrusted, KeyPrivilegeScope} |->
           IF k = KeyUntrusted THEN TRUE ELSE Scope("network-egress", "")]),
   Tool([k \in {KeyUntrusted, KeyEgress} |-> k = KeyEgress]),
   Tool([k \in {KeyPrivilegeScope} |-> ReadWeb]),
   Tool([k \in {KeyPrivilegeScope, KeyHITLRequired, KeyMemProvenance} |->
           CASE k = KeyPrivilegeScope -> WriteDB
             [] k = KeyHITLRequired   -> TRUE
             [] OTHER                 -> Origin("user", "")]),
   Tool([k \in {KeyPrivilegeScope, KeyHITLRequired, KeyHITLResult} |->
           CASE k = KeyPrivilegeScope -> Scope("admin", "*")
             [] k = KeyHITLRequired   -> TRUE
             [] OTHER                 -> HITLApproved]),
   Tool([k \in {KeyMemProvenance} |-> Origin("tool", "web_search")])}
=============================================================================
