--------------------------- MODULE MCPairCapture ---------------------------
(* Values of PairCapture's constants for model checking. *)
EXTENDS PairCapture

\* The attributes the order-sensitive rules read, split the way the code sets
\* them: the ones known when a step starts, and the ones its body stamps.  Besides
\* the scopes of tools there is one without a rank (the span of trust_test.go) and
\* an empty one: Scope and AttrPrivilegeScope take any label.
MCStartAttrs ==
  {NoAttrs,
   [k \in {KeyUntrusted, KeyPrivilegeScope} |->
      IF k = KeyUntrusted THEN TRUE ELSE Scope("network-egress", "")],
   [k \in {KeyPrivilegeScope} |-> ReadWeb],
   [k \in {KeyPrivilegeScope} |-> WriteDB],
   [k \in {KeyPrivilegeScope} |-> NoScope]}

MCStampAttrs ==
  {[k \in {KeyEgress} |-> TRUE],
   [k \in {KeyMemProvenance} |-> Origin("tool", "web_search")]}
=============================================================================
