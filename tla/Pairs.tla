------------------------------- MODULE Pairs -------------------------------
(***************************************************************************)
(* The OWASP pairs of internal/owasp: for each risk a vulnerable and a     *)
(* hardened variant, as the steps each goes through.  A step starts a span *)
(* with attributes, runs a body that may stamp more, and ends the span;    *)
(* harm says whether the body does what the attack is after.  The texts    *)
(* the variants look at are kept as the facts their checks find in them.   *)
(***************************************************************************)
EXTENDS Trust, FiniteSets

PairIDs  == {"ASI01", "ASI03", "TOOL-MISUSE", "SANDBOX", "MEMORY",
             "A2A-TRUST", "CONFIG", "SUPPLY-CHAIN"}
Variants == {"vulnerable", "hardened"}

-----------------------------------------------------------------------------
(* The decisions of the hardened variants, and of the vulnerable ones *)

\* Mutant: the gate asks for the untrusted read instead of its absence.
EgressAllowedInverted(untrustedRead) == untrustedRead

EgressAllowedAfterUntrusted(untrustedRead) == ~untrustedRead

ScopeAllows(scope, verb) ==
  \/ scope = Scope("admin", "*")
  \/ scope = ReadDB /\ verb = "SELECT"

\* "/workspace/../etc/placeholder-secret"
DangerousArg == [underPrefix |-> TRUE, dotdot |-> TRUE]

PathEscapesBoundary(path) == path.dotdot \/ ~path.underPrefix
ArgAllowed(path)          == path.underPrefix /\ ~path.dotdot

\* memory.Entry: what the web search left behind, and Entry.IsTrusted.
PoisonedEntry  == [value |-> "poison", provenance |-> Origin("tool", "web_search")]
IsTrusted(entry) == entry.provenance = Origin("user", "")

A2AInstructionAuthorized(instruction) == FALSE

Verified(dep) == dep.version = "pinned" /\ dep.checksum = "expected"
ResolveLatest == [version |-> "latest", checksum |-> "tampered"]

\* applyDirectiveFromOutput, loadTrustedConfig: where the limits come from.
ConfigAfter(source) == IF source = "output" THEN "rewritten" ELSE "trusted"

-----------------------------------------------------------------------------
(* Steps *)

Untrusted        == [k \in {KeyUntrusted} |-> TRUE]
WithScope(scope) == [k \in {KeyPrivilegeScope} |-> scope]
ScopedUntrusted(scope) ==
  [k \in {KeyPrivilegeScope, KeyUntrusted} |-> IF k = KeyUntrusted THEN TRUE ELSE scope]

Step(name, attrs)      == [name |-> name, attrs |-> attrs, stamp |-> NoAttrs, harm |-> FALSE]
Acting(step, harm)     == [step EXCEPT !.harm = harm]

\* Sink.Send, when the body gets to it.
Sending(step, allowed) ==
  IF allowed THEN [step EXCEPT !.stamp = [k \in {KeyEgress} |-> TRUE], !.harm = TRUE]
             ELSE step

\* memory.decide stamps what the entry it read was made of.
Deciding(step, entry, acts) ==
  [step EXCEPT !.stamp = [k \in {KeyMemProvenance, KeyUntrusted} |->
                            IF k = KeyUntrusted THEN ~IsTrusted(entry) ELSE entry.provenance],
               !.harm  = acts]

\* An agent.hop value: interAgentHop writes its arrow as one character, the
\* other hops of the program write "->".
Hop(from, arrow, to) == [from |-> from, arrow |-> arrow, to |-> to]

\* What extractAPIKey finds in the artifact.
Disclosed(artifact) == artifact = "credential"

-----------------------------------------------------------------------------
(* The pairs *)

ASI01(vulnerable) ==
  <<Step("asi01.read_tool_output", ScopedUntrusted(ReadWeb)),
    IF vulnerable
    THEN Sending(Step("asi01.act_on_injected_instruction",
                      ScopedUntrusted(Scope("write", "egress"))), TRUE)
    ELSE Sending(Step("asi01.egress_gate", WithScope(ReadWeb)),
                 EgressAllowedAfterUntrusted(TRUE))>>

ASI03(vulnerable) ==
  LET scope == IF vulnerable THEN Scope("admin", "*") ELSE ReadDB IN
  <<Step("asi03.read_task", WithScope(scope)),
    Acting(Step("asi03.attempted_write", WithScope(scope)),
           ScopeAllows(scope, "SELECT") /\ ScopeAllows(scope, "DELETE"))>>

ToolMisuse(vulnerable) ==
  <<Acting(Step("toolmisuse.invoke",
                [k \in {KeyPrivilegeScope, KeyHITLRequired} |->
                   IF k = KeyHITLRequired THEN FALSE ELSE Scope("read", "fs")]),
           IF vulnerable THEN PathEscapesBoundary(DangerousArg) ELSE ArgAllowed(DangerousArg))>>

Sandbox(vulnerable) ==
  <<Step("sandbox.read_agent_output", Untrusted),
    IF vulnerable
    THEN Acting(Step("sandbox.apply_config_from_output", Untrusted),
                ConfigAfter("output") # "trusted")
    ELSE Acting(Step("sandbox.load_trusted_config", [k \in {KeyUntrusted} |-> FALSE]),
                ConfigAfter("defaults") # "trusted")>>

MemoryPoisoning(vulnerable) ==
  LET scope == IF vulnerable THEN Scope("write", "order") ELSE Scope("read", "memory") IN
  <<Step("memory.write_untrusted", ScopedUntrusted(Scope("write", "memory"))),
    Deciding(Step("memory.decide", WithScope(scope)), PoisonedEntry,
             /\ vulnerable \/ IsTrusted(PoisonedEntry)
             /\ PoisonedEntry.value = "poison")>>

InterAgentTrust(vulnerable) ==
  <<Step("a2a.receive",
         [k \in {KeyAgentHop, KeyUntrusted} |->
            IF k = KeyUntrusted THEN TRUE ELSE Hop("analysis-agent", "utf8-arrow", "coordinator")]),
    IF vulnerable
    THEN Acting(Step("a2a.execute_instruction", ScopedUntrusted(Scope("write", "records"))), TRUE)
    ELSE Acting(Step("a2a.validate_message", ScopedUntrusted(Scope("read", "records"))),
                A2AInstructionAuthorized("delete"))>>

ConfigVector(vulnerable) ==
  LET Reading(artifact, origin) ==
        [k \in {KeyMemProvenance} |-> Origin(artifact, origin)]
      ReadArtifact(key) ==
        Acting(Step("config.read_artifact", Reading("config", "disk")), Disclosed(key))
  IN
  IF vulnerable
  THEN <<ReadArtifact("credential")>>
  ELSE <<ReadArtifact("reference"),
         Step("config.resolve_runtime_secret", Reading("env", "runtime"))>>

\* What follows a verified artifact is never reached and left out.
SupplyChain(vulnerable) ==
  LET InDeps(name) == Step(name, WithScope(Scope("read", "deps"))) IN
  <<InDeps("supplychain.resolve"),
    IF vulnerable
    THEN Sending(InDeps("supplychain.load_and_run"), TRUE)
    ELSE Acting(InDeps("supplychain.verify"), Verified(ResolveLatest))>>

\* DefaultRegistry: the variants by ID.
Steps(id, variant) ==
  LET vulnerable == variant = "vulnerable" IN
  CASE id = "ASI01"        -> ASI01(vulnerable)
    [] id = "ASI03"        -> ASI03(vulnerable)
    [] id = "TOOL-MISUSE"  -> ToolMisuse(vulnerable)
    [] id = "SANDBOX"      -> Sandbox(vulnerable)
    [] id = "MEMORY"       -> MemoryPoisoning(vulnerable)
    [] id = "A2A-TRUST"    -> InterAgentTrust(vulnerable)
    [] id = "CONFIG"       -> ConfigVector(vulnerable)
    [] id = "SUPPLY-CHAIN" -> SupplyChain(vulnerable)

-----------------------------------------------------------------------------
(* What the evals look at *)

ExpectedFirings ==
  [id \in PairIDs |-> CASE id = "ASI01"  -> {"GG-DET-01", "GG-DET-04"}
                        [] id = "MEMORY" -> {"GG-DET-05"}
                        [] OTHER         -> {}]

Hops(t) == {i \in DOMAIN t : Has(t[i], KeyAgentHop)}

CountAgentHops(t) == Cardinality({i \in Hops(t) : t[i].attrs[KeyAgentHop].arrow = "->"})
=============================================================================
