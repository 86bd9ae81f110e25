----------------------------- MODULE AgentGraph -----------------------------
(***************************************************************************)
(* The static wiring of internal/agents/graph.go: the concrete tools and   *)
(* their metadata, the three least-privilege agents, the coordinator's     *)
(* code-routed decision and the attributes a tool call stamps.             *)
(***************************************************************************)
EXTENDS Trust

\* The metadata tools.Scope pairs with a tool, and whether ADK must ask a
\* human before running it (functiontool's RequireConfirmation).
ToolMeta(scope, mutating, untrusted, confirm) ==
  [scope |-> scope, mutating |-> mutating, untrusted |-> untrusted,
   confirm |-> confirm]

NewWebSearch == ToolMeta(ReadWeb, FALSE, TRUE,  FALSE)
NewDBQuery   == ToolMeta(ReadDB,  FALSE, FALSE, FALSE)

\* Mutant: db_write is built without RequireConfirmation.
NewDBWriteUngated == ToolMeta(WriteDB, TRUE, FALSE, FALSE)

NewDBWrite   == ToolMeta(WriteDB, TRUE,  FALSE, TRUE)

Tool ==
  [web_search |-> NewWebSearch, db_query |-> NewDBQuery, db_write |-> NewDBWrite]

ToolNames == {"web_search", "db_query", "db_write"}

Agents == {"researcher", "dbagent", "writer"}

\* BuildGraph: the tools each agent is built with, and its policy's scopes.
Held(a) ==
  CASE a = "researcher" -> {"web_search"}
    [] a = "dbagent"    -> {"db_query", "db_write"}
    [] a = "writer"     -> {}

Granted(a) ==
  CASE a = "researcher" -> {ReadWeb}
    [] a = "dbagent"    -> {ReadDB, WriteDB}
    [] a = "writer"     -> {}

\* A request is the set of keyword lists it matches; the first matching case
\* of the switch wins.  A blank request matches none.
Requests == [keywords : SUBSET {"research", "data"}, blank : {FALSE}]
              \cup {[keywords |-> {}, blank |-> TRUE]}

Classify(request) ==
  CASE "research" \in request.keywords -> "research"
    [] request.keywords = {"data"}     -> "data"
    [] OTHER                           -> "write"

\* The edges AddRoutes keys by route label.
Successor(route) ==
  CASE route = "research" -> "researcher"
    [] route = "data"     -> "dbagent"
    [] route = "write"    -> "writer"

IsEgress(scope) == scope = ReadWeb

TrustAttrs(meta) ==
  [k \in {KeyPrivilegeScope, KeyUntrusted, KeyEgress, KeyHITLRequired} |->
     CASE k = KeyPrivilegeScope -> meta.scope
       [] k = KeyUntrusted      -> meta.untrusted
       [] k = KeyEgress         -> IsEgress(meta.scope)
       [] k = KeyHITLRequired   -> meta.mutating]

\* What BeforeToolCallback does to the span of a tool call by agent a: a tool
\* the agent was not built with leaves it untouched.
TrustCallback(a, tool, span) ==
  IF tool \in Held(a) THEN SetAttributes(span, TrustAttrs(Tool[tool])) ELSE span
============================================================================
