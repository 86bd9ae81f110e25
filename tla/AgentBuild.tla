----------------------------- MODULE AgentBuild -----------------------------
(***************************************************************************)
(* How BuildGraph comes to the graph of AgentGraph: each agent's tools are *)
(* authorized against its policy, registered under unique names and handed *)
(* to an agent on the router's default model.  Any of it may fail, and     *)
(* then there is no graph.                                                 *)
(***************************************************************************)
EXTENDS AgentGraph, Router

\* Policy.Authorize: every tool's scope is among the policy's.
Authorize(allowed, tools) == \A i \in DOMAIN tools : Tool[tools[i]].scope \in allowed

\* Registry.Register: no name twice.
Register(tools) == \A i, j \in DOMAIN tools : tools[i] = tools[j] => i = j

\* newScopedAgent: the set of agents it makes, none when a guard refuses.
NewScopedAgent(name, model, allowed, tools) ==
  IF Authorize(allowed, tools) /\ Register(tools)
  THEN {[name |-> name, model |-> model, tools |-> {tools[i] : i \in DOMAIN tools}]}
  ELSE {}

\* The tools BuildGraph passes for each agent.
ToolsPassed == [researcher |-> <<"web_search">>,
           dbagent    |-> <<"db_query", "db_write">>,
           writer     |-> <<>>]

\* BuildGraph: the agents of the graph, none unless all of them can be made.
BuildGraph(env) ==
  LET model  == Default(NewRouter(env))
      made   == UNION {NewScopedAgent(a, model, Granted(a), ToolsPassed[a]) : a \in Agents}
  IN  IF \A a \in Agents : \E agent \in made : agent.name = a THEN made ELSE {}

Assembles(env) == BuildGraph(env) # {}
=============================================================================
