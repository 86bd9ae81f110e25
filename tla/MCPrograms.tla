----------------------------- MODULE MCPrograms -----------------------------
(* Starts of Programs for model checking. *)
EXTENDS Programs

ShippedAgent(a) == [name |-> a, tools |-> Held(a), scopes |-> Granted(a)]

\* deploy/agent.yaml
Shipped ==
  [meets |-> Requirements,
   agents |-> <<ShippedAgent("researcher"), ShippedAgent("dbagent"), ShippedAgent("writer")>>,
   maxSteps |-> 12, loopThreshold |-> 5, maxHops |-> 3, passRate |-> Goldens, minPairs |-> 8]

WithAgents(agents) == [Shipped EXCEPT !.agents = agents]

\* One agent holds and is granted anything.
AnyTools  == SUBSET (ToolNames \cup {"clock"})
AnyScopes == SUBSET {ReadWeb, ReadDB, WriteDB, Scope("write", "egress"), Scope("admin", "*")}
Regranted ==
  {WithAgents([Shipped.agents EXCEPT ![2].tools = t, ![2].scopes = s]) :
     t \in AnyTools, s \in AnyScopes}

Reagented ==
  {WithAgents(<<>>), WithAgents(SubSeq(Shipped.agents, 1, 2)), WithAgents(Tail(Shipped.agents)),
   WithAgents(Append(Shipped.agents, ShippedAgent("dbagent"))),
   WithAgents([Shipped.agents EXCEPT ![3].name = ""]),
   WithAgents(Append(Shipped.agents, [name |-> "auditor", tools |-> {}, scopes |-> {}]))}

Rebudgeted ==
  {[Shipped EXCEPT !.maxSteps = n] : n \in {0, 2, 3}} \cup
  {[Shipped EXCEPT !.maxHops = n] : n \in {0, 1}} \cup
  {[Shipped EXCEPT !.loopThreshold = n] : n \in {0, 6}}

Graded ==
  {[Shipped EXCEPT !.passRate = p, !.minPairs = n] : p \in {0, 4, 8, 12, 13}, n \in {0, 7, 8}}

Unmet == {[Shipped EXCEPT !.meets = Requirements \ {r}] : r \in Requirements}

\* The code of the repository, and the regressions the harness is tested with:
\* classifiers that lose a route or a label, pairs that lost their hardening,
\* their attack or their registration.
DefaultPairs == [id \in PairIDs |-> [v \in Variants |-> Steps(id, v)]]
Real == [classify |-> [r \in Requests |-> Classify(r)], pairs |-> DefaultPairs]

Classifying(label(_)) == [Real EXCEPT !.classify = [r \in Requests |-> label(r)]]
Registering(pairs)    == [Real EXCEPT !.pairs = pairs]
Dropping(id)          == Registering([i \in PairIDs \ {id} |-> DefaultPairs[i]])

Codes ==
  {Real,
   Classifying(LAMBDA r : "write"),
   Classifying(LAMBDA r : IF Classify(r) = "data" THEN "write" ELSE Classify(r)),
   Classifying(LAMBDA r : IF Classify(r) = "write" THEN "chat" ELSE Classify(r))}
  \cup {Dropping(id) : id \in PairIDs}
  \cup {Registering([DefaultPairs EXCEPT ![id].hardened = DefaultPairs[id].vulnerable]) :
          id \in PairIDs}
  \cup {Registering([DefaultPairs EXCEPT ![id].vulnerable = DefaultPairs[id].hardened]) :
          id \in PairIDs}

Tree(config, code, loads, vulnBinary) ==
  [config |-> config, code |-> code, loads |-> loads, vulnBinary |-> vulnBinary]
Checkout == Tree(Shipped, Real, TRUE, FALSE)

Trees ==
  {Tree(config, Real, TRUE, FALSE) :
     config \in Regranted \cup Reagented \cup Rebudgeted \cup Unmet}
  \cup {Tree(config, code, TRUE, FALSE) : config \in Graded, code \in Codes}
  \cup {Tree(Shipped, Real, FALSE, FALSE), Tree(Shipped, Real, TRUE, TRUE)}

Environment(mode, key, reachable) ==
  [mode |-> mode, key |-> key, reachable |-> reachable, bind |-> "0.0.0.0", vuln |-> FALSE]
Environments ==
  {Environment(mode, key, reachable) : mode \in ModeTexts, key, reachable \in BOOLEAN}

Command(program, flags, pair) == [program |-> program, flags |-> flags, pair |-> pair]
LabCommands ==
  {Command("gopherguard-vuln", flags, pair) :
     flags \in SUBSET {"list", "understand", "detect"}, pair \in {"", "MEMORY", "ASI99"}}

Start(c, e, t) == [command |-> c, env |-> e, tree |-> t]

MCStarts ==
  {Start(Command("ggeval", {}, ""), Environment("gemini", TRUE, TRUE), t) : t \in Trees}
  \cup {Start(Command("deploy.sh", flags, ""), Environment("", FALSE, TRUE), t) :
          flags \in {{}, {"execute"}}, t \in Trees}
  \cup {Start(Command("gopherguard", {}, ""), e, Checkout) : e \in Environments}
  \cup {Start(c, e, Checkout) : c \in LabCommands, e \in Environments}
=============================================================================
