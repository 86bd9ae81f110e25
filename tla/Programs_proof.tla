--------------------------- MODULE Programs_proof ---------------------------
(***************************************************************************)
(* Proofs about Programs, for every environment, configuration, classifier *)
(* and registry of pairs a program may be started with.                    *)
(***************************************************************************)
EXTENDS Programs, FiniteSetTheorems, TLAPS

-----------------------------------------------------------------------------
(* The invariant *)

TypeInv == ProgramsTypeOK /\ env \in Envs /\ tree.config.minPairs \in Int

\* Past its first step ggeval has forced the local mode.
Forced == at \in {"load", "suites"} => env.mode = "gemma"

\* Past its checks the lab raises its fence, and keeps what stands of it.
Fenced ==
  /\ at \in {"bind", "mark", "unkey", "fenced"} =>
       "understand" \in command.flags /\ env.mode = "gemma"
  /\ at \in {"mark", "unkey", "fenced"} => env.bind = "127.0.0.1"
  /\ at \in {"unkey", "fenced"} => env.vuln
  /\ at = "fenced" => ~env.key

Deploying == {"compile", "push", "tag", "probe", "shift"}

\* A program that succeeded or went on past the gate has seen it pass.
Vetted ==
  /\ Runs("ggeval") /\ exit = "ok" => Run(tree.config, tree.code, env) = {}
  /\ canary # "none" => Runs("deploy.sh")
  /\ at \in Deploying => Runs("deploy.sh")
  /\ canary # "none" \/ at \in Deploying =>
       tree.loads /\ Run(tree.config, tree.code, ForceLocal(env)) = {}
  /\ canary # "none" \/ at \in Deploying \ {"compile"} => ~tree.vulnBinary

PInv == TypeInv /\ Forced /\ Fenced /\ VulnerableRunsAreLocal /\ Vetted

-----------------------------------------------------------------------------
(* The environments of the launchers *)

\* parseMode(gemma): nothing escalates without the mode gemini.
LEMMA GemmaStaysLocal ==
  ASSUME NEW e, e.mode = "gemma"
  PROVE  StaysLocal(e)
<1>1. ParseMode(e.mode) # ModeGemini
  BY DEF ParseMode, ModeGemma, ModeGemini
<1>2. NewRouter(e).mode = ModeGemma
  BY <1>1 DEF NewRouter
<1>3. QED
  BY <1>2 DEF StaysLocal, Route

\* Route, with or without a wired client.
LEMMA PrivateIsLocal ==
  ASSUME NEW e, NEW hint \in TaskHints, hint.private
  PROVE  Route(NewRouter(e), hint).model = ModeGemma
  BY DEF Route

LEMMA ForceLocalMode ==
  ASSUME NEW e \in Envs
  PROVE  ForceLocal(e) \in Envs /\ ForceLocal(e).mode = "gemma"
  BY DEF ForceLocal, Envs, ModeTexts

LEMMA FenceFields ==
  ASSUME NEW e \in Envs
  PROVE  /\ [e EXCEPT !.mode = "gemma"] \in Envs
         /\ [e EXCEPT !.bind = "127.0.0.1"] \in Envs
         /\ [e EXCEPT !.vuln = TRUE] \in Envs
         /\ [e EXCEPT !.key = FALSE] \in Envs
  BY DEF Envs, ModeTexts

\* evals.Run returns names of suites.
LEMMA RunReports ==
  ASSUME NEW cfg, NEW code, NEW e
  PROVE  Run(cfg, code, e) \subseteq Suites
<1>1. CASE Validate(cfg)
  BY <1>1 DEF Run, Suites
<1>2. CASE ~Validate(cfg)
  BY <1>2 DEF Run, Suites
<1>3. QED
  BY <1>1, <1>2

\* A report without failures is a configuration that validates and three
\* suites that pass.
LEMMA PassingRun ==
  ASSUME NEW cfg, NEW code, NEW e, Run(cfg, code, e) = {}
  PROVE  /\ Validate(cfg)
         /\ TaskSuccess(cfg, code, e)
         /\ Trajectory(cfg, code)
         /\ InjectionResistance(cfg, code)
<1>1. Validate(cfg)
  BY DEF Run
<1>2. \A suite \in {"task-success", "trajectory", "injection-resistance"} :
        ~ \/ suite = "task-success"         /\ ~TaskSuccess(cfg, code, e)
          \/ suite = "trajectory"           /\ ~Trajectory(cfg, code)
          \/ suite = "injection-resistance" /\ ~InjectionResistance(cfg, code)
  BY <1>1 DEF Run
<1>3. QED
  BY <1>1, <1>2

\* NoReport is not an empty report.
LEMMA NoReportFails ==
  NoReport # {}
  BY DEF NoReport

-----------------------------------------------------------------------------
(* The invariant is inductive *)

LEMMA InitInv ==
  Init => PInv
<1>1. SUFFICES ASSUME Init PROVE PInv
  OBVIOUS
<1>2. TypeInv
  BY <1>1, StartsAssumption DEF Init, TypeInv, ProgramsTypeOK
<1>3. VulnerableRunsAreLocal
  BY <1>1 DEF Init, VulnerableRunsAreLocal
<1>4. Forced /\ Fenced /\ Vetted
  BY <1>1 DEF Init, Forced, Fenced, Vetted, Deploying
<1>5. QED
  BY <1>2, <1>3, <1>4 DEF PInv

\* The type part, action by action.
LEMMA TypeStep ==
  ASSUME PInv, Next
  PROVE  TypeInv'
<1> USE DEF PInv, TypeInv, ProgramsTypeOK
<1>1. CASE EvalStart
  BY <1>1, ForceLocalMode DEF EvalStart, GoOn
<1>2. CASE EvalLoad
  BY <1>2 DEF EvalLoad, GoOn, Exit
<1>3. CASE EvalRun
  <2>1. failing' \subseteq Suites
    BY <1>3, RunReports DEF EvalRun
  <2>2. QED
    BY <1>3, <2>1 DEF EvalRun, Exit
<1>4. CASE LabDeclines
  BY <1>4 DEF LabDeclines, Exit
<1>5. CASE LabForcesGemma \/ LabBinds \/ LabMarks \/ LabDropsKey
  BY <1>5, FenceFields DEF LabForcesGemma, LabBinds, LabMarks, LabDropsKey, MustSet, GoOn, Exit
<1>6. CASE LabRuns
  BY <1>6 DEF LabRuns, Exit
<1>7. CASE LaunchSetup
  BY <1>7 DEF LaunchSetup, GoOn, Exit
<1>8. CASE LaunchBuild
  BY <1>8 DEF LaunchBuild, GoOn, Exit
<1>9. CASE LaunchEnds
  BY <1>9 DEF LaunchEnds, Exit
<1>10. CASE DeployPlans
  BY <1>10 DEF DeployPlans, Exit
<1>11. CASE DeployGate
  <2>1. failing' = NoReport \/ failing' \subseteq Suites
    BY <1>11, RunReports DEF DeployGate
  <2>2. QED
    BY <1>11, <2>1 DEF DeployGate, GoOn, Exit
<1>12. CASE DeployBuild
  BY <1>12 DEF DeployBuild, GoOn, Exit
<1>13. CASE DeployPush
  BY <1>13 DEF DeployPush, GoOn
<1>14. CASE DeployCanary
  BY <1>14 DEF DeployCanary, GoOn
<1>15. CASE DeploySmoke
  BY <1>15 DEF DeploySmoke, GoOn
<1>16. CASE DeployShift
  BY <1>16 DEF DeployShift, Exit
<1>17. CASE DeployFails
  BY <1>17 DEF DeployFails, Exit
<1>18. QED
  BY <1>1, <1>2, <1>3, <1>4, <1>5, <1>6, <1>7, <1>8, <1>9, <1>10, <1>11, <1>12,
     <1>13, <1>14, <1>15, <1>16, <1>17 DEF Next

LEMMA FenceStep ==
  ASSUME PInv, Next
  PROVE  Forced' /\ Fenced'
<1> USE DEF PInv, TypeInv, Forced, Fenced
<1>1. CASE EvalStart
  BY <1>1, ForceLocalMode DEF EvalStart, GoOn
<1>2. CASE LabForcesGemma \/ LabBinds \/ LabMarks \/ LabDropsKey
  BY <1>2 DEF LabForcesGemma, LabBinds, LabMarks, LabDropsKey, MustSet, GoOn, Exit, Envs
<1>3. CASE UNCHANGED <<env, command>> /\ at' \notin {"bind", "mark", "unkey", "fenced", "load"}
           /\ (at' = "suites" => at = "load")
  BY <1>3
<1>4. CASE EvalLoad \/ EvalRun \/ LabDeclines \/ LabRuns
  BY <1>4, <1>3 DEF EvalLoad, EvalRun, LabDeclines, LabRuns, GoOn, Exit
<1>5. CASE LaunchSetup \/ LaunchBuild \/ LaunchEnds
  BY <1>5, <1>3 DEF LaunchSetup, LaunchBuild, LaunchEnds, GoOn, Exit
<1>6. CASE DeployPlans \/ DeployGate \/ DeployBuild \/ DeployPush \/ DeployCanary
  BY <1>6, <1>3 DEF DeployPlans, DeployGate, DeployBuild, DeployPush, DeployCanary, GoOn, Exit
<1>7. CASE DeploySmoke \/ DeployShift \/ DeployFails
  BY <1>7, <1>3 DEF DeploySmoke, DeployShift, DeployFails, GoOn, Exit
<1>8. QED
  BY <1>1, <1>2, <1>4, <1>5, <1>6, <1>7 DEF Next

\* Three actions run vulnerable variants; none of them is without its guard.
LEMMA RanStep ==
  ASSUME PInv, Next
  PROVE  VulnerableRunsAreLocal'
<1> DEFINE Behind(r) == /\ StaysLocal(r.env)
                        /\ Lab => /\ "understand" \in command.flags
                                  /\ r.env.bind = "127.0.0.1" /\ r.env.vuln /\ ~r.env.key
<1>1. command' = command
  BY DEF Next, EvalStart, EvalLoad, EvalRun, LabDeclines, LabForcesGemma, LabBinds, LabMarks,
         LabDropsKey, LabRuns, LaunchSetup, LaunchBuild, LaunchEnds, DeployPlans, DeployGate, DeployBuild, DeployPush,
         DeployCanary, DeploySmoke, DeployShift, DeployFails
<1>2. \A r \in ran : Behind(r)
  BY DEF PInv, VulnerableRunsAreLocal
<1>3. SUFFICES \A r \in ran' : Behind(r)
  BY <1>1 DEF VulnerableRunsAreLocal, Lab, Runs
<1>4. ASSUME NEW e, e.mode = "gemma", Runs("ggeval") \/ Executes,
             NEW r \in Exercised(e)
      PROVE  Behind(r)
  <2>1. r.env = e
    BY <1>4 DEF Exercised
  <2>2. ~Lab
    BY <1>4 DEF Lab, Runs, Executes
  <2>3. QED
    BY <2>1, <2>2, <1>4, GemmaStaysLocal
<1>5. CASE EvalRun
  BY <1>5, <1>2, <1>4 DEF EvalRun, PInv, Forced
<1>6. CASE DeployGate
  <2>1. ForceLocal(env).mode = "gemma"
    BY ForceLocalMode DEF PInv, TypeInv
  <2>2. ran' \subseteq ran \cup Exercised(ForceLocal(env))
    BY <1>6 DEF DeployGate
  <2>3. QED
    BY <1>6, <2>1, <2>2, <1>2, <1>4 DEF DeployGate
<1>7. CASE LabRuns
  <2>1. /\ "understand" \in command.flags
        /\ env.mode = "gemma" /\ env.bind = "127.0.0.1" /\ env.vuln /\ ~env.key
    BY <1>7 DEF LabRuns, PInv, Fenced
  <2>2. StaysLocal(env)
    BY <2>1, GemmaStaysLocal
  <2>3. ran' = ran \cup {[pair |-> id, env |-> env] : id \in Selected}
    BY <1>7 DEF LabRuns
  <2>4. \A r \in ran' : r \in ran \/ r.env = env
    BY <2>3
  <2>5. QED
    BY <2>1, <2>2, <2>4, <1>2
<1>8. CASE ran' = ran
  BY <1>8, <1>2
<1>9. QED
  BY <1>5, <1>6, <1>7, <1>8 DEF Next, EvalStart, EvalLoad, LabDeclines, LabForcesGemma, LabBinds, LabMarks,
     LabDropsKey, LaunchSetup, LaunchBuild, LaunchEnds, DeployPlans, DeployBuild, DeployPush,
     DeployCanary, DeploySmoke, DeployShift, DeployFails

LEMMA VettedStep ==
  ASSUME PInv, Next
  PROVE  Vetted'
<1> USE DEF PInv, TypeInv, ProgramsTypeOK, Vetted, Deploying, Runs
<1>1. CASE EvalStart
  BY <1>1 DEF EvalStart, GoOn
<1>2. CASE EvalLoad
  BY <1>2 DEF EvalLoad, GoOn, Exit
<1>3. CASE EvalRun
  BY <1>3 DEF EvalRun, Exit
<1>4. CASE LabDeclines
  BY <1>4 DEF LabDeclines, Exit, Lab
<1>5. CASE LabForcesGemma \/ LabBinds \/ LabMarks \/ LabDropsKey
  BY <1>5 DEF LabForcesGemma, LabBinds, LabMarks, LabDropsKey, MustSet, GoOn, Exit, Lab
<1>6. CASE LabRuns
  BY <1>6 DEF LabRuns, Exit, Lab
<1>7. CASE LaunchSetup \/ LaunchBuild \/ LaunchEnds
  BY <1>7 DEF LaunchSetup, LaunchBuild, LaunchEnds, Launcher, GoOn, Exit
<1>8. CASE DeployPlans
  BY <1>8 DEF DeployPlans, Exit
<1>9. CASE DeployGate
  <2>1. ASSUME failing' = {}
        PROVE  tree.loads /\ Run(tree.config, tree.code, ForceLocal(env)) = {}
    BY <1>9, <2>1, NoReportFails DEF DeployGate
  <2>2. QED
    BY <1>9, <2>1 DEF DeployGate, Executes, GoOn, Exit
<1>10. CASE DeployBuild
  BY <1>10 DEF DeployBuild, Executes, GoOn, Exit
<1>11. CASE DeployPush \/ DeployCanary
  BY <1>11 DEF DeployPush, DeployCanary, Executes, GoOn
<1>12. CASE DeploySmoke \/ DeployShift \/ DeployFails
  BY <1>12 DEF DeploySmoke, DeployShift, DeployFails, Executes, GoOn, Exit
<1>13. QED
  BY <1>1, <1>2, <1>3, <1>4, <1>5, <1>6, <1>7, <1>8, <1>9, <1>10, <1>11, <1>12 DEF Next

\* The invariant holds in every state of every program.
LEMMA PInvHolds ==
  Spec => []PInv
<1>1. PInv /\ UNCHANGED vars => PInv'
  BY DEF PInv, TypeInv, ProgramsTypeOK, Forced, Fenced, VulnerableRunsAreLocal, Vetted,
         Runs, Lab, vars
<1>2. PInv /\ [Next]_vars => PInv'
  BY <1>1, TypeStep, FenceStep, RanStep, VettedStep DEF PInv
<1>3. QED
  BY InitInv, <1>2, PTL DEF Spec

-----------------------------------------------------------------------------
(* What follows *)

\* An accepted checkout passes all suites, whoever accepted it.
LEMMA AcceptedPasses ==
  ASSUME PInv, Accepted
  PROVE  \E e \in Envs : Run(tree.config, tree.code, e) = {}
<1>1. CASE Runs("ggeval") /\ exit = "ok"
  BY <1>1 DEF PInv, TypeInv, Vetted
<1>2. CASE canary = "shifted"
  BY <1>2, ForceLocalMode DEF PInv, TypeInv, Vetted
<1>3. QED
  BY <1>1, <1>2 DEF Accepted

\* A process ends once, with a status, and the canary advances with the script.
THEOREM TypeCorrect == Spec => []ProgramsTypeOK
<1>1. PInv => ProgramsTypeOK
  BY DEF PInv, TypeInv
<1>2. QED
  BY <1>1, PInvHolds, PTL

\* Whatever the environment holds, no vulnerable variant runs in a process that
\* could reach Gemini, nor in the lab without its acknowledgement and its fence.
THEOREM VulnerableRunsStayLocal == Spec => []VulnerableRunsAreLocal
<1>1. PInv => VulnerableRunsAreLocal
  BY DEF PInv
<1>2. QED
  BY <1>1, PInvHolds, PTL

\* No private task reaches Gemini from the launcher or a canary, although the
\* gate asks the router in the local mode only.
THEOREM PrivateTasksStayLocal == Spec => []PrivateWorkStays
<1>1. PrivateWorkStays
  BY PrivateIsLocal DEF PrivateWorkStays
<1>2. QED
  BY <1>1, PTL

\* No canary without a gate that passed, and none with a vulnerable binary.
THEOREM CanariesAreGated == Spec => []OnlyGatedCanaries
<1>1. PInv => OnlyGatedCanaries
  BY DEF PInv, Vetted, OnlyGatedCanaries
<1>2. QED
  BY <1>1, PInvHolds, PTL

\* Scopes that match the tools and do not mix duties keep the tools apart:
\* web_search is the only source of untrusted content, and its scope is read:web.
LEMMA DutiesByScope ==
  ASSUME NEW tools \in SUBSET ToolNames, SplitsDuties({Tool[t].scope : t \in tools})
  PROVE  ~\E s, t \in tools : Tool[s].untrusted /\ Tool[t].mutating
<1>1. SUFFICES ASSUME NEW s \in tools, NEW t \in tools,
                      Tool[s].untrusted, Tool[t].mutating
               PROVE  FALSE
  OBVIOUS
<1>2. Tool[s].scope = ReadWeb
  BY <1>1 DEF ToolNames, Tool, ToolMeta, NewWebSearch, NewDBQuery, NewDBWrite
<1>3. Tool[t].scope = WriteDB
  BY <1>1 DEF ToolNames, Tool, ToolMeta, NewWebSearch, NewDBQuery, NewDBWrite
<1>4. WriteDB.prefix = "write"
  BY DEF WriteDB, Scope
<1>5. QED
  BY <1>1, <1>2, <1>3, <1>4 DEF SplitsDuties

\* For any configuration, any number of agents and any grants: what the gate
\* accepts gives no agent both an untrusted source and a mutating tool.
THEOREM AcceptedAgentsSplitDuties == Spec => []GateSeparatesDuties
<1>1. ASSUME PInv, Accepted, NEW i \in DOMAIN tree.config.agents
      PROVE  ~\E s, t \in tree.config.agents[i].tools : Tool[s].untrusted /\ Tool[t].mutating
  <2>1. PICK e \in Envs : Run(tree.config, tree.code, e) = {}
    BY <1>1, AcceptedPasses
  <2>2. ValidAgent(tree.config.agents[i])
    BY <1>1, <2>1, PassingRun DEF Validate
  <2>3. ToolGrantsMatch(tree.config)
    BY <2>1, PassingRun DEF TaskSuccess
  <2>4. /\ tree.config.agents[i].tools \subseteq ToolNames
        /\ tree.config.agents[i].scopes = {Tool[t].scope : t \in tree.config.agents[i].tools}
    BY <1>1, <2>3 DEF ToolGrantsMatch
  <2>5. QED
    BY <2>2, <2>4, DutiesByScope DEF ValidAgent
<1>2. PInv => GateSeparatesDuties
  BY <1>1 DEF GateSeparatesDuties
<1>3. QED
  BY <1>2, PInvHolds, PTL

\* The edges of the graph and routeToAgent are one table.
LEMMA TablesAgree ==
  ASSUME NEW routed, NEW agent \in RouteToAgent(routed)
  PROVE  routed \in Labels /\ agent = Successor(routed)
<1>1. CASE routed = "research"
  BY <1>1 DEF RouteToAgent, Labels, Successor
<1>2. CASE routed = "data"
  BY <1>2 DEF RouteToAgent, Labels, Successor
<1>3. CASE routed = "write"
  BY <1>3 DEF RouteToAgent, Labels, Successor
<1>4. QED
  BY <1>1, <1>2, <1>3 DEF RouteToAgent

\* Only twelve right answers score twelve.
LEMMA FullScore ==
  ASSUME NEW code, Score(code) >= Goldens
  PROVE  RoutedRight(code) = Labels
<1>1. RoutedRight(code) \subseteq Labels
  BY DEF RoutedRight
<1>2. \A label \in Labels : label \in RoutedRight(code)
  BY DEF Score, Goldens, GoldenCount, Labels
<1>3. QED
  BY <1>1, <1>2

\* For any classifier and any configuration: the golden prompts of an accepted
\* checkout follow edges of the graph onto declared agents, and with a pass rate
\* of 1 onto the expected ones.
THEOREM AcceptedGoldensLand == Spec => []GoldenPromptsLand
<1>1. ASSUME PInv, Accepted, NEW label \in Labels
      PROVE  LET routed == tree.code.classify[GoldenPrompt(label)] IN
             /\ routed \in Labels
             /\ Successor(routed) \in Declared(tree.config)
             /\ tree.config.passRate = Goldens => routed = label
  <2> DEFINE routed == tree.code.classify[GoldenPrompt(label)]
  <2>1. PICK e \in Envs : Run(tree.config, tree.code, e) = {}
    BY <1>1, AcceptedPasses
  <2>2. PICK agent \in RouteToAgent(routed) : agent \in Declared(tree.config)
    BY <1>1, <2>1, PassingRun DEF Trajectory, GoldenPaths
  <2>3. routed \in Labels /\ Successor(routed) \in Declared(tree.config)
    BY <2>2, TablesAgree
  <2>4. ASSUME tree.config.passRate = Goldens PROVE routed = label
    <3>1. Score(tree.code) >= Goldens
      BY <2>1, <2>4, PassingRun DEF TaskSuccess, RoutingGoldens
    <3>2. label \in RoutedRight(tree.code)
      BY <1>1, <3>1, FullScore
    <3>3. QED
      BY <3>2 DEF RoutedRight
  <2>5. QED
    BY <2>3, <2>4
<1>2. PInv => GoldenPromptsLand
  BY <1>1 DEF GoldenPromptsLand
<1>3. QED
  BY <1>2, PInvHolds, PTL

\* DefaultRegistry registers eight pairs.
LEMMA EightPairs ==
  IsFiniteSet(PairIDs) /\ Cardinality(PairIDs) = 8
<1>1. IsFiniteSet({"ASI01"}) /\ Cardinality({"ASI01"}) = 1
  BY FS_Singleton
<1>2. LET S == {"ASI01", "ASI03"} IN IsFiniteSet(S) /\ Cardinality(S) = 2
  <2>1. {"ASI01", "ASI03"} = {"ASI01"} \cup {"ASI03"}
    OBVIOUS
  <2>2. QED
    BY <1>1, <2>1, FS_AddElement
<1>3. LET S == {"ASI01", "ASI03", "TOOL-MISUSE"} IN IsFiniteSet(S) /\ Cardinality(S) = 3
  <2>1. {"ASI01", "ASI03", "TOOL-MISUSE"} = {"ASI01", "ASI03"} \cup {"TOOL-MISUSE"}
    OBVIOUS
  <2>2. QED
    BY <1>2, <2>1, FS_AddElement
<1>4. LET S == {"ASI01", "ASI03", "TOOL-MISUSE", "SANDBOX"} IN
      IsFiniteSet(S) /\ Cardinality(S) = 4
  <2>1. {"ASI01", "ASI03", "TOOL-MISUSE", "SANDBOX"}
          = {"ASI01", "ASI03", "TOOL-MISUSE"} \cup {"SANDBOX"}
    OBVIOUS
  <2>2. QED
    BY <1>3, <2>1, FS_AddElement
<1>5. LET S == {"ASI01", "ASI03", "TOOL-MISUSE", "SANDBOX", "MEMORY"} IN
      IsFiniteSet(S) /\ Cardinality(S) = 5
  <2>1. {"ASI01", "ASI03", "TOOL-MISUSE", "SANDBOX", "MEMORY"}
          = {"ASI01", "ASI03", "TOOL-MISUSE", "SANDBOX"} \cup {"MEMORY"}
    OBVIOUS
  <2>2. QED
    BY <1>4, <2>1, FS_AddElement
<1>6. LET S == {"ASI01", "ASI03", "TOOL-MISUSE", "SANDBOX", "MEMORY", "A2A-TRUST"} IN
      IsFiniteSet(S) /\ Cardinality(S) = 6
  <2>1. {"ASI01", "ASI03", "TOOL-MISUSE", "SANDBOX", "MEMORY", "A2A-TRUST"}
          = {"ASI01", "ASI03", "TOOL-MISUSE", "SANDBOX", "MEMORY"} \cup {"A2A-TRUST"}
    OBVIOUS
  <2>2. QED
    BY <1>5, <2>1, FS_AddElement
<1>7. LET S == {"ASI01", "ASI03", "TOOL-MISUSE", "SANDBOX", "MEMORY", "A2A-TRUST", "CONFIG"} IN
      IsFiniteSet(S) /\ Cardinality(S) = 7
  <2>1. {"ASI01", "ASI03", "TOOL-MISUSE", "SANDBOX", "MEMORY", "A2A-TRUST", "CONFIG"}
          = {"ASI01", "ASI03", "TOOL-MISUSE", "SANDBOX", "MEMORY", "A2A-TRUST"} \cup {"CONFIG"}
    OBVIOUS
  <2>2. QED
    BY <1>6, <2>1, FS_AddElement
<1>8. PairIDs = {"ASI01", "ASI03", "TOOL-MISUSE", "SANDBOX", "MEMORY", "A2A-TRUST", "CONFIG"}
                  \cup {"SUPPLY-CHAIN"}
  BY DEF PairIDs
<1>9. QED
  BY <1>7, <1>8, FS_AddElement

\* For any registry: in an accepted checkout every registered pair tells its
\* variants apart, and none of the eight is missing when eight must hold.
THEOREM AcceptedPairsHold == Spec => []RegressionsBlocked
<1>1. ASSUME PInv, Accepted PROVE RegressionsBlocked
  <2> DEFINE holding == {id \in DOMAIN tree.code.pairs : Holds(tree.code.pairs[id])}
  <2>1. PICK e \in Envs : Run(tree.config, tree.code, e) = {}
    BY <1>1, AcceptedPasses
  <2>2. /\ RegisteredPairsHold(tree.config, tree.code)
        /\ Cardinality(holding) >= tree.config.minPairs
        /\ RulesTellVariantsApart(tree.code)
    BY <2>1, PassingRun DEF InjectionResistance, PairsMeetGate
  <2>3. ASSUME tree.config.minPairs >= 8, DOMAIN tree.code.pairs \subseteq PairIDs
        PROVE  DOMAIN tree.code.pairs = PairIDs
    <3>1. holding \in SUBSET PairIDs
      BY <2>3
    <3>2. /\ IsFiniteSet(holding)
          /\ Cardinality(holding) <= Cardinality(PairIDs)
          /\ Cardinality(PairIDs) = Cardinality(holding) => PairIDs = holding
      BY <3>1, EightPairs, FS_Subset
    <3>3. Cardinality(holding) \in Nat
      BY <3>2, FS_CardinalityType
    <3>4. Cardinality(holding) = 8
      BY <2>2, <2>3, <3>2, <3>3, EightPairs, <1>1 DEF PInv, TypeInv
    <3>5. PairIDs = holding
      BY <3>2, <3>4, EightPairs
    <3>6. QED
      BY <3>5, <2>3
  <2>4. QED
    BY <2>2, <2>3 DEF RegressionsBlocked, RegisteredPairsHold, RulesTellVariantsApart, Holds
<1>2. PInv => RegressionsBlocked
  BY <1>1 DEF RegressionsBlocked
<1>3. QED
  BY <1>2, PInvHolds, PTL
=============================================================================
