------------------------------ MODULE Programs ------------------------------
(***************************************************************************)
(* The programs of cmd/ and deploy/deploy.sh, from the command line to the *)
(* exit status: the hardened launcher gopherguard, the fenced lab          *)
(* gopherguard-vuln, the gate ggeval, and the deployment that runs the     *)
(* gate before a canary of the launcher takes traffic.  A behaviour is one *)
(* command in one environment and one checkout of the repository.          *)
(***************************************************************************)
EXTENDS EvalGate, Integers

\* The starts: records of a command [program, flags, pair], an environment
\* [mode, key, reachable, bind, vuln] and a checkout
\* [loads, config, code, vulnBinary]; loads says whether the configuration is
\* read and strictly parsed, vulnBinary whether bin/gopherguard-vuln exists.
CONSTANT Starts

Envs == [mode : ModeTexts, key : BOOLEAN, reachable : BOOLEAN,
         bind : {"", "127.0.0.1", "0.0.0.0"}, vuln : BOOLEAN]

ASSUME StartsAssumption ==
  \A s \in Starts : s.env \in Envs /\ s.tree.config.minPairs \in Int

VARIABLES
  command, tree,  \* what was started, on which checkout
  env,            \* the environment of the process
  at,             \* where it is; "exit" when it has ended
  exit,           \* "none", "ok" or "failed"
  failing,        \* the suites that failed, NoReport before they ran
  ran,            \* the vulnerable variants run, with their environment
  graph,          \* the agents the launcher built
  telemetry,      \* "none", "recording" or "flushed"
  canary          \* the new revision: "none", "tagged", "probed" or "shifted"

vars == <<command, tree, env, at, exit, failing, ran, graph, telemetry, canary>>

NoReport == {"no report"}

Init ==
  /\ \E s \in Starts : command = s.command /\ tree = s.tree /\ env = s.env
  /\ at = "start" /\ exit = "none"
  /\ failing = NoReport
  /\ ran = {} /\ graph = {}
  /\ telemetry = "none"
  /\ canary = "none"

Runs(program) == command.program = program

\* The process goes on, or ends with a status.
GoOn(place) == at' = place /\ exit' = exit

\* Mutant: the status is set but the process does not stop.
ExitLater(status) == at' = at /\ exit' = status

Exit(status) == at' = "exit" /\ exit' = status

-----------------------------------------------------------------------------
(* cmd/ggeval *)

\* Mutant: the developer's GG_MODEL_MODE stays in force.
ForceNothing(e) == e

ForceLocal(e) == [e EXCEPT !.mode = "gemma"]

\* The vulnerable variants the suites run when the configuration is valid.
Exercised(e) ==
  IF Validate(tree.config)
  THEN {[pair |-> id, env |-> e] : id \in DOMAIN tree.code.pairs} ELSE {}

EvalStart ==
  /\ Runs("ggeval") /\ at = "start"
  /\ env' = ForceLocal(env)
  /\ GoOn("load")
  /\ UNCHANGED <<command, tree, failing, ran, graph, telemetry, canary>>

EvalLoad ==
  /\ Runs("ggeval") /\ at = "load"
  /\ IF tree.loads THEN GoOn("suites") ELSE Exit("failed")
  /\ UNCHANGED <<command, tree, env, failing, ran, graph, telemetry, canary>>

EvalRun ==
  /\ Runs("ggeval") /\ at = "suites"
  /\ failing' = Run(tree.config, tree.code, env)
  /\ ran' = ran \cup Exercised(env)
  /\ Exit(IF failing' = {} THEN "ok" ELSE "failed")
  /\ UNCHANGED <<command, tree, env, graph, telemetry, canary>>

-----------------------------------------------------------------------------
(* cmd/gopherguard-vuln *)

Lab == Runs("gopherguard-vuln")

\* --list, or no acknowledgement: nothing is run.
LabDeclines ==
  /\ Lab /\ at = "start"
  /\ \/ "list" \in command.flags /\ Exit("ok")
     \/ command.flags \cap {"list", "understand"} = {} /\ Exit("failed")
  /\ UNCHANGED <<command, tree, env, failing, ran, graph, telemetry, canary>>

\* mustSet: the variable is set, or the process ends.
MustSet(fenced, next) ==
  \/ env' = fenced /\ GoOn(next)
  \/ env' = env /\ Exit("failed")

\* The fence, one variable after the other.
LabForcesGemma ==
  /\ Lab /\ at = "start"
  /\ "list" \notin command.flags /\ "understand" \in command.flags
  /\ MustSet([env EXCEPT !.mode = "gemma"], "bind")
  /\ UNCHANGED <<command, tree, failing, ran, graph, telemetry, canary>>

LabBinds ==
  /\ Lab /\ at = "bind"
  /\ MustSet([env EXCEPT !.bind = "127.0.0.1"], "mark")
  /\ UNCHANGED <<command, tree, failing, ran, graph, telemetry, canary>>

LabMarks ==
  /\ Lab /\ at = "mark"
  /\ MustSet([env EXCEPT !.vuln = TRUE], "unkey")
  /\ UNCHANGED <<command, tree, failing, ran, graph, telemetry, canary>>

LabDropsKey ==
  /\ Lab /\ at = "unkey"
  /\ env' = [env EXCEPT !.key = FALSE]
  /\ GoOn("fenced")
  /\ UNCHANGED <<command, tree, failing, ran, graph, telemetry, canary>>

Selected == {id \in DOMAIN tree.code.pairs : command.pair \in {"", id}}

\* The demonstrations, or with --detect the captures: either way every selected
\* vulnerable variant is run.
LabRuns ==
  /\ Lab /\ at = "fenced"
  /\ IF Selected = {} /\ command.pair # "" THEN Exit("failed") ELSE Exit("ok")
  /\ ran' = ran \cup {[pair |-> id, env |-> env] : id \in Selected}
  /\ UNCHANGED <<command, tree, env, failing, graph, telemetry, canary>>

-----------------------------------------------------------------------------
(* cmd/gopherguard *)

Launcher == Runs("gopherguard")

\* telemetry.Setup may fail.
LaunchSetup ==
  /\ Launcher /\ at = "start"
  /\ \/ telemetry' = "recording" /\ GoOn("build")
     \/ telemetry' = telemetry /\ Exit("failed")
  /\ UNCHANGED <<command, tree, env, failing, ran, graph, canary>>

\* Beside a grant that is refused, the constructors of tools, agents and nodes
\* may fail: then too BuildGraph returns an error and log.Fatalf exits.
LaunchBuild ==
  /\ Launcher /\ at = "build"
  /\ \/ BuildGraph(env) # {} /\ graph' = BuildGraph(env) /\ GoOn("serving")
     \/ graph' = {} /\ Exit("failed")
  /\ UNCHANGED <<command, tree, env, failing, ran, telemetry, canary>>

\* The ADK launcher returns: without an error main returns and its deferred
\* Shutdown flushes the spans; with one, log.Fatalf exits on the spot.
LaunchEnds ==
  /\ Launcher /\ at = "serving"
  /\ \/ telemetry' = "flushed" /\ Exit("ok")
     \/ telemetry' = telemetry /\ Exit("failed")
  /\ UNCHANGED <<command, tree, env, failing, ran, graph, canary>>

-----------------------------------------------------------------------------
(* deploy/deploy.sh *)

Executes == Runs("deploy.sh") /\ "execute" \in command.flags

\* The environment the canary's launcher is given.
CanaryEnv ==
  [mode |-> "gemini", key |-> TRUE, reachable |-> TRUE, bind |-> "", vuln |-> FALSE]

\* Without --execute every step is printed and none is run.
DeployPlans ==
  /\ Runs("deploy.sh") /\ ~Executes /\ at = "start"
  /\ Exit("ok")
  /\ UNCHANGED <<command, tree, env, failing, ran, graph, telemetry, canary>>

\* Mutant: the script goes on after a command that failed.
DeployGateIgnored ==
  /\ Executes /\ at = "start"
  /\ failing' = IF tree.loads THEN Run(tree.config, tree.code, ForceLocal(env)) ELSE NoReport
  /\ ran' = ran \cup IF tree.loads THEN Exercised(ForceLocal(env)) ELSE {}
  /\ GoOn("compile")
  /\ UNCHANGED <<command, tree, env, graph, telemetry, canary>>

\* make eval, a process of its own; the script stops when it fails (set -e).
DeployGate ==
  /\ Executes /\ at = "start"
  /\ failing' = IF tree.loads THEN Run(tree.config, tree.code, ForceLocal(env)) ELSE NoReport
  /\ ran' = ran \cup IF tree.loads THEN Exercised(ForceLocal(env)) ELSE {}
  /\ IF failing' = {} THEN GoOn("compile") ELSE Exit("failed")
  /\ UNCHANGED <<command, tree, env, graph, telemetry, canary>>

\* go build, then the refusal of a vulnerable binary in the build context.
DeployBuild ==
  /\ Executes /\ at = "compile"
  /\ IF tree.vulnBinary THEN Exit("failed") ELSE GoOn("push")
  /\ UNCHANGED <<command, tree, env, failing, ran, graph, telemetry, canary>>

DeployPush ==
  /\ Executes /\ at = "push"
  /\ GoOn("tag")
  /\ UNCHANGED <<command, tree, env, failing, ran, graph, telemetry, canary>>

DeployCanary ==
  /\ Executes /\ at = "tag"
  /\ canary' = "tagged"
  /\ GoOn("probe")
  /\ UNCHANGED <<command, tree, env, failing, ran, graph, telemetry>>

\* The probe is answered by a launcher that serves.
DeploySmoke ==
  /\ Executes /\ at = "probe"
  /\ Assembles(CanaryEnv)
  /\ canary' = "probed"
  /\ GoOn("shift")
  /\ UNCHANGED <<command, tree, env, failing, ran, graph, telemetry>>

\* What follows, watch and promote or roll back, is printed only.
DeployShift ==
  /\ Executes /\ at = "shift"
  /\ canary' = "shifted"
  /\ Exit("ok")
  /\ UNCHANGED <<command, tree, env, failing, ran, graph, telemetry>>

\* Any command of the script may fail, and what was done so far stays done.
DeployFails ==
  /\ Executes /\ at \in {"compile", "push", "tag", "probe", "shift"}
  /\ Exit("failed")
  /\ UNCHANGED <<command, tree, env, failing, ran, graph, telemetry, canary>>

Next ==
  \/ EvalStart \/ EvalLoad \/ EvalRun
  \/ LabDeclines \/ LabForcesGemma \/ LabBinds \/ LabMarks \/ LabDropsKey \/ LabRuns
  \/ LaunchSetup \/ LaunchBuild \/ LaunchEnds
  \/ DeployPlans \/ DeployGate \/ DeployBuild \/ DeployPush \/ DeployCanary
  \/ DeploySmoke \/ DeployShift \/ DeployFails

Spec == Init /\ [][Next]_vars

-----------------------------------------------------------------------------
(* Properties *)

Suites == {"config", "task-success", "trajectory", "injection-resistance"}

\* A process ends once, with a status; the canary advances with the script.
ProgramsTypeOK ==
  /\ exit \in {"none", "ok", "failed"}
  /\ at = "exit" <=> exit # "none"
  /\ failing = NoReport \/ failing \subseteq Suites
  /\ telemetry \in {"none", "recording", "flushed"}
  /\ canary \in {"none", "tagged", "probed", "shifted"}
  /\ canary = "probed" => at = "shift" \/ exit = "failed"

\* No hint makes the router of an environment pick Gemini.
StaysLocal(e) == \A hint \in TaskHints : Route(NewRouter(e), hint).model = ModeGemma

\* A vulnerable variant runs only in a process that cannot reach Gemini; in the
\* lab only after the acknowledgement and behind the whole fence
\* (cmd/gopherguard-vuln/main.go, the environment ggeval forces).
VulnerableRunsAreLocal ==
  \A r \in ran :
    /\ StaysLocal(r.env)
    /\ Lab => /\ "understand" \in command.flags
              /\ r.env.bind = "127.0.0.1" /\ r.env.vuln /\ ~r.env.key

\* The checkout is accepted: ggeval exits with success, or a revision built
\* from it takes traffic.
Accepted ==
  \/ Runs("ggeval") /\ exit = "ok"
  \/ canary = "shifted"

\* In an accepted configuration no agent holds a tool that returns untrusted
\* content together with one that changes state, whatever its scopes are called.
GateSeparatesDuties ==
  Accepted =>
    \A i \in DOMAIN tree.config.agents :
      ~\E s, t \in tree.config.agents[i].tools : Tool[s].untrusted /\ Tool[t].mutating

\* In an accepted checkout every registered pair tells its variants apart, and
\* all eight are registered when the gate asks for eight and no pair was renamed.
RegressionsBlocked ==
  Accepted =>
    /\ \A id \in DOMAIN tree.code.pairs :
         /\ Compromised(tree.code.pairs[id].vulnerable)
         /\ ~Compromised(tree.code.pairs[id].hardened)
         /\ MustFire(id) \subseteq EvaluateAll(TraceOf(tree.code.pairs[id].vulnerable))
         /\ EvaluateAll(TraceOf(tree.code.pairs[id].hardened)) = {}
    /\ tree.config.minPairs >= 8 /\ DOMAIN tree.code.pairs \subseteq PairIDs
         => DOMAIN tree.code.pairs = PairIDs

\* In an accepted checkout every golden prompt follows an edge of the graph to an
\* agent the configuration declares, and with a pass rate of 1 to the right one.
GoldenPromptsLand ==
  Accepted =>
    \A label \in Labels :
      LET routed == tree.code.classify[GoldenPrompt(label)] IN
      /\ routed \in Labels
      /\ Successor(routed) \in Declared(tree.config)
      /\ tree.config.passRate = Goldens => routed = label

\* Work marked private stays local wherever the graph is served: by the launcher,
\* in any environment, and by a canary that has been tagged.
PrivateWorkStays ==
  \A hint \in {h \in TaskHints : h.private} :
    /\ at = "serving" => Route(NewRouter(env), hint).model = ModeGemma
    /\ canary # "none" => Route(NewRouter(CanaryEnv), hint).model = ModeGemma

\* A canary exists only of a checkout that passes the whole gate in an
\* environment of the gate's choosing, and has no vulnerable binary in it.
OnlyGatedCanaries ==
  canary # "none" =>
    /\ tree.loads /\ ~tree.vulnBinary
    /\ Run(tree.config, tree.code, ForceLocal(env)) = {}

\* What evals/tasksuccess.go:115-118 says of the tool grants: an accepted
\* configuration and the graph in code do not drift apart in either direction.
ConfigDescribesGraph ==
  Accepted =>
    /\ Declared(tree.config) = Agents
    /\ \A i \in DOMAIN tree.config.agents :
         LET agent == tree.config.agents[i] IN
         agent.tools = Held(agent.name) /\ agent.scopes = Granted(agent.name)

\* What internal/telemetry/telemetry.go:17 asks of its callers: a program that
\* has set telemetry up calls Shutdown on exit.
ExitsFlush == exit # "none" => telemetry # "recording"
=============================================================================
