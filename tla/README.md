# Verification of gopherguard

TLA+ models of gopherguard (the Go multi-agent system in `src/`), TLC runs that
check them on small instances, and TLAPS proofs of the results that matter most.

    cd tla
    tlc -workers 2 -config AgentSession.cfg MCAgentSession.tla     # one run
    tlapm AgentSession_proof.tla                                   # one proof

`PROJECT.json` lists the runs, the source lines behind every definition, the
hazards, the findings and the theorems. Definitions marked "Mutant" are plausible
bugs; each property of a passing run is violated when its mutant replaces the
definition after it.

Contents: [inventory](#inventory), [plan](#plan), [modules](#modules-and-the-code),
[runs](#runs), [fairness](#fairness), [proofs](#proofs),
[divergences](#divergences-from-the-documentation),
[abstractions](#abstractions-and-what-is-not-modelled).

## Inventory

What the system is made of, what each part keeps, does and depends on, which of
its behaviours are hard, and what makes it correct.

**Agent graph and sessions** (`internal/agents/graph.go`). A coordinator node
routes each user message by keywords, in Go, to one of three agents, each with its
own tools and scopes: researcher (`web_search`), dbagent (`db_query`, `db_write`),
writer (none). State: the events of each session, per agent branch; the call in
progress. Operations: classify and stamp the route, generate, the trust callback
before a tool, the tool, the confirmation of `db_write`. It calls the model layer
and the tools, and writes spans. Hard: sessions interleave on one database, and a
confirmation may be answered long after it was asked for. Correct: nothing is
written that was not approved for that very call; no call leaves its agent's
grant; every call's span says what it does; turns end.

**Model layer** (`internal/model`). `Gemma.GenerateContent` is one Ollama request
and one yield. Gemma has no native tools: `toolbridge.go` describes them in the
prompt and reads JSON out of the reply. State: none of its own; it derives "has a
tool run in this turn" from the history it is given. Hard: that scan must forget
earlier turns and not forget this one. Correct: at most one call per turn, and
every turn has its chance of one. The scanner that cuts a JSON object out of a
reply counts braces, quotes and escapes by hand; correct: it cuts the object that
begins at the first brace, whole and alone. `router.go` picks Gemma or Gemini by the
environment and a task's hints. Correct: private work stays local in every one.

**Database and memory store** (`internal/tools/database.go`,
`internal/memory/provenance.go`). Two maps, each behind a `sync.RWMutex`, with
get, set and a sorted key listing; the memory's values carry their provenance.
Hard: goroutines of several sessions at once, and a `range` that takes many steps.
Correct: operations are atomic, never touch the map during a write, and return.

**Scoped tools and policy** (`internal/tools/scoped.go`, `internal/security`).
Metadata paired with each tool, the registry that refuses duplicates, the policy
that refuses scopes not granted. Used once, by `BuildGraph`, which makes all three
agents or none.

**Trust telemetry** (`internal/telemetry`). A fixed vocabulary of span attributes,
`StartSpan` and `Stamp`, and the set-up of the exporters.

**Detection** (`internal/detect`, `detections/`). `Capture` runs a function under a
recording tracer provider and returns its spans sorted by start time; five rules
each scan the trace once. The same rules exist as ClickHouse SQL and TraceQL.
Hard: spans are recorded as they end, the clock may repeat itself, and the loops
keep running values where the rule speaks of pairs of spans. Correct: the order of
a trace respects causality, each loop decides the pattern its rule is about, a
running value forgets nothing the rule needs, and SQL and Go agree.

**OWASP pairs** (`internal/owasp`). For eight risks, a vulnerable and a hardened
variant that simulate the attack with spans and a gate. Correct: exactly the
vulnerable variants are compromised, their rules fire, and every rule is quiet on
the hardened ones.

**Polyglot A2A hop** (`internal/a2aremote`, `cmd/gga2a`, `a2a-python`). A Go process
resolves the Python agent's card, sends one message with its trace context, and
digs the report out of the result. State: the spans of both processes, messages on
the network. Hard: a timeout that fires while the agent works, replies without
text, lost messages, deferred calls that must run in the right order, an SDK that
may run the agent outside the request's context. Correct: one trace shows the hop
from both sides, spans tell the outcome and get exported, a report is the agent's
own text, and every run ends.

**Evals** (`evals`, `cmd/ggeval`). The gate of CI and of deployments: `Validate` for
`agent.yaml`, then three suites. Task success: golden prompts, whether the graph
assembles, tool grants, the privacy check. Trajectory: budgets over captured traces,
golden paths. Injection resistance: the pairs and the rules on them. State: none; it
reads a configuration, the code as it is handed over (`evals.Options`) and the
environment. Hard: the checks each compare two tables of three or four that must
agree (keywords, edges, labels, scopes, tools, pair IDs), so what an accepted
checkout guarantees is what they say together. Correct: no agent of an accepted
configuration combines untrusted input with a mutating tool, no pair is lost, golden
prompts land on declared agents by the graph's own edges.

**Launchers and deployment** (`cmd/gopherguard`, `cmd/gopherguard-vuln`, `deploy`).
The launcher sets telemetry up, builds the graph and serves it; the lab runs
vulnerable variants behind an acknowledgement and a fence of environment variables;
`deploy.sh` is a sequence of commands, any of which may fail. Hard: each program has
several ways out, and a status, a deferred call or an environment variable must be
right on each. Correct: vulnerable variants run only where Gemini is out of reach;
no canary without the gate.

How they interact: the graph composes model, tools and telemetry (calls and one
callback) and shares the database between sessions; telemetry feeds Capture, which
feeds the rules, which the evals and the lab launcher evaluate on the pairs; the
A2A hop links two processes by messages and by trace context. The gate runs inside
`ggeval`, and `ggeval` inside `deploy.sh`, which starts the launcher.

## Plan

Done, in this order: the session core (`Trust`, `Detect`, `AgentGraph`,
`ToolBridge`, `AgentSession`) with its proofs; the stores as goroutines execute
them, shown to implement an atomic map (`RWStore` implements `KVStore`, proved);
the rules as loops (`RuleScan` against the patterns of `Detect`, proved); the trace
(`Capture`), the pairs (`Pairs`) and their composition (`PairCapture`), with the
order of a trace and what the SQL sees of it proved; the A2A hop
(`A2AHop`, proved); what a session promises of the database, as a specification of
its own that it implements (`GatedWrites`, proved); the router and `BuildGraph`
(`Router`, `AgentBuild`), the gate over them (`EvalGate`) and the programs that run
it (`Programs`, proved for any configuration, code and environment); the tool-call
scanner against a grammar (`ToolCallScan`, proved); what the clock cannot change about
a captured trace (`Capture`, proved) and the verdict and alarms of every pair
(`PairCapture`, proved); a bound on turns (`TurnsRunDown`, proved).

Left: that the unchanged checkout passes its own gate, as a theorem (the runs show it);
a measure for the turns goroutines wait in `RWStore`; the fences around a reply and the
aliases of a call's keys, if the bridge grows a second format.

## Modules and the code

| Module | Models | State and actions |
|---|---|---|
| `Trust` | `internal/telemetry/trust.go`, scopes, provenance | none: spans as `[name, attrs]` records, a stamp as a function override |
| `Detect` | `internal/detect/rules.go` | none: for each rule the pattern its traces show |
| `AgentGraph` | the wiring in `graph.go`, tool constructors | none: `Held`, `Granted`, `Classify`, `Successor`, `TrustCallback` |
| `ToolBridge` | `toolbridge.go`, the start of `GenerateContent` | none: `ToolRanThisTurn`, `Offered`, `ParsesAsCall` |
| `Router` | `router.go`, `gemini.go` | none: `ParseMode`, `NewRouter`, `Route`, `Default` on an environment |
| `AgentBuild` | `BuildGraph`, `policy.go`, `Registry` | none: the agents that are made, or none |
| `AgentSession` | a session of the graph | `Coordinate`; `GenerateCall`, `GenerateText`, `GenerateError` (the outcomes of one model call); `BeforeTool` (the callback); `WebSearch`, `DBQuery`, `DBWrite` (the handlers); `AskHuman`, `HumanAnswers`, `Rejected` (ADK's confirmation) |
| `GatedWrites` | what a user may assume of the database | `Propose`, `Decide`, `Commit` |
| `ToolCallScan` | `extractJSONObject` | the loop's locals and what it has read; `Skip`, `Scan` are one character each |
| `KVStore` | what callers of a store may assume | `Call`, `Effect` (one instant), `Return` |
| `RWStore` | `database.go`, `provenance.go` as goroutines | `Enter`; `RLock`, `Announce`, `Acquire` (the mutex); `ReadEntry`, `RangeNext`, `RangeDone`, `WriteEntry`; `RUnlock`, `Unlock` |
| `RuleScan` | the five loops of `rules.go` | one variable per loop local; `Visit` is one iteration of each |
| `Capture` | `store.go`, `StartSpan`, `Stamp`; the SQL queries | the clock, the stack of open spans, the recorder; `StartSpan`, `Stamp`, `EndSpan`, `Tick`, `Finish` |
| `Pairs` | the eight pairs and their gates | none: each variant as a sequence of steps |
| `PairCapture` | a variant run inside `Capture`, as the evals do | extends `Capture` by the variant; `BeginStep`, `RunBody`, `EndStep`, `Return`, `PairTick`; or `Explore`, any session at all |
| `EvalGate` | `evals/config.go`, the three suites, `harness.go` | none: `Validate`, one operator per check, `Run` (the suites that fail) |
| `Programs` | `cmd/gopherguard`, `cmd/gopherguard-vuln`, `cmd/ggeval`, `deploy.sh` | one command in one environment on one checkout: its place, its exit status, the report, the vulnerable variants run, the graph, telemetry, the canary. `Eval*`, `Lab*` (the fence is four steps, `mustSet` may fail at three), `Launch*`, `Deploy*` |
| `A2AHop` | `a2aremote.go`, `cmd/gga2a`, the Python server and agent | per run a place, its spans, its outcome; the network; the server's work and spans. `SetupFails`, `Connect`, `ResolveCard`, `ResolveFails`, `Receive`, `SendFails`, `EndAnalyze`, `EndRun`; `Accept`, `ServeCard`, `RunAgent`, `Respond`; `Lose` |

`AgentSession` composes `AgentGraph`, `ToolBridge` and `Detect`; the database inside
it is a plain map with atomic operations, which is what `RWStore` is proved to
implement. `PairCapture` composes `Capture` and `Pairs`. `Programs` extends
`EvalGate`, which extends `AgentBuild`, `Pairs` and `Detect`: the gate is checked on
the graph, the pairs and the rules that the other modules model, not on copies. `MC*`
modules give the constants their values.

## Runs

| Run | Question | Instance |
|---|---|---|
| `session` | Does any interleaving of sessions, model replies and human answers write something unapproved or write it twice, call twice in a turn, starve a turn of its tools, leave a grant, or look like an attack? Does every step of a turn leave fewer to take? Does every turn end or wait for a human, and end once answered? | 2 sessions, one with 2 turns; 1 key, 2 values |
| `outcome` | Is the outcome of a confirmation on the span? (violated) | as `session` |
| `store` | Is the store race-free and atomic, and does every operation return? | 3 goroutines that never stop calling, 2 keys, 1 value |
| `rules` | Do the loops decide the patterns, and what does the running maximum of GG-DET-04 remember? | all traces of up to 6 spans out of 7 kinds |
| `widening` | Does GG-DET-04 catch what its documentation says? (violated) | the same |
| `capture` | Is the captured order causal, does it decide the verdict, do the queries agree, and are exactly the vulnerable variants compromised and detected? | 4 spans nested in any way on 2 clock readings, with 5 start and 2 later attribute sets; all 16 variants on 4 clock readings |
| `hops` | Are hops counted? (violated) | the 16 variants |
| `a2a` | Do trace, outcome, report and termination survive losses and timeouts? | 2 runs, 3 kinds of card, 6 shapes of result |
| `gate` | What does the gate guarantee of a checkout it accepts, and do the programs keep vulnerable variants, private work and canaries where they belong? | ggeval and `deploy.sh` on about 950 checkouts, the launcher and the lab in 20 environments |
| `drift` | Does the gate keep configuration and graph together? (violated) | as `gate` |
| `flush` | Does every program that records flush on exit? (violated) | as `gate` |
| `scan` | Does the scanner cut out the object? | all texts of up to 8 characters |

What each property says, and the bounds:

- **session.** `ApprovedWritesOnly`: each write is a call a human said yes to (same
  session, turn, key and value), and all values held or read are the seed's or such
  writes. Two values are needed to tell an approved write from another; two sessions
  to interleave asking, answering and running; a second turn to have a history.
  `OneCallPerTurn` and `FreshTurnOffersTools` are the two halves of the one-shot
  rule, over every history these turns can leave. `WithinGrant`: the call in progress
  is of a tool its agent holds, in scope, behind a span that says so; replies may
  name any tool, also one that does not exist. `HardenedTurnsQuiet`: no invocation
  trips the loop, widening or taint rule (`graph.go:160-178` against `rules.go`). It is
  a modest claim: an invocation has one tool span and none carries a provenance, so the
  loop rule could only be tripped by another round of the model, the widening rule by a
  scope on the coordinator's span, the taint rule by a new attribute. It does not say
  that ordinary sessions raise no alarm: GG-DET-01 and GG-DET-02 fire on a `web_search`
  and on a `db_write` span of the graph, and where the loop budget ends is the business
  of `ScanDecides`. A third session or turn adds no new kind
  of step: sessions meet only in the database, and turns only in the branch. The
  proofs remove both bounds. `TurnsRunDown`: every step of a turn leaves fewer steps to
  take, at most seven in all; the code counts no rounds, so this rests on what the
  one-shot scan finds in the history. `OneWritePerApproval` is the refinement of `GatedWrites`: one yes, one write.
  `TurnEnds` and `AnsweredTurnEnds` are the liveness of turns.
- **store.** `NoConcurrentMapAccess` is the condition under which Go aborts the
  program. `Atomic` is refinement of `KVStore`. Three goroutines: a range can then
  meet two writes, the fewest that make its listing a mix of two moments, and
  one can wait while two take turns in front of it (`OperationsReturn`). With two
  keys a range can be half-way. Locks do not look at values. No symmetry is used.
- **rules.** `ScanDecides`: after every prefix a rule has fired exactly if the
  prefix shows its pattern. Six spans of one name are the first to exceed the
  budget of five. The seven spans carry each attribute a rule reads, alone and in
  the combinations the code produces, and all three scope ranks, with a scope the code
  does not rank. `WideningIsFromTheFirst`: keeping only a maximum that starts at the
  first scope comes to one comparison, of every scope with the first one. It is
  violated if the loop remembers the latest rank instead.
- **capture.** `CausalOrder`: no span is listed before one that had ended when it
  started, whatever the clock shows. `VerdictIgnoresClock`: for flat sessions (all
  pairs) the verdict is that of a perfect clock. It does not hold for nested
  sessions, where a parent is recorded after its children and a tie lists it after
  them: the property says `Flat` for that reason. `QueriesCoverRules`: what the Go
  rules find the SQL finds, up to three exceptions it names (one span that is both
  ends of GG-DET-01; scoped spans with equal timestamps in GG-DET-04; an empty scope
  in GG-DET-04, which Go ranks like a read and `clickhouse.sql:99` filters out). The
  spans include one under a scope without rank, which is 1 in Go and 0 in SQL, and
  one under the empty scope. `RowsAreAlarms` is the converse: a row is an alarm, unless
  its two spans show one time or, for widening, a scope that Go ranks as high came
  first. That scope is one the running maximum remembers, or an unranked one before a
  read, which only the query takes for a widening. Two clock
  readings give every pattern of ties over neighbours; four spans give a session
  with two steps of which one is nested, and a third. `PairsHold` and
  `RegressionMatrix` are the invariants the evals enforce once, here for every
  behaviour of the clock.
- **a2a.** `HopVisible`: a request that reaches the endpoint from a recording caller
  leaves a span in the caller's trace that carries the hop, wherever the SDK runs the
  agent. `SpansTellTheOutcome`: at exit all spans are exported and the hop's status
  is error exactly if the call failed. `ReportsAreTheAgents`: a report is never empty
  and never the user's text from the history. `RunsEnd`. Two runs show that traces
  and replies do not cross; more would only multiply independent work. The six
  results reach every branch of `replyText`, with and without text of the agent.
- **gate.** The checkouts: one agent with any set of tools and any set of five
  scopes; missing, doubled, nameless and unknown agents; each budget and gate at,
  below and above what the code needs; each single-field requirement broken; and
  the code regressed in the ways the harness's own tests regress it (a classifier
  that loses a route or invents a label; each pair dropped, without its hardening,
  or without its attack), under every combination of gates. `GateSeparatesDuties`
  is about tools where the guard is about scope names, so it takes two suites to
  hold. `RegressionsBlocked`: with eight pairs required, none can be dropped. A renamed
  pair is outside its precondition, and no checkout of the run renames one.
  `GoldenPromptsLand`: by the graph's edges, not by the copy the suite keeps, on
  declared agents; which of them is pinned only by a pass rate of 1. `VulnerableRunsAreLocal`, `PrivateWorkStays`: over every mode, key
  and reachability of Gemini. `OnlyGatedCanaries`: wherever the script stops.
- **scan.** `CutsTheObject`: an object is returned exactly if the grammar has one at
  the first brace, and then that one. `PlainCutsAreObjects`: without backslashes
  nothing else is returned either. A backslash outside a string makes the scanner
  skip a character where JSON has an error; the cut is then no JSON, and
  `json.Unmarshal` refuses it. Eight characters hold an object with a string that
  holds an escaped quote and a brace, and a nested object beside a string.

Runs without deadlock checking end on their own (a last turn, a finished capture,
two exits, an exit status); `store` checks for deadlock.

## Fairness

- `AgentSession!FairSpec`: weak fairness of each session's own steps. The HTTP
  client has a timeout (`gemma.go`), handlers only compute, and goroutines are
  scheduled. Users and humans are under no fairness: a confirmation may stay
  unanswered, and `TurnEnds` accepts that.
- `RWStore!RWFairSpec`: weak fairness of a goroutine's steps; strong fairness of
  `Announce`, the lock among writers, since `sync.Mutex` hands itself to the longest
  waiter once that one has waited for a millisecond.
- `Programs` and `ToolCallScan` state no liveness: the programs end by their text.
- `A2AHop!A2AFairSpec`: weak fairness of each run's steps, which include the client's
  timeout. Nothing is assumed of the server or the network.

## Proofs

Eight proof modules; everything in them is checked to the leaves. Every invariant and
every action property of a passing run is a theorem. Assumptions are
those of the modules: `ConstantsAssumption` (the absent marker is no value, the
blank argument no key, the seed a database, turn bounds naturals),
`StoreAssumption`, `BoundAssumption`, `StartsAssumption` (environments are records
of the stated fields, `min_pairs_holding` is an integer), `CaptureAssumption` (the
bounds are naturals, and a session has room for its own span), `LengthAssumption` (the
bound on a reply is a natural), `ResultsAssumption` (results
have the shapes of the protocol, and the agent's report is not the user's text: it has
a header, `agent.py:59-66`). No constant is assumed finite.

**AgentSession_proof** (any sessions, keys, values, turns). The inductive invariant
`IInv` is `TypeOK` and six parts. `ApprovedWritesOnly` is not inductive alone:
`DBWrite` adds the call in hand, so `CallInHand` says that the call is of an
offered tool and that an "approved" answer has put this call among the approvals.
`OneCallPerTurn` speaks of pairs of calls, and a new call needs to know that the
last one is over: `CallsSettled` says every earlier call is followed by a result or
a user's text, `CallsSpaced` is the property itself, and if the bridge still offers
tools the last thing that settles is the user's text. `FreshTurn` says why a turn
that has not called is offered its tools. `TraceShape` says an invocation has at
most a coordinator span and one tool span, hence `HardenedTurnsQuiet`. Theorems:
`TypeCorrect`, `WritesAreApproved`, `BridgeIsOneShot`, `BridgeReopens`,
`LeastPrivilege`, `QuietTraces`, and `WritesAreGated`: every step maps to a step of
`GatedWrites` or a stutter, where a session's pending write is read off its call and
its confirmation. One case per action; that `Commit` writes what was approved is
`CallInHand` again. `TurnsAreBounded` is the part of `TurnEnds` that is safety: a measure
of the turn's place and answer that each step brings down. The step that could go up
is a second call, and `AnswerAndBridge` says that a model asked again finds the bridge
closed.

**RWStore_proof** (any goroutines, keys, values). `RWInv` says who may be where for
each state of the lock and that the result of an operation is there exactly when
it waits to unlock; for a range, what it has found is the keys present among the
slots it has passed, which holds because no writer is inside. `TypeCorrect`, `MutualExclusion`, and
`StoreIsAtomic`: every step of `RWStore` is a step of `KVStore` or a stutter (the
refinement mapping is the identity on the map, the requests and the results).

**RuleScan_proof** (any spans, any length). `ScanInv` says what each local remembers
of the prefix: whether some span was untrusted, the number of spans per name, the
greatest rank, whether some span tainted. One lemma per rule says what one more
span does to its pattern. `ScanIsExact` follows, and `TypeCorrect`. For
`FirstScopeDecides` the step needs both directions, `FirstInv`: GG-DET-04 has fired only
if some scope is broader than the first, and while it has not fired none is.

**Capture_proof** (any names, attributes, number of spans and clock). First the sort:
`SortIsStable` says `SortByStart` lists every position once, in the order of start
times and, among equals, of the recorder (the place of an element is the number of
those before it; places are distinct, so on a finite domain every place is taken).
`CausalOrder` speaks of `after`, the number of spans that had ended when a span
started, and the clock; `CaptureInv` ties them together: every span that had ended by
then had started by then (`Started`), a recorded span stands behind all of them
(`EndedInv`), and no two spans have one birth (`BirthInv`), so that "the same span"
means the same position. One lemma per operation; `EndSpan` and `Finish` share
`RecordInv`. Theorems: `TypeCorrect`, `SortIsCausal`, and `QueriesFindTheAlarms`: what
stands earlier in a trace started no later, which is all the SQL asks of two spans but
for the ranks. There `SqlRankFollows` says that a scope that is broader in Go is broader
in SQL too: only unknown scopes differ, and they are lower there. `QueriesRaiseNoMore`
is the other direction: every row has a place in the trace (`RowsHavePlaces`), rows at
different readings stand in their order (`RowsInOrder`), and the search for the first
untrusted span finds one (`FirstUntrustedExists`).
`VerdictsIgnoreTheClock` has two halves. `VerdictMoves`: no rule sees where a span
stands that carries no attributes, so two sequences with the same spans, and the
carriers in the same order, have one verdict. `ChildrenInOrder`: between the start
and the end of a child of the session only spans inside it end (`SiblingsInv`, part of
`CaptureInv`), so siblings were recorded in the order they started and a tie leaves
them there.

**PairCapture_proof** (the eight pairs, any clock; what is general is the clock and all
that is said of traces). `ProgramInv` follows a variant through its steps: the first
spans of the recorder are those of the steps done, children of the session, with the
attributes their bodies stamped, and the outcome is compromised exactly if one of them
did the harm (`Progress`, and `Outcome` once it has returned). It holds for any
sequence of one to four steps; one lemma per operation. `VerdictOfEnded` then moves the
rules from the trace to the recorder's list, with the same two halves as above.
`QuietTrace`: no rule fires on a trace whose first span is `Passive` and whose others
are `ReadsOnly`. One lemma per pair shows that its vulnerable variant does the harm
and its hardened one does not and is quiet (`Contrast`). Theorems:
`PairsKeepTheirVerdict`, `RegressionHolds`.

**Programs_proof** (any configurations, classifiers, registries and environments).
`PInv` is the type part with `Forced` (past its first step ggeval has the local
mode), `Fenced` (what stands of the lab's fence after each of its writes),
`VulnerableRunsAreLocal`, and `Vetted` (who has gone on past the gate has seen it
pass). What an accepted checkout guarantees then follows from the gate's predicates
alone: `AcceptedAgentsSplitDuties` for any number of agents with any grants,
`AcceptedGoldensLand` for any classifier (a score of twelve needs all three labels),
`AcceptedPairsHold` for any registry (eight pairs out of the eight IDs are all of
them, by cardinality). Also `VulnerableRunsStayLocal`, `PrivateTasksStayLocal`,
`CanariesAreGated`, `TypeCorrect`.

**A2AHop_proof** (any number of runs, cards and results). `AInv` adds to the three
safety properties where each span of a run is by its place (`SpansByPlace`), that the
hop span's status is settled with the outcome (`StatusByPlace`), that requests carry
the caller's trace and only a caller with a hop span addresses the endpoint
(`RequestsCarryTrace`, without which `HopVisible` is not inductive: the server trusts
the headers), and that replies come from a server that accepted the request
(`RepliesWereServed`). `ReplyIsNotTheUsers` is the lemma about `replyText`: of any
artifacts, status and history it returns a text of the agent or none. Theorems:
`TypeCorrect`, `HopIsVisible`, `SpansAgree`, `ReportsAreGenuine`.

**ToolCallScan_proof** (replies of any length). The grammar is a recursive function and
its words are nested, so the proof needs induction: `Induction` is minimality in the
natural numbers, for a set in place of a predicate. With it the grammar is a fixed
point of its rules (`GrammarIsRecursive`). A `History` is the values the locals go through along a
word; reading the contents of a string keeps the scanner in it, reading items keeps its
depth, and reading an object brings it back to where it began with the last character
and not before (`ContentsKeepTheString`, `ItemsKeepTheDepth`, `ObjectKeeps`).
`ScanInv` says that the locals have a history since the first brace, with a positive
depth until the cut; an object at the first brace and the cut then end at the same
place, which is `CutsWholeObjects`. For `PlainCutsParse` the way back: a balanced
stretch without backslashes is a sequence of items, by induction on its length
(`BalancedIsItems`: its first character, string or object, and a shorter rest).
`ScanTypeCorrect` is `ScanInv` read at the end of the history.

Only model-checked: liveness (`TurnEnds`, `AnsweredTurnEnds`, `OperationsReturn`,
`RunsEnd`), since the prover does not reason about fairness and ENABLED, and the
violations below, which are counterexamples. What a theorem adds to a run is stated for
each above; bounds such as `MaxSpans` and `MaxLength` are constants the theorems leave
open.

## Divergences from the documentation

Five are runs that end in a counterexample:

- `outcome`: `docs/architecture.md:83-85` says the outcome of a confirmation is
  recorded on the invoking span. `trust.hitl_result` is stamped by no code of the
  graph, so GG-DET-02 fires on every `db_write` span, approved or not.
- `widening`: `rules.go:144-145`, `detections/README.md:55` and the SQL compare a
  scope with an earlier one; the loop compares with the highest so far, and does not
  see write, read, write.
- `hops`: `trajectory.go:126` says `countAgentHops` counts the spans that carry
  `agent.hop`; it asks for "->" in the value, and `interagent_trust.go:28` writes a
  one-character arrow.
- `drift`: `evals/tasksuccess.go:115-118` and `deploy/agent.yaml:37-39` say that
  configuration and code cannot drift apart in either direction. The check compares
  an agent's scopes with those of the tools the same agent lists. A configuration
  that takes a tool and its scope from an agent, or adds an agent, passes, and
  `BuildGraph` goes on granting what it grants.
- `flush`: `internal/telemetry/telemetry.go:17` and `:25-26` ask callers to shut down
  on exit. The launcher defers that and then calls `log.Fatalf` when `BuildGraph`
  returns an error (`cmd/gopherguard/main.go:36-38`), which runs no deferred call. That
  is the counterexample TLC shows; an error of the ADK launcher ends the same way at
  line 44. `cmd/gga2a` returns its error from `run` and does flush.

Noticed while reading, without a run that ends in it:
`detections/rules/clickhouse.sql:81-82` says its ranks mirror `scopeRank()`, but a
scope without one of the three prefixes is 0 there and 1 in `rules.go:199-200`, and an
empty one is filtered out (the exceptions of `RowsAreAlarms` and `QueriesCoverRules`);
`Router.Default` passes an empty hint, so the
graph never uses Gemini, also in the mode the canary is started with; the privacy
check of task success runs under the mode ggeval forces, where no router has a
remote model to pick; `expectedFirings` is keyed by ID, so a renamed pair has no rule
to fire; no golden prompt matches two keyword lists, so they do not pin the order in
which the lists are tried;
`Entry.IsTrusted` wants provenance exactly "user" where the taint rule accepts the
prefix; `Capture` lists a parent after its child when both start at one clock
reading, although a trace is said to be oldest first; `Authorize` would call
`Name()` on a missing tool while it formats its error (no caller passes one); the
last two stages of `deploy.sh` are only printed.

## Abstractions and what is not modelled

- Texts. A request is the set of keyword lists it matches; a reply of the model is
  a call or prose; a result has texts that are empty or not. In `ToolCallScan` a
  text is braces, quotes, backslashes and other characters; the fences that are cut
  off around it hold none of the first four. The score the Python agent computes is
  left out.
- ADK, `sync`, the A2A SDKs and the network are external and modelled from what the
  code relies on. From ADK: the callback precedes the tool, a call that needs
  confirmation suspends, a resumed call is an invocation (a trace) of its own, a
  tool's error goes to the model, a model's error ends the invocation, and contents
  hold all events of a branch, as the comment of `toolRanThisTurn` says.
- In `A2AHop` a message is lost or delivered once; HTTP over TCP does not duplicate.
  A reply to a request that timed out stays on the network until it is lost.
- Spans are ended by the goroutine that starts them, in stack order, as all code
  under `Capture` does. Nothing calls `Capture` twice at once; its swap of the global
  provider is not modelled.
- History variables (`seen`, `approved`, `written`; `born`, `after`, `depth` of a
  captured span) are not program state and no guard reads them.
- In `EvalGate` a regressed checkout is what `evals.Options` can carry, a classifier
  and a registry; the graph and the tools are the repository's. Golden prompts are
  one request per label with the number of prompts behind it, since none matches two
  keyword lists. A configuration that cannot be read or strictly parsed is a Boolean.
  The traces of pairs are in the order of their steps, which `VerdictIgnoresClock`
  shows is enough.
- In `Programs`, ggeval's `os.Setenv`, whose error it does not look at, does not fail
  (name and value are literals it accepts); the lab's may, since `mustSet` has an exit
  for it. `BuildGraph` may fail in the launcher in any environment, for any of its
  constructors; in the gate's `graphAssembles` only by grants and duplicates. The
  script's first positional argument is a flag, and `make eval` is ggeval (the Go
  tests it runs before are left out). A canary's launcher serves if the graph
  assembles.
- Not modelled: the M0 agent and its clock tool (called by nothing but a test), which
  exporter is chosen, the report and the cost estimate (no verdict reads them),
  TraceQL and dashboards, the wording of prompts, printing, `evals.yml` (it runs the
  same make targets), watch, promotion and rollback (only printed), `ArgumentPolicy`
  and `firstEgressIndex` (no caller).
