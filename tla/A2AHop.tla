------------------------------- MODULE A2AHop -------------------------------
(***************************************************************************)
(* The polyglot hop: runs of cmd/gga2a, each a coordinator span around one *)
(* AnalysisClient call (internal/a2aremote), against the Python analysis   *)
(* agent (a2a-python/analysis_agent).  The network may lose a request or a *)
(* reply; the HTTP client gives up after its timeout, whether the agent is *)
(* still working or not.  The protocol libraries are external: here they   *)
(* carry a request with its headers, and a result.                         *)
(***************************************************************************)
EXTENDS Naturals, Sequences, FiniteSets

CONSTANTS
  Runs,      \* runs of gga2a; each has a trace of its own
  Cards,     \* the agent cards a server may serve
  Texts,     \* what the agent may say; its report has a header (agent.py:59)
  Results    \* the results its JSON-RPC endpoint may return

VARIABLES
  recording,  \* whether the run's tracer provider records spans
  pc,         \* where each run stands
  spans,      \* the Go spans of a run that have started: name -> status
  exported,   \* the names of those that have ended while the provider was up
  outcome,    \* what run returns
  net,        \* requests and replies on their way
  serving,    \* requests the Python server is working on
  pySpans     \* the server's spans: run, trace and whether they carry the hop

vars == <<recording, pc, spans, exported, outcome, net, serving, pySpans>>

-----------------------------------------------------------------------------
(* Data *)

NoText   == ""
UserText == "ask"

Message(role, text) == [role |-> role, text |-> text]
Bare(text)          == [kind |-> "message", message |-> Message("agent", text)]
Task(artifacts, status, history) ==
  [kind |-> "task", artifacts |-> artifacts, status |-> status, history |-> history]

ASSUME ResultsAssumption ==
  /\ NoText \in Texts /\ UserText \notin Texts
  /\ \A result \in Results :
       IF result.kind = "message" THEN result.message.text \in Texts
       ELSE /\ result.artifacts \in Seq(Texts) /\ result.status \in Texts
            /\ result.history \in Seq([role : {"user"}, text : {UserText}]
                                       \cup [role : {"agent"}, text : Texts])

\* The first text of a sequence that is not empty, "" if there is none.
FirstText(texts) ==
  LET some == {i \in DOMAIN texts : texts[i] # NoText} IN
  IF some = {} THEN NoText
  ELSE texts[CHOOSE i \in some : \A j \in some : i <= j]

\* Mutant: the history is searched whoever speaks.
SpokenByAnyone(history) ==
  [i \in DOMAIN history |-> history[Len(history) + 1 - i].text]

\* What the agent said, latest first.
SpokenByAgent(history) ==
  [i \in DOMAIN history |->
     LET m == history[Len(history) + 1 - i] IN
     IF m.role = "agent" THEN m.text ELSE NoText]

\* replyText: a message, or of a task its artifacts, its status, its history.
ReplyText(result) ==
  IF result.kind = "message" THEN result.message.text
  ELSE FirstText(result.artifacts \o <<result.status>> \o SpokenByAgent(result.history))

\* parseCard: v1.0 if that yields interfaces, v0.3 otherwise, or no card; a card
\* without a JSON-RPC interface yields no client.
UsableCard(card) == card \in {"v1", "v0.3"}

-----------------------------------------------------------------------------
(* The Go side *)

A2AInit ==
  /\ recording \in [Runs -> BOOLEAN]
  /\ pc = [r \in Runs |-> "start"]
  /\ spans = [r \in Runs |-> [n \in {} |-> n]]
  /\ exported = [r \in Runs |-> {}]
  /\ outcome = [r \in Runs |-> [kind |-> "none"]]
  /\ net = {} /\ serving = {} /\ pySpans = {}

Goto(r, place) == pc' = [pc EXCEPT ![r] = place]

WithSpan(r, name, status) ==
  [spans EXCEPT ![r] = [n \in DOMAIN spans[r] \cup {name} |->
                          IF n = name THEN status ELSE spans[r][n]]]

\* traceparentTransport.RoundTrip: the trace of the request context goes along.
\* A span that does not record has none to give.
Request(r, path) ==
  [type |-> "request", run |-> r, path |-> path,
   traceparent |-> IF recording[r] THEN {r} ELSE {}]

Reply(r, path, body) == [type |-> "reply", run |-> r, path |-> path, body |-> body]

Return(r, result, place) ==
  /\ outcome' = [outcome EXCEPT ![r] = result]
  /\ Goto(r, place)

\* telemetry.Setup fails: run returns before it has deferred anything.
SetupFails(r) ==
  /\ pc[r] = "start"
  /\ Return(r, [kind |-> "error"], "exited")
  /\ UNCHANGED <<recording, spans, exported, net, serving, pySpans>>

\* The coordinator span, and NewAnalysisClient asking for the agent card.
Connect(r) ==
  /\ pc[r] = "start"
  /\ spans' = WithSpan(r, "coordinator", "unset")
  /\ net' = net \cup {Request(r, "card")}
  /\ Goto(r, "resolving")
  /\ UNCHANGED <<recording, exported, outcome, serving, pySpans>>

\* The card is here: Analyze starts its span and sends the message, or the
\* client is not built.
ResolveCard(r, m) ==
  /\ pc[r] = "resolving" /\ m \in net
  /\ m.type = "reply" /\ m.run = r /\ m.path = "card"
  /\ IF UsableCard(m.body)
       THEN /\ spans' = WithSpan(r, "a2a.analyze", "unset")
            /\ net' = (net \ {m}) \cup {Request(r, "rpc")}
            /\ Goto(r, "waiting")
            /\ UNCHANGED outcome
       ELSE /\ Return(r, [kind |-> "error"], "returning")
            /\ net' = net \ {m}
            /\ UNCHANGED spans
  /\ UNCHANGED <<recording, exported, serving, pySpans>>

\* The request for the card fails or times out.
ResolveFails(r) ==
  /\ pc[r] = "resolving"
  /\ Return(r, [kind |-> "error"], "returning")
  /\ UNCHANGED <<recording, spans, exported, net, serving, pySpans>>

\* Mutant: an empty reply is an error the span does not show.
AnswerUnmarked(r, text) ==
  IF text = NoText
  THEN Return(r, [kind |-> "error"], "ending") /\ UNCHANGED spans
  ELSE Return(r, [kind |-> "report", text |-> text], "ending") /\ UNCHANGED spans

\* What Analyze makes of the reply's text.
Answer(r, text) ==
  IF text = NoText
  THEN /\ Return(r, [kind |-> "error"], "ending")
       /\ spans' = WithSpan(r, "a2a.analyze", "error")
  ELSE /\ Return(r, [kind |-> "report", text |-> text], "ending")
       /\ UNCHANGED spans

Receive(r, m) ==
  /\ pc[r] = "waiting" /\ m \in net
  /\ m.type = "reply" /\ m.run = r /\ m.path = "rpc"
  /\ Answer(r, ReplyText(m.body))
  /\ net' = net \ {m}
  /\ UNCHANGED <<recording, exported, serving, pySpans>>

\* Mutant: the HTTP client has no timeout, so only a lost message is noticed.
SendFailsOnReset(r) ==
  /\ pc[r] = "waiting"
  /\ ~\E m \in net \cup serving : m.run = r
  /\ Return(r, [kind |-> "error"], "ending")
  /\ spans' = WithSpan(r, "a2a.analyze", "error")
  /\ UNCHANGED <<recording, exported, net, serving, pySpans>>

\* Mutant: the error branch of Analyze does not return.
SendFailsWithoutReturn(r) ==
  /\ pc[r] = "waiting"
  /\ outcome' = [outcome EXCEPT ![r] = [kind |-> "error"]]
  /\ spans' = WithSpan(r, "a2a.analyze", "error")
  /\ UNCHANGED <<recording, pc, exported, net, serving, pySpans>>

\* SendMessage returns an error: refused, reset, or requestTimeout is over.  An
\* answer that comes later finds nobody waiting.
SendFails(r) ==
  /\ pc[r] = "waiting"
  /\ Return(r, [kind |-> "error"], "ending")
  /\ spans' = WithSpan(r, "a2a.analyze", "error")
  /\ UNCHANGED <<recording, exported, net, serving, pySpans>>

EndSpan(r, name) ==
  exported' = IF recording[r] THEN [exported EXCEPT ![r] = @ \cup {name}] ELSE exported

\* defer span.End() of Analyze
EndAnalyze(r) ==
  /\ pc[r] = "ending"
  /\ EndSpan(r, "a2a.analyze")
  /\ Goto(r, "returning")
  /\ UNCHANGED <<recording, spans, outcome, net, serving, pySpans>>

\* Mutant: the provider is shut down before the coordinator span has ended.
ShutDownFirst(r) ==
  /\ pc[r] = "returning"
  /\ Goto(r, "exited")
  /\ UNCHANGED <<recording, spans, exported, outcome, net, serving, pySpans>>

\* The deferred calls of run, last first: span.End() of the coordinator span,
\* then the Shutdowns, which flush and end all exporting.
EndRun(r) ==
  /\ pc[r] = "returning"
  /\ EndSpan(r, "coordinator")
  /\ Goto(r, "exited")
  /\ UNCHANGED <<recording, spans, outcome, net, serving, pySpans>>

-----------------------------------------------------------------------------
(* The Python side *)

\* Mutant: the server relies on the agent to stamp the hop.
AcceptUnstamped(m) ==
  /\ m \in net /\ m.type = "request"
  /\ pySpans' = pySpans \cup
       {[run |-> m.run, path |-> m.path, trace |-> m.traceparent, hop |-> FALSE]}
  /\ serving' = serving \cup {[run |-> m.run, path |-> m.path, stage |-> "accepted"]}
  /\ net' = net \ {m}
  /\ UNCHANGED <<recording, pc, spans, exported, outcome>>

\* The ASGI middleware starts a span in the trace the headers name, or in a new
\* one, and _stamp_hop puts the hop on it if the path is the endpoint.
Accept(m) ==
  /\ m \in net /\ m.type = "request"
  /\ pySpans' = pySpans \cup
       {[run |-> m.run, path |-> m.path, trace |-> m.traceparent, hop |-> m.path = "rpc"]}
  /\ serving' = serving \cup {[run |-> m.run, path |-> m.path, stage |-> "accepted"]}
  /\ net' = net \ {m}
  /\ UNCHANGED <<recording, pc, spans, exported, outcome>>

ServeCard(w, card) ==
  /\ w \in serving /\ w.path = "card"
  /\ net' = net \cup {Reply(w.run, "card", card)}
  /\ serving' = serving \ {w}
  /\ UNCHANGED <<recording, pc, spans, exported, outcome, pySpans>>

\* AnalysisAgent._run_async_impl: the SDK may run it outside the request's
\* context, and then there is no recording span to stamp.
RunAgent(w, inContext) ==
  /\ w \in serving /\ w.path = "rpc" /\ w.stage = "accepted"
  /\ pySpans' = IF inContext
                THEN {IF s.run = w.run /\ s.path = "rpc" THEN [s EXCEPT !.hop = TRUE] ELSE s :
                        s \in pySpans}
                ELSE pySpans
  /\ serving' = (serving \ {w}) \cup {[w EXCEPT !.stage = "analyzed"]}
  /\ UNCHANGED <<recording, pc, spans, exported, outcome, net>>

Respond(w, result) ==
  /\ w \in serving /\ w.path = "rpc" /\ w.stage = "analyzed"
  /\ net' = net \cup {Reply(w.run, "rpc", result)}
  /\ serving' = serving \ {w}
  /\ UNCHANGED <<recording, pc, spans, exported, outcome, pySpans>>

-----------------------------------------------------------------------------
\* The network loses a message, or the server dies over a request; external.
Lose ==
  /\ \/ \E m \in net : net' = net \ {m} /\ UNCHANGED serving
     \/ \E w \in serving : serving' = serving \ {w} /\ UNCHANGED net
  /\ UNCHANGED <<recording, pc, spans, exported, outcome, pySpans>>

RunStep(r) ==
  \/ SetupFails(r)
  \/ Connect(r)
  \/ \E m \in net : ResolveCard(r, m)
  \/ ResolveFails(r)
  \/ \E m \in net : Receive(r, m)
  \/ SendFails(r)
  \/ EndAnalyze(r)
  \/ EndRun(r)

ServerStep ==
  \/ \E m \in net : Accept(m)
  \/ \E w \in serving, card \in Cards : ServeCard(w, card)
  \/ \E w \in serving, inContext \in BOOLEAN : RunAgent(w, inContext)
  \/ \E w \in serving, result \in Results : Respond(w, result)

A2ANext == (\E r \in Runs : RunStep(r)) \/ ServerStep \/ Lose

A2ASpec == A2AInit /\ [][A2ANext]_vars

\* A run is a process the operating system schedules, and its timeouts expire.
\* Nothing is assumed of the server or the network.
A2AFairSpec == A2ASpec /\ \A r \in Runs : WF_vars(RunStep(r))

-----------------------------------------------------------------------------
(* Properties *)

A2ATypeOK ==
  /\ \A r \in Runs :
       /\ pc[r] \in {"start", "resolving", "waiting", "ending", "returning", "exited"}
       /\ exported[r] \subseteq DOMAIN spans[r]
       /\ DOMAIN spans[r] \subseteq {"coordinator", "a2a.analyze"}
       /\ (outcome[r].kind = "none") <=> (pc[r] \in {"start", "resolving", "waiting"})
  /\ \A w \in serving : \E s \in pySpans : s.run = w.run /\ s.path = w.path

\* One trace, two runtimes (agent.py:8, a2aremote.go:5): whenever the endpoint has
\* been reached from a recording caller, the server's span is in the caller's
\* trace and carries the hop, in whatever context the SDK runs the agent; and the
\* caller has its own span for the hop.
HopVisible ==
  \A s \in pySpans :
    s.path = "rpc" /\ recording[s.run] =>
      /\ s.trace = {s.run} /\ s.hop
      /\ "a2a.analyze" \in DOMAIN spans[s.run]

\* When a run is over its spans have all been exported, and the hop span has an
\* error status exactly if the call failed, by timeout, loss or an empty reply.
SpansTellTheOutcome ==
  \A r \in Runs :
    pc[r] = "exited" =>
      /\ recording[r] => exported[r] = DOMAIN spans[r]
      /\ IF "a2a.analyze" \in DOMAIN spans[r]
           THEN spans[r]["a2a.analyze"] = "error" <=> outcome[r].kind = "error"
           ELSE outcome[r].kind = "error"

\* A report is a text the agent produced for this very run: never empty, and never
\* the user's own words out of the task's history.
ReportsAreTheAgents ==
  \A r \in Runs :
    outcome[r].kind = "report" =>
      /\ outcome[r].text \notin {NoText, UserText}
      /\ \E s \in pySpans : s.run = r /\ s.path = "rpc"

\* Every run ends, whatever the network loses and even if the server never answers.
RunsEnd == \A r \in Runs : <>(pc[r] = "exited")
=============================================================================
