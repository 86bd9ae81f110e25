---------------------------- MODULE AgentSession ----------------------------
(***************************************************************************)
(* The hardened graph at work: sessions take turns through the coordinator *)
(* and one agent, the agent's model is asked over the local tool bridge, a *)
(* tool call passes the trust callback, ADK's confirmation gate and the    *)
(* tool's own handler, and every session shares one in-memory database.    *)
(*                                                                         *)
(* ADK is external.  From it the model takes what the code relies on: the  *)
(* callback runs before the tool, RequireConfirmation suspends a call until*)
(* a human answers, a tool's error is a result the agent can read, an error*)
(* of the model ends the invocation, and a resumed call is an invocation,  *)
(* hence a trace, of its own.  The contents an agent sees are all events   *)
(* of its branch of the session, earlier turns included.                   *)
(***************************************************************************)
EXTENDS AgentGraph, Detect, ToolBridge

CONSTANTS
  Sessions,   \* the concurrent sessions
  Keys,       \* record keys a tool call may name, blank ones aside
  Values,     \* record values
  Absent,     \* what a key without a record reads as
  Blank,      \* a missing, empty or white-space argument
  Seed,       \* the rows NewInMemoryDB starts with
  MaxTurns    \* bound on the turns of each session

ASSUME ConstantsAssumption ==
  /\ Absent \notin Values
  /\ Blank \notin Keys
  /\ Seed \in [Keys -> Values \cup {Absent}]
  /\ MaxTurns \in [Sessions -> Nat]

VARIABLES
  db,          \* tools.DB.data
  phase,       \* where each session's current turn stands
  turn,        \* the turns each session has taken
  agent,       \* the agent the coordinator routed the turn to
  contents,    \* per session and agent, the contents of its branch
  call,        \* the function call the model asked for in this turn
  answer,      \* the tool confirmation of that call
  trace,       \* the spans of the session's current invocation
  seen,        \* history: the <<key, value>> pairs query results reported
  approved,    \* history: the writes a human approved, with their turn
  written      \* history: the writes that took place, with their turn

sessionVars == <<phase, turn, agent, contents, call, answer, trace>>
histories   == <<seen, approved, written>>
vars        == <<db, sessionVars, histories>>

NoCall == [json |-> FALSE, tool |-> "", key |-> Blank, value |-> Absent]

\* What a model may reply: prose, or a JSON object naming any tool at all.
Calls ==
  [json : {TRUE}, tool : {"web_search", "db_query"},
   key : Keys \cup {Blank}, value : {Absent}]
    \cup [json : {TRUE}, tool : {"db_write"}, key : Keys \cup {Blank}, value : Values]
    \cup [json : {TRUE}, tool : {"unknown"}, key : {Blank}, value : {Absent}]

Replies == Calls \cup {NoCall}

Record(s) == [session |-> s, turn |-> turn[s], key |-> call[s].key,
              value |-> call[s].value]

Branch(s) == contents[s][agent[s]]

Say(s, role, parts) ==
  contents' = [contents EXCEPT ![s][agent[s]] = Append(@, Content(role, parts))]

Goto(s, p) == phase' = [phase EXCEPT ![s] = p]

Init ==
  /\ db = Seed
  /\ phase = [s \in Sessions |-> "idle"]
  /\ turn = [s \in Sessions |-> 0]
  /\ agent = [s \in Sessions |-> "writer"]
  /\ contents = [s \in Sessions |-> [a \in Agents |-> << >>]]
  /\ call = [s \in Sessions |-> NoCall]
  /\ answer = [s \in Sessions |-> "none"]
  /\ trace = [s \in Sessions |-> << >>]
  /\ seen = {} /\ approved = {} /\ written = {}

-----------------------------------------------------------------------------
(* The coordinator *)

\* A user message: the coordinator classifies it, stamps the route reason and
\* passes the text to the one successor its route selects.
Coordinate(s, request) ==
  LET route == Classify(request)
      a     == Successor(route)
      text  == IF request.blank THEN {} ELSE {"text"}
  IN
  /\ phase[s] = "idle"
  /\ turn[s] < MaxTurns[s]
  /\ turn' = [turn EXCEPT ![s] = @ + 1]
  /\ agent' = [agent EXCEPT ![s] = a]
  /\ contents' = [contents EXCEPT ![s][a] = Append(@, Content("user", text))]
  /\ trace' = [trace EXCEPT ![s] =
       << SetAttributes(MkSpan("coordinator", NoAttrs),
                        [k \in {KeyModelRouteReason} |-> route]) >>]
  /\ call' = [call EXCEPT ![s] = NoCall]
  /\ answer' = [answer EXCEPT ![s] = "none"]
  /\ Goto(s, "generate")
  /\ UNCHANGED <<db, histories>>

-----------------------------------------------------------------------------
(* Gemma.GenerateContent: one Ollama call, one yield *)

\* The reply is a call of an offered tool.
GenerateCall(s, reply) ==
  /\ phase[s] = "generate"
  /\ ParsesAsCall(reply, Offered(Branch(s), Held(agent[s])))
  /\ call' = [call EXCEPT ![s] = reply]
  /\ answer' = [answer EXCEPT ![s] = "none"]
  /\ Say(s, "model", {"call"})
  /\ Goto(s, "callback")
  /\ UNCHANGED <<db, turn, agent, trace, histories>>

\* Any other reply is the final answer, whatever it looks like.
GenerateText(s, reply) ==
  /\ phase[s] = "generate"
  /\ ~ParsesAsCall(reply, Offered(Branch(s), Held(agent[s])))
  /\ Say(s, "model", {"text"})
  /\ Goto(s, "idle")
  /\ UNCHANGED <<db, turn, agent, call, answer, trace, histories>>

\* Marshalling, the request, its timeout, the status, the decoding or Ollama
\* itself reports an error: it is yielded and the invocation ends.
GenerateError(s) ==
  /\ phase[s] = "generate"
  /\ Goto(s, "idle")
  /\ UNCHANGED <<db, turn, agent, contents, call, answer, trace, histories>>

-----------------------------------------------------------------------------
(* Running the tool *)

\* ADK opens the tool's span and runs the BeforeToolCallback on it.
BeforeTool(s) ==
  /\ phase[s] = "callback"
  /\ trace' = [trace EXCEPT ![s] =
       Append(@, TrustCallback(agent[s], call[s].tool,
                               MkSpan(call[s].tool, NoAttrs)))]
  /\ Goto(s, "tool")
  /\ UNCHANGED <<db, turn, agent, contents, call, answer, histories>>

\* Whether a call runs its handler; external, functiontool's gate.
MayRun(s) == Tool[call[s].tool].confirm => answer[s] = "approved"

\* An unanswered call of a gated tool suspends the turn; external.
AskHuman(s) ==
  /\ phase[s] = "tool"
  /\ ~MayRun(s) /\ answer[s] = "none"
  /\ Goto(s, "confirm")
  /\ UNCHANGED <<db, turn, agent, contents, call, answer, trace, histories>>

\* The human's answer resumes the call in an invocation of its own; external.
HumanAnswers(s, yes) ==
  /\ phase[s] = "confirm"
  /\ answer' = [answer EXCEPT ![s] = IF yes THEN "approved" ELSE "denied"]
  /\ approved' = IF yes THEN approved \cup {Record(s)} ELSE approved
  /\ trace' = [trace EXCEPT ![s] = << >>]
  /\ Goto(s, "callback")
  /\ UNCHANGED <<db, turn, agent, contents, call, seen, written>>

\* Mutant: the call is run again instead of reporting to the model.
ReturnByRetry(s) == Goto(s, "tool") /\ UNCHANGED contents

\* The result, or the error, goes back to the model; external.
Return(s) == Say(s, "user", {"result"}) /\ Goto(s, "generate")

\* A denied call returns an error and runs nothing; external.
Rejected(s) ==
  /\ phase[s] = "tool"
  /\ ~MayRun(s) /\ answer[s] = "denied"
  /\ Return(s)
  /\ UNCHANGED <<db, turn, agent, call, answer, trace, histories>>

\* The offline fixture, or an error for a blank query: neither has effects.
WebSearch(s) ==
  /\ phase[s] = "tool"
  /\ MayRun(s) /\ call[s].tool = "web_search"
  /\ Return(s)
  /\ UNCHANGED <<db, turn, agent, call, answer, trace, histories>>

\* A blank key lists the keys; another reads the record under the lock.
DBQuery(s) ==
  /\ phase[s] = "tool"
  /\ MayRun(s) /\ call[s].tool = "db_query"
  /\ seen' = IF call[s].key = Blank THEN seen
             ELSE seen \cup {<<call[s].key, db[call[s].key]>>}
  /\ Return(s)
  /\ UNCHANGED <<db, turn, agent, call, answer, trace, approved, written>>

\* Mutant: the blank-key check is dropped, and a record named blank appears.
DBWriteUnchecked(s) ==
  /\ phase[s] = "tool"
  /\ MayRun(s) /\ call[s].tool = "db_write"
  /\ db' = [k \in DOMAIN db \cup {call[s].key} |->
              IF k = call[s].key THEN call[s].value ELSE db[k]]
  /\ written' = written \cup {Record(s)}
  /\ Return(s)
  /\ UNCHANGED <<turn, agent, call, answer, trace, seen, approved>>

\* A blank key is an error; another is set under the lock.
DBWrite(s) ==
  /\ phase[s] = "tool"
  /\ MayRun(s) /\ call[s].tool = "db_write"
  /\ IF call[s].key = Blank
       THEN UNCHANGED <<db, written>>
       ELSE /\ db' = [db EXCEPT ![call[s].key] = call[s].value]
            /\ written' = written \cup {Record(s)}
  /\ Return(s)
  /\ UNCHANGED <<turn, agent, call, answer, trace, seen, approved>>

RunTool(s) == Rejected(s) \/ WebSearch(s) \/ DBQuery(s) \/ DBWrite(s)

-----------------------------------------------------------------------------
Program(s) ==
  \/ \E reply \in Replies : GenerateCall(s, reply) \/ GenerateText(s, reply)
  \/ GenerateError(s)
  \/ BeforeTool(s)
  \/ AskHuman(s)
  \/ RunTool(s)

User(s) ==
  \/ \E request \in Requests : Coordinate(s, request)
  \/ \E yes \in BOOLEAN : HumanAnswers(s, yes)

Next == \E s \in Sessions : Program(s) \/ User(s)

Spec == Init /\ [][Next]_vars

\* The client's timeout bounds the Ollama call and handlers only compute, so
\* a turn that can take a step takes one.  Nothing makes a human act.
FairSpec == Spec /\ \A s \in Sessions : WF_vars(Program(s))

-----------------------------------------------------------------------------
(* Properties *)

Phases == {"idle", "generate", "callback", "tool", "confirm"}

\* The spans an invocation of the graph emits.
Spans ==
  {SetAttributes(MkSpan("coordinator", NoAttrs),
                 [k \in {KeyModelRouteReason} |-> route]) :
     route \in {"research", "data", "write"}}
    \cup {SetAttributes(MkSpan(t, NoAttrs), TrustAttrs(Tool[t])) : t \in ToolNames}

Writes == [session : Sessions, turn : Nat, key : Keys \cup {Blank},
           value : Values \cup {Absent}]

\* Every variable holds a value of its kind, and the database has exactly the
\* records a non-blank key can name.
TypeOK ==
  /\ db \in [Keys -> Values \cup {Absent}]
  /\ phase \in [Sessions -> Phases]
  /\ turn \in [Sessions -> Nat]
  /\ agent \in [Sessions -> Agents]
  /\ contents \in [Sessions -> [Agents -> Seq(Contents)]]
  /\ call \in [Sessions -> Replies]
  /\ answer \in [Sessions -> {"none", "approved", "denied"}]
  /\ trace \in [Sessions -> Seq(Spans)]
  /\ seen \subseteq Keys \X (Values \cup {Absent})
  /\ approved \subseteq Writes
  /\ written \subseteq Writes

\* No write takes place that a human did not approve for that very call: its
\* session, its turn, its key and its value.  What the database holds, and
\* what any session ever read from it, is the seed or such a write, however
\* the sessions interleave between asking, answering and running (the
\* RequireConfirmation gate of db_write).
ApprovedWritesOnly ==
  /\ written \subseteq approved
  /\ \A k \in Keys :
       db[k] = Seed[k] \/ \E w \in written : w.key = k /\ w.value = db[k]
  /\ \A r \in seen :
       r[2] = Seed[r[1]] \/ \E w \in written : w.key = r[1] /\ w.value = r[2]

\* What stands between a session and its next write: nothing, the human who is
\* asked about the call in hand, or the yes that was given to it.
Pending(s) ==
  LET write == [key |-> call[s].key, value |-> call[s].value] IN
  IF phase[s] = "confirm"
    THEN [state |-> "awaiting", write |-> write]
  ELSE IF phase[s] \in {"callback", "tool"} /\ answer[s] = "approved"
    THEN [state |-> "approved", write |-> write]
  ELSE [state |-> "none"]

Gated == INSTANCE GatedWrites WITH pending <- [s \in Sessions |-> Pending(s)]

\* Seen from the database, the sessions do what GatedWrites allows: a yes is
\* worth one write of the key and value it was asked about, a no is worth none,
\* and nothing else changes a record, whatever happens between the question,
\* the answer, the second run of the callback and the handler.
OneWritePerApproval == Gated!Spec

IsCall(c) == "call" \in c.parts

\* The bridge is one-shot: between two tool calls of a branch there is always
\* a new text of the user (the toolRanThisTurn scan), whatever the model
\* replies and however long the history grows.
OneCallPerTurn ==
  \A s \in Sessions, a \in Agents : \A i, j \in DOMAIN contents[s][a] :
    (i < j /\ IsCall(contents[s][a][i]) /\ IsCall(contents[s][a][j]))
      => \E m \in i + 1 .. j - 1 : UserText(contents[s][a][m])

\* The one-shot rule is scoped to the turn: until a turn has made its call its
\* agent is offered all its tools, whatever earlier turns left in the history.
FreshTurnOffersTools ==
  \A s \in Sessions :
    (phase[s] = "generate" /\ call[s] = NoCall)
      => Offered(Branch(s), Held(agent[s])) = Held(agent[s])

\* A tool runs only for an agent that was granted its scope, and by the time it
\* runs the span of the call says so: no reply of the model, which may name
\* any tool, gets past the names offered and the stamping callback.
WithinGrant ==
  \A s \in Sessions : phase[s] \in {"callback", "tool", "confirm"} =>
    /\ call[s].tool \in Held(agent[s])
    /\ Tool[call[s].tool].scope \in Granted(agent[s])
    /\ phase[s] = "tool" =>
         /\ trace[s] # << >>
         /\ LET span == trace[s][Len(trace[s])] IN
             /\ span.name = call[s].tool
             /\ Has(span, KeyPrivilegeScope)
             /\ span.attrs[KeyPrivilegeScope] = Tool[call[s].tool].scope
             /\ IsTrue(span, KeyHITLRequired) <=> Tool[call[s].tool].mutating

\* No invocation of the hardened graph trips the loop, widening or taint rule:
\* code routing and the one-shot bridge leave one scoped span in a trace.
HardenedTurnsQuiet ==
  \A s \in Sessions :
    ~LoopRunaway(trace[s]) /\ ~PrivilegeWidening(trace[s]) /\ ~MemoryTaint(trace[s])

\* docs/architecture.md: "the outcome is recorded via trust.hitl_required /
\* trust.hitl_result on the invoking span".  Once an answered call has
\* returned, its span carries the outcome.
OutcomeRecorded ==
  \A s \in Sessions :
    (phase[s] = "generate" /\ answer[s] # "none")
      => Has(trace[s][Len(trace[s])], KeyHITLResult)

\* A session's own part of the state, its turn apart.
Local(s) == <<phase[s], agent[s], contents[s], call[s], answer[s], trace[s]>>

\* The steps a turn still has at most: a model call, which asks for a tool; its
\* callback and handler, twice if a human is asked in between; the last model call.
Left(s) ==
  CASE phase[s] = "idle"     -> 0
    [] phase[s] = "generate" -> IF call[s] = NoCall THEN 7 ELSE 1
    [] phase[s] = "callback" -> IF answer[s] = "none" THEN 6 ELSE 3
    [] phase[s] = "tool"     -> IF answer[s] = "none" THEN 5 ELSE 2
    [] phase[s] = "confirm"  -> 4

\* Every step of a turn, whoever takes it, leaves fewer steps to take: no reply,
\* answer or tool keeps a turn going.  The code counts no rounds; it is the one-shot
\* rule that bounds a turn "instead of looping" (internal/model/gemma.go:105-109).
TurnsRunDown ==
  [][\A s \in Sessions :
       turn'[s] = turn[s] => Local(s)' = Local(s) \/ Left(s)' < Left(s)]_vars

\* A turn the program can advance ends, or waits for a human.
TurnEnds ==
  \A s \in Sessions :
    phase[s] \in {"generate", "callback", "tool"} ~> phase[s] \in {"idle", "confirm"}

\* Once the human has answered, the turn ends without asking again.
AnsweredTurnEnds ==
  \A s \in Sessions :
    (answer[s] # "none" /\ phase[s] # "idle") ~> phase[s] = "idle"
============================================================================
