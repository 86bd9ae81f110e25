------------------------- MODULE AgentSession_proof -------------------------
(***************************************************************************)
(* Proofs about AgentSession, for every set of sessions, keys and values   *)
(* and any number of turns.                                                *)
(***************************************************************************)
EXTENDS AgentSession, FiniteSetTheorems, TLAPS

LEMMA StampedSpan ==
  ASSUME NEW a \in Agents, NEW t \in Held(a)
  PROVE  /\ t \in ToolNames
         /\ TrustCallback(a, t, MkSpan(t, NoAttrs)) \in Spans
         /\ TrustCallback(a, t, MkSpan(t, NoAttrs))
              = SetAttributes(MkSpan(t, NoAttrs), TrustAttrs(Tool[t]))
<1>1. t \in ToolNames
  BY DEF Agents, Held, ToolNames
<1>2. TrustCallback(a, t, MkSpan(t, NoAttrs))
        = SetAttributes(MkSpan(t, NoAttrs), TrustAttrs(Tool[t]))
  BY DEF TrustCallback
<1>3. QED
  BY <1>1, <1>2 DEF Spans

LEMMA Routing ==
  ASSUME NEW request \in Requests
  PROVE  /\ Classify(request) \in {"research", "data", "write"}
         /\ Successor(Classify(request)) \in Agents
         /\ SetAttributes(MkSpan("coordinator", NoAttrs),
              [k \in {KeyModelRouteReason} |-> Classify(request)]) \in Spans
  BY DEF Classify, Successor, Agents, Spans

\* The call in hand is one the agent was offered, and if it has been approved
\* the approval names this very call.
CallInHand ==
  \A s \in Sessions : phase[s] \in {"callback", "tool", "confirm"} =>
    /\ call[s] \in Calls
    /\ call[s].tool \in Held(agent[s])
    /\ (answer[s] = "approved" /\ phase[s] # "confirm") => Record(s) \in approved

\* The histories a branch can have.  A call is settled once a result or a new
\* text of the user follows it; two calls are spaced by a text of the user.
Settled(h) ==
  \A i \in DOMAIN h : IsCall(h[i]) =>
    \E m \in i + 1 .. Len(h) : UserText(h[m]) \/ HasResult(h[m])

Spaced(h) ==
  \A i, j \in DOMAIN h :
    (i < j /\ IsCall(h[i]) /\ IsCall(h[j])) => \E m \in i + 1 .. j - 1 : UserText(h[m])

InCall == {"callback", "tool", "confirm"}

\* Only the call in hand is unsettled.
CallsSettled ==
  \A s \in Sessions, a \in Agents :
    Settled(contents[s][a]) \/ (a = agent[s] /\ phase[s] \in InCall)

CallsSpaced == \A s \in Sessions, a \in Agents : Spaced(contents[s][a])

\* A turn that has not called yet goes to the writer, who has no tools, or its
\* branch ends with the user's text.
FreshTurn ==
  \A s \in Sessions :
    (phase[s] = "generate" /\ call[s] = NoCall)
      => agent[s] = "writer" \/ ~ToolRanThisTurn(Branch(s))

\* The spans of an invocation: at most the coordinator's, then at most one
\* tool's; and once there is one, the bridge sees its result.
CoordinatorSpan(route) ==
  SetAttributes(MkSpan("coordinator", NoAttrs), [k \in {KeyModelRouteReason} |-> route])

ToolSpan(t) == SetAttributes(MkSpan(t, NoAttrs), TrustAttrs(Tool[t]))

Unstamped == {<< >>} \cup {<<CoordinatorSpan(r)>> : r \in {"research", "data", "write"}}

Stamped(t, tool) == \E u \in Unstamped : t = Append(u, ToolSpan(tool))

TraceShape ==
  \A s \in Sessions :
    /\ trace[s] \in Unstamped \/ \E tool \in ToolNames : Stamped(trace[s], tool)
    /\ phase[s] = "callback" => trace[s] \in Unstamped
    /\ phase[s] = "tool" => Stamped(trace[s], call[s].tool)
    /\ phase[s] = "generate" => trace[s] \in Unstamped \/ ToolRanThisTurn(Branch(s))

IInv == /\ TypeOK /\ CallInHand /\ ApprovedWritesOnly
        /\ CallsSettled /\ CallsSpaced /\ FreshTurn /\ TraceShape

\* Appending to the branch of the turn keeps every branch a history.
LEMMA SayType ==
  ASSUME TypeOK, NEW s \in Sessions, NEW role \in {"user", "model"},
         NEW part \in {"text", "call", "result"}, Say(s, role, {part})
  PROVE  contents' \in [Sessions -> [Agents -> Seq(Contents)]]
<1> DEFINE parts == {part}
<1>1. Content(role, parts) \in Contents
  BY DEF Content, Contents, Roles, Parts
<1>2. contents[s] \in [Agents -> Seq(Contents)] /\ agent[s] \in Agents
  BY DEF TypeOK
<1>3. Append(contents[s][agent[s]], Content(role, parts)) \in Seq(Contents)
  BY <1>1, <1>2
<1>4. QED
  BY <1>2, <1>3 DEF Say, TypeOK

LEMMA RecordType ==
  ASSUME TypeOK, NEW s \in Sessions, call[s] \in Calls
  PROVE  Record(s) \in Writes
  BY DEF Record, Writes, Calls, TypeOK

LEMMA WriteCall ==
  ASSUME NEW c \in Calls, c.tool = "db_write"
  PROVE  c.key \in Keys \cup {Blank} /\ c.value \in Values
  BY DEF Calls

LEMMA QueryCall ==
  ASSUME NEW c \in Calls
  PROVE  c.key \in Keys \cup {Blank}
  BY DEF Calls

LEMMA TypeStep == IInv /\ [Next]_vars => TypeOK'
<1> SUFFICES ASSUME IInv, [Next]_vars PROVE TypeOK'
  OBVIOUS
<1> USE DEF IInv
<1>1. ASSUME NEW s \in Sessions, NEW request \in Requests, Coordinate(s, request)
      PROVE  TypeOK'
  <2>1. DEFINE a == Successor(Classify(request))
  <2>2. a \in Agents
    BY Routing
  <2>3. Content("user", IF request.blank THEN {} ELSE {"text"}) \in Contents
    BY DEF Content, Contents, Roles, Parts
  <2>4. contents' \in [Sessions -> [Agents -> Seq(Contents)]]
    <3> DEFINE c == Content("user", IF request.blank THEN {} ELSE {"text"})
    <3>1. contents' = [contents EXCEPT ![s][a] = Append(@, c)]
      BY <1>1 DEF Coordinate
    <3> HIDE DEF a, c
    <3>2. contents[s] \in [Agents -> Seq(Contents)] /\ Append(contents[s][a], c) \in Seq(Contents)
      BY <2>2, <2>3 DEF TypeOK, c
    <3>3. QED
      BY <2>2, <3>1, <3>2 DEF TypeOK
  <2>5. trace' \in [Sessions -> Seq(Spans)]
    <3> DEFINE span == SetAttributes(MkSpan("coordinator", NoAttrs),
                         [k \in {KeyModelRouteReason} |-> Classify(request)])
    <3>1. span \in Spans
      BY Routing
    <3>2. trace' = [trace EXCEPT ![s] = <<span>>]
      BY <1>1 DEF Coordinate
    <3> HIDE DEF span
    <3>3. QED
      BY <3>1, <3>2 DEF TypeOK
  <2>6. /\ phase' \in [Sessions -> Phases] /\ agent' \in [Sessions -> Agents]
        /\ turn' \in [Sessions -> Nat]
        /\ answer' \in [Sessions -> {"none", "approved", "denied"}]
    BY <1>1, <2>2 DEF Coordinate, TypeOK, Goto, Phases
  <2>7. call' \in [Sessions -> Replies]
    BY <1>1 DEF Coordinate, TypeOK, Replies
  <2>8. QED
    BY <1>1, <2>4, <2>5, <2>6, <2>7 DEF Coordinate, TypeOK, histories
<1>2. ASSUME NEW s \in Sessions, NEW reply \in Replies, GenerateCall(s, reply)
      PROVE  TypeOK'
  BY <1>2, SayType DEF GenerateCall, TypeOK, Goto, Phases, histories
<1>3. ASSUME NEW s \in Sessions, NEW reply \in Replies, GenerateText(s, reply)
      PROVE  TypeOK'
  BY <1>3, SayType DEF GenerateText, TypeOK, Goto, Phases, histories
<1>4. ASSUME NEW s \in Sessions, GenerateError(s)
      PROVE  TypeOK'
  BY <1>4 DEF GenerateError, TypeOK, Goto, Phases, histories
<1>5. ASSUME NEW s \in Sessions, BeforeTool(s)
      PROVE  TypeOK'
  <2>1. TrustCallback(agent[s], call[s].tool, MkSpan(call[s].tool, NoAttrs)) \in Spans
    BY <1>5, StampedSpan DEF BeforeTool, CallInHand, TypeOK
  <2>2. QED
    BY <1>5, <2>1 DEF BeforeTool, TypeOK, Goto, Phases, histories
<1>6. ASSUME NEW s \in Sessions, AskHuman(s)
      PROVE  TypeOK'
  BY <1>6 DEF AskHuman, TypeOK, Goto, Phases, histories
<1>7. ASSUME NEW s \in Sessions, NEW yes \in BOOLEAN, HumanAnswers(s, yes)
      PROVE  TypeOK'
  <2>1. Record(s) \in Writes
    BY <1>7, RecordType DEF HumanAnswers, CallInHand
  <2>2. QED
    BY <1>7, <2>1 DEF HumanAnswers, TypeOK, Goto, Phases
<1>8. ASSUME NEW s \in Sessions, Rejected(s)
      PROVE  TypeOK'
  BY <1>8, SayType DEF Rejected, Return, TypeOK, Goto, Phases, histories
<1>9. ASSUME NEW s \in Sessions, WebSearch(s)
      PROVE  TypeOK'
  BY <1>9, SayType DEF WebSearch, Return, TypeOK, Goto, Phases, histories
<1>10. ASSUME NEW s \in Sessions, DBQuery(s)
       PROVE  TypeOK'
  <2>1. call[s].key \in Keys \cup {Blank}
    BY <1>10, QueryCall DEF DBQuery, CallInHand
  <2>2. seen' \subseteq Keys \X (Values \cup {Absent})
    BY <1>10, <2>1 DEF DBQuery, TypeOK
  <2>3. QED
    BY <1>10, <2>2, SayType DEF DBQuery, Return, TypeOK, Goto, Phases
<1>11. ASSUME NEW s \in Sessions, DBWrite(s)
       PROVE  TypeOK'
  <2>1. call[s].key \in Keys \cup {Blank} /\ call[s].value \in Values
    BY <1>11, WriteCall DEF DBWrite, CallInHand
  <2>2. db' \in [Keys -> Values \cup {Absent}] /\ written' \subseteq Writes
    BY <1>11, <2>1, RecordType DEF DBWrite, TypeOK, CallInHand
  <2>3. QED
    BY <1>11, <2>2, SayType DEF DBWrite, Return, TypeOK, Goto, Phases
<1>12. CASE UNCHANGED vars
  BY <1>12 DEF vars, sessionVars, histories, TypeOK
<1>13. QED
  BY <1>1, <1>2, <1>3, <1>4, <1>5, <1>6, <1>7, <1>8, <1>9, <1>10, <1>11, <1>12
     DEF Next, Program, User, RunTool

-----------------------------------------------------------------------------
(* The bridge on histories *)

\* Appending anything but a call keeps the calls settled and spaced.
LEMMA AppendOther ==
  ASSUME NEW h \in Seq(Contents), NEW c \in Contents, ~IsCall(c)
  PROVE  /\ Settled(h) => Settled(Append(h, c))
         /\ Spaced(h) => Spaced(Append(h, c))
<1> DEFINE g == Append(h, c)
<1>1. /\ Len(g) = Len(h) + 1 /\ DOMAIN g = 1 .. Len(h) + 1 /\ DOMAIN h = 1 .. Len(h)
      /\ Len(h) \in Nat /\ g[Len(h) + 1] = c
      /\ \A i \in 1 .. Len(h) : g[i] = h[i]
  OBVIOUS
<1> HIDE DEF g
<1>2. Settled(h) => Settled(g)
  BY <1>1 DEF Settled
<1>3. Spaced(h) => Spaced(g)
  BY <1>1 DEF Spaced
<1>4. QED
  BY <1>2, <1>3 DEF g

\* A result settles whatever came before it, and closes the bridge.
LEMMA AppendResult ==
  ASSUME NEW h \in Seq(Contents), NEW c \in Contents, ~IsCall(c), HasResult(c)
  PROVE  Settled(Append(h, c)) /\ ToolRanThisTurn(Append(h, c))
<1> DEFINE g == Append(h, c)
<1>1. /\ Len(g) = Len(h) + 1 /\ DOMAIN g = 1 .. Len(h) + 1
      /\ Len(h) \in Nat /\ g[Len(h) + 1] = c
  OBVIOUS
<1> HIDE DEF g
<1>2. Settled(g)
  BY <1>1 DEF Settled
<1>3. ToolRanThisTurn(g)
  <2>1. \A j \in (Len(h) + 1) + 1 .. Len(g) : FALSE
    BY <1>1
  <2>2. QED
    BY <1>1, <2>1 DEF ToolRanThisTurn
<1>4. QED
  BY <1>2, <1>3 DEF g

\* A text of the user opens it again.
LEMMA AppendText ==
  ASSUME NEW h \in Seq(Contents), NEW c \in Contents, UserText(c), ~HasResult(c)
  PROVE  ~ToolRanThisTurn(Append(h, c))
<1> DEFINE g == Append(h, c)
<1>1. /\ Len(g) = Len(h) + 1 /\ DOMAIN g = 1 .. Len(h) + 1
      /\ Len(h) \in Nat /\ g[Len(h) + 1] = c
  OBVIOUS
<1> HIDE DEF g
<1>2. ~ToolRanThisTurn(g)
  BY <1>1 DEF ToolRanThisTurn
<1>3. QED
  BY <1>2 DEF g

\* While the bridge is open a call may follow: every settled call is already
\* behind a text of the user.
LEMMA AppendCall ==
  ASSUME NEW h \in Seq(Contents), NEW c \in Contents,
         Settled(h), Spaced(h), ~ToolRanThisTurn(h)
  PROVE  Spaced(Append(h, c))
<1> DEFINE g == Append(h, c)
<1>1. /\ Len(g) = Len(h) + 1 /\ DOMAIN g = 1 .. Len(h) + 1 /\ DOMAIN h = 1 .. Len(h)
      /\ Len(h) \in Nat /\ \A i \in 1 .. Len(h) : g[i] = h[i]
  OBVIOUS
<1> HIDE DEF g
<1>2. ASSUME NEW i \in 1 .. Len(h), IsCall(h[i])
      PROVE  \E m \in i + 1 .. Len(h) : UserText(h[m])
  <2>1. PICK m \in i + 1 .. Len(h) : UserText(h[m]) \/ HasResult(h[m])
    BY <1>1, <1>2 DEF Settled
  <2>2. CASE HasResult(h[m])
    <3>1. PICK j \in m + 1 .. Len(h) : UserText(h[j])
      BY <1>1, <2>2 DEF ToolRanThisTurn
    <3>2. QED
      BY <1>1, <3>1
  <2>3. QED
    BY <2>1, <2>2
<1>3. SUFFICES ASSUME NEW i \in DOMAIN g, NEW j \in DOMAIN g,
                      i < j, IsCall(g[i]), IsCall(g[j])
               PROVE  \E m \in i + 1 .. j - 1 : UserText(g[m])
  BY DEF Spaced, g
<1>4. CASE j = Len(h) + 1
  <2>1. PICK m \in i + 1 .. Len(h) : UserText(h[m])
    BY <1>1, <1>2, <1>3, <1>4
  <2>2. g[m] = h[m] /\ m \in i + 1 .. j - 1
    BY <1>1, <1>3, <1>4, <2>1
  <2>3. QED
    BY <2>1, <2>2
<1>5. CASE j # Len(h) + 1
  BY <1>1, <1>3, <1>5 DEF Spaced
<1>6. QED
  BY <1>4, <1>5

-----------------------------------------------------------------------------
(* The steps *)

LEMMA SayBranch ==
  ASSUME TypeOK, NEW s \in Sessions, NEW role \in {"user", "model"},
         NEW part \in {"text", "call", "result"}, Say(s, role, {part})
  PROVE  /\ Branch(s) \in Seq(Contents)
         /\ Content(role, {part}) \in Contents
         /\ contents'[s][agent[s]] = Append(Branch(s), Content(role, {part}))
         /\ \A z \in Sessions, a \in Agents :
              (z # s \/ a # agent[s]) => contents'[z][a] = contents[z][a]
<1> DEFINE c == Content(role, {part})
<1>1. c \in Contents
  BY DEF Content, Contents, Roles, Parts
<1>2. contents' = [contents EXCEPT ![s][agent[s]] = Append(@, c)]
  BY DEF Say
<1> HIDE DEF c
<1>3. /\ contents \in [Sessions -> [Agents -> Seq(Contents)]] /\ agent[s] \in Agents
  BY DEF TypeOK
<1>4. /\ Branch(s) \in Seq(Contents)
      /\ contents'[s][agent[s]] = Append(Branch(s), c)
      /\ \A z \in Sessions, a \in Agents :
           (z # s \/ a # agent[s]) => contents'[z][a] = contents[z][a]
  BY <1>2, <1>3 DEF Branch
<1>5. QED
  BY <1>1, <1>4 DEF c

\* A write that runs has been approved.
LEMMA Gate ==
  ASSUME NEW s \in Sessions, MayRun(s), call[s].tool = "db_write"
  PROVE  answer[s] = "approved"
  BY DEF MayRun, Tool, NewDBWrite, ToolMeta

LEMMA CallInHandStep == IInv /\ [Next]_vars => CallInHand'
<1> SUFFICES ASSUME TypeOK, CallInHand, [Next]_vars PROVE CallInHand'
  BY DEF IInv
<1>1. ASSUME NEW s \in Sessions, NEW request \in Requests, Coordinate(s, request)
      PROVE  CallInHand'
  BY <1>1 DEF Coordinate, CallInHand, TypeOK, Goto, Record, histories
<1>2. ASSUME NEW s \in Sessions, NEW reply \in Replies, GenerateCall(s, reply)
      PROVE  CallInHand'
  <2>1. reply \in Calls /\ reply.tool \in Held(agent[s])
    <3>1. reply.json /\ reply.tool \in Offered(Branch(s), Held(agent[s]))
      BY <1>2 DEF GenerateCall, ParsesAsCall
    <3>2. ~NoCall.json
      BY DEF NoCall
    <3>3. reply # NoCall
      BY <3>1, <3>2
    <3>4. reply.tool \in Held(agent[s])
      BY <3>1 DEF Offered
    <3>5. QED
      BY <3>3, <3>4 DEF Replies
  <2>2. QED
    BY <1>2, <2>1 DEF GenerateCall, CallInHand, TypeOK, Goto, Record, histories
<1>3. ASSUME NEW s \in Sessions, NEW reply \in Replies, GenerateText(s, reply)
      PROVE  CallInHand'
  BY <1>3 DEF GenerateText, CallInHand, TypeOK, Goto, Record, histories
<1>4. ASSUME NEW s \in Sessions, GenerateError(s)
      PROVE  CallInHand'
  BY <1>4 DEF GenerateError, CallInHand, TypeOK, Goto, Record, histories
<1>5. ASSUME NEW s \in Sessions, BeforeTool(s)
      PROVE  CallInHand'
  BY <1>5 DEF BeforeTool, CallInHand, TypeOK, Goto, Record, histories
<1>6. ASSUME NEW s \in Sessions, AskHuman(s)
      PROVE  CallInHand'
  BY <1>6 DEF AskHuman, CallInHand, TypeOK, Goto, Record, histories
<1>7. ASSUME NEW s \in Sessions, NEW yes \in BOOLEAN, HumanAnswers(s, yes)
      PROVE  CallInHand'
  <2>1. yes => Record(s) \in approved'
    BY <1>7 DEF HumanAnswers
  <2>2. approved \subseteq approved'
    BY <1>7 DEF HumanAnswers
  <2>3. /\ call' = call /\ agent' = agent /\ turn' = turn
        /\ phase' = [phase EXCEPT ![s] = "callback"] /\ phase[s] = "confirm"
        /\ answer' = [answer EXCEPT ![s] = IF yes THEN "approved" ELSE "denied"]
    BY <1>7 DEF HumanAnswers, Goto
  <2>4. QED
    BY <2>1, <2>2, <2>3 DEF CallInHand, TypeOK, Record
<1>8. ASSUME NEW s \in Sessions, RunTool(s)
      PROVE  CallInHand'
  <2>1. /\ phase' = [phase EXCEPT ![s] = "generate"]
        /\ UNCHANGED <<turn, agent, call, answer, approved>>
    BY <1>8 DEF RunTool, Rejected, WebSearch, DBQuery, DBWrite, Return, Goto, histories
  <2>2. QED
    BY <2>1 DEF CallInHand, TypeOK, Record
<1>9. CASE UNCHANGED vars
  BY <1>9 DEF vars, sessionVars, histories, CallInHand, Record
<1>10. QED
  BY <1>1, <1>2, <1>3, <1>4, <1>5, <1>6, <1>7, <1>8, <1>9 DEF Next, Program, User

LEMMA ApprovedStep == IInv /\ [Next]_vars => ApprovedWritesOnly'
<1> SUFFICES ASSUME TypeOK, CallInHand, ApprovedWritesOnly, [Next]_vars
             PROVE  ApprovedWritesOnly'
  BY DEF IInv
<1>1. ASSUME UNCHANGED <<db, seen, written>>, approved \subseteq approved'
      PROVE  ApprovedWritesOnly'
  BY <1>1 DEF ApprovedWritesOnly
<1>2. ASSUME NEW s \in Sessions, NEW request \in Requests, Coordinate(s, request)
      PROVE  ApprovedWritesOnly'
  BY <1>1, <1>2 DEF Coordinate, histories
<1>3. ASSUME NEW s \in Sessions, NEW reply \in Replies,
             GenerateCall(s, reply) \/ GenerateText(s, reply)
      PROVE  ApprovedWritesOnly'
  BY <1>1, <1>3 DEF GenerateCall, GenerateText, histories
<1>4. ASSUME NEW s \in Sessions, GenerateError(s) \/ BeforeTool(s) \/ AskHuman(s)
      PROVE  ApprovedWritesOnly'
  BY <1>1, <1>4 DEF GenerateError, BeforeTool, AskHuman, histories
<1>5. ASSUME NEW s \in Sessions, NEW yes \in BOOLEAN, HumanAnswers(s, yes)
      PROVE  ApprovedWritesOnly'
  BY <1>1, <1>5 DEF HumanAnswers
<1>6. ASSUME NEW s \in Sessions, Rejected(s) \/ WebSearch(s)
      PROVE  ApprovedWritesOnly'
  BY <1>1, <1>6 DEF Rejected, WebSearch, histories
<1>7. ASSUME NEW s \in Sessions, DBQuery(s)
      PROVE  ApprovedWritesOnly'
  <2>1. call[s].key \in Keys \cup {Blank}
    BY <1>7, QueryCall DEF DBQuery, CallInHand
  <2>2. UNCHANGED <<db, approved, written>>
    BY <1>7 DEF DBQuery
  <2>3. seen' \subseteq seen \cup {<<k, db[k]>> : k \in Keys}
    BY <1>7, <2>1 DEF DBQuery
  <2>4. ASSUME NEW r \in seen'
        PROVE  r[2] = Seed[r[1]] \/ \E w \in written : w.key = r[1] /\ w.value = r[2]
    BY <2>3 DEF ApprovedWritesOnly
  <2>5. QED
    BY <2>2, <2>4 DEF ApprovedWritesOnly
<1>8. ASSUME NEW s \in Sessions, DBWrite(s)
      PROVE  ApprovedWritesOnly'
  <2>1. CASE call[s].key = Blank
    BY <1>1, <1>8, <2>1 DEF DBWrite
  <2>2. CASE call[s].key # Blank
    <3>1. call[s].key \in Keys /\ call[s].value \in Values
      BY <1>8, <2>2, WriteCall DEF DBWrite, CallInHand
    <3>2. Record(s) \in approved
      BY <1>8, Gate DEF DBWrite, CallInHand
    <3>3. /\ db' = [db EXCEPT ![call[s].key] = call[s].value]
          /\ written' = written \cup {Record(s)}
          /\ UNCHANGED <<seen, approved>>
      BY <1>8, <2>2 DEF DBWrite
    <3>4. Record(s).key = call[s].key /\ Record(s).value = call[s].value
      BY DEF Record
    <3>5. written' \subseteq approved'
      BY <3>2, <3>3 DEF ApprovedWritesOnly
    <3>6. ASSUME NEW k \in Keys
          PROVE  db'[k] = Seed[k] \/ \E w \in written' : w.key = k /\ w.value = db'[k]
      <4>1. CASE k = call[s].key
        BY <3>1, <3>3, <3>4, <4>1 DEF TypeOK
      <4>2. CASE k # call[s].key
        BY <3>3, <4>2 DEF TypeOK, ApprovedWritesOnly
      <4>3. QED
        BY <4>1, <4>2
    <3>7. ASSUME NEW r \in seen'
          PROVE  r[2] = Seed[r[1]] \/ \E w \in written' : w.key = r[1] /\ w.value = r[2]
      BY <3>3 DEF ApprovedWritesOnly
    <3>8. QED
      BY <3>5, <3>6, <3>7 DEF ApprovedWritesOnly
  <2>3. QED
    BY <2>1, <2>2
<1>9. CASE UNCHANGED vars
  BY <1>1, <1>9 DEF vars, histories
<1>10. QED
  BY <1>2, <1>3, <1>4, <1>5, <1>6, <1>7, <1>8, <1>9 DEF Next, Program, User, RunTool

\* What Coordinate does to the branch it picks.
LEMMA CoordinateBranch ==
  ASSUME TypeOK, NEW s \in Sessions, NEW request \in Requests, Coordinate(s, request)
  PROVE  LET a == Successor(Classify(request))
             c == Content("user", IF request.blank THEN {} ELSE {"text"})
         IN  /\ a \in Agents /\ agent'[s] = a
             /\ c \in Contents /\ contents[s][a] \in Seq(Contents)
             /\ contents'[s][a] = Append(contents[s][a], c)
             /\ \A z \in Sessions, b \in Agents :
                  (z # s \/ b # a) => contents'[z][b] = contents[z][b]
<1> DEFINE a == Successor(Classify(request))
           c == Content("user", IF request.blank THEN {} ELSE {"text"})
<1>1. a \in Agents
  BY Routing
<1>2. c \in Contents
  BY DEF Content, Contents, Roles, Parts
<1>3. /\ contents' = [contents EXCEPT ![s][a] = Append(@, c)]
      /\ agent' = [agent EXCEPT ![s] = a]
  BY DEF Coordinate
<1> HIDE DEF a, c
<1>4. agent'[s] = a
  BY <1>3 DEF TypeOK
<1>5. /\ contents[s][a] \in Seq(Contents)
      /\ contents'[s][a] = Append(contents[s][a], c)
      /\ \A z \in Sessions, b \in Agents :
           (z # s \/ b # a) => contents'[z][b] = contents[z][b]
  BY <1>1, <1>3 DEF TypeOK
<1>6. QED
  BY <1>1, <1>2, <1>4, <1>5 DEF a, c

LEMMA HistoryStep == IInv /\ [Next]_vars => CallsSettled' /\ CallsSpaced'
<1> SUFFICES ASSUME TypeOK, CallsSettled, CallsSpaced, [Next]_vars
             PROVE  CallsSettled' /\ CallsSpaced'
  BY DEF IInv
<1>1. ASSUME NEW s \in Sessions, NEW request \in Requests, Coordinate(s, request)
      PROVE  CallsSettled' /\ CallsSpaced'
  <2> DEFINE a == Successor(Classify(request))
             c == Content("user", IF request.blank THEN {} ELSE {"text"})
  <2>1. /\ a \in Agents /\ agent'[s] = a
        /\ c \in Contents /\ contents[s][a] \in Seq(Contents)
        /\ contents'[s][a] = Append(contents[s][a], c)
        /\ \A z \in Sessions, b \in Agents :
             (z # s \/ b # a) => contents'[z][b] = contents[z][b]
    BY <1>1, CoordinateBranch
  <2>2. ~IsCall(c)
    BY DEF IsCall, Content
  <2>3. /\ phase[s] = "idle"
        /\ \A z \in Sessions : z # s => agent'[z] = agent[z] /\ phase'[z] = phase[z]
    BY <1>1 DEF Coordinate, Goto, TypeOK
  <2> HIDE DEF a, c
  <2>4. Settled(contents[s][a]) /\ Spaced(contents[s][a])
    BY <2>1, <2>3 DEF CallsSettled, CallsSpaced, InCall
  <2>5. Settled(contents'[s][a]) /\ Spaced(contents'[s][a])
    BY <2>1, <2>2, <2>4, AppendOther
  <2>6. \A b \in Agents : Settled(contents'[s][b])
    BY <2>1, <2>3, <2>5 DEF CallsSettled, InCall
  <2>7. CallsSettled'
    BY <2>1, <2>3, <2>6 DEF CallsSettled
  <2>8. CallsSpaced'
    BY <2>1, <2>5 DEF CallsSpaced
  <2>9. QED
    BY <2>7, <2>8
<1>2. ASSUME NEW s \in Sessions, NEW reply \in Replies, GenerateCall(s, reply)
      PROVE  CallsSettled' /\ CallsSpaced'
  <2> DEFINE c == Content("model", {"call"})
  <2>1. /\ Branch(s) \in Seq(Contents) /\ c \in Contents
        /\ contents'[s][agent[s]] = Append(Branch(s), c)
        /\ \A z \in Sessions, a \in Agents :
             (z # s \/ a # agent[s]) => contents'[z][a] = contents[z][a]
    BY <1>2, SayBranch DEF GenerateCall
  <2>2. /\ phase[s] = "generate" /\ phase'[s] = "callback" /\ agent' = agent
        /\ \A z \in Sessions : z # s => phase'[z] = phase[z]
    BY <1>2 DEF GenerateCall, Goto, TypeOK
  <2>3. ~ToolRanThisTurn(Branch(s))
    BY <1>2 DEF GenerateCall, ParsesAsCall, Offered
  <2>4. agent[s] \in Agents
    BY DEF TypeOK
  <2>5. Settled(Branch(s)) /\ Spaced(Branch(s))
    BY <2>2, <2>4 DEF CallsSettled, CallsSpaced, InCall, Branch
  <2> HIDE DEF c
  <2>6. Spaced(contents'[s][agent[s]])
    BY <2>1, <2>3, <2>5, AppendCall
  <2>7. CallsSettled'
    BY <2>1, <2>2 DEF CallsSettled, InCall
  <2>8. CallsSpaced'
    BY <2>1, <2>6 DEF CallsSpaced
  <2>9. QED
    BY <2>7, <2>8
<1>3. ASSUME NEW s \in Sessions, NEW reply \in Replies, GenerateText(s, reply)
      PROVE  CallsSettled' /\ CallsSpaced'
  <2> DEFINE c == Content("model", {"text"})
  <2>1. /\ Branch(s) \in Seq(Contents) /\ c \in Contents
        /\ contents'[s][agent[s]] = Append(Branch(s), c)
        /\ \A z \in Sessions, a \in Agents :
             (z # s \/ a # agent[s]) => contents'[z][a] = contents[z][a]
    BY <1>3, SayBranch DEF GenerateText
  <2>2. /\ phase[s] = "generate" /\ agent' = agent
        /\ \A z \in Sessions : z # s => phase'[z] = phase[z]
    BY <1>3 DEF GenerateText, Goto, TypeOK
  <2>3. agent[s] \in Agents
    BY DEF TypeOK
  <2>4. Settled(Branch(s)) /\ Spaced(Branch(s))
    BY <2>2, <2>3 DEF CallsSettled, CallsSpaced, InCall, Branch
  <2>5. ~IsCall(c)
    BY DEF IsCall, Content
  <2> HIDE DEF c
  <2>6. Settled(contents'[s][agent[s]]) /\ Spaced(contents'[s][agent[s]])
    BY <2>1, <2>4, <2>5, AppendOther
  <2>7. CallsSettled'
    BY <2>1, <2>2, <2>6 DEF CallsSettled, InCall
  <2>8. CallsSpaced'
    BY <2>1, <2>6 DEF CallsSpaced
  <2>9. QED
    BY <2>7, <2>8
<1>4. ASSUME NEW s \in Sessions, RunTool(s)
      PROVE  CallsSettled' /\ CallsSpaced'
  <2> DEFINE c == Content("user", {"result"})
  <2>1. Say(s, "user", {"result"})
    BY <1>4 DEF RunTool, Rejected, WebSearch, DBQuery, DBWrite, Return
  <2>2. /\ Branch(s) \in Seq(Contents) /\ c \in Contents
        /\ contents'[s][agent[s]] = Append(Branch(s), c)
        /\ \A z \in Sessions, a \in Agents :
             (z # s \/ a # agent[s]) => contents'[z][a] = contents[z][a]
    BY <2>1, SayBranch
  <2>3. /\ agent' = agent
        /\ \A z \in Sessions : z # s => phase'[z] = phase[z]
    BY <1>4 DEF RunTool, Rejected, WebSearch, DBQuery, DBWrite, Return, Goto, TypeOK
  <2>4. agent[s] \in Agents
    BY DEF TypeOK
  <2>5. ~IsCall(c) /\ HasResult(c)
    BY DEF IsCall, HasResult, Content
  <2>6. Spaced(Branch(s))
    BY <2>4 DEF CallsSpaced, Branch
  <2> HIDE DEF c
  <2>7. Settled(contents'[s][agent[s]]) /\ Spaced(contents'[s][agent[s]])
    BY <2>2, <2>5, <2>6, AppendOther, AppendResult
  <2>8. CallsSettled'
    BY <2>2, <2>3, <2>7 DEF CallsSettled
  <2>9. CallsSpaced'
    BY <2>2, <2>7 DEF CallsSpaced
  <2>10. QED
    BY <2>8, <2>9
<1>5. ASSUME NEW s \in Sessions, GenerateError(s)
      PROVE  CallsSettled' /\ CallsSpaced'
  BY <1>5 DEF GenerateError, Goto, TypeOK, CallsSettled, CallsSpaced, InCall
<1>6. ASSUME NEW s \in Sessions, BeforeTool(s) \/ AskHuman(s) \/ \E yes \in BOOLEAN : HumanAnswers(s, yes)
      PROVE  CallsSettled' /\ CallsSpaced'
  <2>1. /\ phase[s] \in InCall /\ phase'[s] \in InCall /\ UNCHANGED <<agent, contents>>
        /\ \A z \in Sessions : z # s => phase'[z] = phase[z]
    BY <1>6 DEF BeforeTool, AskHuman, HumanAnswers, Goto, TypeOK, InCall
  <2>2. QED
    BY <2>1 DEF CallsSettled, CallsSpaced
<1>7. CASE UNCHANGED vars
  BY <1>7 DEF vars, sessionVars, CallsSettled, CallsSpaced
<1>8. QED
  BY <1>1, <1>2, <1>3, <1>4, <1>5, <1>6, <1>7 DEF Next, Program, User

\* A step of one session leaves the state of every other one alone.
LEMMA OthersKeep ==
  ASSUME TypeOK, NEW s \in Sessions, Program(s) \/ User(s), NEW z \in Sessions, z # s
  PROVE  /\ phase'[z] = phase[z] /\ agent'[z] = agent[z] /\ call'[z] = call[z]
         /\ trace'[z] = trace[z] /\ \A a \in Agents : contents'[z][a] = contents[z][a]
<1>1. ASSUME NEW role, NEW parts, Say(s, role, parts)
      PROVE  \A a \in Agents : contents'[z][a] = contents[z][a]
  BY <1>1 DEF Say, TypeOK
<1>2. ASSUME NEW request \in Requests, Coordinate(s, request)
      PROVE  \A a \in Agents : contents'[z][a] = contents[z][a]
  BY <1>2, CoordinateBranch
<1>3. CASE \E request \in Requests : Coordinate(s, request)
  BY <1>2, <1>3 DEF Coordinate, Goto, TypeOK
<1>4. CASE \E reply \in Replies : GenerateCall(s, reply) \/ GenerateText(s, reply)
  BY <1>1, <1>4 DEF GenerateCall, GenerateText, Goto, TypeOK
<1>5. CASE GenerateError(s) \/ BeforeTool(s) \/ AskHuman(s)
  BY <1>5 DEF GenerateError, BeforeTool, AskHuman, Goto, TypeOK
<1>6. CASE \E yes \in BOOLEAN : HumanAnswers(s, yes)
  BY <1>6 DEF HumanAnswers, Goto, TypeOK
<1>7. CASE RunTool(s)
  BY <1>1, <1>7 DEF RunTool, Rejected, WebSearch, DBQuery, DBWrite, Return, Goto, TypeOK
<1>8. QED
  BY <1>3, <1>4, <1>5, <1>6, <1>7 DEF Program, User

LEMMA FreshTurnStep == IInv /\ [Next]_vars => FreshTurn'
<1> SUFFICES ASSUME TypeOK, CallInHand, FreshTurn, [Next]_vars PROVE FreshTurn'
  BY DEF IInv
<1>1. CASE UNCHANGED vars
  BY <1>1 DEF vars, sessionVars, FreshTurn, Branch
<1>2. ASSUME NEW s \in Sessions, Program(s) \/ User(s)
      PROVE  FreshTurn'
  <2>1. SUFFICES (phase'[s] = "generate" /\ call'[s] = NoCall)
                   => agent'[s] = "writer" \/ ~ToolRanThisTurn(Branch(s)')
    <3>1. ASSUME NEW z \in Sessions, z # s, phase'[z] = "generate", call'[z] = NoCall
          PROVE  agent'[z] = "writer" \/ ~ToolRanThisTurn(Branch(z)')
      <4>1. phase[z] = "generate" /\ call[z] = NoCall /\ agent'[z] = agent[z]
        BY <1>2, <3>1, OthersKeep
      <4>2. Branch(z)' = Branch(z)
        BY <1>2, <3>1, OthersKeep DEF Branch, TypeOK
      <4>3. QED
        BY <4>1, <4>2 DEF FreshTurn
    <3>2. QED
      BY <3>1 DEF FreshTurn
  <2>2. ASSUME NEW request \in Requests, Coordinate(s, request)
        PROVE  agent'[s] = "writer" \/ ~ToolRanThisTurn(Branch(s)')
    <3>1. CASE request.blank
      <4>1. request.keywords = {}
        <5>1. ASSUME request \in [keywords : SUBSET {"research", "data"}, blank : {FALSE}]
              PROVE  FALSE
          <6>1. request.blank \in {FALSE}
            BY <5>1
          <6>2. QED
            BY <3>1, <6>1
        <5>2. request \in {[keywords |-> {}, blank |-> TRUE]}
          BY <5>1 DEF Requests
        <5>3. QED
          BY <5>2
      <4>2. Successor(Classify(request)) = "writer"
        BY <4>1 DEF Classify, Successor
      <4>3. QED
        BY <2>2, <4>2, CoordinateBranch
    <3>2. CASE ~request.blank
      <4> DEFINE c == Content("user", {"text"})
                 a == Successor(Classify(request))
      <4>1. /\ agent'[s] = a /\ c \in Contents /\ contents[s][a] \in Seq(Contents)
            /\ contents'[s][a] = Append(contents[s][a], c)
        BY <2>2, <3>2, CoordinateBranch
      <4>2. UserText(c) /\ ~HasResult(c)
        BY DEF UserText, HasResult, Content
      <4> HIDE DEF c, a
      <4>3. QED
        BY <4>1, <4>2, AppendText DEF Branch
    <3>3. QED
      BY <3>1, <3>2
  <2>3. CASE \E reply \in Replies : GenerateCall(s, reply) \/ GenerateText(s, reply)
    BY <2>3 DEF GenerateCall, GenerateText, Goto, TypeOK
  <2>4. CASE GenerateError(s) \/ BeforeTool(s) \/ AskHuman(s)
    BY <2>4 DEF GenerateError, BeforeTool, AskHuman, Goto, TypeOK
  <2>5. CASE \E yes \in BOOLEAN : HumanAnswers(s, yes)
    BY <2>5 DEF HumanAnswers, Goto, TypeOK
  <2>6. CASE RunTool(s)
    <3>1. phase[s] = "tool" /\ call' = call
      BY <2>6 DEF RunTool, Rejected, WebSearch, DBQuery, DBWrite
    <3>2. call[s].json
      BY <3>1 DEF CallInHand, Calls
    <3>3. ~NoCall.json
      BY DEF NoCall
    <3>4. QED
      BY <3>1, <3>2, <3>3
  <2>7. QED
    BY <1>2, <2>2, <2>3, <2>4, <2>5, <2>6 DEF Program, User
<1>3. QED
  BY <1>1, <1>2 DEF Next

LEMMA TraceShapeStep == IInv /\ [Next]_vars => TraceShape'
<1> SUFFICES ASSUME TypeOK, CallInHand, TraceShape, [Next]_vars PROVE TraceShape'
  BY DEF IInv
<1> DEFINE Shape(t, p, c, h) ==
      /\ t \in Unstamped \/ \E tool \in ToolNames : Stamped(t, tool)
      /\ p = "callback" => t \in Unstamped
      /\ p = "tool" => Stamped(t, c.tool)
      /\ p = "generate" => t \in Unstamped \/ ToolRanThisTurn(h)
<1>1. ASSUME NEW z \in Sessions PROVE Shape(trace[z], phase[z], call[z], Branch(z))
  BY DEF TraceShape
<1>2. SUFFICES \A z \in Sessions : Shape(trace'[z], phase'[z], call'[z], Branch(z)')
  BY DEF TraceShape
<1>3. CASE UNCHANGED vars
  BY <1>1, <1>3 DEF vars, sessionVars, Branch
<1>4. ASSUME NEW s \in Sessions, Program(s) \/ User(s)
      PROVE  \A z \in Sessions : Shape(trace'[z], phase'[z], call'[z], Branch(z)')
  <2>1. SUFFICES Shape(trace'[s], phase'[s], call'[s], Branch(s)')
    <3>1. ASSUME NEW z \in Sessions, z # s
          PROVE  Shape(trace'[z], phase'[z], call'[z], Branch(z)')
      <4>1. trace'[z] = trace[z] /\ phase'[z] = phase[z] /\ call'[z] = call[z]
        BY <1>4, <3>1, OthersKeep
      <4>2. Branch(z)' = Branch(z)
        BY <1>4, <3>1, OthersKeep DEF Branch, TypeOK
      <4> HIDE DEF Shape
      <4>3. QED
        BY <1>1, <4>1, <4>2
    <3> HIDE DEF Shape
    <3>2. QED
      BY <3>1
  <2>2. ASSUME NEW request \in Requests, Coordinate(s, request)
        PROVE  Shape(trace'[s], phase'[s], call'[s], Branch(s)')
    <3>1. trace'[s] = <<CoordinatorSpan(Classify(request))>>
      BY <2>2 DEF Coordinate, CoordinatorSpan, TypeOK
    <3>2. trace'[s] \in Unstamped
      BY <3>1, Routing DEF Unstamped
    <3>3. phase'[s] = "generate"
      BY <2>2 DEF Coordinate, Goto, TypeOK
    <3>4. QED
      BY <3>2, <3>3
  <2>3. ASSUME NEW reply \in Replies, GenerateCall(s, reply)
        PROVE  Shape(trace'[s], phase'[s], call'[s], Branch(s)')
    <3>1. phase[s] = "generate" /\ phase'[s] = "callback" /\ trace' = trace
      BY <2>3 DEF GenerateCall, Goto, TypeOK
    <3>2. ~ToolRanThisTurn(Branch(s))
      BY <2>3 DEF GenerateCall, ParsesAsCall, Offered
    <3>3. QED
      BY <1>1, <3>1, <3>2
  <2>4. ASSUME trace' = trace, phase'[s] \in {"idle", "confirm"}
        PROVE  Shape(trace'[s], phase'[s], call'[s], Branch(s)')
    BY <1>1, <2>4
  <2>5. ASSUME NEW reply \in Replies, GenerateText(s, reply)
        PROVE  Shape(trace'[s], phase'[s], call'[s], Branch(s)')
    <3>1. trace' = trace /\ phase'[s] = "idle"
      BY <2>5 DEF GenerateText, Goto, TypeOK
    <3>2. QED
      BY <2>4, <3>1
  <2>6. CASE GenerateError(s) \/ AskHuman(s)
    <3>1. trace' = trace /\ phase'[s] \in {"idle", "confirm"}
      BY <2>6 DEF GenerateError, AskHuman, Goto, TypeOK
    <3>2. QED
      BY <2>4, <3>1
  <2>7. CASE BeforeTool(s)
    <3>1. /\ trace[s] \in Unstamped /\ phase'[s] = "tool" /\ call' = call
          /\ agent[s] \in Agents /\ call[s].tool \in Held(agent[s])
      BY <1>1, <2>7 DEF BeforeTool, CallInHand, Goto, TypeOK
    <3>2. /\ trace'[s] = Append(trace[s], ToolSpan(call[s].tool))
          /\ call[s].tool \in ToolNames
      BY <2>7, <3>1, StampedSpan DEF BeforeTool, ToolSpan, TypeOK
    <3>3. Stamped(trace'[s], call[s].tool)
      BY <3>1, <3>2 DEF Stamped
    <3>4. QED
      BY <3>1, <3>2, <3>3
  <2>8. ASSUME NEW yes \in BOOLEAN, HumanAnswers(s, yes)
        PROVE  Shape(trace'[s], phase'[s], call'[s], Branch(s)')
    <3>1. trace'[s] = << >> /\ phase'[s] = "callback"
      BY <2>8 DEF HumanAnswers, Goto, TypeOK
    <3>2. QED
      BY <3>1 DEF Unstamped
  <2>9. CASE RunTool(s)
    <3> DEFINE c == Content("user", {"result"})
    <3>1. /\ trace' = trace /\ phase'[s] = "generate" /\ agent' = agent
          /\ Say(s, "user", {"result"})
      BY <2>9 DEF RunTool, Rejected, WebSearch, DBQuery, DBWrite, Return, Goto, TypeOK
    <3>2. /\ Branch(s) \in Seq(Contents) /\ c \in Contents
          /\ Branch(s)' = Append(Branch(s), c)
      BY <3>1, SayBranch DEF Branch
    <3>3. ~IsCall(c) /\ HasResult(c)
      BY DEF IsCall, HasResult, Content
    <3> HIDE DEF c
    <3>4. ToolRanThisTurn(Branch(s)')
      BY <3>2, <3>3, AppendResult
    <3>5. QED
      BY <1>1, <3>1, <3>4
  <2> HIDE DEF Shape
  <2>10. QED
    BY <1>4, <2>2, <2>3, <2>5, <2>6, <2>7, <2>8, <2>9 DEF Program, User
<1>5. QED
  BY <1>3, <1>4 DEF Next

-----------------------------------------------------------------------------
(* The invariant is inductive and implies the properties *)

LEMMA InitIInv == Init => IInv
<1> SUFFICES ASSUME Init PROVE IInv
  OBVIOUS
<1> USE ConstantsAssumption
<1>1. TypeOK
  BY DEF Init, TypeOK, Agents, Phases, Replies, Spans
<1>2. CallInHand /\ FreshTurn
  BY DEF Init, CallInHand, FreshTurn
<1>3. ApprovedWritesOnly
  BY DEF Init, ApprovedWritesOnly
<1>4. CallsSettled /\ CallsSpaced
  BY DEF Init, CallsSettled, CallsSpaced, Settled, Spaced
<1>5. TraceShape
  BY DEF Init, TraceShape, Unstamped
<1> QED
  BY <1>1, <1>2, <1>3, <1>4, <1>5 DEF IInv

LEMMA IInvStep == IInv /\ [Next]_vars => IInv'
  BY TypeStep, CallInHandStep, ApprovedStep, HistoryStep, FreshTurnStep, TraceShapeStep
     DEF IInv

LEMMA Inductive == Spec => []IInv
  BY InitIInv, IInvStep, PTL DEF Spec

\* Every variable keeps its type, and no session ever adds or loses a record.
THEOREM TypeCorrect == Spec => []TypeOK
<1>1. IInv => TypeOK
  BY DEF IInv
<1>2. QED
  BY Inductive, <1>1, PTL

\* Whatever the sessions do, a write is one a human approved for that call.
THEOREM WritesAreApproved == Spec => []ApprovedWritesOnly
<1>1. IInv => ApprovedWritesOnly
  BY DEF IInv
<1>2. QED
  BY Inductive, <1>1, PTL

\* The bridge is one-shot for histories of any length.
THEOREM BridgeIsOneShot == Spec => []OneCallPerTurn
<1>1. IInv => OneCallPerTurn
  BY DEF IInv, CallsSpaced, Spaced, OneCallPerTurn
<1>2. QED
  BY Inductive, <1>1, PTL

\* The one-shot rule never starves a new turn of its tools.
THEOREM BridgeReopens == Spec => []FreshTurnOffersTools
<1>1. IInv => FreshTurnOffersTools
  BY DEF IInv, FreshTurn, FreshTurnOffersTools, Offered, Held
<1>2. QED
  BY Inductive, <1>1, PTL

LEMMA HeldIsGranted ==
  ASSUME NEW a \in Agents, NEW t \in Held(a)
  PROVE  Tool[t].scope \in Granted(a)
  BY DEF Agents, Held, Granted, Tool, NewWebSearch, NewDBQuery, NewDBWrite, ToolMeta

LEMMA ToolSpanFacts ==
  ASSUME NEW t \in ToolNames
  PROVE  /\ ToolSpan(t).name = t
         /\ Has(ToolSpan(t), KeyPrivilegeScope)
         /\ ToolSpan(t).attrs[KeyPrivilegeScope] = Tool[t].scope
         /\ IsTrue(ToolSpan(t), KeyHITLRequired) <=> Tool[t].mutating
         /\ ~Has(ToolSpan(t), KeyMemProvenance)
<1> DEFINE A == TrustAttrs(Tool[t])
<1>1. /\ DOMAIN A = {KeyPrivilegeScope, KeyUntrusted, KeyEgress, KeyHITLRequired}
      /\ A[KeyPrivilegeScope] = Tool[t].scope
      /\ A[KeyHITLRequired] = Tool[t].mutating
  BY DEF TrustAttrs, KeyPrivilegeScope, KeyUntrusted, KeyEgress, KeyHITLRequired
<1>2. Tool[t].mutating \in BOOLEAN
  <2>1. Tool[t] \in {NewWebSearch, NewDBQuery, NewDBWrite}
    BY DEF ToolNames, Tool
  <2>2. /\ NewWebSearch.mutating = FALSE /\ NewDBQuery.mutating = FALSE
        /\ NewDBWrite.mutating = TRUE
    BY DEF NewWebSearch, NewDBQuery, NewDBWrite, ToolMeta
  <2>3. QED
    BY <2>1, <2>2
<1> HIDE DEF A
<1>3. /\ ToolSpan(t).name = t /\ DOMAIN ToolSpan(t).attrs = DOMAIN A
      /\ \A k \in DOMAIN A : ToolSpan(t).attrs[k] = A[k]
  BY DEF ToolSpan, SetAttributes, MkSpan, NoAttrs, A
<1>4. /\ Has(ToolSpan(t), KeyPrivilegeScope)
      /\ ToolSpan(t).attrs[KeyPrivilegeScope] = Tool[t].scope
      /\ ~Has(ToolSpan(t), KeyMemProvenance)
  BY <1>1, <1>3 DEF Has, KeyPrivilegeScope, KeyUntrusted, KeyEgress, KeyHITLRequired,
                    KeyMemProvenance
<1>5. IsTrue(ToolSpan(t), KeyHITLRequired) <=> Tool[t].mutating
  <2>1. /\ KeyHITLRequired \in DOMAIN ToolSpan(t).attrs
        /\ ToolSpan(t).attrs[KeyHITLRequired] = Tool[t].mutating
    BY <1>1, <1>3
  <2>2. QED
    BY <1>2, <2>1 DEF IsTrue
<1>6. QED
  BY <1>3, <1>4, <1>5

LEMMA CoordinatorSpanFacts ==
  ASSUME NEW r
  PROVE  /\ ~Has(CoordinatorSpan(r), KeyPrivilegeScope)
         /\ ~Has(CoordinatorSpan(r), KeyMemProvenance)
  BY DEF CoordinatorSpan, SetAttributes, MkSpan, NoAttrs, Has, KeyPrivilegeScope,
         KeyMemProvenance, KeyModelRouteReason

\* No model reply reaches a tool outside the agent's grant, nor one whose span
\* does not say so.
THEOREM LeastPrivilege == Spec => []WithinGrant
<1>1. IInv => WithinGrant
  <2> SUFFICES ASSUME TypeOK, CallInHand, TraceShape, NEW s \in Sessions,
                      phase[s] \in {"callback", "tool", "confirm"}
               PROVE  /\ call[s].tool \in Held(agent[s])
                      /\ Tool[call[s].tool].scope \in Granted(agent[s])
                      /\ phase[s] = "tool" =>
                           /\ trace[s] # << >>
                           /\ trace[s][Len(trace[s])] = ToolSpan(call[s].tool)
                           /\ call[s].tool \in ToolNames
    BY ToolSpanFacts DEF IInv, WithinGrant
  <2>1. call[s].tool \in Held(agent[s]) /\ agent[s] \in Agents
    BY DEF CallInHand, TypeOK
  <2>2. Tool[call[s].tool].scope \in Granted(agent[s]) /\ call[s].tool \in ToolNames
    BY <2>1, HeldIsGranted, StampedSpan
  <2>3. ASSUME phase[s] = "tool"
        PROVE  trace[s] # << >> /\ trace[s][Len(trace[s])] = ToolSpan(call[s].tool)
    <3>1. PICK u \in Unstamped : trace[s] = Append(u, ToolSpan(call[s].tool))
      BY <2>3 DEF TraceShape, Stamped
    <3>2. \E X : u \in Seq(X)
      <4>1. CASE u = << >>
        BY <4>1
      <4>2. ASSUME NEW r \in {"research", "data", "write"}, u = <<CoordinatorSpan(r)>>
            PROVE  \E X : u \in Seq(X)
        <5>1. u \in Seq({CoordinatorSpan(r)})
          BY <4>2
        <5>2. QED
          BY <5>1
      <4>3. QED
        BY <4>1, <4>2 DEF Unstamped
    <3>3. PICK X : u \in Seq(X)
      BY <3>2
    <3> DEFINE Y == X \cup {ToolSpan(call[s].tool)}
    <3>4. u \in Seq(Y) /\ ToolSpan(call[s].tool) \in Y
      BY <3>3
    <3> HIDE DEF Y
    <3>5. QED
      BY <3>1, <3>4
  <2>4. QED
    BY <2>1, <2>2, <2>3
<1>2. QED
  BY Inductive, <1>1, PTL

\* A trace of the hardened graph has two spans at most, one of them scoped.
LEMMA ShortTrace ==
  ASSUME NEW t, t \in Unstamped \/ \E tool \in ToolNames : Stamped(t, tool)
  PROVE  /\ DOMAIN t \subseteq 1 .. 2
         /\ \A i \in DOMAIN t : ~Has(t[i], KeyMemProvenance)
         /\ \A i, j \in DOMAIN t : Has(t[i], KeyPrivilegeScope) /\ Has(t[j], KeyPrivilegeScope)
                                     => i = j
<1>1. CASE t = << >>
  BY <1>1
<1>2. ASSUME NEW r, t = <<CoordinatorSpan(r)>>
      PROVE  /\ DOMAIN t = {1} /\ t[1] = CoordinatorSpan(r)
  BY <1>2
<1>3. ASSUME NEW tool \in ToolNames, t = Append(<< >>, ToolSpan(tool))
      PROVE  /\ DOMAIN t = {1} /\ t[1] = ToolSpan(tool)
  BY <1>3
<1>4. ASSUME NEW r, NEW tool \in ToolNames,
             t = Append(<<CoordinatorSpan(r)>>, ToolSpan(tool))
      PROVE  /\ DOMAIN t = {1, 2} /\ t[1] = CoordinatorSpan(r) /\ t[2] = ToolSpan(tool)
  BY <1>4
<1>5. \/ t = << >>
      \/ \E r : t = <<CoordinatorSpan(r)>>
      \/ \E tool \in ToolNames : t = Append(<< >>, ToolSpan(tool))
      \/ \E r, tool : tool \in ToolNames /\ t = Append(<<CoordinatorSpan(r)>>, ToolSpan(tool))
  BY DEF Unstamped, Stamped
<1> DEFINE Plain(n) == /\ ~Has(t[n], KeyMemProvenance) /\ ~Has(t[n], KeyPrivilegeScope)
           Quiet == /\ DOMAIN t \subseteq {1, 2}
                    /\ \A i \in DOMAIN t : ~Has(t[i], KeyMemProvenance)
                    /\ \E n \in {1, 2} : \A i \in DOMAIN t : Has(t[i], KeyPrivilegeScope) => i = n
<1>6. ASSUME t = << >> PROVE Quiet
  BY <1>1, <1>6
<1>7. ASSUME NEW r, t = <<CoordinatorSpan(r)>> PROVE Quiet
  BY <1>2, <1>7, CoordinatorSpanFacts
<1>8. ASSUME NEW tool \in ToolNames, t = Append(<< >>, ToolSpan(tool)) PROVE Quiet
  BY <1>3, <1>8, ToolSpanFacts
<1>9. ASSUME NEW r, NEW tool \in ToolNames,
             t = Append(<<CoordinatorSpan(r)>>, ToolSpan(tool))
      PROVE  Quiet
  <2>1. Plain(1)
    BY <1>4, <1>9, CoordinatorSpanFacts
  <2>2. ~Has(t[2], KeyMemProvenance)
    BY <1>4, <1>9, ToolSpanFacts
  <2>3. DOMAIN t = {1, 2}
    BY <1>4, <1>9
  <2>4. \A i \in DOMAIN t : ~Has(t[i], KeyMemProvenance)
    BY <2>1, <2>2, <2>3
  <2>5. \A i \in DOMAIN t : Has(t[i], KeyPrivilegeScope) => i = 2
    BY <2>1, <2>3
  <2>6. QED
    BY <2>3, <2>4, <2>5
<1>10. Quiet
  <2> HIDE DEF Quiet
  <2>1. QED
    BY <1>5, <1>6, <1>7, <1>8, <1>9
<1>11. QED
  BY <1>10

\* No invocation of the hardened graph trips the loop, widening or taint rule.
THEOREM QuietTraces == Spec => []HardenedTurnsQuiet
<1>1. ASSUME NEW t, t \in Unstamped \/ \E tool \in ToolNames : Stamped(t, tool)
      PROVE  ~LoopRunaway(t) /\ ~PrivilegeWidening(t) /\ ~MemoryTaint(t)
  <2>1. ~LoopRunaway(t)
    <3>1. ASSUME NEW name PROVE Cardinality(Named(t, name)) <= 2
      <4>1. IsFiniteSet(1 .. 2) /\ Cardinality(1 .. 2) = 2
        <5>1. 1 \in Int /\ 2 \in Int
          OBVIOUS
        <5>2. /\ IsFiniteSet(1 .. 2)
              /\ Cardinality(1 .. 2) = IF 1 > 2 THEN 0 ELSE 2 - 1 + 1
          BY <5>1, FS_Interval
        <5>3. QED
          BY <5>2
      <4>2. Named(t, name) \subseteq 1 .. 2
        BY <1>1, ShortTrace DEF Named
      <4>3. QED
        BY <4>1, <4>2, FS_Subset
    <3>2. ASSUME NEW i \in DOMAIN t PROVE ~(Cardinality(Named(t, t[i].name)) > 5)
      <4>1. Cardinality(Named(t, t[i].name)) \in Nat
        <5>1. Named(t, t[i].name) \subseteq 1 .. 2
          BY <1>1, ShortTrace DEF Named
        <5>2. QED
          BY <5>1, FS_Interval, FS_Subset, FS_CardinalityType
      <4>2. QED
        BY <3>1, <4>1
    <3>3. QED
      BY <3>2 DEF LoopRunaway, LoopThreshold
  <2>2. ~PrivilegeWidening(t)
    <3>1. ASSUME NEW i \in Scoped(t), NEW j \in Scoped(t) PROVE i = j
      BY <1>1, ShortTrace DEF Scoped
    <3>2. ASSUME NEW j \in Scoped(t) PROVE ~\E i \in Scoped(t) : i < j
      <4>1. j \in Nat
        BY <1>1, ShortTrace DEF Scoped
      <4>2. QED
        BY <3>1, <4>1
    <3>3. QED
      BY <3>2 DEF PrivilegeWidening
  <2>3. ~MemoryTaint(t)
    BY <1>1, ShortTrace DEF MemoryTaint, Tainting
  <2>4. QED
    BY <2>1, <2>2, <2>3
<1>2. IInv => HardenedTurnsQuiet
  BY <1>1 DEF IInv, TraceShape, HardenedTurnsQuiet
<1>3. QED
  BY Inductive, <1>2, PTL

-----------------------------------------------------------------------------
(* Turns run down *)

\* A turn asks a human only about a call without an answer, and a model that is
\* asked again finds the bridge closed.
AnswerAndBridge ==
  \A s \in Sessions :
    /\ phase[s] = "confirm" => answer[s] = "none"
    /\ phase[s] = "generate" /\ call[s] # NoCall => ToolRanThisTurn(Branch(s))

\* What one session does is local to it.
LEMMA OthersAreStill ==
  ASSUME IInv, TypeOK', NEW s \in Sessions, Program(s) \/ User(s), NEW z \in Sessions, z # s
  PROVE  Local(z)' = Local(z) /\ turn'[z] = turn[z]
<1>1. TypeOK
  BY DEF IInv
<1>2. /\ phase'[z] = phase[z] /\ agent'[z] = agent[z] /\ call'[z] = call[z]
      /\ trace'[z] = trace[z] /\ \A a \in Agents : contents'[z][a] = contents[z][a]
  BY <1>1, OthersKeep
<1>3. contents'[z] = contents[z]
  <2>1. contents[z] \in [Agents -> Seq(Contents)] /\ contents'[z] \in [Agents -> Seq(Contents)]
    BY <1>1 DEF TypeOK
  <2>2. QED
    BY <1>2, <2>1
<1>4. answer'[z] = answer[z] /\ turn'[z] = turn[z]
  <2>1. CASE Program(s)
    BY <1>1, <2>1 DEF Program, GenerateCall, GenerateText, GenerateError, BeforeTool, AskHuman,
                      RunTool, Rejected, WebSearch, DBQuery, DBWrite, TypeOK
  <2>2. CASE User(s)
    BY <1>1, <2>2 DEF User, Coordinate, HumanAnswers, TypeOK
  <2>3. QED
    BY <2>1, <2>2
<1>5. QED
  BY <1>2, <1>3, <1>4 DEF Local

LEMMA ToolReturns ==
  ASSUME TypeOK, NEW s \in Sessions, RunTool(s)
  PROVE  /\ phase[s] = "tool" /\ phase' = [phase EXCEPT ![s] = "generate"]
         /\ UNCHANGED <<turn, agent, call, answer>>
         /\ ToolRanThisTurn(Branch(s)')
<1>1. /\ phase[s] = "tool" /\ phase' = [phase EXCEPT ![s] = "generate"]
      /\ UNCHANGED <<turn, agent, call, answer>> /\ Say(s, "user", {"result"})
  BY DEF RunTool, Rejected, WebSearch, DBQuery, DBWrite, Return, Goto
<1> DEFINE c == Content("user", {"result"})
<1>2. /\ Branch(s) \in Seq(Contents) /\ c \in Contents
      /\ contents'[s][agent[s]] = Append(Branch(s), c)
  BY <1>1, SayBranch
<1>3. ~IsCall(c) /\ HasResult(c)
  BY DEF IsCall, HasResult, Content
<1> HIDE DEF c
<1>4. ToolRanThisTurn(Append(Branch(s), c))
  BY <1>2, <1>3, AppendResult
<1>5. Branch(s)' = Append(Branch(s), c)
  BY <1>1, <1>2 DEF Branch
<1>6. QED
  BY <1>1, <1>4, <1>5

LEMMA AnswerAndBridgeStep ==
  IInv /\ TypeOK' /\ AnswerAndBridge /\ [Next]_vars => AnswerAndBridge'
<1> SUFFICES ASSUME IInv, TypeOK', AnswerAndBridge, [Next]_vars PROVE AnswerAndBridge'
  OBVIOUS
<1>1. TypeOK
  BY DEF IInv
<1>2. CASE UNCHANGED vars
  BY <1>2 DEF vars, sessionVars, AnswerAndBridge, Branch
<1>3. ASSUME NEW s \in Sessions, Program(s) \/ User(s)
      PROVE  AnswerAndBridge'
  <2>1. ASSUME NEW z \in Sessions, z # s
        PROVE  /\ phase'[z] = "confirm" => answer'[z] = "none"
               /\ phase'[z] = "generate" /\ call'[z] # NoCall => ToolRanThisTurn(Branch(z)')
    <3>1. /\ phase'[z] = phase[z] /\ agent'[z] = agent[z] /\ contents'[z] = contents[z]
          /\ call'[z] = call[z] /\ answer'[z] = answer[z]
      BY <1>3, <2>1, OthersAreStill DEF Local
    <3>2. Branch(z)' = Branch(z)
      BY <3>1 DEF Branch
    <3>3. QED
      BY <3>1, <3>2 DEF AnswerAndBridge
  <2>2. SUFFICES /\ phase'[s] = "confirm" => answer'[s] = "none"
                 /\ phase'[s] = "generate" /\ call'[s] # NoCall => ToolRanThisTurn(Branch(s)')
    BY <2>1 DEF AnswerAndBridge
  <2>3. CASE \E request \in Requests : Coordinate(s, request)
    BY <1>1, <2>3 DEF Coordinate, Goto, TypeOK
  <2>4. CASE \E reply \in Replies : GenerateCall(s, reply) \/ GenerateText(s, reply)
    BY <1>1, <2>4 DEF GenerateCall, GenerateText, Goto, TypeOK
  <2>5. CASE GenerateError(s) \/ BeforeTool(s) \/ AskHuman(s)
    BY <1>1, <2>5 DEF GenerateError, BeforeTool, AskHuman, Goto, TypeOK
  <2>6. CASE \E yes \in BOOLEAN : HumanAnswers(s, yes)
    BY <1>1, <2>6 DEF HumanAnswers, Goto, TypeOK
  <2>7. CASE RunTool(s)
    BY <1>1, <2>7, ToolReturns DEF TypeOK
  <2>8. QED
    BY <1>3, <2>3, <2>4, <2>5, <2>6, <2>7 DEF Program, User
<1>4. QED
  BY <1>2, <1>3 DEF Next

\* The steps left, by the place of the turn.
LEMMA LeftCases ==
  ASSUME NEW s \in Sessions
  PROVE  /\ phase[s] = "idle" => Left(s) = 0
         /\ phase[s] = "generate" /\ call[s] = NoCall => Left(s) = 7
         /\ phase[s] = "generate" /\ call[s] # NoCall => Left(s) = 1
         /\ phase[s] = "callback" /\ answer[s] = "none" => Left(s) = 6
         /\ phase[s] = "callback" /\ answer[s] # "none" => Left(s) = 3
         /\ phase[s] = "tool" /\ answer[s] = "none" => Left(s) = 5
         /\ phase[s] = "tool" /\ answer[s] # "none" => Left(s) = 2
         /\ phase[s] = "confirm" => Left(s) = 4
BY DEF Left

LEMMA LeftCasesNext ==
  ASSUME NEW s \in Sessions
  PROVE  /\ phase'[s] = "idle" => Left(s)' = 0
         /\ phase'[s] = "generate" /\ call'[s] # NoCall => Left(s)' = 1
         /\ phase'[s] = "callback" /\ answer'[s] = "none" => Left(s)' = 6
         /\ phase'[s] = "callback" /\ answer'[s] # "none" => Left(s)' = 3
         /\ phase'[s] = "tool" /\ answer'[s] = "none" => Left(s)' = 5
         /\ phase'[s] = "tool" /\ answer'[s] # "none" => Left(s)' = 2
         /\ phase'[s] = "confirm" => Left(s)' = 4
BY DEF Left

LEMMA TurnStep ==
  ASSUME IInv, AnswerAndBridge, NEW s \in Sessions, Program(s) \/ User(s), turn'[s] = turn[s]
  PROVE  Left(s)' < Left(s)
<1>1. TypeOK
  BY DEF IInv
<1>2. ASSUME NEW request \in Requests, Coordinate(s, request)
      PROVE  FALSE
  <2>1. turn'[s] = turn[s] + 1 /\ turn[s] \in Nat
    BY <1>1, <1>2 DEF Coordinate, TypeOK
  <2>2. QED
    BY <2>1
<1>3. ASSUME NEW reply \in Replies, GenerateCall(s, reply)
      PROVE  Left(s)' = 6 /\ Left(s) = 7
  <2>1. /\ phase[s] = "generate" /\ phase'[s] = "callback" /\ answer'[s] = "none"
        /\ reply.tool \in Offered(Branch(s), Held(agent[s]))
    BY <1>1, <1>3 DEF GenerateCall, Goto, TypeOK, ParsesAsCall
  <2>2. ~ToolRanThisTurn(Branch(s))
    BY <2>1 DEF Offered
  <2>3. call[s] = NoCall
    BY <2>1, <2>2 DEF AnswerAndBridge
  <2>4. QED
    BY <2>1, <2>3, LeftCases, LeftCasesNext
<1>4. ASSUME GenerateError(s) \/ \E reply \in Replies : GenerateText(s, reply)
      PROVE  Left(s)' = 0 /\ Left(s) \in {1, 7}
  <2>1. phase[s] = "generate" /\ phase'[s] = "idle"
    BY <1>1, <1>4 DEF GenerateError, GenerateText, Goto, TypeOK
  <2>2. QED
    BY <2>1, LeftCases, LeftCasesNext
<1>5. ASSUME BeforeTool(s)
      PROVE  \/ Left(s)' = 5 /\ Left(s) = 6
             \/ Left(s)' = 2 /\ Left(s) = 3
  <2>1. phase[s] = "callback" /\ phase'[s] = "tool" /\ answer'[s] = answer[s]
    BY <1>1, <1>5 DEF BeforeTool, Goto, TypeOK
  <2>2. QED
    BY <2>1, LeftCases, LeftCasesNext
<1>6. ASSUME AskHuman(s)
      PROVE  Left(s)' = 4 /\ Left(s) = 5
  <2>1. phase[s] = "tool" /\ answer[s] = "none" /\ phase'[s] = "confirm"
    BY <1>1, <1>6 DEF AskHuman, Goto, TypeOK
  <2>2. QED
    BY <2>1, LeftCases, LeftCasesNext
<1>7. ASSUME NEW yes \in BOOLEAN, HumanAnswers(s, yes)
      PROVE  Left(s)' = 3 /\ Left(s) = 4
  <2>1. phase[s] = "confirm" /\ phase'[s] = "callback" /\ answer'[s] # "none"
    BY <1>1, <1>7 DEF HumanAnswers, Goto, TypeOK
  <2>2. QED
    BY <2>1, LeftCases, LeftCasesNext
<1>8. ASSUME RunTool(s)
      PROVE  Left(s)' = 1 /\ Left(s) \in {2, 5}
  <2>1. phase[s] = "tool" /\ phase'[s] = "generate" /\ call'[s] = call[s]
    BY <1>1, <1>8, ToolReturns DEF TypeOK
  <2>2. call[s] # NoCall
    <3>1. call[s].json /\ ~NoCall.json
      BY <2>1 DEF IInv, CallInHand, Calls, NoCall
    <3>2. QED
      BY <3>1
  <2>3. QED
    BY <2>1, <2>2, LeftCases, LeftCasesNext
<1>9. CASE Program(s)
  <2>1. \/ Left(s)' = 6 /\ Left(s) = 7
        \/ Left(s)' = 0 /\ Left(s) \in {1, 7}
        \/ Left(s)' = 5 /\ Left(s) = 6
        \/ Left(s)' = 2 /\ Left(s) = 3
        \/ Left(s)' = 4 /\ Left(s) = 5
        \/ Left(s)' = 1 /\ Left(s) \in {2, 5}
    BY <1>3, <1>4, <1>5, <1>6, <1>8, <1>9 DEF Program
  <2>2. QED
    BY <2>1
<1>10. CASE User(s)
  <2>1. Left(s)' = 3 /\ Left(s) = 4
    BY <1>2, <1>7, <1>10 DEF User
  <2>2. QED
    BY <2>1
<1>11. QED
  BY <1>9, <1>10

\* Whatever the model replies and the human answers, each step of a turn leaves
\* fewer steps to take, so that a turn has at most seven.
THEOREM TurnsAreBounded == Spec => TurnsRunDown
<1> DEFINE Down == \A s \in Sessions :
                     turn'[s] = turn[s] => Local(s)' = Local(s) \/ Left(s)' < Left(s)
<1>1. Init => AnswerAndBridge
  BY DEF Init, AnswerAndBridge
<1>2. IInv /\ TypeOK' /\ AnswerAndBridge /\ [Next]_vars => [Down]_vars
  <2>1. SUFFICES ASSUME IInv, TypeOK', AnswerAndBridge, Next, NEW z \in Sessions,
                        turn'[z] = turn[z]
                 PROVE  Local(z)' = Local(z) \/ Left(z)' < Left(z)
    OBVIOUS
  <2>2. PICK s \in Sessions : Program(s) \/ User(s)
    BY <2>1 DEF Next
  <2>3. CASE z = s
    BY <2>1, <2>2, <2>3, TurnStep
  <2>4. CASE z # s
    BY <2>1, <2>2, <2>4, OthersAreStill
  <2>5. QED
    BY <2>3, <2>4
<1>3. IInv => TypeOK
  BY DEF IInv
<1>4. Spec => []AnswerAndBridge
  BY Inductive, AnswerAndBridgeStep, <1>1, <1>3, PTL DEF Spec
<1>5. Spec => [][Down]_vars
  BY Inductive, <1>2, <1>3, <1>4, PTL DEF Spec
<1>6. QED
  BY <1>5 DEF TurnsRunDown

-----------------------------------------------------------------------------
(* The sessions implement GatedWrites *)

\* Only a write ever waits for a human or has been answered.
GatedCall ==
  \A s \in Sessions :
    \/ phase[s] = "confirm"
    \/ phase[s] \in {"callback", "tool"} /\ answer[s] # "none"
    => call[s].tool = "db_write"

\* Of the tools an agent can hold, db_write alone needs a confirmation.
LEMMA OnlyWritesWait ==
  ASSUME NEW s \in Sessions, NEW a \in Agents, call[s].tool \in Held(a), ~MayRun(s)
  PROVE  call[s].tool = "db_write"
<1>1. call[s].tool \in {"web_search", "db_query", "db_write"}
  BY DEF Agents, Held
<1>2. call[s].tool \in {"web_search", "db_query"} => ~Tool[call[s].tool].confirm
  BY DEF Tool, NewWebSearch, NewDBQuery, ToolMeta
<1>3. QED
  BY <1>1, <1>2 DEF MayRun

LEMMA GatedCallStep == IInv /\ GatedCall /\ [Next]_vars => GatedCall'
<1> SUFFICES ASSUME TypeOK, CallInHand, GatedCall, [Next]_vars PROVE GatedCall'
  BY DEF IInv
<1> USE DEF GatedCall, TypeOK, Goto
<1>1. ASSUME NEW s \in Sessions, NEW request \in Requests, Coordinate(s, request)
      PROVE  GatedCall'
  BY <1>1 DEF Coordinate
<1>2. ASSUME NEW s \in Sessions, NEW reply \in Replies,
             GenerateCall(s, reply) \/ GenerateText(s, reply)
      PROVE  GatedCall'
  BY <1>2 DEF GenerateCall, GenerateText
<1>3. ASSUME NEW s \in Sessions, GenerateError(s) \/ BeforeTool(s)
      PROVE  GatedCall'
  BY <1>3 DEF GenerateError, BeforeTool
<1>4. ASSUME NEW s \in Sessions, AskHuman(s)
      PROVE  GatedCall'
  <2>1. call[s].tool = "db_write"
    BY <1>4, OnlyWritesWait DEF AskHuman, CallInHand
  <2>2. QED
    BY <1>4, <2>1 DEF AskHuman
<1>5. ASSUME NEW s \in Sessions, NEW yes \in BOOLEAN, HumanAnswers(s, yes)
      PROVE  GatedCall'
  BY <1>5 DEF HumanAnswers
<1>6. ASSUME NEW s \in Sessions, RunTool(s)
      PROVE  GatedCall'
  <2>1. /\ phase' = [phase EXCEPT ![s] = "generate"]
        /\ UNCHANGED <<call, answer>>
    BY <1>6 DEF RunTool, Rejected, WebSearch, DBQuery, DBWrite, Return
  <2>2. QED
    BY <2>1
<1>7. CASE UNCHANGED vars
  BY <1>7 DEF vars, sessionVars
<1>8. QED
  BY <1>1, <1>2, <1>3, <1>4, <1>5, <1>6, <1>7 DEF Next, Program, User

PendingOf == [s \in Sessions |-> Pending(s)]

Proposed(s) == [key |-> call[s].key, value |-> call[s].value]

\* What Pending says in each phase, now and after a step.
LEMMA PendingCases ==
  ASSUME NEW s \in Sessions
  PROVE  /\ phase[s] = "confirm" => Pending(s) = Gated!Awaiting(Proposed(s))
         /\ (phase[s] \in {"callback", "tool"} /\ answer[s] = "approved")
              => Pending(s) = Gated!Approved(Proposed(s))
         /\ (phase[s] # "confirm"
               /\ ~(phase[s] \in {"callback", "tool"} /\ answer[s] = "approved"))
              => Pending(s) = Gated!None
  BY DEF Pending, Proposed, Gated!Awaiting, Gated!Approved, Gated!None

LEMMA PendingCasesNext ==
  ASSUME NEW s \in Sessions
  PROVE  /\ phase'[s] = "confirm" => Pending(s)' = Gated!Awaiting(Proposed(s)')
         /\ (phase'[s] \in {"callback", "tool"} /\ answer'[s] = "approved")
              => Pending(s)' = Gated!Approved(Proposed(s)')
         /\ (phase'[s] # "confirm"
               /\ ~(phase'[s] \in {"callback", "tool"} /\ answer'[s] = "approved"))
              => Pending(s)' = Gated!None
  BY DEF Pending, Proposed, Gated!Awaiting, Gated!Approved, Gated!None

\* A step changes what is pending for its own session only.
LEMMA PendingStep ==
  ASSUME TypeOK, NEW s \in Sessions, NEW p, NEW c, NEW a,
         phase' = [phase EXCEPT ![s] = p], call' = [call EXCEPT ![s] = c],
         answer' = [answer EXCEPT ![s] = a]
  PROVE  PendingOf' = [PendingOf EXCEPT ![s] = Pending(s)']
<1>1. \A z \in Sessions : z # s => Pending(z)' = Pending(z)
  BY DEF Pending, TypeOK
<1>2. QED
  BY <1>1 DEF PendingOf

\* The write of a gated call is one GatedWrites knows.
LEMMA ProposedIsWrite ==
  ASSUME CallInHand, GatedCall, NEW s \in Sessions,
         phase[s] \in {"callback", "tool", "confirm"}, call[s].tool = "db_write"
  PROVE  Proposed(s) \in Gated!Writes
<1>1. call[s] \in Calls
  BY DEF CallInHand
<1>2. call[s].key \in Keys \cup {Blank} /\ call[s].value \in Values
  BY <1>1, WriteCall
<1>3. QED
  BY <1>2 DEF Proposed, Gated!Writes

LEMMA GatedStep ==
  IInv /\ GatedCall /\ [Next]_vars => [Gated!Next]_<<db, PendingOf>>
<1> SUFFICES ASSUME TypeOK, CallInHand, GatedCall, [Next]_vars
             PROVE  [Gated!Next]_<<db, PendingOf>>
  BY DEF IInv
<1> DEFINE Same == UNCHANGED <<db, PendingOf>>
<1>1. ASSUME NEW s \in Sessions
      PROVE  PendingOf[s] = Pending(s)
  BY DEF PendingOf
\* A step between phases in which nothing is pending.
<1>2. ASSUME NEW s \in Sessions, NEW p, NEW c, NEW a,
             phase' = [phase EXCEPT ![s] = p], call' = [call EXCEPT ![s] = c],
             answer' = [answer EXCEPT ![s] = a], Pending(s)' = Pending(s)
      PROVE  UNCHANGED PendingOf
  <2>1. PendingOf' = [PendingOf EXCEPT ![s] = PendingOf[s]]
    BY <1>1, <1>2, PendingStep
  <2>2. QED
    BY <2>1 DEF PendingOf
<1>3. ASSUME NEW s \in Sessions, NEW request \in Requests, Coordinate(s, request)
      PROVE  Same
  <2>1. /\ phase[s] = "idle" /\ phase' = [phase EXCEPT ![s] = "generate"]
        /\ call' = [call EXCEPT ![s] = NoCall]
        /\ answer' = [answer EXCEPT ![s] = "none"] /\ db' = db
    BY <1>3 DEF Coordinate, Goto
  <2>2. phase'[s] = "generate"
    BY <2>1 DEF TypeOK
  <2>3. Pending(s)' = Pending(s)
    BY <2>1, <2>2, PendingCases, PendingCasesNext
  <2>4. QED
    BY <1>2, <2>1, <2>3
<1>4. ASSUME NEW s \in Sessions, NEW reply \in Replies, GenerateCall(s, reply)
      PROVE  Same
  <2>1. /\ phase[s] = "generate" /\ phase' = [phase EXCEPT ![s] = "callback"]
        /\ call' = [call EXCEPT ![s] = reply]
        /\ answer' = [answer EXCEPT ![s] = "none"] /\ db' = db
    BY <1>4 DEF GenerateCall, Goto
  <2>2. phase'[s] = "callback" /\ answer'[s] = "none"
    BY <2>1 DEF TypeOK
  <2>3. Pending(s)' = Pending(s)
    BY <2>1, <2>2, PendingCases, PendingCasesNext
  <2>4. QED
    BY <1>2, <2>1, <2>3
<1>5. ASSUME NEW s \in Sessions,
             (\E reply \in Replies : GenerateText(s, reply)) \/ GenerateError(s)
      PROVE  Same
  <2>1. /\ phase[s] = "generate" /\ phase' = [phase EXCEPT ![s] = "idle"]
        /\ call' = call /\ answer' = answer /\ db' = db
    BY <1>5 DEF GenerateText, GenerateError, Goto
  <2>2. /\ phase'[s] = "idle"
        /\ call' = [call EXCEPT ![s] = call[s]]
        /\ answer' = [answer EXCEPT ![s] = answer[s]]
    BY <2>1 DEF TypeOK
  <2>3. Pending(s)' = Pending(s)
    BY <2>1, <2>2, PendingCases, PendingCasesNext
  <2>4. QED
    BY <1>2, <2>1, <2>2, <2>3
<1>6. ASSUME NEW s \in Sessions, BeforeTool(s)
      PROVE  Same
  <2>1. /\ phase[s] = "callback" /\ phase' = [phase EXCEPT ![s] = "tool"]
        /\ call' = call /\ answer' = answer /\ db' = db
    BY <1>6 DEF BeforeTool, Goto
  <2>2. /\ phase'[s] = "tool"
        /\ call' = [call EXCEPT ![s] = call[s]]
        /\ answer' = [answer EXCEPT ![s] = answer[s]]
    BY <2>1 DEF TypeOK
  <2>3. Pending(s)' = Pending(s)
    BY <2>1, <2>2 DEF Pending
  <2>4. QED
    BY <1>2, <2>1, <2>2, <2>3
<1>7. ASSUME NEW s \in Sessions, AskHuman(s)
      PROVE  Gated!Next
  <2>1. /\ phase[s] = "tool" /\ phase' = [phase EXCEPT ![s] = "confirm"]
        /\ call' = call /\ answer' = answer /\ answer[s] = "none" /\ db' = db
    BY <1>7 DEF AskHuman, Goto
  <2>2. /\ phase'[s] = "confirm"
        /\ call' = [call EXCEPT ![s] = call[s]]
        /\ answer' = [answer EXCEPT ![s] = answer[s]]
    BY <2>1 DEF TypeOK
  <2>3. call[s].tool = "db_write"
    BY <1>7, OnlyWritesWait DEF AskHuman, CallInHand, TypeOK
  <2>4. Proposed(s) \in Gated!Writes
    BY <2>1, <2>3, ProposedIsWrite
  <2>5. Pending(s) = Gated!None /\ Pending(s)' = Gated!Awaiting(Proposed(s)')
    BY <2>1, <2>2, PendingCases, PendingCasesNext
  <2>6. Proposed(s)' = Proposed(s)
    BY <2>1 DEF Proposed
  <2>7. PendingOf' = [PendingOf EXCEPT ![s] = Gated!Awaiting(Proposed(s))]
    BY <2>1, <2>2, <2>5, <2>6, PendingStep
  <2>8. Gated!Propose(s)
    BY <1>1, <2>1, <2>4, <2>5, <2>7 DEF Gated!Propose, Gated!Becomes, PendingOf
  <2>9. QED
    BY <2>8 DEF Gated!Next
<1>8. ASSUME NEW s \in Sessions, NEW yes \in BOOLEAN, HumanAnswers(s, yes)
      PROVE  Gated!Next
  <2>1. /\ phase[s] = "confirm" /\ phase' = [phase EXCEPT ![s] = "callback"]
        /\ call' = call /\ db' = db
        /\ answer' = [answer EXCEPT ![s] = IF yes THEN "approved" ELSE "denied"]
    BY <1>8 DEF HumanAnswers, Goto
  <2>2. /\ phase'[s] = "callback"
        /\ call' = [call EXCEPT ![s] = call[s]]
        /\ answer'[s] = IF yes THEN "approved" ELSE "denied"
    BY <2>1 DEF TypeOK
  <2>3. call[s].tool = "db_write"
    BY <2>1 DEF GatedCall
  <2>4. Proposed(s) \in Gated!Writes
    BY <2>1, <2>3, ProposedIsWrite
  <2>5. Pending(s) = Gated!Awaiting(Proposed(s))
    BY <2>1, PendingCases
  <2>6. Proposed(s)' = Proposed(s)
    BY <2>1 DEF Proposed
  <2>7. Pending(s)' = IF yes THEN Gated!Approved(Proposed(s)) ELSE Gated!None
    BY <2>2, <2>6, PendingCasesNext
  <2>8. PendingOf' = [PendingOf EXCEPT ![s] = Pending(s)']
    BY <2>1, <2>2, PendingStep
  <2>9. Gated!Decide(s)
    BY <1>1, <2>1, <2>4, <2>5, <2>7, <2>8 DEF Gated!Decide, Gated!Becomes, PendingOf
  <2>10. QED
    BY <2>9 DEF Gated!Next
<1>9. ASSUME NEW s \in Sessions, RunTool(s)
      PROVE  [Gated!Next]_<<db, PendingOf>>
  <2>1. /\ phase[s] = "tool" /\ phase' = [phase EXCEPT ![s] = "generate"]
        /\ call' = call /\ answer' = answer
    BY <1>9 DEF RunTool, Rejected, WebSearch, DBQuery, DBWrite, Return, Goto
  <2>2. /\ phase'[s] = "generate"
        /\ call' = [call EXCEPT ![s] = call[s]]
        /\ answer' = [answer EXCEPT ![s] = answer[s]]
    BY <2>1 DEF TypeOK
  <2>3. Pending(s)' = Gated!None
    BY <2>2, PendingCasesNext
  <2>4. CASE answer[s] = "approved"
    <3>1. call[s].tool = "db_write"
      BY <2>1, <2>4 DEF GatedCall
    <3>2. DBWrite(s)
      BY <1>9, <2>4, <3>1 DEF RunTool, Rejected, WebSearch, DBQuery
    <3>3. Proposed(s) \in Gated!Writes
      BY <2>1, <3>1, ProposedIsWrite
    <3>4. Pending(s) = Gated!Approved(Proposed(s))
      BY <2>1, <2>4, PendingCases
    <3>5. db' = IF Proposed(s).key = Blank THEN db
                ELSE [db EXCEPT ![Proposed(s).key] = Proposed(s).value]
      BY <3>2 DEF DBWrite, Proposed
    <3>6. PendingOf' = [PendingOf EXCEPT ![s] = Gated!None]
      BY <2>1, <2>2, <2>3, PendingStep
    <3>7. Gated!Commit(s)
      BY <1>1, <3>3, <3>4, <3>5, <3>6 DEF Gated!Commit, Gated!Becomes, PendingOf
    <3>8. QED
      BY <3>7 DEF Gated!Next
  <2>5. CASE answer[s] # "approved"
    <3>1. db' = db
      BY <1>9, <2>5, Gate DEF RunTool, Rejected, WebSearch, DBQuery, DBWrite
    <3>2. Pending(s) = Gated!None
      BY <2>1, <2>5, PendingCases
    <3>3. Pending(s)' = Pending(s)
      BY <2>3, <3>2
    <3>4. UNCHANGED PendingOf
      BY <1>2, <2>1, <2>2, <3>3
    <3>5. QED
      BY <3>1, <3>4
  <2>6. QED
    BY <2>4, <2>5
<1>10. CASE UNCHANGED vars
  BY <1>10 DEF vars, sessionVars, PendingOf, Pending
<1>11. QED
  BY <1>3, <1>4, <1>5, <1>6, <1>7, <1>8, <1>9, <1>10 DEF Next, Program, User

\* The graph keeps the promise of GatedWrites, whatever its agents and models
\* do: one yes is worth one write, of what it was asked about.
THEOREM WritesAreGated == Spec => OneWritePerApproval
<1>1. Init => Gated!Init
  BY DEF Init, Gated!Init, Gated!None, Pending
<1>2. Init => GatedCall
  BY DEF Init, GatedCall
<1>3. Spec => []GatedCall
  BY Inductive, GatedCallStep, <1>2, PTL DEF Spec
<1>4. Spec => [][Gated!Next]_<<db, PendingOf>>
  BY Inductive, GatedStep, <1>3, PTL DEF Spec
<1>5. QED
  BY <1>1, <1>4, PTL DEF Spec, OneWritePerApproval, Gated!Spec, PendingOf
=============================================================================
