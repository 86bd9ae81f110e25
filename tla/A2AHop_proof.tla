---------------------------- MODULE A2AHop_proof ----------------------------
(***************************************************************************)
(* Proofs about A2AHop, for any number of runs, any cards and any results: *)
(* the hop is seen from both sides, the spans of a run that is over tell   *)
(* its outcome, and a report is the agent's.                               *)
(***************************************************************************)
EXTENDS A2AHop, WellFoundedInduction, TLAPS

-----------------------------------------------------------------------------
(* The text of a reply *)

\* The first of some texts is one of them.
LEMMA FirstTextIsOne ==
  ASSUME NEW T, NEW texts \in Seq(T), FirstText(texts) # NoText
  PROVE  FirstText(texts) \in T
<1> DEFINE some == {i \in DOMAIN texts : texts[i] # NoText}
<1>1. some # {}
  BY DEF FirstText
<1>2. some \subseteq Nat
  OBVIOUS
<1>3. \E i \in some : \A j \in some : i <= j
  <2>1. PICK i \in some : \A j \in some : ~(<<j, i>> \in OpToRel(<, Nat))
    BY <1>1, <1>2, NatLessThanWellFounded, WFMin, Zenon
  <2>2. \A j \in some : <<j, i>> \in OpToRel(<, Nat) <=> j < i
    BY <1>2, <2>1 DEF OpToRel
  <2>3. \A j \in some : i \in Nat /\ j \in Nat /\ ~(j < i)
    BY <1>2, <2>1, <2>2
  <2>4. \A j \in some : i <= j
    BY <2>3
  <2>5. QED
    BY <2>1, <2>4
<1>4. (CHOOSE i \in some : \A j \in some : i <= j) \in DOMAIN texts
  BY <1>3
<1>5. QED
  BY <1>1, <1>4 DEF FirstText

\* replyText: a text it returns is not the user's.
LEMMA ReplyIsNotTheUsers ==
  ASSUME NEW result \in Results, ReplyText(result) # NoText
  PROVE  ReplyText(result) # UserText
<1>1. CASE result.kind = "message"
  BY <1>1, ResultsAssumption DEF ReplyText
<1>2. CASE result.kind # "message"
  <2> DEFINE said == SpokenByAgent(result.history)
             Turn == [role : {"user"}, text : {UserText}] \cup [role : {"agent"}, text : Texts]
  <2>1. /\ result.artifacts \in Seq(Texts)
        /\ result.status \in Texts
        /\ result.history \in Seq(Turn)
    BY <1>2, ResultsAssumption
  <2>2. \A i \in 1 .. Len(result.history) : said[i] \in Texts
    <3>1. TAKE i \in 1 .. Len(result.history)
    <3> DEFINE k == Len(result.history) + 1 - i
    <3>2. result.history[k] \in Turn
      <4> HIDE DEF Turn
      <4>1. QED
        BY <2>1
    <3>3. said[i] = IF result.history[k].role = "agent" THEN result.history[k].text ELSE NoText
      BY <2>1 DEF SpokenByAgent
    <3> HIDE DEF k
    <3>4. QED
      BY <3>2, <3>3, ResultsAssumption
  <2>3. said \in Seq(Texts)
    <3>1. said = [i \in 1 .. Len(result.history) |-> said[i]]
      BY <2>1 DEF SpokenByAgent
    <3>2. Len(result.history) \in Nat
      BY <2>1
    <3> HIDE DEF said
    <3>3. said \in [1 .. Len(result.history) -> Texts]
      BY <2>2, <3>1
    <3>4. QED
      BY <3>2, <3>3
  <2> HIDE DEF said
  <2>4. result.artifacts \o <<result.status>> \o said \in Seq(Texts)
    BY <2>1, <2>3
  <2>5. ReplyText(result) = FirstText(result.artifacts \o <<result.status>> \o said)
    BY <1>2 DEF ReplyText, said
  <2>6. ReplyText(result) \in Texts
    BY <2>4, <2>5, FirstTextIsOne
  <2>7. QED
    BY <2>6, ResultsAssumption
<1>3. QED
  BY <1>1, <1>2

-----------------------------------------------------------------------------
(* The invariant *)

Places == {"start", "resolving", "waiting", "ending", "returning", "exited"}
Paths  == {"card", "rpc"}

Requests == [type : {"request"}, run : Runs, path : Paths, traceparent : SUBSET Runs]
Replies  == [type : {"reply"}, run : Runs, path : {"card"}, body : Cards]
              \cup [type : {"reply"}, run : Runs, path : {"rpc"}, body : Results]

TypeInv ==
  /\ A2ATypeOK
  /\ recording \in [Runs -> BOOLEAN]
  /\ pc \in [Runs -> Places]
  /\ DOMAIN spans = Runs /\ spans = [r \in Runs |-> spans[r]]
  /\ exported \in [Runs -> SUBSET {"coordinator", "a2a.analyze"}]
  /\ DOMAIN outcome = Runs /\ outcome = [r \in Runs |-> outcome[r]]
  /\ net \subseteq Requests \cup Replies
  /\ serving \subseteq [run : Runs, path : Paths, stage : {"accepted", "analyzed"}]
  /\ pySpans \subseteq [run : Runs, path : Paths, trace : SUBSET Runs, hop : BOOLEAN]

\* The spans of a run by its place: which have started and which were exported.
SpansByPlace ==
  \A r \in Runs :
    /\ pc[r] = "start" => DOMAIN spans[r] = {}
    /\ pc[r] = "resolving" => DOMAIN spans[r] = {"coordinator"}
    /\ pc[r] \in {"waiting", "ending"} => DOMAIN spans[r] = {"coordinator", "a2a.analyze"}
    /\ pc[r] = "returning" => "coordinator" \in DOMAIN spans[r]
    /\ recording[r] =>
         exported[r] = IF pc[r] = "exited" THEN DOMAIN spans[r] ELSE
                       IF pc[r] = "returning" THEN DOMAIN spans[r] \ {"coordinator"} ELSE {}

\* The status of the hop span is settled with the outcome.
StatusByPlace ==
  \A r \in Runs :
    /\ pc[r] = "waiting" => spans[r]["a2a.analyze"] = "unset"
    /\ pc[r] \in {"ending", "returning", "exited"} =>
         IF "a2a.analyze" \in DOMAIN spans[r]
           THEN spans[r]["a2a.analyze"] = "error" <=> outcome[r].kind = "error"
           ELSE outcome[r].kind = "error"

\* Requests carry the caller's trace, and only a caller that has started its hop
\* span sends one to the endpoint.
RequestsCarryTrace ==
  \A m \in net :
    m.type = "request" =>
      /\ m.traceparent = IF recording[m.run] THEN {m.run} ELSE {}
      /\ m.path = "rpc" => "a2a.analyze" \in DOMAIN spans[m.run]

\* Replies come from a server that has accepted the request.
RepliesWereServed ==
  \A m \in net :
    m.type = "reply" /\ m.path = "rpc" => \E s \in pySpans : s.run = m.run /\ s.path = "rpc"

AInv ==
  /\ TypeInv /\ SpansByPlace /\ StatusByPlace
  /\ RequestsCarryTrace /\ RepliesWereServed
  /\ HopVisible /\ ReportsAreTheAgents

-----------------------------------------------------------------------------
(* Steps of a run *)

\* WithSpan starts a span or sets its status, and leaves the others.
LEMMA WithSpanSets ==
  ASSUME TypeInv, NEW r \in Runs, NEW name, NEW status
  PROVE  LET s == WithSpan(r, name, status) IN
         /\ DOMAIN s = Runs /\ s = [x \in Runs |-> s[x]]
         /\ \A x \in Runs : x # r => s[x] = spans[x]
         /\ DOMAIN s[r] = DOMAIN spans[r] \cup {name}
         /\ s[r][name] = status
         /\ \A n \in DOMAIN spans[r] : n # name => s[r][n] = spans[r][n]
         /\ \A x \in Runs : DOMAIN spans[x] \subseteq DOMAIN s[x]
  BY DEF TypeInv, WithSpan

LEMMA InitInv ==
  A2AInit => AInv
  BY DEF A2AInit, AInv, TypeInv, A2ATypeOK, SpansByPlace, StatusByPlace, RequestsCarryTrace,
         RepliesWereServed, HopVisible, ReportsAreTheAgents, Places

\* The client's half.
LEMMA RunStepInv ==
  ASSUME AInv, NEW r \in Runs, RunStep(r)
  PROVE  AInv'
<1> USE DEF AInv
<1>1. CASE Connect(r)
  <2> DEFINE opened == WithSpan(r, "coordinator", "unset")
  <2>1. /\ DOMAIN opened = Runs /\ opened = [x \in Runs |-> opened[x]]
        /\ \A x \in Runs : x # r => opened[x] = spans[x]
        /\ DOMAIN opened[r] = DOMAIN spans[r] \cup {"coordinator"}
        /\ opened[r]["coordinator"] = "unset"
        /\ \A n \in DOMAIN spans[r] : n # "coordinator" => opened[r][n] = spans[r][n]
        /\ \A x \in Runs : DOMAIN spans[x] \subseteq DOMAIN opened[x]
    BY WithSpanSets
  <2> HIDE DEF opened
  <2>2. TypeInv'
    BY <2>1, <1>1 DEF Connect, Goto, Request, TypeInv, A2ATypeOK, Places, Requests, Paths, opened
  <2>3. SpansByPlace'
    BY <2>1, <1>1 DEF Connect, Goto, TypeInv, SpansByPlace, opened
  <2>4. StatusByPlace'
    BY <2>1, <1>1 DEF Connect, Goto, StatusByPlace, opened
  <2>5. RequestsCarryTrace'
    <3>1. \A q \in net' : q \in net \/ q = Request(r, "card")
      BY <1>1 DEF Connect
    <3>2. \A q \in net : q.run \in Runs
      BY DEF TypeInv, Requests, Replies
    <3>3. spans' = opened /\ recording' = recording
      BY <1>1 DEF Connect, opened
    <3>4. LET q == Request(r, "card") IN
          q.run = r /\ q.path = "card" /\ q.traceparent = IF recording[r] THEN {r} ELSE {}
      BY DEF Request
    <3>5. \A x \in Runs : DOMAIN spans[x] \subseteq DOMAIN opened[x]
      BY <2>1
    <3>6. QED
      BY <3>1, <3>2, <3>3, <3>4, <3>5 DEF RequestsCarryTrace
  <2>6. RepliesWereServed'
    BY <2>1, <1>1 DEF Connect, Request, RepliesWereServed
  <2>7. HopVisible'
    BY <2>1, <1>1 DEF Connect, TypeInv, HopVisible, opened
  <2>8. ReportsAreTheAgents'
    BY <2>1, <1>1 DEF Connect, ReportsAreTheAgents
  <2>9. QED
    BY <2>2, <2>3, <2>4, <2>5, <2>6, <2>7, <2>8
<1>2. CASE \E m \in net : ResolveCard(r, m)
  <2>1. PICK m \in net : ResolveCard(r, m)
    BY <1>2
  <2> DEFINE opened == WithSpan(r, "a2a.analyze", "unset")
  <2>2. /\ DOMAIN opened = Runs /\ opened = [x \in Runs |-> opened[x]]
        /\ \A x \in Runs : x # r => opened[x] = spans[x]
        /\ DOMAIN opened[r] = DOMAIN spans[r] \cup {"a2a.analyze"}
        /\ opened[r]["a2a.analyze"] = "unset"
        /\ \A n \in DOMAIN spans[r] : n # "a2a.analyze" => opened[r][n] = spans[r][n]
        /\ \A x \in Runs : DOMAIN spans[x] \subseteq DOMAIN opened[x]
    BY WithSpanSets
  <2> HIDE DEF opened
  <2>3. TypeInv'
    BY <2>2, <2>1 DEF ResolveCard, Goto, Request, Return, TypeInv, A2ATypeOK, Places, Requests, Paths, opened
  <2>4. SpansByPlace'
    BY <2>2, <2>1 DEF ResolveCard, Goto, Return, TypeInv, SpansByPlace, opened
  <2>5. StatusByPlace'
    BY <2>2, <2>1 DEF ResolveCard, Goto, Return, TypeInv, SpansByPlace, StatusByPlace, opened
  <2>6. RequestsCarryTrace'
    <3>1. \A q \in net : q.run \in Runs
      BY DEF TypeInv, Requests, Replies
    <3>2. spans' \in {opened, spans} /\ recording' = recording
      BY <2>1 DEF ResolveCard, opened
    <3>3. \A q \in net' : q \in net \/ (q = Request(r, "rpc") /\ spans' = opened)
      BY <2>1 DEF ResolveCard, opened
    <3>4. LET q == Request(r, "rpc") IN
          q.run = r /\ q.traceparent = IF recording[r] THEN {r} ELSE {}
      BY DEF Request
    <3>5. /\ "a2a.analyze" \in DOMAIN opened[r]
          /\ \A x \in Runs : DOMAIN spans[x] \subseteq DOMAIN opened[x]
      BY <2>2
    <3>6. QED
      BY <3>1, <3>2, <3>3, <3>4, <3>5 DEF RequestsCarryTrace
  <2>7. RepliesWereServed'
    BY <2>2, <2>1 DEF ResolveCard, Request, RepliesWereServed
  <2>8. HopVisible'
    BY <2>2, <2>1 DEF ResolveCard, TypeInv, HopVisible, opened
  <2>9. ReportsAreTheAgents'
    BY <2>2, <2>1 DEF ResolveCard, Return, TypeInv, ReportsAreTheAgents
  <2>10. QED
    BY <2>3, <2>4, <2>5, <2>6, <2>7, <2>8, <2>9
<1>3. CASE ResolveFails(r)
  <2>1. TypeInv'
    BY <1>3 DEF ResolveFails, Goto, Return, TypeInv, A2ATypeOK, Places
  <2>2. SpansByPlace'
    BY <1>3 DEF ResolveFails, Goto, Return, SpansByPlace
  <2>3. StatusByPlace'
    BY <1>3 DEF ResolveFails, Goto, Return, TypeInv, SpansByPlace, StatusByPlace
  <2>4. RequestsCarryTrace'
    BY <1>3 DEF ResolveFails, RequestsCarryTrace
  <2>5. RepliesWereServed'
    BY <1>3 DEF ResolveFails, RepliesWereServed
  <2>6. HopVisible'
    BY <1>3 DEF ResolveFails, HopVisible
  <2>7. ReportsAreTheAgents'
    BY <1>3 DEF ResolveFails, Return, ReportsAreTheAgents
  <2>8. QED
    BY <2>1, <2>2, <2>3, <2>4, <2>5, <2>6, <2>7
<1>4. CASE \E m \in net : Receive(r, m)
  <2>1. PICK m \in net : Receive(r, m)
    BY <1>4
  <2> DEFINE opened == WithSpan(r, "a2a.analyze", "error")
  <2>2. /\ DOMAIN opened = Runs /\ opened = [x \in Runs |-> opened[x]]
        /\ \A x \in Runs : x # r => opened[x] = spans[x]
        /\ DOMAIN opened[r] = DOMAIN spans[r] \cup {"a2a.analyze"}
        /\ opened[r]["a2a.analyze"] = "error"
        /\ \A n \in DOMAIN spans[r] : n # "a2a.analyze" => opened[r][n] = spans[r][n]
        /\ \A x \in Runs : DOMAIN spans[x] \subseteq DOMAIN opened[x]
    BY WithSpanSets
  <2> HIDE DEF opened
  <2>3. TypeInv'
    BY <2>2, <2>1 DEF Receive, Answer, Goto, Return, TypeInv, A2ATypeOK, Places, opened
  <2>4. SpansByPlace'
    BY <2>2, <2>1 DEF Receive, Answer, Goto, Return, TypeInv, SpansByPlace, opened
  <2>5. StatusByPlace'
    BY <2>2, <2>1 DEF Receive, Answer, Goto, Return, TypeInv, SpansByPlace, StatusByPlace, opened
  <2>6. RequestsCarryTrace'
    BY <2>2, <2>1 DEF Receive, Answer, TypeInv, Requests, Replies, RequestsCarryTrace, opened
  <2>7. RepliesWereServed'
    BY <2>2, <2>1 DEF Receive, RepliesWereServed
  <2>8. HopVisible'
    BY <2>2, <2>1 DEF Receive, Answer, TypeInv, HopVisible, opened
  <2>9. ReportsAreTheAgents'
    <3> DEFINE text == ReplyText(m.body)
    <3>1. m.body \in Results /\ \E x \in pySpans : x.run = r /\ x.path = "rpc"
      BY <2>1 DEF Receive, TypeInv, Requests, Replies, RepliesWereServed
    <3>2. text # NoText => text # UserText
      BY <3>1, ReplyIsNotTheUsers
    <3> HIDE DEF text
    <3>3. \/ outcome' = [outcome EXCEPT ![r] = [kind |-> "error"]]
          \/ text # NoText /\ outcome' = [outcome EXCEPT ![r] = [kind |-> "report", text |-> text]]
      BY <2>1 DEF Receive, Answer, Return, text
    <3>4. pySpans' = pySpans
      BY <2>1 DEF Receive
    <3>5. QED
      BY <3>1, <3>2, <3>3, <3>4 DEF TypeInv, ReportsAreTheAgents
  <2>10. QED
    BY <2>3, <2>4, <2>5, <2>6, <2>7, <2>8, <2>9
<1>5. CASE SendFails(r)
  <2> DEFINE opened == WithSpan(r, "a2a.analyze", "error")
  <2>1. /\ DOMAIN opened = Runs /\ opened = [x \in Runs |-> opened[x]]
        /\ \A x \in Runs : x # r => opened[x] = spans[x]
        /\ DOMAIN opened[r] = DOMAIN spans[r] \cup {"a2a.analyze"}
        /\ opened[r]["a2a.analyze"] = "error"
        /\ \A n \in DOMAIN spans[r] : n # "a2a.analyze" => opened[r][n] = spans[r][n]
        /\ \A x \in Runs : DOMAIN spans[x] \subseteq DOMAIN opened[x]
    BY WithSpanSets
  <2> HIDE DEF opened
  <2>2. TypeInv'
    BY <2>1, <1>5 DEF SendFails, Goto, Return, TypeInv, A2ATypeOK, Places, opened
  <2>3. SpansByPlace'
    BY <2>1, <1>5 DEF SendFails, Goto, Return, TypeInv, SpansByPlace, opened
  <2>4. StatusByPlace'
    BY <2>1, <1>5 DEF SendFails, Goto, Return, TypeInv, StatusByPlace, opened
  <2>5. RequestsCarryTrace'
    BY <2>1, <1>5 DEF SendFails, TypeInv, Requests, Replies, RequestsCarryTrace, opened
  <2>6. RepliesWereServed'
    BY <2>1, <1>5 DEF SendFails, RepliesWereServed
  <2>7. HopVisible'
    BY <2>1, <1>5 DEF SendFails, TypeInv, HopVisible, opened
  <2>8. ReportsAreTheAgents'
    BY <2>1, <1>5 DEF SendFails, Return, ReportsAreTheAgents
  <2>9. QED
    BY <2>2, <2>3, <2>4, <2>5, <2>6, <2>7, <2>8
<1>6. CASE EndAnalyze(r)
  <2> DEFINE after == IF recording[r] THEN exported[r] \cup {"a2a.analyze"} ELSE exported[r]
  <2>1. exported' = [exported EXCEPT ![r] = after]
    BY <1>6 DEF EndAnalyze, EndSpan, TypeInv
  <2>2. DOMAIN spans[r] \subseteq {"coordinator", "a2a.analyze"} /\ exported[r] \subseteq DOMAIN spans[r]
    BY DEF TypeInv, A2ATypeOK
  <2>3. "a2a.analyze" \in DOMAIN spans[r]
    BY <1>6 DEF EndAnalyze, SpansByPlace
  <2>4. recording[r] => after = DOMAIN spans[r] \ {"coordinator"}
    BY <1>6, <2>2, <2>3 DEF EndAnalyze, SpansByPlace
  <2>5. after \subseteq DOMAIN spans[r]
    BY <2>2, <2>3
  <2> HIDE DEF after
  <2>6. TypeInv'
    BY <1>6, <2>1, <2>2, <2>5 DEF EndAnalyze, Goto, TypeInv, A2ATypeOK, Places
  <2>7. SpansByPlace'
    BY <1>6, <2>1, <2>3, <2>4 DEF EndAnalyze, Goto, TypeInv, SpansByPlace
  <2>8. StatusByPlace'
    BY <1>6 DEF EndAnalyze, Goto, StatusByPlace
  <2>9. RequestsCarryTrace'
    BY <1>6 DEF EndAnalyze, RequestsCarryTrace
  <2>10. RepliesWereServed'
    BY <1>6 DEF EndAnalyze, RepliesWereServed
  <2>11. HopVisible'
    BY <1>6 DEF EndAnalyze, HopVisible
  <2>12. ReportsAreTheAgents'
    BY <1>6 DEF EndAnalyze, ReportsAreTheAgents
  <2>13. QED
    BY <2>6, <2>7, <2>8, <2>9, <2>10, <2>11, <2>12
<1>7. CASE EndRun(r)
  <2> DEFINE after == IF recording[r] THEN exported[r] \cup {"coordinator"} ELSE exported[r]
  <2>1. exported' = [exported EXCEPT ![r] = after]
    BY <1>7 DEF EndRun, EndSpan, TypeInv
  <2>2. DOMAIN spans[r] \subseteq {"coordinator", "a2a.analyze"} /\ exported[r] \subseteq DOMAIN spans[r]
    BY DEF TypeInv, A2ATypeOK
  <2>3. "coordinator" \in DOMAIN spans[r]
    BY <1>7 DEF EndRun, SpansByPlace
  <2>4. recording[r] => after = DOMAIN spans[r]
    BY <1>7, <2>2, <2>3 DEF EndRun, SpansByPlace
  <2>5. after \subseteq DOMAIN spans[r]
    BY <2>2, <2>3
  <2> HIDE DEF after
  <2>6. TypeInv'
    BY <1>7, <2>1, <2>2, <2>5 DEF EndRun, Goto, TypeInv, A2ATypeOK, Places
  <2>7. SpansByPlace'
    BY <1>7, <2>1, <2>3, <2>4 DEF EndRun, Goto, TypeInv, SpansByPlace
  <2>8. StatusByPlace'
    BY <1>7 DEF EndRun, Goto, StatusByPlace
  <2>9. RequestsCarryTrace'
    BY <1>7 DEF EndRun, RequestsCarryTrace
  <2>10. RepliesWereServed'
    BY <1>7 DEF EndRun, RepliesWereServed
  <2>11. HopVisible'
    BY <1>7 DEF EndRun, HopVisible
  <2>12. ReportsAreTheAgents'
    BY <1>7 DEF EndRun, ReportsAreTheAgents
  <2>13. QED
    BY <2>6, <2>7, <2>8, <2>9, <2>10, <2>11, <2>12
<1>8. CASE SetupFails(r)
  <2>1. TypeInv'
    BY <1>8 DEF SetupFails, Goto, Return, TypeInv, A2ATypeOK, Places
  <2>2. SpansByPlace'
    BY <1>8 DEF SetupFails, Goto, Return, TypeInv, SpansByPlace
  <2>3. StatusByPlace'
    BY <1>8 DEF SetupFails, Goto, Return, TypeInv, SpansByPlace, StatusByPlace
  <2>4. RequestsCarryTrace'
    BY <1>8 DEF SetupFails, RequestsCarryTrace
  <2>5. RepliesWereServed'
    BY <1>8 DEF SetupFails, RepliesWereServed
  <2>6. HopVisible'
    BY <1>8 DEF SetupFails, HopVisible
  <2>7. ReportsAreTheAgents'
    BY <1>8 DEF SetupFails, Return, ReportsAreTheAgents
  <2>8. QED
    BY <2>1, <2>2, <2>3, <2>4, <2>5, <2>6, <2>7
<1>9. QED
  BY <1>1, <1>2, <1>3, <1>4, <1>5, <1>6, <1>7, <1>8 DEF RunStep

-----------------------------------------------------------------------------
(* Steps of the server and the network *)

\* They leave the client's half alone.
LEMMA ClientUntouched ==
  ASSUME SpansByPlace, StatusByPlace, UNCHANGED <<recording, pc, spans, exported, outcome>>
  PROVE  SpansByPlace' /\ StatusByPlace'
  BY DEF SpansByPlace, StatusByPlace

\* Accept, which is where the hop gets visible.
LEMMA AcceptInv ==
  ASSUME AInv, NEW m \in net, Accept(m)
  PROVE  AInv'
<1> USE DEF AInv
<1> DEFINE span == [run |-> m.run, path |-> m.path, trace |-> m.traceparent, hop |-> m.path = "rpc"]
           work == [run |-> m.run, path |-> m.path, stage |-> "accepted"]
<1>1. /\ m \in Requests
      /\ net' = net \ {m} /\ pySpans' = pySpans \cup {span} /\ serving' = serving \cup {work}
      /\ UNCHANGED <<recording, pc, spans, exported, outcome>>
  BY DEF Accept, TypeInv, Requests, Replies
<1>2. TypeInv'
  <2>1. /\ span \in [run : Runs, path : Paths, trace : SUBSET Runs, hop : BOOLEAN]
        /\ work \in [run : Runs, path : Paths, stage : {"accepted", "analyzed"}]
    BY <1>1 DEF Requests
  <2>2. \A w \in serving' : \E s \in pySpans' : s.run = w.run /\ s.path = w.path
    <3>1. work.run = span.run /\ work.path = span.path
      OBVIOUS
    <3>2. \A w \in serving : \E s \in pySpans : s.run = w.run /\ s.path = w.path
      BY DEF TypeInv, A2ATypeOK
    <3> HIDE DEF span, work
    <3>3. QED
      BY <1>1, <3>1, <3>2
  <2>3. A2ATypeOK'
    BY <1>1, <2>2 DEF TypeInv, A2ATypeOK
  <2> HIDE DEF span, work
  <2>4. QED
    BY <1>1, <2>1, <2>3 DEF TypeInv
<1>3. SpansByPlace' /\ StatusByPlace'
  BY <1>1, ClientUntouched
<1>4. RequestsCarryTrace'
  BY <1>1 DEF RequestsCarryTrace
<1>5. RepliesWereServed'
  BY <1>1 DEF RepliesWereServed
<1>6. HopVisible'
  <2>1. m.path = "rpc" => span.hop /\ "a2a.analyze" \in DOMAIN spans[m.run]
    BY <1>1 DEF RequestsCarryTrace, Requests
  <2>2. recording[m.run] => span.trace = {m.run}
    BY <1>1 DEF RequestsCarryTrace, Requests
  <2>3. QED
    BY <1>1, <2>1, <2>2 DEF HopVisible
<1>7. ReportsAreTheAgents'
  BY <1>1 DEF ReportsAreTheAgents
<1>8. QED
  BY <1>2, <1>3, <1>4, <1>5, <1>6, <1>7

LEMMA ServeCardInv ==
  ASSUME AInv, NEW w \in serving, NEW card \in Cards, ServeCard(w, card)
  PROVE  AInv'
<1> USE DEF AInv
<1>1. /\ w.run \in Runs /\ net' = net \cup {Reply(w.run, "card", card)}
      /\ serving' = serving \ {w}
      /\ UNCHANGED <<recording, pc, spans, exported, outcome, pySpans>>
  BY DEF ServeCard, TypeInv
<1>2. TypeInv'
  BY <1>1 DEF TypeInv, A2ATypeOK, Reply, Requests, Replies, Paths
<1>3. SpansByPlace' /\ StatusByPlace'
  BY <1>1, ClientUntouched
<1>4. RequestsCarryTrace' /\ RepliesWereServed'
  BY <1>1 DEF RequestsCarryTrace, RepliesWereServed, Reply
<1>5. HopVisible' /\ ReportsAreTheAgents'
  BY <1>1 DEF HopVisible, ReportsAreTheAgents
<1>6. QED
  BY <1>2, <1>3, <1>4, <1>5

\* The agent may stamp the hop again; it takes nothing away.
LEMMA RunAgentInv ==
  ASSUME AInv, NEW w \in serving, NEW inContext \in BOOLEAN, RunAgent(w, inContext)
  PROVE  AInv'
<1> USE DEF AInv
<1> DEFINE Stamped(s) == IF s.run = w.run /\ s.path = "rpc" THEN [s EXCEPT !.hop = TRUE] ELSE s
<1>1. /\ w.path = "rpc" /\ w.run \in Runs
      /\ pySpans' = {Stamped(s) : s \in pySpans} \/ pySpans' = pySpans
      /\ serving' = (serving \ {w}) \cup {[w EXCEPT !.stage = "analyzed"]}
      /\ UNCHANGED <<recording, pc, spans, exported, outcome, net>>
  BY DEF RunAgent, TypeInv
<1>2. \A s \in pySpans :
        /\ Stamped(s) \in [run : Runs, path : Paths, trace : SUBSET Runs, hop : BOOLEAN]
        /\ Stamped(s).run = s.run /\ Stamped(s).path = s.path /\ Stamped(s).trace = s.trace
        /\ s.hop => Stamped(s).hop
  BY DEF TypeInv
<1> HIDE DEF Stamped
<1>3. \A s \in pySpans : \E x \in pySpans' : x.run = s.run /\ x.path = s.path
  BY <1>1, <1>2
<1>4. \A x \in pySpans' : \E s \in pySpans :
        /\ x \in [run : Runs, path : Paths, trace : SUBSET Runs, hop : BOOLEAN]
        /\ x.run = s.run /\ x.path = s.path /\ x.trace = s.trace /\ (s.hop => x.hop)
  BY <1>1, <1>2 DEF TypeInv
<1>5. \A x \in serving' : \E y \in serving :
        /\ x.run = y.run /\ x.path = y.path
        /\ x \in [run : Runs, path : Paths, stage : {"accepted", "analyzed"}]
  BY <1>1 DEF TypeInv
<1>6. TypeInv'
  <2>1. A2ATypeOK'
    BY <1>1, <1>3, <1>5 DEF TypeInv, A2ATypeOK
  <2>2. QED
    BY <1>1, <1>4, <1>5, <2>1 DEF TypeInv
<1>7. SpansByPlace' /\ StatusByPlace'
  BY <1>1, ClientUntouched
<1>8. RequestsCarryTrace'
  BY <1>1 DEF RequestsCarryTrace
<1>9. RepliesWereServed'
  BY <1>1, <1>3 DEF RepliesWereServed
<1>10. HopVisible'
  BY <1>1, <1>4 DEF HopVisible
<1>11. ReportsAreTheAgents'
  BY <1>1, <1>3 DEF ReportsAreTheAgents
<1>12. QED
  BY <1>6, <1>7, <1>8, <1>9, <1>10, <1>11

LEMMA RespondInv ==
  ASSUME AInv, NEW w \in serving, NEW result \in Results, Respond(w, result)
  PROVE  AInv'
<1> USE DEF AInv
<1>1. /\ w.run \in Runs /\ net' = net \cup {Reply(w.run, "rpc", result)}
      /\ serving' = serving \ {w}
      /\ UNCHANGED <<recording, pc, spans, exported, outcome, pySpans>>
  BY DEF Respond, TypeInv
<1>2. TypeInv'
  BY <1>1 DEF TypeInv, A2ATypeOK, Reply, Requests, Replies, Paths
<1>3. SpansByPlace' /\ StatusByPlace'
  BY <1>1, ClientUntouched
<1>4. RequestsCarryTrace'
  BY <1>1 DEF RequestsCarryTrace, Reply
<1>5. RepliesWereServed'
  <2>1. \E s \in pySpans : s.run = w.run /\ s.path = "rpc"
    BY DEF Respond, TypeInv, A2ATypeOK
  <2>2. QED
    BY <1>1, <2>1 DEF RepliesWereServed, Reply
<1>6. HopVisible' /\ ReportsAreTheAgents'
  BY <1>1 DEF HopVisible, ReportsAreTheAgents
<1>7. QED
  BY <1>2, <1>3, <1>4, <1>5, <1>6

LEMMA LoseInv ==
  ASSUME AInv, Lose
  PROVE  AInv'
<1> USE DEF AInv
<1>1. /\ net' \subseteq net /\ serving' \subseteq serving
      /\ UNCHANGED <<recording, pc, spans, exported, outcome, pySpans>>
  BY DEF Lose
<1>2. TypeInv'
  BY <1>1 DEF TypeInv, A2ATypeOK
<1>3. SpansByPlace' /\ StatusByPlace'
  BY <1>1, ClientUntouched
<1>4. RequestsCarryTrace' /\ RepliesWereServed'
  BY <1>1 DEF RequestsCarryTrace, RepliesWereServed
<1>5. HopVisible' /\ ReportsAreTheAgents'
  BY <1>1 DEF HopVisible, ReportsAreTheAgents
<1>6. QED
  BY <1>2, <1>3, <1>4, <1>5

-----------------------------------------------------------------------------
(* The theorems *)

LEMMA NextInv ==
  AInv /\ [A2ANext]_vars => AInv'
<1>1. SUFFICES ASSUME AInv, [A2ANext]_vars PROVE AInv'
  OBVIOUS
<1>2. CASE \E r \in Runs : RunStep(r)
  BY <1>1, <1>2, RunStepInv
<1>3. CASE ServerStep
  BY <1>1, <1>3, AcceptInv, ServeCardInv, RunAgentInv, RespondInv DEF ServerStep
<1>4. CASE Lose
  BY <1>1, <1>4, LoseInv
<1>5. CASE UNCHANGED vars
  <2>1. TypeInv'
    BY <1>1, <1>5 DEF vars, AInv, TypeInv, A2ATypeOK
  <2>2. SpansByPlace' /\ StatusByPlace'
    BY <1>1, <1>5, ClientUntouched DEF vars, AInv
  <2>3. RequestsCarryTrace' /\ RepliesWereServed'
    BY <1>1, <1>5 DEF vars, AInv, RequestsCarryTrace, RepliesWereServed
  <2>4. HopVisible' /\ ReportsAreTheAgents'
    BY <1>1, <1>5 DEF vars, AInv, HopVisible, ReportsAreTheAgents
  <2>5. QED
    BY <2>1, <2>2, <2>3, <2>4 DEF AInv
<1>6. QED
  BY <1>1, <1>2, <1>3, <1>4, <1>5 DEF A2ANext

LEMMA InvHolds ==
  A2ASpec => []AInv
  BY InitInv, NextInv, PTL DEF A2ASpec

\* Only spans that have started are exported, a run without an outcome is still
\* on its way, and the server works on what it has accepted (all of A2AHop).
THEOREM TypeCorrect ==
  A2ASpec => []A2ATypeOK
<1>1. AInv => A2ATypeOK
  BY DEF AInv, TypeInv
<1>2. QED
  BY <1>1, InvHolds, PTL

\* Whatever is lost and wherever the SDK runs the agent, a request that reached
\* the endpoint is seen in the caller's trace from both sides (server.py,
\* traceparentTransport).
THEOREM HopIsVisible ==
  A2ASpec => []HopVisible
<1>1. AInv => HopVisible
  BY DEF AInv
<1>2. QED
  BY <1>1, InvHolds, PTL

\* The spans of a run that is over are exported and agree with what it returned
\* (Analyze, and the deferred calls of cmd/gga2a).
THEOREM SpansAgree ==
  A2ASpec => []SpansTellTheOutcome
<1>1. AInv => SpansTellTheOutcome
  BY DEF AInv, SpansByPlace, StatusByPlace, SpansTellTheOutcome
<1>2. QED
  BY <1>1, InvHolds, PTL

\* A report is never empty, never the user's words, and from a server that was
\* asked (replyText).
THEOREM ReportsAreGenuine ==
  A2ASpec => []ReportsAreTheAgents
<1>1. AInv => ReportsAreTheAgents
  BY DEF AInv
<1>2. QED
  BY <1>1, InvHolds, PTL
=============================================================================
