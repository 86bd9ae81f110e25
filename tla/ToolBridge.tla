----------------------------- MODULE ToolBridge -----------------------------
(***************************************************************************)
(* The local-model tool bridge of internal/model: which tools a request    *)
(* offers, and when a reply becomes a tool call.  A content is a role and  *)
(* the kinds of parts it holds; toolRanThisTurn looks at nothing else.     *)
(***************************************************************************)
EXTENDS Naturals, Sequences

Content(role, parts) == [role |-> role, parts |-> parts]

Roles == {"user", "model"}
Parts == {"text", "call", "result"}
Contents == [role : Roles, parts : SUBSET Parts]

HasResult(c) == "result" \in c.parts
UserText(c)  == "text" \in c.parts /\ c.role = "user"

\* Mutant: any result of the history counts, of whichever turn.
ToolRanEver(contents) == \E i \in DOMAIN contents : HasResult(contents[i])

\* The backward scan: the last content that holds a tool result or a user's
\* text decides, and a result wins over a text of the same content.
ToolRanThisTurn(contents) ==
  \E i \in DOMAIN contents :
    /\ HasResult(contents[i])
    /\ \A j \in i + 1 .. Len(contents) :
         UserText(contents[j]) => HasResult(contents[j])

\* Mutant: tools are offered on every call of the model.
OfferedAlways(contents, declared) == declared

\* GenerateContent offers the declared tools once per user turn.
Offered(contents, declared) ==
  IF ToolRanThisTurn(contents) THEN {} ELSE declared

\* Mutant: the test of the name against the allowed tools is dropped.
ParsesAsAnyCall(reply, allowed) == reply.json /\ allowed # {}

\* parseToolCall: a reply is a call when it is predominantly a JSON object
\* that parses and names an allowed tool.
ParsesAsCall(reply, allowed) == reply.json /\ reply.tool \in allowed
============================================================================
