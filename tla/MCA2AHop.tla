------------------------------ MODULE MCA2AHop ------------------------------
EXTENDS A2AHop

Ask       == Message("user", UserText)
Say(text) == Message("agent", text)

\* The shapes replyText tells apart, with and without a text of the agent.
MCResults ==
  {Bare("report"), Bare(NoText),
   Task(<<NoText, "report">>, "working", <<Ask>>),
   Task(<<>>, "report", <<Say("working"), Ask>>),
   Task(<<NoText>>, NoText, <<Say("report"), Ask>>),
   Task(<<>>, NoText, <<Ask, Say(NoText)>>)}
=============================================================================
