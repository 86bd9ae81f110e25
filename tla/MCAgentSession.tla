--------------------------- MODULE MCAgentSession ---------------------------
(* Values of AgentSession's constants for model checking. *)
EXTENDS AgentSession

CONSTANTS s1, v1

\* One session with a history of turns, the others with a single turn each.
MCMaxTurns == [s \in Sessions |-> IF s = s1 THEN 2 ELSE 1]
MCSeed == [k \in Keys |-> v1]
============================================================================
