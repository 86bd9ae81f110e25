---------------------------- MODULE GatedWrites ----------------------------
(***************************************************************************)
(* What the graph promises of its database, agents, models and traces left *)
(* aside: a write is proposed, a human is asked about that very write, and *)
(* one yes is worth one write.  AgentSession implements it.                *)
(***************************************************************************)
CONSTANTS
  Sessions,  \* who proposes writes, one at a time each
  Keys,      \* the keys of the database
  Values,    \* the values of its records
  Blank,     \* a key that names no record
  Seed       \* the database at the start

VARIABLES
  db,        \* the records
  pending    \* per session, the write it proposed and what became of it

Writes == [key : Keys \cup {Blank}, value : Values]

None           == [state |-> "none"]
Awaiting(w)    == [state |-> "awaiting", write |-> w]
Approved(w)    == [state |-> "approved", write |-> w]

Init == db = Seed /\ pending = [s \in Sessions |-> None]

Becomes(s, p) == pending' = [pending EXCEPT ![s] = p]

\* A session asks to write, and waits for a human.
Propose(s) ==
  \E w \in Writes :
    /\ pending[s] = None
    /\ Becomes(s, Awaiting(w))
    /\ UNCHANGED db

\* The human answers what was asked: a no withdraws it.
Decide(s) ==
  \E w \in Writes :
    /\ pending[s] = Awaiting(w)
    /\ Becomes(s, Approved(w)) \/ Becomes(s, None)
    /\ UNCHANGED db

\* The approved write is made, once, or fails because it names no record.
Commit(s) ==
  \E w \in Writes :
    /\ pending[s] = Approved(w)
    /\ db' = IF w.key = Blank THEN db ELSE [db EXCEPT ![w.key] = w.value]
    /\ Becomes(s, None)

Next == \E s \in Sessions : Propose(s) \/ Decide(s) \/ Commit(s)

Spec == Init /\ [][Next]_<<db, pending>>
============================================================================
