----------------------------- MODULE MCRWStore -----------------------------
(* Values of RWStore's constants for model checking. *)
EXTENDS RWStore

\* The memory store starts empty; setting records reaches the seeded database.
MCSeed == [k \in Keys |-> Absent]
============================================================================
