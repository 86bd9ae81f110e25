\* Two sessions over one record; s1 has a second turn, and so a history.
SPECIFICATION Spec
CONSTANTS
  s1 = s1
  v1 = v1
  Sessions = {s1, s2}
  Keys = {k1}
  Values = {v1, v2}
  Absent = Absent
  Blank = Blank
  MaxTurns <- MCMaxTurns
  Seed <- MCSeed
\* Sessions end with their last turn, and a human may leave a call unanswered.
INVARIANT OutcomeRecorded
CHECK_DEADLOCK FALSE
