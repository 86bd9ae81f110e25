SPECIFICATION A2AFairSpec
CONSTANTS
  Runs = {r1, r2}
  Cards = {"v0.3", "v1", "malformed"}
  Texts = {"", "working", "report"}
  Results <- MCResults
INVARIANTS
  A2ATypeOK
  HopVisible
  SpansTellTheOutcome
  ReportsAreTheAgents
PROPERTIES
  RunsEnd
\* both runs exit
CHECK_DEADLOCK FALSE
