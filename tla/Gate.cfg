SPECIFICATION Spec
CONSTANT Starts <- MCStarts
\* Every program ends.
CHECK_DEADLOCK FALSE
INVARIANTS
  ProgramsTypeOK
  VulnerableRunsAreLocal
  GateSeparatesDuties
  RegressionsBlocked
  GoldenPromptsLand
  PrivateWorkStays
  OnlyGatedCanaries
