SPECIFICATION Spec
CONSTANTS
  Spans <- MCSpans
  MaxSpans = 4
INVARIANTS
  WideningAsDocumented
CHECK_DEADLOCK FALSE
