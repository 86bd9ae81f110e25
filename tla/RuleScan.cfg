SPECIFICATION Spec
CONSTANTS
  Spans <- MCSpans
  MaxSpans = 6
INVARIANTS
  TypeOK
  ScanDecides
  WideningIsFromTheFirst
\* a trace ends at the bound
CHECK_DEADLOCK FALSE
