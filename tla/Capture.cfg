\* Any session of four spans on a clock of two readings, and each variant of
\* each pair on a clock of four.
SPECIFICATION PairSpec
CONSTANTS
  SpanNames = {"step"}
  StartAttrs <- MCStartAttrs
  StampAttrs <- MCStampAttrs
  MaxSpans = 4
  MaxTime = 3
  AnyTime = 1
INVARIANTS
  CaptureTypeOK
  CausalOrder
  VerdictIgnoresClock
  QueriesCoverRules
  RowsAreAlarms
  PairsHold
  RegressionMatrix
\* the capture ends
CHECK_DEADLOCK FALSE
