SPECIFICATION PairSpec
CONSTANTS
  SpanNames = {}
  StartAttrs = {}
  StampAttrs = {}
  MaxSpans = 3
  MaxTime = 3
  AnyTime = 1
INVARIANTS
  HopsCounted
\* the variant returns
CHECK_DEADLOCK FALSE
