SPECIFICATION Spec
CONSTANT MaxLength = 8
\* A reply ends.
CHECK_DEADLOCK FALSE
INVARIANTS
  ScanTypeOK
  CutsTheObject
  PlainCutsAreObjects
