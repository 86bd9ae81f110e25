SPECIFICATION Spec
CONSTANT Starts <- MCStarts
CHECK_DEADLOCK FALSE
INVARIANT ConfigDescribesGraph
