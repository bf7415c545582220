SPECIFICATION Spec
CONSTANTS
  Programs <- DeadLoopWithPhi
  Pipeline <- FullPipeline
  RunAfter <- RunLast
INVARIANT SinglePhiHasOnePair
CHECK_DEADLOCK FALSE
