SPECIFICATION Spec
CONSTANTS
  Programs <- MCPrograms
  Pipeline <- FullPipeline
  RunAfter <- RunPoints
INVARIANTS TypeOK EdgesMirror PhisMirrorEdges DefinitionsDominateUses DominatorsExact CompilerSucceeds SameBehaviour
CHECK_DEADLOCK FALSE
