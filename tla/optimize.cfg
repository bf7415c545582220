SPECIFICATION FairSpec
CONSTANTS
  Width = 8
  Units <- MCUnits
  Inputs <- MCInputs
  Pipeline <- MCPipeline
  StepBound = 200
  InlineLimit = 400
INVARIANTS TypeOK SameBehaviour EdgesMirror PhisMirrorEdges DefinitionsDominateUses EffectsKnown ConstantsJustified LoopsNest OptimizerSucceeds
PROPERTY OptimizerFinishes
