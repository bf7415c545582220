CONSTANTS
  Consts = {}
  Labels = {l1, l2}
  Phis = {p1, p2}
  Plain = {}
  Address = {}
  Access = {}
  Return = {}
  Roots = {}
  Arity <- MCArity
  MaxOps = 6
  NoValue = none
  DistinctIncoming = TRUE
SPECIFICATION Spec
INVARIANTS NoMissingRecord
SYMMETRY Symmetry
CHECK_DEADLOCK FALSE
