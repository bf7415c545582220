CONSTANTS
  Consts = {c1}
  Labels = {l1, l2}
  Phis = {p1}
  Plain = {}
  Address = {}
  Access = {}
  Return = {}
  Roots = {}
  Arity <- MCArity
  MaxOps = 4
  NoValue = none
  DistinctIncoming = FALSE
SPECIFICATION Spec
INVARIANT NoMissingRecord
CHECK_DEADLOCK FALSE
