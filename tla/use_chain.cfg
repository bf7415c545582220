CONSTANTS
  Consts = {c1}
  Labels = {l1}
  Phis = {}
  Plain = {i1, i2, i3}
  Address = {i1}
  Access = {i2}
  Return = {i3}
  Roots = {i3}
  Arity <- MCArity
  MaxOps = 3
  NoValue = none
  DistinctIncoming = TRUE
SPECIFICATION Spec
INVARIANTS TypeOK ChainAgrees NoDanglingUse NoMissingRecord UsefulIsUsed
CHECK_DEADLOCK FALSE
