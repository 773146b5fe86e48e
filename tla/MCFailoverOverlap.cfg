SPECIFICATION FSpec
CONSTANTS
  n1 = n1  i1 = i1  i2 = i2  s1 = s1  d1 = d1
  w1 = w1  w2 = w2  node1 = node1
  None = None
  FinalizerName = FinalizerName
  Images = {i1, i2}
  CtrNames = {"c1", "c2"}
  DsNames = {d1}
  Names = {n1}
  Selectors = {s1}
  SelectorsMutable = FALSE
  Foreign = {}
  Nodes = {node1}
  Selects <- OneSelector
  DsName <- OneDsName
  CtrName <- CtrNameOfImage
  Taints = {}
  BuiltinTaints = {}
  Workers = {w1, w2}
  Serves <- BothServe
INVARIANTS
  ProtectsAcrossFailover
