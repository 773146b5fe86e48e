SPECIFICATION Spec
CONSTANTS
  n1 = n1  n2 = n2  i1 = i1  i2 = i2  s1 = s1  s2 = s2  d1 = d1  d2 = d2
  w1 = w1  w2 = w2  node1 = node1  node2 = node2  t1 = t1  builtin = builtin
  None = None
  FinalizerName = FinalizerName
  Images = {i1, i2}
  CtrNames = {"c1", "c2"}
  DsNames = {d1, d2}
  Names = {n1}
  Selectors = {s1, s2}
  SelectorsMutable = FALSE
  Foreign = {}
  Nodes = {node1, node2}
  Selects <- TwoSelectors
  DsName <- TwoDsNames
  CtrName <- CtrNameOfImage
  Taints = {}
  BuiltinTaints = {}
  Workers = {w1}
  Serves <- AllKeys
INVARIANTS
  NoDaemonSetWithoutImages
