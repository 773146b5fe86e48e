SPECIFICATION IFairSpec
CONSTANTS
  t1 = t1  t2 = t2  c1 = c1  c2 = c2  ch1 = ch1  ch2 = ch2
  Types = {t1, t2}
  Channels = {ch1, ch2}
  Callers = {c1, c2}
  None = None
INVARIANTS
  ITypeOK
  RunsOnce
  ShutdownIsFinal
PROPERTIES
  WaitsEnd
