SPECIFICATION EFairSpec
CONSTANTS
  p1 = p1  p2 = p2
  Processes = {p1, p2}
  Departed = Departed
  None = None
  MaxFaults = 2
PROPERTIES
  SomeoneServes
