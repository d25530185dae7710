SPECIFICATION Spec
CONSTANTS
  Owners = {o1, o2}
  Slots = {s1, s2}
  Values = {0, 1}
  Ids = {1, 2, 3}
  Calls = {c1, c2}
  MaxCalls = 3
  Idle = Idle
  None = None
SYMMETRY Symmetry
INVARIANTS TypeOK 
CHECK_DEADLOCK FALSE
