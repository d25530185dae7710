SPECIFICATION Spec
CONSTANTS
  BookingIds = {b1, b2}
  Issues = {i1, i2}
  Requests = {r1, r2}
  Autos = {TRUE}
  MaxTime = 3
  MaxAsked = 5
  Default = Default
  Idle = Idle
SYMMETRY Symmetry
INVARIANTS TypeOK NoOverlapUnlessRaced 
CHECK_DEADLOCK FALSE
