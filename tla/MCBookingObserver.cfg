SPECIFICATION FairObserverSpec
CONSTANTS
  BookingIds = {b1}
  Issues = {i1}
  Requests = {r1}
  Autos = {TRUE}
  MaxTime = 3
  MaxAsked = 2
  Default = Default
  Idle = Idle
  MaxQueue = 2
  MaxFaults = 1
INVARIANTS ObserverTypeOK NothingMissed NothingEarly
PROPERTY EventuallyAnnounced
CHECK_DEADLOCK FALSE
