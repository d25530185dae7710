SPECIFICATION Spec
CONSTANTS
  Clouds = {"gcp", "azure", "alibaba"}
  Resources = {r1, r2}
  Lookback = 2
  MonthDays = 3
  Lag = 2
  MaxTime = 10
  MaxFailures = 1
SYMMETRY Symmetry
CHECK_DEADLOCK FALSE
INVARIANTS
  TypeOK
  
PROPERTY
  DayNeverShrinks
