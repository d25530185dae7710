SPECIFICATION Spec
CONSTANTS
  RecModules = {a, b}
  ArchiveModules = {}
  ServiceModules = {}
  NoModule = NoModule
  TASK_TIMEOUT = 0
  WAIT_TIMEOUT = 0
  MAX_RETRIES = 1
  MaxRuns = 1
  MaxFaults = 0
  MaxCopies = 1
  RUN_PERIOD = 0
  RESCHEDULE_TIMEOUT = 0
  MaxConfigEdits = 1
SYMMETRY Symmetry
INVARIANT
  CollectedComplete
