SPECIFICATION Spec
CONSTANTS
  RecModules = {a, b}
  ArchiveModules = {a}
  ServiceModules = {s}
  NoModule = NoModule
  TASK_TIMEOUT = 1
  WAIT_TIMEOUT = 2
  MAX_RETRIES = 1
  MaxRuns = 1
  MaxFaults = 2
  MaxCopies = 0
  RUN_PERIOD = 0
  RESCHEDULE_TIMEOUT = 0
  MaxConfigEdits = 0
INVARIANTS
  TypeOK
  CollectedComplete
  ArchiveErrorsStopRun
