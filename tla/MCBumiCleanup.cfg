SPECIFICATION FairSpec
CONSTANTS
  RecModules = {a}
  ArchiveModules = {}
  ServiceModules = {}
  NoModule = NoModule
  TASK_TIMEOUT = 0
  WAIT_TIMEOUT = 0
  MAX_RETRIES = 0
  MaxRuns = 2
  MaxFaults = 1
  MaxCopies = 0
  RUN_PERIOD = 0
  RESCHEDULE_TIMEOUT = 1
  MaxConfigEdits = 0
PROPERTY
  GracefulFinish
