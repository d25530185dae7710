SPECIFICATION FairSpec
CONSTANTS
  RecModules = {a}
  ArchiveModules = {}
  ServiceModules = {}
  NoModule = NoModule
  TASK_TIMEOUT = 0
  WAIT_TIMEOUT = 0
  MAX_RETRIES = 1
  MaxRuns = 2
  MaxFaults = 1
  MaxCopies = 0
  RUN_PERIOD = 1
  RESCHEDULE_TIMEOUT = 1
  MaxConfigEdits = 0
PROPERTIES
  CompletionNeverRegresses
  RunsContinue
  TasksTerminate
INVARIANT SingleActiveRun
