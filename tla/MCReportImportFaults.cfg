SPECIFICATION Spec
CONSTANTS
  ACTIVE_IMPORT_THRESHOLD = 2
  NOT_PROCESSED_THRESHOLD = 1
  MESSAGE_EXPIRATION = 1
  MaxImports = 2
  MaxRequests = 1
  MaxFaults = 1
  MaxRedeliveries = 1
INVARIANTS
  TypeOK
  CheckSeesLiveImports
  FirstImportRequestsRun
PROPERTY
  OutcomeIsFinal
