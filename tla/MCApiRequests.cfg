SPECIFICATION FairSpec
CONSTANTS
  q1 = q1
  save = save
  edit = edit
  Queries = {q1}
  Mutations = {save, edit}
  Multi = {edit}
  Params = {p1, p2}
  Ids = {1, 2, 3, 4}
  MaxClicks = 4
  None = None
  NoData = NoData
  Reported = Reported
  Affected <- MCAffected
INVARIANTS TypeOK NoOldSession LoadingIffPending ReadyDataMatches VerdictIsOwn ResetStands
PROPERTIES EventuallyAnswered 
CHECK_DEADLOCK FALSE
