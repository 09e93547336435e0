SPECIFICATION Spec
CONSTANTS
  Emails = {a}
  Tags = {t1,t2}
  Ids = {i1,i2}
  None = None
  Handlers = {h1}
  Kinds = {"add","edit","delete"}
  Spaced = TRUE
  Adoption = TRUE
  InitInbounds = {t1,t2}
  Enrolled <- OneEnrolled
  MaxMutations = 4
  MaxFailures = 2
  MaxStoreFailures = 0
  MaxHandEdits = 0
  MaxRestarts = 0
  MaxCrashes = 0
CHECK_DEADLOCK FALSE
INVARIANTS SyncedAttachments FailedIsOwed
PROPERTIES PurgeLeavesNothing
