SPECIFICATION FairSpec
CONSTANTS
  Emails = {a}
  Tags = {t1,t2}
  Ids = {i1,i2}
  None = None
  Handlers = {h1}
  Kinds = {"add","rotate","delete"}
  Spaced = TRUE
  Adoption = TRUE
  InitInbounds = {t1,t2}
  Enrolled <- OneEnrolled
  MaxMutations = 3
  MaxFailures = 0
  MaxStoreFailures = 0
  MaxHandEdits = 0
  MaxRestarts = 0
  MaxCrashes = 2
CHECK_DEADLOCK FALSE

PROPERTIES DeleteCompletes QueuedIsAttempted
