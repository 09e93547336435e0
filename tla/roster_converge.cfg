SPECIFICATION FairSpec
CONSTANTS
  Emails = {a}
  Tags = {t1,t2}
  Ids = {i1,i2}
  None = None
  Handlers = {h1}
  Kinds = {"add","rotate","delete"}
  Spaced = TRUE
  Adoption = TRUE
  InitInbounds = {t1,t2}
  Enrolled <- OneEnrolled
  MaxMutations = 2
  MaxFailures = 0
  MaxStoreFailures = 0
  MaxHandEdits = 2
  MaxRestarts = 0
  MaxCrashes = 0
CHECK_DEADLOCK FALSE
INVARIANTS StoreAndFileAgree
PROPERTIES StoreWins
