SPECIFICATION Spec
CONSTANTS
  Emails = {a,b}
  Tags = {t1,t2}
  Ids = {i1,i2,i3}
  None = None
  Handlers = {h1}
  Kinds = {"disable","enable","delete","add","rotate"}
  Spaced = TRUE
  Adoption = FALSE
  InitInbounds = {t1,t2}
  Enrolled <- AllEnrolled
  MaxMutations = 3
  MaxFailures = 1
  MaxStoreFailures = 0
  MaxHandEdits = 0
  MaxRestarts = 1
  MaxCrashes = 0
CHECK_DEADLOCK FALSE
INVARIANTS SyncedCredentials UniqueClientIDs DisabledIsOut DisabledNotRejoining UsersFollowRoster
