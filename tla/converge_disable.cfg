SPECIFICATION Spec
CONSTANTS
  Emails = {a}
  Tags = {t1}
  Ids = {i1}
  None = None
  Handlers = {h1}
  Kinds = {"disable"}
  Spaced = FALSE
  Adoption = FALSE
  InitInbounds = {t1}
  Enrolled <- OneEnrolled
  MaxMutations = 1
  MaxFailures = 0
  MaxStoreFailures = 0
  MaxHandEdits = 1
  MaxRestarts = 0
  MaxCrashes = 0
CHECK_DEADLOCK FALSE
INVARIANTS DisabledNotRejoining

