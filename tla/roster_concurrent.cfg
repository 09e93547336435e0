SPECIFICATION Spec
CONSTANTS
  Emails = {a}
  Tags = {t1}
  Ids = {i1}
  None = None
  Handlers = {h1,h2}
  Kinds = {"revive","edit","disable","delete"}
  Spaced = FALSE
  Adoption = FALSE
  InitInbounds = {t1}
  Enrolled <- OneEnrolled
  MaxMutations = 2
  MaxFailures = 0
  MaxStoreFailures = 1
  MaxHandEdits = 1
  MaxRestarts = 0
  MaxCrashes = 0
CHECK_DEADLOCK FALSE
INVARIANTS TypeOK WakeupOwed GenerationNamesChange
PROPERTIES DeleteIsFinal
