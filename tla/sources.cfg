SPECIFICATION FairSpec
CONSTANTS
  Canonical <- MCCanonical
  UUID <- MCUUID
  Fold <- MCFold
  Unset = Unset
  Gone = Gone
  Unconfigured = Unconfigured
  Corpus <- MCCorpus
  Base <- MCBase
  Edited <- MCEdited
  Users = {"u"}
  MaxEdits = 2
  MaxFailures = 1
CHECK_DEADLOCK FALSE
INVARIANTS QuietReflectsFile VersionNamesRoster URIConnects
PROPERTIES ChangeIsLoaded FollowersCatchUp
