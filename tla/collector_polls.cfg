SPECIFICATION Spec
CONSTANTS
  Emails = {a,b}
  Nobody = Nobody
  MaxBytes = 3
  MaxStoreFailures = 1
  MaxXrayRestarts = 1
  MaxPanelRestarts = 1
  MaxPurges = 1
SYMMETRY UserSymmetry
INVARIANTS TypeOK NeverOvercounts NothingDropped PurgedStaysGone
