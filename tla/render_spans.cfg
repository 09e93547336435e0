SPECIFICATION Spec
CONSTANTS
  Emails = {a,b,c}
  Ids = {i1,i2}
  None = None
  MaxInitial = 3
  MaxRenders = 2
  AnyPlan = FALSE
INVARIANTS DocumentParses RetryWritesNothing EditsDisjoint
PROPERTIES ImplementsPlan NoDanglingComma
CHECK_DEADLOCK FALSE
