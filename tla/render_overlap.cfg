SPECIFICATION Spec
CONSTANTS
  Emails = {a,b,c}
  Ids = {i1,i2}
  None = None
  MaxInitial = 3
  MaxRenders = 2
  AnyPlan = TRUE
INVARIANTS EditsDisjoint
CHECK_DEADLOCK FALSE
