SPECIFICATION FairSpec
CONSTANTS
  Procs = {p1,p2}
  Inodes = {i1,i2,i3,i4}
  Obstacles = {o1}
  Name = name
  Temps = {t1,t2,t3,t4,t5,t6}
  None = None
  Recycle = FALSE
  MaxStarts = 4
  MaxCrashes = 1
  MaxFailures = 1
CHECK_DEADLOCK FALSE
INVARIANTS TypeOK LiveIsNeverLost OneServes
PROPERTIES ForeignKept StartSucceeds
