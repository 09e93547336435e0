SPECIFICATION FairSpec
CONSTANTS
  Tokens = {k1}
  NoToken = NoToken
  TTL = 2
  NoEntry = NoEntry
  Handlers = {h1,h2}
  None = None
  Kinds = {"small","big","bad"}
  Holds = {{},{"err"}}
  MaxRecords = 2
  MaxErrors = 4
  Headers <- MCHeaders
  EntryCap = 1
  StdoutCap = 2
  StderrCap = 1
  PipeCap = 1
  MaxRequests = 2
CHECK_DEADLOCK FALSE
INVARIANTS OneChild CleanIsComplete ReasonIsTheChilds
PROPERTIES IdleOrOutIsRefused CollectEnds
