SPECIFICATION FairSpec
CONSTANTS
  loop = loop
  module = module
  reporter = reporter
  db1 = db1
  db2 = db2
  Callers = {loop, module}
  Readers = {loop, module, reporter}
  Conns = {db1, db2}
  Loop = loop
  Deployments <- MCDeployments
  Kinds = {"result", "huge"}
  NoCaller = NoCaller
  NoReader = NoReader
  MaxCalls = 3
  SocketRoom = 1
  RowLimit = 1
  MaxRows = 2
  MaxRequests = 2
INVARIANTS TypeOK OwnAnswerOnly InStepUntilTimeout ReadonlyStaysClean
PROPERTIES EveryRequestAnswered
CHECK_DEADLOCK FALSE
