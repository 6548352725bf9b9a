CONSTANTS
  Conn = {d1, d2, d3}
  NoConn = NoConn
  MaxDepth = 3
  MaxUpdates = 3
  MaxId = 2
  LogDepth = 4
  MaxCalls = 6
  FetchSize = 2
  MaxRows = 5
  MaxFails = 2
  MaxLines = 3
SPECIFICATION MCSpec
INVARIANTS
  TypesOK
  DbTransactions
  ScriptTransactions
  LogContexts
  BatchRows
PROPERTY StepsTold
