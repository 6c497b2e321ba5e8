\* A call and a return over HTTP and a call over gRPC, with and without a key,
\* for two books, while the process starts, stops and dies at will.
CONSTANTS
  Calls = {c1, c2}
  Returns = {x1}
  RpcCalls = {c2}
  BookIds = {b1, b2}
  UserIds = {u1}
  Keys = {k1}
  LoanFaults = {"db", "ack", "crash"}
  NoKey = NoKey
  NilId = NilId
  NoArg = NoArg
  NoAnswer = NoAnswer
  NoReturn = NoReturn
SPECIFICATION ServerFairSpec
INVARIANTS
  ServerTypeOK
  SameKeySameLoan
  ServesWithTable
PROPERTIES
  RegistrySpec
  EveryCallEnds
  StopsGracefully
  StopEnds
  ComesBack
\* The calls and returns are finitely many; a dirty database stays as it is.
CHECK_DEADLOCK FALSE
