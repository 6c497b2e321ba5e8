\* One request over gRPC, with no fault.
CONSTANTS
  Requests = {r1}
  Books = {b1}
  Isbns = {i1}
  Users = {u1}
  ClientKeys = {}
  MaxStock = 1
  Faults = {}
  Returns = {}
  LoanFaults = {}
  DirectCalls = {}
  NetFaults = {}
  Transports = {"grpc"}
  NoIsbn = NoIsbn
  NoLoan = NoLoan
  NoInput = NoInput
  NoReply = NoReply
  NoKey = NoKey
  NilId = NilId
  NoArg = NoArg
  NoAnswer = NoAnswer
  NoReturn = NoReturn
SPECIFICATION FairSpec
PROPERTY NotFoundMeansAbsent
\* The requests, calls and returns are finitely many.
CHECK_DEADLOCK FALSE
