\* Two requests and a direct call, under every fault of the services and the
\* network between them, over either transport.
CONSTANTS
  Requests = {r1, r2}
  Books = {b1}
  Isbns = {i1}
  Users = {u1}
  ClientKeys = {k1}
  MaxStock = 2
  Faults = {"db", "ack", "crash"}
  Returns = {}
  LoanFaults = {"db", "ack", "crash"}
  DirectCalls = {d1}
  NetFaults = {"net", "throttle"}
  Transports = {"http", "grpc"}
  NoIsbn = NoIsbn
  NoLoan = NoLoan
  NoInput = NoInput
  NoReply = NoReply
  NoKey = NoKey
  NilId = NilId
  NoArg = NoArg
  NoAnswer = NoAnswer
  NoReturn = NoReturn
SPECIFICATION Spec
SYMMETRY Symmetry
INVARIANTS
  ShadowFaithful
  RefusedHasNoLoan
\* The requests, calls and returns are finitely many.
CHECK_DEADLOCK FALSE
