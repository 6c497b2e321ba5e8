\* One request whose call of the Loan Service may time out.
CONSTANTS
  Requests = {r1}
  Books = {b1}
  Isbns = {i1}
  Users = {u1}
  ClientKeys = {}
  MaxStock = 2
  Faults = {}
  Returns = {}
  LoanFaults = {}
  DirectCalls = {}
  NetFaults = {"net"}
  Transports = {"http"}
  NoIsbn = NoIsbn
  NoLoan = NoLoan
  NoInput = NoInput
  NoReply = NoReply
  NoKey = NoKey
  NilId = NilId
  NoArg = NoArg
  NoAnswer = NoAnswer
  NoReturn = NoReturn
SPECIFICATION Spec
INVARIANTS
  NoOrphanLoan
\* The requests, calls and returns are finitely many.
CHECK_DEADLOCK FALSE
