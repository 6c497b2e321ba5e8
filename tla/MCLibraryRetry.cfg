\* A request and its repetition with the same key, with no fault.
CONSTANTS
  Requests = {r1, r2}
  Books = {b1}
  Isbns = {i1}
  Users = {u1}
  ClientKeys = {k1}
  MaxStock = 2
  Faults = {}
  Returns = {}
  LoanFaults = {}
  DirectCalls = {}
  NetFaults = {}
  Transports = {"http"}
  NoIsbn = NoIsbn
  NoLoan = NoLoan
  NoInput = NoInput
  NoReply = NoReply
  NoKey = NoKey
  NilId = NilId
  NoArg = NoArg
  NoAnswer = NoAnswer
  NoReturn = NoReturn
SPECIFICATION Spec
INVARIANTS
  RepeatIsReplayed
\* The requests, calls and returns are finitely many.
CHECK_DEADLOCK FALSE
