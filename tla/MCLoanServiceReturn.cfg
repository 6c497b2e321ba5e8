\* One loan and two returns that race for it, with no fault.
CONSTANTS
  Calls = {c1}
  Returns = {x1, x2}
  BookIds = {b1}
  UserIds = {u1}
  Keys = {k1}
  LoanFaults = {}
  NoKey = NoKey
  NilId = NilId
  NoArg = NoArg
  NoAnswer = NoAnswer
  NoReturn = NoReturn
SPECIFICATION FairSpec
PROPERTY ReturnIsIdempotent
\* The calls and returns are finitely many.
CHECK_DEADLOCK FALSE
