\* Two requests, one whose compensation the database refuses.
CONSTANTS
  Requests = {r1, r2}
  Books = {b1}
  Isbns = {i1}
  Users = {u1}
  ClientKeys = {}
  LoanIds = {l1}
  MaxStock = 1
  Faults = {"db"}
  NoIsbn = NoIsbn
  NoLoan = NoLoan
  NoInput = NoInput
  NoReply = NoReply
SPECIFICATION Spec
INVARIANT RevertedWhen503
CHECK_DEADLOCK FALSE
