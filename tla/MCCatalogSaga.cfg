\* Two requests race for the copies of two books, which race for one ISBN,
\* while they and a user come and go, under every fault and the fairness of
\* the event loop and its timeouts.
CONSTANTS
  Requests = {r1, r2}
  Books = {b1, b2}
  Isbns = {i1}
  Users = {u1}
  ClientKeys = {}
  LoanIds = {l1, l2}
  MaxStock = 2
  Faults = {"db", "ack", "crash"}
  NoIsbn = NoIsbn
  NoLoan = NoLoan
  NoInput = NoInput
  NoReply = NoReply
SPECIFICATION FairSpec
INVARIANTS
  TypeOK
  IsbnsUnique
  NoOversell
  NoDanglingRow
  AnswerMatchesRow
PROPERTIES
  LedgerSpec
  EveryRequestEnds
\* The requests are finitely many; books and users can all be deleted.
CHECK_DEADLOCK FALSE
