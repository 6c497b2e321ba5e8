\* Two requests, alone or with the same client key, and a return; no
\* faults, but calls may be throttled.
CONSTANTS
  Requests = {r1, r2}
  Books = {b1}
  Isbns = {i1}
  Users = {u1, u2}
  ClientKeys = {k1}
  MaxStock = 2
  Faults = {}
  Returns = {x1}
  LoanFaults = {}
  DirectCalls = {}
  NetFaults = {"throttle"}
  Transports = {"http"}
  NoIsbn = NoIsbn
  NoLoan = NoLoan
  NoInput = NoInput
  NoReply = NoReply
  NoKey = NoKey
  NilId = NilId
  NoArg = NoArg
  NoAnswer = NoAnswer
  NoReturn = NoReturn
SPECIFICATION FairSpec
INVARIANTS
  TypeOK
  ShadowFaithful
  LoansHaveCopies
  RevertedUnlessDbFails
  LoansAreShown
  StuckOnlyByReplay
PROPERTIES
  EverySagaEnds
\* The requests, calls and returns are finitely many.
CHECK_DEADLOCK FALSE
