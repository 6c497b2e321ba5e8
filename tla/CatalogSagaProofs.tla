------------------------- MODULE CatalogSagaProofs -------------------------
(***************************************************************************)
(* Theorems about CatalogSaga, for every set of requests, books, users and *)
(* loan ids, every bound on the stock and every set of faults.             *)
(***************************************************************************)
EXTENDS CatalogSaga, FiniteSetTheorems, TLAPS

-----------------------------------------------------------------------------
\* Facts about the helpers of the saga.

LEMMA FirstRefusalType ==
  ASSUME NEW b \in Books, NEW u \in Users
  PROVE  FirstRefusal(b, u) \in Refusals \cup {"none"}
BY DEF FirstRefusal, Refusals

\* A request under way has an input, with a book and a user.
LEMMA InputType ==
  ASSUME TypeOK, RowFollowsStage, NEW r \in Requests, pc[r] # "idle"
  PROVE  /\ input[r] \in Inputs
         /\ input[r].book \in Books
         /\ input[r].user \in Users
BY DEF TypeOK, RowFollowsStage, Inputs

-----------------------------------------------------------------------------
\* The initial state.
LEMMA InitIInv == Init => IInv
<1> SUFFICES ASSUME Init PROVE IInv
  OBVIOUS
<1>1. TypeOK
  BY DEF Init, TypeOK, Existence, Stages, RowStatus, Outcomes
<1>2. RowFollowsStage
  BY DEF Init, RowFollowsStage
<1>3. NoOversell /\ NoStockWithoutBook
  BY DEF Init, NoOversell, NoStockWithoutBook
<1>4. NoDanglingRow
  BY DEF Init, NoDanglingRow
<1>5. AnswerMatchesRow
  BY DEF Init, AnswerMatchesRow, Refusals
<1>6. IsbnsUnique
  BY DEF Init, IsbnsUnique
<1>. QED
  BY <1>1, <1>2, <1>3, <1>4, <1>5, <1>6 DEF IInv

-----------------------------------------------------------------------------
\* Every step keeps the types.  The remote answer that Finalize copies into the
\* row is there only because of RowFollowsStage.
LEMMA NextTypeOK == IInv /\ [Next]_vars => TypeOK'
<1> SUFFICES ASSUME TypeOK, RowFollowsStage, [Next]_vars PROVE TypeOK'
  BY DEF IInv
<1>0. ASSUME NEW b \in Books, NEW dto \in CreateBookDto,
             LookForIsbn(b, dto) \/ InsertBook(b, dto)
      PROVE  TypeOK'
  BY <1>0, CatalogAssumption DEF TypeOK, CreateBookDto, LookForIsbn, InsertBook, Existence
<1>1. ASSUME NEW b \in Books, NEW patch \in UpdateBookDto, UpdateBook(b, patch)
      PROVE  TypeOK'
  BY <1>1, CatalogAssumption DEF TypeOK, UpdateBookDto, UpdateBook
<1>2. ASSUME NEW b \in Books, InsertBookFails(b) \/ DeleteBook(b)
      PROVE  TypeOK'
  BY <1>2 DEF TypeOK, InsertBookFails, DeleteBook, Existence
<1>3. ASSUME NEW u \in Users, RegisterUser(u) \/ DeleteUser(u)
      PROVE  TypeOK'
  BY <1>3 DEF TypeOK, RegisterUser, DeleteUser, Existence
<1>4. ASSUME NEW r \in Requests, NEW b \in Books, NEW u \in Users,
             NEW k \in ClientKeys \cup {r}, Begin(r, b, u, k)
      PROVE  TypeOK'
  <2>1. [book |-> b, user |-> u, key |-> k] \in Inputs
    BY DEF Inputs
  <2>2. FirstRefusal(b, u) \in Outcomes
    BY FirstRefusalType DEF Outcomes
  <2>. QED
    BY <1>4, <2>1, <2>2 DEF TypeOK, Begin, Answer, GoTo, Stages, Outcomes
<1>5. ASSUME NEW r \in Requests, NEW a \in CheckAnswers, PreCheck(r, a)
      PROVE  TypeOK'
  BY <1>5 DEF TypeOK, PreCheck, Answer, GoTo, Stages, Outcomes, Refusals
<1>6. ASSUME NEW r \in Requests, NEW acked \in Acks, Reserve(r, acked)
      PROVE  TypeOK'
  <2>1. input[r].book \in Books
    BY <1>6, InputType DEF Reserve
  <2>2. availableStock' \in [Books -> Int]
    BY <1>6, <2>1 DEF TypeOK, Reserve, DecrementStockInTx
  <2>3. status' \in [Requests -> RowStatus]
    BY <1>6 DEF TypeOK, Reserve, RowStatus
  <2>4. pc' \in [Requests -> Stages] /\ outcome' \in [Requests -> Outcomes]
    BY <1>6 DEF TypeOK, Reserve, Answer, GoTo, Stages, Outcomes
  <2>. QED
    BY <1>6, <2>2, <2>3, <2>4 DEF TypeOK, Reserve
<1>7. ASSUME NEW r \in Requests, ReserveRolledBack(r)
      PROVE  TypeOK'
  BY <1>7 DEF TypeOK, ReserveRolledBack, Answer, Stages, Outcomes, Refusals
<1>8. ASSUME NEW r \in Requests, NEW reply \in Replies, RemoteReturns(r, reply)
      PROVE  TypeOK'
  BY <1>8 DEF TypeOK, RemoteReturns, GoTo, Stages
<1>9. ASSUME NEW r \in Requests, RemoteThrows(r)
      PROVE  TypeOK'
  BY <1>9 DEF TypeOK, RemoteThrows, GoTo, Stages
<1>10. ASSUME NEW r \in Requests, NEW acked \in Acks, Finalize(r, acked)
       PROVE  TypeOK'
  <2>1. remote[r] \in Replies
    BY <1>10 DEF TypeOK, RowFollowsStage, Finalize
  <2>2. remote[r].loanId \in LoanIds /\ remote[r].status \in RowStatus
    BY <2>1 DEF Replies, RemoteStatus, RowStatus
  <2>3. outcome' \in [Requests -> Outcomes] /\ pc' \in [Requests -> Stages]
    BY <1>10 DEF TypeOK, Finalize, Answer, Stages, Outcomes
  <2>4. status' \in [Requests -> RowStatus]
    BY <1>10, <2>2 DEF TypeOK, Finalize
  <2>5. remoteLoanId' \in [Requests -> LoanIds \cup {NoLoan}]
    BY <1>10, <2>2 DEF TypeOK, Finalize
  <2>. QED
    BY <1>10, <2>3, <2>4, <2>5 DEF TypeOK, Finalize
<1>11. ASSUME NEW r \in Requests, FinalizeFails(r) \/ CompensateFails(r)
       PROVE  TypeOK'
  BY <1>11 DEF TypeOK, FinalizeFails, CompensateFails, Answer, Stages, Outcomes
<1>12. ASSUME NEW r \in Requests, Compensate(r)
       PROVE  TypeOK'
  <2>1. input[r].book \in Books
    BY <1>12, InputType DEF Compensate
  <2>2. availableStock' \in [Books -> Int]
    BY <1>12, <2>1 DEF TypeOK, Compensate, IncrementStockInTx
  <2>3. status' \in [Requests -> RowStatus]
    BY <1>12 DEF TypeOK, Compensate, MarkRolledBack, RowStatus
  <2>4. pc' \in [Requests -> Stages] /\ outcome' \in [Requests -> Outcomes]
    BY <1>12 DEF TypeOK, Compensate, Answer, Stages, Outcomes
  <2>. QED
    BY <1>12, <2>2, <2>3, <2>4 DEF TypeOK, Compensate
<1>13. ASSUME Crash
       PROVE  TypeOK'
  BY <1>13 DEF TypeOK, Crash, Stages, Existence
<1>14. CASE UNCHANGED vars
  BY <1>14 DEF TypeOK, vars
<1>. QED
  BY <1>0, <1>1, <1>2, <1>3, <1>4, <1>5, <1>6, <1>7, <1>8, <1>9, <1>10, <1>11,
     <1>12, <1>13, <1>14
  DEF Next, Admin, Arrive, LocalStep, RemoteStep

-----------------------------------------------------------------------------
\* Every step keeps rows and memory in line with the stage of their request.
\* A step of r moves r only, so the other requests keep what they had.
LEMMA NextRowFollowsStage == IInv /\ [Next]_vars => RowFollowsStage'
<1> SUFFICES ASSUME TypeOK, RowFollowsStage, [Next]_vars,
                    NEW q \in Requests
             PROVE  RowFollowsStage!(q)'
  BY DEF IInv, RowFollowsStage
<1>1. ASSUME UNCHANGED <<pc, input, status, remoteLoanId, remote, outcome>>
      PROVE  RowFollowsStage!(q)'
  BY <1>1 DEF RowFollowsStage, Unsettled
<1>2. CASE Admin
  BY <1>1, <1>2
  DEF Admin, LookForIsbn, InsertBook, InsertBookFails, UpdateBook, DeleteBook,
      RegisterUser, DeleteUser
<1>3. ASSUME NEW r \in Requests, NEW b \in Books, NEW u \in Users,
             NEW k \in ClientKeys \cup {r}, Begin(r, b, u, k)
      PROVE  RowFollowsStage!(q)'
  <2>1. [book |-> b, user |-> u, key |-> k] # NoInput
    BY NullAssumption DEF Inputs
  <2>. QED
    BY <1>3, <2>1 DEF TypeOK, RowFollowsStage, Unsettled, Begin, Answer, GoTo
<1>4. ASSUME NEW r \in Requests, NEW a \in CheckAnswers, PreCheck(r, a)
      PROVE  RowFollowsStage!(q)'
  BY <1>4 DEF TypeOK, RowFollowsStage, Unsettled, PreCheck, Answer, GoTo
<1>5. ASSUME NEW r \in Requests, NEW acked \in Acks, Reserve(r, acked)
      PROVE  RowFollowsStage!(q)'
  BY <1>5 DEF TypeOK, RowFollowsStage, Unsettled, Reserve, Answer, GoTo
<1>6. ASSUME NEW r \in Requests, ReserveRolledBack(r)
      PROVE  RowFollowsStage!(q)'
  BY <1>6 DEF TypeOK, RowFollowsStage, Unsettled, ReserveRolledBack, Answer
<1>7. ASSUME NEW r \in Requests, NEW reply \in Replies, RemoteReturns(r, reply)
      PROVE  RowFollowsStage!(q)'
  BY <1>7, NullAssumption DEF TypeOK, RowFollowsStage, Unsettled, RemoteReturns, GoTo
<1>8. ASSUME NEW r \in Requests, RemoteThrows(r)
      PROVE  RowFollowsStage!(q)'
  BY <1>8 DEF TypeOK, RowFollowsStage, Unsettled, RemoteThrows, GoTo
<1>9. ASSUME NEW r \in Requests, NEW acked \in Acks, Finalize(r, acked)
      PROVE  RowFollowsStage!(q)'
  <2>1. remote[r] \in Replies
    BY <1>9 DEF TypeOK, RowFollowsStage, Finalize
  <2>2. remote[r].loanId # NoLoan /\ remote[r].status \in {"ACTIVE", "PENDING"}
    BY <2>1, CatalogAssumption DEF Replies, RemoteStatus
  <2>. QED
    BY <1>9, <2>2 DEF TypeOK, RowFollowsStage, Unsettled, Finalize, Answer
<1>10. ASSUME NEW r \in Requests, FinalizeFails(r) \/ CompensateFails(r)
       PROVE  RowFollowsStage!(q)'
  BY <1>10 DEF TypeOK, RowFollowsStage, Unsettled, FinalizeFails, CompensateFails, Answer
<1>11. ASSUME NEW r \in Requests, Compensate(r)
       PROVE  RowFollowsStage!(q)'
  BY <1>11 DEF TypeOK, RowFollowsStage, Unsettled, Compensate, MarkRolledBack, Answer
<1>12. CASE Crash
  BY <1>12 DEF TypeOK, RowFollowsStage, Unsettled, Crash, InFlight, Stages
<1>13. CASE UNCHANGED vars
  BY <1>1, <1>13 DEF vars
<1>. QED
  BY <1>2, <1>3, <1>4, <1>5, <1>6, <1>7, <1>8, <1>9, <1>10, <1>11, <1>12, <1>13
  DEF Next, Arrive, LocalStep, RemoteStep

-----------------------------------------------------------------------------
\* Only Reserve takes a copy off the shelf, and it tests the value it writes.
LEMMA NextNoOversell == IInv /\ [Next]_vars => NoOversell'
<1> SUFFICES ASSUME TypeOK, RowFollowsStage, NoOversell, [Next]_vars,
                    NEW c \in Books
             PROVE  availableStock'[c] >= 0
  BY DEF IInv, NoOversell
<1>1. ASSUME UNCHANGED availableStock
      PROVE  availableStock'[c] >= 0
  BY <1>1 DEF NoOversell
<1>2. ASSUME NEW b \in Books, NEW dto \in CreateBookDto, InsertBook(b, dto)
      PROVE  availableStock'[c] >= 0
  BY <1>2, CatalogAssumption DEF TypeOK, NoOversell, CreateBookDto, InsertBook
<1>3. ASSUME NEW b \in Books, DeleteBook(b)
      PROVE  availableStock'[c] >= 0
  BY <1>3 DEF TypeOK, NoOversell, DeleteBook
<1>4. ASSUME NEW r \in Requests, NEW acked \in Acks, Reserve(r, acked)
      PROVE  availableStock'[c] >= 0
  <2>1. input[r].book \in Books
    BY <1>4, InputType DEF Reserve
  <2>. QED
    BY <1>4, <2>1 DEF TypeOK, NoOversell, Reserve, DecrementStockInTx, CopyLeft
<1>5. ASSUME NEW r \in Requests, Compensate(r)
      PROVE  availableStock'[c] >= 0
  <2>1. input[r].book \in Books
    BY <1>5, InputType DEF Compensate
  <2>. QED
    BY <1>5, <2>1 DEF TypeOK, NoOversell, Compensate, IncrementStockInTx
<1>. QED
  BY <1>1, <1>2, <1>3, <1>4, <1>5
  DEF Next, Admin, Arrive, LocalStep, RemoteStep, LookForIsbn, InsertBookFails,
      UpdateBook, RegisterUser, DeleteUser, Begin, PreCheck, ReserveRolledBack,
      RemoteReturns, RemoteThrows, Finalize, FinalizeFails, CompensateFails,
      Crash, vars

-----------------------------------------------------------------------------
\* Stock goes with its book: the steps that change it find the book there, or
\* put it there.
LEMMA NextNoStockWithoutBook == IInv /\ [Next]_vars => NoStockWithoutBook'
<1> SUFFICES ASSUME TypeOK, NoStockWithoutBook, [Next]_vars, NEW c \in Books
             PROVE  book'[c] # "present" => availableStock'[c] = 0
  BY DEF IInv, NoStockWithoutBook
<1>1. ASSUME UNCHANGED <<book, availableStock>>
      PROVE  book'[c] # "present" => availableStock'[c] = 0
  BY <1>1 DEF NoStockWithoutBook
<1>2. ASSUME NEW b \in Books, NEW dto \in CreateBookDto, InsertBook(b, dto)
      PROVE  book'[c] # "present" => availableStock'[c] = 0
  BY <1>2 DEF TypeOK, NoStockWithoutBook, InsertBook
<1>3. ASSUME NEW b \in Books, DeleteBook(b)
      PROVE  book'[c] # "present" => availableStock'[c] = 0
  BY <1>3 DEF TypeOK, NoStockWithoutBook, DeleteBook
<1>4. ASSUME NEW r \in Requests, NEW acked \in Acks, Reserve(r, acked)
      PROVE  book'[c] # "present" => availableStock'[c] = 0
  BY <1>4 DEF TypeOK, NoStockWithoutBook, Reserve, DecrementStockInTx
<1>5. ASSUME NEW r \in Requests, Compensate(r)
      PROVE  book'[c] # "present" => availableStock'[c] = 0
  BY <1>5 DEF TypeOK, NoStockWithoutBook, Compensate, IncrementStockInTx
<1>6. ASSUME NEW b \in Books,
             InsertBookFails(b) \/ (\E dto \in CreateBookDto : LookForIsbn(b, dto))
      PROVE  book'[c] # "present" => availableStock'[c] = 0
  BY <1>6 DEF TypeOK, NoStockWithoutBook, InsertBookFails, LookForIsbn
<1>7. CASE Crash
  BY <1>7 DEF TypeOK, NoStockWithoutBook, Crash
<1>. QED
  BY <1>1, <1>2, <1>3, <1>4, <1>5, <1>6, <1>7
  DEF Next, Admin, Arrive, LocalStep, RemoteStep, UpdateBook, RegisterUser,
      DeleteUser, Begin, PreCheck, ReserveRolledBack, RemoteReturns,
      RemoteThrows, Finalize, FinalizeFails, CompensateFails, vars

-----------------------------------------------------------------------------
\* A book becomes present by InsertBook only, and then nobody else has its ISBN.
LEMMA NextIsbnsUnique == IInv /\ [Next]_vars => IsbnsUnique'
<1> SUFFICES ASSUME TypeOK, IsbnsUnique, [Next]_vars
             PROVE  IsbnsUnique'
  BY DEF IInv
<1>1. ASSUME NEW b \in Books, NEW dto \in CreateBookDto, InsertBook(b, dto)
      PROVE  IsbnsUnique'
  BY <1>1 DEF TypeOK, IsbnsUnique, InsertBook, IsbnFree, HoldersOf
<1>2. ASSUME NEW b \in Books,
             InsertBookFails(b) \/ DeleteBook(b) \/ (\E dto \in CreateBookDto : LookForIsbn(b, dto))
      PROVE  IsbnsUnique'
  BY <1>2 DEF TypeOK, IsbnsUnique, InsertBookFails, DeleteBook, LookForIsbn
<1>3. CASE Crash
  BY <1>3 DEF TypeOK, IsbnsUnique, Crash
<1>4. ASSUME UNCHANGED <<book, isbn>>
      PROVE  IsbnsUnique'
  BY <1>4 DEF IsbnsUnique
<1>. QED
  BY <1>1, <1>2, <1>3, <1>4
  DEF Next, Admin, Arrive, LocalStep, RemoteStep, UpdateBook, RegisterUser,
      DeleteUser, Begin, PreCheck, Reserve, ReserveRolledBack, RemoteReturns,
      RemoteThrows, Finalize, FinalizeFails, Compensate, CompensateFails, vars

-----------------------------------------------------------------------------
\* A row is inserted only for a book and a user that are there, and neither is
\* deleted under a row.
LEMMA NextNoDanglingRow == IInv /\ [Next]_vars => NoDanglingRow'
<1> SUFFICES ASSUME TypeOK, RowFollowsStage, NoDanglingRow, [Next]_vars,
                    NEW q \in Requests
             PROVE  NoDanglingRow!(q)'
  BY DEF IInv, NoDanglingRow
<1>1. ASSUME UNCHANGED <<book, user, input, status>>
      PROVE  NoDanglingRow!(q)'
  BY <1>1 DEF NoDanglingRow
<1>2. ASSUME NEW b \in Books, NEW dto \in CreateBookDto, InsertBook(b, dto)
      PROVE  NoDanglingRow!(q)'
  BY <1>2 DEF TypeOK, NoDanglingRow, InsertBook
<1>3. ASSUME NEW b \in Books, DeleteBook(b)
      PROVE  NoDanglingRow!(q)'
  BY <1>3 DEF TypeOK, NoDanglingRow, DeleteBook, BookUnreferenced, RowsOfBook
<1>4. ASSUME NEW u \in Users, RegisterUser(u)
      PROVE  NoDanglingRow!(q)'
  BY <1>4 DEF TypeOK, NoDanglingRow, RegisterUser
<1>5. ASSUME NEW u \in Users, DeleteUser(u)
      PROVE  NoDanglingRow!(q)'
  BY <1>5 DEF TypeOK, NoDanglingRow, DeleteUser, UserUnreferenced, RowsOfUser
<1>6. ASSUME NEW r \in Requests, NEW b \in Books, NEW u \in Users,
             NEW k \in ClientKeys \cup {r}, Begin(r, b, u, k)
      PROVE  NoDanglingRow!(q)'
  BY <1>6 DEF TypeOK, RowFollowsStage, NoDanglingRow, Begin
<1>7. ASSUME NEW r \in Requests, NEW acked \in Acks, Reserve(r, acked)
      PROVE  NoDanglingRow!(q)'
  BY <1>7, InputType, NullAssumption DEF TypeOK, NoDanglingRow, Reserve
<1>8. ASSUME NEW r \in Requests, NEW acked \in Acks, Finalize(r, acked)
      PROVE  NoDanglingRow!(q)'
  BY <1>8 DEF TypeOK, RowFollowsStage, Unsettled, NoDanglingRow, Finalize
<1>9. ASSUME NEW r \in Requests, Compensate(r)
      PROVE  NoDanglingRow!(q)'
  BY <1>9 DEF TypeOK, RowFollowsStage, Unsettled, NoDanglingRow, Compensate,
              MarkRolledBack
<1>10. ASSUME NEW b \in Books,
             InsertBookFails(b) \/ (\E dto \in CreateBookDto : LookForIsbn(b, dto))
       PROVE  NoDanglingRow!(q)'
  BY <1>10 DEF TypeOK, Inputs, NoDanglingRow, InsertBookFails, LookForIsbn
<1>11. CASE Crash
  BY <1>11 DEF TypeOK, Inputs, NoDanglingRow, Crash
<1>. QED
  BY <1>1, <1>2, <1>3, <1>4, <1>5, <1>6, <1>7, <1>8, <1>9, <1>10, <1>11
  DEF Next, Admin, Arrive, LocalStep, RemoteStep, UpdateBook, PreCheck,
      ReserveRolledBack, RemoteReturns, RemoteThrows, FinalizeFails,
      CompensateFails, vars

-----------------------------------------------------------------------------
\* A request is answered at the end of its last step, and what that step left
\* in the row is what the answer says.
LEMMA NextAnswerMatchesRow == IInv /\ [Next]_vars => AnswerMatchesRow'
<1> SUFFICES ASSUME TypeOK, RowFollowsStage, AnswerMatchesRow, [Next]_vars,
                    NEW q \in Requests
             PROVE  AnswerMatchesRow!(q)'
  BY DEF IInv, AnswerMatchesRow
<1>1. ASSUME UNCHANGED <<outcome, status, remoteLoanId>>
      PROVE  AnswerMatchesRow!(q)'
  BY <1>1 DEF AnswerMatchesRow
<1>2. ASSUME NEW r \in Requests, NEW b \in Books, NEW u \in Users,
             NEW k \in ClientKeys \cup {r}, Begin(r, b, u, k)
      PROVE  AnswerMatchesRow!(q)'
  <2>1. FirstRefusal(b, u) \notin {"created", "serviceUnavailable"}
    BY FirstRefusalType DEF Refusals
  <2>. QED
    BY <1>2, <2>1
    DEF TypeOK, RowFollowsStage, AnswerMatchesRow, Begin, Answer, GoTo, Refusals
<1>3. ASSUME NEW r \in Requests, NEW a \in CheckAnswers, PreCheck(r, a)
      PROVE  AnswerMatchesRow!(q)'
  BY <1>3 DEF TypeOK, RowFollowsStage, AnswerMatchesRow, PreCheck, Answer, GoTo, Refusals
<1>4. ASSUME NEW r \in Requests, NEW acked \in Acks, Reserve(r, acked)
      PROVE  AnswerMatchesRow!(q)'
  BY <1>4 DEF TypeOK, RowFollowsStage, AnswerMatchesRow, Reserve, Answer, GoTo, Refusals
<1>5. ASSUME NEW r \in Requests, ReserveRolledBack(r)
      PROVE  AnswerMatchesRow!(q)'
  BY <1>5 DEF TypeOK, RowFollowsStage, AnswerMatchesRow, ReserveRolledBack, Answer, Refusals
<1>6. ASSUME NEW r \in Requests, NEW acked \in Acks, Finalize(r, acked)
      PROVE  AnswerMatchesRow!(q)'
  <2>1. remote[r] \in Replies
    BY <1>6 DEF TypeOK, RowFollowsStage, Finalize
  <2>2. remote[r].loanId # NoLoan /\ remote[r].status \in RemoteStatus
    BY <2>1, CatalogAssumption DEF Replies
  <2>3. outcome'[q] = IF q = r
                        THEN (IF acked THEN "created" ELSE "internalError")
                        ELSE outcome[q]
    BY <1>6 DEF TypeOK, Finalize, Answer
  <2>4. /\ status'[q] = IF q = r THEN remote[r].status ELSE status[q]
        /\ remoteLoanId'[q] = IF q = r THEN remote[r].loanId ELSE remoteLoanId[q]
    BY <1>6 DEF TypeOK, Finalize
  <2>. QED
    BY <2>2, <2>3, <2>4 DEF AnswerMatchesRow, Refusals
<1>7. ASSUME NEW r \in Requests, FinalizeFails(r)
      PROVE  AnswerMatchesRow!(q)'
  BY <1>7 DEF TypeOK, RowFollowsStage, AnswerMatchesRow, FinalizeFails, Answer, Refusals
<1>8. ASSUME NEW r \in Requests, CompensateFails(r)
      PROVE  AnswerMatchesRow!(q)'
  BY <1>8
  DEF TypeOK, RowFollowsStage, Unsettled, AnswerMatchesRow, CompensateFails, Answer,
      Refusals
<1>9. ASSUME NEW r \in Requests, Compensate(r)
      PROVE  AnswerMatchesRow!(q)'
  BY <1>9
  DEF TypeOK, RowFollowsStage, Unsettled, AnswerMatchesRow, Compensate, MarkRolledBack,
      Answer, Refusals
<1>. QED
  BY <1>1, <1>2, <1>3, <1>4, <1>5, <1>6, <1>7, <1>8, <1>9
  DEF Next, Admin, Arrive, LocalStep, RemoteStep, LookForIsbn, InsertBook,
      InsertBookFails, UpdateBook, DeleteBook, RegisterUser, DeleteUser,
      RemoteReturns, RemoteThrows, GoTo, Crash, vars

-----------------------------------------------------------------------------
\* The inductive invariant.
LEMMA Inductive == IInv /\ [Next]_vars => IInv'
BY NextTypeOK, NextRowFollowsStage, NextNoStockWithoutBook, NextIsbnsUnique,
   NextNoOversell, NextNoDanglingRow, NextAnswerMatchesRow
DEF IInv

\* Every reachable state satisfies it.
THEOREM Invariance == Spec => []IInv
BY InitIInv, Inductive, PTL DEF Spec

\* The tables and the process's memory keep their types: what execute() stores
\* is always an id, a status or an answer of the kinds the code names.
THEOREM TypeCorrect == Spec => []TypeOK
<1>1. IInv => TypeOK
  BY DEF IInv
<1>. QED
  BY <1>1, Invariance, PTL

\* No two books have the same ISBN, whatever creations and seeds race.
THEOREM IsbnsNeverShared == Spec => []IsbnsUnique
<1>1. IInv => IsbnsUnique
  BY DEF IInv
<1>. QED
  BY <1>1, Invariance, PTL

\* No book's available_stock is ever negative, whatever sagas race for it.
THEOREM NeverOversold == Spec => []NoOversell
<1>1. IInv => NoOversell
  BY DEF IInv
<1>. QED
  BY <1>1, Invariance, PTL

\* No loan row outlives the book or the user it refers to.
THEOREM RowsRefer == Spec => []NoDanglingRow
<1>1. IInv => NoDanglingRow
  BY DEF IInv
<1>. QED
  BY <1>1, Invariance, PTL

\* What the client of a request is told is what the request's row shows.
THEOREM AnswersTrue == Spec => []AnswerMatchesRow
<1>1. IInv => AnswerMatchesRow
  BY DEF IInv
<1>. QED
  BY <1>1, Invariance, PTL

-----------------------------------------------------------------------------
\* The rows of all requests but r stay as they are, as do their executions.
OthersStay(r) ==
  \A q \in Requests \ {r} :
    /\ pc'[q] = pc[q] /\ status'[q] = status[q]
    /\ remote'[q] = remote[q] /\ remoteLoanId'[q] = remoteLoanId[q]
    /\ outcome'[q] = outcome[q]

LEMMA NextOthersStay ==
  ASSUME IInv, NEW r \in Requests, Arrive(r) \/ LocalStep(r) \/ RemoteStep(r)
  PROVE  OthersStay(r)
BY DEF IInv, TypeOK, OthersStay, Arrive, LocalStep, RemoteStep, Begin, PreCheck, Reserve,
       ReserveRolledBack, RemoteReturns, RemoteThrows, Finalize, FinalizeFails, Compensate,
       CompensateFails, MarkRolledBack, Answer, GoTo

\* Without faults r leaves an unsettled row behind only in FinalizeFails, when
\* another row has its remote id; Unsettled rows do not have one.
LEMMA StepStuck ==
  ASSUME IInv, Faults = {}, NEW r \in Requests, Arrive(r) \/ LocalStep(r) \/ RemoteStep(r),
         Over(r)', Unsettled(r)'
  PROVE  /\ remote'[r] # NoReply /\ remote'[r] = remote[r]
         /\ \E q \in Requests \ {r} : remoteLoanId[q] = remote[r].loanId
<1> USE DEF IInv, TypeOK, Over, Unsettled
<1>1. ~Arrive(r) /\ ~(\E a \in CheckAnswers : PreCheck(r, a)) /\ ~ReserveRolledBack(r)
  BY DEF RowFollowsStage, Arrive, Begin, PreCheck, ReserveRolledBack
<1>2. ~(\E acked \in Acks : Reserve(r, acked))
  BY DEF Acks, Reserve, GoTo
<1>3. ASSUME NEW acked \in Acks, Finalize(r, acked) PROVE FALSE
  <2>1. remote[r] \in Replies
    BY <1>3 DEF RowFollowsStage, Finalize
  <2> QED BY <1>3, <2>1, CatalogAssumption DEF Replies, Finalize
<1>4. ~RemoteThrows(r) /\ ~(\E reply \in Replies : RemoteReturns(r, reply))
  BY DEF RemoteThrows, RemoteReturns, GoTo
<1>5. ~Compensate(r) /\ ~CompensateFails(r)
  BY DEF RowFollowsStage, NoDanglingRow, Compensate, CompensateFails, MarkRolledBack
<1>6. FinalizeFails(r)
  BY <1>1, <1>2, <1>3, <1>4, <1>5 DEF LocalStep, RemoteStep
<1> QED BY <1>6 DEF FinalizeFails, RemoteIdFree, RowFollowsStage

\* What is written to a row's remote_loan_id stays there.
LEMMA NextIdKept ==
  ASSUME IInv, [Next]_vars, NEW q \in Requests, remoteLoanId[q] # NoLoan
  PROVE  remoteLoanId'[q] = remoteLoanId[q]
<1>1. ASSUME NEW r \in Requests, Arrive(r) \/ LocalStep(r) \/ RemoteStep(r)
      PROVE  remoteLoanId'[q] = remoteLoanId[q]
  <2>1. CASE q # r
    BY <1>1, <2>1, NextOthersStay DEF OthersStay
  <2>2. CASE q = r
    BY <1>1, <2>2
    DEF IInv, RowFollowsStage, Unsettled, Arrive, LocalStep, RemoteStep, Begin, PreCheck,
        Reserve, ReserveRolledBack, RemoteReturns, RemoteThrows, Finalize, FinalizeFails,
        Compensate, CompensateFails
  <2> QED BY <2>1, <2>2
<1> QED
  BY <1>1
  DEF Next, Admin, LookForIsbn, InsertBook, InsertBookFails, UpdateBook, DeleteBook,
      RegisterUser, DeleteUser, Crash, vars

LEMMA NextStuckOnlyByReplay ==
  ASSUME IInv, StuckOnlyByReplay, [Next]_vars
  PROVE  StuckOnlyByReplay'
<1> DEFINE Taken(q) == /\ remote'[q] # NoReply
                       /\ \E p \in Requests \ {q} : remoteLoanId'[p] = remote'[q].loanId
<1> SUFFICES ASSUME Faults = {}, NEW q \in Requests, Over(q)', Unsettled(q)'
             PROVE  Taken(q)
  BY DEF StuckOnlyByReplay
<1>1. ASSUME remote'[q] # NoReply, remote'[q] = remote[q],
             NEW p \in Requests \ {q}, remoteLoanId[p] = remote[q].loanId
      PROVE  Taken(q)
  <2>1. remote[q] \in Replies
    BY <1>1 DEF IInv, TypeOK
  <2>2. remoteLoanId[p] # NoLoan
    BY <1>1, <2>1, CatalogAssumption DEF Replies
  <2>3. remoteLoanId'[p] = remoteLoanId[p]
    BY <2>2, NextIdKept
  <2> QED BY <1>1, <2>3
<1>2. ASSUME pc'[q] = pc[q], status'[q] = status[q], remote'[q] = remote[q],
             remoteLoanId'[q] = remoteLoanId[q]
      PROVE  Taken(q)
  <2>1. Over(q) /\ Unsettled(q)
    BY <1>2 DEF Over, Unsettled
  <2>2. /\ remote[q] # NoReply
        /\ \E p \in Requests \ {q} : remoteLoanId[p] = remote[q].loanId
    BY <2>1 DEF StuckOnlyByReplay
  <2> HIDE DEF Taken
  <2> QED BY <1>1, <1>2, <2>2
<1>3. ASSUME NEW r \in Requests, Arrive(r) \/ LocalStep(r) \/ RemoteStep(r)
      PROVE  Taken(q)
  <2> HIDE DEF Taken
  <2>1. CASE q # r
    BY <1>2, <1>3, <2>1, NextOthersStay DEF OthersStay
  <2>2. CASE q = r
    BY <1>1, <1>3, <2>2, StepStuck
  <2> QED BY <2>1, <2>2
<1> HIDE DEF Taken
<1> QED
  BY <1>2, <1>3
  DEF Next, Admin, LookForIsbn, InsertBook, InsertBookFails, UpdateBook, DeleteBook,
      RegisterUser, DeleteUser, Crash, vars

\* While process and database do not fail, a copy stays off the shelf without a
\* loan in one case only: another row already shows the loan that the Loan
\* Service answered with.
THEOREM OnlyReplayTiesUp == Spec => []StuckOnlyByReplay
<1>1. Init => StuckOnlyByReplay
  BY DEF Init, StuckOnlyByReplay, Unsettled
<1>. QED
  BY <1>1, NextStuckOnlyByReplay, Invariance, PTL DEF Spec

-----------------------------------------------------------------------------
\* A step of r that answers 503 is the end of its compensation, and that finds
\* its book: NoDanglingRow.
LEMMA StepReverts ==
  ASSUME IInv, "db" \notin Faults, NEW r \in Requests,
         Arrive(r) \/ LocalStep(r) \/ RemoteStep(r), outcome'[r] = "serviceUnavailable"
  PROVE  status'[r] = "ROLLED_BACK"
<1> USE DEF IInv, TypeOK
<1>1. outcome[r] = "none"
  BY DEF RowFollowsStage, Arrive, LocalStep, RemoteStep, Begin, PreCheck, Reserve,
         ReserveRolledBack, RemoteReturns, RemoteThrows, Finalize, FinalizeFails,
         Compensate, CompensateFails
<1>2. ASSUME NEW b \in Books, NEW u \in Users, NEW k \in ClientKeys \cup {r}, Begin(r, b, u, k)
      PROVE  FALSE
  BY <1>1, <1>2, FirstRefusalType DEF Begin, Answer, GoTo, Refusals
<1>3. ASSUME NEW a \in CheckAnswers, PreCheck(r, a) PROVE FALSE
  BY <1>1, <1>3 DEF PreCheck, Answer, GoTo
<1>4. ~(\E acked \in Acks : Reserve(r, acked) \/ Finalize(r, acked))
  BY <1>1 DEF Reserve, Finalize, Answer, GoTo
<1>5. ~ReserveRolledBack(r) /\ ~FinalizeFails(r)
  BY DEF ReserveRolledBack, FinalizeFails, Answer
<1>6. ~RemoteThrows(r) /\ ~(\E reply \in Replies : RemoteReturns(r, reply))
  BY <1>1 DEF RemoteThrows, RemoteReturns, GoTo
<1>7. ~CompensateFails(r)
  BY DEF RowFollowsStage, Unsettled, NoDanglingRow, CompensateFails
<1>8. Compensate(r)
  BY <1>2, <1>3, <1>4, <1>5, <1>6, <1>7 DEF Arrive, LocalStep, RemoteStep
<1> QED BY <1>8 DEF RowFollowsStage, Unsettled, Compensate, MarkRolledBack

\* A row whose request was answered is not touched again.
LEMMA NextReverts ==
  ASSUME IInv, RevertedUnlessDbFails, [Next]_vars
  PROVE  RevertedUnlessDbFails'
<1> SUFFICES ASSUME "db" \notin Faults, NEW q \in Requests, outcome'[q] = "serviceUnavailable"
             PROVE  status'[q] = "ROLLED_BACK"
  BY DEF RevertedUnlessDbFails
<1>1. CASE outcome'[q] = outcome[q] /\ status'[q] = status[q]
  BY <1>1 DEF RevertedUnlessDbFails
<1>2. ASSUME NEW r \in Requests, Arrive(r) \/ LocalStep(r) \/ RemoteStep(r)
      PROVE  status'[q] = "ROLLED_BACK"
  <2>1. CASE q # r
    BY <1>1, <1>2, <2>1, NextOthersStay DEF OthersStay
  <2>2. CASE q = r
    BY <1>2, <2>2, StepReverts
  <2> QED BY <2>1, <2>2
<1> QED
  BY <1>1, <1>2
  DEF Next, Admin, LookForIsbn, InsertBook, InsertBookFails, UpdateBook, DeleteBook,
      RegisterUser, DeleteUser, Crash, vars

\* 503 says that the local change was reverted, and unless the database fails so
\* it was, whatever is deleted, dies or goes unacknowledged meanwhile.
THEOREM RevertedUnlessDatabaseFails == Spec => []RevertedUnlessDbFails
<1>1. Init => RevertedUnlessDbFails
  BY DEF Init, RevertedUnlessDbFails
<1>. QED
  BY <1>1, NextReverts, Invariance, PTL DEF Spec
=============================================================================
