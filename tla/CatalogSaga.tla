---------------------------- MODULE CatalogSaga ----------------------------
(***************************************************************************)
(* The Catalog Service's side of a loan: CreateLoanUseCase.execute, the    *)
(* manual saga that takes a copy off the shelf in one database             *)
(* transaction, calls the Loan Service, and then either finalises its      *)
(* local loan row or compensates; and the book and user operations that    *)
(* run beside it on the same tables.                                       *)
(*                                                                         *)
(* One request is one execution of execute() in the single Node process;   *)
(* executions interleave at every await, so each await ends an action and  *)
(* each database transaction is one step.  Left out: titles and the other  *)
(* descriptive columns, timestamps, logging, the wording of errors.        *)
(*                                                                         *)
(* The Loan Service is open here: it may give any answer the port allows.  *)
(* Library closes it with the real one.                                    *)
(***************************************************************************)
EXTENDS Integers, FiniteSets

CONSTANTS
  Requests,    \* executions of POST /loans; bound on how many there are
  Books,       \* book ids (UUIDs: never reused once deleted)
  Isbns,       \* values an administrator enters as ISBN
  Users,       \* user ids, likewise
  ClientKeys,  \* values a client may send as Idempotency-Key
  LoanIds,     \* ids the Loan Service gives to loans
  MaxStock,    \* bound on the stock an administrator enters
  Faults,      \* the faults that may happen, see FaultKinds
  NoIsbn,      \* the ISBN of a book that is not there
  NoLoan,      \* SQL null in loans.remote_loan_id
  NoInput,     \* a request that has not arrived
  NoReply      \* no answer of the Loan Service yet

(* "db": a query or transaction fails and leaves nothing; "ack": it commits *)
(* and the connection breaks before the driver hears so; "crash": the      *)
(* process dies.                                                           *)
FaultKinds == {"db", "ack", "crash"}

ASSUME CatalogAssumption ==
  /\ IsFiniteSet(Requests)
  /\ MaxStock \in Nat
  /\ Faults \subseteq FaultKinds
  /\ NoLoan \notin LoanIds
  /\ NoIsbn \notin Isbns

VARIABLES
  book,            \* book[b]: is the row there?  See Existence
  isbn,            \* books.isbn, from the look-up of its creation on
  user,            \* user[u]: likewise
  totalStock,      \* books.total_stock; 0 when there is no row
  availableStock,  \* books.available_stock; 0 when there is no row
  pc,              \* pc[r]: the await r stands at
  input,           \* input[r]: the CreateLoanInput of r
  status,          \* status[r]: loans.status of the row r inserted, or "NoRow"
  remoteLoanId,    \* remoteLoanId[r]: that row's remote_loan_id
  remote,          \* remote[r]: createLoan's answer, in the process's memory
  outcome          \* outcome[r]: what the client of r was answered

vars == <<book, isbn, user, totalStock, availableStock, pc, input, status,
          remoteLoanId, remote, outcome>>

\* "creating": looked up, and not yet inserted.
Existence == {"absent", "creating", "present", "deleted"}
Stages == {"idle", "precheck", "reserve", "remote", "finalize", "compensate",
           "done", "lost"}
RowStatus == {"NoRow", "PENDING", "ACTIVE", "ROLLED_BACK"}
RemoteStatus == {"ACTIVE", "PENDING"}
Refusals == {"bookNotFound", "userNotFound", "insufficientStock"}
Outcomes == Refusals \cup {"none", "created", "serviceUnavailable", "internalError"}

\* Without a client key execute() makes a random UUID, which no other request
\* has: the request's own name stands for it.
Inputs == [book : Books, user : Users, key : ClientKeys \cup Requests]
Replies == [loanId : LoanIds, status : RemoteStatus]

ASSUME NullAssumption == NoInput \notin Inputs /\ NoReply \notin Replies

\* Was the commit's acknowledgement received?
Acks == IF "ack" \in Faults THEN BOOLEAN ELSE {TRUE}

TypeOK ==
  /\ book \in [Books -> Existence]
  /\ isbn \in [Books -> Isbns \cup {NoIsbn}]
  /\ user \in [Users -> Existence \ {"creating"}]
  /\ totalStock \in [Books -> Nat]
  /\ availableStock \in [Books -> Int]
  /\ pc \in [Requests -> Stages]
  /\ input \in [Requests -> Inputs \cup {NoInput}]
  /\ status \in [Requests -> RowStatus]
  /\ remoteLoanId \in [Requests -> LoanIds \cup {NoLoan}]
  /\ remote \in [Requests -> Replies \cup {NoReply}]
  /\ outcome \in [Requests -> Outcomes]

Init ==
  /\ book = [b \in Books |-> "absent"]
  /\ isbn = [b \in Books |-> NoIsbn]
  /\ user = [u \in Users |-> "absent"]
  /\ totalStock = [b \in Books |-> 0]
  /\ availableStock = [b \in Books |-> 0]
  /\ pc = [r \in Requests |-> "idle"]
  /\ input = [r \in Requests |-> NoInput]
  /\ status = [r \in Requests |-> "NoRow"]
  /\ remoteLoanId = [r \in Requests |-> NoLoan]
  /\ remote = [r \in Requests |-> NoReply]
  /\ outcome = [r \in Requests |-> "none"]

-----------------------------------------------------------------------------
\* The book and user operations.  An update or a deletion reads the row, then
\* writes it: as ids are never reused, a row that is there for the write was
\* there for the read, so the write decides.

RowsOfBook(b) == {r \in Requests : status[r] # "NoRow" /\ input[r].book = b}
RowsOfUser(u) == {r \in Requests : status[r] # "NoRow" /\ input[r].user = u}

\* What the API lets an administrator send; a patch without totalStock changes
\* nothing that is modelled.
CreateBookDto == [isbn : Isbns, totalStock : 0..MaxStock]
UpdateBookDto == [totalStock : 0..MaxStock]

\* A creation asks whether the ISBN is taken, which ends it, and then inserts:
\* two creations with one ISBN can both have looked.  The id b is the row's to
\* be; it also names the creation.
HoldersOf(i) == {b \in Books : book[b] = "present" /\ isbn[b] = i}

LookForIsbn(b, dto) ==
  /\ book[b] = "absent"
  /\ HoldersOf(dto.isbn) = {}
  /\ book' = [book EXCEPT ![b] = "creating"]
  /\ isbn' = [isbn EXCEPT ![b] = dto.isbn]
  /\ UNCHANGED <<user, totalStock, availableStock, pc, input, status,
                 remoteLoanId, remote, outcome>>

\* Mutant: what the look-up saw is trusted.
IsbnAlwaysFree(b) == TRUE

\* books_isbn_key, the unique index.
IsbnFree(b) == HoldersOf(isbn[b]) = {}

InsertBook(b, dto) ==
  /\ book[b] = "creating"
  /\ dto.isbn = isbn[b]
  /\ IsbnFree(b)
  /\ book' = [book EXCEPT ![b] = "present"]
  /\ totalStock' = [totalStock EXCEPT ![b] = dto.totalStock]
  /\ availableStock' = [availableStock EXCEPT ![b] = dto.totalStock]
  /\ UNCHANGED <<isbn, user, pc, input, status, remoteLoanId, remote, outcome>>

\* The other creation was faster, or the database fails: an internal error.
InsertBookFails(b) ==
  /\ book[b] = "creating"
  /\ ~IsbnFree(b) \/ "db" \in Faults
  /\ book' = [book EXCEPT ![b] = "absent"]
  /\ isbn' = [isbn EXCEPT ![b] = NoIsbn]
  /\ UNCHANGED <<user, totalStock, availableStock, pc, input, status,
                 remoteLoanId, remote, outcome>>

\* Mutant: the shelf is refilled from the patched total.
UpdateBookRefillsShelf(b, patch) ==
  /\ book[b] = "present"
  /\ totalStock' = [totalStock EXCEPT ![b] = patch.totalStock]
  /\ availableStock' = [availableStock EXCEPT ![b] = patch.totalStock]
  /\ UNCHANGED <<book, isbn, user, pc, input, status, remoteLoanId, remote, outcome>>

\* The patch may carry totalStock; availableStock is not derived from it.
UpdateBook(b, patch) ==
  /\ book[b] = "present"
  /\ totalStock' = [totalStock EXCEPT ![b] = patch.totalStock]
  /\ UNCHANGED <<book, isbn, user, availableStock, pc, input, status, remoteLoanId,
                 remote, outcome>>

\* Mutant: rows that are rolled back do not hold the book.
BookNotOut(b) == {r \in RowsOfBook(b) : status[r] # "ROLLED_BACK"} = {}

\* Mutant: only rows that show a remote loan keep the book.
BookNotLent(b) == {r \in RowsOfBook(b) : remoteLoanId[r] # NoLoan} = {}

\* loans_book_id_fkey and loans_user_id_fkey are ON DELETE RESTRICT.
BookUnreferenced(b) == RowsOfBook(b) = {}
UserUnreferenced(u) == RowsOfUser(u) = {}

DeleteBook(b) ==
  /\ book[b] = "present"
  /\ BookUnreferenced(b)
  /\ book' = [book EXCEPT ![b] = "deleted"]
  /\ isbn' = [isbn EXCEPT ![b] = NoIsbn]
  /\ totalStock' = [totalStock EXCEPT ![b] = 0]
  /\ availableStock' = [availableStock EXCEPT ![b] = 0]
  /\ UNCHANGED <<user, pc, input, status, remoteLoanId, remote, outcome>>

RegisterUser(u) ==
  /\ user[u] = "absent"
  /\ user' = [user EXCEPT ![u] = "present"]
  /\ UNCHANGED <<book, isbn, totalStock, availableStock, pc, input, status,
                 remoteLoanId, remote, outcome>>

DeleteUser(u) ==
  /\ user[u] = "present"
  /\ UserUnreferenced(u)
  /\ user' = [user EXCEPT ![u] = "deleted"]
  /\ UNCHANGED <<book, isbn, totalStock, availableStock, pc, input, status,
                 remoteLoanId, remote, outcome>>

-----------------------------------------------------------------------------
\* CreateLoanUseCase.execute, from await to await.

\* Request r is answered o, and its execution is over.
Answer(r, o) ==
  /\ pc' = [pc EXCEPT ![r] = "done"]
  /\ outcome' = [outcome EXCEPT ![r] = o]

\* Request r goes on to the await s.
GoTo(r, s) ==
  /\ pc' = [pc EXCEPT ![r] = s]
  /\ UNCHANGED outcome

HasStock(b) == availableStock[b] >= 1

\* The first test of execute() that fails, or "none".
FirstRefusal(b, u) ==
  CASE book[b] # "present" -> "bookNotFound"
    [] book[b] = "present" /\ user[u] # "present" -> "userNotFound"
    [] book[b] = "present" /\ user[u] = "present" /\ ~HasStock(b) -> "insufficientStock"
    [] OTHER -> "none"

\* POST /loans arrives, and its book and user are read: two queries of one
\* Promise.all, merged into one instant.  The user id comes from a token the service signed, so
\* the user was registered once, but may be deleted by now.
Begin(r, b, u, k) ==
  /\ pc[r] = "idle"
  /\ user[u] # "absent"
  /\ input' = [input EXCEPT ![r] = [book |-> b, user |-> u, key |-> k]]
  /\ \/ FirstRefusal(b, u) # "none" /\ Answer(r, FirstRefusal(b, u))
     \/ FirstRefusal(b, u) = "none" /\ GoTo(r, "precheck")
     \/ "db" \in Faults /\ Answer(r, "internalError")
  /\ UNCHANGED <<book, isbn, user, totalStock, availableStock, status, remoteLoanId,
                 remote>>

\* loanService.checkAvailability: exists and available, exists but not
\* available, does not exist, or an error, after which the saga goes on.
CheckAnswers == {"available", "unavailable", "missing", "error"}

PreCheck(r, a) ==
  /\ pc[r] = "precheck"
  /\ CASE a = "missing" -> Answer(r, "bookNotFound")
       [] a = "unavailable" -> Answer(r, "insufficientStock")
       [] OTHER -> GoTo(r, "reserve")
  /\ UNCHANGED <<book, isbn, user, totalStock, availableStock, input, status,
                 remoteLoanId, remote>>

DecrementStockInTx(b) == [availableStock EXCEPT ![b] = @ - 1]
IncrementStockInTx(b) == [availableStock EXCEPT ![b] = @ + 1]

\* Mutant: the value before the decrement is tested.
CopyLeftBeforeDecrement(b) == ~(availableStock[b] < 0)

\* The transaction's own test, on the row it has just updated and locked.
CopyLeft(b) == ~(availableStock[b] - 1 < 0)

\* Step 1 commits: the copy is off the shelf, the local row is PENDING.  If the
\* acknowledgement is lost the transaction call throws, and so does execute().
Reserve(r, acked) ==
  /\ pc[r] = "reserve"
  /\ book[input[r].book] = "present"
  /\ user[input[r].user] = "present"
  /\ CopyLeft(input[r].book)
  /\ availableStock' = DecrementStockInTx(input[r].book)
  /\ status' = [status EXCEPT ![r] = "PENDING"]
  /\ IF acked THEN GoTo(r, "remote") ELSE Answer(r, "internalError")
  /\ UNCHANGED <<book, isbn, user, totalStock, input, remoteLoanId, remote>>

\* Step 1 rolls back: no copy left, the book is gone (P2025), the user is gone
\* (foreign key), or the database fails.
ReserveRolledBack(r) ==
  /\ pc[r] = "reserve"
  /\ \/ /\ book[input[r].book] = "present"
        /\ ~CopyLeft(input[r].book)
        /\ Answer(r, "insufficientStock")
     \/ /\ \/ book[input[r].book] # "present"
           \/ user[input[r].user] # "present" /\ CopyLeft(input[r].book)
           \/ "db" \in Faults
        /\ Answer(r, "internalError")
  /\ UNCHANGED <<book, isbn, user, totalStock, availableStock, input, status,
                 remoteLoanId, remote>>

\* loanService.createLoan resolves with an answer that holds a loan id.
RemoteReturns(r, reply) ==
  /\ pc[r] = "remote"
  /\ remote' = [remote EXCEPT ![r] = reply]
  /\ GoTo(r, "finalize")
  /\ UNCHANGED <<book, isbn, user, totalStock, availableStock, input, status,
                 remoteLoanId>>

\* Mutant: a 409 of the Loan Service is passed on as it is.
RemoteThrowsPassedOn(r) ==
  /\ pc[r] = "remote"
  /\ Answer(r, "insufficientStock")
  /\ UNCHANGED <<book, isbn, user, totalStock, availableStock, input, status,
                 remoteLoanId, remote>>

\* Mutant: the failure is reported and nothing compensated.
RemoteThrowsUncompensated(r) ==
  /\ pc[r] = "remote"
  /\ Answer(r, "serviceUnavailable")
  /\ UNCHANGED <<book, isbn, user, totalStock, availableStock, input, status,
                 remoteLoanId, remote>>

\* It rejects: refused, no id in the body, unreachable, or 3 s went by.
RemoteThrows(r) ==
  /\ pc[r] = "remote"
  /\ GoTo(r, "compensate")
  /\ UNCHANGED <<book, isbn, user, totalStock, availableStock, input, status,
                 remoteLoanId, remote>>

\* loans_remote_loan_id_key: no other row has this remote loan.
RemoteIdFree(r) == \A q \in Requests \ {r} : remoteLoanId[q] # remote[r].loanId

\* The last write: the row takes the remote id and status.
Finalize(r, acked) ==
  /\ pc[r] = "finalize"
  /\ RemoteIdFree(r)
  /\ status' = [status EXCEPT ![r] = remote[r].status]
  /\ remoteLoanId' = [remoteLoanId EXCEPT ![r] = remote[r].loanId]
  /\ Answer(r, IF acked THEN "created" ELSE "internalError")
  /\ UNCHANGED <<book, isbn, user, totalStock, availableStock, input, remote>>

\* Mutant: a write that fails is tried again, whatever refused it.
FinalizeRetries(r) ==
  /\ pc[r] = "finalize"
  /\ ~RemoteIdFree(r) \/ "db" \in Faults
  /\ UNCHANGED vars

\* Mutant: a row that cannot be finalised is compensated, loan or no loan.
FinalizeFailsCompensated(r) ==
  /\ pc[r] = "finalize"
  /\ ~RemoteIdFree(r) \/ "db" \in Faults
  /\ availableStock' = IncrementStockInTx(input[r].book)
  /\ status' = [status EXCEPT ![r] = "ROLLED_BACK"]
  /\ Answer(r, "internalError")
  /\ UNCHANGED <<book, isbn, user, totalStock, input, remoteLoanId, remote>>

\* It fails, on the unique index or because the database does.  Nothing is
\* compensated: the row stays PENDING and the copy stays off the shelf.
FinalizeFails(r) ==
  /\ pc[r] = "finalize"
  /\ ~RemoteIdFree(r) \/ "db" \in Faults
  /\ Answer(r, "internalError")
  /\ UNCHANGED <<book, isbn, user, totalStock, availableStock, input, status,
                 remoteLoanId, remote>>

\* Mutant: the status in the spelling of the Loan Service.
MarkRolledBackInLowerCase(r) ==
  IF status[r] = "PENDING" THEN [status EXCEPT ![r] = "rolled_back"] ELSE status

\* updateMany ... where status is PENDING.
MarkRolledBack(r) ==
  IF status[r] = "PENDING" THEN [status EXCEPT ![r] = "ROLLED_BACK"] ELSE status

\* The compensating transaction commits.  execute() throws the same error
\* whether or not it hears of it.
Compensate(r) ==
  /\ pc[r] = "compensate"
  /\ book[input[r].book] = "present"
  /\ availableStock' = IncrementStockInTx(input[r].book)
  /\ status' = MarkRolledBack(r)
  /\ Answer(r, "serviceUnavailable")
  /\ UNCHANGED <<book, isbn, user, totalStock, input, remoteLoanId, remote>>

\* It fails, and is only logged.
CompensateFails(r) ==
  /\ pc[r] = "compensate"
  /\ book[input[r].book] # "present" \/ "db" \in Faults
  /\ Answer(r, "serviceUnavailable")
  /\ UNCHANGED <<book, isbn, user, totalStock, availableStock, input, status,
                 remoteLoanId, remote>>

InFlight(r) == pc[r] \notin {"idle", "done", "lost"}

\* The Node process dies: what it was doing is lost, the database is not, and
\* nothing takes up the rows it leaves PENDING.
Crash ==
  /\ "crash" \in Faults
  /\ (\E r \in Requests : InFlight(r)) \/ (\E b \in Books : book[b] = "creating")
  /\ book' = [b \in Books |-> IF book[b] = "creating" THEN "absent" ELSE book[b]]
  /\ isbn' = [b \in Books |-> IF book[b] = "creating" THEN NoIsbn ELSE isbn[b]]
  /\ pc' = [r \in Requests |-> IF InFlight(r) THEN "lost" ELSE pc[r]]
  /\ remote' = [r \in Requests |-> IF InFlight(r) THEN NoReply ELSE remote[r]]
  /\ UNCHANGED <<user, totalStock, availableStock, input, status, remoteLoanId,
                 outcome>>

-----------------------------------------------------------------------------
Admin ==
  \/ \E b \in Books, dto \in CreateBookDto : LookForIsbn(b, dto) \/ InsertBook(b, dto)
  \/ \E b \in Books, patch \in UpdateBookDto : UpdateBook(b, patch)
  \/ \E b \in Books : InsertBookFails(b) \/ DeleteBook(b)
  \/ \E u \in Users : RegisterUser(u) \/ DeleteUser(u)

Arrive(r) ==
  \E b \in Books, u \in Users, k \in ClientKeys \cup {r} : Begin(r, b, u, k)

\* The steps of r that need nobody but the process and its database.
LocalStep(r) ==
  \/ \E acked \in Acks : Reserve(r, acked) \/ Finalize(r, acked)
  \/ ReserveRolledBack(r)
  \/ FinalizeFails(r)
  \/ Compensate(r)
  \/ CompensateFails(r)

\* The steps of r that end a call of the Loan Service.
RemoteStep(r) ==
  \/ \E a \in CheckAnswers : PreCheck(r, a)
  \/ \E reply \in Replies : RemoteReturns(r, reply)
  \/ RemoteThrows(r)

Next ==
  \/ Admin
  \/ \E r \in Requests : Arrive(r) \/ LocalStep(r) \/ RemoteStep(r)
  \/ Crash

Spec == Init /\ [][Next]_vars

\* An execution that can take a step takes one: the event loop runs every
\* continuation, Prisma bounds its transactions, and every remote call ends,
\* if only by the HTTP client's 3 s timeout.
Fairness == \A r \in Requests : WF_vars(LocalStep(r)) /\ WF_vars(RemoteStep(r))

FairSpec == Spec /\ Fairness

-----------------------------------------------------------------------------
Over(r) == pc[r] \in {"done", "lost"}

\* The row's copy is off the shelf, and no loan of the Loan Service is known.
Unsettled(r) == status[r] = "PENDING" /\ remoteLoanId[r] = NoLoan

\* There is no stock of a book that is not there.
NoStockWithoutBook ==
  \A b \in Books : book[b] # "present" => availableStock[b] = 0

\* What a row and the process's memory look like at each stage of a request.
RowFollowsStage ==
  \A r \in Requests :
    /\ pc[r] = "idle" <=> input[r] = NoInput
    /\ pc[r] \in {"idle", "precheck", "reserve"} => status[r] = "NoRow"
    /\ pc[r] \in {"remote", "finalize", "compensate"} => Unsettled(r)
    /\ pc[r] = "finalize" => remote[r] # NoReply
    /\ pc[r] # "done" => outcome[r] = "none"
    /\ status[r] \in {"NoRow", "ROLLED_BACK"} => remoteLoanId[r] = NoLoan
    /\ status[r] = "ACTIVE" => remoteLoanId[r] # NoLoan

\* However many creations race, whatever they read before they insert, no two
\* books have the same ISBN.
IsbnsUnique ==
  \A b, c \in Books :
    b # c /\ book[b] = "present" /\ book[c] = "present" => isbn[b] # isbn[c]

\* However many sagas race for a book, whatever they read before their
\* transaction, its available_stock never goes below zero, though no CHECK
\* constraint says so.
NoOversell == \A b \in Books : availableStock[b] >= 0

\* A local loan row always refers to a book and a user that are there, though
\* either may be deleted between the saga's read and its transaction.
NoDanglingRow ==
  \A r \in Requests :
    status[r] # "NoRow" =>
      /\ input[r] # NoInput
      /\ book[input[r].book] = "present"
      /\ user[input[r].user] = "present"

\* What the client is told is what the row shows: a 201 has a row with its
\* remote loan, a 404 or 409 has left no row, a 503 has left a row that never
\* becomes a loan.
AnswerMatchesRow ==
  \A r \in Requests :
    /\ outcome[r] = "created" =>
         status[r] \in RemoteStatus /\ remoteLoanId[r] # NoLoan
    /\ outcome[r] \in Refusals => status[r] = "NoRow"
    /\ outcome[r] = "serviceUnavailable" =>
         status[r] \in {"PENDING", "ROLLED_BACK"} /\ remoteLoanId[r] = NoLoan

\* The inductive invariant of the proofs.
IInv ==
  /\ TypeOK
  /\ RowFollowsStage
  /\ NoStockWithoutBook
  /\ IsbnsUnique
  /\ NoOversell
  /\ NoDanglingRow
  /\ AnswerMatchesRow

\* Without faults of the process or its database, an execution leaves a copy
\* tied up in an unsettled row in one case only: the Loan Service answered it
\* with a loan that another row already shows.
StuckOnlyByReplay ==
  Faults = {} =>
    \A r \in Requests :
      Over(r) /\ Unsettled(r) =>
        /\ remote[r] # NoReply
        /\ \E q \in Requests \ {r} : remoteLoanId[q] = remote[r].loanId

\* The answer 503 says 'local change was reverted', which is so unless the
\* database fails the compensation: the book cannot be deleted while the row is
\* there, and no other request or operation can settle the row.
RevertedUnlessDbFails ==
  "db" \notin Faults =>
    \A r \in Requests : outcome[r] = "serviceUnavailable" => status[r] = "ROLLED_BACK"

\* Every request that arrives is answered, or its process dies.
EveryRequestEnds == \A r \in Requests : InFlight(r) ~> Over(r)

\* The same without that proviso, as the exception's message has it.
RevertedWhen503 ==
  \A r \in Requests : outcome[r] = "serviceUnavailable" => status[r] = "ROLLED_BACK"

-----------------------------------------------------------------------------
\* The copies the library owns: those on the shelf and those rows keep off it.
HeldRows(b) == {r \in Requests : Unsettled(r) /\ input[r].book = b}
LentRows(b) ==
  {r \in Requests : status[r] \in RemoteStatus /\ remoteLoanId[r] # NoLoan
                    /\ input[r].book = b}
ClosedRows == {r \in Requests : status[r] = "ROLLED_BACK"}
OutRows(b) == HeldRows(b) \cup LentRows(b)
Copies(b) == availableStock[b] + Cardinality(OutRows(b))

Ledger == INSTANCE CopyLedger WITH
  Holds <- Requests,
  copies <- [b \in Books |-> Copies(b)],
  held <- [b \in Books |-> HeldRows(b)],
  lent <- [b \in Books |-> LentRows(b)],
  closed <- ClosedRows

\* The saga and everything beside it keep the books of CopyLedger: no
\* interleaving and no fault loses a copy or makes one; a copy is on the shelf
\* or tied to one row, taken only when there is one, put back at most once.
LedgerSpec == Ledger!Spec
=============================================================================
