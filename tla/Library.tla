------------------------------ MODULE Library ------------------------------
(***************************************************************************)
(* The two services together.  The saga of CatalogSaga calls LoanService   *)
(* to check and to register a loan, and LoanService calls back to read the *)
(* very stock that the saga has already taken a copy from.  Other clients  *)
(* register and return loans at the Loan Service directly: its port is     *)
(* open, and the documented way to return a loan.                          *)
(*                                                                         *)
(* The components' variables are this module's; an action here is an       *)
(* action of one component, with the answers that the other one gives,     *)
(* while the other one stands still.  What lies between them is sent, the  *)
(* POSTs of the sagas: one may be delivered long after its saga gave up.   *)
(***************************************************************************)
EXTENDS Integers, FiniteSets

CONSTANTS
  Requests, Books, Isbns, Users, ClientKeys, MaxStock,   \* see CatalogSaga
  Faults, NoIsbn, NoLoan, NoInput, NoReply,
  Returns, LoanFaults,                                   \* see LoanService
  NoKey, NilId, NoArg, NoAnswer, NoReturn,
  DirectCalls,  \* calls of RegisterLoan by other clients than the saga
  NetFaults,    \* what may befall a call between the services, see NetFaultKinds
  Transports    \* the values of LOAN_TRANSPORT: "http", "grpc"

\* "net": it fails or times out; "throttle": it is answered 429 Too Many Requests.
NetFaultKinds == {"net", "throttle"}

Calls == Requests \cup DirectCalls
Keys == ClientKeys \cup Requests

ASSUME LibraryAssumption ==
  /\ Requests \cap DirectCalls = {}
  /\ NoLoan \notin Calls
  /\ NetFaults \subseteq NetFaultKinds
  /\ Transports \subseteq {"http", "grpc"}

VARIABLES
  book, isbn, user, totalStock, availableStock, pc, input, status,
  remoteLoanId, remote, outcome,                         \* see CatalogSaga
  call, arg, loan, returnedAt, answer, ret, target, result,  \* see LoanService
  sent,         \* the sagas whose POST /loans has left the Catalog Service
  transport     \* how the Catalog Service calls; a setting, which never changes

Catalog == INSTANCE CatalogSaga WITH LoanIds <- Calls
Loans == INSTANCE LoanService WITH BookIds <- Books, UserIds <- Users

\* What the components assume of their constants, of these ones.
ASSUME ComponentAssumption ==
  /\ IsFiniteSet(Requests) /\ MaxStock \in Nat
  /\ Faults \subseteq Catalog!FaultKinds
  /\ LoanFaults \subseteq Loans!LoanFaultKinds
  /\ NoIsbn \notin Isbns
  /\ NoKey \notin Keys
  /\ NilId \notin Books \cup Users \cup Calls
  /\ NoInput \notin Catalog!Inputs /\ NoReply \notin Catalog!Replies
  /\ NoArg \notin Loans!Args /\ NoAnswer \notin Loans!Answers

sagaVars == <<book, isbn, user, totalStock, availableStock, pc, input, status,
              remoteLoanId, remote, outcome>>
loanVars == <<call, arg, loan, returnedAt, answer, ret, target, result>>
vars == <<sagaVars, loanVars, sent, transport>>

TypeOK ==
  /\ Catalog!TypeOK
  /\ Loans!TypeOK
  /\ sent \subseteq Requests
  /\ transport \in Transports

Init == Catalog!Init /\ Loans!Init /\ sent = {} /\ transport \in Transports

-----------------------------------------------------------------------------
\* Between the services.

NetFails == "net" \in NetFaults

\* GET /internal/books/:id, the Catalog Service's own view of its stock.
BookAvailability(b) ==
  IF book[b] # "present" THEN "missing"
  ELSE IF availableStock[b] > 0 THEN "available" ELSE "unavailable"

ActiveLoans(b) == {c \in Calls : loan[c] = "active" /\ arg[c].book = b}

\* The throttler guards every route of the Catalog Service, this one too, and
\* counts all sagas together, as the Loan Service is its one client.  How many
\* hits its window has left is not modelled: it may have none at any time.
Throttled == "throttle" \in NetFaults

\* The question does not arrive, or is answered 429, or 500 by a failing query.
BookUntold == NetFails \/ Throttled \/ "db" \in Faults

\* checkAvailability over HTTP is GET /availability/:bookId of the Loan Service,
\* which asks the Catalog Service.  If that call fails or is refused, its answer,
\* a 502 or 503, has neither exists nor id; the HTTP client does not throw on a
\* status, so the adapter reads it as a book that does not exist.
HttpPreCheck(b) ==
  {BookAvailability(b)}
  \cup (IF BookUntold THEN {"missing"} ELSE {})
  \cup (IF NetFails \/ "crash" \in LoanFaults THEN {"error"} ELSE {})

\* Over gRPC it is ValidateAvailability, which counts the active loans of the
\* book and leaves total_copies zero: no loan at all is no book to the adapter,
\* and any loan is no stock.
GrpcPreCheck(b) ==
  {IF ActiveLoans(b) = {} THEN "missing" ELSE "unavailable"}
  \cup (IF NetFails \/ LoanFaults \cap {"db", "crash"} # {} THEN {"error"} ELSE {})

PreCheckAnswers(b) == IF transport = "http" THEN HttpPreCheck(b) ELSE GrpcPreCheck(b)

\* The Loan Service's CheckAvailability; it reads a 429 or 500 as no valid answer.
CatalogAnswers(b) ==
  {BookAvailability(b)} \cup (IF BookUntold \/ "crash" \in Faults THEN {"error"} ELSE {})

\* Mutant: the status as the Loan Service spells it.
RemoteReplyRaw(a) == [loanId |-> a.loan, status |-> a.status]

\* Either adapter's reading of a loan: what is not active is PENDING.
RemoteReply(a) ==
  [loanId |-> a.loan, status |-> IF a.status = "active" THEN "ACTIVE" ELSE "PENDING"]

-----------------------------------------------------------------------------
\* Steps of the Catalog Service.

CatalogOnly == UNCHANGED <<loanVars, sent, transport>>

Admin == Catalog!Admin /\ CatalogOnly

Arrive(r) == Catalog!Arrive(r) /\ CatalogOnly

PreCheck(r) ==
  /\ pc[r] = "precheck"
  /\ \E a \in PreCheckAnswers(input[r].book) : Catalog!PreCheck(r, a)
  /\ CatalogOnly

\* The saga goes straight from its transaction to the call.
Reserve(r) ==
  /\ \E acked \in Catalog!Acks :
       /\ Catalog!Reserve(r, acked)
       /\ sent' = IF acked THEN sent \cup {r} ELSE sent
  /\ UNCHANGED <<loanVars, transport>>

Write(r) ==
  /\ \/ Catalog!ReserveRolledBack(r)
     \/ \E acked \in Catalog!Acks : Catalog!Finalize(r, acked)
     \/ Catalog!FinalizeFails(r)
     \/ Catalog!Compensate(r)
     \/ Catalog!CompensateFails(r)
  /\ CatalogOnly

\* The Loan Service's answer arrives.  Only a loan has an id: an error of any
\* status makes createLoan throw.
Hear(r) ==
  /\ call[r] = "done"
  /\ IF answer[r].kind = "created"
       THEN Catalog!RemoteReturns(r, RemoteReply(answer[r]))
       ELSE Catalog!RemoteThrows(r)
  /\ CatalogOnly

\* Mutant: the client's timeout runs out while the Loan Service is at work.
GiveUpEarly(r) ==
  /\ call[r] # "done"
  /\ Catalog!RemoteThrows(r)
  /\ CatalogOnly

\* No answer arrives: 3 s went by, the connection broke, or the Loan Service
\* died.  What it was asked, it may still do.
GiveUp(r) ==
  /\ NetFails \/ call[r] = "lost"
  /\ Catalog!RemoteThrows(r)
  /\ CatalogOnly

CatalogCrash == Catalog!Crash /\ CatalogOnly

-----------------------------------------------------------------------------
\* Steps of the Loan Service.

LoansOnly == UNCHANGED <<sagaVars, sent, transport>>

\* A POST of a saga is delivered; with a fault of the network it may be
\* delivered late, or never.
Deliver(r) == r \in sent /\ Loans!Accept(r, input[r]) /\ LoansOnly

DirectArgs == [book : Books, user : Users, key : ClientKeys \cup {NoKey}]

DirectCall(c) == (\E a \in DirectArgs : Loans!Accept(c, a)) /\ LoansOnly

\* Mutant: the row stays locked by a saga that waits for its loan.
AskCatalogBehindLock(c) ==
  /\ call[c] = "check"
  /\ \A r \in Requests : pc[r] = "remote" => input[r].book # arg[c].book
  /\ \E a \in CatalogAnswers(arg[c].book) : Loans!AskCatalog(c, a)
  /\ LoansOnly

AskCatalog(c) ==
  /\ call[c] = "check"
  /\ \E a \in CatalogAnswers(arg[c].book) : Loans!AskCatalog(c, a)
  /\ LoansOnly

Store(c) ==
  /\ \/ Loans!LookUp(c)
     \/ \E acked \in Loans!LoanAcks : Loans!Insert(c, acked)
     \/ Loans!InsertFails(c)
  /\ LoansOnly

ReturnLoan(x) ==
  /\ (\E d \in Calls : Loans!ReadLoan(x, d)) \/ Loans!ReturnStep(x)
  /\ LoansOnly

LoanCrash == Loans!LoanCrash /\ LoansOnly

-----------------------------------------------------------------------------
SagaStep(r) == PreCheck(r) \/ Reserve(r) \/ Write(r) \/ Hear(r) \/ GiveUp(r)
CallStep(c) == AskCatalog(c) \/ Store(c)

Next ==
  \/ Admin \/ CatalogCrash \/ LoanCrash
  \/ \E r \in Requests : Arrive(r) \/ SagaStep(r) \/ Deliver(r)
  \/ \E c \in DirectCalls : DirectCall(c)
  \/ \E c \in Calls : CallStep(c)
  \/ \E x \in Returns : ReturnLoan(x)

Spec == Init /\ [][Next]_vars

\* Executions and goroutines that can run do, and an open connection delivers.
Fairness ==
  /\ \A r \in Requests : WF_vars(SagaStep(r)) /\ WF_vars(Deliver(r))
  /\ \A c \in Calls : WF_vars(CallStep(c))

FairSpec == Spec /\ Fairness

-----------------------------------------------------------------------------
\* Being throttled is no fault: it is what the service is set to do.
Faultless == Faults = {} /\ LoanFaults = {} /\ ~NetFails

\* What the Loan Service did its saga hears, unless that has died: the network,
\* the Loan Service's process and its commits are sound.  Its queries may fail,
\* and so may all of the Catalog Service.
AnswersArrive == ~NetFails /\ LoanFaults \subseteq {"db"}

Quiet == \A r \in Requests : ~Catalog!InFlight(r)

\* d made the loan that a asks for, or one just like it.
IsLoanOf(d, a) ==
  /\ d \in Calls /\ loan[d] # "NoRow"
  /\ arg[d].book = a.book /\ arg[d].user = a.user /\ arg[d].key = a.key

\* A local row that shows a remote loan shows one that is there and that was
\* asked for with the same book, user and key, though the answer may be a
\* replay of a call that another request or another client made.
ShadowFaithful ==
  \A r \in Requests :
    remoteLoanId[r] # NoLoan => IsLoanOf(remoteLoanId[r], input[r])

\* A client that was told 404 or 409 has no loan at the Loan Service, late
\* deliveries, crashes and lost answers included.
RefusedHasNoLoan ==
  \A r \in Requests : outcome[r] \in Catalog!Refusals => loan[r] = "NoRow"

\* While answers arrive, each loan that a saga made has the row of that saga to
\* keep a copy of its book off the shelf, whatever fails in the Catalog Service
\* and whatever other clients borrow: none is ever compensated for.
LoansHaveCopies ==
  AnswersArrive =>
    \A r \in Requests : loan[r] # "NoRow" => r \in Catalog!OutRows(arg[r].book)

\* The 503 of a saga says the truth, whatever the Loan Service did or did not
\* answer, and whatever is deleted meanwhile: see CatalogSaga.
RevertedUnlessDbFails == Catalog!RevertedUnlessDbFails

\* If the Catalog Service does not fail either, but for acknowledgements, then
\* once every saga is over each of their loans is shown by a row.
LoansAreShown ==
  AnswersArrive /\ Faults \subseteq {"ack"} =>
    (Quiet => \A r \in Requests :
                loan[r] # "NoRow" => \E q \in Requests : remoteLoanId[q] = r)

\* Without faults of the Catalog Service a copy is tied up in an unsettled row
\* in one case only: another request asked for the same book and user with the
\* same key, and its row already shows the loan that both were answered with.
StuckOnlyByReplay ==
  Faults = {} =>
    \A r \in Requests :
      Catalog!Over(r) /\ Catalog!Unsettled(r) =>
        /\ remote[r] # NoReply
        /\ \E q \in Requests \ {r} :
             input[q] = input[r] /\ remoteLoanId[q] = remote[r].loanId

\* Each service waits for the other inside its own handler, and yet every saga
\* comes to its end, with no timeout to help.
EverySagaEnds == \A r \in Requests : Catalog!InFlight(r) ~> Catalog!Over(r)

-----------------------------------------------------------------------------
\* The inductive invariant behind the properties above.

Shape ==
  /\ Requests = DOMAIN pc /\ Requests = DOMAIN input /\ Requests = DOMAIN status
  /\ Requests = DOMAIN remoteLoanId /\ Requests = DOMAIN remote
  /\ Requests = DOMAIN outcome
  /\ Calls = DOMAIN call /\ Calls = DOMAIN arg /\ Calls = DOMAIN loan
  /\ Calls = DOMAIN answer
  /\ Returns = DOMAIN ret /\ Returns = DOMAIN target

\* A loan is asked for by the POST of its saga alone, sent after its row was
\* made; what the saga holds of the answer is a loan that it could have made.
SagaInv(r) ==
  /\ r \in sent => pc[r] \notin {"idle", "precheck", "reserve"} /\ status[r] # "NoRow"
  /\ call[r] # "idle" => r \in sent /\ arg[r] = input[r]
  /\ outcome[r] \in Catalog!Refusals => pc[r] = "done" /\ r \notin sent
  /\ pc[r] # "done" => remoteLoanId[r] = NoLoan
  /\ pc[r] = "finalize" => remote[r] \in Catalog!Replies
  /\ remote[r] # NoReply => r \in sent /\ IsLoanOf(remote[r].loanId, input[r])
  /\ remoteLoanId[r] # NoLoan => IsLoanOf(remoteLoanId[r], input[r])

CallInv(c) ==
  /\ loan[c] # "NoRow" => call[c] = "done"
  /\ call[c] = "done" /\ answer[c].kind = "created" => IsLoanOf(answer[c].loan, arg[c])

ReturnInv(x) == ret[x] = "save" => target[x] \in Calls /\ loan[target[x]] # "NoRow"

\* While answers arrive, a saga that lives waits until its call has ended, and
\* then knows of its loan or has none.
HeardInv(r) ==
  AnswersArrive =>
    /\ call[r] # "lost"
    /\ r \in sent /\ call[r] # "done" => pc[r] \in {"remote", "lost"}
    /\ pc[r] = "finalize" /\ loan[r] # "NoRow" => remote[r].loanId = r
    /\ pc[r] = "compensate" => call[r] = "done" /\ loan[r] = "NoRow"
    /\ status[r] = "ROLLED_BACK" => pc[r] = "done" /\ loan[r] = "NoRow"
    /\ loan[r] # "NoRow" => answer[r].kind = "created" /\ answer[r].loan = r

\* And if the saga's process and its queries are sound too, it shows its loan,
\* unless another row does.
ShownInv(r) ==
  AnswersArrive /\ Faults \subseteq {"ack"} =>
    /\ pc[r] # "lost"
    /\ loan[r] # "NoRow" =>
         pc[r] \in {"remote", "finalize"} \/ \E q \in Requests : remoteLoanId[q] = r

LibraryInv ==
  /\ Shape
  /\ \A r \in Requests : SagaInv(r) /\ HeardInv(r) /\ ShownInv(r)
  /\ \A c \in Calls : CallInv(c)
  /\ \A x \in Returns : ReturnInv(x)

-----------------------------------------------------------------------------
\* Statements of the documentation that the code does not keep.

\* 503 is 'Loan Service unavailable; stock was reverted': not without a fault.
UnavailableOnlyByFault ==
  Faultless => \A r \in Requests : outcome[r] # "serviceUnavailable"

\* The compensation 'asegura la consistencia eventual': once nothing is under
\* way, no loan is active behind a row that was rolled back.
NoOrphanLoan ==
  Quiet /\ (\A r \in sent : call[r] \in {"done", "lost"}) =>
    \A r \in Requests : status[r] = "ROLLED_BACK" => loan[r] # "active"

\* 'If a previous request with the same key succeeded, the loan is replayed':
\* without faults, its repetition does not end in an internal error.
RepeatIsReplayed ==
  Faultless =>
    \A q, r \in Requests :
      q # r /\ input[q] = input[r] /\ outcome[q] = "created" =>
        outcome[r] # "internalError"

\* 404 is 'Book or user not found': when a client is told that there is no such
\* book, there is none at that moment, whatever becomes of it later.
NotFoundMeansAbsent ==
  [][\A r \in Requests :
       outcome[r] = "none" /\ outcome'[r] = "bookNotFound" =>
         book[input'[r].book] # "present"]_vars
=============================================================================
