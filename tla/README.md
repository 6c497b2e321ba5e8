# A TLA+ model of the library's two services

The repository is a small library system: a **Catalog Service** (TypeScript,
NestJS, Prisma) that owns books, users and a *shadow* table of loans, and a
**Loan Service** (Go, Gin, gRPC, GORM) that owns the loans. Lending a book is a
hand-made saga across the two databases. This directory models that saga, the
two services around it and what happens between them, the accounts and the paged
lists beside it, checks the models with TLC, and proves the main results about
each service, and about the two together, with TLAPS.

## 1. The system

| component | state it keeps | operations | talks to |
|---|---|---|---|
| Loan saga, `CreateLoanUseCase.execute` | where each execution stands; the Loan Service's answer, in memory | read and refuse, pre-check, transaction 1 (decrement and PENDING row), `createLoan`, then final write or compensation | books, users and loans tables; Loan Service |
| books table and book operations | `total_stock`, `available_stock`, isbn | create, patch, delete | loans table through a foreign key |
| Loan Service process: migration, `main()`, shutdown | `schema_migrations`, whether the table is there, its two servers | migrate, serve, stop gRPC, then stop HTTP within ten seconds | database, signals, container |
| users table and user operations | email, role, `is_active` | register, patch, delete | loans table through a foreign key |
| shadow loans table | `status`, unique `remote_loan_id` | written only by the saga | |
| HTTP and gRPC loan adapters | none | `createLoan`, `checkAvailability` (`registerReturn` is never called) | Loan Service |
| internal books endpoint | none | stock of a book, without authentication | |
| Loan Service core | none | `RegisterLoan`, `RegisterReturn`, `ValidateAvailability`, reads | its repository; Catalog Service |
| Loan Service table | `status`, `returned_at`, unique non-empty `idempotency_key` | insert, whole-row save, look-ups, count, list | |
| catalogue clients of the Loan Service | none | `CheckAvailability` over HTTP (default) or gRPC (no one serves it) | internal books endpoint |
| login, tokens, guards, seed of the administrator | the signed tokens, at their holders | log in, authenticate, ask the role | users table |
| lists of both services | none | a page of rows and their total, in two statements | books, users and loans tables |
| throttler | hits per client and minute | 429 on any route of the Catalog Service, `/internal` too | both callers |
| health; configuration; scripts | see `PROJECT.json` | | |

How they interact, in `POST /loans`:

    client -> Catalog: reads book and user, refuses (404, 409)
              Catalog -> Loan: GET /availability/:id  -> Catalog: GET /internal/books/:id
              Catalog: transaction 1: available_stock - 1, row PENDING
              Catalog -> Loan: POST /loans
                         Loan: look-up by key -> replay, or conflict
                         Loan -> Catalog: GET /internal/books/:id
                         Loan: insert
              Catalog: row ACTIVE with remote_loan_id,
                    or transaction 2: available_stock + 1, row ROLLED_BACK, 503

A book is returned at the Loan Service directly; the Catalog Service is not told.

What is hard here: executions interleave at every `await`, and goroutines at
every query; the stock is read long before it is taken; a book or a user may be
deleted between two steps; every call between the services can fail, time out
or arrive after its caller gave up; a commit may be acknowledged to nobody; the
compensation can itself fail; either process may die at any step, and nothing
takes up what it left; retries carry the same key; and each service waits for
the other inside a handler; a book's ISBN and a user's email are looked up long
before the row is inserted; the throttler counts all sagas as one client; and the
Loan Service may be stopped, or die inside its migration, with calls under way.
`PROJECT.json` lists each hazard at its line with
the properties that watch it, or the reason why none does. What makes the components correct:

* books: one per ISBN, whatever creations race;
* saga and stock: no oversell, no lost or invented copy, no dangling row, an
  answer that is true of the row, an end to every request;
* Loan Service: one loan per key, a replay only of what was asked, no loan
  active again after it was returned, an end to every call;
* its process: it serves only with its table, a stop waits for what is under way
  and ends, and it comes back, unless it died amid its migration;
* accounts: one per email, operations that overlap as if one came after the
  other, changes only at an administrator's token;
* lists: a client that walks the pages misses or repeats a row only for a
  reason that can be named;
* together: a row shows a loan that is there and is the reader's own, each loan
  of a saga keeps a copy off the shelf, no rollback of a loan that was heard of,
  no deadlock.

## 2. The modules

| module | what it models |
|---|---|
| `CopyLedger` | abstract: the copies of each book, on the shelf, held, lent; holds that were closed |
| `CatalogSaga` | the saga and the book and user operations beside it, over the Catalog Service's three tables |
| `CatalogSagaProofs` | the inductive invariant and the theorems on safety |
| `CatalogLedgerProofs` | the proof that `CatalogSaga` implements `CopyLedger` |
| `LoanRegistry` | abstract: what calls of the Loan Service may be answered, and what loans may become |
| `LoanService` | `RegisterLoan` and `RegisterReturn` over the Loan Service's table |
| `LoanServiceProofs` | the inductive invariant of `LoanService`, the theorems on safety, and the proof that it implements `LoanRegistry` |
| `LoanServer` | `LoanService` inside its process: migration, start, two transports, shutdown, death, restart |
| `LoanServerProofs` | its theorems: what `LoanService` promises survives its process |
| `Library` | both services, their adapters, the network between them, other clients of the Loan Service |
| `LibraryProofs` | the inductive invariant of the two together, and that each component implements its own specification there |
| `AccountDirectory` | abstract: each account operation in one instant, with an answer that is true of it |
| `Accounts` | registration, the administrator's seed, login, patch and removal over the users table, with the guards |
| `AccountsProofs` | the inductive invariant of `Accounts` and the theorems on safety |
| `DirectoryProofs` | the proof that `Accounts` implements `AccountDirectory` |
| `Listing` | the paged lists, the tables' writers, and a client that walks the pages |
| `ListingProofs` | what such a walk may miss or repeat, for any rows, times and pages |
| `MC...` | instances for TLC, with the symmetry sets |

Operators named "Mutant" in a comment are not part of a specification: each is a
definition with a plausible bug, kept beside the right one, and with it in place
TLC finds the property named in `PROJECT.json` violated.

### CatalogSaga

`book`, `user`, `totalStock` and `availableStock` are the rows of the two
tables; `status[r]` and `remoteLoanId[r]` are the columns of the loan row that
request `r` inserted; `pc`, `input` and `remote` are the state of the execution
in the Node process, and `outcome` is the answer. An action is the code from one
`await` to the next, and a transaction is one action:

| action | code in `create-loan.usecase.ts` |
|---|---|
| `Begin` | 36-46, the two reads (one step, see below) and the three refusals |
| `PreCheck` | 48-59: an answer may refuse, an error is logged and passed over |
| `Reserve`, `ReserveRolledBack` | 61-84: commits, with or without its acknowledgement, or rolls back (stock, P2025, foreign key, database) |
| `RemoteReturns`, `RemoteThrows` | 86-94 |
| `Finalize`, `FinalizeFails` | 114-128: `remote_loan_id` is unique, and a failure compensates nothing |
| `Compensate`, `CompensateFails` | 97-111: the same 503 either way |
| `Crash` | the process dies; the tables stay |

`LookForIsbn`, then `InsertBook` or `InsertBookFails`, are a creation
(`create-book.usecase.ts` and `seedBook`): the ISBN is looked up, and the unique
index `books_isbn_key` decides between two creations that both found it free.
`UpdateBook`, `DeleteBook`, `RegisterUser`, `DeleteUser` are the other
operations beside the saga. Each reads a row and then writes it; ids are UUIDs that
are never used again, so a row that is there for the write was there for the
read and one action stands for both. `Promise.all` in `Begin` reads book and
user in two queries, which the model merges. What that may lose is which of two
refusals a request is given, when its book and its user are both removed between
the queries; no property tells those apart, and a request that goes on meets every
test again in transaction 1. The Loan Service is open in this
module: it may answer anything the port allows.

### LoanService

A loan is named after the call that made it. `call`, `arg` and `answer` are the
executions of `RegisterLoan`; `loan` and `returnedAt` the table; `ret`, `target`
and `result` the executions of `RegisterReturn`. `Accept`, `LookUp`,
`AskCatalog`, `Insert`/`InsertFails` follow `loan_service.go` 56-122;
`ReadLoan`, `SaveLoan`/`SaveFails` follow 124-143 and GORM's `Save`. HTTP and
gRPC handlers only carry calls and errors. The catalogue is open.

### LoanServer

It extends `LoanService` by `phase`, where the process is, `version` and
`table`, the database as golang-migrate sees it, and `expired`, whether the ten
seconds of the shutdown are over. `RpcCalls` are the calls and returns that come
over gRPC.

| action | code |
|---|---|
| `MigrateBegins`, `RunMigration`, `MigrateEnds` | `migrate up`: the version is marked dirty, the file runs, the mark is cleared |
| `NothingToMigrate` | `ErrNoChange`; for a dirty database there is no action, as migrate refuses it and the entrypoint ends |
| `Serve`, `StartFails` | `main.go` from `openDB`, whose ten attempts are one step, to both listeners |
| `ForceVersion` | `migrate force`, by an operator who looked whether the table is there |
| `ShutDown`, `Deadline` | a signal or the failure of one server; the context of ten seconds, which starts there |
| `GracefulStop`, `Exit` | `main.go` 114-130: gRPC first, and without a bound; then HTTP, within what is left of the ten seconds |
| `Die` | the process is killed; `CutOff` of `LoanService` |

A call arrives only while its transport is served: until `ShutDown` over gRPC,
and until the end of `GracefulStop` over HTTP.

### Library

The two components are instantiated over this module's variables, and each
action is one component's action with the answers the other one gives, while the
other stands still; `sent` holds the POSTs that have left the Catalog Service.
`HttpPreCheck` and `GrpcPreCheck` are the two adapters' readings of the Loan
Service's answers, with what they make of errors: over HTTP an error body reads
as a missing book, since `validateStatus` accepts every status. Which of the two
is used is `transport`, LOAN_TRANSPORT, which never changes. A call of the
Catalog Service's internal endpoint may be throttled at any time (`"throttle"` in
`NetFaults`), as all sagas count as one client of it, or fail with the database
(`BookUntold`), or with the process that serves it. `GiveUp` is the
timeout or the broken connection, after which `Deliver` may still happen.
The Loan Service asks the catalogue over HTTP: no part of the repository serves
`BookService`, so `buildCatalogClient` falls back to HTTP.

### Accounts

`account` is the users table, `tokens` the claims the service has signed; `stage`,
`request`, `found` and `answer` are the executions. A row is named after the
operation that inserted it, as its id is a fresh UUID. A step is the code up to
the first await whose result others may change meanwhile:

| action | code |
|---|---|
| `LookForEmail` | `register-user.usecase.ts` 24-29 and `seed.ts` 21-25: the look-up, then the hashing |
| `InsertAccount`, `InsertFails` | `prisma-user.repository.ts` 44-55 under `users_email_key` |
| `ReadForLogin`, `Compare` | `login.usecase.ts` 25-28 and 29-37: bcrypt and the signature use the row that was read |
| `GuardAndRead` | `jwt-auth.guard.ts`, `roles.guard.ts`, then `findById` |
| `UpdateAccount`, `DeleteAccount`, `EditFails` | `update-user.usecase.ts` 25-33, `delete-user.usecase.ts` 12; P2025 and the foreign key |

The guards ask the token and no row, so they and the query after them are one
step. A token is its claims, being signed; that it may have expired is a refusal
that may always happen. `POST /users` takes a `role` from anyone, so a
registration may ask for `ADMIN`, as the DTO allows. `CatalogSaga` assumes of a
caller of `POST /loans` only that its user was registered once: here that is
`TokenPayload` and the fact that `Claims` come from a row that was read.

`AccountDirectory` does each operation in one instant. The mapping lets a login
count as done when it has read its row, since its answer is then decided; all
others count when they answer. So a login that began after a deactivation, a
removal or a new password was answered is held to it, while one that overlaps may
still be given a token of the account as it was, and a token outlives all three.

### Listing

`listed` and `time` are the rows of whichever table is listed, `list` says which
service is asked. A row is in the list when it is in its table and passes the
filter: `Come` is an insert or a change that makes it pass (a book that is
available again, a loan that becomes ACTIVE), at any place of the order, since a
change leaves the time of the row as it was; `Leave` is a delete or the opposite
change, and a row that left may come again. `start`, `came`, `left` and `gap` say
what the properties need of the past. `CatalogFindMany` then `CatalogCount` are the two statements
of the three Prisma repositories, in a `$transaction` whose READ COMMITTED gives
each its own view; `LoansCount` then `LoansFind` those of `loan_repository.go`,
which come in the other order. Rows with the same time come in any order, and
another one each time, as nothing breaks the tie. The client, which is not in
the repository, asks for the next page while the total promises one.

## 3. Faults, bounds and fairness

Faults are parameters. `"db"`: a query or a transaction fails and leaves nothing.
`"ack"`: it commits and its caller is told it failed. `"crash"`: the process dies at
any step. `"net"`: a call between the services fails or times out, before or after
it was delivered. `"throttle"`: a call of the Catalog Service is answered 429; that
is no fault, and what is stated without faults allows it. The code's own failures
(stock, foreign keys, unique indexes) need none of these.

Every bound is a constant: the number of `Requests`, `Calls`, `DirectCalls` and
`Returns`; `Books` and `Users`; `MaxStock`. The interesting cases need little: two
requests race for one copy, or for one remote loan; two books for one ISBN; two
requests share a key; a late POST needs one request; two returns race for one loan.
`MaxStock = 2` lets the last copy and the one before it behave differently, which is
what `library_last_copy` is about. In `library` two sagas with one key do not both
pass the Loan Service's check before either has its loan, which would take a third
copy: that race is run in `loan_service`, and the proofs of `LibraryProofs` include
it. In `accounts` one email makes the two creators race, and a login's token serves
both edits; `Columns` bounds the patches to those of the role and those of both
other columns, and two passwords are a right and a wrong one. In `listing` three rows
in pages of one or two have several pages, a row before, at and behind the client,
and with three times all, some or none of them tie. In `catalog_saga` two copies let
both sagas reach their last write, where one may find the other's remote id; with
one copy that never happens. Two books share nothing but the ISBN and the unique
index on the remote id, and the proofs are for all sets of books. In `loan_service`
a call over HTTP, one over gRPC and a return meet every phase of the process, which
may restart any number of times. Requests only differ by what they do, so the larger
runs without liveness use symmetry. Deadlock is off everywhere because requests,
calls, returns and account operations are finitely many, and a walk of a list ends:
the model then stops, as the system does when no one calls it.

Fairness is weak and per execution. The event loop runs every continuation and Go's
scheduler every goroutine; the container is restarted unless it was stopped by hand,
and `main()` goes on when what it waits for is over; Prisma and Postgres end every
query; axios has a 3 s timeout and the Loan Service's clients have theirs, so every
remote call ends. In `library` nothing may time out and the fairness is only that
each process keeps working and an open connection delivers: `EverySagaEnds` says
that the mutual waiting needs no timeout to end. No fairness is assumed of
administrators, clients, operators (`ForceVersion`), signals, the deadline of a
shutdown, faults or crashes: `ComesBack` therefore has the premise that starts cease
to fail and nobody stops the process, and its exception is the dirty version that
only an operator mends.

## 4. What the runs show

| run | instance | result |
|---|---|---|
| `catalog_saga` | 2 requests, 2 books, 1 ISBN, 1 user, 2 remote loans, stock up to 2, all faults, fairness | `TypeOK`, `IsbnsUnique`, `NoOversell`, `NoDanglingRow`, `AnswerMatchesRow`, `EveryRequestEnds`; implements `CopyLedger` |
| `loan_service` | `LoanServer`: a call over HTTP, one over gRPC, a return, 2 books, 1 key or none, all faults, fairness | `ServerTypeOK`, `SameKeySameLoan`, `ServesWithTable`, `StopsGracefully`, `EveryCallEnds`, `StopEnds`, `ComesBack`; implements `LoanRegistry` |
| `library` | 2 requests, 2 users, own keys or a shared one, stock up to 2, 1 return, HTTP, no faults but throttling, fairness | `TypeOK`, `ShadowFaithful`, `LoansHaveCopies`, `RevertedUnlessDbFails`, `LoansAreShown`, `StuckOnlyByReplay`, `EverySagaEnds` |
| `library_faults` | 2 requests and a direct call, either transport, all faults, the network's and throttling | `ShadowFaithful`, `RefusedHasNoLoan` |
| `accounts` | 2 creators, 1 login, 2 edits, 1 email, 2 passwords, the database's faults | `TypeOK`, `EmailsUnique`; implements `AccountDirectory` |
| `listing` | 3 rows, 3 times, pages of 1 or 2, either service | `TypeOK`, `NothingSkipped`, `NothingTwice` |

Six more runs each check a statement of the repository that the code does not
keep, and end in a counterexample:

| run | statement | what happens |
|---|---|---|
| `catalog_saga_503` | 503 says 'local change was reverted' | the compensation fails and is logged; the same 503 |
| `library_last_copy` | 503 is 'Loan Service unavailable' | with no fault, the last copy is refused: the saga takes it, then the Loan Service finds none left |
| `library_orphan` | the compensation assures eventual consistency | a POST delivered after the timeout leaves an active loan behind a rolled back row |
| `library_retry` | a repeated key replays the loan | the replay's final update breaks the unique index: internal error, and a second copy off the shelf |
| `library_grpc` | 404 is 'Book or user not found' | over gRPC the pre-check of a book that is there, and has no active loan, says 'not found' |
| `loan_service_return` | returning twice is a no-op | two returns that race both succeed, and `returned_at` moves |

Each is a property of its own so that the passing runs stay free of exceptions;
what the passing runs say is what the code does keep, and some of it is the exact
extent of a problem above:

* `RevertedUnlessDbFails`: the 503 of `catalog_saga_503` is untrue for one reason only,
  a database that fails; the run asks this with requests refused by throttling while
  books and users are deleted, the theorem also with crashes and lost acknowledgements;
* `LoansHaveCopies`: no loan is left behind a rolled back row, as in `library_orphan`,
  while the Loan Service's answers arrive (`AnswersArrive`: no fault of the network,
  and the Loan Service neither dies nor loses a commit's acknowledgement). Nothing is
  asked of the Catalog Service, which may die or fail at any step: the run shows the
  case without faults, where replays and throttling are what could break it, and
  `EachLoanHasItsCopy` the others;
* `FoundOverHttp`, a theorem: over HTTP, while the Catalog Service answers, the 404 of
  `library_grpc` is true; the property speaks of the step that answers, since a book
  may well be created after a true 404;
* `StuckOnlyByReplay`: without faults of the Catalog Service only the request of
  `library_retry`, one that repeats another's book, user and key, ties up a copy.

`NothingSkipped` has an exception for the Loan Service alone: it counts before it
reads, so a newer row that comes in between moves another to a page that the total
does not promise, which cannot happen in the Catalog Service; without the exception
the run fails.

## 5. What is proved

Every invariant and action property of the passing runs, and each of the three
refinements, is proved for all values of the constants. Only liveness is not.

`CatalogSagaProofs` proves, for all values of the constants that meet
`CatalogAssumption` and `NullAssumption` (requests finitely many, stock a natural
number, faults among the three kinds, null values that are not values):

* `TypeCorrect`, `IsbnsNeverShared`, `NeverOversold`, `RowsRefer`, `AnswersTrue`: the invariants of
  `catalog_saga`, from `Invariance`, `Spec => []IInv`;
* `OnlyReplayTiesUp`: `StuckOnlyByReplay`, by `IInv` and the fact that a remote id,
  once written, stays;
* `RevertedUnlessDatabaseFails`: a compensation finds its book there (`NoDanglingRow`)
  and its row PENDING (`RowFollowsStage`), and an answered row is not touched again.

`IInv` strengthens the five by `RowFollowsStage` and `NoStockWithoutBook`.
`AnswerMatchesRow` is not inductive alone: that a 409 leaves no row needs to know
that there was none before transaction 1, and that a 201 has a remote id needs
`remote[r] # NoReply` when the final write runs. `RowFollowsStage` says both.
`NoDanglingRow` is kept by deletions because of the foreign key and by
transaction 1 because it tests the rows it refers to.

`CatalogLedgerProofs` proves `LedgerKept`, `Spec => LedgerSpec`: the refinement
mapping counts copies as the shelf plus the rows that keep one off it, and each
action is matched with `Stock`, `Retire`, `TakeOut`, `Confirm`, `PutBack` or a
stutter. The cardinality steps rest on `FiniteSetTheorems`; that `TakeOut` finds
a copy left is where `CopyLeft` is needed, and `IInv` gives `NoStockWithoutBook`
for `Stock`.

`AccountsProofs` proves, from `AccountsAssumption` and `AccountsNulls` (the three
kinds of operations are disjoint, null values are not values), `AccountsTyped`
and `OneAccountPerEmail`, from `AccountsInvariance`. Its `IInv` adds `Underway`:
what an operation that waits was asked and remembers, and that an edit that has
passed the guards holds a signed token of an administrator.

`DirectoryProofs` proves `DirectoryKept`, `Spec => DirectorySpec`: an insertion
maps to `Create`, a login's read to `LogIn` or `TurnAway`, its comparison to a
stutter, an edit's write to `Patch` or `Remove`. `EmailsUnique` is what the
refusal of a wrong password rests on: the row the login read is the only one
with that email, so no other account could be opened. `Underway` gives `ByAdmin`
at the write.

`LoanServiceProofs` proves, from `LoanAssumption` and `LoanNulls`, `LoansTyped` and
`OneLoanPerKey`, from `LoanInvariance`. Two answers with one key could differ unless
`AnswersAreRows` says that an answered loan has a row with the caller's key and
`KeysUnique` that there is one such row; `KeysUnique` is kept by `Insert` alone,
under the unique index, as the look-up's result is old by then. `RegistryKept` is
`Spec => RegistrySpec`: a return is a step of the registry because
`ReturnsReadRows` says that what it saves was read.

`LoanServerProofs` proves that these survive the process (`OneLoanPerKeyServed`,
`RegistryKeptServed`: every step of the process is one of `LoanService` or leaves
its variables alone), `TableBeforeServing`, and `GracefulStops`: in the phase
`"stopping"` no RPC is left, as none arrives after the signal, which is what
`Lifecycle` says.

`LibraryProofs` is about the two services together, from `LibraryAssumption` and
`ComponentAssumption`. `LibraryInv` says what each saga holds of its call
(`SagaInv`), each call of its row (`CallInv`), each return of its loan
(`ReturnInv`), and two things more under premises on the faults. `HeardInv`: while
answers arrive, a saga waits until its call has ended, unless it dies, and then
knows of its loan or has none. `ShownInv`: if the Catalog Service too loses at most
acknowledgements, the loan is shown in the end. From it:

* `RowsShowTheirLoans`: a row shows a loan of its own book, user and key, because a
  replay is of a call with the same key that asked for the same (`AsksTheSame`), and
  a call asks for what its saga's row says, however late it is delivered;
* `RefusedHaveNoLoan`: a saga that was refused never sent its POST;
* `LoansAreShownInTheEnd`: a saga that has its loan writes it into its row, or finds
  that another row has it;
* `CatalogClosed`, `LoansClosed`: each service implements its own specification,
  in which the other one was open. So everything above holds of the two together:
  `BothKeepTheirPromises` has both refinements, `LibraryTyped` the types,
  `ToldRevertedIsReverted` what a 503 says;
* `TiedUpByReplayOnly`: `OnlyReplayTiesUp` says that another row shows the loan, and
  `SagaInv` of both rows that their requests are the same (`SameLoanSameInput`);
* `FoundOverHttp`: only an arrival or a pre-check says that a book is missing
  (`WhoSaysNotFound`), and both then read the table, unless nobody answers
  (`BookUntold`);
* `EachLoanHasItsCopy`: a row is rolled back only after an answer that made no loan
  (`HeardInv`), and a row that is there and not rolled back keeps its copy
  (`RowFollowsStage`). With `NoOversell` it gives `NoMoreLoansThanCopies`: the active
  loans of the sagas are no more than the copies, `Copies(b)`.

`ListingProofs` proves, from `ListingAssumption` (rows finitely many, times natural
numbers, pages not empty), `ListingTyped`, `NoRowSkipped` and `NoRowTwice`, from
`ListingInvariance`. No induction over the pages is needed, as the invariant speaks of
places instead of pages. Without ties an order of the list leaves Postgres no choice:
the place of a row is the number of newer rows, `Ahead` (an order is a bijection with
`1..Cardinality(listed)`, so a row at place i has i - 1 rows ahead). `Reached` is how
many places have been read. `NoneBehind` says that what is behind the walk and was
not moved up has been read, `AllBehind` that what has been read and was not moved
down is behind it and so is never read again: reading a page moves `Reached` over
exactly the places of that page, a row that comes raises `Ahead` of older rows by
one, a row that leaves lowers it. `NothingSkipped` is not inductive alone: at the end
of a walk it needs that the total of the last page lies above every place still
expected, which is immediate if the count came last and `Counted` if it came first,
where `gap` is what a count may have missed.

Model-checked only: all liveness, which is outside the proof system's reach, as are
`ENABLED` and induction over data.

## 6. What is not modelled

The throttler's counter, which is its library's: a call may be throttled at any
time. Health endpoints and the health check of the container, which only read.
`migrate down`, by which an operator drops the table of a service that is stopped.
The gRPC client of the catalogue, as no part of the repository serves it. Reading
the environment, scripts that are run by hand, compose and CI; generated API
documentation; the Catalog Service's start, which opens its database and serves,
and its end, which is `Crash`. The wording and shapes of DTOs. In `Listing`, what the filters select, and pages or sizes outside
the documented range, which the lists of users and of local loans do not check.
In `Accounts`, the wording of refusals, and that a registration which loses the
race for an email is answered 500 where `auth.controller.ts` documents 409: the
model has that answer as `"error"`. `registerReturn` in the two adapters
is called by nothing. Descriptive columns, timestamps other than `returned_at`,
logging and the wording of errors are abstracted. An idempotency key longer than
the column appears as a `"db"` fault of the insert.

## 7. Plan

Done: all of the modules above. Left, in this order:

1. `migrate down` in `LoanServer`, beside a server that still runs.
2. The throttler's window as a counter, once it is stated how many calls a saga
   and a health check make.
