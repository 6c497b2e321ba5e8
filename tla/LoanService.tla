---------------------------- MODULE LoanService ----------------------------
(***************************************************************************)
(* The Loan Service: RegisterLoan with its idempotency key and its check   *)
(* of the catalogue, and RegisterReturn, over the loans table.  A call is  *)
(* one execution of RegisterLoan and a return one of RegisterReturn,       *)
(* whether they came over HTTP or gRPC; each runs in a goroutine of its    *)
(* own, and every query and every call of the catalogue is one step.       *)
(*                                                                         *)
(* A loan id is a fresh UUID: the name of the call that made the loan      *)
(* stands for it.  borrowed_at and the other timestamps are left out, but  *)
(* for returned_at, where the return whose clock reading it holds stands   *)
(* for it.                                                                 *)
(***************************************************************************)
EXTENDS Integers

CONSTANTS
  Calls,      \* executions of RegisterLoan
  Returns,    \* executions of RegisterReturn
  BookIds,    \* book ids a caller may name
  UserIds,    \* user ids a caller may name
  Keys,       \* idempotency keys a caller may send
  LoanFaults, \* the faults that may happen, see LoanFaultKinds
  NoKey,      \* the empty idempotency key
  NilId,      \* uuid.Nil
  NoArg,      \* a call that has not arrived, a return with no target yet
  NoAnswer,   \* a call not answered
  NoReturn    \* SQL null in returned_at

\* "db": a query fails and leaves nothing, or the request's context is
\* cancelled, as when its caller has gone; "ack": a write commits and its
\* caller is told that it failed; "crash": the process dies.
LoanFaultKinds == {"db", "ack", "crash"}

ASSUME LoanAssumption ==
  /\ LoanFaults \subseteq LoanFaultKinds
  /\ NoKey \notin Keys
  /\ NilId \notin BookIds \cup UserIds \cup Calls

VARIABLES
  call,        \* call[c]: the step RegisterLoan stands at
  arg,         \* arg[c]: its parameters, and the columns of the row it makes
  loan,        \* loan[c]: status of the row that c made, or "NoRow"
  returnedAt,  \* returnedAt[c]: its returned_at
  answer,      \* answer[c]: what c returned to its caller
  ret,         \* ret[x]: the step RegisterReturn stands at
  target,      \* target[x]: its parameter
  result       \* result[x]: what x returned to its caller

callVars == <<call, arg, answer>>
retVars == <<ret, target, result>>
vars == <<call, arg, loan, returnedAt, answer, ret, target, result>>

LoanStatus == {"NoRow", "active", "returned"}
Args == [book : BookIds \cup {NilId}, user : UserIds \cup {NilId},
         key : Keys \cup {NoKey}]
\* What RegisterLoan refuses for good, and its other errors.
Refusals == {"invalidInput", "idempotencyConflict", "bookNotFound",
             "bookUnavailable", "catalogUnavailable"}
Answers == [kind : {"created"}, loan : Calls, status : LoanStatus]
           \cup [kind : Refusals \cup {"internalError"}]

ASSUME LoanNulls == NoArg \notin Args /\ NoAnswer \notin Answers

Results == {"none", "returned", "alreadyReturned", "invalidInput", "notFound",
            "internalError"}
LoanAcks == IF "ack" \in LoanFaults THEN BOOLEAN ELSE {TRUE}

TypeOK ==
  /\ call \in [Calls -> {"idle", "lookup", "check", "insert", "done", "lost"}]
  /\ arg \in [Calls -> Args \cup {NoArg}]
  /\ loan \in [Calls -> LoanStatus]
  /\ returnedAt \in [Calls -> Returns \cup {NoReturn}]
  /\ answer \in [Calls -> Answers \cup {NoAnswer}]
  /\ ret \in [Returns -> {"idle", "save", "done", "lost"}]
  /\ target \in [Returns -> Calls \cup {NilId, NoArg}]
  /\ result \in [Returns -> Results]

Init ==
  /\ call = [c \in Calls |-> "idle"]
  /\ arg = [c \in Calls |-> NoArg]
  /\ loan = [c \in Calls |-> "NoRow"]
  /\ returnedAt = [c \in Calls |-> NoReturn]
  /\ answer = [c \in Calls |-> NoAnswer]
  /\ ret = [x \in Returns |-> "idle"]
  /\ target = [x \in Returns |-> NoArg]
  /\ result = [x \in Returns |-> "none"]

-----------------------------------------------------------------------------
\* RegisterLoan

GoTo(c, s) ==
  /\ call' = [call EXCEPT ![c] = s]
  /\ UNCHANGED answer

Reply(c, a) ==
  /\ call' = [call EXCEPT ![c] = "done"]
  /\ answer' = [answer EXCEPT ![c] = a]

Error(e) == [kind |-> e]
Created(d, s) == [kind |-> "created", loan |-> d, status |-> s]

\* The rows that hold key k.
KeyHolders(k) == {d \in Calls : loan[d] # "NoRow" /\ arg[d].key = k}

\* A call arrives.  Nil ids are refused; without a key there is no look-up.
Accept(c, a) ==
  /\ call[c] = "idle"
  /\ arg' = [arg EXCEPT ![c] = a]
  /\ \/ NilId \in {a.book, a.user} /\ Reply(c, Error("invalidInput"))
     \/ NilId \notin {a.book, a.user} /\ a.key # NoKey /\ GoTo(c, "lookup")
     \/ NilId \notin {a.book, a.user} /\ a.key = NoKey /\ GoTo(c, "check")
  /\ UNCHANGED <<loan, returnedAt, retVars>>

\* Mutant: any call with the key gets the loan.
AsksAnything(c, d) == TRUE

AsksTheSame(c, d) == arg[c].book = arg[d].book /\ arg[c].user = arg[d].user

\* FindByIdempotencyKey: a loan with the key answers the call, as it stands, or
\* conflicts with it.
LookUp(c) ==
  /\ call[c] = "lookup"
  /\ \/ \E d \in KeyHolders(arg[c].key) :
          IF AsksTheSame(c, d) THEN Reply(c, Created(d, loan[d]))
                               ELSE Reply(c, Error("idempotencyConflict"))
     \/ KeyHolders(arg[c].key) = {} /\ GoTo(c, "check")
     \/ "db" \in LoanFaults /\ Reply(c, Error("internalError"))
  /\ UNCHANGED <<arg, loan, returnedAt, retVars>>

\* The catalogue's answer: every error but "not found" refuses the loan as
\* unavailable.
CatalogAnswers == {"available", "unavailable", "missing", "error"}

\* Mutant: an unexpected error is passed on as it is.
AskCatalogUnmapped(c, a) ==
  /\ call[c] = "check"
  /\ \/ a = "available" /\ GoTo(c, "insert")
     \/ a = "unavailable" /\ Reply(c, Error("bookUnavailable"))
     \/ a = "missing" /\ Reply(c, Error("bookNotFound"))
     \/ a = "error" /\ Reply(c, Error("catalogInvalidAnswer"))
  /\ UNCHANGED <<arg, loan, returnedAt, retVars>>

AskCatalog(c, a) ==
  /\ call[c] = "check"
  /\ \/ a = "available" /\ GoTo(c, "insert")
     \/ a = "unavailable" /\ Reply(c, Error("bookUnavailable"))
     \/ a = "missing" /\ Reply(c, Error("bookNotFound"))
     \/ a = "error" /\ Reply(c, Error("catalogUnavailable"))
  /\ UNCHANGED <<arg, loan, returnedAt, retVars>>

\* Mutant: the index is not unique.
KeyAlwaysFree(c) == TRUE

\* idx_loans_idempotency, a unique index on the keys that are not empty.
KeyFree(c) == arg[c].key = NoKey \/ KeyHolders(arg[c].key) = {}

\* The row is inserted.
Insert(c, acked) ==
  /\ call[c] = "insert"
  /\ KeyFree(c)
  /\ loan' = [loan EXCEPT ![c] = "active"]
  /\ Reply(c, IF acked THEN Created(c, "active") ELSE Error("internalError"))
  /\ UNCHANGED <<arg, returnedAt, retVars>>

\* Mutant: a taken key is tried again, and again.
InsertRetries(c) ==
  /\ call[c] = "insert"
  /\ KeyFree(c) /\ "db" \in LoanFaults
  /\ Reply(c, Error("internalError"))
  /\ UNCHANGED <<arg, loan, returnedAt, retVars>>

\* Mutant: the error of Create is dropped.
InsertFailureUnnoticed(c) ==
  /\ call[c] = "insert"
  /\ ~KeyFree(c) \/ "db" \in LoanFaults
  /\ Reply(c, Created(c, "active"))
  /\ UNCHANGED <<arg, loan, returnedAt, retVars>>

\* It is not: a call with the same key was faster, or the database fails.
InsertFails(c) ==
  /\ call[c] = "insert"
  /\ ~KeyFree(c) \/ "db" \in LoanFaults
  /\ Reply(c, Error("internalError"))
  /\ UNCHANGED <<arg, loan, returnedAt, retVars>>

-----------------------------------------------------------------------------
\* RegisterReturn

Finish(x, o) ==
  /\ ret' = [ret EXCEPT ![x] = "done"]
  /\ result' = [result EXCEPT ![x] = o]

\* The loan is read, and MarkReturned tests what was read.  A loan that is
\* returned already is an error over HTTP and, after GetLoan reads it again, a
\* status over gRPC; neither changes anything.
ReadLoan(x, d) ==
  /\ ret[x] = "idle"
  /\ target' = [target EXCEPT ![x] = d]
  /\ \/ d = NilId /\ Finish(x, "invalidInput")
     \/ d \in Calls /\ loan[d] = "NoRow" /\ Finish(x, "notFound")
     \/ d \in Calls /\ loan[d] = "returned" /\ Finish(x, "alreadyReturned")
     \/ /\ d \in Calls /\ loan[d] = "active"
        /\ ret' = [ret EXCEPT ![x] = "save"]
        /\ UNCHANGED result
     \/ d # NilId /\ "db" \in LoanFaults /\ Finish(x, "internalError")
  /\ UNCHANGED <<callVars, loan, returnedAt>>

\* GORM's Save writes every column of the row that was read: nothing asks
\* whether it is still active.
SaveLoan(x, acked) ==
  /\ ret[x] = "save"
  /\ loan' = [loan EXCEPT ![target[x]] = "returned"]
  /\ returnedAt' = [returnedAt EXCEPT ![target[x]] = x]
  /\ Finish(x, IF acked THEN "returned" ELSE "internalError")
  /\ UNCHANGED <<callVars, target>>

SaveFails(x) ==
  /\ ret[x] = "save"
  /\ "db" \in LoanFaults
  /\ Finish(x, "internalError")
  /\ UNCHANGED <<callVars, loan, returnedAt, target>>

CallInFlight(c) == call[c] \notin {"idle", "done", "lost"}
ReturnInFlight(x) == ret[x] = "save"

\* The process ends with what it was doing; the table stays.
CutOff ==
  /\ call' = [c \in Calls |-> IF CallInFlight(c) THEN "lost" ELSE call[c]]
  /\ ret' = [x \in Returns |-> IF ReturnInFlight(x) THEN "lost" ELSE ret[x]]
  /\ UNCHANGED <<arg, loan, returnedAt, answer, target, result>>

LoanCrash ==
  /\ "crash" \in LoanFaults
  /\ (\E c \in Calls : CallInFlight(c)) \/ (\E x \in Returns : ReturnInFlight(x))
  /\ CutOff

-----------------------------------------------------------------------------
CallStep(c) ==
  \/ LookUp(c)
  \/ \E a \in CatalogAnswers : AskCatalog(c, a)
  \/ \E acked \in LoanAcks : Insert(c, acked)
  \/ InsertFails(c)

ReturnStep(x) == (\E acked \in LoanAcks : SaveLoan(x, acked)) \/ SaveFails(x)

Next ==
  \/ \E c \in Calls : (\E a \in Args : Accept(c, a)) \/ CallStep(c)
  \/ \E x \in Returns :
       (\E d \in Calls \cup {NilId} : ReadLoan(x, d)) \/ ReturnStep(x)
  \/ LoanCrash

Spec == Init /\ [][Next]_vars

\* A goroutine that can run runs; the catalogue client has a timeout.
Fairness ==
  /\ \A c \in Calls : WF_vars(CallStep(c))
  /\ \A x \in Returns : WF_vars(ReturnStep(x))

FairSpec == Spec /\ Fairness

-----------------------------------------------------------------------------
\* Calls with the same key that are answered with a loan are answered with the
\* same one, however they race: the look-up cannot promise that, as it runs
\* before the insert, the unique index does.
SameKeySameLoan ==
  \A c, d \in Calls :
    /\ answer[c] # NoAnswer /\ answer[c].kind = "created"
    /\ answer[d] # NoAnswer /\ answer[d].kind = "created"
    /\ arg[c].key = arg[d].key /\ arg[c].key # NoKey
    => answer[c].loan = answer[d].loan

\* Every call and every return that arrives comes to an end.
EveryCallEnds ==
  /\ \A c \in Calls : CallInFlight(c) ~> ~CallInFlight(c)
  /\ \A x \in Returns : ReturnInFlight(x) ~> ~ReturnInFlight(x)

\* 'Idempotent: returning an already-returned loan is a no-op.'
ReturnIsIdempotent ==
  [][\A d \in Calls : loan[d] = "returned" => returnedAt'[d] = returnedAt[d]]_vars

-----------------------------------------------------------------------------
\* The inductive invariant behind SameKeySameLoan and RegistrySpec.

\* Only a call that is answered has a row or an answer, and only one with a
\* key looks it up.
Recorded ==
  \A c \in Calls :
    /\ call[c] = "idle" <=> arg[c] = NoArg
    /\ call[c] = "lookup" => arg[c].key # NoKey
    /\ call[c] # "done" => loan[c] = "NoRow" /\ answer[c] = NoAnswer

KeysUnique ==
  \A c, d \in Calls :
    loan[c] # "NoRow" /\ loan[d] # "NoRow" /\ arg[c].key = arg[d].key /\ arg[c].key # NoKey
    => c = d

\* A loan answered is the call's own, or one with its key.
AnswersAreRows ==
  \A c \in Calls :
    answer[c] # NoAnswer /\ answer[c].kind = "created" =>
      /\ loan[answer[c].loan] # "NoRow"
      /\ arg[answer[c].loan].key = arg[c].key

\* A return that waits to write has read a row.
ReturnsReadRows ==
  \A x \in Returns : ret[x] = "save" => target[x] \in Calls /\ loan[target[x]] # "NoRow"

IInv == TypeOK /\ Recorded /\ KeysUnique /\ AnswersAreRows /\ ReturnsReadRows

-----------------------------------------------------------------------------
\* What the registry sees of a call's answer.
Verdict(c) ==
  IF answer[c] = NoAnswer THEN "none"
  ELSE IF answer[c].kind = "created" THEN answer[c].loan
  ELSE IF answer[c].kind = "internalError" THEN "failed"
  ELSE "refused"

Registry == INSTANCE LoanRegistry WITH
  Arguments <- Args,
  NoArgument <- NoArg,
  asked <- arg,
  verdict <- [c \in Calls |-> Verdict(c)]

\* The Loan Service implements LoanRegistry: a loan answered is there and is
\* what was asked for, a refusal has made none, a key has one loan, and a
\* return, whichever races with it, never brings a loan back.
RegistrySpec == Registry!Spec
=============================================================================
