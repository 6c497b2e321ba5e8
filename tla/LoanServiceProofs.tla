------------------------- MODULE LoanServiceProofs -------------------------
(***************************************************************************)
(* Proofs about LoanService, for all sets of calls, returns, ids and keys  *)
(* and all faults: the inductive invariant, what it says of calls with one *)
(* key, and that the service implements LoanRegistry.                      *)
(*                                                                         *)
(* They are stated for Steps, the steps of LoanService or a CutOff for any *)
(* reason, so that they serve for LoanServer as well.                      *)
(***************************************************************************)
EXTENDS LoanService, TLAPS

Steps == Next \/ CutOff

LEMMA InitInv == Init => IInv
  BY LoanNulls DEF Init, IInv, TypeOK, Recorded, KeysUnique, AnswersAreRows,
                   ReturnsReadRows, LoanStatus, Results

LEMMA LoanOfAnswer ==
  ASSUME NEW a \in Answers, a.kind = "created"
  PROVE  a.loan \in Calls
  BY DEF Answers, Refusals

\* A call under way has arguments.
LEMMA ArgKnown ==
  ASSUME IInv, NEW c \in Calls, call[c] # "idle"
  PROVE  arg[c] \in Args /\ arg = [arg EXCEPT ![c] = arg[c]]
  BY DEF IInv, TypeOK, Recorded

-----------------------------------------------------------------------------
\* Steps of a call.

\* c, called with g, goes on.
LEMMA GoOnInv ==
  ASSUME IInv, NEW c \in Calls, NEW g \in Args, NEW s \in {"lookup", "check", "insert"},
         call[c] # "done", arg' = [arg EXCEPT ![c] = g], GoTo(c, s),
         s = "lookup" => g.key # NoKey,
         UNCHANGED <<loan, returnedAt, retVars>>
  PROVE  IInv'
<1> USE DEF IInv, TypeOK
<1>1. /\ call' = [call EXCEPT ![c] = s]
      /\ UNCHANGED <<answer, loan, returnedAt, ret, target, result>>
  BY DEF GoTo, retVars
<1>2. loan[c] = "NoRow" /\ answer[c] = NoAnswer
  BY DEF Recorded
<1>3. TypeOK'
  BY <1>1
<1>4. Recorded'
  BY <1>1, <1>2, LoanNulls DEF Recorded
<1>5. KeysUnique'
  BY <1>1, <1>2 DEF KeysUnique
<1>6. AnswersAreRows'
  BY <1>1, <1>2 DEF AnswersAreRows
<1>7. ReturnsReadRows'
  BY <1>1 DEF ReturnsReadRows
<1> QED BY <1>3, <1>4, <1>5, <1>6, <1>7

\* c, called with g, is answered a, and no row changes.
LEMMA ReplyInv ==
  ASSUME IInv, NEW c \in Calls, NEW g \in Args, NEW a \in Answers,
         call[c] # "done", arg' = [arg EXCEPT ![c] = g], Reply(c, a),
         a.kind = "created" => loan[a.loan] # "NoRow" /\ arg[a.loan].key = g.key,
         UNCHANGED <<loan, returnedAt, retVars>>
  PROVE  IInv'
<1> USE DEF IInv, TypeOK
<1>1. /\ call' = [call EXCEPT ![c] = "done"]
      /\ answer' = [answer EXCEPT ![c] = a]
      /\ UNCHANGED <<loan, returnedAt, ret, target, result>>
  BY DEF Reply, retVars
<1>2. loan[c] = "NoRow" /\ answer[c] = NoAnswer
  BY DEF Recorded
<1>3. TypeOK'
  BY <1>1
<1>4. Recorded'
  BY <1>1, <1>2, LoanNulls DEF Recorded
<1>5. KeysUnique'
  BY <1>1, <1>2 DEF KeysUnique
<1>6. AnswersAreRows'
  <2> SUFFICES ASSUME NEW d \in Calls, answer'[d] # NoAnswer, answer'[d].kind = "created"
               PROVE  /\ loan[answer'[d].loan] # "NoRow"
                      /\ arg'[answer'[d].loan].key = arg'[d].key
    BY <1>1 DEF AnswersAreRows
  <2>1. CASE d = c
    <3>1. answer'[d] = a /\ a.loan \in Calls
      BY <1>1, <2>1, LoanOfAnswer
    <3>2. a.loan # c
      BY <1>2, <2>1, <3>1
    <3> QED BY <2>1, <3>1, <3>2
  <2>2. CASE d # c
    <3>1. answer'[d] = answer[d] /\ answer[d].loan \in Calls
      BY <1>1, <2>2, LoanOfAnswer
    <3>2. answer[d].loan # c
      BY <1>2, <3>1 DEF AnswersAreRows
    <3> QED BY <2>2, <3>1, <3>2 DEF AnswersAreRows
  <2> QED BY <2>1, <2>2
<1>7. ReturnsReadRows'
  BY <1>1 DEF ReturnsReadRows
<1> QED BY <1>3, <1>4, <1>5, <1>6, <1>7

LEMMA ErrorIsAnswer ==
  ASSUME NEW e \in Refusals \cup {"internalError"}
  PROVE  Error(e) \in Answers /\ Error(e).kind = e /\ Error(e).kind # "created"
  BY DEF Error, Answers, Refusals

LEMMA AcceptInv ==
  ASSUME IInv, NEW c \in Calls, NEW a \in Args, Accept(c, a)
  PROVE  IInv'
<1>1. /\ call[c] = "idle" /\ arg' = [arg EXCEPT ![c] = a]
      /\ UNCHANGED <<loan, returnedAt, retVars>>
  BY DEF Accept
<1>2. CASE Reply(c, Error("invalidInput"))
  BY <1>1, <1>2, ErrorIsAnswer, ReplyInv DEF Refusals
<1>3. CASE \/ a.key # NoKey /\ GoTo(c, "lookup")
           \/ GoTo(c, "check")
  BY <1>1, <1>3, GoOnInv
<1> QED BY <1>2, <1>3 DEF Accept

LEMMA LookUpInv ==
  ASSUME IInv, NEW c \in Calls, LookUp(c)
  PROVE  IInv'
<1>1. call[c] = "lookup" /\ UNCHANGED <<arg, loan, returnedAt, retVars>>
  BY DEF LookUp
<1>2. arg[c] \in Args /\ arg' = [arg EXCEPT ![c] = arg[c]]
  BY <1>1, ArgKnown
<1>3. ASSUME NEW d \in KeyHolders(arg[c].key), Reply(c, Created(d, loan[d]))
      PROVE  IInv'
  <2>1. d \in Calls /\ loan[d] # "NoRow" /\ arg[d].key = arg[c].key
    BY DEF KeyHolders
  <2>2. Created(d, loan[d]) \in Answers /\ Created(d, loan[d]).loan = d
    BY <2>1 DEF Created, Answers, IInv, TypeOK
  <2> QED BY <1>1, <1>2, <1>3, <2>1, <2>2, ReplyInv
<1>4. CASE \E e \in {"idempotencyConflict", "internalError"} : Reply(c, Error(e))
  BY <1>1, <1>2, <1>4, ErrorIsAnswer, ReplyInv DEF Refusals
<1>5. CASE GoTo(c, "check")
  BY <1>1, <1>2, <1>5, GoOnInv
<1> QED BY <1>3, <1>4, <1>5 DEF LookUp

LEMMA AskCatalogInv ==
  ASSUME IInv, NEW c \in Calls, NEW a, AskCatalog(c, a)
  PROVE  IInv'
<1>1. call[c] = "check" /\ UNCHANGED <<arg, loan, returnedAt, retVars>>
  BY DEF AskCatalog
<1>2. arg[c] \in Args /\ arg' = [arg EXCEPT ![c] = arg[c]]
  BY <1>1, ArgKnown
<1>3. CASE \E e \in {"bookUnavailable", "bookNotFound", "catalogUnavailable"} :
             Reply(c, Error(e))
  BY <1>1, <1>2, <1>3, ErrorIsAnswer, ReplyInv DEF Refusals
<1>4. CASE GoTo(c, "insert")
  BY <1>1, <1>2, <1>4, GoOnInv
<1> QED BY <1>3, <1>4 DEF AskCatalog

\* The index: no row has the key of the new one.
LEMMA InsertInv ==
  ASSUME IInv, NEW c \in Calls, NEW acked, Insert(c, acked)
  PROVE  IInv'
<1> USE DEF IInv, TypeOK
<1> DEFINE a == IF acked THEN Created(c, "active") ELSE Error("internalError")
<1>1. /\ call[c] = "insert" /\ KeyFree(c)
      /\ call' = [call EXCEPT ![c] = "done"]
      /\ loan' = [loan EXCEPT ![c] = "active"]
      /\ answer' = [answer EXCEPT ![c] = a]
      /\ UNCHANGED <<arg, returnedAt, ret, target, result>>
  BY DEF Insert, Reply, retVars
<1>2. loan[c] = "NoRow" /\ arg[c] # NoArg
  BY <1>1 DEF Recorded
<1>3. a \in Answers /\ (a.kind = "created" => a.loan = c)
  BY ErrorIsAnswer DEF Created, Answers, LoanStatus
<1> HIDE DEF a
<1>4. TypeOK'
  BY <1>1, <1>3 DEF LoanStatus
<1>5. Recorded'
  BY <1>1, <1>2 DEF Recorded
<1>6. KeysUnique'
  <2>1. \A d \in Calls : loan[d] # "NoRow" /\ arg[c].key # NoKey => arg[d].key # arg[c].key
    BY <1>1 DEF KeyFree, KeyHolders
  <2> QED BY <1>1, <2>1 DEF KeysUnique
<1>7. AnswersAreRows'
  <2>1. \A d \in Calls \ {c} : answer'[d] = answer[d]
    BY <1>1
  <2>2. answer'[c] = a
    BY <1>1
  <2>3. \A d \in Calls : loan[d] # "NoRow" => loan'[d] # "NoRow"
    BY <1>1
  <2>4. \A d \in Calls : answer[d] # NoAnswer /\ answer[d].kind = "created" =>
                           answer[d].loan \in Calls
    BY LoanOfAnswer
  <2>5. loan'[c] # "NoRow"
    BY <1>1
  <2> QED BY <1>1, <1>3, <2>1, <2>2, <2>3, <2>4, <2>5 DEF AnswersAreRows
<1>8. ReturnsReadRows'
  BY <1>1 DEF ReturnsReadRows
<1> QED BY <1>4, <1>5, <1>6, <1>7, <1>8

LEMMA InsertFailsInv ==
  ASSUME IInv, NEW c \in Calls, InsertFails(c)
  PROVE  IInv'
<1>1. /\ call[c] = "insert" /\ UNCHANGED <<arg, loan, returnedAt, retVars>>
      /\ Reply(c, Error("internalError"))
  BY DEF InsertFails
<1> QED BY <1>1, ArgKnown, ErrorIsAnswer, ReplyInv

-----------------------------------------------------------------------------
\* Steps of a return, and the end of the process.

LEMMA ReadLoanInv ==
  ASSUME IInv, NEW x \in Returns, NEW d \in Calls \cup {NilId}, ReadLoan(x, d)
  PROVE  IInv'
<1> USE DEF IInv, TypeOK
<1>1. /\ UNCHANGED <<call, arg, answer, loan, returnedAt>>
      /\ target' = [target EXCEPT ![x] = d]
      /\ \/ /\ ret' = [ret EXCEPT ![x] = "done"]
            /\ \E o \in Results : result' = [result EXCEPT ![x] = o]
         \/ /\ d \in Calls /\ loan[d] = "active"
            /\ ret' = [ret EXCEPT ![x] = "save"] /\ result' = result
  BY DEF ReadLoan, Finish, callVars, Results
<1>2. TypeOK'
  BY <1>1
<1>3. Recorded' /\ KeysUnique' /\ AnswersAreRows'
  BY <1>1 DEF Recorded, KeysUnique, AnswersAreRows
<1>4. ReturnsReadRows'
  BY <1>1 DEF ReturnsReadRows
<1> QED BY <1>2, <1>3, <1>4

LEMMA SaveInv ==
  ASSUME IInv, NEW x \in Returns, (\E acked \in LoanAcks : SaveLoan(x, acked)) \/ SaveFails(x)
  PROVE  IInv'
<1> USE DEF IInv, TypeOK
<1>1. /\ ret[x] = "save" /\ ret' = [ret EXCEPT ![x] = "done"]
      /\ \E o \in Results : result' = [result EXCEPT ![x] = o]
      /\ UNCHANGED <<call, arg, answer, target>>
      /\ \/ UNCHANGED <<loan, returnedAt>>
         \/ /\ loan' = [loan EXCEPT ![target[x]] = "returned"]
            /\ returnedAt' = [returnedAt EXCEPT ![target[x]] = x]
  BY DEF SaveLoan, SaveFails, Finish, callVars, Results
<1>2. target[x] \in Calls /\ loan[target[x]] # "NoRow"
  BY <1>1 DEF ReturnsReadRows
<1>3. \A d \in Calls : loan'[d] = "NoRow" <=> loan[d] = "NoRow"
  BY <1>1, <1>2
<1>4. TypeOK'
  BY <1>1, <1>2 DEF LoanStatus
<1>5. Recorded' /\ KeysUnique'
  BY <1>1, <1>3 DEF Recorded, KeysUnique
<1>6. AnswersAreRows'
  <2>1. \A c \in Calls : answer[c] # NoAnswer /\ answer[c].kind = "created" =>
                           answer[c].loan \in Calls
    BY LoanOfAnswer
  <2> QED BY <1>1, <1>3, <2>1 DEF AnswersAreRows
<1>7. ReturnsReadRows'
  BY <1>1, <1>3 DEF ReturnsReadRows
<1> QED BY <1>4, <1>5, <1>6, <1>7

LEMMA CutOffInv ==
  ASSUME IInv, CutOff
  PROVE  IInv'
<1> USE DEF IInv, TypeOK
<1>1. /\ \A c \in Calls : \/ call'[c] = call[c]
                          \/ /\ call[c] \in {"lookup", "check", "insert"}
                             /\ call'[c] = "lost"
      /\ \A x \in Returns : ret'[x] \in {ret[x], "lost"}
      /\ UNCHANGED <<arg, loan, returnedAt, answer, target, result>>
  BY DEF CutOff, CallInFlight, ReturnInFlight
<1>2. TypeOK'
  BY <1>1 DEF CutOff
<1>3. Recorded' /\ KeysUnique' /\ AnswersAreRows'
  BY <1>1 DEF Recorded, KeysUnique, AnswersAreRows
<1>4. ReturnsReadRows'
  BY <1>1 DEF ReturnsReadRows
<1> QED BY <1>2, <1>3, <1>4

-----------------------------------------------------------------------------
LEMMA StepInv ==
  ASSUME IInv, [Steps]_vars
  PROVE  IInv'
<1>1. CASE UNCHANGED vars
  BY <1>1 DEF vars, IInv, TypeOK, Recorded, KeysUnique, AnswersAreRows, ReturnsReadRows
<1>2. ASSUME NEW c \in Calls, NEW a \in Args, Accept(c, a)
      PROVE  IInv'
  BY <1>2, AcceptInv
<1>3. ASSUME NEW c \in Calls, CallStep(c)
      PROVE  IInv'
  BY <1>3, LookUpInv, AskCatalogInv, InsertInv, InsertFailsInv DEF CallStep
<1>4. ASSUME NEW x \in Returns, NEW d \in Calls \cup {NilId}, ReadLoan(x, d)
      PROVE  IInv'
  BY <1>4, ReadLoanInv
<1>5. ASSUME NEW x \in Returns, ReturnStep(x)
      PROVE  IInv'
  BY <1>5, SaveInv DEF ReturnStep
<1>6. CASE CutOff
  BY <1>6, CutOffInv
<1> QED BY <1>1, <1>2, <1>3, <1>4, <1>5, <1>6 DEF Steps, Next, LoanCrash

\* The inductive invariant holds in every reachable state of the service.
THEOREM LoanInvariance == Spec => []IInv
<1>1. IInv /\ [Next]_vars => IInv'
  BY StepInv DEF Steps
<1> QED BY InitInv, <1>1, PTL DEF Spec

LEMMA InvOneLoan == IInv => SameKeySameLoan
<1> SUFFICES ASSUME IInv, NEW c \in Calls, NEW d \in Calls,
                    answer[c] # NoAnswer, answer[c].kind = "created",
                    answer[d] # NoAnswer, answer[d].kind = "created",
                    arg[c].key = arg[d].key, arg[c].key # NoKey
             PROVE  answer[c].loan = answer[d].loan
  BY DEF SameKeySameLoan
<1>1. answer[c].loan \in Calls /\ answer[d].loan \in Calls
  BY LoanOfAnswer DEF IInv, TypeOK
<1> QED BY <1>1 DEF IInv, AnswersAreRows, KeysUnique

\* Every variable of LoanService keeps its type: RegisterLoan answers with a
\* loan or one of the errors it documents, RegisterReturn likewise.
THEOREM LoansTyped == Spec => []TypeOK
  BY LoanInvariance, PTL DEF IInv

\* Calls with one idempotency key that are answered with a loan are answered
\* with the same one, however many race through the look-up of RegisterLoan.
THEOREM OneLoanPerKey == Spec => []SameKeySameLoan
  BY LoanInvariance, InvOneLoan, PTL

-----------------------------------------------------------------------------
(***************************************************************************)
(* LoanService implements LoanRegistry.  A call is asked when it arrives,  *)
(* and decided at the step that answers it: what lies between is a stutter *)
(* for the registry, and so is a second return of a loan.                  *)
(***************************************************************************)
verdict == [c \in Calls |-> Verdict(c)]
registry_bar == <<arg, loan, verdict>>

LEMMA RegistryInit == Init => Registry!Init
  BY DEF Init, Registry!Init, Verdict

\* A step that answers no one leaves every verdict.
LEMMA SameVerdict ==
  ASSUME answer' = answer
  PROVE  verdict' = verdict
  BY DEF verdict, Verdict

\* What an answer is to the registry.
VerdictOf(a) ==
  IF a.kind = "created" THEN a.loan
  ELSE IF a.kind = "internalError" THEN "failed"
  ELSE "refused"

LEMMA NewVerdict ==
  ASSUME IInv, NEW c \in Calls, NEW a \in Answers, Reply(c, a)
  PROVE  verdict' = [verdict EXCEPT ![c] = VerdictOf(a)]
<1>1. /\ \A d \in Calls \ {c} : answer'[d] = answer[d]
      /\ answer'[c] = a /\ a # NoAnswer
  BY LoanNulls DEF Reply, IInv, TypeOK
<1> QED BY <1>1 DEF verdict, Verdict, VerdictOf

\* An error refuses the call or fails it.
LEMMA ErrorVerdict ==
  ASSUME NEW e \in Refusals \cup {"internalError"}
  PROVE  /\ Error(e) \in Answers
         /\ VerdictOf(Error(e)) = IF e = "internalError" THEN "failed" ELSE "refused"
  BY ErrorIsAnswer DEF VerdictOf

\* A call under way was asked and has no verdict.
LEMMA UnderwayAsked ==
  ASSUME IInv, NEW c \in Calls, call[c] \notin {"idle", "done"}
  PROVE  Registry!Asked(c) /\ verdict[c] = "none" /\ arg[c] \in Args
BY ArgKnown DEF Registry!Asked, IInv, Recorded, verdict, Verdict

-----------------------------------------------------------------------------
LEMMA AcceptRefines ==
  ASSUME IInv, NEW c \in Calls, NEW a \in Args, Accept(c, a)
  PROVE  Registry!Ask(c, a)
<1>1. arg[c] = NoArg /\ arg' = [arg EXCEPT ![c] = a] /\ loan' = loan
  BY DEF Accept, IInv, Recorded
<1>2. CASE Reply(c, Error("invalidInput"))
  <2>1. verdict' = [verdict EXCEPT ![c] = "refused"]
    BY <1>2, ErrorVerdict, NewVerdict DEF Refusals
  <2> QED BY <1>1, <2>1 DEF Registry!Ask, verdict
<1>3. CASE \E s \in {"lookup", "check", "insert"} : GoTo(c, s)
  <2>1. verdict' = verdict
    BY <1>3, SameVerdict DEF GoTo
  <2> QED BY <1>1, <2>1 DEF Registry!Ask, verdict
<1> QED BY <1>2, <1>3 DEF Accept

\* A call under way that is answered with an error is declined.
LEMMA ErrorRefines ==
  ASSUME IInv, NEW c \in Calls, call[c] \notin {"idle", "done"},
         NEW e \in Refusals \cup {"internalError"}, Reply(c, Error(e)),
         UNCHANGED <<arg, loan>>
  PROVE  Registry!Decline(c)
<1>1. \E v \in {"refused", "failed"} : verdict' = [verdict EXCEPT ![c] = v]
  BY ErrorVerdict, NewVerdict
<1> QED BY <1>1, UnderwayAsked DEF Registry!Decline, verdict

LEMMA LookUpRefines ==
  ASSUME IInv, NEW c \in Calls, LookUp(c)
  PROVE  Registry!Next \/ UNCHANGED registry_bar
<1>1. call[c] = "lookup" /\ UNCHANGED <<arg, loan>>
  BY DEF LookUp
<1>2. ASSUME NEW d \in KeyHolders(arg[c].key), arg[c].key # NoKey, AsksTheSame(c, d),
             Reply(c, Created(d, loan[d]))
      PROVE  Registry!Replay(c, d) /\ d \in Calls
  <2>1. d \in Calls /\ loan[d] # "NoRow" /\ arg[d].key = arg[c].key
    BY DEF KeyHolders
  <2>2. Created(d, loan[d]) \in Answers /\ VerdictOf(Created(d, loan[d])) = d
    BY <2>1 DEF Created, Answers, IInv, TypeOK, VerdictOf
  <2>3. verdict' = [verdict EXCEPT ![c] = d]
    BY <1>2, <2>2, NewVerdict
  <2> QED BY <1>1, <1>2, <2>1, <2>3, UnderwayAsked
          DEF Registry!Replay, Registry!SameKey, AsksTheSame, verdict
<1>3. CASE \E e \in {"idempotencyConflict", "internalError"} : Reply(c, Error(e))
  BY <1>1, <1>3, ErrorRefines DEF Refusals, Registry!Next
<1>4. CASE GoTo(c, "check")
  BY <1>1, <1>4, SameVerdict DEF GoTo, registry_bar
<1>5. arg[c].key # NoKey
  BY <1>1 DEF IInv, Recorded
<1> QED BY <1>2, <1>3, <1>4, <1>5 DEF LookUp, Registry!Next

LEMMA AskCatalogRefines ==
  ASSUME IInv, NEW c \in Calls, NEW a, AskCatalog(c, a)
  PROVE  Registry!Next \/ UNCHANGED registry_bar
<1>1. call[c] = "check" /\ UNCHANGED <<arg, loan>>
  BY DEF AskCatalog
<1>2. CASE \E e \in {"bookUnavailable", "bookNotFound", "catalogUnavailable"} :
             Reply(c, Error(e))
  BY <1>1, <1>2, ErrorRefines DEF Refusals, Registry!Next
<1>3. CASE GoTo(c, "insert")
  BY <1>1, <1>3, SameVerdict DEF GoTo, registry_bar
<1> QED BY <1>2, <1>3 DEF AskCatalog

LEMMA InsertRefines ==
  ASSUME IInv, NEW c \in Calls, NEW acked, Insert(c, acked)
  PROVE  Registry!Register(c)
<1> DEFINE a == IF acked THEN Created(c, "active") ELSE Error("internalError")
<1>1. /\ call[c] = "insert" /\ KeyFree(c) /\ Reply(c, a)
      /\ loan' = [loan EXCEPT ![c] = "active"] /\ arg' = arg
  BY DEF Insert
<1>2. a \in Answers /\ VerdictOf(a) \in {c, "failed"}
  BY ErrorVerdict DEF Created, Answers, LoanStatus, VerdictOf
<1>3. \E v \in {c, "failed"} : verdict' = [verdict EXCEPT ![c] = v]
  BY <1>1, <1>2, NewVerdict
<1>4. \A d \in Calls \ {c} : loan[d] # "NoRow" => ~Registry!SameKey(c, d)
  BY <1>1 DEF KeyFree, KeyHolders, Registry!SameKey
<1> QED BY <1>1, <1>3, <1>4, UnderwayAsked DEF Registry!Register, verdict

\* Of two returns of one loan the second changes nothing here.
LEMMA SaveRefines ==
  ASSUME IInv, NEW x \in Returns, (\E acked \in LoanAcks : SaveLoan(x, acked)) \/ SaveFails(x)
  PROVE  Registry!Next \/ UNCHANGED registry_bar
<1>1. /\ ret[x] = "save" /\ UNCHANGED <<arg, answer>>
      /\ loan' = loan \/ loan' = [loan EXCEPT ![target[x]] = "returned"]
  BY DEF SaveLoan, SaveFails, callVars
<1>2. verdict' = verdict
  BY <1>1, SameVerdict
<1>3. target[x] \in Calls /\ loan[target[x]] \in {"active", "returned"}
  BY <1>1 DEF IInv, TypeOK, LoanStatus, ReturnsReadRows
<1>4. CASE loan' = [loan EXCEPT ![target[x]] = "returned"] /\ loan[target[x]] = "active"
  BY <1>1, <1>2, <1>3, <1>4 DEF Registry!GiveBack, Registry!Next, verdict
<1>5. CASE loan' = [loan EXCEPT ![target[x]] = "returned"] /\ loan[target[x]] = "returned"
  <2>1. loan' = loan
    BY <1>3, <1>5 DEF IInv, TypeOK
  <2> QED BY <1>1, <1>2, <2>1 DEF registry_bar
<1>6. CASE loan' = loan
  BY <1>1, <1>2, <1>6 DEF registry_bar
<1> QED BY <1>1, <1>3, <1>4, <1>5, <1>6

-----------------------------------------------------------------------------
LEMMA StepRefines ==
  ASSUME IInv, [Steps]_vars
  PROVE  Registry!Next \/ UNCHANGED registry_bar
<1>1. CASE UNCHANGED vars \/ CutOff
  BY <1>1, SameVerdict DEF vars, CutOff, registry_bar
<1>2. ASSUME NEW c \in Calls, NEW a \in Args, Accept(c, a)
      PROVE  Registry!Next
  BY <1>2, AcceptRefines DEF Registry!Next
<1>3. ASSUME NEW c \in Calls, CallStep(c)
      PROVE  Registry!Next \/ UNCHANGED registry_bar
  <2>1. CASE LookUp(c)
    BY <2>1, LookUpRefines
  <2>2. CASE \E a \in CatalogAnswers : AskCatalog(c, a)
    BY <2>2, AskCatalogRefines
  <2>3. CASE \E acked \in LoanAcks : Insert(c, acked)
    BY <2>3, InsertRefines DEF Registry!Next
  <2>4. CASE InsertFails(c)
    BY <2>4, ErrorRefines DEF InsertFails, Registry!Next
  <2> QED BY <1>3, <2>1, <2>2, <2>3, <2>4 DEF CallStep
<1>4. ASSUME NEW x \in Returns, NEW d \in Calls \cup {NilId}, ReadLoan(x, d)
      PROVE  UNCHANGED registry_bar
  BY <1>4, SameVerdict DEF ReadLoan, callVars, registry_bar
<1>5. ASSUME NEW x \in Returns, ReturnStep(x)
      PROVE  Registry!Next \/ UNCHANGED registry_bar
  BY <1>5, SaveRefines DEF ReturnStep
<1> QED BY <1>1, <1>2, <1>3, <1>4, <1>5 DEF Steps, Next, LoanCrash

\* The Loan Service implements LoanRegistry: whatever races and fails, a loan
\* answered is there and is what was asked for, a refusal has made none, a key
\* has one loan, and no return brings a loan back.
THEOREM RegistryKept == Spec => RegistrySpec
<1>1. IInv /\ [Next]_vars => [Registry!Next]_(Registry!registry)
  BY StepRefines DEF Steps, registry_bar, verdict, Registry!registry
<1> QED BY RegistryInit, LoanInvariance, <1>1, PTL DEF Spec, RegistrySpec, Registry!Spec
=============================================================================
