--------------------------- MODULE LibraryProofs ---------------------------
(***************************************************************************)
(* Proofs about Library, for all requests, direct calls and returns, over  *)
(* either transport and with whatever faults of the services and of the    *)
(* network between them: what a row shows, what a client that was refused  *)
(* has, and, while answers arrive, which row keeps a loan's copy.          *)
(***************************************************************************)
EXTENDS Library, FiniteSetTheorems, TLAPS

\* The components again, with what is proved of them.
CatalogProved == INSTANCE CatalogLedgerProofs WITH LoanIds <- Calls
LoansProved == INSTANCE LoanServiceProofs WITH BookIds <- Books, UserIds <- Users

LEMMA InitInv == Init => LibraryInv
<1> SUFFICES ASSUME Init PROVE LibraryInv
  OBVIOUS
<1> USE DEF Init, Catalog!Init, Loans!Init, Calls
<1>1. Shape
  BY DEF Shape
<1>2. ASSUME NEW r \in Requests PROVE SagaInv(r) /\ HeardInv(r) /\ ShownInv(r)
  BY DEF SagaInv, HeardInv, ShownInv, Catalog!Refusals
<1>3. ASSUME NEW c \in Calls PROVE CallInv(c)
  BY DEF CallInv
<1>4. ASSUME NEW x \in Returns PROVE ReturnInv(x)
  BY DEF ReturnInv
<1> QED BY <1>1, <1>2, <1>3, <1>4 DEF LibraryInv

-----------------------------------------------------------------------------
\* Steps of one saga.

\* r alone moves; the Loan Service stands still.
OnlySaga(r) ==
  /\ UNCHANGED loanVars
  /\ sent \subseteq sent' /\ sent' \subseteq sent \cup {r}
  /\ \A q \in Requests \ {r} :
       /\ pc'[q] = pc[q] /\ input'[q] = input[q] /\ status'[q] = status[q]
       /\ remoteLoanId'[q] = remoteLoanId[q] /\ remote'[q] = remote[q]
       /\ outcome'[q] = outcome[q]

\* It is enough that r itself is in order afterwards.
LEMMA SagaMoves ==
  ASSUME LibraryInv, NEW r \in Requests, OnlySaga(r), Shape',
         remoteLoanId[r] # NoLoan => remoteLoanId'[r] = remoteLoanId[r],
         SagaInv(r)', HeardInv(r)', ShownInv(r)'
  PROVE  LibraryInv'
<1>1. UNCHANGED <<call, arg, loan, answer, ret, target>>
  BY DEF OnlySaga, loanVars
<1>2. ASSUME NEW q \in Requests PROVE SagaInv(q)'
  <2>1. CASE q = r
    BY <2>1
  <2>2. CASE q # r
    BY <1>1, <2>2 DEF LibraryInv, OnlySaga, SagaInv, IsLoanOf
  <2> QED BY <2>1, <2>2
<1>3. ASSUME NEW q \in Requests PROVE HeardInv(q)' /\ ShownInv(q)'
  <2>1. CASE q = r
    BY <2>1
  <2>2. CASE q # r
    <3>1. HeardInv(q)'
      BY <1>1, <2>2 DEF LibraryInv, OnlySaga, HeardInv, AnswersArrive, NetFails
    <3>2. ASSUME \E p \in Requests : remoteLoanId[p] = q
          PROVE  \E p \in Requests : remoteLoanId'[p] = q
      BY <3>2, LibraryAssumption DEF OnlySaga, Calls
    <3>3. ShownInv(q)'
      BY <1>1, <2>2, <3>2 DEF LibraryInv, OnlySaga, ShownInv, AnswersArrive, NetFails
    <3> QED BY <3>1, <3>3
  <2> QED BY <2>1, <2>2
<1>4. ASSUME NEW c \in Calls PROVE CallInv(c)'
  BY <1>1 DEF LibraryInv, CallInv, IsLoanOf
<1>5. ASSUME NEW x \in Returns PROVE ReturnInv(x)'
  BY <1>1 DEF LibraryInv, ReturnInv
<1> QED BY <1>2, <1>3, <1>4, <1>5 DEF LibraryInv

LEMMA AdminInv ==
  ASSUME LibraryInv, Admin
  PROVE  LibraryInv'
<1>1. UNCHANGED <<pc, input, status, remoteLoanId, remote, outcome, sent,
                  call, arg, loan, answer, ret, target>>
  BY DEF Admin, CatalogOnly, loanVars, Catalog!Admin, Catalog!LookForIsbn,
         Catalog!InsertBook, Catalog!InsertBookFails, Catalog!UpdateBook,
         Catalog!DeleteBook, Catalog!RegisterUser, Catalog!DeleteUser
<1>2. Shape'
  BY <1>1 DEF LibraryInv, Shape
<1>3. ASSUME NEW r \in Requests PROVE SagaInv(r)' /\ HeardInv(r)' /\ ShownInv(r)'
  <2>1. SagaInv(r) /\ HeardInv(r) /\ ShownInv(r)
    BY DEF LibraryInv
  <2>2. SagaInv(r)'
    BY <1>1, <2>1 DEF SagaInv, IsLoanOf
  <2>3. HeardInv(r)'
    BY <1>1, <2>1 DEF HeardInv, AnswersArrive, NetFails
  <2>4. ShownInv(r)'
    BY <1>1, <2>1 DEF ShownInv, AnswersArrive, NetFails
  <2> QED BY <2>2, <2>3, <2>4
<1>4. ASSUME NEW c \in Calls PROVE CallInv(c)'
  BY <1>1 DEF LibraryInv, CallInv, IsLoanOf
<1>5. ASSUME NEW x \in Returns PROVE ReturnInv(x)'
  BY <1>1 DEF LibraryInv, ReturnInv
<1> QED BY <1>2, <1>3, <1>4, <1>5 DEF LibraryInv

\* A request that arrives has sent nothing.
LEMMA ArriveInv ==
  ASSUME LibraryInv, NEW r \in Requests, Arrive(r)
  PROVE  LibraryInv'
<1>1. /\ pc[r] = "idle"
      /\ UNCHANGED <<status, remoteLoanId, remote, loanVars, sent>>
      /\ \E i : input' = [input EXCEPT ![r] = i]
      /\ \E s \in {"precheck", "done"} : pc' = [pc EXCEPT ![r] = s]
      /\ \/ outcome' = outcome
         \/ pc' = [pc EXCEPT ![r] = "done"] /\ \E o : outcome' = [outcome EXCEPT ![r] = o]
  BY DEF Arrive, CatalogOnly, Catalog!Arrive, Catalog!Begin, Catalog!Answer, Catalog!GoTo
<1>2. /\ r \notin sent /\ call[r] = "idle" /\ loan[r] = "NoRow"
      /\ remoteLoanId[r] = NoLoan /\ remote[r] = NoReply
      /\ AnswersArrive => status[r] # "ROLLED_BACK"
  BY <1>1 DEF LibraryInv, SagaInv, HeardInv, CallInv, Calls
<1>3. OnlySaga(r) /\ Shape'
  BY <1>1 DEF OnlySaga, LibraryInv, Shape, loanVars
<1>4. SagaInv(r)'
  BY <1>1, <1>2, <1>3 DEF LibraryInv, Shape, SagaInv, loanVars
<1>5. HeardInv(r)' /\ ShownInv(r)'
  BY <1>1, <1>2, <1>3
  DEF LibraryInv, Shape, HeardInv, ShownInv, AnswersArrive, NetFails, loanVars
<1> QED BY <1>1, <1>3, <1>4, <1>5, SagaMoves

\* Before its transaction a saga has sent nothing either.
LEMMA EarlyInv ==
  ASSUME LibraryInv, NEW r \in Requests,
         PreCheck(r) \/ (Catalog!ReserveRolledBack(r) /\ CatalogOnly)
  PROVE  LibraryInv'
<1>1. /\ pc[r] \in {"precheck", "reserve"}
      /\ UNCHANGED <<input, status, remoteLoanId, remote, loanVars, sent>>
      /\ \E s \in {"reserve", "done"} : pc' = [pc EXCEPT ![r] = s]
      /\ \/ outcome' = outcome
         \/ pc' = [pc EXCEPT ![r] = "done"] /\ \E o : outcome' = [outcome EXCEPT ![r] = o]
  BY DEF PreCheck, CatalogOnly, Catalog!PreCheck, Catalog!ReserveRolledBack,
         Catalog!Answer, Catalog!GoTo
<1>2. /\ r \notin sent /\ call[r] = "idle" /\ loan[r] = "NoRow"
      /\ remoteLoanId[r] = NoLoan /\ remote[r] = NoReply
      /\ AnswersArrive => status[r] # "ROLLED_BACK"
  BY <1>1 DEF LibraryInv, SagaInv, HeardInv, CallInv, Calls
<1>3. OnlySaga(r) /\ Shape'
  BY <1>1 DEF OnlySaga, LibraryInv, Shape, loanVars
<1>4. SagaInv(r)'
  BY <1>1, <1>2, <1>3 DEF LibraryInv, Shape, SagaInv, loanVars
<1>5. HeardInv(r)' /\ ShownInv(r)'
  BY <1>1, <1>2, <1>3
  DEF LibraryInv, Shape, HeardInv, ShownInv, AnswersArrive, NetFails, loanVars
<1> QED BY <1>1, <1>3, <1>4, <1>5, SagaMoves

\* The POST is sent.
LEMMA ReserveInv ==
  ASSUME LibraryInv, NEW r \in Requests, Reserve(r)
  PROVE  LibraryInv'
<1>1. /\ pc[r] = "reserve"
      /\ UNCHANGED <<input, remoteLoanId, remote, loanVars>>
      /\ status' = [status EXCEPT ![r] = "PENDING"]
      /\ \/ /\ pc' = [pc EXCEPT ![r] = "remote"] /\ outcome' = outcome
            /\ sent' = sent \cup {r}
         \/ /\ pc' = [pc EXCEPT ![r] = "done"]
            /\ outcome' = [outcome EXCEPT ![r] = "internalError"]
            /\ sent' = sent
  BY DEF Reserve, CatalogOnly, Catalog!Reserve, Catalog!Answer, Catalog!GoTo
<1>2. /\ r \notin sent /\ call[r] = "idle" /\ loan[r] = "NoRow"
      /\ remoteLoanId[r] = NoLoan /\ remote[r] = NoReply
      /\ AnswersArrive => status[r] # "ROLLED_BACK"
  BY <1>1 DEF LibraryInv, SagaInv, HeardInv, CallInv, Calls
<1>3. OnlySaga(r) /\ Shape'
  BY <1>1 DEF OnlySaga, LibraryInv, Shape, loanVars
<1>4. SagaInv(r)'
  BY <1>1, <1>2, <1>3 DEF LibraryInv, Shape, SagaInv, loanVars, Catalog!Refusals
<1>5. HeardInv(r)' /\ ShownInv(r)'
  <2>1. /\ status'[r] = "PENDING" /\ call'[r] = "idle" /\ loan'[r] = "NoRow"
        /\ \/ pc'[r] = "remote"
           \/ pc'[r] = "done" /\ r \notin sent'
    BY <1>1, <1>2 DEF LibraryInv, Shape, loanVars
  <2> QED BY <2>1 DEF HeardInv, ShownInv, AnswersArrive, NetFails
<1> QED BY <1>1, <1>3, <1>4, <1>5, SagaMoves

\* What the saga takes from the answer is a loan that it could have made, and
\* its own if it made one.
LEMMA HearInv ==
  ASSUME LibraryInv, NEW r \in Requests, Hear(r)
  PROVE  LibraryInv'
<1>0. r \in Calls
  BY DEF Calls
<1>1. /\ pc[r] = "remote" /\ call[r] = "done"
      /\ UNCHANGED <<input, status, remoteLoanId, outcome, loanVars, sent>>
      /\ \/ /\ answer[r].kind = "created"
            /\ remote' = [remote EXCEPT ![r] = RemoteReply(answer[r])]
            /\ pc' = [pc EXCEPT ![r] = "finalize"]
         \/ /\ answer[r].kind # "created" /\ remote' = remote
            /\ pc' = [pc EXCEPT ![r] = "compensate"]
  BY DEF Hear, CatalogOnly, Catalog!RemoteReturns, Catalog!RemoteThrows, Catalog!GoTo
<1>2. /\ arg[r] = input[r] /\ r \in sent /\ status[r] # "NoRow"
      /\ remoteLoanId[r] = NoLoan
      /\ outcome[r] \notin Catalog!Refusals
      /\ remote[r] # NoReply => IsLoanOf(remote[r].loanId, input[r])
      /\ answer[r].kind = "created" => IsLoanOf(answer[r].loan, input[r])
  BY <1>0, <1>1 DEF LibraryInv, SagaInv, CallInv
<1>3. OnlySaga(r) /\ Shape'
  BY <1>1 DEF OnlySaga, LibraryInv, Shape, loanVars
<1>4. /\ RemoteReply(answer[r]).loanId = answer[r].loan
      /\ answer[r].loan \in Calls => RemoteReply(answer[r]) \in Catalog!Replies
  BY DEF RemoteReply, Catalog!Replies, Catalog!RemoteStatus
<1>5. /\ pc'[r] \in {"finalize", "compensate"}
      /\ input'[r] = input[r] /\ status'[r] = status[r] /\ outcome'[r] = outcome[r]
      /\ remoteLoanId'[r] = NoLoan /\ r \in sent'
      /\ call'[r] = "done" /\ arg'[r] = input'[r] /\ loan' = loan /\ answer' = answer
      /\ arg' = arg
      /\ pc'[r] = "finalize" => /\ answer[r].kind = "created"
                                /\ remote'[r] = RemoteReply(answer[r])
      /\ pc'[r] = "compensate" => answer[r].kind # "created" /\ remote'[r] = remote[r]
  BY <1>1, <1>2 DEF LibraryInv, Shape, loanVars
<1>6. IsLoanOf(answer[r].loan, input[r]) => answer[r].loan \in Calls
  BY DEF IsLoanOf
<1>7. ASSUME remote'[r] # NoReply PROVE IsLoanOf(remote[r].loanId, input[r])'
  BY <1>2, <1>4, <1>5, <1>7 DEF IsLoanOf
<1>8. SagaInv(r)'
  BY <1>2, <1>4, <1>5, <1>6, <1>7 DEF SagaInv
<1>9. HeardInv(r)' /\ ShownInv(r)'
  <2>1. HeardInv(r) /\ ShownInv(r)
    BY DEF LibraryInv
  <2> QED BY <1>1, <1>4, <1>5, <2>1 DEF HeardInv, ShownInv, AnswersArrive, NetFails
<1> QED BY <1>1, <1>3, <1>8, <1>9, SagaMoves

\* Only if answers may be lost does a saga give up before it has its own.
LEMMA GiveUpInv ==
  ASSUME LibraryInv, NEW r \in Requests, GiveUp(r)
  PROVE  LibraryInv'
<1>1. /\ pc[r] = "remote"
      /\ NetFails \/ call[r] = "lost"
      /\ UNCHANGED <<input, status, remoteLoanId, remote, outcome, loanVars, sent>>
      /\ pc' = [pc EXCEPT ![r] = "compensate"]
  BY DEF GiveUp, CatalogOnly, Catalog!RemoteThrows, Catalog!GoTo
<1>2. OnlySaga(r) /\ Shape'
  BY <1>1 DEF OnlySaga, LibraryInv, Shape, loanVars
<1>3. SagaInv(r)'
  BY <1>1, <1>2 DEF LibraryInv, Shape, SagaInv, IsLoanOf, loanVars
<1>4. ~AnswersArrive
  BY <1>1 DEF LibraryInv, HeardInv, AnswersArrive
<1>5. HeardInv(r)' /\ ShownInv(r)'
  BY <1>4 DEF HeardInv, ShownInv, AnswersArrive, NetFails
<1> QED BY <1>1, <1>2, <1>3, <1>5, SagaMoves

\* The row takes the loan.
LEMMA FinalizeInv ==
  ASSUME LibraryInv, NEW r \in Requests, NEW acked,
         Catalog!Finalize(r, acked), CatalogOnly
  PROVE  LibraryInv'
<1>1. /\ pc[r] = "finalize"
      /\ UNCHANGED <<input, remote, loanVars, sent>>
      /\ status' = [status EXCEPT ![r] = remote[r].status]
      /\ remoteLoanId' = [remoteLoanId EXCEPT ![r] = remote[r].loanId]
      /\ pc' = [pc EXCEPT ![r] = "done"]
      /\ \E o \in {"created", "internalError"} : outcome' = [outcome EXCEPT ![r] = o]
  BY DEF CatalogOnly, Catalog!Finalize, Catalog!Answer
<1>2. /\ remoteLoanId[r] = NoLoan
      /\ remote[r] \in Catalog!Replies /\ remote[r] # NoReply
      /\ IsLoanOf(remote[r].loanId, input[r])
  BY <1>1, ComponentAssumption DEF LibraryInv, SagaInv
<1>3. remote[r].status \notin {"NoRow", "ROLLED_BACK"}
  BY <1>2 DEF Catalog!Replies, Catalog!RemoteStatus
<1>4. OnlySaga(r) /\ Shape'
  BY <1>1 DEF OnlySaga, LibraryInv, Shape, loanVars
<1>5. SagaInv(r)'
  BY <1>1, <1>2, <1>3, <1>4
  DEF LibraryInv, Shape, SagaInv, IsLoanOf, loanVars, Catalog!Refusals
<1>6. HeardInv(r)' /\ ShownInv(r)'
  <2>1. HeardInv(r) /\ ShownInv(r)
    BY DEF LibraryInv
  <2>2. /\ pc'[r] = "done" /\ status'[r] = remote[r].status
        /\ remoteLoanId'[r] = remote[r].loanId /\ sent' = sent
        /\ call' = call /\ loan' = loan /\ answer' = answer
    BY <1>1 DEF LibraryInv, Shape, loanVars
  <2> QED BY <1>1, <1>3, <2>1, <2>2 DEF HeardInv, ShownInv, AnswersArrive, NetFails
<1> QED BY <1>1, <1>2, <1>4, <1>5, <1>6, SagaMoves

\* If only acknowledgements get lost, it cannot only when another row shows
\* that loan.
LEMMA FinalizeFailsInv ==
  ASSUME LibraryInv, NEW r \in Requests, Catalog!FinalizeFails(r), CatalogOnly
  PROVE  LibraryInv'
<1>1. /\ pc[r] = "finalize"
      /\ UNCHANGED <<input, status, remoteLoanId, remote, loanVars, sent>>
      /\ pc' = [pc EXCEPT ![r] = "done"]
      /\ outcome' = [outcome EXCEPT ![r] = "internalError"]
  BY DEF CatalogOnly, Catalog!FinalizeFails, Catalog!Answer
<1>2. OnlySaga(r) /\ Shape'
  BY <1>1 DEF OnlySaga, LibraryInv, Shape, loanVars
<1>3. SagaInv(r)'
  BY <1>1, <1>2 DEF LibraryInv, Shape, SagaInv, IsLoanOf, loanVars, Catalog!Refusals
<1>4. "db" \notin Faults => \E q \in Requests : remoteLoanId[q] = remote[r].loanId
  BY DEF Catalog!FinalizeFails, Catalog!RemoteIdFree
<1>5. HeardInv(r)' /\ ShownInv(r)'
  <2>1. HeardInv(r) /\ ShownInv(r)
    BY DEF LibraryInv
  <2>2. /\ pc'[r] = "done" /\ status' = status /\ remoteLoanId' = remoteLoanId
        /\ sent' = sent /\ call' = call /\ loan' = loan /\ answer' = answer
    BY <1>1 DEF LibraryInv, Shape, loanVars
  <2> QED BY <1>1, <1>4, <2>1, <2>2 DEF HeardInv, ShownInv, AnswersArrive, NetFails
<1> QED BY <1>1, <1>2, <1>3, <1>5, SagaMoves

LEMMA CompensateInv ==
  ASSUME LibraryInv, NEW r \in Requests,
         Catalog!Compensate(r) \/ Catalog!CompensateFails(r), CatalogOnly
  PROVE  LibraryInv'
<1>1. /\ pc[r] = "compensate"
      /\ UNCHANGED <<input, remoteLoanId, remote, loanVars, sent>>
      /\ status' = status \/ status' = [status EXCEPT ![r] = "ROLLED_BACK"]
      /\ pc' = [pc EXCEPT ![r] = "done"]
      /\ outcome' = [outcome EXCEPT ![r] = "serviceUnavailable"]
  BY DEF CatalogOnly, Catalog!Compensate, Catalog!CompensateFails, Catalog!MarkRolledBack,
         Catalog!Answer
<1>2. OnlySaga(r) /\ Shape'
  BY <1>1 DEF OnlySaga, LibraryInv, Shape, loanVars
<1>3. SagaInv(r)'
  BY <1>1, <1>2 DEF LibraryInv, Shape, SagaInv, IsLoanOf, loanVars, Catalog!Refusals
<1>4. HeardInv(r)' /\ ShownInv(r)'
  BY <1>1, <1>2 DEF LibraryInv, Shape, HeardInv, ShownInv, AnswersArrive, NetFails, loanVars
<1> QED BY <1>1, <1>2, <1>3, <1>4, SagaMoves

\* What a saga that died held of an answer died with it.
LEMMA CatalogCrashInv ==
  ASSUME LibraryInv, CatalogCrash
  PROVE  LibraryInv'
<1>1. /\ UNCHANGED <<input, status, remoteLoanId, outcome, sent,
                     call, arg, loan, answer, ret, target>>
      /\ DOMAIN pc' = Requests /\ DOMAIN remote' = Requests
      /\ \A r \in Requests : \/ pc'[r] = pc[r] /\ remote'[r] = remote[r]
                             \/ /\ pc[r] \notin {"idle", "done"} /\ pc'[r] = "lost"
                                /\ remote'[r] = NoReply
      /\ "crash" \in Faults
  BY DEF CatalogCrash, CatalogOnly, loanVars, Catalog!Crash, Catalog!InFlight
<1>2. Shape'
  BY <1>1 DEF LibraryInv, Shape
<1>3. ASSUME NEW r \in Requests PROVE SagaInv(r)' /\ HeardInv(r)' /\ ShownInv(r)'
  <2>1. SagaInv(r) /\ HeardInv(r) /\ ShownInv(r)
    BY DEF LibraryInv
  <2>2. SagaInv(r)'
    BY <1>1, <2>1 DEF SagaInv, IsLoanOf
  <2>3. HeardInv(r)'
    BY <1>1, <2>1 DEF HeardInv, AnswersArrive, NetFails
  <2>4. ShownInv(r)'
    BY <1>1, <2>1 DEF ShownInv, AnswersArrive, NetFails
  <2> QED BY <2>2, <2>3, <2>4
<1>4. ASSUME NEW c \in Calls PROVE CallInv(c)'
  BY <1>1 DEF LibraryInv, CallInv, IsLoanOf
<1>5. ASSUME NEW x \in Returns PROVE ReturnInv(x)'
  BY <1>1 DEF LibraryInv, ReturnInv
<1> QED BY <1>2, <1>3, <1>4, <1>5 DEF LibraryInv

-----------------------------------------------------------------------------
\* Steps of one call of the Loan Service.

\* c alone moves; the Catalog Service stands still, and so do the returns.
OnlyCall(c) ==
  /\ UNCHANGED <<sagaVars, sent, ret, target>>
  /\ \A d \in Calls \ {c} :
       /\ call'[d] = call[d] /\ arg'[d] = arg[d]
       /\ loan'[d] = loan[d] /\ answer'[d] = answer[d]

\* A call that is under way has made no loan, so none is lost from sight, and
\* while answers arrive its saga waits for it or has died.
LEMMA CallMoves ==
  ASSUME LibraryInv, NEW c \in Calls, call[c] # "done", OnlyCall(c), Shape', CallInv(c)',
         c \in Requests => c \in sent /\ arg'[c] = input[c],
         AnswersArrive =>
           /\ call'[c] # "lost"
           /\ loan'[c] # "NoRow" => answer'[c].kind = "created" /\ answer'[c].loan = c
  PROVE  LibraryInv'
<1>1. UNCHANGED <<pc, input, status, remoteLoanId, remote, outcome, sent, ret, target>>
  BY DEF OnlyCall, sagaVars
<1>2. loan[c] = "NoRow"
  BY DEF LibraryInv, CallInv
<1>3. ASSUME NEW d, NEW a, IsLoanOf(d, a)
      PROVE  /\ d \in Calls /\ loan'[d] # "NoRow"
             /\ arg'[d].book = a.book /\ arg'[d].user = a.user /\ arg'[d].key = a.key
  BY <1>2, <1>3 DEF IsLoanOf, OnlyCall
<1>4. ASSUME NEW r \in Requests PROVE SagaInv(r)'
  <2>1. SagaInv(r)
    BY DEF LibraryInv
  <2>2. call'[r] # "idle" => r \in sent' /\ arg'[r] = input'[r]
    <3>1. CASE r = c
      BY <1>1, <3>1
    <3>2. CASE r # c
      BY <1>1, <2>1, <3>2 DEF OnlyCall, SagaInv, Calls
    <3> QED BY <3>1, <3>2
  <2>3. remote'[r] # NoReply => r \in sent' /\ IsLoanOf(remote[r].loanId, input[r])'
    BY <1>1, <1>3, <2>1 DEF SagaInv, IsLoanOf
  <2>4. remoteLoanId'[r] # NoLoan => IsLoanOf(remoteLoanId[r], input[r])'
    BY <1>1, <1>3, <2>1 DEF SagaInv, IsLoanOf
  <2> QED BY <1>1, <2>1, <2>2, <2>3, <2>4 DEF SagaInv
<1>5. ASSUME NEW r \in Requests PROVE HeardInv(r)' /\ ShownInv(r)'
  <2>0. SagaInv(r) /\ HeardInv(r) /\ ShownInv(r)
    BY DEF LibraryInv
  <2>1. CASE r = c
    <3>1. AnswersArrive => pc[r] \in {"remote", "lost"} /\ status[r] # "ROLLED_BACK"
      BY <2>0, <2>1 DEF HeardInv
    <3> QED BY <1>1, <2>0, <2>1, <3>1 DEF HeardInv, ShownInv, AnswersArrive, NetFails
  <2>2. CASE r # c
    <3>1. call'[r] = call[r] /\ loan'[r] = loan[r] /\ answer'[r] = answer[r]
      BY <2>2 DEF OnlyCall, Calls
    <3> QED BY <1>1, <2>0, <3>1 DEF HeardInv, ShownInv, AnswersArrive, NetFails
  <2> QED BY <2>1, <2>2
<1>6. ASSUME NEW d \in Calls PROVE CallInv(d)'
  <2>1. CASE d = c
    BY <2>1
  <2>2. CASE d # c
    <3>1. CallInv(d)
      BY DEF LibraryInv
    <3>2. /\ call'[d] = call[d] /\ arg'[d] = arg[d]
          /\ loan'[d] = loan[d] /\ answer'[d] = answer[d]
      BY <2>2 DEF OnlyCall
    <3>3. call'[d] = "done" /\ answer'[d].kind = "created" =>
            IsLoanOf(answer[d].loan, arg[d])'
      BY <1>3, <3>1, <3>2 DEF CallInv, IsLoanOf
    <3> QED BY <3>1, <3>2, <3>3 DEF CallInv
  <2> QED BY <2>1, <2>2
<1>7. ASSUME NEW x \in Returns PROVE ReturnInv(x)'
  BY <1>1, <1>2 DEF LibraryInv, ReturnInv, OnlyCall
<1> QED BY <1>4, <1>5, <1>6, <1>7 DEF LibraryInv

\* A call arrives, from the saga that sent it or from another client.
LEMMA AcceptInv ==
  ASSUME LibraryInv, NEW c \in Calls, NEW a, Loans!Accept(c, a), LoansOnly,
         c \in Requests => c \in sent /\ a = input[c]
  PROVE  LibraryInv'
<1>1. /\ call[c] = "idle"
      /\ UNCHANGED <<sagaVars, sent, ret, target, loan>>
      /\ arg' = [arg EXCEPT ![c] = a]
      /\ \/ /\ call' = [call EXCEPT ![c] = "done"]
            /\ answer' = [answer EXCEPT ![c] = [kind |-> "invalidInput"]]
         \/ answer' = answer /\ call' = [call EXCEPT ![c] = "lookup"]
         \/ answer' = answer /\ call' = [call EXCEPT ![c] = "check"]
  BY DEF LoansOnly, Loans!Accept, Loans!Reply, Loans!Error, Loans!GoTo, Loans!retVars
<1>2. OnlyCall(c)
  BY <1>1 DEF OnlyCall, LibraryInv, Shape
<1>3. Shape'
  BY <1>1 DEF LibraryInv, Shape, sagaVars
<1>4. loan'[c] = "NoRow" /\ arg'[c] = a
  BY <1>1 DEF LibraryInv, Shape, CallInv
<1>5. /\ call'[c] \in {"done", "lookup", "check"}
      /\ call'[c] = "done" => answer'[c].kind = "invalidInput"
  <2>1. c \in DOMAIN call /\ c \in DOMAIN answer
    BY DEF LibraryInv, Shape
  <2>2. [kind |-> "invalidInput"].kind = "invalidInput"
    OBVIOUS
  <2> QED BY <1>1, <2>1, <2>2
<1>6. CallInv(c)'
  BY <1>4, <1>5 DEF CallInv
<1> QED BY <1>1, <1>2, <1>3, <1>4, <1>5, <1>6, CallMoves

\* c is under way, and the step it takes changes none of these.
CallActive(c) ==
  /\ call[c] \in {"lookup", "check", "insert"}
  /\ UNCHANGED <<sagaVars, sent, arg, ret, target>>

LEMMA CallGoesOn ==
  ASSUME LibraryInv, NEW c \in Calls, CallActive(c), UNCHANGED <<loan, answer>>,
         NEW s \in {"check", "insert"}, call' = [call EXCEPT ![c] = s]
  PROVE  LibraryInv'
<1>1. OnlyCall(c) /\ Shape' /\ call'[c] = s
  BY DEF CallActive, OnlyCall, LibraryInv, Shape, sagaVars
<1>2. call[c] # "done" /\ loan'[c] = "NoRow" /\ arg' = arg
  BY DEF CallActive, LibraryInv, CallInv
<1>3. CallInv(c)'
  BY <1>1, <1>2 DEF CallInv
<1>4. c \in Requests => c \in sent /\ arg'[c] = input[c]
  BY <1>2 DEF CallActive, LibraryInv, SagaInv
<1> QED BY <1>1, <1>2, <1>3, <1>4, CallMoves

\* A call that ends without a row of its own may be answered with another's, if
\* that is a loan of the same book, user and key.
LEMMA CallIsAnswered ==
  ASSUME LibraryInv, NEW c \in Calls, CallActive(c), UNCHANGED loan, NEW a,
         call' = [call EXCEPT ![c] = "done"], answer' = [answer EXCEPT ![c] = a],
         a.kind = "created" => IsLoanOf(a.loan, arg[c])
  PROVE  LibraryInv'
<1>1. OnlyCall(c) /\ Shape' /\ call'[c] = "done" /\ answer'[c] = a
  BY DEF CallActive, OnlyCall, LibraryInv, Shape, sagaVars
<1>2. call[c] # "done" /\ loan[c] = "NoRow" /\ loan' = loan /\ arg' = arg
  BY DEF CallActive, LibraryInv, CallInv
<1>3. CallInv(c)'
  BY <1>1, <1>2 DEF CallInv, IsLoanOf
<1>4. c \in Requests => c \in sent /\ arg'[c] = input[c]
  BY <1>2 DEF CallActive, LibraryInv, SagaInv
<1> QED BY <1>1, <1>2, <1>3, <1>4, CallMoves

LEMMA CallMakesRow ==
  ASSUME LibraryInv, NEW c \in Calls, CallActive(c), NEW a,
         call' = [call EXCEPT ![c] = "done"], answer' = [answer EXCEPT ![c] = a],
         loan' = [loan EXCEPT ![c] = "active"],
         a.kind = "created" => a.loan = c,
         AnswersArrive => a.kind = "created"
  PROVE  LibraryInv'
<1>1. OnlyCall(c) /\ Shape' /\ call'[c] = "done" /\ answer'[c] = a /\ loan'[c] = "active"
  BY DEF CallActive, OnlyCall, LibraryInv, Shape, sagaVars
<1>2. call[c] # "done" /\ arg' = arg
  BY DEF CallActive
<1>3. CallInv(c)'
  BY <1>1, <1>2 DEF CallInv, IsLoanOf
<1>4. c \in Requests => c \in sent /\ arg'[c] = input[c]
  BY <1>2 DEF CallActive, LibraryInv, SagaInv
<1> QED BY <1>1, <1>2, <1>3, <1>4, CallMoves

LEMMA AskCatalogInv ==
  ASSUME LibraryInv, NEW c \in Calls, AskCatalog(c)
  PROVE  LibraryInv'
<1>1. CallActive(c) /\ UNCHANGED loan
  BY DEF CallActive, AskCatalog, LoansOnly, Loans!AskCatalog, Loans!retVars
<1>2. CASE Loans!GoTo(c, "insert")
  BY <1>1, <1>2, CallGoesOn DEF Loans!GoTo
<1>3. ASSUME NEW e \in {"bookUnavailable", "bookNotFound", "catalogUnavailable"},
             Loans!Reply(c, Loans!Error(e))
      PROVE  LibraryInv'
  BY <1>1, <1>3, CallIsAnswered DEF Loans!Reply, Loans!Error
<1> QED BY <1>2, <1>3 DEF AskCatalog, Loans!AskCatalog

\* The look-up answers with a loan that is there and asks for the same.
LEMMA LookUpInv ==
  ASSUME LibraryInv, NEW c \in Calls, Loans!LookUp(c), LoansOnly
  PROVE  LibraryInv'
<1>1. CallActive(c) /\ UNCHANGED loan
  BY DEF CallActive, LoansOnly, Loans!LookUp, Loans!retVars
<1>2. CASE Loans!GoTo(c, "check")
  BY <1>1, <1>2, CallGoesOn DEF Loans!GoTo
<1>3. ASSUME NEW e \in {"internalError", "idempotencyConflict"},
             Loans!Reply(c, Loans!Error(e))
      PROVE  LibraryInv'
  BY <1>1, <1>3, CallIsAnswered DEF Loans!Reply, Loans!Error
<1>4. ASSUME NEW d \in Loans!KeyHolders(arg[c].key), Loans!AsksTheSame(c, d),
             Loans!Reply(c, Loans!Created(d, loan[d]))
      PROVE  LibraryInv'
  <2>1. IsLoanOf(d, arg[c])
    BY <1>4 DEF IsLoanOf, Loans!KeyHolders, Loans!AsksTheSame
  <2>2. Loans!Created(d, loan[d]).loan = d
    BY DEF Loans!Created
  <2> QED BY <1>1, <1>4, <2>1, <2>2, CallIsAnswered DEF Loans!Reply
<1> QED BY <1>2, <1>3, <1>4 DEF Loans!LookUp

\* A row is made by its own call.
LEMMA InsertInv ==
  ASSUME LibraryInv, NEW c \in Calls, NEW acked \in Loans!LoanAcks,
         Loans!Insert(c, acked), LoansOnly
  PROVE  LibraryInv'
<1> DEFINE a == IF acked THEN Loans!Created(c, "active") ELSE Loans!Error("internalError")
<1>1. /\ CallActive(c)
      /\ call' = [call EXCEPT ![c] = "done"]
      /\ loan' = [loan EXCEPT ![c] = "active"]
      /\ answer' = [answer EXCEPT ![c] = a]
  BY DEF CallActive, LoansOnly, Loans!Insert, Loans!Reply, Loans!retVars
<1>2. AnswersArrive => acked
  BY DEF AnswersArrive, Loans!LoanAcks
<1>3. /\ acked => a.kind = "created" /\ a.loan = c
      /\ ~acked => a.kind = "internalError"
  BY DEF Loans!Created, Loans!Error
<1> HIDE DEF a
<1> QED BY <1>1, <1>2, <1>3, CallMakesRow

LEMMA StoreInv ==
  ASSUME LibraryInv, NEW c \in Calls, Store(c)
  PROVE  LibraryInv'
<1>1. ASSUME Loans!InsertFails(c), LoansOnly PROVE LibraryInv'
  <2>1. /\ CallActive(c) /\ UNCHANGED loan
        /\ Loans!Reply(c, Loans!Error("internalError"))
    BY <1>1 DEF CallActive, LoansOnly, Loans!InsertFails, Loans!retVars
  <2> QED BY <2>1, CallIsAnswered DEF Loans!Reply, Loans!Error
<1> QED BY <1>1, LookUpInv, InsertInv DEF Store

-----------------------------------------------------------------------------
\* Returns, and the end of the Loan Service's process.

\* A loan that is returned is still there.
LEMMA ReturnLoanInv ==
  ASSUME LibraryInv, NEW x \in Returns, ReturnLoan(x)
  PROVE  LibraryInv'
<1>1. UNCHANGED <<pc, input, status, remoteLoanId, remote, outcome, sent, call, arg, answer>>
  BY DEF ReturnLoan, LoansOnly, sagaVars, Loans!ReadLoan, Loans!ReturnStep, Loans!SaveLoan,
         Loans!SaveFails, Loans!callVars
<1> DEFINE Kept == /\ Shape'
                   /\ \A c \in Calls : loan[c] # "NoRow" <=> loan'[c] # "NoRow"
                   /\ \A y \in Returns : ReturnInv(y)'
<1>2. Kept
  <2>0. /\ Shape
        /\ \A y \in Returns : ReturnInv(y)
    BY DEF LibraryInv
  <2>1. ASSUME NEW d \in Calls, Loans!ReadLoan(x, d) PROVE Kept
    <3>1. /\ loan' = loan /\ target' = [target EXCEPT ![x] = d]
          /\ \/ ret' = [ret EXCEPT ![x] = "done"]
             \/ loan[d] = "active" /\ ret' = [ret EXCEPT ![x] = "save"]
      BY <2>1 DEF Loans!ReadLoan, Loans!Finish
    <3>2. Shape'
      BY <1>1, <2>0, <3>1 DEF Shape
    <3>3. ASSUME NEW y \in Returns PROVE ReturnInv(y)'
      BY <2>0, <3>1 DEF Shape, ReturnInv
    <3> QED BY <3>1, <3>2, <3>3
  <2>2. ASSUME Loans!ReturnStep(x) PROVE Kept
    <3>1. /\ ret[x] = "save"
          /\ target' = target /\ ret' = [ret EXCEPT ![x] = "done"]
          /\ loan' = loan \/ loan' = [loan EXCEPT ![target[x]] = "returned"]
      BY <2>2 DEF Loans!ReturnStep, Loans!SaveLoan, Loans!SaveFails, Loans!Finish
    <3>2. Shape'
      BY <1>1, <2>0, <3>1 DEF Shape
    <3>3. \A c \in Calls : loan[c] # "NoRow" <=> loan'[c] # "NoRow"
      BY <2>0, <3>1 DEF Shape, ReturnInv
    <3>4. ASSUME NEW y \in Returns PROVE ReturnInv(y)'
      BY <2>0, <3>1, <3>3 DEF Shape, ReturnInv
    <3> QED BY <3>2, <3>3, <3>4
  <2> QED BY <2>1, <2>2 DEF ReturnLoan
<1>3. ASSUME NEW r \in Requests PROVE SagaInv(r)' /\ HeardInv(r)' /\ ShownInv(r)'
  <2>1. loan[r] # "NoRow" <=> loan'[r] # "NoRow"
    BY <1>2 DEF Calls
  <2>2. SagaInv(r)'
    BY <1>1, <1>2 DEF LibraryInv, SagaInv, IsLoanOf
  <2>3. HeardInv(r)' /\ ShownInv(r)'
    BY <1>1, <2>1 DEF LibraryInv, HeardInv, ShownInv, AnswersArrive, NetFails
  <2> QED BY <2>2, <2>3
<1>4. ASSUME NEW c \in Calls PROVE CallInv(c)'
  BY <1>1, <1>2 DEF LibraryInv, CallInv, IsLoanOf
<1> QED BY <1>2, <1>3, <1>4 DEF LibraryInv

\* What is cut off had made no loan.
LEMMA LoanCrashInv ==
  ASSUME LibraryInv, LoanCrash
  PROVE  LibraryInv'
<1>1. /\ UNCHANGED <<pc, input, status, remoteLoanId, remote, outcome, sent,
                     arg, loan, answer, target>>
      /\ DOMAIN call' = Calls /\ DOMAIN ret' = Returns
      /\ \A c \in Calls : \/ call'[c] = call[c]
                          \/ call[c] \notin {"idle", "done"} /\ call'[c] = "lost"
      /\ \A x \in Returns : ret'[x] = ret[x] \/ ret'[x] = "lost"
      /\ ~AnswersArrive
  BY DEF LoanCrash, LoansOnly, sagaVars, Loans!LoanCrash, Loans!CutOff, Loans!CallInFlight,
         AnswersArrive
<1>2. Shape'
  BY <1>1 DEF LibraryInv, Shape
<1>3. ASSUME NEW r \in Requests PROVE SagaInv(r)' /\ HeardInv(r)' /\ ShownInv(r)'
  BY <1>1
  DEF LibraryInv, SagaInv, HeardInv, ShownInv, IsLoanOf, AnswersArrive, NetFails, Calls
<1>4. ASSUME NEW c \in Calls PROVE CallInv(c)'
  BY <1>1 DEF LibraryInv, CallInv, IsLoanOf
<1>5. ASSUME NEW x \in Returns PROVE ReturnInv(x)'
  BY <1>1 DEF LibraryInv, ReturnInv
<1> QED BY <1>2, <1>3, <1>4, <1>5 DEF LibraryInv

-----------------------------------------------------------------------------
LEMMA StepInv == LibraryInv /\ [Next]_vars => LibraryInv'
<1> SUFFICES ASSUME LibraryInv, [Next]_vars PROVE LibraryInv'
  OBVIOUS
<1>1. ASSUME NEW r \in Requests, SagaStep(r) PROVE LibraryInv'
  <2>1. ASSUME Write(r) PROVE LibraryInv'
    BY <2>1, EarlyInv, FinalizeInv, FinalizeFailsInv, CompensateInv DEF Write
  <2> QED BY <1>1, <2>1, EarlyInv, ReserveInv, HearInv, GiveUpInv DEF SagaStep
<1>2. ASSUME NEW r \in Requests, Deliver(r) PROVE LibraryInv'
  BY <1>2, AcceptInv DEF Deliver, Calls
<1>3. ASSUME NEW c \in DirectCalls, DirectCall(c) PROVE LibraryInv'
  BY <1>3, AcceptInv, LibraryAssumption DEF DirectCall, Calls
<1>4. ASSUME NEW c \in Calls, CallStep(c) PROVE LibraryInv'
  BY <1>4, AskCatalogInv, StoreInv DEF CallStep
<1>5. CASE UNCHANGED vars
  <2>1. UNCHANGED <<pc, input, status, remoteLoanId, remote, outcome, sent,
                    call, arg, loan, answer, ret, target>>
    BY <1>5 DEF vars, sagaVars, loanVars
  <2>2. Shape'
    BY <2>1 DEF LibraryInv, Shape
  <2>3. ASSUME NEW r \in Requests PROVE SagaInv(r)' /\ HeardInv(r)' /\ ShownInv(r)'
    BY <2>1 DEF LibraryInv, SagaInv, HeardInv, ShownInv, IsLoanOf, AnswersArrive, NetFails
  <2>4. ASSUME NEW c \in Calls PROVE CallInv(c)'
    BY <2>1 DEF LibraryInv, CallInv, IsLoanOf
  <2>5. ASSUME NEW x \in Returns PROVE ReturnInv(x)'
    BY <2>1 DEF LibraryInv, ReturnInv
  <2> QED BY <2>2, <2>3, <2>4, <2>5 DEF LibraryInv
<1> QED BY <1>1, <1>2, <1>3, <1>4, <1>5, AdminInv, CatalogCrashInv, LoanCrashInv, ArriveInv,
           ReturnLoanInv DEF Next

\* What each saga, call and return holds of the others stays true at every step
\* of either service, faults, late deliveries and crashes included.
THEOREM LibraryInvariance == Spec => []LibraryInv
BY InitInv, StepInv, PTL DEF Spec

\* A row of the catalogue that shows a remote loan shows one that the Loan
\* Service has, of the row's own book, user and key, even when the answer it was
\* taken from replays the loan of another call.
THEOREM RowsShowTheirLoans == Spec => []ShadowFaithful
<1>1. LibraryInv => ShadowFaithful
  BY DEF LibraryInv, SagaInv, ShadowFaithful
<1> QED BY <1>1, LibraryInvariance, PTL

\* A client of POST /loans that was told 404 or 409 has no loan at the Loan
\* Service, and gets none later: its POST was never sent.
THEOREM RefusedHaveNoLoan == Spec => []RefusedHasNoLoan
<1>1. LibraryInv => RefusedHasNoLoan
  BY DEF LibraryInv, SagaInv, CallInv, RefusedHasNoLoan, Calls
<1> QED BY <1>1, LibraryInvariance, PTL

\* While the Loan Service's answers arrive and the Catalog Service loses no more
\* than acknowledgements, a loan that a saga made is shown by a row once all of
\* them are over, throttling or not and over either transport.
THEOREM LoansAreShownInTheEnd == Spec => []LoansAreShown
<1>1. LibraryInv => LoansAreShown
  BY DEF LibraryInv, ShownInv, LoansAreShown, Quiet, Catalog!InFlight
<1> QED BY <1>1, LibraryInvariance, PTL

\* What NotFoundMeansAbsent says, which gRPC breaks, is so over HTTP as long as
\* the Catalog Service answers the Loan Service's question: no other step of
\* either service tells a client of a book that is there that it is not.
HttpFindsBooks ==
  transport = "http" /\ ~BookUntold =>
    \A r \in Requests :
      outcome[r] = "none" /\ outcome'[r] = "bookNotFound" =>
        book[input'[r].book] # "present"

\* A step that tells r so is r's arrival or its pre-check.
LEMMA WhoSaysNotFound ==
  ASSUME LibraryInv, [Next]_vars, NEW r \in Requests,
         outcome[r] = "none", outcome'[r] = "bookNotFound"
  PROVE  Arrive(r) \/ PreCheck(r)
<1>1. DOMAIN outcome = Requests
  BY DEF LibraryInv, Shape
<1>2. outcome' # outcome
  OBVIOUS
<1>3. ASSUME NEW q \in Requests, Arrive(q) \/ SagaStep(q) PROVE q = r
  BY <1>1, <1>3
  DEF Arrive, SagaStep, PreCheck, Reserve, Write, Hear, GiveUp, Catalog!Arrive,
      Catalog!Begin, Catalog!PreCheck, Catalog!Reserve, Catalog!ReserveRolledBack,
      Catalog!Finalize, Catalog!FinalizeFails, Catalog!Compensate,
      Catalog!CompensateFails, Catalog!RemoteReturns, Catalog!RemoteThrows,
      Catalog!Answer, Catalog!GoTo
<1>4. ~(Reserve(r) \/ Write(r) \/ Hear(r) \/ GiveUp(r))
  BY <1>1
  DEF Reserve, Write, Hear, GiveUp, Catalog!Reserve, Catalog!ReserveRolledBack,
      Catalog!Finalize, Catalog!FinalizeFails, Catalog!Compensate,
      Catalog!CompensateFails, Catalog!RemoteReturns, Catalog!RemoteThrows,
      Catalog!Answer, Catalog!GoTo
<1>5. ~Admin /\ ~CatalogCrash
  BY <1>2
  DEF Admin, CatalogCrash, Catalog!Admin, Catalog!Crash, Catalog!LookForIsbn,
      Catalog!InsertBook, Catalog!InsertBookFails, Catalog!UpdateBook,
      Catalog!DeleteBook, Catalog!RegisterUser, Catalog!DeleteUser
<1>6. ~LoansOnly /\ ~UNCHANGED vars
  BY <1>2 DEF LoansOnly, vars, sagaVars
<1> QED
  BY <1>3, <1>4, <1>5, <1>6
  DEF Next, SagaStep, LoanCrash, Deliver, DirectCall, CallStep, AskCatalog, Store,
      ReturnLoan

\* Over HTTP and while the Catalog Service answers, a client is told 404 only of a
\* book that is not there at that moment, with all else failing as it may.
THEOREM FoundOverHttp == Spec => [][HttpFindsBooks]_vars
<1>1. LibraryInv /\ [Next]_vars => HttpFindsBooks
  <2> SUFFICES ASSUME LibraryInv, [Next]_vars, transport = "http", ~BookUntold,
                      NEW r \in Requests, outcome[r] = "none", outcome'[r] = "bookNotFound"
               PROVE  book[input'[r].book] # "present"
    BY DEF HttpFindsBooks
  <2>1. DOMAIN outcome = Requests /\ DOMAIN input = Requests
    BY DEF LibraryInv, Shape
  <2>2. CASE Arrive(r)
    <3>1. PICK b \in Books, u \in Users, k \in ClientKeys \cup {r} : Catalog!Begin(r, b, u, k)
      BY <2>2 DEF Arrive, Catalog!Arrive
    <3>2. Catalog!FirstRefusal(b, u) = "bookNotFound"
      BY <2>1, <3>1 DEF Catalog!Begin, Catalog!Answer, Catalog!GoTo
    <3>3. book[b] # "present"
      BY <3>2 DEF Catalog!FirstRefusal
    <3>4. input'[r].book = b
      BY <2>1, <3>1 DEF Catalog!Begin
    <3> QED BY <3>3, <3>4
  <2>3. CASE PreCheck(r)
    <3>1. PICK a \in PreCheckAnswers(input[r].book) : Catalog!PreCheck(r, a)
      BY <2>3 DEF PreCheck
    <3>2. a = "missing" /\ input'[r] = input[r]
      BY <2>1, <3>1 DEF Catalog!PreCheck, Catalog!Answer, Catalog!GoTo
    <3>3. a = BookAvailability(input[r].book)
      BY <3>1, <3>2 DEF PreCheckAnswers, HttpPreCheck
    <3> QED BY <3>2, <3>3 DEF BookAvailability
  <2> QED BY <2>2, <2>3, WhoSaysNotFound
<1> QED BY <1>1, LibraryInvariance, PTL DEF Spec

-----------------------------------------------------------------------------
\* What is proved of the components holds of them here.

\* Both instances of a component say the same: they differ in their names only.
LEMMA SameCatalog ==
  /\ Catalog!Init <=> CatalogProved!Init
  /\ Catalog!Next <=> CatalogProved!Next
  /\ Catalog!vars = CatalogProved!vars
  /\ Catalog!IInv <=> CatalogProved!IInv
  /\ Catalog!StuckOnlyByReplay <=> CatalogProved!StuckOnlyByReplay
  /\ Catalog!RevertedUnlessDbFails <=> CatalogProved!RevertedUnlessDbFails
<1>1. Catalog!Init <=> CatalogProved!Init
  BY DEF Catalog!Init, CatalogProved!Init
<1>2. Catalog!Next <=> CatalogProved!Next
  BY DEF Catalog!Next, CatalogProved!Next, Catalog!Admin, CatalogProved!Admin,
      Catalog!LookForIsbn, CatalogProved!LookForIsbn, Catalog!InsertBook,
      CatalogProved!InsertBook, Catalog!InsertBookFails, CatalogProved!InsertBookFails,
      Catalog!UpdateBook, CatalogProved!UpdateBook, Catalog!DeleteBook,
      CatalogProved!DeleteBook, Catalog!RegisterUser, CatalogProved!RegisterUser,
      Catalog!DeleteUser, CatalogProved!DeleteUser, Catalog!HoldersOf,
      CatalogProved!HoldersOf, Catalog!IsbnFree, CatalogProved!IsbnFree,
      Catalog!BookUnreferenced, CatalogProved!BookUnreferenced, Catalog!UserUnreferenced,
      CatalogProved!UserUnreferenced, Catalog!RowsOfBook, CatalogProved!RowsOfBook,
      Catalog!RowsOfUser, CatalogProved!RowsOfUser, Catalog!CreateBookDto,
      CatalogProved!CreateBookDto, Catalog!UpdateBookDto, CatalogProved!UpdateBookDto,
      Catalog!Arrive, CatalogProved!Arrive, Catalog!Begin, CatalogProved!Begin,
      Catalog!Answer, CatalogProved!Answer, Catalog!GoTo, CatalogProved!GoTo,
      Catalog!HasStock, CatalogProved!HasStock, Catalog!FirstRefusal,
      CatalogProved!FirstRefusal, Catalog!CheckAnswers, CatalogProved!CheckAnswers,
      Catalog!PreCheck, CatalogProved!PreCheck, Catalog!DecrementStockInTx,
      CatalogProved!DecrementStockInTx, Catalog!IncrementStockInTx,
      CatalogProved!IncrementStockInTx, Catalog!CopyLeft, CatalogProved!CopyLeft,
      Catalog!LocalStep, CatalogProved!LocalStep, Catalog!RemoteStep,
      CatalogProved!RemoteStep, Catalog!Reserve, CatalogProved!Reserve,
      Catalog!ReserveRolledBack, CatalogProved!ReserveRolledBack, Catalog!RemoteReturns,
      CatalogProved!RemoteReturns, Catalog!RemoteThrows, CatalogProved!RemoteThrows,
      Catalog!RemoteIdFree, CatalogProved!RemoteIdFree, Catalog!Finalize,
      CatalogProved!Finalize, Catalog!FinalizeFails, CatalogProved!FinalizeFails,
      Catalog!MarkRolledBack, CatalogProved!MarkRolledBack, Catalog!Compensate,
      CatalogProved!Compensate, Catalog!CompensateFails, CatalogProved!CompensateFails,
      Catalog!InFlight, CatalogProved!InFlight, Catalog!Crash, CatalogProved!Crash,
      Catalog!Replies, CatalogProved!Replies, Catalog!RemoteStatus,
      CatalogProved!RemoteStatus, Catalog!Acks, CatalogProved!Acks
<1>3. Catalog!vars = CatalogProved!vars
  BY DEF Catalog!vars, CatalogProved!vars
<1>4. /\ Catalog!IInv <=> CatalogProved!IInv
      /\ Catalog!StuckOnlyByReplay <=> CatalogProved!StuckOnlyByReplay
      /\ Catalog!RevertedUnlessDbFails <=> CatalogProved!RevertedUnlessDbFails
  BY DEF Catalog!IInv, CatalogProved!IInv, Catalog!TypeOK, CatalogProved!TypeOK,
      Catalog!RowFollowsStage, CatalogProved!RowFollowsStage, Catalog!NoStockWithoutBook,
      CatalogProved!NoStockWithoutBook, Catalog!IsbnsUnique, CatalogProved!IsbnsUnique,
      Catalog!NoOversell, CatalogProved!NoOversell, Catalog!NoDanglingRow,
      CatalogProved!NoDanglingRow, Catalog!AnswerMatchesRow,
      CatalogProved!AnswerMatchesRow, Catalog!StuckOnlyByReplay,
      CatalogProved!StuckOnlyByReplay, Catalog!Over, CatalogProved!Over, Catalog!Existence,
      CatalogProved!Existence, Catalog!Stages, CatalogProved!Stages, Catalog!RowStatus,
      CatalogProved!RowStatus, Catalog!RemoteStatus, CatalogProved!RemoteStatus,
      Catalog!Refusals, CatalogProved!Refusals, Catalog!Outcomes, CatalogProved!Outcomes,
      Catalog!Inputs, CatalogProved!Inputs, Catalog!Replies, CatalogProved!Replies,
      Catalog!Unsettled, CatalogProved!Unsettled,
      Catalog!RevertedUnlessDbFails, CatalogProved!RevertedUnlessDbFails
<1> QED BY <1>1, <1>2, <1>3, <1>4

LEMMA SameLoans ==
  /\ Loans!Init <=> LoansProved!Init
  /\ Loans!Next <=> LoansProved!Next
  /\ Loans!vars = LoansProved!vars
  /\ Loans!TypeOK <=> LoansProved!TypeOK
<1>1. Loans!Init <=> LoansProved!Init
  BY DEF Loans!Init, LoansProved!Init
<1>2. Loans!Next <=> LoansProved!Next
  BY DEF Loans!Next, LoansProved!Next, Loans!CallStep, LoansProved!CallStep, Loans!ReturnStep,
      LoansProved!ReturnStep, Loans!Accept, LoansProved!Accept, Loans!GoTo,
      LoansProved!GoTo, Loans!Reply, LoansProved!Reply, Loans!Error, LoansProved!Error,
      Loans!Created, LoansProved!Created, Loans!KeyHolders, LoansProved!KeyHolders,
      Loans!AsksTheSame, LoansProved!AsksTheSame, Loans!LookUp, LoansProved!LookUp,
      Loans!CatalogAnswers, LoansProved!CatalogAnswers, Loans!AskCatalog,
      LoansProved!AskCatalog, Loans!KeyFree, LoansProved!KeyFree, Loans!Insert,
      LoansProved!Insert, Loans!InsertFails, LoansProved!InsertFails, Loans!Finish,
      LoansProved!Finish, Loans!ReadLoan, LoansProved!ReadLoan, Loans!SaveLoan,
      LoansProved!SaveLoan, Loans!SaveFails, LoansProved!SaveFails, Loans!CallInFlight,
      LoansProved!CallInFlight, Loans!ReturnInFlight, LoansProved!ReturnInFlight,
      Loans!CutOff, LoansProved!CutOff, Loans!LoanCrash, LoansProved!LoanCrash,
      Loans!LoanAcks, LoansProved!LoanAcks, Loans!Args, LoansProved!Args, Loans!callVars,
      LoansProved!callVars, Loans!retVars, LoansProved!retVars
<1>3. Loans!vars = LoansProved!vars
  BY DEF Loans!vars, LoansProved!vars
<1>4. Loans!TypeOK <=> LoansProved!TypeOK
  BY DEF Loans!TypeOK, LoansProved!TypeOK, Loans!LoanStatus, LoansProved!LoanStatus,
      Loans!Args, LoansProved!Args, Loans!Refusals, LoansProved!Refusals, Loans!Answers,
      LoansProved!Answers, Loans!Results, LoansProved!Results
<1> QED BY <1>1, <1>2, <1>3, <1>4

LEMMA CatalogAssumptions == CatalogProved!CatalogAssumption /\ CatalogProved!NullAssumption
BY LibraryAssumption, ComponentAssumption
DEF CatalogProved!CatalogAssumption, CatalogProved!NullAssumption, IsFiniteSet,
    CatalogProved!IsFiniteSet, CatalogProved!FaultKinds, Catalog!FaultKinds,
    CatalogProved!Inputs, Catalog!Inputs, CatalogProved!Replies, Catalog!Replies,
    CatalogProved!RemoteStatus, Catalog!RemoteStatus

LEMMA LoansAssumptions == LoansProved!LoanAssumption /\ LoansProved!LoanNulls
BY ComponentAssumption
DEF LoansProved!LoanAssumption, LoansProved!LoanNulls, LoansProved!LoanFaultKinds,
    Loans!LoanFaultKinds, LoansProved!Args, Loans!Args, LoansProved!Answers, Loans!Answers,
    LoansProved!Refusals, Loans!Refusals, LoansProved!LoanStatus, Loans!LoanStatus

\* The Loan Service answers only what the saga is made for.
LEMMA CatalogStep == LibraryInv /\ [Next]_vars => [Catalog!Next]_(Catalog!vars)
<1> SUFFICES ASSUME LibraryInv, [Next]_vars PROVE [Catalog!Next]_(Catalog!vars)
  OBVIOUS
<1>1. ASSUME NEW r \in Requests, SagaStep(r) PROVE Catalog!LocalStep(r) \/ Catalog!RemoteStep(r)
  <2>1. CASE PreCheck(r)
    <3>1. PreCheckAnswers(input[r].book) \subseteq Catalog!CheckAnswers
      BY DEF PreCheckAnswers, HttpPreCheck, GrpcPreCheck, BookAvailability, Catalog!CheckAnswers
    <3> QED BY <2>1, <3>1 DEF PreCheck, Catalog!RemoteStep
  <2>2. CASE Reserve(r) \/ Write(r)
    BY <2>2 DEF Reserve, Write, Catalog!LocalStep
  <2>3. CASE Hear(r)
    <3>1. ASSUME answer[r].kind = "created" PROVE RemoteReply(answer[r]) \in Catalog!Replies
      <4>1. answer[r].loan \in Calls
        BY <2>3, <3>1 DEF Hear, LibraryInv, CallInv, IsLoanOf, Calls
      <4> QED BY <4>1 DEF RemoteReply, Catalog!Replies, Catalog!RemoteStatus
    <3> QED BY <2>3, <3>1 DEF Hear, Catalog!RemoteStep
  <2>4. CASE GiveUp(r)
    BY <2>4 DEF GiveUp, Catalog!RemoteStep
  <2> QED BY <1>1, <2>1, <2>2, <2>3, <2>4 DEF SagaStep
<1>2. CASE Admin \/ CatalogCrash \/ (\E r \in Requests : Arrive(r))
  BY <1>2 DEF Admin, CatalogCrash, Arrive, Catalog!Next
<1>3. ASSUME LoansOnly \/ UNCHANGED vars PROVE UNCHANGED Catalog!vars
  BY <1>3 DEF LoansOnly, vars, sagaVars, Catalog!vars
<1> QED
  BY <1>1, <1>2, <1>3
  DEF Next, LoanCrash, Deliver, DirectCall, CallStep, AskCatalog, Store, ReturnLoan,
      Catalog!Next

\* The saga asks only what the Loan Service's interface allows.
LEMMA LoansStep ==
  ASSUME LibraryInv, Catalog!IInv, [Next]_vars
  PROVE  [Loans!Next]_(Loans!vars)
<1>1. ASSUME NEW r \in Requests, Deliver(r) PROVE Loans!Next
  <2>1. pc[r] # "idle"
    BY <1>1 DEF Deliver, LibraryInv, SagaInv
  <2>2. input[r] \in Catalog!Inputs
    BY <2>1 DEF Catalog!IInv, Catalog!TypeOK, Catalog!RowFollowsStage
  <2>3. input[r] \in Loans!Args
    BY <2>2 DEF Catalog!Inputs, Loans!Args, Keys
  <2> QED BY <1>1, <2>3 DEF Deliver, Loans!Next, Calls
<1>2. ASSUME NEW c \in DirectCalls, DirectCall(c) PROVE Loans!Next
  <2>1. DirectArgs \subseteq Loans!Args
    BY DEF DirectArgs, Loans!Args, Keys
  <2> QED BY <1>2, <2>1 DEF DirectCall, Loans!Next, Calls
<1>3. ASSUME NEW c \in Calls, CallStep(c) PROVE Loans!CallStep(c)
  <2>1. CatalogAnswers(arg[c].book) \subseteq Loans!CatalogAnswers
    BY DEF CatalogAnswers, BookAvailability, Loans!CatalogAnswers
  <2> QED BY <1>3, <2>1 DEF CallStep, AskCatalog, Store, Loans!CallStep
<1>4. CASE LoanCrash \/ (\E x \in Returns : ReturnLoan(x))
  BY <1>4 DEF LoanCrash, ReturnLoan, Loans!Next
<1>5. ASSUME UNCHANGED loanVars PROVE UNCHANGED Loans!vars
  BY <1>5 DEF loanVars, Loans!vars
<1> QED
  BY <1>1, <1>2, <1>3, <1>4, <1>5
  DEF Next, vars, Admin, CatalogCrash, Arrive, SagaStep, PreCheck, Reserve, Write, Hear,
      GiveUp, CatalogOnly, Loans!Next

\* Closed by the real Loan Service, the Catalog Service is the one of CatalogSaga:
\* all that is proved there of an open one holds here.
THEOREM CatalogClosed == Spec => CatalogProved!Spec
<1>1. Init => CatalogProved!Init
  BY SameCatalog DEF Init
<1>2. LibraryInv /\ [Next]_vars => [CatalogProved!Next]_(CatalogProved!vars)
  BY CatalogStep, SameCatalog DEF Catalog!vars, CatalogProved!vars
<1> QED BY <1>1, <1>2, LibraryInvariance, PTL DEF Spec, CatalogProved!Spec

LEMMA CatalogInvariance == Spec => []Catalog!IInv
BY CatalogClosed, CatalogProved!Invariance, CatalogAssumptions, SameCatalog, PTL

\* And the Loan Service, asked by the real sagas and by others, is LoanService.
THEOREM LoansClosed == Spec => LoansProved!Spec
<1>1. Init => LoansProved!Init
  BY SameLoans DEF Init
<1>2. LibraryInv /\ Catalog!IInv /\ [Next]_vars => [LoansProved!Next]_(LoansProved!vars)
  BY LoansStep, SameLoans DEF Loans!vars, LoansProved!vars
<1> QED BY <1>1, <1>2, LibraryInvariance, CatalogInvariance, PTL DEF Spec, LoansProved!Spec

\* The two services together keep what each promises on its own: the copies of
\* CopyLedger, and the keys, answers and returns of LoanRegistry.
THEOREM BothKeepTheirPromises == Spec => CatalogProved!LedgerSpec /\ LoansProved!RegistrySpec
BY CatalogClosed, LoansClosed, CatalogProved!LedgerKept, LoansProved!RegistryKept,
   CatalogAssumptions, LoansAssumptions, PTL

\* Every variable of both services and of the network keeps its type.
THEOREM LibraryTyped == Spec => []TypeOK
<1> DEFINE Between == sent \subseteq Requests /\ transport \in Transports
<1>1. Spec => []Between
  <2>1. Init => Between
    BY DEF Init
  <2>2. Between /\ [Next]_vars => Between'
    BY DEF Next, vars, Admin, CatalogCrash, LoanCrash, Arrive, SagaStep, PreCheck, Reserve,
           Write, Hear, GiveUp, CatalogOnly, LoansOnly, Deliver, DirectCall, CallStep,
           AskCatalog, Store, ReturnLoan
  <2> HIDE DEF Between
  <2> QED BY <2>1, <2>2, PTL DEF Spec
<1>2. Catalog!IInv => Catalog!TypeOK
  BY DEF Catalog!IInv
<1>3. Spec => []Loans!TypeOK
  BY LoansClosed, LoansProved!LoansTyped, LoansAssumptions, SameLoans, PTL
<1> QED BY <1>1, <1>2, <1>3, CatalogInvariance, PTL DEF TypeOK

\* The row of an execution that has sent its POST, or that shows a loan, holds
\* what its client asked for.
LEMMA InputsKnown ==
  ASSUME LibraryInv, Catalog!IInv, NEW r \in Requests, r \in sent \/ remoteLoanId[r] # NoLoan
  PROVE  input[r] \in Catalog!Inputs
<1>1. pc[r] # "idle"
  BY DEF LibraryInv, SagaInv, Catalog!IInv, Catalog!RowFollowsStage
<1> QED BY <1>1 DEF Catalog!IInv, Catalog!TypeOK, Catalog!RowFollowsStage

\* Two requests that were answered with one loan asked for the same.
LEMMA SameLoanSameInput ==
  ASSUME LibraryInv, Catalog!IInv, NEW q \in Requests, NEW r \in Requests,
         remote[r] # NoReply, remoteLoanId[q] = remote[r].loanId
  PROVE  input[q] = input[r]
<1> DEFINE d == remote[r].loanId
<1>1. r \in sent /\ IsLoanOf(d, input[r])
  BY DEF LibraryInv, SagaInv
<1>2. d # NoLoan
  BY <1>1, LibraryAssumption DEF IsLoanOf
<1>3. IsLoanOf(d, input[q])
  BY <1>2 DEF LibraryInv, SagaInv
<1>4. input[q] \in Catalog!Inputs /\ input[r] \in Catalog!Inputs
  BY <1>1, <1>2, InputsKnown
<1>5. ASSUME NEW x \in Catalog!Inputs, NEW y \in Catalog!Inputs,
             x.book = y.book, x.user = y.user, x.key = y.key
      PROVE  x = y
  BY <1>5 DEF Catalog!Inputs
<1> HIDE DEF d
<1>6. /\ input[q].book = input[r].book /\ input[q].user = input[r].user
      /\ input[q].key = input[r].key
  BY <1>1, <1>3 DEF IsLoanOf
<1> QED BY <1>4, <1>5, <1>6

\* Without faults of the Catalog Service, whatever the Loan Service, the network
\* and other clients do, a copy is tied up in an unsettled row in one case only:
\* the request repeats another one, key and all, whose row shows the loan.
THEOREM TiedUpByReplayOnly == Spec => []StuckOnlyByReplay
<1>1. Spec => []Catalog!StuckOnlyByReplay
  BY CatalogClosed, CatalogProved!OnlyReplayTiesUp, CatalogAssumptions, SameCatalog, PTL
<1>2. LibraryInv /\ Catalog!IInv /\ Catalog!StuckOnlyByReplay => StuckOnlyByReplay
  <2> SUFFICES ASSUME LibraryInv, Catalog!IInv, Catalog!StuckOnlyByReplay, Faults = {},
                      NEW r \in Requests, Catalog!Over(r), Catalog!Unsettled(r)
               PROVE  /\ remote[r] # NoReply
                      /\ \E q \in Requests \ {r} :
                           input[q] = input[r] /\ remoteLoanId[q] = remote[r].loanId
    BY DEF StuckOnlyByReplay
  <2>1. /\ remote[r] # NoReply
        /\ \E q \in Requests \ {r} : remoteLoanId[q] = remote[r].loanId
    BY DEF Catalog!StuckOnlyByReplay
  <2>2. PICK q \in Requests \ {r} : remoteLoanId[q] = remote[r].loanId
    BY <2>1
  <2>3. input[q] = input[r]
    BY <2>1, <2>2, SameLoanSameInput
  <2> QED BY <2>1, <2>2, <2>3
<1> QED BY <1>1, <1>2, LibraryInvariance, CatalogInvariance, PTL

\* Whatever the Loan Service, the network and other clients do, a client that is
\* told 503 has its row rolled back, unless the Catalog Service's database fails.
THEOREM ToldRevertedIsReverted == Spec => []RevertedUnlessDbFails
BY CatalogClosed, CatalogProved!RevertedUnlessDatabaseFails, CatalogAssumptions,
   SameCatalog, PTL DEF RevertedUnlessDbFails

\* The row of a saga that made a loan is not rolled back, so it keeps its copy.
LEMMA CopiesKept == LibraryInv /\ Catalog!IInv => LoansHaveCopies
<1> SUFFICES ASSUME LibraryInv, Catalog!IInv, AnswersArrive,
                    NEW r \in Requests, loan[r] # "NoRow"
             PROVE  r \in Catalog!OutRows(arg[r].book)
  BY DEF LoansHaveCopies
<1>1. r \in sent /\ arg[r] = input[r]
  BY DEF LibraryInv, SagaInv, CallInv, Calls
<1>2. status[r] \notin {"NoRow", "ROLLED_BACK"}
  BY <1>1 DEF LibraryInv, SagaInv, HeardInv
<1>3. status[r] = "PENDING" \/ (status[r] = "ACTIVE" /\ remoteLoanId[r] # NoLoan)
  <2>1. status[r] \in Catalog!RowStatus
    BY DEF Catalog!IInv, Catalog!TypeOK
  <2>2. status[r] = "ACTIVE" => remoteLoanId[r] # NoLoan
    BY DEF Catalog!IInv, Catalog!RowFollowsStage
  <2> QED BY <1>2, <2>1, <2>2 DEF Catalog!RowStatus
<1>4. CASE remoteLoanId[r] = NoLoan
  <2>1. r \in Catalog!HeldRows(input[r].book)
    BY <1>3, <1>4 DEF Catalog!HeldRows, Catalog!Unsettled
  <2>2. r \in Catalog!OutRows(input[r].book)
    BY <2>1 DEF Catalog!OutRows
  <2> QED BY <1>1, <2>2
<1>5. CASE remoteLoanId[r] # NoLoan
  <2>1. r \in Catalog!LentRows(input[r].book)
    BY <1>3, <1>5 DEF Catalog!LentRows, Catalog!RemoteStatus
  <2>2. r \in Catalog!OutRows(input[r].book)
    BY <2>1 DEF Catalog!OutRows
  <2> QED BY <1>1, <2>2
<1> QED BY <1>4, <1>5

\* While answers arrive no saga's loan is compensated for: however the Catalog
\* Service fails, and whatever other clients borrow, each has a row of its own
\* that keeps a copy off the shelf.
THEOREM EachLoanHasItsCopy == Spec => []LoansHaveCopies
BY CopiesKept, LibraryInvariance, CatalogInvariance, PTL

\* So, though the two numbers are kept in two databases, sagas never have more
\* loans of a book out than the library has copies of it.
SagaLoans(b) == {r \in Requests : loan[r] = "active" /\ arg[r].book = b}
LoansWithinCopies ==
  AnswersArrive => \A b \in Books : Cardinality(SagaLoans(b)) <= Catalog!Copies(b)

THEOREM NoMoreLoansThanCopies == Spec => []LoansWithinCopies
<1>1. LibraryInv /\ Catalog!IInv => LoansWithinCopies
  <2> SUFFICES ASSUME LibraryInv, Catalog!IInv, AnswersArrive, NEW b \in Books
               PROVE  Cardinality(SagaLoans(b)) <= Catalog!Copies(b)
    BY DEF LoansWithinCopies
  <2>1. SagaLoans(b) \subseteq Catalog!OutRows(b)
    BY CopiesKept DEF SagaLoans, LoansHaveCopies
  <2>2. IsFiniteSet(Catalog!OutRows(b))
    <3>1. Catalog!OutRows(b) \subseteq Requests
      BY DEF Catalog!OutRows, Catalog!HeldRows, Catalog!LentRows
    <3> QED BY <3>1, FS_Subset, ComponentAssumption
  <2>3. IsFiniteSet(SagaLoans(b)) /\ Cardinality(SagaLoans(b)) <= Cardinality(Catalog!OutRows(b))
    BY <2>1, <2>2, FS_Subset
  <2>4. Cardinality(SagaLoans(b)) \in Nat /\ Cardinality(Catalog!OutRows(b)) \in Nat
    BY <2>2, <2>3, FS_CardinalityType
  <2>5. availableStock[b] \in Int /\ availableStock[b] >= 0
    BY DEF Catalog!IInv, Catalog!TypeOK, Catalog!NoOversell
  <2>6. Catalog!Copies(b) = availableStock[b] + Cardinality(Catalog!OutRows(b))
    BY DEF Catalog!Copies, Cardinality, Catalog!Cardinality
  <2> QED BY <2>3, <2>4, <2>5, <2>6
<1> QED BY <1>1, LibraryInvariance, CatalogInvariance, PTL
=============================================================================
