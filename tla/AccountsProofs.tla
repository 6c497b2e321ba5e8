--------------------------- MODULE AccountsProofs ---------------------------
(***************************************************************************)
(* Proofs about Accounts, for all sets of operations, emails and passwords *)
(* and all faults: the inductive invariant, and that the operations        *)
(* implement the one-instant operations of AccountDirectory.               *)
(***************************************************************************)
EXTENDS Accounts, TLAPS

\* In the initial state nothing has arrived and there is no account.
LEMMA InitInv == Init => IInv
  BY AccountsNulls DEF Init, IInv, TypeOK, EmailsUnique, Underway, Answers

\* An account that is made has the only row with its email.
LEMMA InsertInv ==
  ASSUME IInv, NEW x \in Creators, InsertAccount(x)
  PROVE  IInv'
<1> USE DEF IInv
<1>1. x \in Ops /\ request[x] \in Creations
  BY DEF Underway, InsertAccount, Ops
<1>2. NewAccount(request[x]) \in Accounts
  BY <1>1 DEF NewAccount, Accounts, Creations, Registrations, Seeds, Role
<1>3. /\ DOMAIN account' = DOMAIN account \cup {x}
      /\ \A u \in DOMAIN account' :
           account'[u] = IF u = x THEN NewAccount(request[x]) ELSE account[u]
  BY DEF InsertAccount
<1>4. TypeOK'
  <2>1. DOMAIN account' \subseteq Creators /\ \A u \in DOMAIN account' : account'[u] \in Accounts
    BY <1>2, <1>3 DEF TypeOK
  <2> QED BY <1>1, <2>1 DEF TypeOK, InsertAccount, Answered, Heard, Answers
<1>5. EmailsUnique'
  <2>1. \A u \in DOMAIN account : account[u].email # request[x].email
    BY DEF InsertAccount, EmailFree, EmailTaken, RowOfEmail
  <2>2. NewAccount(request[x]).email = request[x].email
    BY DEF NewAccount
  <2> QED BY <1>3, <2>1, <2>2 DEF EmailsUnique
<1>6. Underway'
  BY <1>1 DEF Underway, TypeOK, InsertAccount, Answered, MayAdminister
<1> QED BY <1>4, <1>5, <1>6

\* A patch carries no email.
LEMMA UpdateInv ==
  ASSUME IInv, NEW x \in Edits, UpdateAccount(x)
  PROVE  IInv'
<1> USE DEF IInv
<1> DEFINE id == request[x].id
           ch == request[x].change
<1>1. x \in Ops /\ request[x] \in Patches /\ id \in DOMAIN account
  BY DEF UpdateAccount, Ops
<1>2. ch \in Changes
  BY <1>1 DEF Patches
<1>3. account[id] \in Accounts
  BY <1>1 DEF TypeOK
<1>4. /\ Patched(account[id], ch) \in Accounts
      /\ Patched(account[id], ch).email = account[id].email
  BY <1>2, <1>3 DEF Patched, Changes, AllChanges, Accounts, Role
<1>5. /\ DOMAIN account' = DOMAIN account
      /\ \A u \in DOMAIN account :
           account'[u] = IF u = id THEN Patched(account[id], ch) ELSE account[u]
  BY DEF UpdateAccount
<1>6. TypeOK'
  <2>1. DOMAIN account' \subseteq Creators /\ \A u \in DOMAIN account' : account'[u] \in Accounts
    BY <1>4, <1>5 DEF TypeOK
  <2> QED BY <1>1, <2>1 DEF TypeOK, UpdateAccount, Answered, Heard, Answers
<1>7. EmailsUnique'
  BY <1>4, <1>5 DEF EmailsUnique
<1>8. Underway'
  BY <1>1 DEF Underway, TypeOK, UpdateAccount, Answered, MayAdminister
<1> QED BY <1>6, <1>7, <1>8

LEMMA DeleteInv ==
  ASSUME IInv, NEW x \in Edits, DeleteAccount(x)
  PROVE  IInv'
<1> USE DEF IInv
<1>1. x \in Ops
  BY DEF Ops
<1>2. /\ DOMAIN account' = DOMAIN account \ {request[x].id}
      /\ \A u \in DOMAIN account' : account'[u] = account[u]
  BY DEF DeleteAccount
<1>3. TypeOK'
  <2>1. DOMAIN account' \subseteq Creators /\ \A u \in DOMAIN account' : account'[u] \in Accounts
    BY <1>2 DEF TypeOK
  <2> QED BY <1>1, <2>1 DEF TypeOK, DeleteAccount, Answered, Heard, Answers
<1>4. EmailsUnique'
  BY <1>2 DEF EmailsUnique
<1>5. Underway'
  BY <1>1 DEF Underway, TypeOK, DeleteAccount, Answered, MayAdminister
<1> QED BY <1>3, <1>4, <1>5

\* The steps that write no row: those of the creators,
LEMMA CreatorInv ==
  ASSUME IInv, NEW x \in Creators,
         (\E q \in Creations : LookForEmail(x, q)) \/ InsertFails(x)
  PROVE  IInv'
<1> USE DEF IInv
<1>1. x \in Ops
  BY DEF Ops
<1>2. CASE \E q \in Creations : LookForEmail(x, q)
  <2>1. PICK q \in Creations : LookForEmail(x, q)
    BY <1>2
  <2>2. q # NoRequest
    BY AccountsNulls
  <2>3. UNCHANGED <<account, tokens, found>>
    BY <2>1 DEF LookForEmail
  <2>4. /\ stage[x] = "idle" /\ request' = [request EXCEPT ![x] = q]
        /\ \/ stage' = [stage EXCEPT ![x] = "write"] /\ answer' = answer
           \/ /\ stage' = [stage EXCEPT ![x] = "done"]
              /\ \E a \in Answers : answer' = [answer EXCEPT ![x] = a]
    BY <2>1 DEF LookForEmail, Arrives, Answered, GoesOn, DbErrors, Answers
  <2>5. TypeOK'
    BY <1>1, <2>3, <2>4 DEF TypeOK
  <2>6. Underway'
    BY <1>1, <2>2, <2>3, <2>4, AccountsAssumption DEF Underway, TypeOK, MayAdminister
  <2> QED BY <2>3, <2>5, <2>6 DEF EmailsUnique
<1>3. CASE InsertFails(x)
  <2>1. /\ stage[x] = "write" /\ stage' = [stage EXCEPT ![x] = "done"]
        /\ \E a \in Answers : answer' = [answer EXCEPT ![x] = a]
        /\ UNCHANGED <<account, tokens, request, found>>
    BY <1>3 DEF InsertFails, Answered, DbErrors, Answers
  <2> QED BY <1>1, <2>1 DEF TypeOK, Underway, EmailsUnique, MayAdminister
<1> QED BY <1>2, <1>3

\* those of the logins,
LEMMA LoginInv ==
  ASSUME IInv, NEW x \in Logins,
         (\E q \in Credentials : ReadForLogin(x, q)) \/ Compare(x)
  PROVE  IInv'
<1> USE DEF IInv
<1>1. x \in Ops
  BY DEF Ops
<1>2. CASE \E q \in Credentials : ReadForLogin(x, q)
  <2>1. PICK q \in Credentials : ReadForLogin(x, q)
    BY <1>2
  <2>2. q # NoRequest
    BY AccountsNulls
  <2>3. /\ UNCHANGED <<account, tokens>>
        /\ stage[x] = "idle" /\ request' = [request EXCEPT ![x] = q]
    BY <2>1 DEF ReadForLogin, Arrives
  <2>4. \/ /\ stage' = [stage EXCEPT ![x] = "compare"] /\ answer' = answer
           /\ \E f \in Found : found' = [found EXCEPT ![x] = f]
        \/ /\ stage' = [stage EXCEPT ![x] = "done"] /\ found' = found
           /\ \E a \in Answers : answer' = [answer EXCEPT ![x] = a]
    <3>1. CASE \E u \in DOMAIN account :
                 /\ found' = [found EXCEPT ![x] =
                                [sub |-> u, role |-> account[u].role,
                                 password |-> account[u].password]]
                 /\ GoesOn(x, "compare")
      BY <3>1 DEF GoesOn, Found, TypeOK, Accounts
    <3>2. CASE (\E as : Answered(x, as) /\ as \subseteq Answers) /\ UNCHANGED found
      BY <3>2 DEF Answered
    <3> QED BY <2>1, <3>1, <3>2 DEF ReadForLogin, DbErrors, Answers
  <2>5. TypeOK'
    BY <1>1, <2>3, <2>4 DEF TypeOK
  <2>6. Underway'
    BY <1>1, <2>2, <2>3, <2>4, AccountsAssumption, AccountsNulls
       DEF Underway, TypeOK, MayAdminister
  <2> QED BY <2>3, <2>5, <2>6 DEF EmailsUnique
<1>3. CASE Compare(x)
  <2>1. /\ stage[x] = "compare" /\ stage' = [stage EXCEPT ![x] = "done"]
        /\ \E a \in Answers : answer' = [answer EXCEPT ![x] = a]
        /\ UNCHANGED <<account, request, found>>
    BY <1>3 DEF Compare, Answered, Answers
  <2>2. found[x] \in Found
    BY <1>1, <2>1 DEF Underway, TypeOK
  <2>3. tokens \subseteq tokens' /\ tokens' \subseteq TokenPayload
    BY <1>3, <2>2 DEF Compare, TypeOK, Claims, Found, TokenPayload
  <2> QED BY <1>1, <2>1, <2>3 DEF TypeOK, Underway, EmailsUnique, MayAdminister
<1> QED BY <1>2, <1>3

\* and those of the edits.
LEMMA EditInv ==
  ASSUME IInv, NEW x \in Edits,
         (\E q \in Patches \cup Removals : GuardAndRead(x, q)) \/ EditFails(x)
  PROVE  IInv'
<1> USE DEF IInv
<1>1. x \in Ops
  BY DEF Ops
<1>2. CASE \E q \in Patches \cup Removals : GuardAndRead(x, q)
  <2>1. PICK q \in Patches \cup Removals : GuardAndRead(x, q)
    BY <1>2
  <2>2. q # NoRequest
    BY AccountsNulls
  <2>3. /\ UNCHANGED <<account, tokens, found>>
        /\ stage[x] = "idle" /\ request' = [request EXCEPT ![x] = q]
    BY <2>1 DEF GuardAndRead, Arrives
  <2>4. \/ /\ stage' = [stage EXCEPT ![x] = "write"] /\ answer' = answer
           /\ q.by \in tokens /\ MayAdminister(q.by)
        \/ /\ stage' = [stage EXCEPT ![x] = "done"]
           /\ \E a \in Answers : answer' = [answer EXCEPT ![x] = a]
    BY <2>1 DEF GuardAndRead, GoesOn, Answered, DbErrors, Answers
  <2>5. TypeOK'
    BY <1>1, <2>3, <2>4 DEF TypeOK
  <2>6. Underway'
    BY <1>1, <2>2, <2>3, <2>4, AccountsAssumption DEF Underway, TypeOK, MayAdminister
  <2> QED BY <2>3, <2>5, <2>6 DEF EmailsUnique
<1>3. CASE EditFails(x)
  <2>1. /\ stage[x] = "write" /\ stage' = [stage EXCEPT ![x] = "done"]
        /\ \E a \in Answers : answer' = [answer EXCEPT ![x] = a]
        /\ UNCHANGED <<account, tokens, request, found>>
    BY <1>3 DEF EditFails, Answered, Answers
  <2> QED BY <1>1, <2>1 DEF TypeOK, Underway, EmailsUnique, MayAdminister
<1> QED BY <1>2, <1>3

\* The requests of Next are requests.
LEMMA EditRequests ==
  ASSUME IInv, NEW t \in tokens \cup {NoToken}, NEW u \in Creators
  PROVE  /\ \A ch \in Changes :
              [kind |-> "patch", by |-> t, id |-> u, change |-> ch] \in Patches
         /\ [kind |-> "remove", by |-> t, id |-> u] \in Removals
BY DEF IInv, TypeOK, Patches, Removals, Bearers

\* Every step has one of these forms.
LEMMA StepForms ==
  ASSUME IInv, [Next]_vars
  PROVE  \/ \E x \in Creators :
              \/ (\E q \in Creations : LookForEmail(x, q)) \/ InsertFails(x)
              \/ InsertAccount(x)
         \/ \E x \in Logins :
              (\E q \in Credentials : ReadForLogin(x, q)) \/ Compare(x)
         \/ \E x \in Edits :
              \/ (\E q \in Patches \cup Removals : GuardAndRead(x, q)) \/ EditFails(x)
              \/ UpdateAccount(x)
              \/ DeleteAccount(x)
         \/ UNCHANGED vars
BY EditRequests DEF Next

\* The inductive invariant holds in every state.
THEOREM AccountsInvariance == Spec => []IInv
<1>1. Init => IInv
  BY InitInv
<1>2. IInv /\ [Next]_vars => IInv'
  <2> SUFFICES ASSUME IInv, [Next]_vars PROVE IInv'
    OBVIOUS
  <2>1. CASE UNCHANGED vars
    BY <2>1 DEF vars, IInv, TypeOK, EmailsUnique, Underway
  <2> QED BY <2>1, StepForms, InsertInv, UpdateInv, DeleteInv, CreatorInv, LoginInv, EditInv
<1> QED BY <1>1, <1>2, PTL DEF Spec

\* There is never a second account for an email, for any number of operations,
\* however the database fails: the index keeps what the look-up cannot.
THEOREM OneAccountPerEmail == Spec => []EmailsUnique
<1>1. IInv => EmailsUnique
  BY DEF IInv
<1> QED BY <1>1, AccountsInvariance, PTL

\* Rows, tokens and executions have their types.
THEOREM AccountsTyped == Spec => []TypeOK
<1>1. IInv => TypeOK
  BY DEF IInv
<1> QED BY <1>1, AccountsInvariance, PTL
=============================================================================
