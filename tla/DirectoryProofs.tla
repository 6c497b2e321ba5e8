-------------------------- MODULE DirectoryProofs --------------------------
(***************************************************************************)
(* Accounts implements AccountDirectory.  A creator or an edit is done at  *)
(* the step that answers it; a login at the step that reads its row, which *)
(* is sound because no other row has that email (EmailsUnique).            *)
(***************************************************************************)
EXTENDS AccountsProofs

\* The request of x, which is q, is remembered.
Remembers(x, q) == request' = [request EXCEPT ![x] = q]

vars_bar == <<account, TokensDecided, AskedDecided, AnswerDecided>>

LEMMA DirectoryInit == Init => Directory!Init
  BY DEF Init, Directory!Init, Directory!Ops, Ops, TokensDecided, Winners,
         AskedDecided, AnswerDecided

\* A step that answers x, which is not a login under way, is the one at which
\* x is done.
LEMMA Ending ==
  ASSUME IInv, NEW x \in Ops, NEW q, q # NoRequest, NEW as,
         stage[x] \in {"idle", "write"},
         Remembers(x, q),
         Answered(x, as), UNCHANGED <<tokens, found>>
  PROVE  Directory!Ends(x) /\ Directory!Done(x, q, as) /\ TokensDecided' = TokensDecided
<1>1. /\ stage' = [stage EXCEPT ![x] = "done"]
      /\ \E a \in as : answer' = [answer EXCEPT ![x] = a]
  BY DEF Answered
<1>2. /\ stage \in [Ops -> {"idle", "compare", "write", "done"}]
      /\ DOMAIN request = Ops /\ DOMAIN answer = Ops
  BY DEF IInv, TypeOK
<1>3. AskedDecided[x] = NoRequest /\ AskedDecided'[x] = q
  BY <1>1, <1>2 DEF AskedDecided, Remembers
<1>4. AskedDecided' = [AskedDecided EXCEPT ![x] = q]
  BY <1>1, <1>2 DEF AskedDecided, Remembers
<1>5. ASSUME NEW a \in as, answer' = [answer EXCEPT ![x] = a]
      PROVE  AnswerDecided' = [AnswerDecided EXCEPT ![x] = a]
  BY <1>1, <1>2, <1>5 DEF AnswerDecided, Matches, Remembers
<1>6. Winners' = Winners
  BY <1>1, <1>2 DEF Winners, Matches, Remembers
<1>7. TokensDecided' = TokensDecided
  BY <1>6 DEF TokensDecided
<1> QED BY <1>1, <1>3, <1>4, <1>5, <1>7 DEF Directory!Ends, Directory!Done

\* A step after which x waits to write shows nothing.
LEMMA Waiting ==
  ASSUME IInv, NEW x \in Ops, NEW q, stage[x] = "idle",
         Remembers(x, q),
         GoesOn(x, "write"), UNCHANGED <<account, tokens, found>>
  PROVE  UNCHANGED vars_bar
<1>1. stage' = [stage EXCEPT ![x] = "write"] /\ answer' = answer
  BY DEF GoesOn
<1>2. /\ stage \in [Ops -> {"idle", "compare", "write", "done"}]
      /\ DOMAIN request = Ops /\ DOMAIN answer = Ops
  BY DEF IInv, TypeOK
<1>3. AskedDecided' = AskedDecided
  BY <1>1, <1>2 DEF AskedDecided, Remembers
<1>4. AnswerDecided' = AnswerDecided
  BY <1>1, <1>2 DEF AnswerDecided, Matches, Remembers
<1>5. Winners' = Winners
  BY <1>1, <1>2 DEF Winners, Matches, Remembers
<1> QED BY <1>3, <1>4, <1>5 DEF vars_bar, TokensDecided

-----------------------------------------------------------------------------
LEMMA CreatorStep ==
  ASSUME IInv, NEW x \in Creators,
         \/ \E q \in Creations : LookForEmail(x, q)
         \/ InsertAccount(x) \/ InsertFails(x)
  PROVE  Directory!Next \/ UNCHANGED vars_bar
<1>1. x \in Ops
  BY DEF Ops
<1>2. ASSUME NEW q \in Creations, LookForEmail(x, q)
      PROVE  Directory!Next \/ UNCHANGED vars_bar
  <2>1. /\ stage[x] = "idle" /\ Remembers(x, q)
        /\ q # NoRequest /\ UNCHANGED <<account, tokens, found>>
    BY <1>2, AccountsNulls DEF LookForEmail, Arrives, Remembers
  <2>2. CASE GoesOn(x, "write")
    BY <1>1, <2>1, <2>2, Waiting
  <2>3. CASE EmailTaken(q.email)
             /\ Answered(x, {IF q.kind = "seed" THEN "ready" ELSE "conflict"})
    <3>1. Directory!FindTaken(x, q) /\ Directory!Ends(x)
      <4>1. /\ Directory!Ends(x) /\ TokensDecided' = TokensDecided
            /\ Directory!Done(x, q, {IF q.kind = "seed" THEN "ready" ELSE "conflict"})
        BY <1>1, <2>1, <2>3, Ending
      <4> QED BY <1>1, <2>1, <2>3, <4>1
         DEF Directory!FindTaken, Directory!Taken, EmailTaken, RowOfEmail
    <3> QED BY <3>1 DEF Directory!Next
  <2>4. CASE Answered(x, DbErrors)
    <3>1. Answered(x, {"error"})
      BY <2>4 DEF Answered, DbErrors
    <3>2. Directory!Fail(x, q) /\ Directory!Ends(x)
      <4>1. /\ Directory!Ends(x) /\ TokensDecided' = TokensDecided
            /\ Directory!Done(x, q, {"error"})
        BY <1>1, <2>1, <3>1, Ending
      <4> QED BY <1>1, <2>1, <3>1, <4>1 DEF Directory!Fail
    <3> QED BY <3>2 DEF Directory!Next
  <2> QED BY <1>2, <2>2, <2>3, <2>4 DEF LookForEmail
<1>3. ASSUME stage[x] = "write", UNCHANGED request
      PROVE  /\ request[x] \in Creations /\ request[x] # NoRequest
             /\ Remembers(x, request[x])
  BY <1>1, <1>3, AccountsNulls DEF IInv, Underway, TypeOK, Remembers
<1>4. CASE InsertAccount(x)
  <2> DEFINE q == request[x]
  <2>1. /\ stage[x] = "write" /\ UNCHANGED <<tokens, request, found>>
        /\ Answered(x, Heard("created"))
    BY <1>4 DEF InsertAccount
  <2>2. Answered(x, {"created", "error"})
    BY <2>1 DEF Answered, Heard
  <2>3. /\ Directory!Ends(x) /\ Directory!Done(x, q, {"created", "error"})
        /\ TokensDecided' = TokensDecided
    BY <1>1, <1>3, <2>1, <2>2, Ending
  <2>4. Directory!Create(x, q)
    BY <1>4, <2>3 DEF InsertAccount, Directory!Create, Directory!Taken, EmailFree,
                      EmailTaken, RowOfEmail, NewAccount
  <2> QED BY <1>3, <2>1, <2>3, <2>4 DEF Directory!Next
<1>5. CASE InsertFails(x)
  <2>1. /\ stage[x] = "write" /\ UNCHANGED <<account, tokens, request, found>>
        /\ Answered(x, {"error"})
    BY <1>5 DEF InsertFails, Answered, DbErrors
  <2>2. Directory!Fail(x, request[x]) /\ Directory!Ends(x)
    BY <1>1, <1>3, <2>1, Ending DEF Directory!Fail
  <2> QED BY <1>3, <2>1, <2>2 DEF Directory!Next
<1> QED BY <1>2, <1>4, <1>5

-----------------------------------------------------------------------------
\* The step that reads the row of a login is the one at which it is done.
LEMMA ReadStep ==
  ASSUME IInv, NEW x \in Logins, NEW q \in Credentials, ReadForLogin(x, q)
  PROVE  Directory!Next \/ UNCHANGED vars_bar
<1>1. /\ x \in Ops /\ q # NoRequest /\ stage[x] = "idle"
      /\ Remembers(x, q) /\ UNCHANGED <<account, tokens>>
  BY AccountsNulls DEF Ops, ReadForLogin, Arrives, Remembers
<1>2. CASE Answered(x, DbErrors) /\ UNCHANGED found
  <2>1. Answered(x, {"error"})
    BY <1>2 DEF Answered, DbErrors
  <2>2. Directory!Fail(x, q) /\ Directory!Ends(x)
    <3>1. /\ Directory!Ends(x) /\ TokensDecided' = TokensDecided
          /\ Directory!Done(x, q, {"error"})
      BY <1>1, <1>2, <2>1, Ending
    <3> QED BY <1>1, <1>2, <2>1, <3>1 DEF Directory!Fail
  <2> QED BY <2>2 DEF Directory!Next
<1>3. CASE /\ ~\E u \in DOMAIN account : MayLogIn(u, q.email)
           /\ Answered(x, {"unauthorized"}) /\ UNCHANGED found
  <2>1. Directory!TurnAway(x, q) /\ Directory!Ends(x)
    <3>1. /\ Directory!Ends(x) /\ TokensDecided' = TokensDecided
          /\ Directory!Done(x, q, {"unauthorized"})
      BY <1>1, <1>3, Ending
    <3> QED BY <1>1, <1>3, <3>1
       DEF Directory!TurnAway, Directory!Opens, MayLogIn, RowOfEmail
  <2> QED BY <2>1 DEF Directory!Next
<1>4. ASSUME NEW u \in DOMAIN account, MayLogIn(u, q.email),
             found' = [found EXCEPT ![x] = [sub |-> u, role |-> account[u].role,
                                            password |-> account[u].password]],
             GoesOn(x, "compare")
      PROVE  Directory!Next
  <2>1. /\ stage \in [Ops -> {"idle", "compare", "write", "done"}]
        /\ DOMAIN request = Ops /\ DOMAIN answer = Ops /\ DOMAIN found = Ops
    BY DEF IInv, TypeOK
  <2>2. stage' = [stage EXCEPT ![x] = "compare"] /\ answer' = answer
    BY <1>4 DEF GoesOn
  <2>3. AskedDecided' = [AskedDecided EXCEPT ![x] = q]
    BY <1>1, <2>1, <2>2 DEF AskedDecided, Remembers
  <2>4. AskedDecided[x] = NoRequest /\ AskedDecided'[x] = q
    BY <1>1, <2>1, <2>2 DEF AskedDecided, Remembers
  <2>5. found'[x].password = account[u].password /\ request'[x] = q
    BY <1>1, <1>4, <2>1 DEF Remembers
  <2>6. AnswerDecided' = [AnswerDecided EXCEPT ![x] =
          IF account[u].password = q.password THEN "token" ELSE "unauthorized"]
    BY <1>1, <1>4, <2>1, <2>2, <2>5 DEF AnswerDecided, Matches, Remembers
  <2>7. Directory!Ends(x)
    BY <1>1, <2>4 DEF Directory!Ends
  <2>8. \A y \in Ops \ {x} : found'[y] = found[y] /\ (y \in Winners' <=> y \in Winners)
    BY <1>1, <1>4, <2>1, <2>2 DEF Winners, Matches, Remembers
  <2>9. x \notin Winners
    BY <1>1 DEF Winners
  <2>10. CASE account[u].password = q.password
    <3>1. Directory!Done(x, q, {"token"})
      BY <2>3, <2>4, <2>6, <2>10 DEF Directory!Done
    <3>2. Winners' = Winners \cup {x}
      BY <1>1, <2>1, <2>2, <2>5, <2>8, <2>10 DEF Winners, Matches, Remembers
    <3>3. Claims(found'[x]) = [sub |-> u, role |-> account[u].role]
      BY <1>1, <1>4, <2>1 DEF Claims
    <3>4. TokensDecided' = TokensDecided \cup {[sub |-> u, role |-> account[u].role]}
      <4>1. {Claims(found'[y]) : y \in Winners'} =
              {Claims(found[y]) : y \in Winners} \cup {Claims(found'[x])}
        BY <2>8, <2>9, <3>2 DEF Winners
      <4> QED BY <1>1, <3>3, <4>1 DEF TokensDecided
    <3>5. Directory!LogIn(x, q)
      BY <1>1, <1>4, <2>10, <3>1, <3>4
         DEF Directory!LogIn, Directory!Opens, MayLogIn, RowOfEmail
    <3> QED BY <2>7, <3>5 DEF Directory!Next
  <2>11. CASE account[u].password # q.password
    <3>1. Directory!Done(x, q, {"unauthorized"})
      BY <2>3, <2>4, <2>6, <2>11 DEF Directory!Done
    <3>2. Winners' = Winners
      BY <1>1, <2>1, <2>2, <2>5, <2>8, <2>9, <2>11 DEF Winners, Matches, Remembers
    <3>3. TokensDecided' = TokensDecided
      <4>1. {Claims(found'[y]) : y \in Winners'} = {Claims(found[y]) : y \in Winners}
        BY <2>8, <2>9, <3>2 DEF Winners
      <4> QED BY <1>1, <4>1 DEF TokensDecided
    \* The only row with this email is u's, and its password is another.
    <3>4. ~\E v \in DOMAIN account : Directory!Opens(q, v)
      BY <1>4, <2>11 DEF IInv, EmailsUnique, Directory!Opens, MayLogIn, RowOfEmail
    <3>5. Directory!TurnAway(x, q)
      BY <1>1, <3>1, <3>3, <3>4 DEF Directory!TurnAway
    <3> QED BY <2>7, <3>5 DEF Directory!Next
  <2> QED BY <2>10, <2>11
<1> QED BY <1>2, <1>3, <1>4 DEF ReadForLogin

\* Comparing and signing only hand out what was decided.
LEMMA CompareStep ==
  ASSUME IInv, NEW x \in Logins, Compare(x)
  PROVE  UNCHANGED vars_bar
<1>1. /\ x \in Ops /\ stage[x] = "compare"
      /\ stage' = [stage EXCEPT ![x] = "done"]
      /\ UNCHANGED <<account, request, found>>
      /\ answer' = [answer EXCEPT ![x] = IF Matches(x) THEN "token" ELSE "unauthorized"]
      /\ tokens' = IF Matches(x) THEN tokens \cup {Claims(found[x])} ELSE tokens
  BY DEF Ops, Compare, Answered, Matches
<1>2. /\ stage \in [Ops -> {"idle", "compare", "write", "done"}]
      /\ DOMAIN request = Ops /\ DOMAIN answer = Ops
  BY DEF IInv, TypeOK
<1>3. AskedDecided' = AskedDecided
  BY <1>1, <1>2 DEF AskedDecided, Remembers
<1>4. AnswerDecided' = AnswerDecided
  BY <1>1, <1>2 DEF AnswerDecided, Matches, Remembers
<1>5. Winners' = Winners \ {x} /\ (x \in Winners <=> Matches(x))
  BY <1>1, <1>2 DEF Winners, Matches, Remembers
<1>6. TokensDecided' = TokensDecided
  <2>1. CASE Matches(x)
    BY <1>1, <1>5, <2>1 DEF TokensDecided
  <2>2. CASE ~Matches(x)
    BY <1>1, <1>5, <2>2 DEF TokensDecided
  <2> QED BY <2>1, <2>2
<1> QED BY <1>1, <1>3, <1>4, <1>6 DEF vars_bar

-----------------------------------------------------------------------------
LEMMA EditStep ==
  ASSUME IInv, NEW x \in Edits,
         \/ \E q \in Patches \cup Removals : GuardAndRead(x, q)
         \/ UpdateAccount(x) \/ DeleteAccount(x) \/ EditFails(x)
  PROVE  Directory!Next \/ UNCHANGED vars_bar
<1>1. x \in Ops
  BY DEF Ops
<1>2. ASSUME NEW q \in Patches \cup Removals, GuardAndRead(x, q)
      PROVE  Directory!Next \/ UNCHANGED vars_bar
  <2>1. /\ stage[x] = "idle" /\ Remembers(x, q)
        /\ q # NoRequest /\ UNCHANGED <<account, tokens, found>>
        /\ q.by \in tokens \cup {NoToken}
    BY <1>2, AccountsNulls DEF GuardAndRead, Arrives, Remembers
  <2>2. CASE GoesOn(x, "write")
    BY <1>1, <2>1, <2>2, Waiting
  <2>3. CASE Answered(x, {"unauthorized"})
    <3>1. Answered(x, {"unauthorized"}
                      \cup (IF Directory!ByAdmin(q) THEN {} ELSE {"forbidden"}))
      BY <2>3 DEF Answered
    <3>2. Directory!Forbid(x, q) /\ Directory!Ends(x)
      <4>1. /\ Directory!Ends(x) /\ TokensDecided' = TokensDecided
            /\ Directory!Done(x, q, {"unauthorized"}
               \cup (IF Directory!ByAdmin(q) THEN {} ELSE {"forbidden"}))
        BY <1>1, <2>1, <3>1, Ending
      <4> QED BY <1>1, <2>1, <3>1, <4>1 DEF Directory!Forbid
    <3> QED BY <3>2 DEF Directory!Next
  <2>4. CASE ~MayAdminister(q.by) /\ Answered(x, {"forbidden"})
    <3>1. Answered(x, {"unauthorized"}
                      \cup (IF Directory!ByAdmin(q) THEN {} ELSE {"forbidden"}))
      BY <2>4 DEF Answered, MayAdminister, Directory!ByAdmin
    <3>2. Directory!Forbid(x, q) /\ Directory!Ends(x)
      <4>1. /\ Directory!Ends(x) /\ TokensDecided' = TokensDecided
            /\ Directory!Done(x, q, {"unauthorized"}
               \cup (IF Directory!ByAdmin(q) THEN {} ELSE {"forbidden"}))
        BY <1>1, <2>1, <3>1, Ending
      <4> QED BY <1>1, <2>1, <3>1, <4>1 DEF Directory!Forbid
    <3> QED BY <3>2 DEF Directory!Next
  <2>5. CASE /\ q.by # NoToken /\ MayAdminister(q.by)
             /\ q.id \notin DOMAIN account /\ Answered(x, {"notFound"})
    <3>1. Directory!ByAdmin(q)
      BY <2>1, <2>5 DEF Directory!ByAdmin, MayAdminister, TokensDecided
    <3>2. Directory!FindNone(x, q) /\ Directory!Ends(x)
      <4>1. /\ Directory!Ends(x) /\ TokensDecided' = TokensDecided
            /\ Directory!Done(x, q, {"notFound"})
        BY <1>1, <2>1, <2>5, <3>1, Ending
      <4> QED BY <1>1, <2>1, <2>5, <3>1, <4>1 DEF Directory!FindNone
    <3> QED BY <3>2 DEF Directory!Next
  <2>6. CASE Answered(x, DbErrors)
    <3>1. Answered(x, {"error"})
      BY <2>6 DEF Answered, DbErrors
    <3>2. Directory!Fail(x, q) /\ Directory!Ends(x)
      <4>1. /\ Directory!Ends(x) /\ TokensDecided' = TokensDecided
            /\ Directory!Done(x, q, {"error"})
        BY <1>1, <2>1, <3>1, Ending
      <4> QED BY <1>1, <2>1, <3>1, <4>1 DEF Directory!Fail
    <3> QED BY <3>2 DEF Directory!Next
  <2> QED BY <1>2, <2>2, <2>3, <2>4, <2>5, <2>6 DEF GuardAndRead
<1>3. ASSUME stage[x] = "write", UNCHANGED request
      PROVE  /\ request[x] \in Patches \cup Removals /\ request[x] # NoRequest
             /\ Remembers(x, request[x])
             /\ Directory!ByAdmin(request[x])
  BY <1>1, <1>3, AccountsNulls
     DEF IInv, Underway, TypeOK, Directory!ByAdmin, MayAdminister, TokensDecided,
         Remembers
<1>4. ASSUME stage[x] = "write", UNCHANGED <<tokens, request, found>>,
             Answered(x, Heard("done"))
      PROVE  /\ Directory!Ends(x) /\ Directory!Done(x, request[x], {"done", "error"})
             /\ TokensDecided' = TokensDecided
  <2>1. Answered(x, {"done", "error"})
    BY <1>4 DEF Answered, Heard
  <2> QED BY <1>1, <1>3, <1>4, <2>1, Ending
<1>5. CASE UpdateAccount(x)
  <2>1. /\ stage[x] = "write" /\ request[x] \in Patches
        /\ UNCHANGED <<tokens, request, found>> /\ Answered(x, Heard("done"))
    BY <1>5 DEF UpdateAccount
  <2>2. Directory!Patch(x, request[x])
    BY <1>3, <1>4, <1>5, <2>1 DEF UpdateAccount, Directory!Patch, Patched
  <2> QED BY <1>4, <2>1, <2>2 DEF Directory!Next
<1>6. CASE DeleteAccount(x)
  <2>1. /\ stage[x] = "write" /\ request[x] \in Removals
        /\ UNCHANGED <<tokens, request, found>> /\ Answered(x, Heard("done"))
    BY <1>6 DEF DeleteAccount
  <2>2. Directory!Remove(x, request[x])
    BY <1>3, <1>4, <1>6, <2>1 DEF DeleteAccount, Directory!Remove
  <2> QED BY <1>4, <2>1, <2>2 DEF Directory!Next
<1>7. CASE EditFails(x)
  <2>1. /\ stage[x] = "write" /\ UNCHANGED <<account, tokens, request, found>>
        /\ Answered(x, {"error"})
    BY <1>7 DEF EditFails
  <2>2. Directory!Fail(x, request[x]) /\ Directory!Ends(x)
    BY <1>1, <1>3, <2>1, Ending DEF Directory!Fail
  <2> QED BY <1>3, <2>1, <2>2 DEF Directory!Next
<1> QED BY <1>2, <1>5, <1>6, <1>7

\* Registering, logging in, patching and removing are as if done in one instant
\* each, for any number of them, any interleaving and all faults.
THEOREM DirectoryKept == Spec => DirectorySpec
<1>1. Init => Directory!Init
  BY DirectoryInit
<1>2. IInv /\ [Next]_vars => [Directory!Next]_(Directory!directory)
  <2> SUFFICES ASSUME IInv, [Next]_vars PROVE Directory!Next \/ UNCHANGED vars_bar
    BY DEF vars_bar, Directory!directory
  <2>1. CASE UNCHANGED vars
    BY <2>1 DEF vars, vars_bar, TokensDecided, AskedDecided, AnswerDecided, Winners, Matches
  <2> QED BY <2>1, StepForms, CreatorStep, ReadStep, CompareStep, EditStep
<1> QED BY <1>1, <1>2, AccountsInvariance, PTL DEF Spec, DirectorySpec, Directory!Spec
=============================================================================
