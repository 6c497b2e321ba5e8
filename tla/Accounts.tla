------------------------------ MODULE Accounts ------------------------------
(***************************************************************************)
(* The users table of the Catalog Service and the operations on it: the    *)
(* public registration and the administrator's seed, both of which look    *)
(* for the email, hash the password and then insert; the login, which      *)
(* reads the account, compares the password and then signs what it read;   *)
(* and the administrator's patch and removal behind the two guards, which  *)
(* ask the token and never the table.                                      *)
(*                                                                         *)
(* An operation's first step is its arrival up to its first query, its     *)
(* second what follows the await in between.  The guards read only the     *)
(* token, so one step does for them and the query after them.  A user id   *)
(* is a fresh UUID: the operation that made the account stands for it.     *)
(* The column of the hash holds the password it is the hash of, as bcrypt  *)
(* tells the passwords apart.  Left out: the name, timestamps, reads, and  *)
(* the email among a token's claims, which nothing reads.                  *)
(***************************************************************************)
CONSTANTS
  Creators,     \* executions of POST /users and of the seed's seedAdmin
  Logins,       \* executions of POST /auth/login
  Edits,        \* executions of PATCH and DELETE /admin/users/:id
  Emails, Passwords,
  Columns,      \* the sets of columns that a patch may carry: a bound
  AccountFaults,  \* the faults that may happen, see AccountFaultKinds
  NoToken,      \* a request without a valid bearer token
  NoRequest,    \* an operation that has not arrived
  NoOne         \* findByEmail found no active account

\* "db": a query fails and leaves nothing; "ack": a write commits and the
\* driver hears of a failure.
AccountFaultKinds == {"db", "ack"}

ASSUME AccountsAssumption ==
  /\ AccountFaults \subseteq AccountFaultKinds
  /\ Creators \cap Logins = {}
  /\ Creators \cap Edits = {}
  /\ Logins \cap Edits = {}

VARIABLES
  account,   \* account[u]: the row u; the domain is the rows that are there
  tokens,    \* the claims of the tokens the service signed
  stage,     \* stage[x]: the await x stands at
  request,   \* request[x]: what x was asked
  found,     \* found[x]: what a login remembers of the row it read
  answer     \* answer[x]: what the client, or the seed's caller, was told

vars == <<account, tokens, stage, request, found, answer>>

Ops == Creators \cup Logins \cup Edits
Role == {"ADMIN", "USER"}
Accounts == [email : Emails, password : Passwords, role : Role, active : BOOLEAN]
TokenPayload == [sub : Creators, role : Role]
Found == [sub : Creators, role : Role, password : Passwords]

\* What a creator may ask: the public route leaves the choice of the role to
\* its caller, and the seed makes an administrator.
Registrations ==
  [kind : {"register"}, email : Emails, password : Passwords, role : Role]
Seeds == [kind : {"seed"}, email : Emails, password : Passwords, role : {"ADMIN"}]
Creations == Registrations \cup Seeds

Credentials == [kind : {"login"}, email : Emails, password : Passwords]
\* UpdateUserPatch, with the columns it may carry; the name is left out, so a
\* patch of the name alone would change nothing here.
AllChanges ==
  [role : Role] \cup [active : BOOLEAN] \cup [password : Passwords]
  \cup [role : Role, active : BOOLEAN] \cup [role : Role, password : Passwords]
  \cup [active : BOOLEAN, password : Passwords]
  \cup [role : Role, active : BOOLEAN, password : Passwords]
Changes == {ch \in AllChanges : DOMAIN ch \in Columns}
Bearers == TokenPayload \cup {NoToken}
Patches == [kind : {"patch"}, by : Bearers, id : Creators, change : Changes]
Removals == [kind : {"remove"}, by : Bearers, id : Creators]

\* "error" stands for every 500: Prisma's errors are no DomainException, so
\* the filter lets them pass.
Answers == {"none", "created", "conflict", "ready", "token", "unauthorized",
            "forbidden", "notFound", "done", "error"}

ASSUME AccountsNulls ==
  /\ NoRequest \notin Creations \cup Credentials \cup Patches \cup Removals
  /\ NoOne \notin Found
  /\ NoToken \notin TokenPayload

TypeOK ==
  /\ DOMAIN account \subseteq Creators
  /\ \A u \in DOMAIN account : account[u] \in Accounts
  /\ tokens \subseteq TokenPayload
  /\ stage \in [Ops -> {"idle", "compare", "write", "done"}]
  /\ request \in [Ops -> Creations \cup Credentials \cup Patches \cup Removals
                         \cup {NoRequest}]
  /\ found \in [Ops -> Found \cup {NoOne}]
  /\ answer \in [Ops -> Answers]

Init ==
  /\ account = [u \in {} |-> 0]
  /\ tokens = {}
  /\ stage = [x \in Ops |-> "idle"]
  /\ request = [x \in Ops |-> NoRequest]
  /\ found = [x \in Ops |-> NoOne]
  /\ answer = [x \in Ops |-> "none"]

-----------------------------------------------------------------------------
\* Operation x arrives and asks q.
Arrives(x, q) ==
  /\ stage[x] = "idle"
  /\ request' = [request EXCEPT ![x] = q]

\* x is answered one of as, and its execution is over.
Answered(x, as) ==
  /\ stage' = [stage EXCEPT ![x] = "done"]
  /\ \E a \in as : answer' = [answer EXCEPT ![x] = a]

\* x goes on to the await s.
GoesOn(x, s) ==
  /\ stage' = [stage EXCEPT ![x] = s]
  /\ UNCHANGED answer

DbErrors == IF "db" \in AccountFaults THEN {"error"} ELSE {}
\* What the client hears of a write that committed.
Heard(a) == IF "ack" \in AccountFaults THEN {a, "error"} ELSE {a}

RowOfEmail(u, e) == account[u].email = e
EmailTaken(e) == \E u \in DOMAIN account : RowOfEmail(u, e)

\* Mutant: the table has no unique index.
EmailAlwaysFree(e) == TRUE

\* users_email_key.
EmailFree(e) == ~EmailTaken(e)

\* findByEmail, and a refusal if it finds a row; else the hashing.
LookForEmail(x, q) ==
  /\ Arrives(x, q)
  /\ \/ EmailTaken(q.email)
        /\ Answered(x, {IF q.kind = "seed" THEN "ready" ELSE "conflict"})
     \/ ~EmailTaken(q.email) /\ GoesOn(x, "write")
     \/ Answered(x, DbErrors)
  /\ UNCHANGED <<account, tokens, found>>

NewAccount(q) == [email |-> q.email, password |-> q.password, role |-> q.role,
                  active |-> TRUE]

InsertAccount(x) ==
  /\ x \in Creators /\ stage[x] = "write"
  /\ EmailFree(request[x].email)
  /\ account' = [u \in DOMAIN account \cup {x} |->
                   IF u = x THEN NewAccount(request[x]) ELSE account[u]]
  /\ Answered(x, Heard("created"))
  /\ UNCHANGED <<tokens, request, found>>

\* P2002, when another one took the email while this one hashed.
InsertFails(x) ==
  /\ x \in Creators /\ stage[x] = "write"
  /\ Answered(x, DbErrors \cup (IF EmailFree(request[x].email) THEN {} ELSE {"error"}))
  /\ UNCHANGED <<account, tokens, request, found>>

-----------------------------------------------------------------------------
\* The row of an email that may log in.
MayLogIn(u, e) == RowOfEmail(u, e) /\ account[u].active

ReadForLogin(x, q) ==
  /\ Arrives(x, q)
  /\ \/ \E u \in DOMAIN account :
          /\ MayLogIn(u, q.email)
          /\ found' = [found EXCEPT ![x] =
                         [sub |-> u, role |-> account[u].role,
                          password |-> account[u].password]]
          /\ GoesOn(x, "compare")
     \/ /\ ~\E u \in DOMAIN account : MayLogIn(u, q.email)
        /\ Answered(x, {"unauthorized"})
        /\ UNCHANGED found
     \/ Answered(x, DbErrors) /\ UNCHANGED found
  /\ UNCHANGED <<account, tokens>>

\* Mutant: the role is not signed.
ClaimsWithoutRole(f) == [sub |-> f.sub]

\* What is signed.
Claims(f) == [sub |-> f.sub, role |-> f.role]

\* Comparing and signing look at what was read, not at the row.
Compare(x) ==
  /\ stage[x] = "compare"
  /\ IF found[x].password = request[x].password
       THEN /\ tokens' = tokens \cup {Claims(found[x])}
            /\ Answered(x, {"token"})
       ELSE Answered(x, {"unauthorized"}) /\ UNCHANGED tokens
  /\ UNCHANGED <<account, request, found>>

-----------------------------------------------------------------------------
\* RolesGuard.
MayAdminister(t) == t.role = "ADMIN"

\* JwtAuthGuard, RolesGuard, then findById.  A token may have expired.
GuardAndRead(x, q) ==
  /\ Arrives(x, q)
  /\ q.by \in tokens \cup {NoToken}
  /\ \/ Answered(x, {"unauthorized"})
     \/ q.by # NoToken /\ ~MayAdminister(q.by) /\ Answered(x, {"forbidden"})
     \/ /\ q.by # NoToken /\ MayAdminister(q.by)
        /\ \/ q.id \notin DOMAIN account /\ Answered(x, {"notFound"})
           \/ q.id \in DOMAIN account /\ GoesOn(x, "write")
           \/ Answered(x, DbErrors)
  /\ UNCHANGED <<account, tokens, found>>

\* Mutant: a role that the patch leaves out is set to the default one.
PatchedWithDefaults(a, change) ==
  [c \in DOMAIN a |-> IF c \in DOMAIN change THEN change[c]
                      ELSE IF c = "role" THEN "USER" ELSE a[c]]

\* The columns of row a after the patch.
Patched(a, change) ==
  [c \in DOMAIN a |-> IF c \in DOMAIN change THEN change[c] ELSE a[c]]

UpdateAccount(x) ==
  /\ stage[x] = "write" /\ request[x] \in Patches
  /\ request[x].id \in DOMAIN account
  /\ account' = [account EXCEPT ![request[x].id] = Patched(@, request[x].change)]
  /\ Answered(x, Heard("done"))
  /\ UNCHANGED <<tokens, request, found>>

DeleteAccount(x) ==
  /\ stage[x] = "write" /\ request[x] \in Removals
  /\ request[x].id \in DOMAIN account
  /\ account' = [u \in DOMAIN account \ {request[x].id} |-> account[u]]
  /\ Answered(x, Heard("done"))
  /\ UNCHANGED <<tokens, request, found>>

\* P2025 when the row is gone by now; a row that loans refer to is not deleted.
EditFails(x) ==
  /\ x \in Edits /\ stage[x] = "write"
  /\ \/ request[x].id \notin DOMAIN account
     \/ request[x] \in Removals
     \/ "db" \in AccountFaults
  /\ Answered(x, {"error"})
  /\ UNCHANGED <<account, tokens, request, found>>

-----------------------------------------------------------------------------
Next ==
  \/ \E x \in Creators, q \in Creations : LookForEmail(x, q)
  \/ \E x \in Creators : InsertAccount(x) \/ InsertFails(x)
  \/ \E x \in Logins, q \in Credentials : ReadForLogin(x, q)
  \/ \E x \in Logins : Compare(x)
  \/ \E x \in Edits, t \in tokens \cup {NoToken}, u \in Creators :
       \/ \E ch \in Changes :
            GuardAndRead(x, [kind |-> "patch", by |-> t, id |-> u, change |-> ch])
       \/ GuardAndRead(x, [kind |-> "remove", by |-> t, id |-> u])
  \/ \E x \in Edits : UpdateAccount(x) \/ DeleteAccount(x) \/ EditFails(x)

Spec == Init /\ [][Next]_vars

-----------------------------------------------------------------------------
\* However long two creators hash after both have found the email free, there
\* is one account for it: a login by email means one account.
EmailsUnique ==
  \A u, v \in DOMAIN account : account[u].email = account[v].email => u = v

\* What is known of an operation at each stage.
Underway ==
  \A x \in Ops :
    /\ stage[x] = "idle" <=> request[x] = NoRequest
    /\ stage[x] = "compare" => x \in Logins /\ found[x] # NoOne
    /\ stage[x] # "idle" /\ x \in Creators => request[x] \in Creations
    /\ stage[x] # "idle" /\ x \in Logins => request[x] \in Credentials
    /\ stage[x] # "idle" /\ x \in Edits => request[x] \in Patches \cup Removals
    /\ stage[x] = "write" => x \in Creators \cup Edits
    /\ stage[x] = "write" /\ x \in Edits =>
         request[x].by \in tokens /\ MayAdminister(request[x].by)

\* The inductive invariant of the proofs.
IInv == TypeOK /\ EmailsUnique /\ Underway

-----------------------------------------------------------------------------
\* A login is decided when it has read its row: from then on it counts as done,
\* and its token as given.
Matches(x) == found[x].password = request[x].password
Winners == {x \in Ops : stage[x] = "compare" /\ Matches(x)}
TokensDecided == tokens \cup {Claims(found[x]) : x \in Winners}
AskedDecided ==
  [x \in Ops |-> IF stage[x] \in {"compare", "done"} THEN request[x] ELSE NoRequest]
AnswerDecided ==
  [x \in Ops |-> IF stage[x] # "compare" THEN answer[x]
                 ELSE IF Matches(x) THEN "token" ELSE "unauthorized"]

Directory == INSTANCE AccountDirectory WITH
  tokens <- TokensDecided, asked <- AskedDecided, answer <- AnswerDecided

\* Every operation is as if done in one instant between its arrival and its
\* answer, though each reads, waits and then writes: patches that overlap lose
\* none of each other's columns, a login that began after a deactivation, a
\* removal or a new password was answered is held to it, and nothing is changed
\* but at an administrator's token.
DirectorySpec == Directory!Spec
=============================================================================
