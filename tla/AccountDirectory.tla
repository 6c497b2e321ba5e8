-------------------------- MODULE AccountDirectory --------------------------
(***************************************************************************)
(* What the accounts of the Catalog Service promise: though registering,   *)
(* logging in, patching and removing each take several queries, every one  *)
(* of them is as if done in one instant, with an answer that is true of    *)
(* that instant.  No two accounts have the same email, a patch changes the *)
(* columns it carries and no other, and accounts are changed only at the   *)
(* word of a token that a login gave to an administrator.  Accounts        *)
(* implements this directory (DirectorySpec there).                        *)
(***************************************************************************)
CONSTANTS
  Creators,  \* operations that may make an account, which is named after them
  Logins,    \* operations that may give a token
  Edits,     \* operations of an administrator
  Creations, Credentials, Patches, Removals,  \* what they may ask
  NoRequest  \* an operation that is not done yet

VARIABLES
  account,   \* account[u]: the account u; the domain is those that are there
  tokens,    \* the claims of the tokens that were given
  asked,     \* asked[x]: what x asked
  answer     \* answer[x]: what x was answered, or "none"

directory == <<account, tokens, asked, answer>>

Ops == Creators \cup Logins \cup Edits

Init ==
  /\ account = [u \in {} |-> 0]
  /\ tokens = {}
  /\ asked = [x \in Ops |-> NoRequest]
  /\ answer = [x \in Ops |-> "none"]

Taken(e) == \E u \in DOMAIN account : account[u].email = e

\* Operation x asked q and is answered one of as.
Done(x, q, as) ==
  /\ asked[x] = NoRequest /\ asked'[x] = q
  /\ asked' = [asked EXCEPT ![x] = q]
  /\ \E a \in as : answer' = [answer EXCEPT ![x] = a]

Create(x, q) ==
  /\ Done(x, q, {"created", "error"})
  /\ ~Taken(q.email)
  /\ account' = [u \in DOMAIN account \cup {x} |->
                   IF u = x THEN [email |-> q.email, password |-> q.password,
                                  role |-> q.role, active |-> TRUE]
                            ELSE account[u]]
  /\ UNCHANGED tokens

FindTaken(x, q) ==
  /\ Done(x, q, {IF q.kind = "seed" THEN "ready" ELSE "conflict"})
  /\ Taken(q.email)
  /\ UNCHANGED <<account, tokens>>

\* The account that a login with these credentials opens.
Opens(q, u) ==
  /\ account[u].email = q.email
  /\ account[u].password = q.password
  /\ account[u].active

LogIn(x, q) ==
  /\ Done(x, q, {"token"})
  /\ \E u \in DOMAIN account :
       /\ Opens(q, u)
       /\ tokens' = tokens \cup {[sub |-> u, role |-> account[u].role]}
  /\ UNCHANGED account

TurnAway(x, q) ==
  /\ Done(x, q, {"unauthorized"})
  /\ ~\E u \in DOMAIN account : Opens(q, u)
  /\ UNCHANGED <<account, tokens>>

ByAdmin(q) == q.by \in tokens /\ q.by.role = "ADMIN"

Patch(x, q) ==
  /\ Done(x, q, {"done", "error"})
  /\ ByAdmin(q) /\ q.id \in DOMAIN account
  /\ account' = [account EXCEPT ![q.id] =
                   [c \in DOMAIN @ |-> IF c \in DOMAIN q.change THEN q.change[c]
                                                                ELSE @[c]]]
  /\ UNCHANGED tokens

Remove(x, q) ==
  /\ Done(x, q, {"done", "error"})
  /\ ByAdmin(q) /\ q.id \in DOMAIN account
  /\ account' = [u \in DOMAIN account \ {q.id} |-> account[u]]
  /\ UNCHANGED tokens

FindNone(x, q) ==
  /\ Done(x, q, {"notFound"})
  /\ ByAdmin(q) /\ q.id \notin DOMAIN account
  /\ UNCHANGED <<account, tokens>>

\* A token may be refused, for it may have expired.
Forbid(x, q) ==
  /\ Done(x, q, {"unauthorized"} \cup (IF ByAdmin(q) THEN {} ELSE {"forbidden"}))
  /\ UNCHANGED <<account, tokens>>

Fail(x, q) ==
  /\ Done(x, q, {"error"})
  /\ UNCHANGED <<account, tokens>>

\* The step at which x is done.
Ends(x) == asked[x] = NoRequest /\ asked'[x] # NoRequest

Next ==
  \/ \E x \in Creators :
       Ends(x) /\ \E q \in Creations : Create(x, q) \/ FindTaken(x, q) \/ Fail(x, q)
  \/ \E x \in Logins :
       Ends(x) /\ \E q \in Credentials : LogIn(x, q) \/ TurnAway(x, q) \/ Fail(x, q)
  \/ \E x \in Edits :
       /\ Ends(x)
       /\ \/ \E q \in Patches : Patch(x, q)
          \/ \E q \in Removals : Remove(x, q)
          \/ \E q \in Patches \cup Removals :
               FindNone(x, q) \/ Forbid(x, q) \/ Fail(x, q)

Spec == Init /\ [][Next]_directory
=============================================================================
