---------------------------- MODULE LoanRegistry ----------------------------
(***************************************************************************)
(* What the Loan Service promises about loans: a call to register one is   *)
(* answered with a loan that exists and is what the caller asked for, or   *)
(* with a refusal, and then the call made no loan, or with a failure that  *)
(* says nothing.  No two loans have the same idempotency key.  A loan is   *)
(* never active again once it was given back.  LoanService implements this *)
(* registry (RegistrySpec there).                                          *)
(***************************************************************************)
CONSTANTS
  Calls,      \* calls to register a loan; a loan is named after its call
  Arguments,  \* the records [book, user, key] that a call may carry
  NoKey,      \* the key of a call that carries none
  NoArgument  \* a call that was not made

VARIABLES
  asked,      \* asked[c]: the argument of call c
  loan,       \* loan[c]: "NoRow", "active" or "returned"
  verdict     \* verdict[c]: "none", "refused", "failed", or the loan answered

registry == <<asked, loan, verdict>>

Init ==
  /\ asked = [c \in Calls |-> NoArgument]
  /\ loan = [c \in Calls |-> "NoRow"]
  /\ verdict = [c \in Calls |-> "none"]

SameKey(c, d) == asked[c].key = asked[d].key /\ asked[c].key # NoKey
Asked(c) == asked[c] # NoArgument /\ verdict[c] = "none"

Ask(c, a) ==
  /\ asked[c] = NoArgument
  /\ asked' = [asked EXCEPT ![c] = a]
  /\ loan' = loan
  /\ verdict' \in {verdict, [verdict EXCEPT ![c] = "refused"]}

\* Call c makes a loan, and is told so or hears of a failure.
Register(c) ==
  /\ Asked(c)
  /\ \A d \in Calls \ {c} : loan[d] # "NoRow" => ~SameKey(c, d)
  /\ loan' = [loan EXCEPT ![c] = "active"]
  /\ \E v \in {c, "failed"} : verdict' = [verdict EXCEPT ![c] = v]
  /\ UNCHANGED asked

\* Call c is answered with the loan of its key, which it would have made.
Replay(c, d) ==
  /\ Asked(c)
  /\ loan[d] # "NoRow" /\ SameKey(c, d)
  /\ asked[d].book = asked[c].book /\ asked[d].user = asked[c].user
  /\ verdict' = [verdict EXCEPT ![c] = d]
  /\ UNCHANGED <<asked, loan>>

\* Call c ends with no loan of its own.
Decline(c) ==
  /\ Asked(c)
  /\ \E v \in {"refused", "failed"} : verdict' = [verdict EXCEPT ![c] = v]
  /\ UNCHANGED <<asked, loan>>

GiveBack(d) ==
  /\ loan[d] = "active"
  /\ loan' = [loan EXCEPT ![d] = "returned"]
  /\ UNCHANGED <<asked, verdict>>

Next ==
  \/ \E c \in Calls :
       \/ \E a \in Arguments : Ask(c, a)
       \/ Register(c)
       \/ \E d \in Calls : Replay(c, d)
       \/ Decline(c)
  \/ \E d \in Calls : GiveBack(d)

Spec == Init /\ [][Next]_registry
=============================================================================
