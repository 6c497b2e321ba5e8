----------------------------- MODULE CopyLedger -----------------------------
(***************************************************************************)
(* What the Catalog Service promises about the copies of its books, with   *)
(* no saga, no database and no Loan Service in sight.  The library owns    *)
(* copies[b] copies of book b.  A hold takes one of them out if one is     *)
(* left, then it is either confirmed, and the copy is lent, or closed, and *)
(* the copy is on the shelf again.  CatalogSaga implements this ledger     *)
(* (LedgerSpec there): a hold is a row of its loans table, and the copies  *)
(* on the shelf are the row's available_stock.                             *)
(***************************************************************************)
EXTENDS Integers, FiniteSets

CONSTANTS
  Books,      \* the books
  Holds,      \* the holds that may ever be taken, each of them once
  MaxStock    \* bound on the copies a book is stocked with

VARIABLES
  copies,     \* copies[b]: copies of b the library owns, on the shelf or out
  held,       \* held[b]: the holds that took a copy of b, not yet confirmed
  lent,       \* lent[b]: the holds that were confirmed
  closed      \* the holds that were given up

ledger == <<copies, held, lent, closed>>

Out(b) == held[b] \cup lent[b]

Taken == closed \cup UNION {Out(b) : b \in Books}

Init ==
  /\ copies = [b \in Books |-> 0]
  /\ held = [b \in Books |-> {}]
  /\ lent = [b \in Books |-> {}]
  /\ closed = {}

\* A book enters the catalogue with n copies.
Stock(b, n) ==
  /\ copies[b] = 0
  /\ Out(b) = {}
  /\ copies' = [copies EXCEPT ![b] = n]
  /\ UNCHANGED <<held, lent, closed>>

\* A book leaves the catalogue, which it can do with none of its copies out.
Retire(b) ==
  /\ Out(b) = {}
  /\ copies' = [copies EXCEPT ![b] = 0]
  /\ UNCHANGED <<held, lent, closed>>

\* Hold h takes a copy of b out, and there is one left to take.
TakeOut(b, h) ==
  /\ h \notin Taken
  /\ Cardinality(Out(b)) < copies[b]
  /\ held' = [held EXCEPT ![b] = @ \cup {h}]
  /\ UNCHANGED <<copies, lent, closed>>

\* Hold h is confirmed: its copy is lent.
Confirm(b, h) ==
  /\ h \in held[b]
  /\ held' = [held EXCEPT ![b] = @ \ {h}]
  /\ lent' = [lent EXCEPT ![b] = @ \cup {h}]
  /\ UNCHANGED <<copies, closed>>

\* Hold h is given up: its copy is on the shelf again, and only once.
PutBack(b, h) ==
  /\ h \in held[b]
  /\ held' = [held EXCEPT ![b] = @ \ {h}]
  /\ closed' = closed \cup {h}
  /\ UNCHANGED <<copies, lent>>

Next ==
  \E b \in Books :
    \/ \E n \in 0..MaxStock : Stock(b, n)
    \/ Retire(b)
    \/ \E h \in Holds : TakeOut(b, h) \/ Confirm(b, h) \/ PutBack(b, h)

Spec == Init /\ [][Next]_ledger
=============================================================================
