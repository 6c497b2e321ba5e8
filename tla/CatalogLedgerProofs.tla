------------------------ MODULE CatalogLedgerProofs ------------------------
(***************************************************************************)
(* CatalogSaga implements CopyLedger: whatever interleaves and whatever    *)
(* fails, no copy is lost or made.  The initial states map to initial      *)
(* states, and every step maps to a ledger step or to a stutter.           *)
(***************************************************************************)
EXTENDS CatalogSagaProofs

-----------------------------------------------------------------------------
\* The ledger counts as this module does.
LEMMA LedgerCardinality ==
  ASSUME NEW S
  PROVE  Ledger!Cardinality(S) = Cardinality(S)
BY DEF Cardinality, Ledger!Cardinality

\* The rows of a book are finitely many, so they can be counted.
LEMMA OutRowsFinite ==
  ASSUME NEW b
  PROVE  /\ IsFiniteSet(OutRows(b))
         /\ Cardinality(OutRows(b)) \in Nat
<1>1. OutRows(b) \subseteq Requests
  BY DEF OutRows, HeldRows, LentRows
<1>. QED
  BY <1>1, CatalogAssumption, FS_Subset, FS_CardinalityType

\* A step that changes neither the shelf nor a row leaves the ledger alone; it
\* may give an input to a request that has no row yet.
LEMMA LedgerStutter ==
  ASSUME UNCHANGED <<availableStock, status, remoteLoanId>>,
         \A r \in Requests : status[r] # "NoRow" => input'[r] = input[r]
  PROVE  UNCHANGED Ledger!ledger
<1>1. ASSUME NEW b \in Books
      PROVE  HeldRows(b)' = HeldRows(b) /\ LentRows(b)' = LentRows(b)
  BY DEF HeldRows, LentRows, Unsettled, RemoteStatus
<1>2. ASSUME NEW b \in Books
      PROVE  Copies(b)' = Copies(b)
  BY <1>1 DEF Copies, OutRows
<1>3. ClosedRows' = ClosedRows
  BY DEF ClosedRows
<1>. QED
  BY <1>1, <1>2, <1>3 DEF Ledger!ledger

\* A book without a row has no copy out.
LEMMA NoRowNothingOut ==
  ASSUME NEW b \in Books, RowsOfBook(b) = {}
  PROVE  /\ HeldRows(b) = {}
         /\ LentRows(b) = {}
         /\ OutRows(b) = {}
         /\ Cardinality(OutRows(b)) = 0
<1>1. HeldRows(b) = {} /\ LentRows(b) = {} /\ OutRows(b) = {}
  BY DEF RowsOfBook, HeldRows, LentRows, OutRows, Unsettled, RemoteStatus
<1>. QED
  BY <1>1, FS_EmptySet

-----------------------------------------------------------------------------
LEMMA LedgerInit == Init => Ledger!Init
<1> SUFFICES ASSUME Init PROVE Ledger!Init
  OBVIOUS
<1>1. ASSUME NEW b \in Books
      PROVE  HeldRows(b) = {} /\ LentRows(b) = {} /\ Copies(b) = 0
  <2>1. RowsOfBook(b) = {}
    BY DEF Init, RowsOfBook
  <2>. QED
    BY <2>1, NoRowNothingOut DEF Init, Copies
<1>2. ClosedRows = {}
  BY DEF Init, ClosedRows
<1>. QED
  BY <1>1, <1>2 DEF Ledger!Init

\* POST /books stocks a book, which has no copy out: no row refers to a book
\* that is not there.
LEMMA InsertBookStocks ==
  ASSUME IInv, NEW b \in Books, NEW dto \in CreateBookDto, InsertBook(b, dto)
  PROVE  Ledger!Stock(b, dto.totalStock)
<1>1. RowsOfBook(b) = {}
  BY DEF IInv, NoDanglingRow, InsertBook, RowsOfBook
<1>2. Copies(b) = 0
  BY <1>1, NoRowNothingOut DEF IInv, NoStockWithoutBook, InsertBook, Copies
<1>3. ASSUME NEW c \in Books
      PROVE  /\ HeldRows(c)' = HeldRows(c)
             /\ LentRows(c)' = LentRows(c)
             /\ OutRows(c)' = OutRows(c)
  BY DEF InsertBook, HeldRows, LentRows, OutRows, Unsettled, RemoteStatus
<1>4. ASSUME NEW c \in Books
      PROVE  Copies(c)' = IF c = b THEN dto.totalStock ELSE Copies(c)
  <2>1. availableStock'[c] = IF c = b THEN dto.totalStock ELSE availableStock[c]
    BY DEF IInv, TypeOK, InsertBook
  <2>2. Cardinality(OutRows(b)) = 0
    BY <1>1, NoRowNothingOut
  <2>3. dto.totalStock \in Int
    BY CatalogAssumption DEF CreateBookDto
  <2>. QED
    BY <1>3, <2>1, <2>2, <2>3 DEF Copies
<1>5. ClosedRows' = ClosedRows
  BY DEF InsertBook, ClosedRows
<1>6. Ledger!Out(b) = {}
  BY <1>1, NoRowNothingOut DEF Ledger!Out
<1>. QED
  BY <1>2, <1>3, <1>4, <1>5, <1>6 DEF Ledger!Stock

\* DELETE /books/:id retires a book: the foreign key lets no row be left.
LEMMA DeleteBookRetires ==
  ASSUME IInv, NEW b \in Books, DeleteBook(b)
  PROVE  Ledger!Retire(b)
<1>1. RowsOfBook(b) = {}
  BY DEF DeleteBook, BookUnreferenced
<1>2. ASSUME NEW c \in Books
      PROVE  /\ HeldRows(c)' = HeldRows(c)
             /\ LentRows(c)' = LentRows(c)
             /\ OutRows(c)' = OutRows(c)
  BY DEF DeleteBook, HeldRows, LentRows, OutRows, Unsettled, RemoteStatus
<1>3. ASSUME NEW c \in Books
      PROVE  Copies(c)' = IF c = b THEN 0 ELSE Copies(c)
  <2>1. availableStock'[c] = IF c = b THEN 0 ELSE availableStock[c]
    BY DEF IInv, TypeOK, DeleteBook
  <2>2. Cardinality(OutRows(b)) = 0
    BY <1>1, NoRowNothingOut
  <2>. QED
    BY <1>2, <2>1, <2>2 DEF Copies
<1>4. ClosedRows' = ClosedRows
  BY DEF DeleteBook, ClosedRows
<1>5. Ledger!Out(b) = {}
  BY <1>1, NoRowNothingOut DEF Ledger!Out
<1>. QED
  BY <1>2, <1>3, <1>4, <1>5 DEF Ledger!Retire

\* Step 1 of the saga takes a copy out.
LEMMA ReserveTakesOut ==
  ASSUME IInv, NEW r \in Requests, NEW acked \in Acks, Reserve(r, acked)
  PROVE  \E b \in Books : Ledger!TakeOut(b, r)
<1>1. PICK b \in Books : b = input[r].book
  BY InputType DEF IInv, Reserve
<1>2. status[r] = "NoRow" /\ remoteLoanId[r] = NoLoan
  BY DEF IInv, RowFollowsStage, Reserve
<1>3. ASSUME NEW c \in Books
      PROVE  /\ HeldRows(c)' = IF c = b THEN HeldRows(c) \cup {r} ELSE HeldRows(c)
             /\ LentRows(c)' = LentRows(c)
             /\ r \notin HeldRows(c)
             /\ r \notin LentRows(c)
  BY <1>1, <1>2
  DEF IInv, TypeOK, Reserve, HeldRows, LentRows, Unsettled, RemoteStatus
<1>4. OutRows(b)' = OutRows(b) \cup {r} /\ r \notin OutRows(b)
  BY <1>3 DEF OutRows
<1>5. Cardinality(OutRows(b)') = Cardinality(OutRows(b)) + 1
  BY <1>4, OutRowsFinite, FS_AddElement
<1>6. availableStock[b] \in Int /\ availableStock[b] >= 1
  BY <1>1 DEF IInv, TypeOK, Reserve, CopyLeft
<1>7. ASSUME NEW c \in Books
      PROVE  availableStock'[c] = IF c = b THEN availableStock[c] - 1
                                           ELSE availableStock[c]
  BY <1>1 DEF IInv, TypeOK, Reserve, DecrementStockInTx
<1>8. ASSUME NEW c \in Books
      PROVE  Copies(c)' = Copies(c)
  <2>1. CASE c = b
    BY <2>1, <1>5, <1>6, <1>7, OutRowsFinite DEF Copies
  <2>2. CASE c # b
    BY <2>2, <1>3, <1>7 DEF Copies, OutRows
  <2>. QED
    BY <2>1, <2>2
<1>9. ClosedRows' = ClosedRows /\ r \notin ClosedRows
  BY <1>2 DEF IInv, TypeOK, Reserve, ClosedRows
<1>10. r \notin Ledger!Taken
  BY <1>3, <1>9 DEF Ledger!Taken, Ledger!Out
<1>11. Cardinality(Ledger!Out(b)) < Copies(b)
  <2>1. Ledger!Out(b) = OutRows(b)
    BY DEF Ledger!Out, OutRows
  <2>. QED
    BY <1>6, <2>1, OutRowsFinite DEF Copies
<1>12. [c \in Books |-> HeldRows(c)]'
         = [[c \in Books |-> HeldRows(c)] EXCEPT ![b] = @ \cup {r}]
  BY <1>3
<1>13. UNCHANGED <<[c \in Books |-> Copies(c)], [c \in Books |-> LentRows(c)],
                   ClosedRows>>
  BY <1>3, <1>8, <1>9
<1>14. Cardinality(Ledger!Out(b)) < [c \in Books |-> Copies(c)][b]
  BY <1>11
<1>15. Ledger!TakeOut(b, r)
  BY <1>10, <1>12, <1>13, <1>14, LedgerCardinality DEF Ledger!TakeOut
<1>. QED
  BY <1>15

\* The last write of the saga confirms the hold.
LEMMA FinalizeConfirms ==
  ASSUME IInv, NEW r \in Requests, NEW acked \in Acks, Finalize(r, acked)
  PROVE  \E b \in Books : Ledger!Confirm(b, r)
<1>1. PICK b \in Books : b = input[r].book
  BY InputType DEF IInv, Finalize
<1>2. Unsettled(r)
  BY DEF IInv, RowFollowsStage, Finalize
<1>3. remote[r] \in Replies
  BY DEF IInv, TypeOK, RowFollowsStage, Finalize
<1>4. remote[r].loanId # NoLoan /\ remote[r].status \in RemoteStatus
  BY <1>3, CatalogAssumption DEF Replies
<1>5. ASSUME NEW c \in Books
      PROVE  /\ HeldRows(c)' = IF c = b THEN HeldRows(c) \ {r} ELSE HeldRows(c)
             /\ LentRows(c)' = IF c = b THEN LentRows(c) \cup {r} ELSE LentRows(c)
  BY <1>1, <1>2, <1>4
  DEF IInv, TypeOK, Finalize, HeldRows, LentRows, Unsettled, RemoteStatus
<1>6. r \in HeldRows(b)
  BY <1>1, <1>2 DEF HeldRows
<1>7. ASSUME NEW c \in Books
      PROVE  Copies(c)' = Copies(c)
  <2>1. OutRows(c)' = OutRows(c)
    BY <1>5, <1>6 DEF OutRows
  <2>. QED
    BY <2>1 DEF Finalize, Copies
<1>8. ClosedRows' = ClosedRows
  BY <1>2, <1>4 DEF IInv, TypeOK, Finalize, ClosedRows, Unsettled, RemoteStatus
<1>9. [c \in Books |-> HeldRows(c)]'
        = [[c \in Books |-> HeldRows(c)] EXCEPT ![b] = @ \ {r}]
  BY <1>5
<1>10. [c \in Books |-> LentRows(c)]'
         = [[c \in Books |-> LentRows(c)] EXCEPT ![b] = @ \cup {r}]
  BY <1>5
<1>11. UNCHANGED <<[c \in Books |-> Copies(c)], ClosedRows>>
  BY <1>7, <1>8
<1>12. Ledger!Confirm(b, r)
  BY <1>6, <1>9, <1>10, <1>11 DEF Ledger!Confirm
<1>. QED
  BY <1>12

\* The compensation puts back the copy of a row that is still PENDING: the
\* update that marks it always finds it so.
LEMMA CompensatePutsBack ==
  ASSUME IInv, NEW r \in Requests, Compensate(r)
  PROVE  \E b \in Books : Ledger!PutBack(b, r)
<1>1. PICK b \in Books : b = input[r].book
  BY InputType DEF IInv, Compensate
<1>2. Unsettled(r)
  BY DEF IInv, RowFollowsStage, Compensate
<1>3. status' = [status EXCEPT ![r] = "ROLLED_BACK"]
  BY <1>2 DEF Compensate, MarkRolledBack, Unsettled
<1>4. ASSUME NEW c \in Books
      PROVE  /\ HeldRows(c)' = IF c = b THEN HeldRows(c) \ {r} ELSE HeldRows(c)
             /\ LentRows(c)' = LentRows(c)
             /\ r \notin LentRows(c)
  BY <1>1, <1>2, <1>3
  DEF IInv, TypeOK, Compensate, HeldRows, LentRows, Unsettled, RemoteStatus
<1>5. r \in HeldRows(b)
  BY <1>1, <1>2 DEF HeldRows
<1>6. OutRows(b)' = OutRows(b) \ {r} /\ r \in OutRows(b)
  BY <1>4, <1>5 DEF OutRows
<1>7. Cardinality(OutRows(b)') = Cardinality(OutRows(b)) - 1
  BY <1>6, OutRowsFinite, FS_RemoveElement
<1>8. ASSUME NEW c \in Books
      PROVE  availableStock'[c] = IF c = b THEN availableStock[c] + 1
                                           ELSE availableStock[c]
  BY <1>1 DEF IInv, TypeOK, Compensate, IncrementStockInTx
<1>9. ASSUME NEW c \in Books
      PROVE  Copies(c)' = Copies(c)
  <2>1. CASE c = b
    <3>1. availableStock[b] \in Int
      BY DEF IInv, TypeOK
    <3>. QED
      BY <2>1, <3>1, <1>7, <1>8, OutRowsFinite DEF Copies
  <2>2. CASE c # b
    BY <2>2, <1>4, <1>8 DEF Copies, OutRows
  <2>. QED
    BY <2>1, <2>2
<1>10. ClosedRows' = ClosedRows \cup {r}
  BY <1>3 DEF IInv, TypeOK, ClosedRows
<1>11. [c \in Books |-> HeldRows(c)]'
         = [[c \in Books |-> HeldRows(c)] EXCEPT ![b] = @ \ {r}]
  BY <1>4
<1>12. UNCHANGED <<[c \in Books |-> Copies(c)], [c \in Books |-> LentRows(c)]>>
  BY <1>4, <1>9
<1>13. Ledger!PutBack(b, r)
  BY <1>5, <1>10, <1>11, <1>12 DEF Ledger!PutBack
<1>. QED
  BY <1>13

-----------------------------------------------------------------------------
\* Every step of the saga and of what runs beside it is a step of the ledger,
\* or changes nothing the ledger shows.
LEMMA LedgerStep == IInv /\ [Next]_vars => [Ledger!Next]_Ledger!ledger
<1> SUFFICES ASSUME IInv, [Next]_vars
             PROVE  Ledger!Next \/ UNCHANGED Ledger!ledger
  OBVIOUS
<1>1. ASSUME NEW b \in Books, NEW dto \in CreateBookDto, InsertBook(b, dto)
      PROVE  Ledger!Next
  BY <1>1, InsertBookStocks DEF CreateBookDto, Ledger!Next
<1>2. ASSUME NEW b \in Books, DeleteBook(b)
      PROVE  Ledger!Next
  BY <1>2, DeleteBookRetires DEF Ledger!Next
<1>3. ASSUME NEW r \in Requests, NEW acked \in Acks, Reserve(r, acked)
      PROVE  Ledger!Next
  BY <1>3, ReserveTakesOut DEF Ledger!Next
<1>4. ASSUME NEW r \in Requests, NEW acked \in Acks, Finalize(r, acked)
      PROVE  Ledger!Next
  BY <1>4, FinalizeConfirms DEF Ledger!Next
<1>5. ASSUME NEW r \in Requests, Compensate(r)
      PROVE  Ledger!Next
  BY <1>5, CompensatePutsBack DEF Ledger!Next
<1>6. ASSUME UNCHANGED <<availableStock, status, remoteLoanId, input>>
      PROVE  UNCHANGED Ledger!ledger
  BY <1>6, LedgerStutter
<1>7. ASSUME NEW r \in Requests, Arrive(r)
      PROVE  UNCHANGED Ledger!ledger
  <2>1. status[r] = "NoRow"
    BY <1>7 DEF Arrive, Begin, IInv, RowFollowsStage
  <2>2. UNCHANGED <<availableStock, status, remoteLoanId>>
    BY <1>7 DEF Arrive, Begin
  <2>3. \A q \in Requests \ {r} : input'[q] = input[q]
    BY <1>7 DEF Arrive, Begin, IInv, TypeOK
  <2>. QED
    BY <2>1, <2>2, <2>3, LedgerStutter
<1>. QED
  BY <1>1, <1>2, <1>3, <1>4, <1>5, <1>6, <1>7
  DEF Next, Admin, LocalStep, RemoteStep, LookForIsbn, InsertBookFails,
      UpdateBook, RegisterUser, DeleteUser, PreCheck, ReserveRolledBack, RemoteReturns, RemoteThrows, FinalizeFails,
      CompensateFails, Crash, vars

\* The Catalog Service keeps the books of CopyLedger: whatever requests race and
\* whatever fails, a copy of a book is on the shelf or tied to one loan row, is
\* taken only when one is left, and is put back at most once.
THEOREM LedgerKept == Spec => LedgerSpec
<1>1. Init => Ledger!Init
  BY LedgerInit
<1>2. IInv /\ [Next]_vars => [Ledger!Next]_Ledger!ledger
  BY LedgerStep
<1>. QED
  BY <1>1, <1>2, Invariance, PTL DEF Spec, LedgerSpec, Ledger!Spec
=============================================================================
