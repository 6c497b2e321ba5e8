--------------------------- MODULE ListingProofs ---------------------------
(***************************************************************************)
(* Proofs about Listing, for every number of rows, of times and of page    *)
(* sizes: its type, that a walk through a list skips a row only where a    *)
(* newer one left, and gives one twice only where a newer one came.        *)
(***************************************************************************)
EXTENDS Listing, FiniteSetTheorems, TLAPS

-----------------------------------------------------------------------------
\* The places of rows.

\* Parts of the table can be counted.
LEMMA PartCounted ==
  ASSUME NEW S \in SUBSET Rows
  PROVE  /\ IsFiniteSet(S)
         /\ Cardinality(S) \in 0..Cardinality(Rows)
<1>1. IsFiniteSet(Rows)
  BY ListingAssumption
<1>2. IsFiniteSet(S) /\ Cardinality(S) <= Cardinality(Rows)
  BY <1>1, FS_Subset
<1>3. Cardinality(S) \in Nat /\ Cardinality(Rows) \in Nat
  BY <1>1, <1>2, FS_CardinalityType
<1> QED BY <1>2, <1>3

LEMMA AheadNat ==
  ASSUME TypeOK, NEW r
  PROVE  Ahead(r) \in Nat
<1>1. Newer(r) \in SUBSET Rows
  BY DEF Newer, TypeOK
<1> QED BY <1>1, PartCounted DEF Ahead

LEMMA SkipNat ==
  ASSUME TypeOK
  PROVE  Skip \in Nat /\ size \in Nat \ {0} /\ page * size = Skip + size
<1>1. page - 1 \in Nat /\ size \in Nat \ {0} /\ page \in Nat
  BY ListingAssumption DEF TypeOK
<1>2. \A m, n \in Nat : m * n \in Nat /\ (m + 1) * n = m * n + n
  OBVIOUS
<1>3. page = (page - 1) + 1
  BY <1>1
<1> QED BY <1>1, <1>2, <1>3 DEF Skip

\* A row of the list is not ahead of itself.
LEMMA PlaceInList ==
  ASSUME TypeOK, NEW r \in listed
  PROVE  Ahead(r) < Cardinality(listed)
<1>1. /\ listed \in SUBSET Rows
      /\ Newer(r) \in SUBSET listed
      /\ r \notin Newer(r)
  <2>1. r \in Rows /\ time[r] \in Nat
    BY ListingAssumption DEF TypeOK
  <2>2. ~(time[r] > time[r])
    BY <2>1
  <2> QED BY <2>2, Zenon DEF Newer, TypeOK
<1>2. IsFiniteSet(listed) /\ Cardinality(listed) \in Nat
  BY <1>1, PartCounted
<1>3. Ahead(r) <= Cardinality(listed) /\ Ahead(r) # Cardinality(listed)
  BY <1>1, <1>2, FS_Subset DEF Ahead
<1> QED BY <1>2, <1>3, AheadNat

\* An order of n rows has every one of them.
LEMMA OrderHasAll ==
  ASSUME TypeOK, NEW o \in Orders, NEW r \in listed
  PROVE  \E i \in DOMAIN o : o[i] = r
<1> DEFINE n == Cardinality(listed)
<1>1. IsFiniteSet(listed) /\ n \in Nat
  BY PartCounted DEF TypeOK
<1>2. IsFiniteSet(1..n) /\ Cardinality(1..n) = n
  BY <1>1, FS_Interval
<1>3. o \in Injection(1..n, listed)
  BY DEF Orders, Injection, IsInjective
<1>4. o \in Surjection(1..n, listed)
  BY <1>1, <1>2, <1>3, FS_Injection
<1> QED BY <1>4 DEF Surjection

\* Where no two rows have the same time, the rows ahead of the i-th in an order
\* are the i - 1 before it: the order has no choice.
LEMMA PlaceInOrder ==
  ASSUME TypeOK, Held, ~Ties, NEW o \in Orders, NEW i \in DOMAIN o
  PROVE  Ahead(o[i]) = i - 1
<1> DEFINE n == Cardinality(listed)
<1> DEFINE m == i - 1
<1>1. /\ n \in Nat
      /\ o \in [1..n -> listed]
      /\ \A j, k \in 1..n : j # k => o[j] # o[k]
      /\ \A j, k \in 1..n : j < k => time[o[j]] >= time[o[k]]
      /\ i \in 1..n
  BY PartCounted DEF Orders, Order, TypeOK
<1>2. \A r \in listed : r \in Rows /\ time[r] \in Nat
  BY ListingAssumption DEF TypeOK
<1>3. \A r, s \in listed : r # s => time[r] # time[s]
  BY DEF Ties, Held
<1>4. \A j \in 1..m : j \in 1..n /\ j < i /\ o[j] \in Newer(o[i])
  <2> TAKE j \in 1..m
  <2>1. j \in 1..n /\ j < i
    BY <1>1
  <2>2. o[j] \in listed /\ o[i] \in listed /\ o[j] # o[i] /\ time[o[j]] >= time[o[i]]
    BY <1>1, <2>1
  <2>3. time[o[j]] > time[o[i]]
    BY <1>2, <1>3, <2>2
  <2> QED BY <2>1, <2>2, <2>3 DEF Newer
<1>5. \A s \in Newer(o[i]) : \E j \in 1..m : o[j] = s
  <2> TAKE s \in Newer(o[i])
  <2>1. s \in listed /\ time[s] > time[o[i]]
    BY DEF Newer
  <2>2. PICK j \in 1..n : o[j] = s
    BY <1>1, <2>1, OrderHasAll
  <2>3. o[i] \in listed
    BY <1>1
  <2>4. ~(i < j) /\ i # j
    BY <1>1, <1>2, <2>1, <2>2, <2>3
  <2> QED BY <1>1, <2>2, <2>4
<1> DEFINE g == [j \in 1..m |-> o[j]]
<1>6. g \in Bijection(1..m, Newer(o[i]))
  <2>1. g \in [1..m -> Newer(o[i])]
    BY <1>4
  <2>2. \A j, k \in 1..m : g[j] = g[k] => j = k
    BY <1>1, <1>4
  <2>3. \A s \in Newer(o[i]) : \E j \in 1..m : g[j] = s
    BY <1>5
  <2> QED BY <2>1, <2>2, <2>3, Zenon DEF Bijection, Injection, Surjection, IsInjective
<1>7. m \in Nat /\ ExistsBijection(1..m, Newer(o[i]))
  BY <1>1, <1>6 DEF ExistsBijection
<1> QED BY <1>7, FS_CountingElements DEF Ahead

\* A page holds the rows whose places are in it.
LEMMA PageHoldsItsPlaces ==
  ASSUME TypeOK, Held, ~Ties, NEW o \in Orders
  PROVE  PageOf(o) = {r \in listed : Skip <= Ahead(r) /\ Ahead(r) < Skip + size}
<1>1. Skip \in Nat /\ size \in Nat
  BY SkipNat
<1>2. DOMAIN o \subseteq Nat \ {0} /\ \A i \in DOMAIN o : o[i] \in listed
  BY PartCounted DEF Orders, TypeOK
<1>3. \A i \in DOMAIN o : Ahead(o[i]) = i - 1
  BY PlaceInOrder
<1>4. \A i \in DOMAIN o :
        i \in (Skip + 1)..(Skip + size) <=> Skip <= Ahead(o[i]) /\ Ahead(o[i]) < Skip + size
  BY <1>1, <1>2, <1>3
<1>5. \A r \in listed : \E i \in DOMAIN o : o[i] = r
  BY OrderHasAll
<1> QED BY <1>2, <1>4, <1>5, Zenon DEF PageOf

-----------------------------------------------------------------------------
\* What a row that comes or leaves does to the places.  What the invariant
\* supposes of a row holds after a step only if it held before it.

LEMMA ComeRaises ==
  ASSUME TypeOK, TypeOK', NEW q \in Rows, Come(q), NEW r \in Rows
  PROVE  /\ Ahead(r) \in Nat /\ Ahead(r)' \in Nat
         /\ Ahead(r) <= Ahead(r)'
         /\ Kept(r)' <=> Kept(r)
         /\ ~Ties' => ~Ties
         /\ ~AnyNewer(came, r)' => ~AnyNewer(came, r)
         /\ ~(time[q] > time[r]) => Ahead(r)' = Ahead(r)
<1>1. /\ listed' = listed \cup {q} /\ came' = came \cup {q}
      /\ time' = time /\ start' = start /\ left' = left
  BY DEF Come
<1>2. /\ Newer(r) \in SUBSET Newer(r)' /\ Newer(r)' \in SUBSET Rows
      /\ ~(time[q] > time[r]) => Newer(r)' = Newer(r)
  BY <1>1 DEF Newer, TypeOK
<1>3. /\ Ahead(r) \in Nat /\ Ahead(r)' \in Nat
      /\ Ahead(r) <= Ahead(r)'
      /\ ~(time[q] > time[r]) => Ahead(r)' = Ahead(r)
  BY <1>2, PartCounted, FS_Subset DEF Ahead
<1>4. (Kept(r)' <=> Kept(r)) /\ (~Ties' => ~Ties)
  BY <1>1 DEF Kept, AnyNewer, Ties
<1>5. ~AnyNewer(came, r)' => ~AnyNewer(came, r)
  BY <1>1 DEF AnyNewer
<1> QED BY <1>3, <1>4, <1>5

LEMMA LeaveLowers ==
  ASSUME TypeOK, TypeOK', NEW q \in Rows, Leave(q), NEW r \in Rows
  PROVE  /\ Ahead(r) \in Nat /\ Ahead(r)' \in Nat
         /\ Ahead(r)' <= Ahead(r)
         /\ Kept(r)' => Kept(r) /\ Ahead(r)' = Ahead(r)
         /\ Ties' <=> Ties
<1>1. /\ listed' = listed \ {q} /\ left' = left \cup {q}
      /\ time' = time /\ start' = start /\ came' = came
  BY DEF Leave
<1>2. Newer(r)' \in SUBSET Newer(r) /\ Newer(r) \in SUBSET Rows
  BY <1>1 DEF Newer, TypeOK
<1>3. Ahead(r) \in Nat /\ Ahead(r)' \in Nat /\ Ahead(r)' <= Ahead(r)
  BY <1>2, PartCounted, FS_Subset DEF Ahead
<1>4. ASSUME Kept(r)' PROVE Kept(r) /\ Newer(r)' = Newer(r)
  BY <1>1, <1>4 DEF Kept, AnyNewer, Newer
<1>5. Ties' <=> Ties
  BY <1>1 DEF Ties
<1> QED BY <1>3, <1>4, <1>5 DEF Ahead

\* The statements of a page change no place.
LEMMA ReadsLeave ==
  ASSUME UNCHANGED table
  PROVE  /\ listed' = listed /\ start' = start /\ came' = came /\ left' = left
         /\ time' = time /\ (Ties' <=> Ties)
         /\ \A r : Ahead(r)' = Ahead(r) /\ (Kept(r)' <=> Kept(r))
<1>1. /\ listed' = listed /\ time' = time
      /\ start' = start /\ came' = came /\ left' = left
  BY DEF table
<1>2. (Ties' <=> Ties) /\ \A r : Newer(r)' = Newer(r) /\ (Kept(r)' <=> Kept(r))
  BY <1>1 DEF Ties, Newer, Kept, AnyNewer
<1> QED BY <1>1, <1>2 DEF Ahead

-----------------------------------------------------------------------------
\* The inductive invariant.

\* A walk starts with nothing read and no place behind it.
LEMMA InitInv == Init => IInv
<1> SUFFICES ASSUME Init PROVE IInv
  OBVIOUS
<1>1. TypeOK
  <2>1. 0 \in 0..Cardinality(Rows)
    BY PartCounted
  <2>2. 1 \in Nat \ {0}
    OBVIOUS
  <2> QED BY <2>1, <2>2, Zenon DEF Init, TypeOK, FirstPage
<1>2. Held
  BY DEF Init, Held
<1>3. Counted
  BY DEF Init, Counted
<1>4. Reached = 0
  <2>1. Reached = (1 - 1) * size
    BY DEF Init, Reached, Holding, Skip, FirstPage
  <2> QED BY <2>1, <1>1, SkipNat
<1>5. NoneBehind
  BY <1>1, <1>4, AheadNat DEF NoneBehind
<1>6. AllBehind
  BY DEF Init, AllBehind
<1>7. NothingSkipped
  BY DEF Init, NothingSkipped
<1> QED BY <1>1, <1>2, <1>3, <1>5, <1>6, <1>7 DEF IInv

\* A row that comes raises places: none falls behind the walk unread, and only
\* those of older rows change.
LEMMA ComeInv ==
  ASSUME IInv, NEW q \in Rows, Come(q)
  PROVE  IInv'
<1> USE DEF IInv
<1>1. UNCHANGED <<list, size, page, stage, items, total, seen, twice>>
  BY DEF Come, walk
<1>2. Reached' = Reached /\ (Holding' <=> Holding) /\ Reached \in Nat
  BY <1>1, SkipNat DEF Reached, Holding, Skip
<1>3. TypeOK'
  BY <1>1 DEF TypeOK, Come
<1>4. Held'
  BY <1>1, <1>2 DEF Held, Come
<1>5. Counted'
  <2> SUFFICES ASSUME list = "loans", stage = "second",
                      NEW r \in Rows, Kept(r)', ~AnyNewer(gap, r)'
               PROVE  Ahead(r)' < total
    BY <1>1 DEF Counted
  <2>1. gap' = gap \cup {q} /\ time' = time
    BY DEF Come
  <2>2. ~AnyNewer(gap, r) /\ ~(time[q] > time[r])
    BY <2>1 DEF AnyNewer
  <2>3. Kept(r) /\ Ahead(r)' = Ahead(r)
    BY <1>3, <2>2, ComeRaises
  <2> QED BY <2>2, <2>3 DEF Counted
<1>6. NoneBehind'
  <2> SUFFICES ASSUME ~Ties', stage # "over", NEW r \in Rows, Kept(r)', Ahead(r)' < Reached
               PROVE  r \in seen \cup items
    BY <1>1, <1>2 DEF NoneBehind
  <2>1. ~Ties /\ Kept(r) /\ Ahead(r) < Reached
    BY <1>2, <1>3, ComeRaises
  <2> QED BY <2>1 DEF NoneBehind
<1>7. AllBehind'
  <2> SUFFICES ASSUME ~Ties', NEW r \in Rows, ~AnyNewer(came, r)'
               PROVE  /\ r \notin twice /\ r \notin seen \cap items
                      /\ r \in seen \cup items /\ stage # "over" => Ahead(r)' < Reached
    BY <1>1, <1>2 DEF AllBehind
  <2>1. q \in came' /\ time' = time
    BY DEF Come
  <2>2. ~(time[q] > time[r])
    BY <2>1 DEF AnyNewer
  <2>3. ~Ties /\ ~AnyNewer(came, r) /\ Ahead(r)' = Ahead(r)
    BY <1>3, <2>2, ComeRaises
  <2> QED BY <2>3 DEF AllBehind
<1>8. NothingSkipped'
  <2>1. /\ start' = start /\ left' = left /\ time' = time
        /\ gap \subseteq gap' /\ (~Ties' => ~Ties)
    BY <1>3, ComeRaises DEF Come
  <2> QED BY <1>1, <2>1 DEF NothingSkipped, AnyNewer
<1> QED BY <1>3, <1>4, <1>5, <1>6, <1>7, <1>8

\* A row that leaves lowers places: none that was read is ahead of the walk, and
\* only those of older rows change.
LEMMA LeaveInv ==
  ASSUME IInv, NEW q \in Rows, Leave(q)
  PROVE  IInv'
<1> USE DEF IInv
<1>1. UNCHANGED <<list, size, page, stage, items, total, seen, twice, gap, came, time>>
  BY DEF Leave, walk
<1>2. Reached' = Reached /\ (Holding' <=> Holding) /\ Reached \in Nat
  BY <1>1, SkipNat DEF Reached, Holding, Skip
<1>3. TypeOK'
  BY <1>1 DEF TypeOK, Leave
<1>4. Held'
  BY <1>1, <1>2 DEF Held, Leave
<1>5. \A r \in Rows :
        /\ Ahead(r) \in Nat /\ Ahead(r)' \in Nat
        /\ Ahead(r)' <= Ahead(r)
        /\ Kept(r)' => Kept(r) /\ Ahead(r)' = Ahead(r)
  BY <1>3, LeaveLowers
<1>6. Ties' <=> Ties
  BY DEF Leave, Ties
<1>7. \A r : /\ AnyNewer(came, r)' <=> AnyNewer(came, r)
             /\ AnyNewer(gap, r)' <=> AnyNewer(gap, r)
  BY <1>1 DEF AnyNewer
<1>8. Counted'
  BY <1>1, <1>5, <1>7 DEF Counted
<1>9. NoneBehind'
  BY <1>1, <1>2, <1>5, <1>6 DEF NoneBehind
<1>10. AllBehind'
  BY <1>1, <1>2, <1>5, <1>6, <1>7 DEF AllBehind
<1>11. NothingSkipped'
  <2>1. start' = start /\ left \subseteq left'
    BY DEF Leave
  <2> QED BY <1>1, <1>6, <2>1 DEF NothingSkipped, AnyNewer
<1> QED BY <1>3, <1>4, <1>8, <1>9, <1>10, <1>11

\* What the client has been given and a page of rows are together: no kept row
\* is missing up to the end of that page,
Covers(rows) ==
  ~Ties => \A r \in Rows : Kept(r) /\ Ahead(r) < Skip + size => r \in seen \cup rows

\* and none that only older rows came after is ahead of it, or in both.
Fresh(rows) ==
  ~Ties =>
    \A r \in Rows : ~AnyNewer(came, r) =>
      /\ r \notin seen \cap rows
      /\ r \in seen \cup rows => Ahead(r) < Skip + size

\* A page that is read carries on where those before it ended.
LEMMA PageCarriesOn ==
  ASSUME IInv, ~Holding, stage # "over", NEW o \in Orders
  PROVE  Covers(PageOf(o)) /\ Fresh(PageOf(o)) /\ PageOf(o) \subseteq Rows
<1> USE DEF IInv
<1>1. Reached = Skip /\ items = {} /\ Skip \in Nat /\ size \in Nat \ {0}
  BY SkipNat DEF Reached, Held
<1>2. Covers(PageOf(o))
  <2> SUFFICES ASSUME ~Ties, NEW r \in Rows, Kept(r), Ahead(r) < Skip + size, r \notin seen
               PROVE  r \in PageOf(o)
    BY DEF Covers
  <2>1. r \in listed
    BY DEF Held, Kept
  <2>2. Skip <= Ahead(r)
    BY <1>1, AheadNat DEF NoneBehind
  <2> QED BY <2>1, <2>2, PageHoldsItsPlaces
<1>3. Fresh(PageOf(o))
  <2> SUFFICES ASSUME ~Ties, NEW r \in Rows, ~AnyNewer(came, r)
               PROVE  /\ r \notin seen \cap PageOf(o)
                      /\ r \in seen \cup PageOf(o) => Ahead(r) < Skip + size
    BY DEF Fresh
  <2>1. r \in seen => Ahead(r) < Skip
    BY <1>1 DEF AllBehind
  <2>2. r \in PageOf(o) => Skip <= Ahead(r) /\ Ahead(r) < Skip + size
    BY PageHoldsItsPlaces
  <2>3. Ahead(r) \in Nat
    BY AheadNat
  <2> QED BY <1>1, <2>1, <2>2, <2>3
<1>4. PageOf(o) \subseteq Rows
  BY DEF PageOf, Orders, TypeOK
<1> QED BY <1>2, <1>3, <1>4

\* A page that is given to the client: the walk goes on after it, or is over
\* where the total says that no place is left.
LEMMA GiveInv ==
  ASSUME IInv, NEW rows \in SUBSET Rows, NEW n \in 0..Cardinality(Rows), Give(rows, n),
         Covers(rows), Fresh(rows), stage = "second",
         items' = {}, total' \in 0..Cardinality(Rows),
         \A r \in Rows : Kept(r) /\ ~AnyNewer(gap, r) => Ahead(r) < n,
         UNCHANGED <<table, list, size, gap>>
  PROVE  IInv'
<1> USE DEF IInv
<1>1. seen' = seen \cup rows /\ twice' = twice \cup (seen \cap rows)
  BY DEF Give
<1>2. /\ listed' = listed /\ start' = start /\ came' = came /\ left' = left
      /\ time' = time /\ (Ties' <=> Ties)
      /\ \A r : Ahead(r)' = Ahead(r) /\ (Kept(r)' <=> Kept(r))
  BY ReadsLeave
<1>3. \/ page * size < n /\ page' = page + 1 /\ stage' = "first"
      \/ ~(page * size < n) /\ page' = page /\ stage' = "over"
  BY DEF Give
<1>4. page \in Nat \ {0} /\ Skip \in Nat /\ size \in Nat \ {0} /\ page * size = Skip + size
  BY SkipNat DEF TypeOK
<1>5. stage' = "first" => Reached' = Skip + size
  <2> SUFFICES ASSUME stage' = "first" PROVE Reached' = Skip + size
    OBVIOUS
  <2>1. page' - 1 = page
    BY <1>3, <1>4
  <2>2. Reached' = (page' - 1) * size'
    BY DEF Reached, Holding, Skip
  <2> QED BY <1>4, <2>1, <2>2
<1>6. TypeOK'
  BY <1>1, <1>2, <1>3, <1>4 DEF TypeOK
<1>7. Held'
  BY <1>2 DEF Held
<1>8. Counted'
  BY <1>3 DEF Counted
<1>9. NoneBehind'
  BY <1>1, <1>2, <1>3, <1>5 DEF NoneBehind, Covers
<1>10. AllBehind'
  <2> SUFFICES ASSUME ~Ties, NEW r \in Rows, ~AnyNewer(came, r)
               PROVE  /\ r \notin twice' /\ r \notin seen' \cap items'
                      /\ r \in seen' \cup items' /\ stage' # "over" => Ahead(r) < Reached'
    BY <1>2 DEF AllBehind, AnyNewer
  <2>1. r \notin twice /\ r \notin seen \cap rows
    BY DEF AllBehind, Fresh
  <2>2. r \in seen \cup rows => Ahead(r) < Skip + size
    BY DEF Fresh
  <2> QED BY <1>1, <1>3, <1>5, <2>1, <2>2
<1>11. NothingSkipped'
  <2> SUFFICES ASSUME stage' = "over", ~Ties, NEW r \in start \ left,
                      ~AnyNewer(left \cup gap, r)
               PROVE  r \in seen \cup rows
    BY <1>1, <1>2 DEF NothingSkipped, AnyNewer
  <2>1. r \in Rows /\ Kept(r) /\ ~AnyNewer(gap, r)
    BY DEF Kept, AnyNewer, TypeOK
  <2>2. Ahead(r) < n /\ Ahead(r) \in Nat
    BY <2>1, AheadNat
  <2>3. n \in Nat /\ ~(Skip + size < n)
    BY <1>3, <1>4, PartCounted
  <2>4. Ahead(r) < Skip + size
    BY <1>4, <2>2, <2>3
  <2> QED BY <2>1, <2>4 DEF Covers
<1> QED BY <1>6, <1>7, <1>8, <1>9, <1>10, <1>11

\* The Catalog Service's page is held until its total is known.
LEMMA CatalogFindManyInv ==
  ASSUME IInv, CatalogFindMany
  PROVE  IInv'
<1> USE DEF IInv
<1>1. PICK o \in Orders : items' = PageOf(o)
  BY DEF CatalogFindMany
<1>2. /\ list = "catalog" /\ stage = "first" /\ stage' = "second"
      /\ UNCHANGED <<table, list, size, page, total, seen, twice, gap>>
  BY DEF CatalogFindMany
<1>3. Covers(items') /\ Fresh(items') /\ items' \subseteq Rows
  BY <1>1, <1>2, PageCarriesOn DEF Holding
<1>4. /\ listed' = listed /\ start' = start /\ came' = came /\ left' = left
      /\ time' = time /\ (Ties' <=> Ties)
      /\ \A r : Ahead(r)' = Ahead(r) /\ (Kept(r)' <=> Kept(r))
  BY <1>2, ReadsLeave
<1>5. Holding' /\ Reached' = Skip + size
  BY <1>2 DEF Holding, Reached, Skip
<1>6. TypeOK'
  BY <1>2, <1>3, <1>4 DEF TypeOK
<1>7. Held' /\ Counted' /\ NothingSkipped'
  BY <1>2, <1>4, <1>5 DEF Held, Counted, NothingSkipped
<1>8. NoneBehind'
  BY <1>2, <1>3, <1>4, <1>5 DEF NoneBehind, Covers
<1>9. AllBehind'
  BY <1>2, <1>3, <1>4, <1>5 DEF AllBehind, Fresh, AnyNewer
<1> QED BY <1>6, <1>7, <1>8, <1>9

\* Its total, counted after, is enough for every row that is kept.
LEMMA CatalogCountInv ==
  ASSUME IInv, CatalogCount
  PROVE  IInv'
<1> USE DEF IInv
<1>1. Reached = Skip + size
  BY DEF CatalogCount, Reached, Holding
<1>2. Covers(items) /\ Fresh(items)
  BY <1>1 DEF Covers, Fresh, NoneBehind, AllBehind, CatalogCount
<1>3. total' = Cardinality(listed) /\ Cardinality(listed) \in 0..Cardinality(Rows)
  BY PartCounted DEF CatalogCount, TypeOK
<1>4. \A r \in Rows : Kept(r) => Ahead(r) < total'
  BY <1>3, PlaceInList DEF Kept, Held
<1> QED BY <1>2, <1>3, <1>4, GiveInv DEF CatalogCount, TypeOK

\* The Loan Service's, counted before, is enough until a row comes.
LEMMA LoansCountInv ==
  ASSUME IInv, LoansCount
  PROVE  IInv'
<1> USE DEF IInv
<1>1. /\ list = "loans" /\ stage = "first" /\ stage' = "second"
      /\ total' = Cardinality(listed) /\ gap' = {}
      /\ UNCHANGED <<table, list, size, page, items, seen, twice>>
  BY DEF LoansCount
<1>2. /\ listed' = listed /\ start' = start /\ came' = came /\ left' = left
      /\ time' = time /\ (Ties' <=> Ties)
      /\ \A r : Ahead(r)' = Ahead(r) /\ (Kept(r)' <=> Kept(r))
  BY <1>1, ReadsLeave
<1>3. ~Holding /\ ~Holding' /\ Reached' = Reached
  BY <1>1 DEF Holding, Reached, Skip
<1>4. Cardinality(listed) \in 0..Cardinality(Rows)
  BY PartCounted DEF TypeOK
<1>5. TypeOK'
  BY <1>1, <1>2, <1>4 DEF TypeOK
<1>6. Counted'
  BY <1>1, <1>2, PlaceInList DEF Counted, Kept, Held
<1>7. Held' /\ NothingSkipped'
  BY <1>1, <1>2, <1>3 DEF Held, NothingSkipped
<1>8. NoneBehind' /\ AllBehind'
  BY <1>1, <1>2, <1>3 DEF NoneBehind, AllBehind, AnyNewer
<1> QED BY <1>5, <1>6, <1>7, <1>8

LEMMA LoansFindInv ==
  ASSUME IInv, LoansFind
  PROVE  IInv'
<1> USE DEF IInv
<1>1. PICK o \in Orders : Give(PageOf(o), total)
  BY DEF LoansFind
<1>2. ~Holding /\ items = {} /\ stage = "second" /\ list = "loans"
  BY DEF LoansFind, Holding, Held
<1>3. Covers(PageOf(o)) /\ Fresh(PageOf(o)) /\ PageOf(o) \subseteq Rows
  BY <1>2, PageCarriesOn
<1>4. \A r \in Rows : Kept(r) /\ ~AnyNewer(gap, r) => Ahead(r) < total
  BY <1>2 DEF Counted
<1>5. total \in 0..Cardinality(Rows)
  BY DEF TypeOK
<1> QED BY <1>1, <1>2, <1>3, <1>4, <1>5, GiveInv DEF LoansFind

LEMMA NextInv == IInv /\ [Next]_vars => IInv'
<1> SUFFICES ASSUME IInv, [Next]_vars PROVE IInv'
  OBVIOUS
<1>1. ASSUME NEW r \in Rows, Come(r) \/ Leave(r) PROVE IInv'
  BY <1>1, ComeInv, LeaveInv
<1>2. CASE CatalogFindMany \/ CatalogCount \/ LoansCount \/ LoansFind
  BY <1>2, CatalogFindManyInv, CatalogCountInv, LoansCountInv, LoansFindInv
<1>3. CASE UNCHANGED vars
  <2>1. UNCHANGED <<table, list, size, page, stage, items, total, seen, twice, gap>>
    BY <1>3 DEF vars, walk
  <2>2. /\ listed' = listed /\ start' = start /\ came' = came /\ left' = left
        /\ time' = time /\ (Ties' <=> Ties)
        /\ \A r : Ahead(r)' = Ahead(r) /\ (Kept(r)' <=> Kept(r))
    BY <2>1, ReadsLeave
  <2>3. Reached' = Reached /\ (Holding' <=> Holding)
    BY <2>1 DEF Reached, Holding, Skip
  <2>4. \A r : /\ AnyNewer(came, r)' <=> AnyNewer(came, r)
               /\ AnyNewer(gap, r)' <=> AnyNewer(gap, r)
    BY <2>1, <2>2 DEF AnyNewer
  <2>5. TypeOK' /\ Held'
    BY <2>1, <2>2, <2>3 DEF IInv, TypeOK, Held
  <2>6. Counted' /\ NoneBehind' /\ AllBehind'
    BY <2>1, <2>2, <2>3, <2>4 DEF IInv, Counted, NoneBehind, AllBehind
  <2>7. NothingSkipped'
    BY <2>1, <2>2 DEF IInv, NothingSkipped, AnyNewer
  <2> QED BY <2>5, <2>6, <2>7 DEF IInv
<1> QED BY <1>1, <1>2, <1>3 DEF Next

-----------------------------------------------------------------------------
\* The inductive invariant: a kept row behind the walk has been read, a row that
\* was read is behind the walk until a newer one comes.
THEOREM ListingInvariance == Spec => []IInv
  BY InitInv, NextInv, PTL DEF Spec

\* Pages, totals and the rows given are always what their types say; a total is
\* never more than there are rows.
THEOREM ListingTyped == Spec => []TypeOK
<1>1. IInv => TypeOK
  BY DEF IInv
<1> QED BY <1>1, ListingInvariance, PTL

\* However many rows come and leave while a client walks a list to its end, and
\* whenever they do, a row that was there all along is missed only if a newer one
\* left, or came between the last count of the Loan Service and its read, or if
\* two rows have the same time.
THEOREM NoRowSkipped == Spec => []NothingSkipped
<1>1. IInv => NothingSkipped
  BY DEF IInv
<1> QED BY <1>1, ListingInvariance, PTL

\* However many rows come and leave while a client walks a list, it is given a
\* row twice only if a newer one came, or two rows have the same time.
THEOREM NoRowTwice == Spec => []NothingTwice
<1>1. IInv => NothingTwice
  BY DEF IInv, TypeOK, AllBehind, NothingTwice
<1> QED BY <1>1, ListingInvariance, PTL
=============================================================================
