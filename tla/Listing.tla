------------------------------ MODULE Listing ------------------------------
(***************************************************************************)
(* The paged lists of both services, and a client that walks through one   *)
(* while rows come into it and leave it.  A page is two statements, one    *)
(* that reads the rows and one that counts them: the Catalog Service's     *)
(* repositories read first, the Loan Service's counts first.  Prisma's     *)
(* $transaction at Postgres' READ COMMITTED gives each statement its own   *)
(* view, as GORM's two queries have, so a write may fall between them.     *)
(*                                                                         *)
(* A row is in the list when it is in the table and meets the filter: it   *)
(* comes by an insert or by a change, then with an older time, leaves by a *)
(* delete or a change, and may come again, as a book does that is          *)
(* available, lent and returned.  The order of rows with the same time is  *)
(* Postgres' and may be another for each statement.                        *)
(***************************************************************************)
EXTENDS Integers, FiniteSets

CONSTANTS
  Rows,   \* ids of rows
  Times,  \* values of created_at and borrowed_at; bound on how many differ
  Sizes   \* page sizes asked for; the docs allow 1 to 100

ASSUME ListingAssumption ==
  /\ IsFiniteSet(Rows)
  /\ Times \subseteq Nat
  /\ Sizes \subseteq Nat \ {0}

VARIABLES
  listed,  \* the rows of the list
  time,    \* time[r]: its created_at or borrowed_at, which never changes
  list,    \* the service asked
  size,    \* the page size of the walk
  page,    \* the page it is at
  stage,   \* "first", "second": the statement that is next; or "over"
  items,   \* the rows of the page, once read
  total,   \* the number of rows, once counted
  seen,    \* the rows the client has been given
  twice,   \* those it has been given on two pages
  start,   \* the rows that were listed when the walk began
  came,    \* those that have come since
  left,    \* those that have left since
  gap      \* those that have come since the page that is next was counted

table == <<listed, time, start, came, left>>
walk == <<list, size, page, stage, items, total, seen, twice>>
vars == <<table, walk, gap>>

TypeOK ==
  /\ listed \subseteq Rows
  /\ start \subseteq Rows /\ came \subseteq Rows /\ left \subseteq Rows
  /\ time \in [Rows -> Times]
  /\ list \in {"catalog", "loans"}
  /\ size \in Sizes
  /\ page \in Nat \ {0}
  /\ stage \in {"first", "second", "over"}
  /\ total \in 0..Cardinality(Rows)
  /\ items \subseteq Rows /\ twice \subseteq seen /\ seen \subseteq Rows
  /\ gap \subseteq came

\* Mutant: pages are counted from 0.
FirstPageFromZero == 0

\* The page that is given by default.
FirstPage == 1

Init ==
  /\ listed \in SUBSET Rows
  /\ time \in [Rows -> Times]
  /\ list \in {"catalog", "loans"}
  /\ size \in Sizes
  /\ page = FirstPage
  /\ stage = "first"
  /\ items = {} /\ total = 0
  /\ seen = {} /\ twice = {}
  /\ start = listed /\ came = {} /\ left = {} /\ gap = {}

-----------------------------------------------------------------------------
\* The rows of the table.

Come(r) ==
  /\ r \notin listed
  /\ listed' = listed \cup {r}
  /\ came' = came \cup {r}
  /\ gap' = IF list = "loans" /\ stage = "second" THEN gap \cup {r} ELSE gap
  /\ UNCHANGED <<time, start, left, walk>>

Leave(r) ==
  /\ r \in listed
  /\ listed' = listed \ {r}
  /\ left' = left \cup {r}
  /\ UNCHANGED <<time, start, came, gap, walk>>

-----------------------------------------------------------------------------
\* The statements of a page.

\* Mutant: the rows are taken as they come.
AnyOrder(o) == TRUE

\* Is o an order of the listed rows, the newest first?
Order(o) == \A i, j \in DOMAIN o : i < j => time[o[i]] >= time[o[j]]

Orders ==
  {o \in [1..Cardinality(listed) -> listed] :
     (\A i, j \in DOMAIN o : i # j => o[i] # o[j]) /\ Order(o)}

\* Mutant: the offset of the page after.
SkipOnePageMore == page * size

Skip == (page - 1) * size

PageOf(o) == {o[i] : i \in (Skip + 1)..(Skip + size) \cap DOMAIN o}

\* The client is given the page, and asks for the next one while the total
\* promises one.
Give(rows, n) ==
  /\ seen' = seen \cup rows
  /\ twice' = twice \cup (seen \cap rows)
  /\ IF page * size < n
       THEN page' = page + 1 /\ stage' = "first"
       ELSE page' = page /\ stage' = "over"

CatalogFindMany ==
  /\ list = "catalog" /\ stage = "first"
  /\ \E o \in Orders : items' = PageOf(o)
  /\ stage' = "second"
  /\ UNCHANGED <<table, list, size, page, total, seen, twice, gap>>

CatalogCount ==
  /\ list = "catalog" /\ stage = "second"
  /\ total' = Cardinality(listed)
  /\ Give(items, total')
  /\ items' = {}
  /\ UNCHANGED <<table, list, size, gap>>

LoansCount ==
  /\ list = "loans" /\ stage = "first"
  /\ total' = Cardinality(listed)
  /\ stage' = "second"
  /\ gap' = {}
  /\ UNCHANGED <<table, list, size, page, items, seen, twice>>

LoansFind ==
  /\ list = "loans" /\ stage = "second"
  /\ \E o \in Orders : Give(PageOf(o), total)
  /\ UNCHANGED <<table, list, size, items, total, gap>>

Next ==
  \/ \E r \in Rows : Come(r) \/ Leave(r)
  \/ CatalogFindMany \/ CatalogCount
  \/ LoansCount \/ LoansFind

Spec == Init /\ [][Next]_vars

-----------------------------------------------------------------------------
\* Rows of the walk that have the same time.
Ties == \E r, s \in start \cup came : r # s /\ time[r] = time[s]

\* Is one of these rows newer than r?
AnyNewer(rows, r) == \E s \in rows : time[s] > time[r]

\* A client that walks a list to its end misses a row that was there all along
\* only if a newer one left meanwhile; rows that come, wherever and however
\* many, move it down, never up, and the total of a page that was counted after
\* it was read promises the page it moves to.  A total counted before, as the
\* Loan Service's is, may not: there a newer row that comes between the last
\* two statements can hide one as well.  So can rows of the same time.
NothingSkipped ==
  stage = "over" /\ ~Ties =>
    \A r \in start \ left : r \notin seen => AnyNewer(left \cup gap, r)

\* A client is given a row twice only if a newer one came meanwhile, or rows have
\* the same time; rows that leave repeat none, not even if they come again.
NothingTwice == ~Ties => \A r \in twice : AnyNewer(came, r)

-----------------------------------------------------------------------------
(***************************************************************************)
(* The inductive invariant.  Where all rows have different times, the      *)
(* place of a row is the number of rows ahead of it, whatever the order    *)
(* Postgres takes.  Only newer rows change it: one that comes raises it,   *)
(* one that leaves lowers it.  The walk has come to the place Reached.     *)
(***************************************************************************)

\* The rows of the list that are newer than r.
Newer(r) == {s \in listed : time[s] > time[r]}
Ahead(r) == Cardinality(Newer(r))

\* A page has been read and not given yet.
Holding == list = "catalog" /\ stage = "second"

\* How many places of the list have been read.
Reached == IF Holding THEN Skip + size ELSE Skip

\* A row that was there all along, and that no row which left was ahead of.
Kept(r) == r \in start \ left /\ ~AnyNewer(left, r)

\* The page is held only between its two statements, and the rows of the list
\* are those of the start and those that came.
Held ==
  /\ ~Holding => items = {}
  /\ start \ left \subseteq listed
  /\ listed \subseteq start \cup came
  /\ list = "catalog" => gap = {}

\* A row that is kept and whose place is behind the walk has been read.
NoneBehind ==
  ~Ties /\ stage # "over" =>
    \A r \in Rows : Kept(r) /\ Ahead(r) < Reached => r \in seen \cup items

\* A row that has been read and that no row which came is ahead of is behind
\* the walk, and so is never read again.
AllBehind ==
  ~Ties =>
    \A r \in Rows : ~AnyNewer(came, r) =>
      /\ r \notin twice
      /\ r \notin seen \cap items
      /\ r \in seen \cup items /\ stage # "over" => Ahead(r) < Reached

\* A total counted first is enough for a row that is kept and that no row which
\* came since is ahead of.
Counted ==
  list = "loans" /\ stage = "second" =>
    \A r \in Rows : Kept(r) /\ ~AnyNewer(gap, r) => Ahead(r) < total

IInv ==
  /\ TypeOK /\ Held /\ Counted
  /\ NoneBehind /\ AllBehind
  /\ NothingSkipped
=============================================================================
