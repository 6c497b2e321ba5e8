\* Three rows, with and without equal times, in pages of one or two.
CONSTANTS
  Rows = {r1, r2, r3}
  Times = {1, 2, 3}
  Sizes = {1, 2}
SPECIFICATION Spec
SYMMETRY Symmetry
INVARIANTS
  TypeOK
  NothingSkipped
  NothingTwice
\* A walk ends, and the rows are finitely many.
CHECK_DEADLOCK FALSE
