--------------------------------- MODULE Grid ---------------------------------
(***************************************************************************)
(* src/grid.c: cells in columns, from left to right and then down.  Of a   *)
(* cell only the width counts (estrlen, without escape sequences); the     *)
(* blanks that fill a column are left out.                                 *)
(***************************************************************************)
EXTENDS Integers, SequencesExt

Widest(S) == CHOOSE w \in S \cup {0} : \A v \in S : v <= w

\* The cell at each place of the grid's array, a place counting from 0.
grid_calculate(width, column) ==
  [i \in 1..column |-> 1 + Widest({width[j] : j \in {j \in DOMAIN width : (j - 1) % column = i - 1}})]

\* The rows: the numbers of the cells.
grid_print(count, column) ==
  [r \in 1..((count + column - 1) \div column) |->
     [i \in 1..(IF r * column <= count THEN column ELSE count % column) |-> (r - 1) * column + i]]

SumOf(s) == FoldLeft(LAMBDA a, b : a + b, 0, s)

\* The first number of columns that is too many.
TooMany(width, screen, column) == SumOf(grid_calculate(width, column)) > screen \/ column > Len(width)
FirstTooMany(width, screen) ==
  CHOOSE c \in 2..(Len(width) + 2) : TooMany(width, screen, c) /\ \A b \in 2..(c - 1) : ~TooMany(width, screen, b)

grid_auto_column(width, screen) == FirstTooMany(width, screen) - 1

grid_print_auto(width, screen) == grid_print(Len(width), grid_auto_column(width, screen))
===============================================================================
