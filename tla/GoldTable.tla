----------------------------- MODULE GoldTable ------------------------------
(***************************************************************************)
(* What the Gold layer promises of one table: readers see one publication  *)
(* after the other, each as a whole and each as it was asked for.  Only    *)
(* publications that overlap may do anything else.                         *)
(***************************************************************************)
EXTENDS Naturals, Bags

CONSTANTS Days,      \* days of a publication; 0 stands for a null date
          Versions,  \* versions of a day's rows
          MaxCols,   \* a table has its first 1..MaxCols columns
          NoTable    \* the table does not exist

VARIABLES table,     \* NoTable, or its columns and its bag of rows
          asked,     \* the publications about to end, each a strategy and a day
          open       \* publications overlap

vars == <<table, asked, open>>

Row(c) == [day: Days \cup {0}, version: Versions, cols: {c}]

OfDay(S, d) == {row \in S : row.day = d}

Init == table = NoTable /\ asked = {} /\ open = FALSE

\* Exactly the batch.
Replace ==
  \E c \in 1..MaxCols : \E b \in SUBSET Row(c) :
    table' = [cols |-> c, rows |-> SetToBag(b)]

\* The rows that are there, and the batch in the table's columns.
Append ==
  \E b \in SUBSET Row(table.cols) :
    table' = [table EXCEPT !.rows = @ (+) SetToBag(b)]

\* The rows of other days and those without a day stay.
ReplaceDay(d) ==
  \E b \in SUBSET OfDay(Row(table.cols), d) :
    table' = [table EXCEPT !.rows =
                [e \in BagToSet(@) \ OfDay(BagToSet(@), d) |-> @[e]] (+) SetToBag(b)]

\* The first publication of a table is a replacement whatever was asked.
Publish ==
  \E p \in asked :
    \/ (p.strategy = "replace" \/ table = NoTable) /\ Replace
    \/ p.strategy = "append" /\ table # NoTable /\ Append
    \/ p.strategy = "delete_and_insert" /\ table # NoTable /\ ReplaceDay(p.day)

Raced == open /\ table'.cols \in 1..MaxCols

Next == UNCHANGED table \/ Publish \/ Raced

Spec == Init /\ [][Next]_vars
=============================================================================
