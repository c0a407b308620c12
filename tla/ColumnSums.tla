----------------------------- MODULE ColumnSums -----------------------------
(***************************************************************************)
(* Sums of a column of amounts.  `sumValidated`, `sumEarnedSince` and      *)
(* `sumCompletedRefunds` of the repositories add up a column with          *)
(* `rows.reduce`; here a column is a function from rows to signed amounts, *)
(* and its sum is the number of units counted one by one: Heap lays the    *)
(* units of every row side by side as pairs <<row, i>> and counts the      *)
(* pairs, so that what happens to a sum when one row changes follows from  *)
(* facts about the cardinality of finite sets, without induction.          *)
(***************************************************************************)
EXTENDS Integers, FiniteSets

\* The units of the rows with a positive amount, one pair per unit.
Heap(column) == UNION {{r} \X (1..column[r]) : r \in DOMAIN column}

Negated(column) == [r \in DOMAIN column |-> 0 - column[r]]

\* The sum of a column: what is credited less what is debited.
Total(column) == Cardinality(Heap(column)) - Cardinality(Heap(Negated(column)))

=============================================================================
