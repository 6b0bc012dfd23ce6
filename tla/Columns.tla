------------------------------ MODULE Columns ------------------------------
(* Aggregates of the SQL queries.                                          *)
EXTENDS Integers, Sequences

\* SUM of a column.
SumOf(column) ==
  LET upTo[n \in 0 .. Len(column)] == IF n = 0 THEN 0 ELSE upTo[n - 1] + column[n]
  IN upTo[Len(column)]
=============================================================================
