------------------------------- MODULE Totals -------------------------------
(***************************************************************************)
(* Totals of amounts of money, the SQL sum(...) over a set of rows.        *)
(* An amount n held by row x is the set of unit tokens <<x, 1>> .. <<x, n>>*)
(* and a total is the number of tokens.  Stated this way a total needs no  *)
(* recursion, so its laws follow from the laws of cardinality.             *)
(***************************************************************************)
EXTENDS Integers, FiniteSets

\* The unit tokens of the rows S whose amounts are f.
Units(f, S) == UNION { {x} \X (1..f[x]) : x \in S }

\* sum(f[x]) over the rows x of S.
Total(f, S) == Cardinality(Units(f, S))

LesserOf(m, n) == IF m <= n THEN m ELSE n
GreaterOf(m, n) == IF m >= n THEN m ELSE n
=============================================================================
