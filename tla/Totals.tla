------------------------------- MODULE Totals -------------------------------
(***************************************************************************)
(* The sum of a natural-valued function over a finite set, written as the  *)
(* number of units it counts: element s contributes the f[s] pairs         *)
(* <<s, 1>> ... <<s, f[s]>>.  In this form the usual laws of sums follow   *)
(* from the laws of cardinality (Ledger_proofs), with no induction.        *)
(***************************************************************************)
EXTENDS Integers, FiniteSets

Units(S, f) == UNION {{s} \X (1 .. f[s]) : s \in S}

Total(S, f) == Cardinality(Units(S, f))
=============================================================================
