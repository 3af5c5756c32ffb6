-------------------------------- MODULE Sums --------------------------------
(***************************************************************************)
(* Sums of natural numbers over finite sets.  A sum counts units, as many  *)
(* for an element as its number says, so that facts about sums follow from *)
(* facts about cardinalities; those about a fold would need an induction.  *)
(***************************************************************************)
EXTENDS Naturals, FiniteSets

Units(f, S) == UNION {{s} \X (1 .. f[s]) : s \in S}

SumOver(f, S) == Cardinality(Units(f, S))
=============================================================================
