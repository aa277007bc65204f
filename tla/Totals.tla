------------------------------- MODULE Totals -------------------------------
(***************************************************************************)
(* The sum of the values of a function with a finite domain, written as    *)
(* the number of pairs of an argument and one of its units, so that what   *)
(* is known of cardinalities can be used in proofs.                        *)
(***************************************************************************)
EXTENDS Integers, FiniteSets

Units(f) == UNION {{t} \X (1 .. f[t]) : t \in DOMAIN f}
Total(f) == Cardinality(Units(f))
=============================================================================
