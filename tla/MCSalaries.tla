----------------------------- MODULE MCSalaries -----------------------------
(***************************************************************************)
(* Instances of Salaries for TLC.  Requests are interchangeable.           *)
(***************************************************************************)
EXTENDS Salaries, TLC

Symmetry == Permutations(Requests)
=============================================================================
