---------------------------- MODULE MCEmployees ----------------------------
(***************************************************************************)
(* Instances of Employees for TLC.  Employees, departments and requests    *)
(* are each interchangeable.                                               *)
(***************************************************************************)
EXTENDS Employees, Naturals, TLC

Symmetry == Permutations(Emps) \cup Permutations(Depts) \cup Permutations(Callers)

\* Bound: a behaviour is followed until more than two accidents (outdated facts
\* written on, clean-ups cut short, late registrations) have happened in it.
FewAccidents == Cardinality(raced) + Cardinality(abandoned) + Cardinality(late) <= 2
=============================================================================
