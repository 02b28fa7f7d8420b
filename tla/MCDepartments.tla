---------------------------- MODULE MCDepartments ----------------------------
(***************************************************************************)
(* Instances of Departments for TLC.  Departments are interchangeable, and *)
(* so are the requests.                                                    *)
(***************************************************************************)
EXTENDS Departments, TLC

Symmetry == Permutations(Depts) \cup Permutations(Callers)
=============================================================================
