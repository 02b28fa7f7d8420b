----------------------------- MODULE MCTenants -----------------------------
(***************************************************************************)
(* Instances of Tenants for TLC.  Requests are interchangeable.            *)
(***************************************************************************)
EXTENDS Tenants, TLC

Symmetry == Permutations(Callers)
=============================================================================
