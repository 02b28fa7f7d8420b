-------------------------- MODULE MCTenantDatabase --------------------------
(***************************************************************************)
(* Instances of TenantDatabase for TLC: two requests of one tenant and one *)
(* of another, in a pool that lends one client.                            *)
(***************************************************************************)
EXTENDS TenantDatabase, TLC

CONSTANTS k1, k2, k3

TwoTenants == [k \in Callers |-> IF k = k3 THEN "blue" ELSE "green"]

\* k1 may retry; each way to reach the database meets it.
Mixed ==
  [k \in Callers |-> CASE k = k1 -> {"transaction"}
                       [] k = k2 -> {"transaction", "inTransaction"}
                       [] k = k3 -> {"execute", "withTenant", "query"}]

Symmetry == Permutations(Clients)
=============================================================================
