------------------------------ MODULE MCRoles ------------------------------
(***************************************************************************)
(* Instances of Roles for TLC: two of the five system roles, and three     *)
(* lists: everything, the defaults of one role with a code added, and a    *)
(* list that has no code in common with that one.                          *)
(***************************************************************************)
EXTENDS Roles, FiniteSets, TLC

TwoRoles == <<"tenant_admin", "employee">>

AdminOnly == <<"tenant_admin">>

ThreeLists == {Permissions, Employee \cup {"leave:view_team"}, RbacCodes}

Symmetry == Permutations(Ids) \cup Permutations(Employees)
=============================================================================
