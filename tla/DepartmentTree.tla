--------------------------- MODULE DepartmentTree ---------------------------
(***************************************************************************)
(* What the department service promises of the tree: each operation is one *)
(* atomic step that checks its guard against the tree it changes.          *)
(***************************************************************************)
CONSTANTS
  Depts,   \* the departments a tenant may ever create
  Root     \* the null parent_id

VARIABLES
  status,  \* status[d]: absent, active or inactive
  parent   \* parent[d]: the parent department of d, or Root

vars == <<status, parent>>

Existing == {d \in Depts : status[d] # "absent"}

Children(S) == {d \in Depts : parent[d] \in S}

\* d and everything below it: the least set with d that its children do not
\* leave.
Subtree(d) ==
  {x \in Depts : \A S \in SUBSET Depts : d \in S /\ Children(S) \subseteq S => x \in S}

\* Some departments of S are above one another in a ring.
Looped(S) == \E T \in SUBSET S : T # {} /\ \A d \in T : parent[d] \in T

Sheltered(p) == p = Root \/ (p \in Depts /\ status[p] = "active")

Init ==
  /\ status = [d \in Depts |-> "absent"]
  /\ parent = [d \in Depts |-> Root]

Create(d, p) ==
  /\ status[d] = "absent"
  /\ Sheltered(p)
  /\ status' = [status EXCEPT ![d] = "active"]
  /\ parent' = [parent EXCEPT ![d] = p]

Move(d, p) ==
  /\ d \in Existing
  /\ Sheltered(p)
  /\ p \notin Subtree(d)
  /\ parent' = [parent EXCEPT ![d] = p]
  /\ UNCHANGED status

Deactivate(d) ==
  /\ status[d] = "active"
  /\ \A x \in Children({d}) : status[x] # "active"
  /\ status' = [status EXCEPT ![d] = "inactive"]
  /\ UNCHANGED parent

Reactivate(d) ==
  /\ status[d] = "inactive"
  /\ Sheltered(parent[d])
  /\ status' = [status EXCEPT ![d] = "active"]
  /\ UNCHANGED parent

Next ==
  \E d \in Depts :
    \/ Deactivate(d)
    \/ Reactivate(d)
    \/ \E p \in Depts \cup {Root} : Create(d, p) \/ Move(d, p)

Spec == Init /\ [][Next]_vars

TypeOK ==
  /\ status \in [Depts -> {"absent", "active", "inactive"}]
  /\ parent \in [Depts -> Depts \cup {Root}]

\* No department is its own ancestor.
Acyclic == ~ Looped(Depts)

\* The parent of an active department is active.
ActiveUnderActive == \A d \in Depts : status[d] = "active" => Sheltered(parent[d])

\* A parent exists, and a department that does not exist has none.
ParentExists ==
  \A d \in Depts : parent[d] # Root => d \in Existing /\ parent[d] \in Existing
=============================================================================
