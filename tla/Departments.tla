---------------------------- MODULE Departments ----------------------------
(***************************************************************************)
(* DepartmentService over the departments table.  No operation opens a     *)
(* transaction: every query of a request is a step of its own, what a      *)
(* check has seen may be outdated when the request writes, and the final   *)
(* UPDATE is conditional on the id alone.  Names and managers are left     *)
(* out; departments are never deleted.                                     *)
(***************************************************************************)
EXTENDS FiniteSets

CONSTANTS
  Depts,    \* the departments a tenant may ever create
  Root,     \* the null parent_id
  Callers   \* the requests that may be in flight at a time

ASSUME DepartmentsAssumption == IsFiniteSet(Depts) /\ Root \notin Depts

VARIABLES
  status,   \* status[d]: absent, active (is_active) or inactive
  parent,   \* parent[d]: parent_id, or Root
  task,     \* task[c]: the request in flight, and what it has checked
  raced     \* history: the kinds of outdated checks some request wrote on

table == <<status, parent>>
vars == <<status, parent, task, raced>>

\* The operators of the tree, on this table.
Tree == INSTANCE DepartmentTree

Kinds == {"tree", "active"}
Ops == {"none", "create", "move", "deactivate", "reactivate"}
Steps == {"idle", "validate", "subtree", "children", "write", "hung"}
Task == [op : Ops, dept : Depts \cup {Root}, to : Depts \cup {Root},
         pc : Steps, stale : SUBSET Kinds]

Idle == [op |-> "none", dept |-> Root, to |-> Root, pc |-> "idle", stale |-> {}]

Init ==
  /\ Tree!Init
  /\ task = [c \in Callers |-> Idle]
  /\ raced = {}

-----------------------------------------------------------------------------
(***************************************************************************)
(* Plausible slips in the code, one for each property to catch.  No action *)
(* uses them.                                                              *)
(***************************************************************************)

\* Only the direct children are excluded, not the whole subtree.
FindChildrenOnly(c) ==
  /\ task[c].pc = "subtree"
  /\ task[c].to \notin {task[c].dept} \cup Tree!Children({task[c].dept})
  /\ task' = [task EXCEPT ![c].pc = "write"]
  /\ UNCHANGED <<table, raced>>

\* Deactivation forgets to look at the children.
CountNothing(c) ==
  /\ task[c].pc = "children"
  /\ task' = [task EXCEPT ![c].pc = "write"]
  /\ UNCHANGED <<table, raced>>

\* The parent of a reactivated department is not asked for.
ReactivateUnchecked(c, d) ==
  /\ status[d] = "inactive"
  /\ task[c] = Idle
  /\ task' = [task EXCEPT ![c] =
                [op |-> "reactivate", dept |-> d, to |-> parent[d],
                 pc |-> "write", stale |-> {}]]
  /\ UNCHANGED <<table, raced>>

\* Deactivation deletes the row.
WriteDeleted(c) ==
  /\ task[c].op = "deactivate"
  /\ task[c].pc = "write"
  /\ task' = [task EXCEPT ![c] = Idle]
  /\ raced' = raced \cup task[c].stale
  /\ status' = [status EXCEPT ![task[c].dept] = "deleted"]
  /\ UNCHANGED parent

-----------------------------------------------------------------------------
(***************************************************************************)
(* The first query of each operation.                                      *)
(***************************************************************************)
Begin(c, op, d, p, pc) ==
  /\ task[c] = Idle
  /\ task' = [task EXCEPT ![c] =
                [op |-> op, dept |-> d, to |-> p, pc |-> pc, stale |-> {}]]
  /\ UNCHANGED <<table, raced>>

\* Without a parent there is nothing to validate.
AfterRead(p) == IF p = Root THEN "write" ELSE "validate"

\* The id is a fresh uuid: no two requests create the same department.
CreateDepartment(c, d, p) ==
  /\ status[d] = "absent"
  /\ \A b \in Callers : task[b].op = "create" => task[b].dept # d
  /\ p \in Tree!Existing \cup {Root}
  /\ Begin(c, "create", d, p, AfterRead(p))

\* updateDepartment with a new parentId; null promotes to a root.
MoveDepartment(c, d, p) ==
  /\ d \in Tree!Existing
  /\ p \in Tree!Existing \cup {Root}
  /\ p # parent[d]
  /\ Begin(c, "move", d, p, AfterRead(p))

DeactivateDepartment(c, d) ==
  /\ status[d] = "active"
  /\ Begin(c, "deactivate", d, Root, "children")

\* The parent that is validated next is the one of this read.
ReactivateDepartment(c, d) ==
  /\ status[d] = "inactive"
  /\ Begin(c, "reactivate", d, parent[d], AfterRead(parent[d]))

-----------------------------------------------------------------------------
(***************************************************************************)
(* The checks.                                                             *)
(***************************************************************************)
Advance(c, pc) ==
  /\ task' = [task EXCEPT ![c].pc = pc]
  /\ UNCHANGED <<table, raced>>

\* The request throws, or its process dies: nothing is written.
Drop(c) ==
  /\ task' = [task EXCEPT ![c] = Idle]
  /\ UNCHANGED <<table, raced>>

\* validateParentDepartment, and a department under itself is refused.
ParentAccepted(t) == status[t.to] = "active" /\ (t.op = "move" => t.to # t.dept)

ValidateParent(c) ==
  /\ task[c].pc = "validate"
  /\ ParentAccepted(task[c])
  /\ Advance(c, IF task[c].op = "move" THEN "subtree" ELSE "write")

RefuseParent(c) ==
  /\ task[c].pc = "validate"
  /\ ~ ParentAccepted(task[c])
  /\ Drop(c)

\* The breadth-first search of findSubtreeIds has no visited set: it ends
\* unless the department is on a ring.
SearchEnds(t) == ~ Tree!Looped(Tree!Subtree(t.dept))

FindSubtree(c) ==
  /\ task[c].pc = "subtree"
  /\ SearchEnds(task[c])
  /\ task[c].to \notin Tree!Subtree(task[c].dept)
  /\ Advance(c, "write")

RefuseCircular(c) ==
  /\ task[c].pc = "subtree"
  /\ SearchEnds(task[c])
  /\ task[c].to \in Tree!Subtree(task[c].dept)
  /\ Drop(c)

SearchForever(c) ==
  /\ task[c].pc = "subtree"
  /\ ~ SearchEnds(task[c])
  /\ Advance(c, "hung")

ActiveChildren(d) == {x \in Tree!Children({d}) : status[x] = "active"}

CountActiveChildren(c) ==
  /\ task[c].pc = "children"
  /\ ActiveChildren(task[c].dept) = {}
  /\ Advance(c, "write")

RefuseActiveChildren(c) ==
  /\ task[c].pc = "children"
  /\ ActiveChildren(task[c].dept) # {}
  /\ Drop(c)

\* The pod dies with the request, or a query of it fails.
Dies(c) ==
  /\ task[c] # Idle
  /\ Drop(c)

-----------------------------------------------------------------------------
(***************************************************************************)
(* The write.  Outdated(t, u) says which checks of the request u, already  *)
(* made, the write of the request t makes untrue or may make untrue.       *)
(***************************************************************************)
Shelters == {"create", "move", "reactivate"}

OutdatesTree(t, u) == t.op = "move" /\ u.op = "move" /\ u.pc = "write"

OutdatesActive(t, u) ==
  \/ /\ t.op = "deactivate"
     /\ u.op \in Shelters /\ u.pc \in {"subtree", "write"} /\ u.to = t.dept
  \/ /\ t.op \in Shelters
     /\ u.op = "deactivate" /\ u.pc = "write" /\ u.dept = t.to
  \/ t.op = "move" /\ u.op = "reactivate" /\ u.dept = t.dept

Outdated(t, u) == {k \in Kinds : \/ k = "tree" /\ OutdatesTree(t, u)
                                 \/ k = "active" /\ OutdatesActive(t, u)}

Commit(c) ==
  /\ task[c].pc = "write"
  /\ task' = [b \in Callers |->
                IF b = c THEN Idle
                ELSE [task[b] EXCEPT !.stale = @ \cup Outdated(task[c], task[b])]]
  /\ raced' = raced \cup task[c].stale

WriteCreated(c) ==
  /\ task[c].op = "create"
  /\ Commit(c)
  /\ status' = [status EXCEPT ![task[c].dept] = "active"]
  /\ parent' = [parent EXCEPT ![task[c].dept] = task[c].to]

WriteParent(c) ==
  /\ task[c].op = "move"
  /\ Commit(c)
  /\ parent' = [parent EXCEPT ![task[c].dept] = task[c].to]
  /\ UNCHANGED status

WriteInactive(c) ==
  /\ task[c].op = "deactivate"
  /\ Commit(c)
  /\ status' = [status EXCEPT ![task[c].dept] = "inactive"]
  /\ UNCHANGED parent

WriteActive(c) ==
  /\ task[c].op = "reactivate"
  /\ Commit(c)
  /\ status' = [status EXCEPT ![task[c].dept] = "active"]
  /\ UNCHANGED parent

Request(c) ==
  \E d \in Depts :
    \/ \E p \in Depts \cup {Root} : CreateDepartment(c, d, p) \/ MoveDepartment(c, d, p)
    \/ DeactivateDepartment(c, d) \/ ReactivateDepartment(c, d)

Check(c) ==
  \/ ValidateParent(c) \/ RefuseParent(c)
  \/ FindSubtree(c) \/ RefuseCircular(c) \/ SearchForever(c)
  \/ CountActiveChildren(c) \/ RefuseActiveChildren(c)

Write(c) == WriteCreated(c) \/ WriteParent(c) \/ WriteInactive(c) \/ WriteActive(c)

Next == \E c \in Callers : Request(c) \/ Check(c) \/ Write(c) \/ Dies(c)

Spec == Init /\ [][Next]_vars

-----------------------------------------------------------------------------
TypeOK ==
  /\ Tree!TypeOK
  /\ task \in [Callers -> Task]
  /\ raced \subseteq Kinds

\* Two requests make a ring only if a move was written after another move had
\* changed the tree its subtree check saw: no other pair of operations, and no
\* crash, can.
AcyclicUnlessRaced == "tree" \in raced \/ Tree!Acyclic

\* An active department hangs under an inactive one only if a request wrote on
\* an outdated check: of the parent, of the children, or of where it hangs.
ActiveUnderActiveUnlessRaced == "active" \in raced \/ Tree!ActiveUnderActive

\* What getDepartmentTree returns: the departments buildTree reaches from null.
Shown == {d \in Depts : \A S \in SUBSET Depts :
                          Tree!Children(S \cup {Root}) \cap Tree!Existing \subseteq S => d \in S}

\* Every department is in the tree the interface shows, unless moves raced: one
\* on a ring, or under it, silently disappears.
ShownUnlessRaced == "tree" \in raced \/ Tree!Existing \subseteq Shown

\* findSubtreeIds runs forever only after moves raced.
HungOnlyIfRaced == \A c \in Callers : task[c].pc = "hung" => "tree" \in raced

\* As long as no outdated check was written on, every change of the table is
\* one atomic operation of the abstract tree.
AtomicUnlessRaced == [][raced' = {} => Tree!Next]_table
=============================================================================
