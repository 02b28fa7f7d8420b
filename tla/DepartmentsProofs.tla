-------------------------- MODULE DepartmentsProofs --------------------------
(***************************************************************************)
(* Proofs about Departments, for any set of departments and of requests.   *)
(* The first lemmas are about the tree; the invariant then says what each  *)
(* check of a request still guarantees while nothing has outdated it.      *)
(***************************************************************************)
EXTENDS Departments, TLAPS

USE DepartmentsAssumption

-----------------------------------------------------------------------------
(***************************************************************************)
(* The tree.                                                               *)
(***************************************************************************)

\* findSubtreeIds returns the department itself.
LEMMA SubtreeSelf ==
  ASSUME NEW d \in Depts
  PROVE  d \in Tree!Subtree(d)
BY DEF Tree!Subtree

\* With a department it returns its children.
LEMMA SubtreeClosed ==
  ASSUME NEW d \in Depts
  PROVE  Tree!Children(Tree!Subtree(d)) \subseteq Tree!Subtree(d)
BY DEF Tree!Subtree, Tree!Children

\* And nothing more.
LEMMA SubtreeLeast ==
  ASSUME NEW d \in Depts, NEW S \in SUBSET Depts,
         d \in S, Tree!Children(S) \subseteq S
  PROVE  Tree!Subtree(d) \subseteq S
BY DEF Tree!Subtree

\* A move out of the subtree closes no ring: what lies outside the subtree
\* would have been one already.
LEMMA MoveKeepsAcyclic ==
  ASSUME Tree!TypeOK, Tree!Acyclic,
         NEW d \in Depts, NEW p \in Depts \cup {Root},
         p \notin Tree!Subtree(d),
         parent' = [parent EXCEPT ![d] = p]
  PROVE  Tree!Acyclic'
<1> SUFFICES ASSUME NEW T \in SUBSET Depts, T # {},
                    \A x \in T : parent'[x] \in T
             PROVE  FALSE
  BY DEF Tree!Acyclic, Tree!Looped
<1> DEFINE U == T \ Tree!Subtree(d)
<1>1. \A x \in U : x # d /\ parent[x] \in T
  BY SubtreeSelf DEF Tree!TypeOK
<1>2. \A x \in U : parent[x] \in U
  <2> SUFFICES ASSUME NEW x \in U, parent[x] \in Tree!Subtree(d) PROVE FALSE
    BY <1>1
  <2>1. x \in Tree!Children(Tree!Subtree(d))
    BY DEF Tree!Children
  <2> QED BY <2>1, SubtreeClosed
<1>3. U # {}
  <2>1. CASE d \in T
    <3>1. p \in T
      BY <2>1 DEF Tree!TypeOK
    <3> QED BY <3>1
  <2>2. CASE d \notin T
    <3>1. \A x \in T : parent[x] \in T
      BY <2>2 DEF Tree!TypeOK
    <3> QED BY <3>1 DEF Tree!Acyclic, Tree!Looped
  <2> QED BY <2>1, <2>2
<1> QED BY <1>2, <1>3 DEF Tree!Acyclic, Tree!Looped

\* A department that did not exist has no children, so its insert neither
\* closes a ring nor extends a subtree by anything but itself.
LEMMA CreateKeepsAcyclic ==
  ASSUME Tree!TypeOK, Tree!ParentExists, Tree!Acyclic,
         NEW d \in Depts, NEW p \in Depts \cup {Root},
         status[d] = "absent", p # d,
         parent' = [parent EXCEPT ![d] = p]
  PROVE  Tree!Acyclic'
<1> SUFFICES ASSUME NEW T \in SUBSET Depts, T # {},
                    \A x \in T : parent'[x] \in T
             PROVE  FALSE
  BY DEF Tree!Acyclic, Tree!Looped
<1> DEFINE U == T \ {d}
<1>1. \A x \in U : parent[x] \in U
  BY DEF Tree!TypeOK, Tree!ParentExists, Tree!Existing
<1>2. U # {}
  <2>1. CASE d \in T
    <3>1. parent'[d] = p
      BY DEF Tree!TypeOK
    <3> QED BY <2>1, <3>1
  <2> QED BY <2>1
<1> QED BY <1>1, <1>2 DEF Tree!Acyclic, Tree!Looped

LEMMA CreateKeepsSubtrees ==
  ASSUME Tree!TypeOK, Tree!ParentExists,
         NEW d \in Depts, NEW p \in Depts \cup {Root}, NEW x \in Depts,
         status[d] = "absent",
         parent' = [parent EXCEPT ![d] = p]
  PROVE  Tree!Subtree(x)' \subseteq Tree!Subtree(x) \cup {d}
<1> DEFINE S == Tree!Subtree(x) \cup {d}
<1>1. S \in SUBSET Depts /\ x \in S
  BY SubtreeSelf DEF Tree!Subtree
<1>2. ASSUME NEW y \in Depts, parent'[y] \in S PROVE y \in S
  <2>1. CASE y = d
    BY <2>1
  <2>2. CASE y # d
    <3>1. parent[y] \in S /\ parent[y] # d
      BY <1>2, <2>2 DEF Tree!TypeOK, Tree!ParentExists, Tree!Existing
    <3>2. y \in Tree!Children(Tree!Subtree(x))
      BY <3>1 DEF Tree!Children
    <3> QED BY <3>2, SubtreeClosed
  <2> QED BY <2>1, <2>2
<1>3. {y \in Depts : parent'[y] \in S} \subseteq S
  BY <1>2
<1> QED BY <1>1, <1>3 DEF Tree!Subtree, Tree!Children

\* Without a ring every department is below null: the ones buildTree does not
\* reach would be above one another.
LEMMA AcyclicIsShown ==
  ASSUME Tree!TypeOK, Tree!ParentExists, Tree!Acyclic
  PROVE  Tree!Existing \subseteq Shown
<1> SUFFICES ASSUME NEW S \in SUBSET Depts,
                    Tree!Children(S \cup {Root}) \cap Tree!Existing \subseteq S,
                    NEW d \in Tree!Existing, d \notin S
             PROVE  FALSE
  BY DEF Shown, Tree!Existing
<1> DEFINE U == Tree!Existing \ S
<1>1. \A x \in U : parent[x] \in U
  <2> SUFFICES ASSUME NEW x \in U, parent[x] \notin U PROVE FALSE
    OBVIOUS
  <2>1. parent[x] \in S \cup {Root}
    BY DEF Tree!ParentExists, Tree!Existing, Tree!TypeOK
  <2>2. x \in Tree!Children(S \cup {Root})
    BY <2>1 DEF Tree!Children, Tree!Existing
  <2> QED BY <2>2
<1>2. U \in SUBSET Depts /\ U # {}
  BY DEF Tree!Existing
<1> QED BY <1>1, <1>2 DEF Tree!Acyclic, Tree!Looped

-----------------------------------------------------------------------------
(***************************************************************************)
(* The inductive invariant.                                                *)
(***************************************************************************)

\* A request works on departments that exist; the one it creates does not yet,
\* and no other request creates it.
TaskInv ==
  /\ \A c \in Callers :
       /\ task[c].pc \in {"validate", "subtree"} =>
            task[c].to \in Tree!Existing /\ task[c].op \in Shelters
       /\ task[c].pc = "subtree" => task[c].op = "move"
       /\ task[c].pc = "children" => task[c].op = "deactivate"
       /\ task[c].pc = "write" => task[c].op # "none"
       /\ task[c].op # "none" => task[c].dept \in Depts
       /\ task[c].op \in Shelters => task[c].to \in Tree!Existing \cup {Root}
       /\ task[c].op = "create" => status[task[c].dept] = "absent"
       /\ task[c].op \in {"move", "deactivate", "reactivate"} =>
            task[c].dept \in Tree!Existing
  /\ \A b, c \in Callers :
       task[b].op = "create" /\ task[c].op = "create" /\ b # c =>
         task[b].dept # task[c].dept

\* The subtree check of a move holds when it writes, unless another move was
\* written since.
SubtreeInv ==
  \A c \in Callers :
    task[c].op = "move" /\ task[c].pc = "write" /\ "tree" \notin task[c].stale =>
      task[c].to \notin Tree!Subtree(task[c].dept)

\* So do the checks of active parents and active children, unless something
\* outdated them, or some request already wrote on such a check.
ActiveInv ==
  "active" \notin raced =>
    \A c \in Callers :
      "active" \notin task[c].stale =>
        /\ task[c].op \in Shelters /\ task[c].pc \in {"subtree", "write"} =>
             Tree!Sheltered(task[c].to)
        /\ task[c].op = "deactivate" /\ task[c].pc = "write" =>
             ActiveChildren(task[c].dept) = {}
        /\ task[c].op = "reactivate" => parent[task[c].dept] = task[c].to

Inv ==
  /\ TypeOK
  /\ Tree!ParentExists
  /\ TaskInv
  /\ SubtreeInv
  /\ ActiveInv
  /\ AcyclicUnlessRaced
  /\ ActiveUnderActiveUnlessRaced
  /\ HungOnlyIfRaced

LEMMA InitInv == Init => Inv
<1> SUFFICES ASSUME Init PROVE Inv
  OBVIOUS
<1> USE DEF Init, Tree!Init
<1>1. TypeOK
  BY DEF TypeOK, Tree!TypeOK, Idle, Task, Ops, Steps, Kinds
<1>2. Tree!ParentExists
  BY DEF Tree!ParentExists
<1>3. TaskInv /\ SubtreeInv /\ ActiveInv /\ HungOnlyIfRaced
  BY DEF TaskInv, SubtreeInv, ActiveInv, HungOnlyIfRaced, Idle, Shelters
<1>4. AcyclicUnlessRaced
  BY DEF AcyclicUnlessRaced, Tree!Acyclic, Tree!Looped
<1>5. ActiveUnderActiveUnlessRaced
  BY DEF ActiveUnderActiveUnlessRaced, Tree!ActiveUnderActive
<1> QED BY <1>1, <1>2, <1>3, <1>4, <1>5 DEF Inv

-----------------------------------------------------------------------------
(***************************************************************************)
(* Every step keeps the invariant.  A step is the first query of a         *)
(* request, a check, a write, or the end of a request that writes nothing. *)
(***************************************************************************)

\* What a step other than a write does: it moves one request on.
LEMMA QuietSteps ==
  ASSUME TypeOK, NEW c \in Callers, Request(c) \/ Check(c) \/ Dies(c)
  PROVE  /\ UNCHANGED <<table, raced>>
         /\ \E t \in Task : task' = [task EXCEPT ![c] = t]
<1> USE DEF TypeOK
<1>1. Idle \in Task
  BY DEF Idle, Task, Ops, Steps, Kinds
<1>2. \A pc \in Steps : [task[c] EXCEPT !.pc = pc] \in Task
  BY DEF Task
<1>3. \A op \in Ops, d \in Depts, p \in Depts \cup {Root}, pc \in Steps :
         [op |-> op, dept |-> d, to |-> p, pc |-> pc, stale |-> {}] \in Task
  BY DEF Task
<1>4. CASE Request(c)
  <2>1. ASSUME NEW d \in Depts, NEW p \in Depts \cup {Root}, CreateDepartment(c, d, p)
        PROVE  task' = [task EXCEPT ![c] = [op |-> "create", dept |-> d, to |-> p,
                                            pc |-> AfterRead(p), stale |-> {}]]
               /\ UNCHANGED <<table, raced>>
    BY <2>1 DEF CreateDepartment, Begin
  <2>2. ASSUME NEW d \in Depts, NEW p \in Depts \cup {Root}, MoveDepartment(c, d, p)
        PROVE  task' = [task EXCEPT ![c] = [op |-> "move", dept |-> d, to |-> p,
                                            pc |-> AfterRead(p), stale |-> {}]]
               /\ UNCHANGED <<table, raced>>
    BY <2>2 DEF MoveDepartment, Begin
  <2>3. ASSUME NEW d \in Depts, DeactivateDepartment(c, d)
        PROVE  task' = [task EXCEPT ![c] = [op |-> "deactivate", dept |-> d, to |-> Root,
                                            pc |-> "children", stale |-> {}]]
               /\ UNCHANGED <<table, raced>>
    BY <2>3 DEF DeactivateDepartment, Begin
  <2>4. ASSUME NEW d \in Depts, ReactivateDepartment(c, d)
        PROVE  task' = [task EXCEPT ![c] =
                          [op |-> "reactivate", dept |-> d, to |-> parent[d],
                           pc |-> AfterRead(parent[d]), stale |-> {}]]
               /\ UNCHANGED <<table, raced>>
    BY <2>4 DEF ReactivateDepartment, Begin
  <2>5. \A p \in Depts \cup {Root} : AfterRead(p) \in Steps
    BY DEF AfterRead, Steps
  <2>6. "create" \in Ops /\ "move" \in Ops /\ "deactivate" \in Ops
          /\ "reactivate" \in Ops /\ "children" \in Steps
    BY DEF Ops, Steps
  <2>7. \A d \in Depts : parent[d] \in Depts \cup {Root}
    BY DEF Tree!TypeOK
  <2> QED BY <1>4, <1>3, <2>1, <2>2, <2>3, <2>4, <2>5, <2>6, <2>7 DEF Request
<1>5. CASE Check(c)
  <2>1. \/ UNCHANGED <<table, raced>> /\ task' = [task EXCEPT ![c] = Idle]
        \/ UNCHANGED <<table, raced>> /\ \E pc \in Steps : task' = [task EXCEPT ![c].pc = pc]
    BY <1>5 DEF Check, ValidateParent, RefuseParent, FindSubtree, RefuseCircular,
         SearchForever, CountActiveChildren, RefuseActiveChildren, Advance, Drop, Steps
  <2> QED BY <2>1, <1>1, <1>2
<1>6. CASE Dies(c)
  BY <1>6, <1>1 DEF Dies, Drop
<1> QED BY <1>4, <1>5, <1>6

\* A write finishes its request and outdates checks of others.
LEMMA Writes ==
  ASSUME TypeOK, TaskInv, NEW c \in Callers, Write(c)
  PROVE  /\ task[c].pc = "write" /\ task[c].op \in {"create", "move", "deactivate", "reactivate"}
         /\ task'[c] = Idle
         /\ \A b \in Callers \ {c} :
              /\ task'[b] = [task[b] EXCEPT !.stale = @ \cup Outdated(task[c], task[b])]
              /\ task'[b] \in Task
              /\ task'[b].op = task[b].op /\ task'[b].dept = task[b].dept
              /\ task'[b].to = task[b].to /\ task'[b].pc = task[b].pc
              /\ task'[b].stale = task[b].stale \cup Outdated(task[c], task[b])
         /\ raced' = raced \cup task[c].stale
         /\ task' \in [Callers -> Task]
         /\ raced' \subseteq Kinds
         /\ task[c].dept \in Depts /\ task[c].to \in Depts \cup {Root}
<1> USE DEF TypeOK
<1>1. Commit(c) /\ task[c].op \in {"create", "move", "deactivate", "reactivate"}
  BY DEF Write, WriteCreated, WriteParent, WriteInactive, WriteActive
<1>2. Idle \in Task
  BY DEF Idle, Task, Ops, Steps, Kinds
<1>3. \A b \in Callers : Outdated(task[c], task[b]) \subseteq Kinds
  BY DEF Outdated
<1>4. \A b \in Callers : [task[b] EXCEPT !.stale = @ \cup Outdated(task[c], task[b])] \in Task
  BY <1>3 DEF Task
<1>5. task' \in [Callers -> Task]
  BY <1>1, <1>2, <1>4 DEF Commit
<1>6. task'[c] = Idle /\ task[c].pc = "write" /\ raced' = raced \cup task[c].stale
  BY <1>1 DEF Commit
<1>7. \A b \in Callers \ {c} :
        task'[b] = [task[b] EXCEPT !.stale = @ \cup Outdated(task[c], task[b])]
  BY <1>1 DEF Commit
<1>8. task[c] \in Task /\ task[c].dept \in Depts
  BY <1>1 DEF TaskInv
<1>9. raced' \subseteq Kinds
  BY <1>6, <1>8 DEF Task
<1>10. \A b \in Callers \ {c} :
         /\ task'[b].op = task[b].op /\ task'[b].dept = task[b].dept
         /\ task'[b].to = task[b].to /\ task'[b].pc = task[b].pc
         /\ task'[b].stale = task[b].stale \cup Outdated(task[c], task[b])
  BY <1>7 DEF Task
<1> QED BY <1>1, <1>4, <1>5, <1>6, <1>7, <1>8, <1>9, <1>10 DEF Task

\* Where the four writes leave the table.
LEMMA TableWrites ==
  ASSUME TypeOK, TaskInv, NEW c \in Callers, Write(c)
  PROVE  LET d == task[c].dept
             p == task[c].to
         IN  /\ Tree!TypeOK'
             /\ task[c].op = "create" =>
                  /\ status' = [status EXCEPT ![d] = "active"]
                  /\ parent' = [parent EXCEPT ![d] = p]
             /\ task[c].op = "move" => parent' = [parent EXCEPT ![d] = p] /\ status' = status
             /\ task[c].op = "deactivate" =>
                  status' = [status EXCEPT ![d] = "inactive"] /\ parent' = parent
             /\ task[c].op = "reactivate" =>
                  status' = [status EXCEPT ![d] = "active"] /\ parent' = parent
<1>1. task[c].dept \in Depts /\ task[c].to \in Depts \cup {Root}
        /\ task[c].op \in {"create", "move", "deactivate", "reactivate"}
  BY Writes
<1> QED BY <1>1 DEF TypeOK, Tree!TypeOK, Write, WriteCreated, WriteParent,
             WriteInactive, WriteActive

LEMMA TypeStep ==
  ASSUME TypeOK, TaskInv, [Next]_vars
  PROVE  TypeOK'
<1>1. ASSUME NEW c \in Callers, Request(c) \/ Check(c) \/ Dies(c) PROVE TypeOK'
  <2>1. UNCHANGED <<table, raced>> /\ \E t \in Task : task' = [task EXCEPT ![c] = t]
    BY <1>1, QuietSteps
  <2> QED BY <2>1 DEF TypeOK, Tree!TypeOK, table
<1>2. ASSUME NEW c \in Callers, Write(c) PROVE TypeOK'
  BY <1>2, Writes, TableWrites DEF TypeOK
<1>3. CASE UNCHANGED vars
  BY <1>3 DEF TypeOK, Tree!TypeOK, vars
<1> QED BY <1>1, <1>2, <1>3 DEF Next

LEMMA ParentStep ==
  ASSUME TypeOK, TaskInv, Tree!ParentExists, [Next]_vars
  PROVE  Tree!ParentExists'
<1>1. ASSUME NEW c \in Callers, Request(c) \/ Check(c) \/ Dies(c)
      PROVE  Tree!ParentExists'
  <2>1. UNCHANGED table
    BY <1>1, QuietSteps
  <2> QED BY <2>1 DEF Tree!ParentExists, Tree!Existing, table
<1>2. ASSUME NEW c \in Callers, Write(c) PROVE Tree!ParentExists'
  <2>1. task[c].op = "create" \/ task[c].op = "move" => task[c].to \in Tree!Existing \cup {Root}
    BY DEF TaskInv, Shelters
  <2>2. task[c].op # "create" => task[c].dept \in Tree!Existing
    BY <1>2, Writes DEF TaskInv
  <2> QED BY <1>2, <2>1, <2>2, Writes, TableWrites
          DEF Tree!ParentExists, Tree!Existing, TypeOK, Tree!TypeOK
<1>3. CASE UNCHANGED vars
  BY <1>3 DEF Tree!ParentExists, Tree!Existing, vars
<1> QED BY <1>1, <1>2, <1>3 DEF Next

\* A quiet step of c, field by field: c drops its request, begins one, or
\* passes a check.
LEMMA QuietFields ==
  ASSUME TypeOK, TaskInv, NEW c \in Callers, Request(c) \/ Check(c) \/ Dies(c)
  PROVE  /\ UNCHANGED <<status, parent, raced>>
         /\ task' \in [Callers -> Task]
         /\ \A b \in Callers \ {c} : task'[b] = task[b]
         /\ \/ task'[c] = Idle
            \/ /\ task'[c].stale = {}
               /\ task'[c].dept \in Depts
               /\ \/ /\ task'[c].op = "create" /\ status[task'[c].dept] = "absent"
                     /\ \A b \in Callers : task[b].op = "create" => task[b].dept # task'[c].dept
                     /\ task'[c].to \in Tree!Existing \cup {Root}
                     /\ task'[c].pc = AfterRead(task'[c].to)
                  \/ /\ task'[c].op = "move" /\ task'[c].dept \in Tree!Existing
                     /\ task'[c].to \in Tree!Existing \cup {Root}
                     /\ task'[c].pc = AfterRead(task'[c].to)
                  \/ /\ task'[c].op = "deactivate" /\ task'[c].dept \in Tree!Existing
                     /\ task'[c].pc = "children"
                  \/ /\ task'[c].op = "reactivate" /\ task'[c].dept \in Tree!Existing
                     /\ task'[c].to = parent[task'[c].dept]
                     /\ task'[c].pc = AfterRead(task'[c].to)
            \/ /\ task'[c].op = task[c].op /\ task'[c].dept = task[c].dept
               /\ task'[c].to = task[c].to /\ task'[c].stale = task[c].stale
               /\ \/ /\ task[c].pc = "validate" /\ status[task[c].to] = "active"
                     /\ task'[c].pc = IF task[c].op = "move" THEN "subtree" ELSE "write"
                  \/ /\ task[c].pc = "subtree" /\ task'[c].pc = "write"
                     /\ task[c].to \notin Tree!Subtree(task[c].dept)
                  \/ /\ task[c].pc = "subtree" /\ task'[c].pc = "hung"
                     /\ Tree!Looped(Tree!Subtree(task[c].dept))
                  \/ /\ task[c].pc = "children" /\ task'[c].pc = "write"
                     /\ ActiveChildren(task[c].dept) = {}
<1>1. UNCHANGED <<status, parent, raced>>
  BY QuietSteps DEF table
<1>2. PICK t \in Task : task' = [task EXCEPT ![c] = t]
  BY QuietSteps
<1>3. task' \in [Callers -> Task] /\ \A b \in Callers \ {c} : task'[b] = task[b]
  BY <1>2 DEF TypeOK
<1>4. CASE \E d \in Depts, p \in Depts \cup {Root} :
             CreateDepartment(c, d, p) \/ MoveDepartment(c, d, p)
  BY <1>4, <1>1, <1>3 DEF CreateDepartment, MoveDepartment, Begin, TypeOK
<1>5. CASE \E d \in Depts : DeactivateDepartment(c, d) \/ ReactivateDepartment(c, d)
  BY <1>5, <1>1, <1>3 DEF DeactivateDepartment, ReactivateDepartment, Begin, TypeOK,
       Tree!Existing
<1>6. CASE RefuseParent(c) \/ RefuseCircular(c) \/ RefuseActiveChildren(c) \/ Dies(c)
  BY <1>6, <1>1, <1>3 DEF RefuseParent, RefuseCircular, RefuseActiveChildren, Dies, Drop, TypeOK
<1>7. \A pc \in Steps : Advance(c, pc) =>
        /\ task'[c].op = task[c].op /\ task'[c].dept = task[c].dept
        /\ task'[c].to = task[c].to /\ task'[c].stale = task[c].stale
        /\ task'[c].pc = pc
  BY DEF Advance, TypeOK, Task
<1>8. "subtree" \in Steps /\ "write" \in Steps /\ "hung" \in Steps
  BY DEF Steps
<1>9. CASE ValidateParent(c)
  <2>1. task[c].pc = "validate" /\ status[task[c].to] = "active"
    BY <1>9 DEF ValidateParent, ParentAccepted
  <2>2. Advance(c, IF task[c].op = "move" THEN "subtree" ELSE "write")
    BY <1>9 DEF ValidateParent
  <2>3. CASE task[c].op = "move"
    <3>1. Advance(c, "subtree")
      BY <2>2, <2>3
    <3> QED BY <3>1, <2>1, <2>3, <1>7, <1>8, <1>1, <1>3
  <2>4. CASE task[c].op # "move"
    <3>1. Advance(c, "write")
      BY <2>2, <2>4
    <3> QED BY <3>1, <2>1, <2>4, <1>7, <1>8, <1>1, <1>3
  <2> QED BY <2>3, <2>4
<1>10. CASE FindSubtree(c)
  <2>1. Advance(c, "write") /\ task[c].pc = "subtree"
          /\ task[c].to \notin Tree!Subtree(task[c].dept)
    BY <1>10 DEF FindSubtree
  <2> QED BY <2>1, <1>7, <1>8, <1>1, <1>3
<1>11. CASE SearchForever(c)
  <2>1. Advance(c, "hung") /\ task[c].pc = "subtree"
          /\ Tree!Looped(Tree!Subtree(task[c].dept))
    BY <1>11 DEF SearchForever, SearchEnds
  <2> QED BY <2>1, <1>7, <1>8, <1>1, <1>3
<1>12. CASE CountActiveChildren(c)
  <2>1. Advance(c, "write") /\ task[c].pc = "children"
          /\ ActiveChildren(task[c].dept) = {}
    BY <1>12 DEF CountActiveChildren
  <2> QED BY <2>1, <1>7, <1>8, <1>1, <1>3
<1> QED BY <1>4, <1>5, <1>6, <1>9, <1>10, <1>11, <1>12 DEF Request, Check

LEMMA TaskStep ==
  ASSUME TypeOK, Tree!ParentExists, TaskInv, [Next]_vars
  PROVE  TaskInv'
<1>1. ASSUME NEW c \in Callers, Request(c) \/ Check(c) \/ Dies(c) PROVE TaskInv'
  <2>1. /\ UNCHANGED <<status, parent, raced>>
        /\ \A b \in Callers \ {c} : task'[b] = task[b]
    BY <1>1, QuietFields
  <2>2. Tree!Existing' = Tree!Existing
    BY <2>1 DEF Tree!Existing
  <2>3. \A x \in Depts : parent[x] \in Tree!Existing \cup {Root}
    BY DEF Tree!ParentExists
  <2>4. CASE task'[c] = Idle
    BY <2>4, <2>1, <2>2 DEF TaskInv, Idle, Shelters
  <2>5. CASE task'[c] # Idle
    BY <1>1, <2>5, <2>1, <2>2, <2>3, QuietFields DEF TaskInv, Shelters, AfterRead
  <2> QED BY <2>4, <2>5
<1>2. ASSUME NEW c \in Callers, Write(c) PROVE TaskInv'
  <2> DEFINE d == task[c].dept
  <2>1. /\ task'[c] = Idle
        /\ \A b \in Callers \ {c} :
             /\ task'[b].op = task[b].op /\ task'[b].dept = task[b].dept
             /\ task'[b].to = task[b].to /\ task'[b].pc = task[b].pc
    BY <1>2, Writes
  <2>2. Tree!Existing \subseteq Tree!Existing'
    BY <1>2, Writes, TableWrites DEF Tree!Existing, TypeOK, Tree!TypeOK
  <2>3. \A x \in Depts : x # d => status'[x] = status[x]
    BY <1>2, Writes, TableWrites DEF TypeOK, Tree!TypeOK
  <2>4. \A b \in Callers \ {c} : task[b].op = "create" =>
          task[b].dept # d /\ task[b].dept \in Depts
    BY <1>2, Writes DEF TaskInv, Tree!Existing
  <2> QED BY <2>1, <2>2, <2>3, <2>4 DEF TaskInv, Idle, Shelters
<1>3. CASE UNCHANGED vars
  BY <1>3 DEF TaskInv, Tree!Existing, vars
<1> QED BY <1>1, <1>2, <1>3 DEF Next

\* The subtree check of a move outlives every write but that of a move: new
\* departments are outside it, status changes leave it alone.
LEMMA SubtreeStep ==
  ASSUME TypeOK, Tree!ParentExists, TaskInv, SubtreeInv, [Next]_vars
  PROVE  SubtreeInv'
<1>1. ASSUME parent' = parent PROVE \A x : Tree!Subtree(x)' = Tree!Subtree(x)
  BY <1>1 DEF Tree!Subtree, Tree!Children
<1>2. ASSUME NEW c \in Callers, Request(c) \/ Check(c) \/ Dies(c) PROVE SubtreeInv'
  <2>1. /\ parent' = parent
        /\ \A b \in Callers \ {c} : task'[b] = task[b]
    BY <1>2, QuietFields
  <2>2. Root \notin Tree!Subtree(task'[c].dept)
    BY DEF Tree!Subtree
  <2>3. CASE task'[c] = Idle
    BY <1>1, <2>1, <2>3 DEF SubtreeInv, Idle
  <2>4. CASE task'[c] # Idle
    <3>1. task'[c].op = "move" /\ task'[c].pc = "write" =>
            task'[c].to \notin Tree!Subtree(task'[c].dept)
      BY <1>2, <2>2, <2>4, QuietFields DEF AfterRead, TaskInv
    <3> QED BY <1>1, <2>1, <3>1 DEF SubtreeInv
  <2> QED BY <2>3, <2>4
<1>3. ASSUME NEW c \in Callers, Write(c) PROVE SubtreeInv'
  <2> SUFFICES ASSUME NEW b \in Callers, NEW m, NEW p,
                      task'[b].op = "move", task'[b].pc = "write",
                      "tree" \notin task'[b].stale,
                      m = task'[b].dept, p = task'[b].to
               PROVE  p \notin Tree!Subtree(m)'
    BY DEF SubtreeInv, Tree!Subtree, Tree!Children
  <2>1. b # c
    BY <1>3, Writes DEF Idle
  <2>2. /\ task[b].op = "move" /\ task[b].pc = "write" /\ "tree" \notin task[b].stale
        /\ p = task[b].to /\ m = task[b].dept
        /\ "tree" \notin Outdated(task[c], task[b])
    <3>1. "tree" \notin task[b].stale \cup Outdated(task[c], task[b])
      BY <1>3, <2>1, Writes
    <3> QED BY <1>3, <2>1, <3>1, Writes
  <2>3. task[c].op # "move"
    BY <2>2 DEF Outdated, OutdatesTree, Kinds
  <2>4. p \notin Tree!Subtree(m)
    BY <2>2 DEF SubtreeInv
  <2>5. CASE task[c].op = "create"
    <3>1. /\ m \in Depts /\ p \in Tree!Existing \cup {Root}
          /\ task[c].dept \in Depts /\ task[c].to \in Depts \cup {Root}
          /\ status[task[c].dept] = "absent"
      BY <1>3, <2>2, <2>5, Writes DEF TaskInv, Shelters
    <3>2. parent' = [parent EXCEPT ![task[c].dept] = task[c].to] /\ Tree!TypeOK
      BY <1>3, <2>5, TableWrites DEF TypeOK
    <3>3. Tree!Subtree(m)' \subseteq Tree!Subtree(m) \cup {task[c].dept}
      BY <3>1, <3>2, CreateKeepsSubtrees
    <3>4. p # task[c].dept
      BY <3>1 DEF Tree!Existing
    <3> QED BY <2>4, <3>3, <3>4
  <2>6. CASE task[c].op # "create"
    <3>1. parent' = parent
      BY <1>3, <2>3, <2>6, Writes, TableWrites
    <3> QED BY <1>1, <2>4, <3>1
  <2> QED BY <2>5, <2>6
<1>4. CASE UNCHANGED vars
  BY <1>1, <1>4 DEF SubtreeInv, vars
<1> QED BY <1>2, <1>3, <1>4 DEF Next

\* What the parent and the children checks saw still holds while no write
\* outdated it.
LEMMA ActiveStep ==
  ASSUME TypeOK, Tree!ParentExists, TaskInv, ActiveInv, [Next]_vars
  PROVE  ActiveInv'
<1>1. ASSUME NEW c \in Callers, Request(c) \/ Check(c) \/ Dies(c) PROVE ActiveInv'
  <2>1. /\ UNCHANGED <<status, parent, raced>>
        /\ \A b \in Callers \ {c} : task'[b] = task[b]
    BY <1>1, QuietFields
  <2>2. \A d : Tree!Sheltered(d)' = Tree!Sheltered(d) /\ ActiveChildren(d)' = ActiveChildren(d)
    BY <2>1 DEF Tree!Sheltered, ActiveChildren, Tree!Children
  <2>3. \A d \in Depts \cup {Root} : d = Root \/ status[d] = "active" => Tree!Sheltered(d)
    BY DEF Tree!Sheltered
  <2>4. CASE task'[c] = Idle
    BY <2>1, <2>2, <2>4 DEF ActiveInv, Idle, Shelters
  <2>5. CASE task'[c] # Idle
    <3>1. task[c].pc = "validate" => task[c].to \in Depts
      BY DEF TaskInv, Tree!Existing
    <3>2. ASSUME "active" \notin raced, "active" \notin task'[c].stale
          PROVE  /\ task'[c].op \in Shelters /\ task'[c].pc \in {"subtree", "write"} =>
                      Tree!Sheltered(task'[c].to)
                 /\ task'[c].op = "deactivate" /\ task'[c].pc = "write" =>
                      ActiveChildren(task'[c].dept) = {}
                 /\ task'[c].op = "reactivate" => parent[task'[c].dept] = task'[c].to
      BY <1>1, <2>3, <2>5, <3>1, <3>2, QuietFields
         DEF ActiveInv, TaskInv, Shelters, AfterRead
    <3> QED BY <2>1, <2>2, <3>2 DEF ActiveInv
  <2> QED BY <2>4, <2>5
<1>2. ASSUME NEW c \in Callers, Write(c) PROVE ActiveInv'
  <2> SUFFICES ASSUME "active" \notin raced', NEW b \in Callers, NEW v, v = task'[b],
                      "active" \notin v.stale
               PROVE  /\ v.op \in Shelters /\ v.pc \in {"subtree", "write"} =>
                           Tree!Sheltered(v.to)'
                      /\ v.op = "deactivate" /\ v.pc = "write" =>
                           ActiveChildren(v.dept)' = {}
                      /\ v.op = "reactivate" => parent'[v.dept] = v.to
    BY DEF ActiveInv, Tree!Sheltered, ActiveChildren, Tree!Children
  <2> DEFINE t == task[c]
             u == task[b]
  <2>1. CASE b = c
    BY <1>2, <2>1, Writes DEF Idle, Shelters
  <2>2. CASE b # c
    <3>1. /\ v.op = u.op /\ v.dept = u.dept /\ v.to = u.to
          /\ v.pc = u.pc /\ "active" \notin u.stale
          /\ ~ OutdatesActive(t, u)
      <4>1. "active" \notin u.stale \cup Outdated(t, u)
        BY <1>2, <2>2, Writes
      <4>2. "active" \notin Outdated(t, u) => ~ OutdatesActive(t, u)
        BY DEF Outdated, Kinds
      <4> QED BY <1>2, <2>2, <4>1, <4>2, Writes
    <3>2. "active" \notin raced /\ "active" \notin t.stale
      BY <1>2, Writes
    <3>3. /\ t.op \in {"create", "move", "deactivate", "reactivate"}
          /\ t.dept \in Depts /\ t.to \in Depts \cup {Root}
      BY <1>2, Writes
    <3>4. u.op # "none" => u.dept \in Depts
      BY DEF TaskInv
    <3>5. ASSUME v.op \in Shelters, v.pc \in {"subtree", "write"}
          PROVE  Tree!Sheltered(v.to)'
      <4>1. Tree!Sheltered(v.to)
        BY <3>1, <3>2, <3>5 DEF ActiveInv
      <4>2. t.op = "deactivate" => v.to # t.dept
        BY <3>1, <3>5 DEF OutdatesActive
      <4> QED BY <1>2, <3>3, <4>1, <4>2, TableWrites DEF Tree!Sheltered, TypeOK, Tree!TypeOK
    <3>6. ASSUME v.op = "deactivate", v.pc = "write"
          PROVE  ActiveChildren(v.dept)' = {}
      <4>1. ActiveChildren(v.dept) = {}
        BY <3>1, <3>2, <3>6 DEF ActiveInv
      <4>2. t.op \in Shelters => v.dept # t.to
        BY <3>1, <3>6 DEF OutdatesActive
      <4>3. t.op = "reactivate" => parent[t.dept] = t.to
        BY <3>2 DEF ActiveInv
      <4>4. ASSUME NEW x \in Depts, parent'[x] = v.dept, status'[x] = "active"
            PROVE  FALSE
        <5>1. parent[x] = v.dept => status[x] # "active"
          BY <4>1 DEF ActiveChildren, Tree!Children
        <5> QED BY <1>2, <3>3, <4>2, <4>3, <4>4, <5>1, TableWrites
                DEF TypeOK, Tree!TypeOK, Shelters
      <4> QED BY <4>4 DEF ActiveChildren, Tree!Children
    <3>7. ASSUME v.op = "reactivate" PROVE parent'[v.dept] = v.to
      <4>1. parent[v.dept] = v.to
        BY <3>1, <3>2, <3>7 DEF ActiveInv
      <4>2. t.op = "move" => v.dept # t.dept
        BY <3>1, <3>7 DEF OutdatesActive
      <4>3. t.op = "create" => v.dept # t.dept
        BY <3>1, <3>7 DEF TaskInv, Tree!Existing
      <4> QED BY <1>2, <3>1, <3>3, <3>4, <3>7, <4>1, <4>2, <4>3, TableWrites DEF TypeOK, Tree!TypeOK
    <3> QED BY <3>1, <3>5, <3>6, <3>7
  <2> QED BY <2>1, <2>2
<1>3. CASE UNCHANGED vars
  BY <1>3 DEF ActiveInv, Tree!Sheltered, ActiveChildren, Tree!Children, vars
<1> QED BY <1>1, <1>2, <1>3 DEF Next

\* A write on a subtree check that holds closes no ring.
LEMMA AcyclicStep ==
  ASSUME TypeOK, Tree!ParentExists, TaskInv, SubtreeInv, AcyclicUnlessRaced, [Next]_vars
  PROVE  AcyclicUnlessRaced'
<1>1. ASSUME parent' = parent PROVE Tree!Acyclic' = Tree!Acyclic
  BY <1>1 DEF Tree!Acyclic, Tree!Looped
<1>2. ASSUME NEW c \in Callers, Request(c) \/ Check(c) \/ Dies(c)
      PROVE  AcyclicUnlessRaced'
  BY <1>1, <1>2, QuietFields DEF AcyclicUnlessRaced
<1>3. ASSUME NEW c \in Callers, Write(c) PROVE AcyclicUnlessRaced'
  <2> SUFFICES ASSUME "tree" \notin raced' PROVE Tree!Acyclic'
    BY DEF AcyclicUnlessRaced
  <2> DEFINE d == task[c].dept
             p == task[c].to
  <2>1. Tree!Acyclic /\ "tree" \notin task[c].stale
    BY <1>3, Writes DEF AcyclicUnlessRaced
  <2>2. d \in Depts /\ p \in Depts \cup {Root} /\ Tree!TypeOK
    BY <1>3, Writes DEF TypeOK
  <2>3. CASE task[c].op = "create"
    <3>1. status[d] = "absent" /\ p # d
      BY <2>2, <2>3 DEF TaskInv, Shelters, Tree!Existing
    <3>2. parent' = [parent EXCEPT ![d] = p]
      BY <1>3, <2>3, TableWrites
    <3> QED BY <2>1, <2>2, <3>1, <3>2, CreateKeepsAcyclic
  <2>4. CASE task[c].op = "move"
    <3>1. p \notin Tree!Subtree(d)
      BY <1>3, <2>1, <2>4, Writes DEF SubtreeInv
    <3>2. parent' = [parent EXCEPT ![d] = p]
      BY <1>3, <2>4, TableWrites
    <3> QED BY <2>1, <2>2, <3>1, <3>2, MoveKeepsAcyclic
  <2>5. CASE task[c].op \notin {"create", "move"}
    <3>1. parent' = parent
      BY <1>3, <2>5, Writes, TableWrites
    <3> QED BY <1>1, <2>1, <3>1
  <2> QED BY <2>3, <2>4, <2>5
<1>4. CASE UNCHANGED vars
  BY <1>1, <1>4 DEF AcyclicUnlessRaced, vars
<1> QED BY <1>2, <1>3, <1>4 DEF Next

\* A write on checks that hold leaves every active department sheltered.
LEMMA ActiveUnderActiveStep ==
  ASSUME TypeOK, Tree!ParentExists, TaskInv, ActiveInv,
         ActiveUnderActiveUnlessRaced, [Next]_vars
  PROVE  ActiveUnderActiveUnlessRaced'
<1> USE DEF ActiveUnderActiveUnlessRaced, Tree!ActiveUnderActive, Tree!Sheltered
<1>1. ASSUME NEW c \in Callers, Request(c) \/ Check(c) \/ Dies(c)
      PROVE  ActiveUnderActiveUnlessRaced'
  BY <1>1, QuietFields
<1>2. ASSUME NEW c \in Callers, Write(c) PROVE ActiveUnderActiveUnlessRaced'
  <2> SUFFICES ASSUME "active" \notin raced', NEW x \in Depts, status'[x] = "active"
               PROVE  parent'[x] = Root \/ (parent'[x] \in Depts /\ status'[parent'[x]] = "active")
    OBVIOUS
  <2> DEFINE d == task[c].dept
             p == task[c].to
  <2>1. "active" \notin raced /\ "active" \notin task[c].stale /\ task[c].pc = "write"
    BY <1>2, Writes
  <2>2. status[x] = "active" => Tree!Sheltered(parent[x])
    BY <2>1
  <2>3. /\ task[c].op \in Shelters => Tree!Sheltered(p)
        /\ task[c].op = "deactivate" => ActiveChildren(d) = {}
        /\ task[c].op = "reactivate" => parent[d] = p
    BY <2>1 DEF ActiveInv
  <2>4. d \in Depts /\ p \in Depts \cup {Root}
          /\ task[c].op \in {"create", "move", "deactivate", "reactivate"}
    BY <1>2, Writes
  <2>5. CASE task[c].op = "create"
    <3>1. status[d] = "absent"
      BY <2>5 DEF TaskInv
    <3>2. p # d
      BY <2>3, <2>4, <2>5, <3>1 DEF Shelters
    <3> QED BY <1>2, <2>2, <2>3, <2>4, <2>5, <3>1, <3>2, TableWrites
            DEF TypeOK, Tree!TypeOK, Shelters
  <2>6. CASE task[c].op = "move"
    BY <1>2, <2>2, <2>3, <2>4, <2>6, TableWrites DEF TypeOK, Tree!TypeOK, Shelters
  <2>7. CASE task[c].op = "deactivate"
    <3>1. parent[x] = d => status[x] # "active"
      BY <2>3, <2>7 DEF ActiveChildren, Tree!Children
    <3> QED BY <1>2, <2>2, <2>4, <2>7, <3>1, TableWrites DEF TypeOK, Tree!TypeOK
  <2>8. CASE task[c].op = "reactivate"
    BY <1>2, <2>2, <2>3, <2>4, <2>8, TableWrites DEF TypeOK, Tree!TypeOK, Shelters
  <2> QED BY <2>4, <2>5, <2>6, <2>7, <2>8
<1>3. CASE UNCHANGED vars
  BY <1>3 DEF vars
<1> QED BY <1>1, <1>2, <1>3 DEF Next

\* A search that does not end has met a ring.
LEMMA HungStep ==
  ASSUME TypeOK, TaskInv, AcyclicUnlessRaced, HungOnlyIfRaced, [Next]_vars
  PROVE  HungOnlyIfRaced'
<1>1. ASSUME NEW c \in Callers, Request(c) \/ Check(c) \/ Dies(c)
      PROVE  HungOnlyIfRaced'
  <2>1. \A d : Tree!Looped(Tree!Subtree(d)) => "tree" \in raced
    BY DEF AcyclicUnlessRaced, Tree!Acyclic, Tree!Looped, Tree!Subtree
  <2>2. raced' = raced /\ \A b \in Callers \ {c} : task'[b] = task[b]
    BY <1>1, QuietFields
  <2>3. CASE task'[c] = Idle
    BY <2>2, <2>3 DEF HungOnlyIfRaced, Idle
  <2>4. CASE task'[c] # Idle
    <3>1. task'[c].pc = "hung" => Tree!Looped(Tree!Subtree(task[c].dept))
      BY <1>1, <2>4, QuietFields DEF AfterRead
    <3> QED BY <2>1, <2>2, <3>1 DEF HungOnlyIfRaced
  <2> QED BY <2>3, <2>4
<1>2. ASSUME NEW c \in Callers, Write(c) PROVE HungOnlyIfRaced'
  <2>1. \A b \in Callers : task'[b].pc = "hung" => task[b].pc = "hung"
    <3>1. task'[c].pc = "idle"
      BY <1>2, Writes DEF Idle
    <3>2. \A b \in Callers \ {c} : task'[b].pc = task[b].pc
      BY <1>2, Writes
    <3> QED BY <3>1, <3>2
  <2>2. raced \subseteq raced'
    BY <1>2, Writes
  <2> QED BY <2>1, <2>2 DEF HungOnlyIfRaced
<1>3. CASE UNCHANGED vars
  BY <1>3 DEF HungOnlyIfRaced, vars
<1> QED BY <1>1, <1>2, <1>3 DEF Next

LEMMA Invariance == Spec => []Inv
<1>1. Inv /\ [Next]_vars => Inv'
  BY TypeStep, ParentStep, TaskStep, SubtreeStep, ActiveStep, AcyclicStep,
     ActiveUnderActiveStep, HungStep DEF Inv
<1> QED BY InitInv, <1>1, PTL DEF Spec

-----------------------------------------------------------------------------
(***************************************************************************)
(* The theorems.                                                           *)
(***************************************************************************)

\* Every request works on well-typed state.
THEOREM DepartmentsTypeCorrect == Spec => []TypeOK
<1>1. Inv => TypeOK
  BY DEF Inv
<1> QED BY Invariance, <1>1, PTL

\* No ring without two overlapping moves.
THEOREM RingsNeedARace == Spec => []AcyclicUnlessRaced
<1>1. Inv => AcyclicUnlessRaced
  BY DEF Inv
<1> QED BY Invariance, <1>1, PTL

\* No active department under an inactive one without an outdated check.
THEOREM OrphansNeedARace == Spec => []ActiveUnderActiveUnlessRaced
<1>1. Inv => ActiveUnderActiveUnlessRaced
  BY DEF Inv
<1> QED BY Invariance, <1>1, PTL

\* The tree that is shown is complete unless moves raced.
THEOREM DisappearingNeedsARace == Spec => []ShownUnlessRaced
<1>1. Inv => ShownUnlessRaced
  BY AcyclicIsShown DEF Inv, TypeOK, AcyclicUnlessRaced, ShownUnlessRaced
<1> QED BY Invariance, <1>1, PTL

\* findSubtreeIds ends unless moves raced.
THEOREM HangingNeedsARace == Spec => []HungOnlyIfRaced
<1>1. Inv => HungOnlyIfRaced
  BY DEF Inv
<1> QED BY Invariance, <1>1, PTL

\* Unless a request wrote on an outdated check, the service implements the
\* abstract tree: its checks and its write act as one step.
THEOREM ServiceIsAtomicUnlessRaced == Spec => AtomicUnlessRaced
<1>1. Inv /\ [Next]_vars => [raced' = {} => Tree!Next]_table
  <2> SUFFICES ASSUME Inv, [Next]_vars, raced' = {}, table' # table PROVE Tree!Next
    OBVIOUS
  <2> USE DEF Inv, TypeOK
  <2>1. PICK c \in Callers : Write(c)
    BY QuietFields DEF Next, vars, table
  <2> DEFINE d == task[c].dept
             p == task[c].to
  <2>2. task[c].stale = {} /\ raced = {} /\ task[c].pc = "write"
    BY <2>1, Writes
  <2>3. d \in Depts /\ p \in Depts \cup {Root}
          /\ task[c].op \in {"create", "move", "deactivate", "reactivate"}
    BY <2>1, Writes
  <2>4. /\ task[c].op \in Shelters => Tree!Sheltered(p)
        /\ task[c].op = "deactivate" => ActiveChildren(d) = {}
        /\ task[c].op = "reactivate" => parent[d] = p
    BY <2>2 DEF ActiveInv
  <2>5. CASE task[c].op = "create"
    <3>1. status[d] = "absent"
      BY <2>5 DEF TaskInv
    <3>2. Tree!Create(d, p)
      BY <2>1, <2>4, <2>5, <3>1, TableWrites DEF Tree!Create, Shelters
    <3> QED BY <2>3, <3>2 DEF Tree!Next
  <2>6. CASE task[c].op = "move"
    <3>1. d \in Tree!Existing /\ p \notin Tree!Subtree(d)
      BY <2>2, <2>6 DEF TaskInv, SubtreeInv
    <3>2. Tree!Move(d, p)
      BY <2>1, <2>4, <2>6, <3>1, TableWrites DEF Tree!Move, Shelters
    <3> QED BY <2>3, <3>2 DEF Tree!Next
  <2>7. CASE task[c].op = "deactivate"
    <3>1. status' = [status EXCEPT ![d] = "inactive"] /\ parent' = parent
      BY <2>1, <2>7, TableWrites
    <3>2. status[d] = "active"
      BY <2>3, <2>7, <3>1 DEF TaskInv, Tree!Existing, Tree!TypeOK, table
    <3>3. Tree!Deactivate(d)
      BY <2>4, <2>7, <3>1, <3>2 DEF Tree!Deactivate, ActiveChildren, Tree!Children
    <3> QED BY <2>3, <3>3 DEF Tree!Next
  <2>8. CASE task[c].op = "reactivate"
    <3>1. status' = [status EXCEPT ![d] = "active"] /\ parent' = parent
      BY <2>1, <2>8, TableWrites
    <3>2. status[d] = "inactive"
      BY <2>3, <2>8, <3>1 DEF TaskInv, Tree!Existing, Tree!TypeOK, table
    <3>3. Tree!Reactivate(d)
      BY <2>4, <2>8, <3>1, <3>2 DEF Tree!Reactivate, Shelters
    <3> QED BY <2>3, <3>3 DEF Tree!Next
  <2> QED BY <2>3, <2>5, <2>6, <2>7, <2>8
<1> QED BY Invariance, <1>1, PTL DEF Spec, AtomicUnlessRaced
=============================================================================
