----------------------------- MODULE Employees -----------------------------
(***************************************************************************)
(* The life of an employee across three modules of the program: the        *)
(* employees table (EmployeeService), the manager and is_active columns of *)
(* the departments table (DepartmentController and DepartmentService) and  *)
(* the registered devices.  No operation opens a transaction: every query  *)
(* is a step, and every UPDATE is conditional on the id alone.  Salaries,  *)
(* profile fields and the shape of the tree are left out.                  *)
(***************************************************************************)
EXTENDS FiniteSets

CONSTANTS
  Emps,     \* the users that may ever be hired
  Depts,    \* the departments of the tenant, each without children
  None,     \* the null of department_id and manager_employee_id
  Callers   \* the requests that may be in flight at a time

ASSUME EmployeesAssumption == None \notin Emps \cup Depts

VARIABLES
  status,     \* status[e]: absent, or employees.status
  endDate,    \* the employees with a termination_date
  dept,       \* dept[e]: department_id
  open,       \* the departments with is_active
  manager,    \* manager[d]: manager_employee_id
  armed,      \* the employees with an active device
  task,       \* task[c]: the request in flight
  raced,      \* history: the outdated facts some request wrote on
  abandoned,  \* history: employees whose clean-up a crash cut short
  late        \* history: employees who registered a device after the end

tables == <<status, endDate, dept, open, manager, armed>>
history == <<raced, abandoned, late>>
vars == <<tables, task, history>>

Statuses == {"active", "on_probation", "on_leave", "suspended", "terminated"}

\* isValidEmployeeStatusTransition.
Successors(s) ==
  CASE s = "active" -> {"on_probation", "on_leave", "suspended", "terminated"}
    [] s \in {"on_probation", "on_leave", "suspended"} -> {"active", "terminated"}
    [] OTHER -> {}

\* isEmployeeActive.
Fit(e) == status[e] \notin {"absent", "suspended", "terminated"}

\* The employees countActiveInDepartment counts.
Employed(e) == status[e] \notin {"absent", "terminated"}
Roster(d) == {e \in Emps : Employed(e) /\ dept[e] = d}

\* What a check of a request relies on until the request writes.
EmployeeFact(e) == [of |-> "employee", id |-> e]
OpenFact(d) == [of |-> "department", id |-> d]
RosterFact(d) == [of |-> "roster", id |-> d]
Facts == [of : {"employee", "department", "roster"}, id : Emps \cup Depts \cup {None}]

Ops == {"none", "hire", "transfer", "change", "assign", "remove", "close", "reopen"}
Steps == {"idle", "department", "write", "clear", "devices"}
Task == [op : Ops, emp : Emps \cup {None}, dept : Depts \cup {None},
         to : Statuses \cup {"none"}, pc : Steps, outdated : SUBSET Facts]

Idle == [op |-> "none", emp |-> None, dept |-> None, to |-> "none",
         pc |-> "idle", outdated |-> {}]

\* The departments exist and the tenant has no employee yet.
Init ==
  /\ status = [e \in Emps |-> "absent"]
  /\ endDate = {}
  /\ dept = [e \in Emps |-> None]
  /\ open = Depts
  /\ manager = [d \in Depts |-> None]
  /\ armed = {}
  /\ task = [c \in Callers |-> Idle]
  /\ raced = {}
  /\ abandoned = {}
  /\ late = {}

-----------------------------------------------------------------------------
(***************************************************************************)
(* Plausible slips in the code, for the properties to catch.  No action    *)
(* uses them, nor those before the writes below.                           *)
(***************************************************************************)

\* The department named by a request is never looked up.
AfterReadUnvalidated(d) == "write"

-----------------------------------------------------------------------------
(***************************************************************************)
(* The first query of each request.  A request it refuses changes nothing. *)
(***************************************************************************)
Begin(c, op, e, d, s, pc) ==
  /\ task[c] = Idle
  /\ task' = [task EXCEPT ![c] = [op |-> op, emp |-> e, dept |-> d, to |-> s,
                                  pc |-> pc, outdated |-> {}]]
  /\ UNCHANGED <<tables, history>>

\* Without a department there is none to validate.
AfterRead(d) == IF d = None THEN "write" ELSE "department"

CreateEmployee(c, e, d) ==
  /\ status[e] = "absent"
  /\ Begin(c, "hire", e, d, "none", AfterRead(d))

\* updateEmployee with another departmentId.
UpdateEmployee(c, e, d) ==
  /\ Employed(e)
  /\ d # dept[e]
  /\ Begin(c, "transfer", e, d, "none", AfterRead(d))

ChangeStatus(c, e, s) ==
  /\ s \in Successors(status[e])
  /\ Begin(c, "change", e, None, s, "write")

\* The controller asks isEmployeeActive, the service then reads the department.
AssignManager(c, e, d) ==
  /\ Fit(e)
  /\ Begin(c, "assign", e, d, "none", "department")

RemoveManager(c, d) ==
  /\ manager[d] # None
  /\ Begin(c, "remove", None, d, "none", "write")

\* The controller counts the employees before the service reads the department.
DeactivateDepartment(c, d) ==
  /\ Roster(d) = {}
  /\ Begin(c, "close", None, d, "none", "department")

ReactivateDepartment(c, d) ==
  /\ d \notin open
  /\ Begin(c, "reopen", None, d, "none", "write")

-----------------------------------------------------------------------------
(***************************************************************************)
(* The later steps of a request.                                           *)
(***************************************************************************)
Drop(c) ==
  /\ task' = [task EXCEPT ![c] = Idle]
  /\ UNCHANGED <<tables, history>>

\* isDepartmentValid, or the is_active check of the department service.
CheckDepartment(c) ==
  /\ task[c].pc = "department"
  /\ task[c].dept \in open
  /\ task' = [task EXCEPT ![c].pc = "write"]
  /\ UNCHANGED <<tables, history>>

RefuseDepartment(c) ==
  /\ task[c].pc = "department"
  /\ task[c].dept \notin open
  /\ Drop(c)

\* The facts a request has read and will act on.
Reads(t) ==
  LET waiting == t.pc \in {"department", "write"}
  IN  {EmployeeFact(e) : e \in {x \in Emps :
          waiting /\ x = t.emp /\ t.op \in {"transfer", "change", "assign"}}}
      \cup {OpenFact(d) : d \in {x \in Depts :
          t.pc = "write" /\ x = t.dept
            /\ t.op \in {"hire", "transfer", "assign", "close", "reopen"}}}
      \cup {RosterFact(d) : d \in {x \in Depts :
          waiting /\ x = t.dept /\ t.op = "close"}}

\* The facts its write changes.
Writes(t) ==
  CASE t.op \in {"hire", "transfer"} -> {EmployeeFact(t.emp), RosterFact(t.dept)}
    [] t.op = "change" -> {EmployeeFact(t.emp), RosterFact(dept[t.emp])}
    [] t.op \in {"close", "reopen"} -> {OpenFact(t.dept)}
    [] OTHER -> {}

\* The write of c: whoever has read what it changes is outdated now.
Commit(c, next) ==
  /\ task[c].pc = "write"
  /\ task' = [b \in Callers |->
                IF b = c THEN next
                ELSE [task[b] EXCEPT !.outdated = @ \cup (Reads(task[b]) \cap Writes(task[c]))]]
  /\ raced' = raced \cup task[c].outdated
  /\ UNCHANGED <<abandoned, late>>

-----------------------------------------------------------------------------
(***************************************************************************)
(* More plausible slips.                                                   *)
(***************************************************************************)

\* Only termination cleans up, suspension does not.
StatusWithoutClear(c) ==
  /\ task[c].op = "change"
  /\ Commit(c, IF task[c].to = "terminated"
               THEN [task[c] EXCEPT !.pc = "clear", !.outdated = {}] ELSE Idle)
  /\ status' = [status EXCEPT ![task[c].emp] = task[c].to]
  /\ endDate' = IF task[c].to = "terminated" THEN endDate \cup {task[c].emp} ELSE endDate
  /\ UNCHANGED <<dept, open, manager, armed>>

\* The termination date is not written.
StatusWithoutDate(c) ==
  /\ task[c].op = "change"
  /\ Commit(c, IF task[c].to \in {"suspended", "terminated"}
               THEN [task[c] EXCEPT !.pc = "clear", !.outdated = {}] ELSE Idle)
  /\ status' = [status EXCEPT ![task[c].emp] = task[c].to]
  /\ UNCHANGED <<endDate, dept, open, manager, armed>>

\* The clean-up ends with the managers.
ClearOnly(c) ==
  /\ task[c].pc = "clear"
  /\ manager' = [d \in Depts |-> IF manager[d] = task[c].emp THEN None ELSE manager[d]]
  /\ task' = [task EXCEPT ![c] = Idle]
  /\ UNCHANGED <<status, endDate, dept, open, armed, history>>

-----------------------------------------------------------------------------
(***************************************************************************)
(* The writes.                                                             *)
(***************************************************************************)

\* The insert; the unique index on the user refuses a second one.
WriteHired(c) ==
  /\ task[c].op = "hire"
  /\ status[task[c].emp] = "absent"
  /\ Commit(c, Idle)
  /\ status' = [status EXCEPT ![task[c].emp] = "active"]
  /\ dept' = [dept EXCEPT ![task[c].emp] = task[c].dept]
  /\ UNCHANGED <<endDate, open, manager, armed>>

RefuseHired(c) ==
  /\ task[c].op = "hire"
  /\ task[c].pc = "write"
  /\ status[task[c].emp] # "absent"
  /\ Drop(c)

WriteDepartment(c) ==
  /\ task[c].op = "transfer"
  /\ Commit(c, Idle)
  /\ dept' = [dept EXCEPT ![task[c].emp] = task[c].dept]
  /\ UNCHANGED <<status, endDate, open, manager, armed>>

\* The first of the up to three writes of changeStatus.
WriteStatus(c) ==
  /\ task[c].op = "change"
  /\ Commit(c, IF task[c].to \in {"suspended", "terminated"}
               THEN [task[c] EXCEPT !.pc = "clear", !.outdated = {}] ELSE Idle)
  /\ status' = [status EXCEPT ![task[c].emp] = task[c].to]
  /\ endDate' = IF task[c].to = "terminated" THEN endDate \cup {task[c].emp} ELSE endDate
  /\ UNCHANGED <<dept, open, manager, armed>>

ClearEmployeeAsManager(c) ==
  /\ task[c].pc = "clear"
  /\ manager' = [d \in Depts |-> IF manager[d] = task[c].emp THEN None ELSE manager[d]]
  /\ task' = [task EXCEPT ![c] =
                IF @.to = "terminated" THEN [@ EXCEPT !.pc = "devices"] ELSE Idle]
  /\ UNCHANGED <<status, endDate, dept, open, armed, history>>

DeactivateAllForEmployee(c) ==
  /\ task[c].pc = "devices"
  /\ armed' = armed \ {task[c].emp}
  /\ task' = [task EXCEPT ![c] = Idle]
  /\ UNCHANGED <<status, endDate, dept, open, manager, history>>

WriteManager(c) ==
  /\ task[c].op = "assign"
  /\ Commit(c, Idle)
  /\ manager' = [manager EXCEPT ![task[c].dept] = task[c].emp]
  /\ UNCHANGED <<status, endDate, dept, open, armed>>

WriteNoManager(c) ==
  /\ task[c].op = "remove"
  /\ Commit(c, Idle)
  /\ manager' = [manager EXCEPT ![task[c].dept] = None]
  /\ UNCHANGED <<status, endDate, dept, open, armed>>

\* One UPDATE closes the department and clears its manager.
WriteClosed(c) ==
  /\ task[c].op = "close"
  /\ Commit(c, Idle)
  /\ open' = open \ {task[c].dept}
  /\ manager' = [manager EXCEPT ![task[c].dept] = None]
  /\ UNCHANGED <<status, endDate, dept, armed>>

WriteOpen(c) ==
  /\ task[c].op = "reopen"
  /\ Commit(c, Idle)
  /\ open' = open \cup {task[c].dept}
  /\ UNCHANGED <<status, endDate, dept, manager, armed>>

\* The pod dies with the request, or a query of it fails.
Dies(c) ==
  /\ task[c] # Idle
  /\ task' = [task EXCEPT ![c] = Idle]
  /\ abandoned' = IF task[c].pc \in {"clear", "devices"}
                  THEN abandoned \cup {task[c].emp} ELSE abandoned
  /\ UNCHANGED <<tables, raced, late>>

-----------------------------------------------------------------------------
(***************************************************************************)
(* The device of an employee: the token alone authorises, so a terminated  *)
(* employee can still register until it expires.                           *)
(***************************************************************************)
RegisterDevice(e) ==
  /\ status[e] # "absent"
  /\ e \notin armed
  /\ armed' = armed \cup {e}
  /\ late' = IF status[e] = "terminated" THEN late \cup {e} ELSE late
  /\ UNCHANGED <<status, endDate, dept, open, manager, task, raced, abandoned>>

DeactivateDevice(e) ==
  /\ e \in armed
  /\ armed' = armed \ {e}
  /\ UNCHANGED <<status, endDate, dept, open, manager, task, history>>

-----------------------------------------------------------------------------
Request(c) ==
  \/ \E e \in Emps :
       \/ \E d \in Depts \cup {None} : CreateEmployee(c, e, d) \/ UpdateEmployee(c, e, d)
       \/ \E s \in Statuses : ChangeStatus(c, e, s)
       \/ \E d \in Depts : AssignManager(c, e, d)
  \/ \E d \in Depts :
       RemoveManager(c, d) \/ DeactivateDepartment(c, d) \/ ReactivateDepartment(c, d)

Check(c) == CheckDepartment(c) \/ RefuseDepartment(c) \/ RefuseHired(c)

Write(c) ==
  \/ WriteHired(c) \/ WriteDepartment(c) \/ WriteStatus(c)
  \/ WriteManager(c) \/ WriteNoManager(c)
  \/ WriteClosed(c) \/ WriteOpen(c)

CleanUp(c) == ClearEmployeeAsManager(c) \/ DeactivateAllForEmployee(c)

Next ==
  \/ \E c \in Callers : Request(c) \/ Check(c) \/ Write(c) \/ CleanUp(c) \/ Dies(c)
  \/ \E e \in Emps : RegisterDevice(e) \/ DeactivateDevice(e)

Spec == Init /\ [][Next]_vars

-----------------------------------------------------------------------------
TypeOK ==
  /\ status \in [Emps -> Statuses \cup {"absent"}]
  /\ endDate \subseteq Emps
  /\ dept \in [Emps -> Depts \cup {None}]
  /\ open \subseteq Depts
  /\ manager \in [Depts -> Emps \cup {None}]
  /\ armed \subseteq Emps
  /\ task \in [Callers -> Task]
  /\ raced \subseteq Facts
  /\ abandoned \subseteq Emps
  /\ late \subseteq Emps

\* A request still has to clear e as a manager.
Clearing(e) == \E c \in Callers : task[c].emp = e /\ task[c].pc = "clear"

\* A request that terminated e still has to deactivate the devices.
Ending(e) ==
  \E c \in Callers :
    task[c].emp = e /\ task[c].to = "terminated" /\ task[c].pc \in {"clear", "devices"}

\* Nobody works in an inactive department, unless somebody wrote on an outdated
\* reading of the department, of its roster, or of the employee's status.
StaffInOpenDepartment ==
  \A e \in Emps :
    Employed(e) /\ dept[e] \in Depts \ open =>
      raced \cap {OpenFact(dept[e]), RosterFact(dept[e]), EmployeeFact(e)} # {}

\* A manager is neither suspended nor terminated, except while changeStatus has
\* yet to clear the reference, after a crash in between, or after a race.
ManagersAreFit ==
  \A d \in Depts : manager[d] # None =>
    LET e == manager[d]
    IN  Fit(e) \/ Clearing(e) \/ e \in abandoned \/ EmployeeFact(e) \in raced

\* An inactive department has no manager unless the assignment raced with the
\* deactivation.
ClosedHasNoManager ==
  \A d \in Depts \ open : manager[d] = None \/ OpenFact(d) \in raced

\* An employee with a termination date is terminated and stays so, unless two
\* status changes raced.
EndedUnlessRaced ==
  \A e \in Emps : (e \in endDate <=> status[e] = "terminated") \/ EmployeeFact(e) \in raced

\* Once changeStatus is through, a terminated employee has no device but one
\* registered with a token that outlived the termination.
DevicesRevoked ==
  \A e \in armed : status[e] = "terminated" =>
    Ending(e) \/ e \in abandoned \/ e \in late

\* A change that was not overtaken follows VALID_EMPLOYEE_STATUS_TRANSITIONS.
FollowsLifecycle ==
  [][\A e \in Emps :
       status'[e] # status[e] /\ EmployeeFact(e) \notin raced' =>
         IF status[e] = "absent" THEN status'[e] = "active"
         ELSE status'[e] \in Successors(status[e])]_vars
=============================================================================
