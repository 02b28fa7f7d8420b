-------------------------- MODULE EmployeesProofs --------------------------
(***************************************************************************)
(* Proofs about Employees, for any employees, departments and requests.    *)
(* A request is sound when its fields fit its operation, and fresh when    *)
(* each fact it relies on is still true or is listed as outdated.          *)
(* The second part is about Salaries, which is what an employee earns.     *)
(***************************************************************************)
EXTENDS Employees, Salaries, FiniteSetTheorems, TLAPS

USE EmployeesAssumption

Waiting == {"department", "write"}

Sound(t) ==
  /\ t.op = "none" => t.pc = "idle"
  /\ t.op \in {"hire", "transfer", "change", "assign"} => t.emp \in Emps
  /\ t.op \in {"transfer", "change", "assign"} => status[t.emp] # "absent"
  /\ t.op \in {"assign", "remove", "close", "reopen"} => t.dept \in Depts
  /\ t.op = "change" => t.to \in Statuses
  /\ t.pc = "department" => t.op \in {"hire", "transfer", "assign", "close"} /\ t.dept \in Depts
  /\ t.pc \in {"clear", "devices"} => t.op = "change"

Fresh(t) ==
  /\ t.pc \in Waiting /\ EmployeeFact(t.emp) \notin t.outdated =>
       /\ t.op = "transfer" => Employed(t.emp)
       /\ t.op = "change" => t.to \in Successors(status[t.emp])
       /\ t.op = "assign" => Fit(t.emp)
  /\ t.pc = "write" /\ t.op \in {"hire", "transfer", "assign", "close"}
       /\ t.dept # None /\ OpenFact(t.dept) \notin t.outdated =>
       t.dept \in open
  /\ t.pc \in Waiting /\ t.op = "close" /\ RosterFact(t.dept) \notin t.outdated =>
       Roster(t.dept) = {}

TaskInv == \A c \in Callers : Sound(task[c]) /\ Fresh(task[c])

Inv ==
  /\ TypeOK
  /\ TaskInv
  /\ StaffInOpenDepartment
  /\ ManagersAreFit
  /\ ClosedHasNoManager
  /\ EndedUnlessRaced
  /\ DevicesRevoked

LEMMA IdleTask == Idle \in Task
BY DEF Idle, Task, Ops, Steps

LEMMA IdleIsSound == Sound(Idle) /\ Fresh(Idle)
BY DEF Sound, Fresh, Idle, Waiting

\* Facts are typed.
LEMMA FactTypes ==
  ASSUME NEW x \in Emps \cup Depts \cup {None}
  PROVE  EmployeeFact(x) \in Facts /\ OpenFact(x) \in Facts /\ RosterFact(x) \in Facts
BY DEF EmployeeFact, OpenFact, RosterFact, Facts

\* What the read and the write sets contain.
LEMMA ReadSets ==
  ASSUME NEW t \in Task, Sound(t), t.pc \in Waiting
  PROVE  /\ t.op \in {"transfer", "change", "assign"} => EmployeeFact(t.emp) \in Reads(t)
         /\ t.pc = "write" /\ t.op \in {"hire", "transfer", "assign", "close"} /\ t.dept # None
              => OpenFact(t.dept) \in Reads(t)
         /\ t.op = "close" => RosterFact(t.dept) \in Reads(t)
BY DEF Reads, Sound, Task, Waiting

LEMMA WriteSets ==
  ASSUME NEW t
  PROVE  /\ t.op \in {"hire", "transfer", "change"} => EmployeeFact(t.emp) \in Writes(t)
         /\ t.op \in {"hire", "transfer"} => RosterFact(t.dept) \in Writes(t)
         /\ t.op = "change" => RosterFact(dept[t.emp]) \in Writes(t)
         /\ t.op \in {"close", "reopen"} => OpenFact(t.dept) \in Writes(t)
BY DEF Writes

LEMMA InitInv == Init => Inv
<1> SUFFICES ASSUME Init PROVE Inv
  OBVIOUS
<1>1. TypeOK
  BY IdleTask DEF Init, TypeOK
<1>2. TaskInv
  BY IdleIsSound DEF Init, TaskInv
<1>3. /\ StaffInOpenDepartment /\ ManagersAreFit /\ ClosedHasNoManager
      /\ EndedUnlessRaced /\ DevicesRevoked
  BY DEF Init, StaffInOpenDepartment, ManagersAreFit, ClosedHasNoManager, EndedUnlessRaced,
     DevicesRevoked
<1> QED BY <1>1, <1>2, <1>3 DEF Inv

-----------------------------------------------------------------------------
(***************************************************************************)
(* The steps that write no table: a request begins, passes a check, or is  *)
(* refused.                                                                *)
(***************************************************************************)
LEMMA BeginStep ==
  ASSUME TypeOK, NEW c \in Callers, Request(c)
  PROVE  /\ UNCHANGED <<tables, history>>
         /\ task[c] = Idle
         /\ \E t \in Task : /\ task' = [task EXCEPT ![c] = t]
                            /\ Sound(t) /\ Fresh(t)
                            /\ t.pc \in Waiting
<1> DEFINE Make(op, e, d, s, pc) ==
      [op |-> op, emp |-> e, dept |-> d, to |-> s, pc |-> pc, outdated |-> {}]
           Good(t) == t \in Task /\ Sound(t) /\ Fresh(t) /\ t.pc \in Waiting
<1> USE DEF Task, Ops, Steps, Waiting, Sound, Fresh
<1>1. ASSUME NEW e \in Emps, NEW d \in Depts \cup {None}, CreateEmployee(c, e, d)
      PROVE  /\ Begin(c, "hire", e, d, "none", AfterRead(d))
             /\ Good(Make("hire", e, d, "none", AfterRead(d)))
  BY <1>1 DEF CreateEmployee, AfterRead
<1>2. ASSUME NEW e \in Emps, NEW d \in Depts \cup {None}, UpdateEmployee(c, e, d)
      PROVE  /\ Begin(c, "transfer", e, d, "none", AfterRead(d))
             /\ Good(Make("transfer", e, d, "none", AfterRead(d)))
  BY <1>2 DEF UpdateEmployee, AfterRead, Employed
<1>3. ASSUME NEW e \in Emps, NEW s \in Statuses, ChangeStatus(c, e, s)
      PROVE  /\ Begin(c, "change", e, None, s, "write")
             /\ Good(Make("change", e, None, s, "write"))
  <2>1. status[e] # "absent"
    BY <1>3 DEF ChangeStatus, Successors
  <2> QED BY <1>3, <2>1 DEF ChangeStatus
<1>4. ASSUME NEW e \in Emps, NEW d \in Depts, AssignManager(c, e, d)
      PROVE  /\ Begin(c, "assign", e, d, "none", "department")
             /\ Good(Make("assign", e, d, "none", "department"))
  BY <1>4 DEF AssignManager, Fit
<1>5. ASSUME NEW d \in Depts, RemoveManager(c, d)
      PROVE  /\ Begin(c, "remove", None, d, "none", "write")
             /\ Good(Make("remove", None, d, "none", "write"))
  BY <1>5 DEF RemoveManager
<1>6. ASSUME NEW d \in Depts, DeactivateDepartment(c, d)
      PROVE  /\ Begin(c, "close", None, d, "none", "department")
             /\ Good(Make("close", None, d, "none", "department"))
  BY <1>6 DEF DeactivateDepartment
<1>7. ASSUME NEW d \in Depts, ReactivateDepartment(c, d)
      PROVE  /\ Begin(c, "reopen", None, d, "none", "write")
             /\ Good(Make("reopen", None, d, "none", "write"))
  BY <1>7 DEF ReactivateDepartment
<1> HIDE DEF Make, Good
<1>8. \E op, e, d, s, pc : Begin(c, op, e, d, s, pc) /\ Good(Make(op, e, d, s, pc))
  BY <1>1, <1>2, <1>3, <1>4, <1>5, <1>6, <1>7 DEF Request
<1>9. PICK op, e, d, s, pc : Begin(c, op, e, d, s, pc) /\ Good(Make(op, e, d, s, pc))
  BY <1>8
<1>10. /\ UNCHANGED <<tables, history>> /\ task[c] = Idle
       /\ task' = [task EXCEPT ![c] = Make(op, e, d, s, pc)]
  BY <1>9 DEF Begin, Make
<1> QED BY <1>9, <1>10 DEF Good

LEMMA QuietStep ==
  ASSUME TypeOK, TaskInv, NEW c \in Callers, Request(c) \/ Check(c)
  PROVE  /\ UNCHANGED <<tables, history>>
         /\ task[c].pc \notin {"clear", "devices"}
         /\ \E t \in Task : /\ task' = [task EXCEPT ![c] = t]
                            /\ Sound(t) /\ Fresh(t)
<1>1. CASE Request(c)
  BY <1>1, BeginStep DEF Idle
<1>2. CASE RefuseDepartment(c) \/ RefuseHired(c)
  BY <1>2, IdleTask, IdleIsSound DEF RefuseDepartment, RefuseHired, Drop
<1>3. CASE CheckDepartment(c)
  <2> DEFINE u == task[c]
             t == [u EXCEPT !.pc = "write"]
  <2>1. u \in Task /\ Sound(u) /\ Fresh(u) /\ u.pc = "department" /\ u.dept \in open
    BY <1>3 DEF CheckDepartment, TypeOK, TaskInv
  <2>2. t \in Task /\ t.op = u.op /\ t.emp = u.emp /\ t.dept = u.dept /\ t.to = u.to
          /\ t.outdated = u.outdated /\ t.pc = "write"
    BY <2>1 DEF Task, Steps
  <2>3. Sound(t) /\ Fresh(t)
    BY <2>1, <2>2 DEF Sound, Fresh, Waiting
  <2>4. task' = [task EXCEPT ![c] = t] /\ UNCHANGED <<tables, history>>
    BY <1>3 DEF CheckDepartment
  <2> QED BY <2>1, <2>2, <2>3, <2>4
<1> QED BY <1>1, <1>2, <1>3 DEF Check

\* None of them disturbs the invariant.
LEMMA QuietInv ==
  ASSUME Inv, NEW c \in Callers, Request(c) \/ Check(c)
  PROVE  Inv'
<1> USE DEF Inv
<1>1. /\ UNCHANGED <<tables, history>> /\ task[c].pc \notin {"clear", "devices"}
  BY QuietStep
<1>2. PICK t \in Task : task' = [task EXCEPT ![c] = t] /\ Sound(t) /\ Fresh(t)
  BY QuietStep
<1>3. TypeOK'
  BY <1>1, <1>2 DEF TypeOK, tables, history
<1>4. \A x : (Sound(x) <=> Sound(x)') /\ (Fresh(x) <=> Fresh(x)')
  BY <1>1 DEF Sound, Fresh, Employed, Fit, Roster, tables
<1>5. TaskInv'
  BY <1>2, <1>4 DEF TaskInv, TypeOK
<1>6. \A e : /\ Clearing(e) => Clearing(e)'
             /\ Ending(e) => Ending(e)'
  BY <1>1, <1>2 DEF Clearing, Ending, TypeOK
<1>7. StaffInOpenDepartment' /\ ClosedHasNoManager' /\ EndedUnlessRaced'
  BY <1>1 DEF StaffInOpenDepartment, ClosedHasNoManager, EndedUnlessRaced, Employed,
     tables, history
<1>8. ManagersAreFit' /\ DevicesRevoked'
  BY <1>1, <1>6 DEF ManagersAreFit, DevicesRevoked, Fit, tables, history
<1> QED BY <1>3, <1>5, <1>7, <1>8

-----------------------------------------------------------------------------
(***************************************************************************)
(* The clean-up after a status change, the end of a request, the devices.  *)
(***************************************************************************)
LEMMA CleanUpInv ==
  ASSUME Inv, NEW c \in Callers, CleanUp(c)
  PROVE  Inv'
<1> USE DEF Inv
<1> DEFINE u == task[c]
<1>1. u \in Task /\ Sound(u) /\ u.pc \in {"clear", "devices"} /\ u.op = "change" /\ u.emp \in Emps
  BY DEF CleanUp, ClearEmployeeAsManager, DeactivateAllForEmployee, TypeOK, TaskInv, Sound
<1>2. /\ UNCHANGED <<status, endDate, dept, open, history>>
      /\ \A d \in Depts : manager'[d] = manager[d] \/ manager'[d] = None
      /\ manager' \in [Depts -> Emps \cup {None}]
      /\ armed' \subseteq armed
  BY DEF CleanUp, ClearEmployeeAsManager, DeactivateAllForEmployee, TypeOK
<1>3. PICK t \in Task : /\ task' = [task EXCEPT ![c] = t]
                        /\ Sound(t) /\ Fresh(t)
                        /\ t = Idle \/ (u.pc = "clear" /\ t.pc = "devices" /\ t.emp = u.emp)
  <2>1. CASE DeactivateAllForEmployee(c)
    BY <2>1, IdleTask, IdleIsSound DEF DeactivateAllForEmployee
  <2>2. CASE ClearEmployeeAsManager(c) /\ u.to # "terminated"
    BY <2>2, IdleTask, IdleIsSound DEF ClearEmployeeAsManager
  <2>3. CASE ClearEmployeeAsManager(c) /\ u.to = "terminated"
    <3> DEFINE v == [u EXCEPT !.pc = "devices"]
    <3>1. v \in Task /\ v.pc = "devices" /\ v.emp = u.emp /\ v.op = u.op /\ v.to = u.to
            /\ v.dept = u.dept
      BY <1>1 DEF Task, Steps
    <3>2. task' = [task EXCEPT ![c] = v] /\ u.pc = "clear"
      BY <2>3 DEF ClearEmployeeAsManager
    <3>3. Sound(v) /\ Fresh(v)
      BY <1>1, <3>1 DEF Sound, Fresh, Waiting
    <3> QED BY <3>1, <3>2, <3>3
  <2> QED BY <2>1, <2>2, <2>3 DEF CleanUp
<1>4. TypeOK'
  BY <1>2, <1>3 DEF TypeOK, history
<1>5. \A x : (Sound(x) <=> Sound(x)') /\ (Fresh(x) <=> Fresh(x)')
  BY <1>2 DEF Sound, Fresh, Employed, Fit, Roster
<1>6. TaskInv'
  BY <1>3, <1>5 DEF TaskInv, TypeOK
<1>7. StaffInOpenDepartment' /\ ClosedHasNoManager' /\ EndedUnlessRaced'
  BY <1>2 DEF StaffInOpenDepartment, ClosedHasNoManager, EndedUnlessRaced, Employed, history,
     TypeOK
<1>8. ManagersAreFit'
  <2>1. \A e : e # u.emp /\ Clearing(e) => Clearing(e)'
    BY <1>3 DEF Clearing, Ending, TypeOK
  <2>2. u.pc = "clear" => \A d \in Depts : manager'[d] # u.emp
    BY <1>1 DEF CleanUp, ClearEmployeeAsManager, DeactivateAllForEmployee
  <2>3. u.pc = "devices" => \A e : Clearing(e) => Clearing(e)'
    BY <1>3 DEF Clearing, Ending, TypeOK
  <2>4. \A e : Fit(e)' = Fit(e)
    BY <1>2 DEF Fit
  <2> QED BY <1>1, <1>2, <2>1, <2>2, <2>3, <2>4 DEF ManagersAreFit, history
<1>9. DevicesRevoked'
  <2>1. \A e : e # u.emp /\ Ending(e) => Ending(e)'
    BY <1>3 DEF Clearing, Ending, TypeOK
  <2>2. CASE u.pc = "devices"
    <3>1. u.emp \notin armed'
      BY <2>2 DEF CleanUp, ClearEmployeeAsManager, DeactivateAllForEmployee
    <3> QED BY <1>2, <2>1, <3>1 DEF DevicesRevoked, history
  <2>3. CASE u.pc = "clear" /\ u.to = "terminated"
    <3>1. task'[c].emp = u.emp /\ task'[c].to = u.to /\ task'[c].pc = "devices"
      BY <1>1, <2>3 DEF CleanUp, ClearEmployeeAsManager, DeactivateAllForEmployee, TypeOK, Task
    <3>2. PICK e : e = u.emp
      OBVIOUS
    <3>3. Ending(e)'
      BY <2>3, <3>1, <3>2 DEF Ending
    <3> QED BY <1>2, <2>1, <3>2, <3>3 DEF DevicesRevoked, history
  <2>4. CASE u.pc = "clear" /\ u.to # "terminated"
    <3>1. \A e : Ending(e) => Ending(e)'
      BY <1>3, <2>4 DEF Ending, TypeOK
    <3> QED BY <1>2, <3>1 DEF DevicesRevoked, history
  <2> QED BY <1>1, <2>2, <2>3, <2>4
<1> QED BY <1>4, <1>6, <1>7, <1>8, <1>9

LEMMA DiesInv ==
  ASSUME Inv, NEW c \in Callers, Dies(c)
  PROVE  Inv'
<1> USE DEF Inv
<1>1. /\ UNCHANGED <<status, endDate, dept, open, manager, armed, raced, late>>
      /\ task' = [task EXCEPT ![c] = Idle]
      /\ abandoned \subseteq abandoned'
      /\ task[c].pc \in {"clear", "devices"} => task[c].emp \in abandoned'
  BY DEF Dies, tables
<1>2. TypeOK'
  <2>1. task[c].pc \in {"clear", "devices"} => task[c].emp \in Emps
    BY DEF TaskInv, Sound
  <2>2. abandoned' \subseteq Emps
    BY <2>1 DEF Dies, TypeOK
  <2> QED BY <1>1, <2>2, IdleTask DEF TypeOK
<1>3. \A x : (Sound(x) <=> Sound(x)') /\ (Fresh(x) <=> Fresh(x)')
  BY <1>1 DEF Sound, Fresh, Employed, Fit, Roster
<1>4. TaskInv'
  BY <1>1, <1>3, IdleIsSound DEF TaskInv, TypeOK
<1>5. StaffInOpenDepartment' /\ ClosedHasNoManager' /\ EndedUnlessRaced'
  BY <1>1 DEF StaffInOpenDepartment, ClosedHasNoManager, EndedUnlessRaced, Employed
<1>6. \A e : /\ Clearing(e) => Clearing(e)' \/ e \in abandoned'
             /\ Ending(e) => Ending(e)' \/ e \in abandoned'
  BY <1>1 DEF Clearing, Ending, TypeOK
<1>7. ManagersAreFit' /\ DevicesRevoked'
  BY <1>1, <1>6 DEF ManagersAreFit, DevicesRevoked, Fit
<1> QED BY <1>2, <1>4, <1>5, <1>7

LEMMA DeviceInv ==
  ASSUME Inv, NEW e \in Emps, RegisterDevice(e) \/ DeactivateDevice(e)
  PROVE  Inv'
<1> USE DEF Inv
<1>1. /\ UNCHANGED <<status, endDate, dept, open, manager, task, raced, abandoned>>
      /\ late' = late \/ late' = late \cup {e}
      /\ armed' \subseteq armed \cup {e}
      /\ e \in armed' /\ status[e] = "terminated" => e \in late'
  BY DEF RegisterDevice, DeactivateDevice, history
<1>2. TypeOK'
  BY <1>1 DEF TypeOK
<1>3. TaskInv'
  BY <1>1 DEF TaskInv, Sound, Fresh, Employed, Fit, Roster
<1>4. StaffInOpenDepartment' /\ ClosedHasNoManager' /\ EndedUnlessRaced' /\ ManagersAreFit'
  BY <1>1 DEF StaffInOpenDepartment, ClosedHasNoManager, EndedUnlessRaced, ManagersAreFit,
     Employed, Fit, Clearing
<1>5. DevicesRevoked'
  BY <1>1 DEF DevicesRevoked, Ending
<1> QED BY <1>2, <1>3, <1>4, <1>5

-----------------------------------------------------------------------------
(***************************************************************************)
(* The writes.                                                             *)
(***************************************************************************)

\* What every write does to the requests.
LEMMA Commits ==
  ASSUME TypeOK, TaskInv, NEW c \in Callers, Write(c)
  PROVE  /\ task[c] \in Task /\ task[c].pc = "write"
         /\ Sound(task[c]) /\ Fresh(task[c])
         /\ task[c].op \in {"hire", "transfer", "change", "assign", "remove", "close", "reopen"}
         /\ task'[c] = Idle
              \/ /\ task[c].op = "change"
                 /\ task'[c] \in Task /\ task'[c].op = "change" /\ task'[c].pc = "clear"
                 /\ task'[c].emp = task[c].emp /\ task'[c].to = task[c].to
         /\ \A b \in Callers \ {c} :
              /\ task[b] \in Task /\ Sound(task[b]) /\ Fresh(task[b])
              /\ task'[b] \in Task
              /\ task'[b].op = task[b].op /\ task'[b].emp = task[b].emp
              /\ task'[b].dept = task[b].dept /\ task'[b].to = task[b].to
              /\ task'[b].pc = task[b].pc
              /\ task'[b].outdated = task[b].outdated \cup (Reads(task[b]) \cap Writes(task[c]))
         /\ task' \in [Callers -> Task]
         /\ raced' = raced \cup task[c].outdated
         /\ raced' \subseteq Facts
         /\ UNCHANGED <<abandoned, late>>
<1> DEFINE next == [task[c] EXCEPT !.pc = "clear", !.outdated = {}]
           v(b) == [task[b] EXCEPT !.outdated = @ \cup (Reads(task[b]) \cap Writes(task[c]))]
<1>1. \/ Commit(c, Idle)
      \/ task[c].op = "change" /\ Commit(c, next)
  BY DEF Write, WriteHired, WriteDepartment, WriteStatus, WriteManager, WriteNoManager,
     WriteClosed, WriteOpen
<1>2. task[c].op \in {"hire", "transfer", "change", "assign", "remove", "close", "reopen"}
  BY DEF Write, WriteHired, WriteDepartment, WriteStatus, WriteManager, WriteNoManager,
     WriteClosed, WriteOpen
<1>3. \A b \in Callers : task[b] \in Task /\ Sound(task[b]) /\ Fresh(task[b])
  BY DEF TypeOK, TaskInv
<1>4. \A b \in Callers : Reads(task[b]) \subseteq Facts
  BY DEF Reads, EmployeeFact, OpenFact, RosterFact, Facts
<1>5. \A b \in Callers : v(b) \in Task
  BY <1>3, <1>4 DEF Task
<1>6. next \in Task /\ next.op = task[c].op /\ next.pc = "clear" /\ next.emp = task[c].emp
        /\ next.to = task[c].to
  BY <1>3 DEF Task, Steps
<1>7. task'[c] = Idle \/ (task[c].op = "change" /\ task'[c] = next)
  BY <1>1 DEF Commit
<1>8. \A b \in Callers \ {c} : task'[b] = v(b)
  BY <1>1 DEF Commit
<1>9. \A b \in Callers \ {c} :
        /\ v(b).op = task[b].op /\ v(b).emp = task[b].emp
        /\ v(b).dept = task[b].dept /\ v(b).to = task[b].to /\ v(b).pc = task[b].pc
        /\ v(b).outdated = task[b].outdated \cup (Reads(task[b]) \cap Writes(task[c]))
  BY <1>3 DEF Task
<1>10. task' \in [Callers -> Task]
  <2>1. \A b \in Callers : task'[b] \in Task
    BY <1>5, <1>6, <1>7, <1>8, IdleTask
  <2>2. \E x : task' = [b \in Callers |-> x[b]]
    BY <1>1 DEF Commit
  <2> QED BY <2>1, <2>2
<1>11. raced' = raced \cup task[c].outdated /\ UNCHANGED <<abandoned, late>>
         /\ task[c].pc = "write"
  BY <1>1 DEF Commit
<1>12. raced' \subseteq Facts
  BY <1>3, <1>11 DEF TypeOK, Task
<1> HIDE DEF next, v
<1>13. \A b \in Callers \ {c} :
              /\ task'[b] \in Task
              /\ task'[b].op = task[b].op /\ task'[b].emp = task[b].emp
              /\ task'[b].dept = task[b].dept /\ task'[b].to = task[b].to
              /\ task'[b].pc = task[b].pc
              /\ task'[b].outdated = task[b].outdated \cup (Reads(task[b]) \cap Writes(task[c]))
  BY <1>5, <1>8, <1>9
<1> QED BY <1>2, <1>3, <1>6, <1>7, <1>10, <1>11, <1>12, <1>13

\* What each write does to the tables.
LEMMA TableWrites ==
  ASSUME TypeOK, TaskInv, NEW c \in Callers, Write(c)
  PROVE  LET t == task[c]
         IN  /\ t.op = "hire" =>
                  /\ t.emp \in Emps /\ status[t.emp] = "absent"
                  /\ status' = [status EXCEPT ![t.emp] = "active"]
                  /\ dept' = [dept EXCEPT ![t.emp] = t.dept]
             /\ t.op = "transfer" =>
                  t.emp \in Emps /\ status' = status /\ dept' = [dept EXCEPT ![t.emp] = t.dept]
             /\ t.op = "change" =>
                  /\ t.emp \in Emps /\ dept' = dept /\ t.to \in Statuses
                  /\ status' = [status EXCEPT ![t.emp] = t.to]
                  /\ endDate' = IF t.to = "terminated" THEN endDate \cup {t.emp} ELSE endDate
                  /\ t.to \in {"suspended", "terminated"} => task'[c] # Idle
             /\ t.op # "change" => endDate' = endDate
             /\ t.op \notin {"hire", "transfer", "change"} => status' = status /\ dept' = dept
             /\ t.op = "assign" =>
                  t.emp \in Emps /\ t.dept \in Depts
                  /\ manager' = [manager EXCEPT ![t.dept] = t.emp]
             /\ t.op \in {"remove", "close"} =>
                  t.dept \in Depts /\ manager' = [manager EXCEPT ![t.dept] = None]
             /\ t.op \notin {"assign", "remove", "close"} => manager' = manager
             /\ t.op = "close" => open' = open \ {t.dept}
             /\ t.op = "reopen" => t.dept \in Depts /\ open' = open \cup {t.dept}
             /\ t.op \notin {"close", "reopen"} => open' = open
             /\ armed' = armed
<1>1. /\ Sound(task[c]) /\ task[c] \in Task
      /\ task[c].op \in {"hire", "transfer", "change", "assign", "remove", "close", "reopen"}
  BY Commits
<1>2. task[c].op = "change" /\ task[c].to \in {"suspended", "terminated"} => task'[c] # Idle
  <2> SUFFICES ASSUME task[c].op = "change", task[c].to \in {"suspended", "terminated"}
               PROVE  task'[c] # Idle
    OBVIOUS
  <2>1. Commit(c, [task[c] EXCEPT !.pc = "clear", !.outdated = {}])
    BY DEF Write, WriteHired, WriteDepartment, WriteStatus, WriteManager, WriteNoManager,
       WriteClosed, WriteOpen
  <2>2. task'[c] = [task[c] EXCEPT !.pc = "clear", !.outdated = {}]
    BY <2>1 DEF Commit
  <2>3. task'[c].pc = "clear"
    BY <1>1, <2>2 DEF Task
  <2> QED BY <2>3 DEF Idle
<1> QED BY <1>1, <1>2 DEF Write, WriteHired, WriteDepartment, WriteStatus, WriteManager,
             WriteNoManager, WriteClosed, WriteOpen, Sound

\* Writing on a fact that is not outdated leaves the tables well typed.
LEMMA WriteTypes ==
  ASSUME TypeOK, TaskInv, NEW c \in Callers, Write(c)
  PROVE  TypeOK'
<1>1. /\ task[c] \in Task
      /\ task[c].op \in {"hire", "transfer", "change", "assign", "remove", "close", "reopen"}
      /\ task' \in [Callers -> Task] /\ raced' \subseteq Facts
      /\ UNCHANGED <<abandoned, late>>
  BY Commits
<1>2. task[c].dept \in Depts \cup {None} /\ task[c].emp \in Emps \cup {None}
  BY <1>1 DEF Task
<1>3. status' \in [Emps -> Statuses \cup {"absent"}] /\ dept' \in [Emps -> Depts \cup {None}]
  BY <1>1, <1>2, TableWrites DEF TypeOK, Statuses
<1>4. endDate' \subseteq Emps /\ open' \subseteq Depts /\ armed' \subseteq Emps
  BY <1>1, TableWrites DEF TypeOK
<1>5. manager' \in [Depts -> Emps \cup {None}]
  BY <1>1, TableWrites DEF TypeOK
<1> QED BY <1>1, <1>3, <1>4, <1>5 DEF TypeOK

\* The requests that go on stay sound, and what the write changed for them is
\* listed as outdated.
LEMMA WriteTasks ==
  ASSUME TypeOK, TaskInv, NEW c \in Callers, Write(c)
  PROVE  TaskInv'
<1> DEFINE t == task[c]
<1>1. t \in Task /\ Sound(t)
        /\ t.op \in {"hire", "transfer", "change", "assign", "remove", "close", "reopen"}
  BY Commits
<1>2. \A e \in Emps : status[e] # "absent" => status'[e] # "absent"
  BY <1>1, TableWrites DEF TypeOK, Statuses
<1>3. ASSUME NEW v, v = task'[c] PROVE Sound(v)' /\ Fresh(v)'
  <2>1. CASE v = Idle
    BY <2>1 DEF Sound, Fresh, Idle, Waiting
  <2>2. CASE v # Idle
    <3>1. /\ t.op = "change" /\ v.op = "change" /\ v.pc = "clear"
          /\ v.emp = t.emp /\ v.to = t.to
      BY <1>3, <2>2, Commits
    <3>2. t.emp \in Emps /\ t.to \in Statuses /\ status[t.emp] # "absent"
      BY <1>1, <3>1 DEF Sound
    <3> QED BY <1>2, <3>1, <3>2 DEF Sound, Fresh, Waiting
  <2> QED BY <2>1, <2>2
<1>4. ASSUME NEW b \in Callers \ {c}, NEW v, v = task'[b] PROVE Sound(v)' /\ Fresh(v)'
  <2> DEFINE u == task[b]
  <2>1. /\ u \in Task /\ Sound(u) /\ Fresh(u) /\ v \in Task
        /\ v.op = u.op /\ v.emp = u.emp /\ v.dept = u.dept /\ v.to = u.to /\ v.pc = u.pc
        /\ v.outdated = u.outdated \cup (Reads(u) \cap Writes(t))
    BY <1>4, Commits
  <2>2. Sound(v) /\ Sound(v)'
    BY <1>2, <2>1 DEF Sound
  <2>3. ASSUME v.pc \in Waiting, EmployeeFact(v.emp) \notin v.outdated,
               v.op \in {"transfer", "change", "assign"}
        PROVE  /\ v.emp \in Emps /\ status'[v.emp] = status[v.emp]
               /\ EmployeeFact(u.emp) \notin u.outdated
    <3>1. v.emp \in Emps
      BY <2>2, <2>3 DEF Sound
    <3>2. EmployeeFact(v.emp) \in Reads(u)
      BY <2>1, <2>3, ReadSets
    <3>3. EmployeeFact(v.emp) \notin Writes(t)
      BY <2>1, <2>3, <3>2
    <3>4. t.op \in {"hire", "transfer", "change"} => t.emp # v.emp
      BY <3>3, WriteSets
    <3> QED BY <1>1, <2>1, <2>3, <3>1, <3>4, TableWrites DEF TypeOK
  <2>4. ASSUME v.pc = "write", v.op \in {"hire", "transfer", "assign", "close"},
               v.dept # None, OpenFact(v.dept) \notin v.outdated
        PROVE  v.dept \in open'
    <3>1. v.dept \in open
      BY <2>1, <2>4 DEF Fresh
    <3>2. OpenFact(v.dept) \in Reads(u)
      BY <2>1, <2>4, ReadSets DEF Waiting
    <3>3. OpenFact(v.dept) \notin Writes(t)
      BY <2>1, <2>4, <3>2
    <3>4. t.op = "close" => t.dept # v.dept
      BY <3>3, WriteSets
    <3> QED BY <1>1, <3>1, <3>4, TableWrites
  <2>5. ASSUME v.pc \in Waiting, v.op = "close", RosterFact(v.dept) \notin v.outdated
        PROVE  \A e \in Emps : dept'[e] = v.dept => status'[e] \in {"absent", "terminated"}
    <3>1. \A e \in Emps : dept[e] = v.dept => status[e] \in {"absent", "terminated"}
      BY <2>1, <2>5 DEF Fresh, Roster, Employed
    <3>2. RosterFact(v.dept) \in Reads(u)
      BY <2>1, <2>5, ReadSets
    <3>3. RosterFact(v.dept) \notin Writes(t)
      BY <2>1, <2>5, <3>2
    <3>4. /\ t.op \in {"hire", "transfer"} => t.dept # v.dept
          /\ t.op = "change" => dept[t.emp] # v.dept
      BY <3>3, WriteSets
    <3> QED BY <1>1, <3>1, <3>4, TableWrites DEF TypeOK
  <2>6. Fresh(v)'
    <3>1. \A e \in Emps : status'[e] = status[e] =>
            /\ Employed(e) => Employed(e)'
            /\ Fit(e) => Fit(e)'
            /\ Successors(status[e])' = Successors(status[e])
      BY DEF Employed, Fit, Successors
    <3>2. (v.pc \in Waiting /\ EmployeeFact(v.emp) \notin v.outdated =>
             /\ v.op = "transfer" => Employed(v.emp)
             /\ v.op = "change" => v.to \in Successors(status[v.emp])
             /\ v.op = "assign" => Fit(v.emp))'
      <4> SUFFICES ASSUME v.pc \in Waiting, EmployeeFact(v.emp) \notin v.outdated,
                          v.op \in {"transfer", "change", "assign"}
                   PROVE  /\ v.op = "transfer" => Employed(v.emp)'
                          /\ v.op = "change" => v.to \in Successors(status'[v.emp])
                          /\ v.op = "assign" => Fit(v.emp)'
        BY DEF EmployeeFact, Waiting
      <4>1. /\ v.op = "transfer" => Employed(v.emp)
            /\ v.op = "change" => v.to \in Successors(status[v.emp])
            /\ v.op = "assign" => Fit(v.emp)
        BY <2>1, <2>3 DEF Fresh
      <4> QED BY <2>3, <3>1, <4>1
    <3>3. v.pc \in Waiting /\ v.op = "close" /\ RosterFact(v.dept) \notin v.outdated
            => Roster(v.dept)' = {}
      BY <2>5 DEF Roster, Employed
    <3> QED BY <2>4, <3>2, <3>3 DEF Fresh, OpenFact, RosterFact, EmployeeFact, Waiting
  <2> QED BY <2>2, <2>6
<1> QED BY <1>3, <1>4 DEF TaskInv

\* What a write that is not outdated has checked.
LEMMA WriteChecked ==
  ASSUME TypeOK, TaskInv, NEW c \in Callers, Write(c)
  PROVE  LET t == task[c]
         IN  /\ t.op = "transfer" => Employed(t.emp) \/ EmployeeFact(t.emp) \in raced'
             /\ t.op = "change" =>
                  t.to \in Successors(status[t.emp]) \/ EmployeeFact(t.emp) \in raced'
             /\ t.op = "assign" => Fit(t.emp) \/ EmployeeFact(t.emp) \in raced'
             /\ t.op \in {"hire", "transfer", "assign"} /\ t.dept # None =>
                  t.dept \in open \/ OpenFact(t.dept) \in raced'
             /\ t.op = "close" => Roster(t.dept) = {} \/ RosterFact(t.dept) \in raced'
             /\ raced \subseteq raced'
<1>1. Fresh(task[c]) /\ task[c].pc = "write" /\ raced' = raced \cup task[c].outdated
  BY Commits
<1> QED BY <1>1 DEF Fresh, Waiting

LEMMA WriteStaff ==
  ASSUME TypeOK, TaskInv, StaffInOpenDepartment, NEW c \in Callers, Write(c)
  PROVE  StaffInOpenDepartment'
<1> DEFINE t == task[c]
<1>1. t.op \in {"hire", "transfer", "change", "assign", "remove", "close", "reopen"}
  BY Commits
<1> SUFFICES ASSUME NEW e \in Emps, NEW d \in Depts \ open', d = dept'[e],
                    status'[e] \notin {"absent", "terminated"}
             PROVE  raced' \cap {OpenFact(d), RosterFact(d), EmployeeFact(e)} # {}
  BY DEF StaffInOpenDepartment, Employed, OpenFact, RosterFact
<1>2. d # None
  OBVIOUS
<1>3. raced \subseteq raced'
  BY WriteChecked
<1>4. Employed(e) /\ dept[e] = d /\ d \notin open
        => raced \cap {OpenFact(d), RosterFact(d), EmployeeFact(e)} # {}
  BY DEF StaffInOpenDepartment
<1>5. CASE t.op \in {"hire", "transfer"} /\ e = t.emp
  <2>1. t.dept = d /\ d \notin open
    BY <1>5, TableWrites DEF TypeOK
  <2> QED BY <1>2, <1>5, <2>1, WriteChecked
<1>6. CASE t.op \in {"hire", "transfer"} /\ e # t.emp
  <2>1. Employed(e) /\ dept[e] = d /\ d \notin open
    BY <1>6, TableWrites DEF TypeOK, Employed
  <2> QED BY <1>3, <1>4, <2>1
<1>7. CASE t.op = "change"
  <2>1. dept[e] = d /\ d \notin open
    BY <1>7, TableWrites
  <2>2. CASE Employed(e)
    BY <1>3, <1>4, <2>1, <2>2
  <2>3. CASE ~ Employed(e)
    <3>1. e = t.emp
      BY <1>7, <2>3, TableWrites DEF Employed, TypeOK
    <3>2. Successors(status[e]) = {}
      BY <2>3 DEF Successors, Employed
    <3> QED BY <1>7, <3>1, <3>2, WriteChecked
  <2> QED BY <2>2, <2>3
<1>8. CASE t.op = "close"
  <2>1. Employed(e) /\ dept[e] = d
    BY <1>8, TableWrites DEF Employed
  <2>2. CASE d = t.dept
    <3>1. Roster(d) # {}
      BY <2>1 DEF Roster
    <3> QED BY <1>8, <2>2, <3>1, WriteChecked
  <2>3. CASE d # t.dept
    <3>1. d \notin open
      BY <1>8, <2>3, TableWrites
    <3> QED BY <1>3, <1>4, <2>1, <3>1
  <2> QED BY <2>2, <2>3
<1>9. CASE t.op \in {"assign", "remove", "reopen"}
  <2>1. Employed(e) /\ dept[e] = d /\ d \notin open
    BY <1>9, TableWrites DEF Employed
  <2> QED BY <1>3, <1>4, <2>1
<1> QED BY <1>1, <1>5, <1>6, <1>7, <1>8, <1>9

\* Requests that clean up are not those that write, and a change to suspended
\* or terminated becomes one.
LEMMA WriteCleaners ==
  ASSUME TypeOK, TaskInv, NEW c \in Callers, Write(c), NEW e \in Emps
  PROVE  /\ Clearing(e) => Clearing(e)'
         /\ Ending(e) => Ending(e)'
         /\ task[c].op = "change" /\ task[c].emp = e
              /\ task[c].to \in {"suspended", "terminated"} => Clearing(e)'
         /\ task[c].op = "change" /\ task[c].emp = e /\ task[c].to = "terminated" => Ending(e)'
<1>1. task[c].pc = "write"
  BY Commits
<1>2. \A b \in Callers \ {c} :
        task'[b].emp = task[b].emp /\ task'[b].to = task[b].to /\ task'[b].pc = task[b].pc
  BY Commits
<1>3. ASSUME task[c].op = "change", task[c].to \in {"suspended", "terminated"}
      PROVE  task'[c].emp = task[c].emp /\ task'[c].to = task[c].to /\ task'[c].pc = "clear"
  BY <1>3, Commits, TableWrites
<1> QED BY <1>1, <1>2, <1>3 DEF Clearing, Ending

LEMMA WriteManagers ==
  ASSUME TypeOK, TaskInv, ManagersAreFit, ClosedHasNoManager, NEW c \in Callers, Write(c)
  PROVE  ManagersAreFit' /\ ClosedHasNoManager'
<1> DEFINE t == task[c]
<1>1. /\ t.op \in {"hire", "transfer", "change", "assign", "remove", "close", "reopen"}
      /\ raced \subseteq raced' /\ abandoned' = abandoned
  BY Commits, WriteChecked
<1>2. ManagersAreFit'
  <2> SUFFICES ASSUME NEW d \in Depts, NEW e, e = manager'[d], e # None
               PROVE  Fit(e)' \/ Clearing(e)' \/ e \in abandoned' \/ EmployeeFact(e) \in raced'
    BY DEF ManagersAreFit, Fit, Clearing, EmployeeFact
  <2>1. e \in Emps
    BY WriteTypes DEF TypeOK
  <2>2. Fit(e) \/ Clearing(e) \/ e \in abandoned \/ EmployeeFact(e) \in raced'
    <3>1. CASE t.op = "assign" /\ d = t.dept
      <4>1. e = t.emp
        BY <3>1, TableWrites DEF TypeOK
      <4> QED BY <3>1, <4>1, WriteChecked
    <3>2. CASE ~ (t.op = "assign" /\ d = t.dept)
      <4>1. manager[d] = e
        BY <1>1, <3>2, TableWrites DEF TypeOK
      <4> QED BY <1>1, <4>1 DEF ManagersAreFit
    <3> QED BY <3>1, <3>2
  <2>3. Fit(e) => Fit(e)' \/ Clearing(e)' \/ EmployeeFact(e) \in raced'
    <3>1. CASE t.op = "change" /\ t.emp = e
      <4>1. status'[e] = t.to /\ t.to # "absent"
        BY <2>1, <3>1, TableWrites DEF TypeOK, Statuses
      <4> QED BY <2>1, <3>1, <4>1, WriteCleaners DEF Fit
    <3>2. CASE ~ (t.op = "change" /\ t.emp = e)
      BY <1>1, <2>1, <3>2, TableWrites DEF TypeOK, Fit
    <3> QED BY <3>1, <3>2
  <2> QED BY <1>1, <2>1, <2>2, <2>3, WriteCleaners
<1>3. ClosedHasNoManager'
  <2> SUFFICES ASSUME NEW d \in Depts \ open', manager'[d] # None
               PROVE  OpenFact(d) \in raced'
    BY DEF ClosedHasNoManager, OpenFact
  <2>1. CASE t.op = "assign" /\ d = t.dept
    <3>1. d \notin open
      BY <2>1, TableWrites
    <3> QED BY <2>1, <3>1, WriteChecked
  <2>2. CASE ~ (t.op = "assign" /\ d = t.dept)
    <3>1. manager[d] # None /\ d \notin open
      BY <1>1, <2>2, TableWrites DEF TypeOK
    <3> QED BY <1>1, <3>1 DEF ClosedHasNoManager
  <2> QED BY <2>1, <2>2
<1> QED BY <1>2, <1>3

LEMMA WriteEnds ==
  ASSUME TypeOK, TaskInv, EndedUnlessRaced, DevicesRevoked, NEW c \in Callers, Write(c)
  PROVE  EndedUnlessRaced' /\ DevicesRevoked'
<1> DEFINE t == task[c]
<1>1. /\ t.op \in {"hire", "transfer", "change", "assign", "remove", "close", "reopen"}
      /\ raced \subseteq raced' /\ UNCHANGED <<abandoned, late>>
  BY Commits, WriteChecked
<1>2. EndedUnlessRaced'
  <2> SUFFICES ASSUME NEW e \in Emps, EmployeeFact(e) \notin raced'
               PROVE  e \in endDate' <=> status'[e] = "terminated"
    BY DEF EndedUnlessRaced, EmployeeFact
  <2>1. e \in endDate <=> status[e] = "terminated"
    BY <1>1 DEF EndedUnlessRaced
  <2>2. CASE t.op = "change" /\ t.emp = e
    <3>1. status[e] # "terminated"
      BY <2>2, WriteChecked DEF Successors
    <3> QED BY <2>1, <2>2, <3>1, TableWrites DEF TypeOK
  <2>3. CASE ~ (t.op = "change" /\ t.emp = e)
    BY <1>1, <2>1, <2>3, TableWrites DEF TypeOK
  <2> QED BY <2>2, <2>3
<1>3. DevicesRevoked'
  <2> SUFFICES ASSUME NEW e \in Emps, e \in armed', status'[e] = "terminated"
               PROVE  Ending(e)' \/ e \in abandoned' \/ e \in late'
    BY WriteTypes DEF DevicesRevoked, TypeOK
  <2>1. CASE status[e] = "terminated"
    <3>1. e \in armed
      BY TableWrites
    <3> QED BY <1>1, <2>1, <3>1, WriteCleaners DEF DevicesRevoked
  <2>2. CASE status[e] # "terminated"
    <3>1. t.op = "change" /\ t.emp = e /\ t.to = "terminated"
      BY <1>1, <2>2, TableWrites DEF TypeOK
    <3> QED BY <3>1, WriteCleaners
  <2> QED BY <2>1, <2>2
<1> QED BY <1>2, <1>3

-----------------------------------------------------------------------------
(***************************************************************************)
(* The theorems.                                                           *)
(***************************************************************************)
LEMMA Invariance == Spec => []Inv
<1>1. Inv /\ [Next]_vars => Inv'
  <2> SUFFICES ASSUME Inv, [Next]_vars PROVE Inv'
    OBVIOUS
  <2>1. ASSUME NEW c \in Callers, Write(c) PROVE Inv'
    BY <2>1, WriteTypes, WriteTasks, WriteStaff, WriteManagers, WriteEnds DEF Inv
  <2>2. CASE UNCHANGED vars
    BY <2>2 DEF Inv, vars, tables, history, TypeOK, TaskInv, Sound, Fresh, Employed, Fit, Roster,
       StaffInOpenDepartment, ManagersAreFit, ClosedHasNoManager, EndedUnlessRaced,
       DevicesRevoked, Clearing, Ending
  <2> QED BY <2>1, <2>2, QuietInv, CleanUpInv, DiesInv, DeviceInv DEF Next
<1> QED BY InitInv, <1>1, PTL DEF Spec

\* Every request works on well-typed state.
THEOREM EmployeesTypeCorrect == Spec => []TypeOK
<1>1. Inv => TypeOK
  BY DEF Inv
<1> QED BY Invariance, <1>1, PTL

\* Nobody works in an inactive department without a race over it.
THEOREM StrandedStaffNeedsARace == Spec => []StaffInOpenDepartment
<1>1. Inv => StaffInOpenDepartment
  BY DEF Inv
<1> QED BY Invariance, <1>1, PTL

\* An unfit manager is being cleared, was left by a crash, or by a race.
THEOREM UnfitManagerNeedsAReason == Spec => []ManagersAreFit
<1>1. Inv => ManagersAreFit
  BY DEF Inv
<1> QED BY Invariance, <1>1, PTL

\* An inactive department keeps a manager only after a race.
THEOREM ManagerOfClosedNeedsARace == Spec => []ClosedHasNoManager
<1>1. Inv => ClosedHasNoManager
  BY DEF Inv
<1> QED BY Invariance, <1>1, PTL

\* The termination date and the status agree unless status changes raced.
THEOREM ResurrectionNeedsARace == Spec => []EndedUnlessRaced
<1>1. Inv => EndedUnlessRaced
  BY DEF Inv
<1> QED BY Invariance, <1>1, PTL

\* A terminated employee keeps a device only by a crash or a late token.
THEOREM TerminationRevokesDevices == Spec => []DevicesRevoked
<1>1. Inv => DevicesRevoked
  BY DEF Inv
<1> QED BY Invariance, <1>1, PTL

\* Statuses move along the transition table unless changes raced.
THEOREM LifecycleUnlessRaced == Spec => FollowsLifecycle
<1>1. Inv /\ [Next]_vars =>
        [\A e \in Emps :
           status'[e] # status[e] /\ EmployeeFact(e) \notin raced' =>
             IF status[e] = "absent" THEN status'[e] = "active"
             ELSE status'[e] \in Successors(status[e])]_vars
  <2> SUFFICES ASSUME Inv, Next, NEW e \in Emps, status'[e] # status[e],
                      EmployeeFact(e) \notin raced'
               PROVE  IF status[e] = "absent" THEN status'[e] = "active"
                      ELSE status'[e] \in Successors(status[e])
    OBVIOUS
  <2> USE DEF Inv
  <2>1. PICK c \in Callers : Write(c)
    BY QuietStep DEF Next, CleanUp, ClearEmployeeAsManager, DeactivateAllForEmployee, Dies,
       RegisterDevice, DeactivateDevice, tables
  <2>2. /\ task[c].op \in {"hire", "transfer", "change", "assign", "remove", "close", "reopen"}
        /\ Sound(task[c])
    BY <2>1, Commits
  <2>3. CASE task[c].op = "hire"
    BY <2>1, <2>3, TableWrites DEF TypeOK
  <2>4. CASE task[c].op = "change"
    <3>1. e = task[c].emp /\ status'[e] = task[c].to /\ status[e] # "absent"
      BY <2>1, <2>2, <2>4, TableWrites DEF TypeOK, Sound
    <3> QED BY <2>1, <2>4, <3>1, WriteChecked
  <2> QED BY <2>1, <2>2, <2>3, <2>4, TableWrites
<1> QED BY Invariance, <1>1, PTL DEF Spec, FollowsLifecycle

-----------------------------------------------------------------------------
(***************************************************************************)
(* The pay of an employee (module Salaries), for any requests, amounts,    *)
(* currencies and days.                                                    *)
(***************************************************************************)
Busy == {c \in Requests : change[c].pc # "idle"}

\* Every entry and every request in flight was admitted.
PayCounted ==
  /\ IsFiniteSet(ledger) /\ IsFiniteSet(Busy)
  /\ Cardinality(ledger) + Cardinality(Busy) <= admitted

\* Where a request is, and what it knows: a request that leaves the currency out
\* has the one in the row, and one that has yet to write the history, and that no
\* other one overlaps, has the salary in the row and is the only such request.
PayKnown(c) ==
  /\ change[c].pc = "idle" => change[c] = NoChange
  /\ standing = "none" => change[c].pc \in {"idle", "create"}
  /\ change[c].pc = "update" /\ ~ change[c].named /\ ~ change[c].outdated =>
       change[c].pay.currency = pay.currency
  /\ change[c].pc = "record" /\ ~ change[c].overlapped =>
       change[c].pay = pay /\ Recording = {c}

PayInv ==
  /\ PayTypeOK
  /\ PayCounted
  /\ \A c \in Requests : PayKnown(c)
  /\ LatestIsCurrent
  /\ CurrencyIsKept

LEMMA NoChangeTyped ==
  /\ NoChange \in Change
  /\ NoChange.pc = "idle" /\ NoChange.outdated = FALSE /\ NoChange.overlapped = FALSE
<1>1. APay \in Pays
  <2>1. PICK a \in Amounts, u \in Currencies : TRUE
    BY SalariesAssumption
  <2>2. [amount |-> a, currency |-> u] \in Pays
    BY <2>1 DEF Pays
  <2> QED BY <2>2 DEF APay
<1> QED BY <1>1, SalariesAssumption DEF NoChange, Change, Days

LEMMA InitPayInv == ASSUME PayInit PROVE PayInv
<1>1. PayTypeOK
  <2>1. /\ standing = "none" /\ pay = Unset /\ ledger \subseteq Entries
        /\ change \in [Requests -> Change] /\ asked = Unset
    BY NoChangeTyped DEF PayInit
  <2>2. today \in Days /\ admitted \in 0 .. MaxRequests
    BY SalariesAssumption DEF PayInit, Days
  <2>3. lost \in BOOLEAN /\ astray \in BOOLEAN
    BY Zenon DEF PayInit
  <2> QED BY <2>1, <2>2, <2>3 DEF PayTypeOK
<1>2. PayCounted
  <2>1. Busy = {} /\ ledger = {} /\ admitted = 0
    BY NoChangeTyped DEF PayInit, Busy
  <2> QED BY <2>1, FS_EmptySet DEF PayCounted
<1>3. ASSUME NEW c \in Requests PROVE PayKnown(c)
  BY NoChangeTyped DEF PayInit, PayKnown
<1>4. LatestIsCurrent /\ CurrencyIsKept
  BY DEF PayInit, LatestIsCurrent, CurrencyIsKept
<1> QED BY <1>1, <1>2, <1>3, <1>4 DEF PayInv

\* A request that begins, whatever it is, when it knows what it has to.
LEMMA BeginPayInv ==
  ASSUME PayInv, NEW c \in Requests, NEW t \in Change, BeginChange(c, t),
         \/ t.pc = "create"
         \/ /\ t.pc = "update" /\ standing # "none"
            /\ ~ t.named => t.pay.currency = pay.currency
  PROVE  PayInv'
<1> USE DEF PayInv
<1>1. /\ change[c] = NoChange /\ change[c].pc = "idle" /\ admitted < MaxRequests
      /\ admitted' = admitted + 1 /\ change' = [change EXCEPT ![c] = t]
      /\ UNCHANGED <<standing, pay, ledger, today, asked, lost, astray>>
  BY NoChangeTyped DEF BeginChange, row
<1>2. change \in [Requests -> Change] /\ admitted \in 0 .. MaxRequests /\ MaxRequests \in Nat
  BY SalariesAssumption DEF PayTypeOK
<1>3. PayTypeOK'
  BY <1>1, <1>2 DEF PayTypeOK
<1>4. PayCounted'
  <2>1. Busy' = Busy \cup {c} /\ c \notin Busy
    BY <1>1, <1>2 DEF Busy
  <2>2. /\ IsFiniteSet(Busy') /\ Cardinality(Busy') = Cardinality(Busy) + 1
        /\ Cardinality(Busy) \in Nat /\ Cardinality(ledger) \in Nat
    BY <2>1, FS_AddElement, FS_CardinalityType DEF PayCounted
  <2> QED BY <1>1, <1>2, <2>2 DEF PayCounted
<1>5. Recording' = Recording
  BY <1>1, <1>2 DEF Recording
<1>6. ASSUME NEW d \in Requests PROVE PayKnown(d)'
  BY <1>1, <1>2, <1>5 DEF PayKnown
<1>7. LatestIsCurrent' /\ CurrencyIsKept'
  BY <1>1, <1>5 DEF LatestIsCurrent, CurrencyIsKept, Latest
<1> QED BY <1>3, <1>4, <1>6, <1>7

LEMMA RequestPayInv ==
  ASSUME PayInv, NEW c \in Requests, RequestChange(c)
  PROVE  PayInv'
<1>1. ASSUME NEW p \in Pays, NEW d \in Days, CreateWithPay(c, p, d)
      PROVE  PayInv'
  <2> DEFINE t == [NoChange EXCEPT !.pc = "create", !.pay = p, !.effective = d]
  <2>1. t \in Change /\ t.pc = "create"
    BY NoChangeTyped, <1>1 DEF Change
  <2>2. BeginChange(c, t)
    BY <1>1 DEF CreateWithPay
  <2> QED BY <2>1, <2>2, BeginPayInv
<1>2. ASSUME NEW a \in Amounts, NEW u \in Currencies \cup {Unset}, NEW d \in Days \cup {Unset},
             UpdateSalary(c, a, u, d)
      PROVE  PayInv'
  <2> DEFINE t == [NoChange EXCEPT !.pc = "update", !.effective = DateOf(d),
                     !.named = u # Unset,
                     !.pay = [amount |-> a, currency |-> CurrencyOf(pay.currency, u)]]
  <2>1. standing = "active" /\ BeginChange(c, t)
    BY <1>2 DEF UpdateSalary
  <2>2. pay \in Pays /\ today \in Days
    BY <2>1 DEF PayInv, PayTypeOK
  <2>3. DateOf(d) \in Days
    BY <2>2 DEF DateOf
  <2>4. CurrencyOf(pay.currency, u) \in Currencies
    BY <2>2 DEF CurrencyOf, Pays
  <2>5. [amount |-> a, currency |-> CurrencyOf(pay.currency, u)] \in Pays
    BY <2>4 DEF Pays
  <2>6. t \in Change /\ t.pc = "update"
    BY NoChangeTyped, <2>3, <2>5 DEF Change
  <2>7. ~ t.named => t.pay.currency = pay.currency
    BY NoChangeTyped DEF CurrencyOf, Change
  <2> QED BY <2>1, <2>6, <2>7, BeginPayInv
<1> QED BY <1>1, <1>2, Zenon DEF RequestChange

\* A request that ends without a write.
LEMMA EndPayInv ==
  ASSUME PayInv, NEW c \in Requests,
         change' = [change EXCEPT ![c] = NoChange],
         UNCHANGED <<standing, pay, ledger, today, admitted, asked, lost>>,
         astray' = (astray \/ change[c].pc = "record")
  PROVE  PayInv'
<1> USE DEF PayInv
<1>1. change \in [Requests -> Change] /\ admitted \in 0 .. MaxRequests /\ MaxRequests \in Nat
      /\ astray \in BOOLEAN
  BY SalariesAssumption DEF PayTypeOK
<1>2. PayTypeOK'
  <2>1. astray' \in BOOLEAN
    BY Zenon
  <2>2. change' \in [Requests -> Change]
    BY <1>1, NoChangeTyped
  <2> QED BY <2>1, <2>2 DEF PayTypeOK
<1>3. PayCounted'
  <2>1. Busy' = Busy \ {c}
    BY <1>1, NoChangeTyped DEF Busy
  <2>2. /\ IsFiniteSet(Busy') /\ Cardinality(Busy') <= Cardinality(Busy)
        /\ Cardinality(Busy') \in Nat /\ Cardinality(Busy) \in Nat /\ Cardinality(ledger) \in Nat
    BY <2>1, FS_Subset, FS_CardinalityType DEF PayCounted
  <2> QED BY <1>1, <2>2 DEF PayCounted
<1>4. Recording' = Recording \ {c}
  BY <1>1, NoChangeTyped DEF Recording
<1>5. ASSUME NEW d \in Requests PROVE PayKnown(d)'
  BY <1>1, <1>4, NoChangeTyped DEF PayKnown
<1>6. LatestIsCurrent'
  <2>1. CASE c \in Recording
    <3>1. astray'
      BY <2>1, Zenon DEF Recording
    <3> QED BY <3>1 DEF LatestIsCurrent
  <2>2. CASE c \notin Recording
    <3>1. astray => astray'
      BY Zenon
    <3>2. Recording' = Recording
      BY <2>2, <1>4
    <3> QED BY <3>1, <3>2 DEF LatestIsCurrent, Latest
  <2> QED BY <2>1, <2>2
<1>7. CurrencyIsKept'
  BY DEF CurrencyIsKept
<1> QED BY <1>2, <1>3, <1>5, <1>6, <1>7

LEMMA InsertPayInv ==
  ASSUME PayInv, NEW c \in Requests, InsertEmployee(c)
  PROVE  PayInv'
<1> USE DEF PayInv
<1> DEFINE t == change[c]
<1>1. /\ t.pc = "create" /\ standing = "none" /\ standing' = "active"
      /\ pay' = t.pay /\ asked' = t.pay.currency
      /\ change' = [change EXCEPT ![c].pc = "record"]
      /\ UNCHANGED <<ledger, today, admitted, lost, astray>>
  BY DEF InsertEmployee
<1>2. change \in [Requests -> Change] /\ t \in Change /\ t.pay \in Pays
  BY DEF PayTypeOK, Change
<1>3. ASSUME NEW d \in Requests, d # c PROVE change[d].pc \in {"idle", "create"}
  BY <1>1 DEF PayKnown
<1>4. change' \in [Requests -> Change] /\ t.pay.currency \in Currencies
  BY <1>1, <1>2 DEF Change, Pays
<1>5. PayTypeOK'
  BY <1>1, <1>2, <1>4 DEF PayTypeOK
<1>6. PayCounted'
  <2>1. Busy' = Busy
    BY <1>1, <1>2 DEF Busy, Change
  <2> QED BY <1>1, <2>1 DEF PayCounted
<1>7. Recording' = {c}
  BY <1>1, <1>2, <1>3 DEF Recording, Change
<1>8. ASSUME NEW d \in Requests PROVE PayKnown(d)'
  BY <1>1, <1>2, <1>3, <1>7 DEF PayKnown, Change
<1>9. LatestIsCurrent' /\ CurrencyIsKept'
  BY <1>1, <1>7 DEF LatestIsCurrent, CurrencyIsKept
<1> QED BY <1>5, <1>6, <1>8, <1>9

LEMMA WritePayInv ==
  ASSUME PayInv, NEW c \in Requests, WritePay(c)
  PROVE  PayInv'
<1> USE DEF PayInv
<1> DEFINE t == change[c]
           then == [t EXCEPT !.pc = "record", !.overlapped = (Recording # {})]
<1>1. /\ t.pc = "update" /\ pay' = t.pay
      /\ asked' = IF t.named THEN t.pay.currency ELSE asked
      /\ change' = Outdate(c, then)
      /\ UNCHANGED <<standing, ledger, today, admitted>>
  BY DEF WritePay
<1>2. change \in [Requests -> Change] /\ t \in Change /\ t.pay \in Pays
  BY DEF PayTypeOK, Change
<1>3. standing # "none"
  BY <1>1 DEF PayKnown
<1>4. then \in Change /\ then.pc = "record"
  BY <1>2 DEF Change
<1>5. ASSUME NEW d \in Requests, d # c
      PROVE  /\ change'[d] \in Change
             /\ change'[d].pc = change[d].pc /\ change'[d].pay = change[d].pay
             /\ change'[d].named = change[d].named
             /\ change[d].pc = "update" => change'[d].outdated
             /\ change[d].pc = "record" => change'[d].overlapped
             /\ change[d] = NoChange => change'[d] = NoChange
  <2>1. change'[d] = [change[d] EXCEPT
                         !.outdated = (change[d].outdated \/ change[d].pc = "update"),
                         !.overlapped = (change[d].overlapped \/ change[d].pc = "record")]
    BY <1>1, <1>5 DEF Outdate
  <2>2. change[d] \in Change
    BY <1>2
  <2>3. (change[d].outdated \/ change[d].pc = "update") \in BOOLEAN
    BY Zenon
  <2>4. (change[d].overlapped \/ change[d].pc = "record") \in BOOLEAN
    BY Zenon
  <2>5. /\ change'[d] \in Change
        /\ change'[d].pc = change[d].pc /\ change'[d].pay = change[d].pay
        /\ change'[d].named = change[d].named
        /\ change'[d].outdated = (change[d].outdated \/ change[d].pc = "update")
        /\ change'[d].overlapped = (change[d].overlapped \/ change[d].pc = "record")
    BY <2>1, <2>2, <2>3, <2>4 DEF Change
  <2>6. ASSUME change[d] = NoChange PROVE change'[d] = NoChange
    <3>1. change[d].pc = "idle" /\ change[d].outdated = FALSE /\ change[d].overlapped = FALSE
      BY <2>6, NoChangeTyped
    <3>2. (change[d].outdated \/ change[d].pc = "update") = FALSE
      BY <3>1
    <3>3. (change[d].overlapped \/ change[d].pc = "record") = FALSE
      BY <3>1
    <3>4. change'[d] = [change[d] EXCEPT !.outdated = FALSE, !.overlapped = FALSE]
      BY <2>1, <3>2, <3>3, Zenon
    <3> QED BY <2>2, <2>6, <3>1, <3>4 DEF Change
  <2> QED BY <2>5, <2>6
<1>6. change'[c] = then /\ change' \in [Requests -> Change]
  BY <1>1, <1>4, <1>5 DEF Outdate
<1>7. PayTypeOK'
  <2>1. lost' \in BOOLEAN /\ astray' \in BOOLEAN
    BY Zenon DEF WritePay, PayTypeOK
  <2>2. asked' \in Currencies \cup {Unset}
    BY <1>1, <1>2 DEF PayTypeOK, Pays
  <2> QED BY <1>1, <1>2, <1>6, <2>1, <2>2 DEF PayTypeOK
<1>8. PayCounted'
  <2>1. ASSUME NEW d \in Requests PROVE change'[d].pc # "idle" <=> change[d].pc # "idle"
    <3>1. CASE d = c
      <4>1. change'[c].pc = "record" /\ change[c].pc = "update"
        BY <1>1, <1>4, <1>6
      <4> QED BY <3>1, <4>1
    <3>2. CASE d # c
      BY <1>5, <3>2
    <3> QED BY <3>1, <3>2
  <2>2. Busy' = Busy
    BY <2>1 DEF Busy
  <2> QED BY <1>1, <2>2 DEF PayCounted
<1>9. Recording' = Recording \cup {c}
  BY <1>4, <1>5, <1>6 DEF Recording
<1>10. ASSUME NEW d \in Requests PROVE PayKnown(d)'
  <2>1. CASE d = c
    <3>1. then.pay = pay' /\ then.overlapped = (Recording # {})
      BY <1>1, <1>2 DEF Change
    <3>2. ~ then.overlapped => Recording' = {c}
      <4>1. ~ then.overlapped => Recording = {}
        BY <3>1, Zenon
      <4> QED BY <4>1, <1>9
    <3>3. /\ change'[c].pc = "record" /\ change'[c].pay = pay' /\ standing' # "none"
          /\ ~ change'[c].overlapped => Recording' = {c}
      BY <1>1, <1>3, <1>4, <1>6, <3>1, <3>2
    <3> QED BY <2>1, <3>3 DEF PayKnown
  <2>2. CASE d # c
    <3>1. PayKnown(d)
      OBVIOUS
    <3>2. change'[d].pc = "idle" => change'[d] = NoChange
      BY <1>5, <2>2, <3>1 DEF PayKnown
    <3>3. change'[d].pc = "update" => change'[d].outdated
      BY <1>5, <2>2
    <3>4. change'[d].pc = "record" => change'[d].overlapped
      BY <1>5, <2>2
    <3>5. standing' # "none"
      BY <1>1, <1>3
    <3> QED BY <3>2, <3>3, <3>4, <3>5, Zenon DEF PayKnown
  <2> QED BY <2>1, <2>2
<1>11. LatestIsCurrent'
  BY <1>9 DEF LatestIsCurrent
<1>12. CurrencyIsKept'
  <2>1. CASE t.named
    BY <1>1, <2>1 DEF CurrencyIsKept
  <2>2. CASE ~ t.named
    <3>1. asked' = asked /\ (t.outdated \/ t.pay.currency = pay.currency)
      BY <1>1, <2>2 DEF PayKnown
    <3>2. lost' = (lost \/ t.outdated)
      BY <2>2, Zenon DEF WritePay
    <3>3. lost \/ t.outdated => lost'
      BY <3>2, Zenon
    <3> QED BY <1>1, <1>3, <3>1, <3>3 DEF CurrencyIsKept
  <2> QED BY <2>1, <2>2
<1> QED BY <1>7, <1>8, <1>10, <1>11, <1>12

LEMMA RecordPayInv ==
  ASSUME PayInv, NEW c \in Requests, Record(c)
  PROVE  PayInv'
<1> USE DEF PayInv
<1> DEFINE t == change[c]
           newest == \A x \in ledger : x.effective < t.effective
           entry == [id |-> Cardinality(ledger) + 1, pay |-> t.pay, effective |-> t.effective]
<1>1. /\ t.pc = "record" /\ ledger' = ledger \cup {entry}
      /\ change' = [change EXCEPT ![c] = NoChange]
      /\ UNCHANGED <<standing, pay, today, admitted, asked, lost>>
  BY DEF Record, row
<1>13. astray' = IF newest /\ ~ t.overlapped THEN FALSE ELSE TRUE
  BY Zenon DEF Record
<1> HIDE DEF entry
<1>2. change \in [Requests -> Change] /\ t \in Change /\ t.pay \in Pays
      /\ t.effective \in Days
  BY DEF PayTypeOK, Change
<1>3. Busy' = Busy \ {c} /\ c \in Busy
  BY <1>1, <1>2, NoChangeTyped DEF Busy
<1>4. /\ IsFiniteSet(Busy') /\ Cardinality(Busy') = Cardinality(Busy) - 1
      /\ Cardinality(Busy) \in Nat /\ Cardinality(Busy') \in Nat /\ Cardinality(ledger) \in Nat
  BY <1>3, FS_RemoveElement, FS_CardinalityType DEF PayCounted
<1>5. /\ IsFiniteSet(ledger') /\ Cardinality(ledger') <= Cardinality(ledger) + 1
      /\ Cardinality(ledger') \in Nat
  <2>1. IsFiniteSet(ledger)
    BY DEF PayCounted
  <2>2. /\ IsFiniteSet(ledger \cup {entry})
        /\ Cardinality(ledger \cup {entry}) =
             IF entry \in ledger THEN Cardinality(ledger) ELSE Cardinality(ledger) + 1
    BY <2>1, FS_AddElement
  <2> QED BY <1>1, <1>4, <2>2
<1>6. admitted \in 0 .. MaxRequests /\ MaxRequests \in Nat
  BY SalariesAssumption DEF PayTypeOK
<1>7. PayCounted'
  BY <1>1, <1>4, <1>5, <1>6 DEF PayCounted
<1>8. PayTypeOK'
  <2>1. Cardinality(ledger) + 1 \in 1 .. MaxRequests
    BY <1>4, <1>6 DEF PayCounted
  <2>2. ledger' \subseteq Entries
    BY <1>1, <1>2, <2>1 DEF entry, PayTypeOK, Entries
  <2>3. astray' \in BOOLEAN
    BY <1>13, Zenon
  <2>4. change' \in [Requests -> Change]
    BY <1>1, <1>2, NoChangeTyped
  <2> QED BY <1>1, <2>2, <2>3, <2>4 DEF PayTypeOK
<1>9. Recording' = Recording \ {c}
  BY <1>1, <1>2, NoChangeTyped DEF Recording
<1>10. ASSUME NEW d \in Requests PROVE PayKnown(d)'
  BY <1>1, <1>2, <1>9, NoChangeTyped DEF PayKnown
<1>11. LatestIsCurrent'
  <2>1. CASE newest /\ ~ t.overlapped
    <3>1. t.pay = pay
      BY <1>1, <2>1 DEF PayKnown
    <3>2. \A x \in ledger : x.effective \in Nat /\ t.effective \in Nat
      BY <1>2, SalariesAssumption DEF PayTypeOK, Entries, Days
    <3>3. entry.effective = t.effective /\ entry.pay = t.pay /\ t.effective \in Nat
      BY <1>2, SalariesAssumption DEF entry, Days
    <3>4. Latest(ledger') = {entry}
      BY <1>1, <2>1, <3>2, <3>3 DEF Latest
    <3>5. {x.pay : x \in Latest(ledger')} = {pay}
      BY <3>1, <3>3, <3>4
    <3> QED BY <1>1, <3>5 DEF LatestIsCurrent, Latest
  <2>2. CASE ~ (newest /\ ~ t.overlapped)
    <3>1. astray' = TRUE
      BY <1>13, <2>2, Zenon
    <3> QED BY <3>1 DEF LatestIsCurrent
  <2> QED BY <2>1, <2>2
<1>12. CurrencyIsKept'
  BY <1>1 DEF CurrencyIsKept
<1> QED BY <1>7, <1>8, <1>10, <1>11, <1>12

LEMMA NextPayInv ==
  ASSUME PayInv, [PayNext]_payVars
  PROVE  PayInv'
<1>1. ASSUME NEW c \in Requests, RefuseEmployee(c) PROVE PayInv'
  <2>1. /\ change' = [change EXCEPT ![c] = NoChange] /\ change[c].pc = "create"
        /\ UNCHANGED <<standing, pay, ledger, today, admitted, asked, lost, astray>>
    BY <1>1 DEF RefuseEmployee, row
  <2>2. astray' = (astray \/ change[c].pc = "record")
    <3>1. change[c].pc # "record" /\ astray' = astray /\ astray \in BOOLEAN
      BY <2>1 DEF PayInv, PayTypeOK
    <3> QED BY <3>1, Zenon
  <2> QED BY <2>1, <2>2, EndPayInv
<1>2. ASSUME NEW c \in Requests, ChangeDies(c) PROVE PayInv'
  BY <1>2, EndPayInv DEF ChangeDies, row
<1>3. ASSUME NEW c \in Requests, WriteChange(c) PROVE PayInv'
  BY <1>1, <1>3, InsertPayInv, WritePayInv, RecordPayInv DEF WriteChange
<1>4. ASSUME \/ Terminate
             \/ Tomorrow
             \/ UNCHANGED payVars
      PROVE  PayInv'
  <2>1. /\ UNCHANGED <<pay, ledger, change, admitted, asked, lost, astray>>
        /\ standing' = standing \/ (standing = "active" /\ standing' = "terminated")
    BY <1>4 DEF Terminate, Tomorrow, payVars, row
  <2>2. today' \in Days
    BY <1>4, SalariesAssumption DEF Terminate, Tomorrow, payVars, row, Days, PayInv, PayTypeOK
  <2>3. PayTypeOK'
    BY <2>1, <2>2 DEF PayInv, PayTypeOK
  <2>4. PayCounted' /\ Recording' = Recording
    BY <2>1 DEF PayInv, PayCounted, Busy, Recording
  <2>5. ASSUME NEW c \in Requests PROVE PayKnown(c)'
    BY <2>1, <2>4 DEF PayInv, PayKnown
  <2>6. LatestIsCurrent' /\ CurrencyIsKept'
    BY <2>1, <2>4 DEF PayInv, LatestIsCurrent, CurrencyIsKept, Latest
  <2> QED BY <2>3, <2>4, <2>5, <2>6 DEF PayInv
<1> QED BY <1>2, <1>3, <1>4, RequestPayInv, Zenon DEF PayNext

\* The fields of the row, of the requests and of the history have their types; in
\* particular a history never has more rows than requests were admitted.
THEOREM SalariesTypeCorrect == PaySpec => []PayTypeOK
<1>1. PayInit => PayInv
  BY InitPayInv
<1>2. PayInv /\ [PayNext]_payVars => PayInv'
  BY NextPayInv
<1>3. PayInv => PayTypeOK
  BY DEF PayInv
<1> QED BY <1>1, <1>2, <1>3, PTL DEF PaySpec

\* For any number of requests at a time: the entry of salary_history with the
\* greatest effective date has the salary of the employee's row, unless the change
\* was cut short, overlapped with another one, or was not dated after all others
\* (EmployeeService.createEmployee and updateSalary).
THEOREM LatestEntryIsCurrent == PaySpec => []LatestIsCurrent
<1>1. PayInit => PayInv
  BY InitPayInv
<1>2. PayInv /\ [PayNext]_payVars => PayInv'
  BY NextPayInv
<1>3. PayInv => LatestIsCurrent
  BY DEF PayInv
<1> QED BY <1>1, <1>2, <1>3, PTL DEF PaySpec

\* A salary change without a currency keeps the one that was asked for last, unless
\* the change wrote back a currency that an overlapping one had changed.
THEOREM CurrencyKept == PaySpec => []CurrencyIsKept
<1>1. PayInit => PayInv
  BY InitPayInv
<1>2. PayInv /\ [PayNext]_payVars => PayInv'
  BY NextPayInv
<1>3. PayInv => CurrencyIsKept
  BY DEF PayInv
<1> QED BY <1>1, <1>2, <1>3, PTL DEF PaySpec
=============================================================================
