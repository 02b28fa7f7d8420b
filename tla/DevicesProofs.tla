--------------------------- MODULE DevicesProofs ---------------------------
(***************************************************************************)
(* Proofs about Devices, for any number of employees, devices, requests    *)
(* and any limit.  The invariant says, for each request, what the reading  *)
(* it relies on still guarantees as long as no write has outdated it.      *)
(***************************************************************************)
EXTENDS Devices, FiniteSetTheorems, TLAPS

USE DevicesAssumption

\* A request works on a row, and copies a token only into a row that exists.
ShapeInv ==
  \A b \in Callers :
    /\ task[b].pc # "idle" => task[b].row \in Rows
    /\ task[b].copied => task[b].pc = "reactivate"
    /\ task[b].pc = "reactivate" => row[task[b].row] # "absent"

\* The request b may still insert a row: the unique index will not refuse it.
MayInsert(b) == row[task[b].row] = "absent"

CountRaced(e) == \E r \in raced["count"] : EmpOf(r) = e

\* A request that has counted leaves room for its row.
LimitInv ==
  /\ LimitHeld
  /\ \A b \in Callers, e \in Emps :
       task[b].pc = "insert" /\ MayInsert(b) /\ EmpOf(task[b].row) = e =>
         \/ "count" \in task[b].outdated
         \/ CountRaced(e)
         \/ Cardinality(ActiveOf(e) \ reopened) < MaxDevices

\* A request that has looked for other owners of its device knows them all.
OwnerInv ==
  /\ OneOwner
  /\ \A b \in Callers, d \in Phones :
       task[b].pc \in {"count", "insert"} /\ MayInsert(b) /\ PhoneOf(task[b].row) = d =>
         \/ "owner" \in task[b].outdated
         \/ Misled(d)
         \/ \A s \in Active : PhoneOf(s) = d => s \in reopened

\* The device d may have had two owners when its use was written.
Mixed(d) == Misled(d) \/ (reopened \cup raced["use"]) \cap OfPhone(d) # {}

\* A request about to record a use knows the one row that is active.
UseInv ==
  /\ UseIsAttributed
  /\ \A b \in Callers, d \in Phones : task[b].pc = "touch" /\ PhoneOf(task[b].row) = d =>
       /\ task[b].row \in checked
       /\ \/ "use" \in task[b].outdated
          \/ Mixed(d)
          \/ \A s \in Active : PhoneOf(s) = d => s = task[b].row

\* A copied token is the latest one.
TokenInv ==
  /\ TokenIsLatest
  /\ \A b \in Callers : task[b].pc = "reactivate" /\ task[b].copied =>
       \/ "token" \in task[b].outdated
       \/ task[b].row \in raced["token"]
       \/ task[b].token = latest[task[b].row]

Inv == TypeOK /\ ShapeInv /\ LimitInv /\ OwnerInv /\ UseInv /\ TokenInv

LEMMA InitInv == Init => Inv
<1> SUFFICES ASSUME Init PROVE Inv
  OBVIOUS
<1>1. TypeOK
  BY DEF Init, TypeOK, Idle, Task, Steps, Readings
<1>2. ShapeInv
  BY DEF Init, ShapeInv, Idle
<1>3. Active = {}
  BY DEF Init, Active
<1>4. \A e \in Emps : ActiveOf(e) \ reopened = {}
  BY <1>3 DEF ActiveOf
<1>5. LimitInv
  <2>1. Cardinality({}) <= MaxDevices
    BY FS_EmptySet
  <2>2. LimitHeld
    BY <1>4, <2>1 DEF LimitHeld
  <2> QED BY <2>2 DEF Init, LimitInv, Idle
<1>6. OwnerInv /\ UseInv /\ TokenInv
  BY <1>3 DEF Init, OwnerInv, OneOwner, UseInv, UseIsAttributed, TokenInv, TokenIsLatest,
     Idle, Readings
<1> QED BY <1>1, <1>2, <1>5, <1>6 DEF Inv

-----------------------------------------------------------------------------
(***************************************************************************)
(* What the steps have in common.                                          *)
(***************************************************************************)

\* Any set of rows is finite, and has no more elements than a set it lies in.
LEMMA Smaller ==
  ASSUME NEW S \in SUBSET Rows, NEW T \in SUBSET S
  PROVE  Cardinality(T) \in Nat /\ Cardinality(S) \in Nat /\ Cardinality(T) <= Cardinality(S)
<1>1. IsFiniteSet(S)
  BY FS_Subset
<1>2. IsFiniteSet(T) /\ Cardinality(T) <= Cardinality(S)
  BY <1>1, FS_Subset
<1> QED BY <1>1, <1>2, FS_CardinalityType

LEMMA OneMore ==
  ASSUME NEW S \in SUBSET Rows, NEW T \in SUBSET Rows, NEW r, T \subseteq S \cup {r}
  PROVE  Cardinality(S) \in Nat /\ Cardinality(T) \in Nat
         /\ Cardinality(T) <= Cardinality(S) + 1
<1>1. IsFiniteSet(S)
  BY FS_Subset
<1>2. IsFiniteSet(S \cup {r}) /\ Cardinality(S \cup {r}) <= Cardinality(S) + 1
  <2>1. Cardinality(S) \in Nat
    BY <1>1, FS_CardinalityType
  <2>2. Cardinality(S \cup {r}) \in {Cardinality(S), Cardinality(S) + 1}
    BY <1>1, FS_AddElement
  <2>3. IsFiniteSet(S \cup {r})
    BY <1>1, FS_AddElement
  <2> QED BY <2>1, <2>2, <2>3
<1>3. Cardinality(T) <= Cardinality(S \cup {r}) /\ IsFiniteSet(T)
  BY <1>2, FS_Subset
<1> QED BY <1>1, <1>2, <1>3, FS_CardinalityType

\* A write ends its own request and leaves the others where they are.
LEMMA CommitTask ==
  ASSUME TypeOK, NEW c \in Callers, NEW pc, Commit(c, pc)
  PROVE  /\ task'[c] = Idle
         /\ \A b \in Callers \ {c} :
              /\ task'[b].pc = task[b].pc /\ task'[b].row = task[b].row
              /\ task'[b].token = task[b].token /\ task'[b].copied = task[b].copied
              /\ task'[b].outdated = task[b].outdated \cup Overtakes(c, task[b])
         /\ task' \in [Callers -> Task]
<1>1. \A k \in Task : Overtakes(c, k) \subseteq Readings
  BY DEF Overtakes
<1>2. \A b \in Callers : task[b] \in Task
  BY DEF TypeOK
<1>3. \A k \in Task : [k EXCEPT !.outdated = @ \cup Overtakes(c, k)] \in Task
  BY <1>1 DEF Task
<1>4. Idle \in Task
  BY DEF Idle, Task, Steps
<1>5. \A b \in Callers : task'[b] = IF b = c THEN Idle
         ELSE [task[b] EXCEPT !.outdated = @ \cup Overtakes(c, task[b])]
  BY DEF Commit
<1>6. task' \in [Callers -> Task]
  BY <1>2, <1>3, <1>4 DEF Commit
<1> QED BY <1>2, <1>5, <1>6 DEF Task

LEMMA CommitRaced ==
  ASSUME TypeOK, NEW c \in Callers, NEW pc, Commit(c, pc), task[c].row \in Rows
  PROVE  /\ raced' \in [Readings -> SUBSET Rows]
         /\ \A k \in Readings : raced[k] \subseteq raced'[k]
         /\ \A k \in Readings : k \in task[c].outdated => task[c].row \in raced'[k]
         /\ \A k \in Readings : k \notin task[c].outdated => raced'[k] = raced[k]
BY DEF Commit, TypeOK

-----------------------------------------------------------------------------
(***************************************************************************)
(* Types and shapes.                                                       *)
(***************************************************************************)
LEMMA BeginTypes ==
  ASSUME TypeOK, NEW c \in Callers, NEW pc \in Steps, NEW r \in Rows,
         NEW t \in Fcm \cup {None}, NEW copied \in BOOLEAN, Begin(c, pc, r, t, copied)
  PROVE  task' \in [Callers -> Task]
BY DEF Begin, TypeOK, Task

LEMMA TypeStep ==
  ASSUME TypeOK, ShapeInv, [Next]_vars
  PROVE  TypeOK'
<1> USE DEF table, history
<1>1. ASSUME NEW c \in Callers, Request(c) PROVE TypeOK'
  <2> PICK r \in Rows :
        \/ \E t \in Fcm \cup {None} :
             \/ RegisterNew(c, r, t) \/ RegisterAgain(c, r, t) \/ RegisterBack(c, r, t)
             \/ UpdateFcmToken(c, r, t)
        \/ DeactivateDevice(c, r)
        \/ ValidateDevice(c, r)
    BY <1>1 DEF Request
  <2>1. fcm[r] \in Fcm \cup {None}
    BY DEF TypeOK
  <2>2. task' \in [Callers -> Task]
    BY <2>1, BeginTypes DEF RegisterNew, RegisterAgain, RegisterBack, UpdateFcmToken,
       DeactivateDevice, ValidateDevice, Steps
  <2> QED BY <2>2 DEF TypeOK, Begin, RegisterNew, RegisterAgain, RegisterBack,
     UpdateFcmToken, DeactivateDevice, ValidateDevice
<1>2. ASSUME NEW c \in Callers, Check(c) \/ Dies(c) PROVE TypeOK'
  <2>1. \A k \in Task : Idle \in Task /\ [k EXCEPT !.pc = "count"] \in Task
                        /\ [k EXCEPT !.pc = "insert"] \in Task
    BY DEF Task, Idle, Steps
  <2>2. task' \in [Callers -> Task]
    <3> DEFINE k == task[c]
    <3>1. /\ k \in Task
          /\ \/ task' = [task EXCEPT ![c] = Idle]
             \/ task' = [task EXCEPT ![c] = [k EXCEPT !.pc = "count"]]
             \/ task' = [task EXCEPT ![c] = [k EXCEPT !.pc = "insert"]]
      BY <1>2 DEF TypeOK, Check, PassOwner, RefuseOwner, PassCount, RefuseCount,
         RefuseInsert, Dies
    <3> QED BY <2>1, <3>1 DEF TypeOK
  <2>3. task[c].pc = "owner" => PhoneOf(task[c].row) \in Phones
    BY DEF ShapeInv, PhoneOf
  <2>4. overlooked' \subseteq Phones
    BY <1>2, <2>3 DEF TypeOK, Check, PassOwner, RefuseOwner, PassCount, RefuseCount,
       RefuseInsert, Dies
  <2> QED BY <1>2, <2>2, <2>4 DEF TypeOK, Check, PassOwner, RefuseOwner, PassCount,
     RefuseCount, RefuseInsert, Dies
<1>3. ASSUME NEW c \in Callers, Write(c) PROVE TypeOK'
  <2>1. PICK pc \in Steps \ {"idle"} : Commit(c, pc)
    BY <1>3 DEF Write, Insert, Reactivate, RefreshToken, WriteInactive, TouchLastUsed, Steps
  <2>2. task[c].pc # "idle" /\ task[c].row \in Rows /\ task[c].token \in Fcm \cup {None}
    BY <2>1 DEF Commit, ShapeInv, TypeOK, Task
  <2>3. task' \in [Callers -> Task] /\ raced' \in [Readings -> SUBSET Rows]
    BY <2>1, <2>2, CommitTask, CommitRaced
  <2>4. UNCHANGED <<checked, overlooked>>
    BY <2>1 DEF Commit
  <2>5. row' \in [Rows -> {"absent", "active", "inactive"}]
    BY <1>3, <2>2 DEF TypeOK, Write, Insert, Reactivate, RefreshToken, WriteInactive,
       TouchLastUsed
  <2>6. fcm' \in [Rows -> Fcm \cup {None}] /\ latest' \in [Rows -> Fcm \cup {None}]
    BY <1>3, <2>2 DEF TypeOK, Write, Insert, Reactivate, RefreshToken, WriteInactive,
       TouchLastUsed, WriteToken
  <2>7. used' \subseteq Rows /\ reopened' \subseteq Rows
    BY <1>3, <2>2 DEF TypeOK, Write, Insert, Reactivate, RefreshToken, WriteInactive,
       TouchLastUsed, Active
  <2> QED BY <2>3, <2>4, <2>5, <2>6, <2>7 DEF TypeOK
<1>4. ASSUME NEW e \in Emps, DeactivateAllForEmployee(e) PROVE TypeOK'
  BY <1>4 DEF TypeOK, DeactivateAllForEmployee
<1>5. CASE UNCHANGED vars
  BY <1>5 DEF vars, TypeOK
<1> QED BY <1>1, <1>2, <1>3, <1>4, <1>5 DEF Next

\* A row that exists never goes away.
LEMMA RowsStay ==
  ASSUME TypeOK, [Next]_vars, NEW r \in Rows, row[r] # "absent"
  PROVE  row'[r] # "absent"
<1> USE DEF table, history, TypeOK
<1>1. ASSUME NEW c \in Callers, Request(c) \/ Check(c) \/ Dies(c) PROVE row' = row
  BY <1>1 DEF Request, RegisterNew, RegisterAgain, RegisterBack, UpdateFcmToken, Begin,
     DeactivateDevice, ValidateDevice, Check, PassOwner, RefuseOwner, PassCount, RefuseCount,
     RefuseInsert, Dies
<1>2. ASSUME NEW c \in Callers, Write(c) PROVE row'[r] # "absent"
  BY <1>2 DEF Write, Insert, Reactivate, RefreshToken, WriteInactive, TouchLastUsed
<1>3. ASSUME NEW e \in Emps, DeactivateAllForEmployee(e) PROVE row'[r] # "absent"
  BY <1>3 DEF DeactivateAllForEmployee
<1> QED BY <1>1, <1>2, <1>3 DEF Next, vars

-----------------------------------------------------------------------------
(***************************************************************************)
(* How a step changes a request, the history and the active devices.       *)
(***************************************************************************)

\* The request b stays where it is, up to its outdated readings.
Kept(b) ==
  /\ task'[b].pc = task[b].pc /\ task'[b].row = task[b].row
  /\ task'[b].token = task[b].token /\ task'[b].copied = task[b].copied
  /\ task[b].outdated \subseteq task'[b].outdated

\* Or it ends, passes a check, or begins.
LEMMA Origin ==
  ASSUME TypeOK, [Next]_vars, NEW b \in Callers
  PROVE  Kept(b) \/ task'[b] = Idle \/ PassOwner(b) \/ PassCount(b) \/ Request(b)
<1>1. ASSUME NEW c \in Callers, Request(c) \/ Check(c) \/ Dies(c), c # b
      PROVE  task'[b] = task[b]
  BY <1>1 DEF TypeOK, Request, RegisterNew, RegisterAgain, RegisterBack, UpdateFcmToken, Begin,
     DeactivateDevice, ValidateDevice, Check, PassOwner, RefuseOwner, PassCount, RefuseCount,
     RefuseInsert, Dies
<1>2. Check(b) \/ Dies(b) => task'[b] = Idle \/ PassOwner(b) \/ PassCount(b)
  BY DEF TypeOK, Check, RefuseOwner, RefuseCount, RefuseInsert, Dies
<1>3. ASSUME NEW c \in Callers, Write(c) PROVE Kept(b) \/ task'[b] = Idle
  <2>1. PICK pc \in Steps : Commit(c, pc)
    BY <1>3 DEF Write, Insert, Reactivate, RefreshToken, WriteInactive, TouchLastUsed, Steps
  <2> QED BY <2>1, CommitTask DEF Kept
<1>4. ASSUME NEW e \in Emps, DeactivateAllForEmployee(e) PROVE Kept(b)
  BY <1>4 DEF DeactivateAllForEmployee, Kept
<1>5. UNCHANGED vars => Kept(b)
  BY DEF vars, Kept
<1> QED BY <1>1, <1>2, <1>3, <1>4, <1>5 DEF Next, Kept

\* A request begins with one of these steps, on its row, and writes nothing.
LEMMA RequestBegins ==
  ASSUME TypeOK, NEW b \in Callers, Request(b)
  PROVE  /\ task'[b].pc \in {"owner", "reactivate", "refresh", "off", "touch"}
         /\ task'[b].row \in Rows
         /\ task'[b].pc = "touch" =>
              /\ row[task'[b].row] = "active" /\ task'[b].row \in checked'
         /\ task'[b].pc = "reactivate" /\ task'[b].copied => task'[b].token = fcm[task'[b].row]
         /\ UNCHANGED <<table, reopened, overlooked, raced, latest>>
<1> PICK r \in Rows :
      \/ \E t \in Fcm \cup {None} :
           \/ RegisterNew(b, r, t) \/ RegisterAgain(b, r, t) \/ RegisterBack(b, r, t)
           \/ UpdateFcmToken(b, r, t)
      \/ DeactivateDevice(b, r)
      \/ ValidateDevice(b, r)
  BY DEF Request
<1>1. ASSUME NEW pc, NEW t, NEW copied, Begin(b, pc, r, t, copied)
      PROVE  /\ task'[b].pc = pc /\ task'[b].row = r /\ task'[b].token = t
             /\ task'[b].copied = copied /\ UNCHANGED table
  BY <1>1 DEF TypeOK, Begin
<1>2. ASSUME NEW t, RegisterNew(b, r, t) \/ RegisterAgain(b, r, t) \/ UpdateFcmToken(b, r, t)
      PROVE  /\ task'[b].pc \in {"owner", "refresh"} /\ task'[b].row = r
             /\ UNCHANGED <<table, history>>
  BY <1>1, <1>2 DEF RegisterNew, RegisterAgain, UpdateFcmToken
<1>3. ASSUME NEW t, RegisterBack(b, r, t)
      PROVE  /\ task'[b].pc = "reactivate" /\ task'[b].row = r /\ UNCHANGED <<table, history>>
             /\ task'[b].copied => task'[b].token = fcm[r]
  <2>1. /\ task'[b].pc = "reactivate" /\ task'[b].row = r /\ UNCHANGED <<table, history>>
        /\ task'[b].token = (IF t = None THEN fcm[r] ELSE t) /\ task'[b].copied = (t = None)
    BY <1>1, <1>3 DEF RegisterBack
  <2> QED BY <2>1
<1>4. ASSUME DeactivateDevice(b, r)
      PROVE  task'[b].pc = "off" /\ task'[b].row = r /\ UNCHANGED <<table, history>>
  BY <1>1, <1>4 DEF DeactivateDevice
<1>5. ASSUME ValidateDevice(b, r)
      PROVE  /\ task'[b].pc = "touch" /\ task'[b].row = r /\ row[r] = "active"
             /\ r \in checked' /\ UNCHANGED <<table, reopened, overlooked, raced, latest>>
  BY <1>1, <1>5 DEF ValidateDevice
<1> QED BY <1>2, <1>3, <1>4, <1>5 DEF history

\* The history only grows.
LEMMA Grows ==
  ASSUME TypeOK, ShapeInv, [Next]_vars
  PROVE  /\ reopened \subseteq reopened' /\ overlooked \subseteq overlooked'
         /\ checked \subseteq checked' /\ \A k \in Readings : raced[k] \subseteq raced'[k]
<1> USE DEF history, table
<1>1. ASSUME NEW c \in Callers, Request(c) \/ Check(c) \/ Dies(c)
      PROVE  /\ UNCHANGED <<reopened, raced>> /\ overlooked \subseteq overlooked'
             /\ checked \subseteq checked'
  BY <1>1 DEF Request, RegisterNew, RegisterAgain, RegisterBack, UpdateFcmToken, Begin,
     DeactivateDevice, ValidateDevice, Check, PassOwner, RefuseOwner, PassCount, RefuseCount,
     RefuseInsert, Dies
<1>2. ASSUME NEW c \in Callers, Write(c)
      PROVE  /\ reopened \subseteq reopened' /\ UNCHANGED <<overlooked, checked>>
             /\ \A k \in Readings : raced[k] \subseteq raced'[k]
  <2>1. PICK pc \in Steps \ {"idle"} : Commit(c, pc)
    BY <1>2 DEF Write, Insert, Reactivate, RefreshToken, WriteInactive, TouchLastUsed, Steps
  <2>2. task[c].row \in Rows
    BY <2>1 DEF Commit, ShapeInv
  <2>3. UNCHANGED <<overlooked, checked>> /\ \A k \in Readings : raced[k] \subseteq raced'[k]
    BY <2>1, <2>2, CommitRaced DEF Commit
  <2> QED BY <1>2, <2>3 DEF Write, Insert, Reactivate, RefreshToken, WriteInactive,
     TouchLastUsed
<1> QED BY <1>1, <1>2 DEF Next, vars, DeactivateAllForEmployee

\* Only an insert adds an active row that was not reactivated, and only its own.
LEMMA ActiveGrows ==
  ASSUME TypeOK, ShapeInv, [Next]_vars, NEW s \in Active',
         s \notin Active \/ s \in reopened, s \notin reopened'
  PROVE  \E c \in Callers : Insert(c) /\ task[c].row = s
<1> USE DEF history, table
<1>1. s \in Rows /\ row'[s] = "active"
  BY DEF Active
<1>2. s \notin reopened /\ row[s] # "active"
  BY <1>1, Grows DEF Active
<1>3. ASSUME NEW c \in Callers, Request(c) \/ Check(c) \/ Dies(c) PROVE row' = row
  BY <1>3 DEF Request, RegisterNew, RegisterAgain, RegisterBack, UpdateFcmToken, Begin,
     DeactivateDevice, ValidateDevice, Check, PassOwner, RefuseOwner, PassCount, RefuseCount,
     RefuseInsert, Dies
<1>4. ASSUME NEW c \in Callers, Write(c) PROVE Insert(c) /\ task[c].row = s
  BY <1>1, <1>2, <1>4 DEF TypeOK, Write, Insert, Reactivate, RefreshToken, WriteInactive,
     TouchLastUsed
<1>5. ASSUME NEW e \in Emps, DeactivateAllForEmployee(e) PROVE FALSE
  BY <1>1, <1>2, <1>5 DEF TypeOK, DeactivateAllForEmployee
<1> QED BY <1>1, <1>2, <1>3, <1>4, <1>5 DEF Next, vars

LEMMA ShapeStep ==
  ASSUME TypeOK, ShapeInv, [Next]_vars
  PROVE  ShapeInv'
<1> SUFFICES ASSUME NEW b \in Callers
             PROVE  /\ task'[b].pc # "idle" => task'[b].row \in Rows
                    /\ task'[b].copied => task'[b].pc = "reactivate"
                    /\ task'[b].pc = "reactivate" => row'[task'[b].row] # "absent"
  BY DEF ShapeInv
<1>1. Kept(b) => (task'[b].pc # "idle" => task'[b].row \in Rows)
                 /\ (task'[b].copied => task'[b].pc = "reactivate")
                 /\ (task'[b].pc = "reactivate" => row'[task'[b].row] # "absent")
  BY RowsStay DEF Kept, ShapeInv
<1>2. task'[b] = Idle => task'[b].pc = "idle" /\ ~task'[b].copied
  BY DEF Idle
<1>3. PassOwner(b) \/ PassCount(b) => task'[b].pc \in {"count", "insert"}
                                      /\ task'[b].row \in Rows /\ ~task'[b].copied
  BY DEF PassOwner, PassCount, ShapeInv, TypeOK, Task
<1>4. ASSUME Request(b) PROVE (task'[b].pc # "idle" => task'[b].row \in Rows)
                 /\ (task'[b].copied => task'[b].pc = "reactivate")
                 /\ (task'[b].pc = "reactivate" => row'[task'[b].row] # "absent")
  BY <1>4 DEF TypeOK, Request, RegisterNew, RegisterAgain, RegisterBack, UpdateFcmToken, Begin,
     DeactivateDevice, ValidateDevice, table
<1> QED BY <1>1, <1>2, <1>3, <1>4, Origin

-----------------------------------------------------------------------------
(***************************************************************************)
(* The limit.                                                              *)
(***************************************************************************)

\* The readings an insert outdates in another request.
LEMMA InsertOutdates ==
  ASSUME TypeOK, NEW c \in Callers, Insert(c), NEW b \in Callers,
         Kept(b), task'[b].pc # "idle"
  PROVE  /\ b # c
         /\ task[b].row # task[c].row /\ task[b].pc = "insert"
              /\ EmpOf(task[b].row) = EmpOf(task[c].row) => "count" \in task'[b].outdated
         /\ task[b].row # task[c].row /\ task[b].pc \in {"count", "insert"}
              /\ PhoneOf(task[b].row) = PhoneOf(task[c].row) => "owner" \in task'[b].outdated
         /\ task[b].row # task[c].row /\ task[b].pc = "touch"
              /\ PhoneOf(task[b].row) = PhoneOf(task[c].row) => "use" \in task'[b].outdated
<1>1. Commit(c, "insert") /\ task[c].pc = "insert"
  BY DEF Insert, Commit
<1>2. b # c
  BY <1>1, CommitTask DEF Idle
<1>3. task'[b].outdated = task[b].outdated \cup Overtakes(c, task[b])
  BY <1>1, <1>2, CommitTask
<1> QED BY <1>1, <1>2, <1>3 DEF Overtakes, Readings

\* What happens to the devices that count.
LEMMA Counted ==
  ASSUME TypeOK, ShapeInv, [Next]_vars, NEW e \in Emps
  PROVE  LET before == ActiveOf(e) \ reopened
             after == ActiveOf(e)' \ reopened'
         IN  \/ Cardinality(before) \in Nat /\ Cardinality(after) \in Nat
                  /\ Cardinality(after) <= Cardinality(before)
             \/ /\ Cardinality(before) \in Nat /\ Cardinality(after) \in Nat
                /\ Cardinality(after) <= Cardinality(before) + 1
                /\ \E c \in Callers : Insert(c) /\ EmpOf(task[c].row) = e
<1> DEFINE before == ActiveOf(e) \ reopened
           after == ActiveOf(e)' \ reopened'
<1>1. before \subseteq Rows /\ after \subseteq Rows
  BY DEF ActiveOf, Active
<1>2. CASE after \subseteq before
  BY <1>1, <1>2, Smaller
<1>3. CASE ~(after \subseteq before)
  <2>1. PICK s \in after : s \notin before
    BY <1>3
  <2>2. s \in Active' /\ EmpOf(s) = e /\ s \notin reopened' /\ (s \notin Active \/ s \in reopened)
    BY <2>1 DEF ActiveOf
  <2>3. PICK c \in Callers : Insert(c) /\ task[c].row = s
    BY <2>2, ActiveGrows
  <2>4. Active' \subseteq Active \cup {s} /\ reopened' = reopened
    BY <2>3 DEF Insert, Active, TypeOK
  <2>5. after \subseteq before \cup {s}
    BY <2>4 DEF ActiveOf
  <2> HIDE DEF before, after
  <2>6. Cardinality(after) <= Cardinality(before) + 1
        /\ Cardinality(before) \in Nat /\ Cardinality(after) \in Nat
    BY <1>1, <2>5, OneMore
  <2> QED BY <2>2, <2>3, <2>6 DEF before, after
<1> QED BY <1>2, <1>3

LEMMA LimitStep ==
  ASSUME TypeOK, ShapeInv, LimitInv, [Next]_vars
  PROVE  LimitInv'
<1>1. \A e \in Emps : CountRaced(e) => CountRaced(e)'
  BY Grows DEF CountRaced, Readings
<1>2. ASSUME NEW e \in Emps
      PROVE  Cardinality(ActiveOf(e)' \ reopened') <= MaxDevices \/ CountRaced(e)'
  <2>1. Cardinality(ActiveOf(e) \ reopened) <= MaxDevices \/ CountRaced(e)
    BY DEF LimitInv, LimitHeld, CountRaced
  <2>2. ASSUME NEW c \in Callers, Insert(c), EmpOf(task[c].row) = e
        PROVE  Cardinality(ActiveOf(e) \ reopened) < MaxDevices \/ CountRaced(e)'
    <3>1. task[c].pc = "insert" /\ MayInsert(c) /\ Commit(c, "insert") /\ task[c].row \in Rows
      BY <2>2 DEF Insert, Commit, MayInsert, ShapeInv
    <3>2. "count" \in task[c].outdated => CountRaced(e)'
      BY <2>2, <3>1, CommitRaced DEF CountRaced, Readings
    <3> QED BY <1>1, <2>2, <3>1, <3>2 DEF LimitInv
  <2> QED BY <1>1, <2>1, <2>2, Counted DEF DevicesAssumption
<1>3. ASSUME NEW b \in Callers, NEW e \in Emps, task'[b].pc = "insert",
             MayInsert(b)', EmpOf(task'[b].row) = e
      PROVE  \/ "count" \in task'[b].outdated
             \/ CountRaced(e)'
             \/ Cardinality(ActiveOf(e)' \ reopened') < MaxDevices
  <2>1. CASE Kept(b)
    <3>1. MayInsert(b) /\ task[b].row \in Rows /\ task[b].row = task'[b].row
      BY <1>3, <2>1, RowsStay DEF Kept, MayInsert, ShapeInv
    <3>2. \/ "count" \in task[b].outdated \/ CountRaced(e)
          \/ Cardinality(ActiveOf(e) \ reopened) < MaxDevices
      BY <1>3, <2>1, <3>1 DEF LimitInv, Kept
    <3>3. ASSUME NEW c \in Callers, Insert(c), EmpOf(task[c].row) = e
          PROVE  "count" \in task'[b].outdated
      <4>1. row'[task[c].row] = "active"
        BY <3>3 DEF Insert, Commit, TypeOK, ShapeInv
      <4>2. task[b].row # task[c].row
        BY <1>3, <3>1, <4>1 DEF MayInsert
      <4> QED BY <1>3, <2>1, <3>1, <3>3, <4>2, InsertOutdates DEF Kept
    <3>4. CASE \E c \in Callers : Insert(c) /\ EmpOf(task[c].row) = e
      BY <3>3, <3>4
    <3>5. CASE ~\E c \in Callers : Insert(c) /\ EmpOf(task[c].row) = e
      <4>1. /\ Cardinality(ActiveOf(e)' \ reopened') <= Cardinality(ActiveOf(e) \ reopened)
            /\ Cardinality(ActiveOf(e) \ reopened) \in Nat
            /\ Cardinality(ActiveOf(e)' \ reopened') \in Nat
        BY <3>5, Counted
      <4>2. "count" \in task[b].outdated => "count" \in task'[b].outdated
        BY <2>1 DEF Kept
      <4>3. Cardinality(ActiveOf(e) \ reopened) < MaxDevices
              => Cardinality(ActiveOf(e)' \ reopened') < MaxDevices
        BY <4>1
      <4> QED BY <1>1, <3>2, <4>2, <4>3
    <3> QED BY <3>4, <3>5
  <2>2. CASE PassCount(b)
    <3>1. EmpOf(task[b].row) = e /\ UNCHANGED <<row, reopened>>
      BY <1>3, <2>2 DEF PassCount, TypeOK, Task, table, history
    <3>2. Cardinality(ActiveOf(e)) < MaxDevices
      BY <2>2, <3>1 DEF PassCount
    <3>3. ActiveOf(e)' \ reopened' = ActiveOf(e) \ reopened
      BY <3>1 DEF ActiveOf, Active
    <3>4. ActiveOf(e) \subseteq Rows
      BY DEF ActiveOf, Active
    <3>5. Cardinality(ActiveOf(e) \ reopened) <= Cardinality(ActiveOf(e))
          /\ Cardinality(ActiveOf(e)) \in Nat /\ Cardinality(ActiveOf(e) \ reopened) \in Nat
      BY <3>4, Smaller
    <3> QED BY <3>2, <3>3, <3>5 DEF DevicesAssumption
  <2>3. task'[b] # Idle
    BY <1>3 DEF Idle
  <2>4. ~PassOwner(b)
    BY <1>3 DEF TypeOK, PassOwner, Task
  <2>5. ~Request(b)
    BY <1>3, RequestBegins
  <2> QED BY <2>1, <2>2, <2>3, <2>4, <2>5, Origin
<1> QED BY <1>2, <1>3 DEF LimitInv, LimitHeld, CountRaced

-----------------------------------------------------------------------------
(***************************************************************************)
(* The owner and the use of a device.                                      *)
(***************************************************************************)
LEMMA MisledGrows ==
  ASSUME TypeOK, ShapeInv, [Next]_vars, NEW d
  PROVE  (Misled(d) => Misled(d)') /\ (Mixed(d) => Mixed(d)')
<1>1. raced["owner"] \subseteq raced'["owner"] /\ raced["use"] \subseteq raced'["use"]
  BY Grows DEF Readings
<1> QED BY <1>1, Grows DEF Misled, Mixed, OfPhone

\* The inserted row is active, and an insert raced when its owner reading was outdated.
LEMMA Inserted ==
  ASSUME TypeOK, ShapeInv, NEW c \in Callers, Insert(c)
  PROVE  /\ task[c].row \in Rows /\ row[task[c].row] = "absent" /\ task[c].pc = "insert"
         /\ row'[task[c].row] = "active" /\ Active' = Active \cup {task[c].row}
         /\ reopened' = reopened
         /\ "owner" \in task[c].outdated => task[c].row \in raced'["owner"]
<1>1. Commit(c, "insert") /\ task[c].pc = "insert" /\ task[c].row \in Rows
  BY DEF Insert, Commit, ShapeInv
<1>2. "owner" \in task[c].outdated => task[c].row \in raced'["owner"]
  BY <1>1, CommitRaced DEF Readings
<1> QED BY <1>1, <1>2 DEF Insert, TypeOK, Active

LEMMA OwnerStep ==
  ASSUME TypeOK, ShapeInv, OwnerInv, [Next]_vars
  PROVE  OwnerInv'
<1>1. ASSUME NEW r \in Active', NEW s \in Active', PhoneOf(r) = PhoneOf(s), r # s,
             r \notin reopened', s \notin reopened'
      PROVE  Misled(PhoneOf(r))'
  <2> DEFINE d == PhoneOf(r)
  <2>1. r \in Rows /\ d \in Phones /\ reopened \subseteq reopened'
    BY Grows DEF Active, PhoneOf
  <2>2. ASSUME NEW x \in Active', NEW y \in Active', PhoneOf(x) = d, PhoneOf(y) = d, x # y,
               x \notin reopened', y \notin reopened',
               NEW c \in Callers, Insert(c), task[c].row = x
        PROVE  Misled(d)'
    <3>1. x \in OfPhone(d)
      BY <2>2, Inserted DEF OfPhone
    <3>2. MayInsert(c) /\ task[c].pc = "insert"
      BY <2>2, Inserted DEF MayInsert
    <3>3. y \in Active /\ y \notin reopened
      BY <2>1, <2>2, Inserted
    <3>4. "owner" \in task[c].outdated \/ Misled(d)
      BY <2>1, <2>2, <3>2, <3>3 DEF OwnerInv
    <3>5. "owner" \in task[c].outdated => Misled(d)'
      BY <2>2, <3>1, Inserted DEF Misled, OfPhone
    <3> QED BY <3>4, <3>5, MisledGrows
  <2>3. CASE r \in Active \ reopened /\ s \in Active \ reopened
    <3>1. Misled(d)
      BY <1>1, <2>3 DEF OwnerInv, OneOwner
    <3> QED BY <3>1, MisledGrows
  <2>4. CASE r \notin Active \ reopened
    BY <1>1, <2>2, <2>4, ActiveGrows
  <2>5. CASE s \notin Active \ reopened
    BY <1>1, <2>2, <2>5, ActiveGrows
  <2> QED BY <2>3, <2>4, <2>5
<1>2. ASSUME NEW b \in Callers, NEW d \in Phones, task'[b].pc \in {"count", "insert"},
             MayInsert(b)', PhoneOf(task'[b].row) = d
      PROVE  \/ "owner" \in task'[b].outdated
             \/ Misled(d)'
             \/ \A s \in Active' : PhoneOf(s) = d => s \in reopened'
  <2>1. CASE Kept(b)
    <3>1. MayInsert(b) /\ task[b].row \in Rows /\ task[b].row = task'[b].row
      BY <1>2, <2>1, RowsStay DEF Kept, MayInsert, ShapeInv
    <3>2. \/ "owner" \in task[b].outdated \/ Misled(d)
          \/ \A s \in Active : PhoneOf(s) = d => s \in reopened
      BY <1>2, <2>1, <3>1 DEF OwnerInv, Kept
    <3>3. ASSUME NEW c \in Callers, Insert(c), PhoneOf(task[c].row) = d
          PROVE  "owner" \in task'[b].outdated
      <4>1. task[b].row # task[c].row
        BY <1>2, <3>1, <3>3, Inserted DEF MayInsert
      <4> QED BY <1>2, <2>1, <3>1, <3>3, <4>1, InsertOutdates DEF Kept
    <3>4. ASSUME NEW s \in Active', PhoneOf(s) = d, s \notin reopened',
                 \A x \in Active : PhoneOf(x) = d => x \in reopened
          PROVE  "owner" \in task'[b].outdated
      <4>1. s \notin Active \/ s \in reopened
        BY <3>4
      <4> QED BY <3>3, <3>4, <4>1, ActiveGrows
    <3> QED BY <2>1, <3>2, <3>4, MisledGrows DEF Kept
  <2>2. CASE PassOwner(b)
    <3>1. PhoneOf(task[b].row) = d /\ row' = row /\ reopened' = reopened
      BY <1>2, <2>2 DEF PassOwner, TypeOK, Task, table
    <3>2. CASE Returned(b) \cap Active = {}
      <4>1. \A s \in Active : PhoneOf(s) # d
        BY <3>1, <3>2 DEF Returned, Others, OfPhone, Active
      <4> QED BY <3>1, <4>1 DEF Active
    <3>3. CASE Returned(b) \cap Active # {}
      BY <2>2, <3>1, <3>3 DEF PassOwner, Misled
    <3> QED BY <3>2, <3>3
  <2>3. CASE PassCount(b)
    <3>1. /\ task[b].pc = "count" /\ task[b].row = task'[b].row
          /\ task[b].outdated = task'[b].outdated
          /\ UNCHANGED <<table, history>>
      BY <1>2, <2>3 DEF PassCount, TypeOK, Task
    <3>2. MayInsert(b) /\ PhoneOf(task[b].row) = d
      BY <1>2, <3>1 DEF MayInsert, table
    <3> QED BY <3>1, <3>2, MisledGrows DEF OwnerInv, Active, table, history
  <2>4. task'[b] # Idle /\ ~Request(b)
    BY <1>2, RequestBegins DEF Idle
  <2> QED BY <2>1, <2>2, <2>3, <2>4, Origin
<1> QED BY <1>1, <1>2 DEF OwnerInv, OneOwner

LEMMA UseStep ==
  ASSUME TypeOK, ShapeInv, OwnerInv, UseInv, [Next]_vars
  PROVE  UseInv'
<1>1. checked \subseteq checked' /\ reopened \subseteq reopened'
  BY Grows
<1>2. ASSUME NEW r \in used', r \notin checked' PROVE Mixed(PhoneOf(r))'
  <2>1. CASE r \in used
    <3>1. Mixed(PhoneOf(r))
      BY <1>1, <1>2, <2>1 DEF UseInv, UseIsAttributed, Mixed
    <3> QED BY <3>1, MisledGrows
  <2>2. CASE r \notin used
    <3>1. PICK c \in Callers : TouchLastUsed(c)
      BY <1>2, <2>2 DEF Next, vars, table, history, Request, RegisterNew, RegisterAgain,
         RegisterBack, UpdateFcmToken, Begin, DeactivateDevice, ValidateDevice, Check,
         PassOwner, RefuseOwner, PassCount, RefuseCount, RefuseInsert, Dies, Write, Insert,
         Reactivate, RefreshToken, WriteInactive, DeactivateAllForEmployee
    <3>2. /\ Commit(c, "touch") /\ task[c].pc = "touch" /\ task[c].row \in Rows
          /\ r \in Active /\ PhoneOf(r) = PhoneOf(task[c].row)
      BY <1>2, <2>2, <3>1 DEF TouchLastUsed, Commit, ShapeInv, OfPhone
    <3>3. PICK d \in Phones : d = PhoneOf(task[c].row)
      BY <3>2 DEF PhoneOf
    <3>4. task[c].row \in checked /\ ("use" \in task[c].outdated \/ Mixed(d))
      BY <1>1, <1>2, <3>2, <3>3 DEF UseInv
    <3>5. "use" \in task[c].outdated => Mixed(d)'
      BY <3>2, <3>3, CommitRaced DEF Mixed, OfPhone, Readings
    <3> QED BY <3>2, <3>3, <3>4, <3>5, MisledGrows
  <2> QED BY <2>1, <2>2
<1>3. ASSUME NEW b \in Callers, NEW d \in Phones, task'[b].pc = "touch",
             PhoneOf(task'[b].row) = d
      PROVE  /\ task'[b].row \in checked'
             /\ \/ "use" \in task'[b].outdated
                \/ Mixed(d)'
                \/ \A s \in Active' : PhoneOf(s) = d => s = task'[b].row
  <2>1. CASE Kept(b)
    <3>1. /\ task[b].row \in checked
          /\ \/ "use" \in task[b].outdated \/ Mixed(d)
             \/ \A s \in Active : PhoneOf(s) = d => s = task[b].row
      BY <1>3, <2>1 DEF Kept, UseInv
    <3>2. ASSUME NEW s \in Active', PhoneOf(s) = d, s # task[b].row,
                 \A x \in Active : PhoneOf(x) = d => x = task[b].row
          PROVE  "use" \in task'[b].outdated \/ Mixed(d)'
      <4>1. s \in Rows /\ s \notin Active
        BY <3>2 DEF Active
      <4>2. CASE s \in reopened'
        BY <3>2, <4>1, <4>2 DEF Mixed, OfPhone
      <4>3. CASE s \notin reopened'
        BY <1>3, <2>1, <3>2, <4>1, <4>3, ActiveGrows, InsertOutdates DEF Kept
      <4> QED BY <4>2, <4>3
    <3> QED BY <1>1, <2>1, <3>1, <3>2, MisledGrows DEF Kept
  <2>2. CASE Request(b)
    <3> DEFINE r == task'[b].row
    <3>1. /\ r \in Active /\ r \in checked' /\ r \in Rows
          /\ UNCHANGED <<row, reopened, overlooked, raced>>
      BY <1>3, <2>2, RequestBegins DEF Active, table
    <3>2. ASSUME NEW s \in Active', PhoneOf(s) = d, s # r PROVE Mixed(d)
      <4>1. s \in Active /\ s \in Rows
        BY <3>1 DEF Active
      <4>2. r \in reopened \/ s \in reopened \/ Misled(d)
        BY <1>3, <3>1, <3>2, <4>1 DEF OwnerInv, OneOwner
      <4> QED BY <1>3, <3>1, <3>2, <4>1, <4>2 DEF Mixed, OfPhone
    <3> QED BY <3>1, <3>2, MisledGrows
  <2>3. task'[b] # Idle
    BY <1>3 DEF Idle
  <2>4. ~PassOwner(b) /\ ~PassCount(b)
    BY <1>3 DEF TypeOK, Task, PassOwner, PassCount
  <2> QED BY <2>1, <2>2, <2>3, <2>4, Origin
<1> QED BY <1>2, <1>3 DEF UseInv, UseIsAttributed, Mixed

-----------------------------------------------------------------------------
(***************************************************************************)
(* The token of a row.                                                     *)
(***************************************************************************)
LEMMA TokenStep ==
  ASSUME TypeOK, ShapeInv, TokenInv, [Next]_vars
  PROVE  TokenInv'
<1>1. raced["token"] \subseteq raced'["token"]
  BY Grows DEF Readings
<1>2. ASSUME UNCHANGED <<fcm, latest>> PROVE TokenIsLatest'
  BY <1>1, <1>2 DEF TokenInv, TokenIsLatest
<1>3. ASSUME NEW c \in Callers, NEW pc \in Steps \ {"idle"}, Commit(c, pc), WriteToken(c)
      PROVE  TokenIsLatest'
  <2>1. task[c].row \in Rows /\ (task[c].copied => task[c].pc = "reactivate")
    BY <1>3 DEF Commit, ShapeInv
  <2>2. "token" \in task[c].outdated => task[c].row \in raced'["token"]
    BY <1>3, <2>1, CommitRaced DEF Readings
  <2>3. ASSUME task[c].copied, task[c].row \notin raced'["token"]
        PROVE  task[c].token = latest[task[c].row]
    BY <1>1, <2>1, <2>2, <2>3 DEF TokenInv
  <2> QED BY <1>1, <1>3, <2>1, <2>3 DEF TokenInv, TokenIsLatest, WriteToken, TypeOK
<1>4. TokenIsLatest'
  <2>1. ASSUME NEW c \in Callers, Insert(c) \/ Reactivate(c) \/ RefreshToken(c)
        PROVE  TokenIsLatest'
    BY <1>3, <2>1 DEF Insert, Reactivate, RefreshToken, Steps
  <2>2. ASSUME NEW c \in Callers, Request(c) \/ Check(c) \/ Dies(c)
        PROVE  UNCHANGED <<fcm, latest>>
    BY <2>2, RequestBegins DEF Check, PassOwner, RefuseOwner, PassCount, RefuseCount,
       RefuseInsert, Dies, table, history
  <2>3. ASSUME NEW c \in Callers, WriteInactive(c) \/ TouchLastUsed(c)
        PROVE  UNCHANGED <<fcm, latest>>
    BY <2>3 DEF WriteInactive, TouchLastUsed
  <2> QED BY <1>2, <2>1, <2>2, <2>3 DEF Next, Write, DeactivateAllForEmployee, vars, table,
     history
<1>5. ASSUME NEW b \in Callers, task'[b].pc = "reactivate", task'[b].copied
      PROVE  \/ "token" \in task'[b].outdated
             \/ task'[b].row \in raced'["token"]
             \/ task'[b].token = latest'[task'[b].row]
  <2>1. CASE Kept(b)
    <3>1. /\ task[b].pc = "reactivate" /\ task[b].copied /\ task[b].row \in Rows
          /\ row[task[b].row] # "absent"
      BY <1>5, <2>1 DEF Kept, ShapeInv
    <3>2. ASSUME latest'[task[b].row] # latest[task[b].row]
          PROVE  "token" \in task'[b].outdated
      <4>1. PICK c \in Callers : /\ Insert(c) \/ Reactivate(c) \/ RefreshToken(c)
                                 /\ ~task[c].copied /\ task[c].row = task[b].row
        <5>1. ASSUME NEW c \in Callers, Request(c) \/ Check(c) \/ Dies(c)
              PROVE  UNCHANGED latest
          BY <5>1, RequestBegins DEF Check, PassOwner, RefuseOwner, PassCount, RefuseCount,
             RefuseInsert, Dies, history
        <5>2. ASSUME NEW c \in Callers, WriteToken(c)
              PROVE  ~task[c].copied /\ task[c].row = task[b].row
          BY <3>1, <3>2, <5>2 DEF WriteToken, TypeOK
        <5> QED BY <3>2, <5>1, <5>2 DEF Next, Write, Insert, Reactivate, RefreshToken,
           WriteInactive, TouchLastUsed, DeactivateAllForEmployee, vars, history
      <4>2. ~Insert(c)
        BY <3>1, <4>1 DEF Insert
      <4>3. PICK pc \in {"reactivate", "refresh"} : Commit(c, pc) /\ task[c].pc = pc
        BY <4>1, <4>2 DEF Reactivate, RefreshToken, Commit
      <4>4. b # c
        BY <1>5, <4>3, CommitTask DEF Idle
      <4>5. "token" \in Overtakes(c, task[b])
        BY <3>1, <4>1, <4>3 DEF Overtakes, Readings
      <4> QED BY <4>3, <4>4, <4>5, CommitTask
    <3> QED BY <1>1, <2>1, <3>1, <3>2 DEF Kept, TokenInv
  <2>2. CASE Request(b)
    <3>1. /\ task'[b].row \in Rows /\ task'[b].token = fcm[task'[b].row]
          /\ UNCHANGED <<latest, raced>>
      BY <1>5, <2>2, RequestBegins
    <3> QED BY <3>1 DEF TokenInv, TokenIsLatest
  <2>3. task'[b] # Idle
    BY <1>5 DEF Idle
  <2>4. ~PassOwner(b) /\ ~PassCount(b)
    BY <1>5 DEF TypeOK, Task, PassOwner, PassCount
  <2> QED BY <2>1, <2>2, <2>3, <2>4, Origin
<1> QED BY <1>4, <1>5 DEF TokenInv

-----------------------------------------------------------------------------
(***************************************************************************)
(* The theorems.                                                           *)
(***************************************************************************)
LEMMA InvStep == Inv /\ [Next]_vars => Inv'
BY TypeStep, ShapeStep, LimitStep, OwnerStep, UseStep, TokenStep DEF Inv

LEMMA Invariance == Spec => []Inv
BY InitInv, InvStep, PTL DEF Spec

\* Every variable of the registry keeps its type.
THEOREM DevicesTypeCorrect == Spec => []TypeOK
<1>1. Inv => TypeOK
  BY DEF Inv
<1> QED BY <1>1, Invariance, PTL

\* The limit of DeviceService holds for the devices that were not reactivated,
\* unless two inserts counted together.
THEOREM LimitNeedsARace == Spec => []LimitHeld
<1>1. Inv => LimitHeld
  BY DEF Inv, LimitInv
<1> QED BY <1>1, Invariance, PTL

\* A second owner of a device comes by a reactivation or a misled registration.
THEOREM SecondOwnerNeedsAReason == Spec => []OneOwner
<1>1. Inv => OneOwner
  BY DEF Inv, OwnerInv
<1> QED BY <1>1, Invariance, PTL

\* touchLastUsed marks the employee who checked in, unless the device was shared.
THEOREM UseAttributed == Spec => []UseIsAttributed
<1>1. Inv => UseIsAttributed
  BY DEF Inv, UseInv
<1> QED BY <1>1, Invariance, PTL

\* Only a reactivation that was overtaken undoes a refresh of the push token.
THEOREM TokenKept == Spec => []TokenIsLatest
<1>1. Inv => TokenIsLatest
  BY DEF Inv, TokenInv
<1> QED BY <1>1, Invariance, PTL
=============================================================================
