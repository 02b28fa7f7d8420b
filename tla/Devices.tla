------------------------------ MODULE Devices ------------------------------
(***************************************************************************)
(* The registry of mobile devices (DeviceService, DeviceRepository) and    *)
(* the two calls the attendance module makes through EmployeeFacade, in    *)
(* one tenant.  registerDevice decides on three queries and writes by a    *)
(* fourth; nothing holds between them but the unique index, which allows   *)
(* an employee and a device one row.  A row is named by its employee and   *)
(* its device.  Names, operating systems and times are left out.           *)
(***************************************************************************)
EXTENDS Naturals, FiniteSets

CONSTANTS
  Emps,        \* the employees
  Phones,      \* the client-generated device ids
  Rows,        \* the pairs of the two that may be registered
  Fcm,         \* the tokens of the push service
  None,        \* the null of fcm_token
  Callers,     \* the requests that may be in flight at a time
  MaxDevices   \* MAX_DEVICES_PER_EMPLOYEE

ASSUME DevicesAssumption ==
  /\ Rows \subseteq Emps \X Phones
  /\ IsFiniteSet(Rows)
  /\ None \notin Rows \cup Fcm
  /\ MaxDevices \in Nat

VARIABLES
  row,         \* row[r]: absent, or is_active
  fcm,         \* fcm[r]: fcm_token
  used,        \* the rows with last_used_at
  task,        \* task[c]: the request in flight
  latest,      \* history: the last token an app supplied for r
  checked,     \* history: the rows whose employee was validated for a check-in
  reopened,    \* history: the rows some registration reactivated
  overlooked,  \* history: phones whose active row a lookup did not return
  raced        \* history: raced[k]: the rows written on an outdated reading k

table == <<row, fcm, used>>
history == <<latest, checked, reopened, overlooked, raced>>
vars == <<table, task, history>>

EmpOf(r) == r[1]
PhoneOf(r) == r[2]

OfPhone(d) == {r \in Rows : PhoneOf(r) = d}
Active == {r \in Rows : row[r] = "active"}
ActiveOf(e) == {r \in Active : EmpOf(r) = e}

\* What a request has read and relies on until it writes: that nobody else has
\* the device, the number of devices, the token it copies, who uses the device.
Readings == {"owner", "count", "token", "use"}
Steps == {"idle", "owner", "count", "insert", "reactivate", "refresh", "off", "touch"}
Task == [pc : Steps, row : Rows \cup {None}, token : Fcm \cup {None},
         copied : BOOLEAN, outdated : SUBSET Readings]

Idle == [pc |-> "idle", row |-> None, token |-> None, copied |-> FALSE, outdated |-> {}]

Init ==
  /\ row = [r \in Rows |-> "absent"]
  /\ fcm = [r \in Rows |-> None]
  /\ used = {}
  /\ task = [c \in Callers |-> Idle]
  /\ latest = [r \in Rows |-> None]
  /\ checked = {}
  /\ reopened = {}
  /\ overlooked = {}
  /\ raced = [k \in Readings |-> {}]

-----------------------------------------------------------------------------
(***************************************************************************)
(* The first query of each request.                                        *)
(***************************************************************************)
Begin(c, pc, r, t, copied) ==
  /\ task[c] = Idle
  /\ task' = [task EXCEPT ![c] = [pc |-> pc, row |-> r, token |-> t,
                                  copied |-> copied, outdated |-> {}]]
  /\ UNCHANGED table

\* findByDeviceIdAndEmployee finds no row: the other checks follow.
RegisterNew(c, r, t) ==
  /\ row[r] = "absent"
  /\ Begin(c, "owner", r, t, FALSE)
  /\ UNCHANGED history

\* It finds an active row: only another token is worth a write.
RegisterAgain(c, r, t) ==
  /\ row[r] = "active"
  /\ t \notin {None, fcm[r]}
  /\ Begin(c, "refresh", r, t, FALSE)
  /\ UNCHANGED history

\* It finds an inactive row, which goes on without any further check.  Without a
\* token of its own the request writes back the one it has read.
RegisterBack(c, r, t) ==
  /\ row[r] = "inactive"
  /\ Begin(c, "reactivate", r, IF t = None THEN fcm[r] ELSE t, t = None)
  /\ UNCHANGED history

UpdateFcmToken(c, r, t) ==
  /\ row[r] # "absent"
  /\ t # None
  /\ Begin(c, "refresh", r, t, FALSE)
  /\ UNCHANGED history

DeactivateDevice(c, r) ==
  /\ row[r] = "active"
  /\ Begin(c, "off", r, None, FALSE)
  /\ UNCHANGED history

\* The attendance module validates the device, and will record its use.
ValidateDevice(c, r) ==
  /\ row[r] = "active"
  /\ Begin(c, "touch", r, None, FALSE)
  /\ checked' = checked \cup {r}
  /\ UNCHANGED <<latest, reopened, overlooked, raced>>

-----------------------------------------------------------------------------
(***************************************************************************)
(* Plausible slips in the code, for the properties to catch.  No action    *)
(* uses them.                                                              *)
(***************************************************************************)

\* The lookup across employees is dropped.
PassedUnchecked(c) ==
  /\ task[c].pc = "owner"
  /\ task' = [task EXCEPT ![c].pc = "count"]
  /\ UNCHANGED <<table, history>>

\* The limit is compared with > instead of >=.
CountOffByOne(c) ==
  /\ task[c].pc = "count"
  /\ Cardinality(ActiveOf(EmpOf(task[c].row))) <= MaxDevices
  /\ task' = [task EXCEPT ![c].pc = "insert"]
  /\ UNCHANGED <<table, history>>

-----------------------------------------------------------------------------
(***************************************************************************)
(* The other two checks of a new registration.                             *)
(***************************************************************************)

\* findByDeviceId has LIMIT 1 and no order: it returns some row of the device.
Others(c) == OfPhone(PhoneOf(task[c].row))
Returned(c) == {r \in Others(c) : row[r] # "absent"}

PassOwner(c) ==
  /\ task[c].pc = "owner"
  /\ Returned(c) = {} \/ \E r \in Returned(c) : row[r] = "inactive"
  /\ task' = [task EXCEPT ![c].pc = "count"]
  /\ overlooked' = IF Returned(c) \cap Active = {} THEN overlooked
                   ELSE overlooked \cup {PhoneOf(task[c].row)}
  /\ UNCHANGED <<table, latest, checked, reopened, raced>>

RefuseOwner(c) ==
  /\ task[c].pc = "owner"
  /\ Returned(c) \cap Active # {}
  /\ task' = [task EXCEPT ![c] = Idle]
  /\ UNCHANGED <<table, history>>

PassCount(c) ==
  /\ task[c].pc = "count"
  /\ Cardinality(ActiveOf(EmpOf(task[c].row))) < MaxDevices
  /\ task' = [task EXCEPT ![c].pc = "insert"]
  /\ UNCHANGED <<table, history>>

RefuseCount(c) ==
  /\ task[c].pc = "count"
  /\ Cardinality(ActiveOf(EmpOf(task[c].row))) >= MaxDevices
  /\ task' = [task EXCEPT ![c] = Idle]
  /\ UNCHANGED <<table, history>>

-----------------------------------------------------------------------------
(***************************************************************************)
(* The writes.                                                             *)
(***************************************************************************)

\* What a write of c to its row outdates in a request t: an insert adds an owner
\* and a device, a token supplied by an app replaces the one t has copied.
Overtakes(c, t) ==
  LET r == task[c].row
      inserts == task[c].pc = "insert" /\ t.row # r
  IN  {k \in Readings :
         \/ k = "owner" /\ inserts /\ t.pc \in {"count", "insert"} /\ PhoneOf(t.row) = PhoneOf(r)
         \/ k = "count" /\ inserts /\ t.pc = "insert" /\ EmpOf(t.row) = EmpOf(r)
         \/ k = "use" /\ inserts /\ t.pc = "touch" /\ PhoneOf(t.row) = PhoneOf(r)
         \/ k = "token" /\ task[c].pc \in {"refresh", "reactivate"} /\ ~task[c].copied
              /\ t.pc = "reactivate" /\ t.copied /\ t.row = r}

\* The write of c ends its request.
Commit(c, pc) ==
  /\ task[c].pc = pc
  /\ task' = [b \in Callers |->
                IF b = c THEN Idle
                ELSE [task[b] EXCEPT !.outdated = @ \cup Overtakes(c, task[b])]]
  /\ raced' = [k \in Readings |->
                 IF k \in task[c].outdated THEN raced[k] \cup {task[c].row} ELSE raced[k]]
  /\ UNCHANGED <<checked, overlooked>>

-----------------------------------------------------------------------------
(***************************************************************************)
(* More plausible slips.                                                   *)
(***************************************************************************)

\* A removed device is deleted.
WriteDeleted(c) ==
  /\ Commit(c, "off")
  /\ row' = [r \in Rows \ {task[c].row} |-> row[r]]
  /\ UNCHANGED <<fcm, used, latest, reopened>>

\* The use is written without regard to is_active.
TouchEveryRow(c) ==
  /\ Commit(c, "touch")
  /\ used' = used \cup {r \in OfPhone(PhoneOf(task[c].row)) : row[r] # "absent"}
  /\ UNCHANGED <<row, fcm, latest, reopened>>

-----------------------------------------------------------------------------
\* The token of the request, and whether an app supplied it.
WriteToken(c) ==
  /\ fcm' = [fcm EXCEPT ![task[c].row] = task[c].token]
  /\ latest' = IF task[c].copied THEN latest
               ELSE [latest EXCEPT ![task[c].row] = task[c].token]

Insert(c) ==
  /\ Commit(c, "insert")
  /\ row[task[c].row] = "absent"
  /\ row' = [row EXCEPT ![task[c].row] = "active"]
  /\ WriteToken(c)
  /\ UNCHANGED <<used, reopened>>

\* The unique index refuses a second row.
RefuseInsert(c) ==
  /\ task[c].pc = "insert"
  /\ row[task[c].row] # "absent"
  /\ task' = [task EXCEPT ![c] = Idle]
  /\ UNCHANGED <<table, history>>

Reactivate(c) ==
  /\ Commit(c, "reactivate")
  /\ row' = [row EXCEPT ![task[c].row] = "active"]
  /\ WriteToken(c)
  /\ reopened' = reopened \cup {task[c].row}
  /\ UNCHANGED used

RefreshToken(c) ==
  /\ Commit(c, "refresh")
  /\ WriteToken(c)
  /\ UNCHANGED <<row, used, reopened>>

WriteInactive(c) ==
  /\ Commit(c, "off")
  /\ row' = [row EXCEPT ![task[c].row] = "inactive"]
  /\ UNCHANGED <<fcm, used, latest, reopened>>

\* touchLastUsed knows the device, not the employee.
TouchLastUsed(c) ==
  /\ Commit(c, "touch")
  /\ used' = used \cup (Active \cap OfPhone(PhoneOf(task[c].row)))
  /\ UNCHANGED <<row, fcm, latest, reopened>>

\* The one statement of a termination.
DeactivateAllForEmployee(e) ==
  /\ ActiveOf(e) # {}
  /\ row' = [r \in Rows |-> IF r \in ActiveOf(e) THEN "inactive" ELSE row[r]]
  /\ UNCHANGED <<fcm, used, task, history>>

\* The pod dies with the request, or a query of it fails.
Dies(c) ==
  /\ task[c] # Idle
  /\ task' = [task EXCEPT ![c] = Idle]
  /\ UNCHANGED <<table, history>>

-----------------------------------------------------------------------------
Request(c) ==
  \E r \in Rows :
    \/ \E t \in Fcm \cup {None} :
         \/ RegisterNew(c, r, t) \/ RegisterAgain(c, r, t) \/ RegisterBack(c, r, t)
         \/ UpdateFcmToken(c, r, t)
    \/ DeactivateDevice(c, r)
    \/ ValidateDevice(c, r)

Check(c) == PassOwner(c) \/ RefuseOwner(c) \/ PassCount(c) \/ RefuseCount(c) \/ RefuseInsert(c)

Write(c) ==
  Insert(c) \/ Reactivate(c) \/ RefreshToken(c) \/ WriteInactive(c) \/ TouchLastUsed(c)

Next ==
  \/ \E c \in Callers : Request(c) \/ Check(c) \/ Write(c) \/ Dies(c)
  \/ \E e \in Emps : DeactivateAllForEmployee(e)

Spec == Init /\ [][Next]_vars

-----------------------------------------------------------------------------
\* Every variable keeps its type.
TypeOK ==
  /\ row \in [Rows -> {"absent", "active", "inactive"}]
  /\ fcm \in [Rows -> Fcm \cup {None}]
  /\ used \subseteq Rows
  /\ task \in [Callers -> Task]
  /\ latest \in [Rows -> Fcm \cup {None}]
  /\ checked \subseteq Rows
  /\ reopened \subseteq Rows
  /\ overlooked \subseteq Phones
  /\ raced \in [Readings -> SUBSET Rows]

\* The active devices of an employee, apart from those that were reactivated, stay
\* within MAX_DEVICES_PER_EMPLOYEE, unless two of the inserts counted together.
LimitHeld ==
  \A e \in Emps :
    \/ Cardinality(ActiveOf(e) \ reopened) <= MaxDevices
    \/ \E r \in raced["count"] : EmpOf(r) = e

\* Something let a second employee onto the device d: a lookup that returned
\* another row of it, or an insert that overlapped the lookup.
Misled(d) == d \in overlooked \/ raced["owner"] \cap OfPhone(d) # {}

\* A device is active for two employees only if one of them reactivated it, which
\* registerDevice does without a check, or if a registration was misled.
OneOwner ==
  \A r, s \in Active :
    PhoneOf(r) = PhoneOf(s) /\ r # s =>
      r \in reopened \/ s \in reopened \/ Misled(PhoneOf(r))

\* last_used_at is written in the row of an employee who did not check in only if
\* the device had a second owner, or got one between the check-in and the write.
UseIsAttributed ==
  \A r \in used \ checked :
    \/ Misled(PhoneOf(r))
    \/ (reopened \cup raced["use"]) \cap OfPhone(PhoneOf(r)) # {}

\* A row has the last token an app supplied for it, unless a reactivation without
\* a token wrote back a copy that a refresh had replaced meanwhile.
TokenIsLatest == \A r \in Rows \ raced["token"] : fcm[r] = latest[r]
=============================================================================
