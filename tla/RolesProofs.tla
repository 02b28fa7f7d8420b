---------------------------- MODULE RolesProofs ----------------------------
(***************************************************************************)
(* Proofs about Roles, for any set of rows, employees, custom names and    *)
(* permission lists, and any list of system roles to seed.  What a row     *)
(* keeps depends on the requests that are about to grant to it (Known),    *)
(* and that an administrator remains depends on who can be one before and  *)
(* after the first is appointed (Governed).                                *)
(***************************************************************************)
EXTENDS Roles, TLAPS

USE RolesAssumption

Granting(p, i) == task[p].pc = "grant" /\ task[p].id = i

\* What holds of a row and of its permissions.
Kept(i) ==
  /\ ~ There(i) => grants[i] = {} /\ asked[i] = {} /\ role[i].slug = None
  /\ IsAdminRole(i) => role[i].system
  /\ There(i) /\ role[i].system => DefaultsOf(role[i].slug) \subseteq grants[i] \/ Emptied(i)
  /\ grants[i] = asked[i] \/ Emptied(i) \/ i \in mixed
  /\ There(i) /\ i \notin mixed =>
       \A p \in Processes : Granting(p, i) =>
         grants[i] = {} /\ \A q \in Processes : Granting(q, i) => q = p

\* What a request knows of the rows it is about to write.
Known(p) ==
  /\ task[p].pc \in {"clear", "grant", "rename"} => task[p].id \in Ids
  /\ task[p].pc \in {"clear", "grant"} =>
       LET r == role[task[p].id]
       IN  /\ r.state # "free"
           /\ r.state = "there" /\ r.system => DefaultsOf(r.slug) \subseteq task[p].list
  /\ task[p].pc \in {"assign", "revoke"} => task[p].emp \in Employees
  /\ task[p].pc = "revoke" /\ task[p].signed /\ task[p].emp = p =>
       \A i \in task[p].todo : role[i].state # "free" /\ role[i].slug # "tenant_admin"
  /\ p \in Employees /\ ~ appointed => task[p] = Idle

Seeded(s) == s \in squatted \/ \E i \in Ids : There(i) /\ role[i].slug = s /\ role[i].system

\* The seeding has dealt with the roles before next, and works on next.
Seeds ==
  /\ task[Seeder] # Idle =>
       /\ next \in 1 .. Len(Order)
       /\ task[Seeder].pc \in {"insert", "clear", "grant"}
       /\ task[Seeder].pc = "insert" =>
            task[Seeder].slug = Order[next] /\ task[Seeder].list = DefaultsOf(Order[next])
       /\ task[Seeder].pc \in {"clear", "grant"} =>
            LET r == role[task[Seeder].id]
            IN  r.state = "there" /\ r.system /\ r.slug = Order[next] /\ task[Seeder].name = None
  /\ \A j \in 1 .. Len(Order) : j < next => Seeded(Order[j])
  /\ seeded => \A s \in Slugs : Seeded(s)

\* Nobody can do anything before the operator has appointed an administrator, for
\* which there must be a system role; and then there is one.
Governed ==
  /\ ~ appointed => \A e \in Employees : held[e] = {} /\ token[e] = {}
  /\ appointed => \E i \in Ids : There(i) /\ role[i].system /\ IsAdminRole(i)
  /\ AdminRemains

Inv ==
  /\ TypeOK
  /\ \A i \in Ids : Kept(i)
  /\ \A p \in Processes : Known(p)
  /\ Seeds
  /\ Governed

-----------------------------------------------------------------------------
LEMMA Catalogue == \A s \in SystemSlugs : DefaultsOf(s) \subseteq Permissions
BY DEF SystemSlugs, DefaultsOf, Permissions, TenantAdmin, HrManager, PayrollOfficer, DepartmentLead,
   Employee, AttendanceCodes, AttendanceOwn, LeaveCodes, LeaveOwn, PayrollCodes, EmployeeCodes, RbacCodes,
   ConfigCodes, DepartmentCodes, NotificationCodes, AuditCodes, TenantCodes, ReportCodes

\* The routes that change roles need a permission.
LEMMA NeedsFacts ==
  ASSUME NEW need \in {ManageRoles, AssignRole} PROVE ~ Allowed({}, need)
<1>1. need.codes # {} /\ need.mode = "ALL"
  BY DEF ManageRoles, AssignRole, AllOf
<1> QED BY <1>1 DEF Allowed

LEMMA OrderFacts ==
  /\ Len(Order) \in Nat
  /\ \A j \in 1 .. Len(Order) : Order[j] \in SystemSlugs /\ Order[j] \in Slugs /\ Order[j] \in Names
  /\ \A s \in Slugs : \E j \in 1 .. Len(Order) : s = Order[j]
BY DEF Slugs, Names

LEMMA RowFacts ==
  /\ Free \in Row /\ Free.state = "free" /\ Free.slug = None
  /\ Idle \in Task /\ Idle.pc = "idle"
BY DEF Free, Row, Idle, Task, Steps

LEMMA InitInv == Init => Inv
<1> SUFFICES ASSUME Init PROVE Inv
  OBVIOUS
<1>1. TypeOK
  <2>1. /\ seeded \in BOOLEAN /\ appointed \in BOOLEAN /\ usurped \in BOOLEAN /\ anonymous \in BOOLEAN
    BY Zenon DEF Init
  <2>2. /\ role \in [Ids -> Row] /\ task \in [Processes -> Task] /\ next \in 0 .. Len(Order) + 1
        /\ sent \in 0 .. MaxRequests
    BY RowFacts, OrderFacts DEF Init
  <2>3. /\ grants \in [Ids -> SUBSET Permissions] /\ held \in [Employees -> SUBSET Ids]
        /\ token \in [Employees -> SUBSET Permissions] /\ asked \in [Ids -> SUBSET Permissions]
        /\ torn \subseteq Ids /\ mixed \subseteq Ids /\ squatted \subseteq Slugs
    BY DEF Init
  <2> QED BY <2>1, <2>2, <2>3 DEF TypeOK
<1>2. ASSUME NEW i \in Ids PROVE Kept(i)
  <2>1. role[i] = Free /\ grants[i] = {} /\ asked[i] = {}
    BY DEF Init
  <2>2. Free.slug # "tenant_admin"
    BY RowFacts DEF SystemSlugs
  <2> QED BY <2>1, <2>2, RowFacts DEF Kept, There, IsAdminRole
<1>3. ASSUME NEW p \in Processes PROVE Known(p)
  BY RowFacts DEF Init, Known
<1>4. Seeds
  <2>1. task[Seeder] = Idle /\ next = 0
    BY DEF Init, Processes
  <2>2. ~ seeded
    BY Zenon DEF Init
  <2> QED BY <2>1, <2>2, OrderFacts DEF Seeds
<1>5. Governed
  <2>1. ~ appointed
    BY Zenon DEF Init
  <2> QED BY <2>1 DEF Init, Governed, AdminRemains
<1> QED BY <1>1, <1>2, <1>3, <1>4, <1>5 DEF Inv

-----------------------------------------------------------------------------
(* What other processes keep. *)

\* The rows do not change, but for their names.
SameRows ==
  \A i \in Ids : /\ role'[i].state = role[i].state /\ role'[i].slug = role[i].slug
                 /\ role'[i].system = role[i].system

LEMMA KnownKept ==
  ASSUME Inv, NEW p \in Processes, NEW q \in Processes, task'[q] = task[q], SameRows,
         appointed => appointed'
  PROVE  Known(q)'
<1>1. task[q].todo \subseteq Ids
  BY DEF Inv, TypeOK, Task
<1> QED BY <1>1 DEF Inv, Known, SameRows

LEMMA SeedsKept ==
  ASSUME Inv, task'[Seeder] = task[Seeder], SameRows, UNCHANGED <<next, squatted, seeded>>
  PROVE  Seeds'
<1>1. Seeder \in Processes
  BY DEF Processes
<1>2. \A s : Seeded(s) => Seeded(s)'
  BY DEF Seeded, There, SameRows
<1> QED BY <1>1, <1>2, OrderFacts DEF Inv, Seeds, SameRows, Known

LEMMA GovernedKept ==
  ASSUME Inv, SameRows, UNCHANGED <<held, token, appointed, usurped, anonymous>>
  PROVE  Governed'
<1>1. \A e \in Employees : held[e] \subseteq Ids
  BY DEF Inv, TypeOK
<1>2. Admins' = Admins
  BY <1>1 DEF Admins, IsAdminRole, SameRows
<1> QED BY <1>2 DEF Inv, Governed, AdminRemains, There, IsAdminRole, SameRows

\* A process goes on to t, which is not about to grant; it leaves a row that it had
\* emptied as torn.
LEMMA RowsKept ==
  ASSUME Inv, NEW p \in Processes, NEW t, t.pc # "grant", task' = [task EXCEPT ![p] = t],
         SameRows, UNCHANGED <<grants, asked, mixed>>, torn \subseteq torn',
         NEW i \in Ids, Bare(p) /\ task[p].id = i => i \in torn'
  PROVE  Kept(i)'
<1>1. \A q \in Processes : task'[q] = IF q = p THEN t ELSE task[q]
  BY DEF Inv, TypeOK
<1>2. \A q \in Processes : Granting(q, i)' => Granting(q, i)
  BY <1>1 DEF Granting
<1>3. Emptied(i) => Emptied(i)'
  BY <1>1 DEF Emptied, Bare, There, SameRows
<1> QED BY <1>2, <1>3 DEF Inv, Kept, SameRows, There, IsAdminRole

\* A step of a process that changes its task, and not what is granted.
LEMMA TaskStep ==
  ASSUME Inv, NEW p \in Processes, NEW t \in Task, t.pc # "grant", task' = [task EXCEPT ![p] = t],
         SameRows, UNCHANGED <<grants, asked, mixed>>, torn \subseteq torn', appointed => appointed',
         Bare(p) => task[p].id \in torn',
         TypeOK', Known(p)', Seeds', Governed'
  PROVE  Inv'
<1>1. ASSUME NEW i \in Ids PROVE Kept(i)'
  BY RowsKept
<1>2. ASSUME NEW q \in Processes, q # p PROVE Known(q)'
  <2>1. task'[q] = task[q]
    BY <1>2 DEF Inv, TypeOK
  <2> QED BY <2>1, KnownKept
<1> QED BY <1>1, <1>2 DEF Inv

-----------------------------------------------------------------------------
(* Tokens, and where a request starts. *)

\* Nothing but the token of an employee changes.
LEMMA TokenStep ==
  ASSUME Inv, NEW e \in Employees, NEW l \in SUBSET Permissions, ~ appointed => l = {},
         token' = [token EXCEPT ![e] = l], UNCHANGED <<tables, task, next, sent, history>>
  PROVE  Inv'
<1>1. TypeOK'
  BY DEF Inv, TypeOK, tables, history
<1>2. SameRows
  BY DEF SameRows, tables
<1>3. Seeds'
  BY <1>2, SeedsKept DEF history
<1>4. \A p \in Processes : Known(p)'
  BY <1>2, KnownKept DEF history
<1>5. \A i \in Ids : Kept(i)'
  BY DEF Inv, Kept, tables, history, There, IsAdminRole, Emptied, Bare, Granting
<1>6. Governed'
  BY DEF Inv, Governed, AdminRemains, Admins, There, IsAdminRole, tables, history, TypeOK
<1> QED BY <1>1, <1>3, <1>4, <1>5, <1>6 DEF Inv

LEMMA LoginInv ==
  ASSUME Inv, NEW e \in Employees, Login(e) PROVE Inv'
<1>1. \A i \in held[e] : i \in Ids /\ grants[i] \subseteq Permissions
  BY DEF Inv, TypeOK
<1>2. PICK l \in SUBSET Permissions : l = Effective(e)
  <2>1. \A x \in Effective(e) : x \in Permissions
    BY <1>1 DEF Effective
  <2> QED BY <2>1
<1>3. ~ appointed => l = {}
  BY <1>2 DEF Inv, Governed, Effective
<1> QED BY <1>2, <1>3, TokenStep DEF Login

LEMMA ExpireInv ==
  ASSUME Inv, NEW e \in Employees, Expire(e) PROVE Inv'
<1>1. {} \in SUBSET Permissions
  OBVIOUS
<1> QED BY <1>1, TokenStep DEF Expire

\* Only after an administrator was appointed does a request pass the guard.
LEMMA AdmittedOnce ==
  ASSUME Inv, NEW e \in Employees, NEW need \in {ManageRoles, AssignRole}, Admitted(e, need)
  PROVE  appointed
BY NeedsFacts DEF Inv, Governed, Admitted

LEMMA BeginInv ==
  ASSUME Inv, NEW e \in Employees, NEW need \in {ManageRoles, AssignRole}, NEW t \in Task,
         Begin(e, need, t), task[e] = Idle, sent < MaxRequests, t.pc # "grant", Known(e)'
  PROVE  Inv'
<1>1. /\ task' = [task EXCEPT ![e] = t] /\ sent' = sent + 1
      /\ UNCHANGED <<tables, token, next, history>>
  BY DEF Begin, Admitted
<1>2. e \in Processes /\ e # Seeder
  BY DEF Processes
<1>3. TypeOK'
  BY <1>1, <1>2 DEF Inv, TypeOK, tables, history
<1>4. SameRows /\ ~ Bare(e)
  BY <1>1, RowFacts DEF SameRows, tables, Bare
<1>5. Seeds'
  BY <1>1, <1>2, <1>4, SeedsKept DEF history, Inv, TypeOK
<1>6. Governed'
  BY <1>1, <1>4, GovernedKept DEF history, tables
<1>7. UNCHANGED <<grants, asked, mixed, torn, appointed>>
  BY <1>1 DEF history, tables
<1> QED BY <1>1, <1>2, <1>3, <1>4, <1>5, <1>6, <1>7, TaskStep

LEMMA CreateRoleInv ==
  ASSUME Inv, NEW e \in Employees, NEW s \in Names, NEW n \in Names, NEW l \in Lists,
         task[e] = Idle, sent < MaxRequests, CreateRole(e, s, n, l)
  PROVE  Inv'
<1>1. PICK t \in Task : /\ t = [Idle EXCEPT !.pc = "insert", !.slug = s, !.name = n, !.list = l]
                        /\ t.pc = "insert"
  <2> DEFINE u == [Idle EXCEPT !.pc = "insert", !.slug = s, !.name = n, !.list = l]
  <2>1. u \in Task /\ u.pc = "insert"
    BY RowFacts DEF Idle, Task, Steps
  <2> QED BY <2>1
<1>2. Begin(e, ManageRoles, t)
  BY <1>1 DEF CreateRole
<1>3. appointed
  BY <1>2, AdmittedOnce DEF Begin
<1>4. task'[e] = t /\ appointed'
  BY <1>2, <1>3 DEF Begin, Inv, TypeOK, Processes, history
<1>5. Known(e)'
  BY <1>1, <1>4 DEF Known
<1> QED BY <1>1, <1>2, <1>5, BeginInv

LEMMA UpdateRoleInv ==
  ASSUME Inv, NEW e \in Employees, NEW i \in Ids, NEW n \in Names \cup {None}, NEW l \in Lists,
         task[e] = Idle, sent < MaxRequests, UpdateRole(e, i, n, l)
  PROVE  Inv'
<1>1. PICK t \in Task : /\ t = [Idle EXCEPT !.pc = "clear", !.id = i, !.name = n, !.list = l]
                        /\ t.pc = "clear" /\ t.id = i /\ t.list = l
  <2> DEFINE u == [Idle EXCEPT !.pc = "clear", !.id = i, !.name = n, !.list = l]
  <2>1. u \in Task /\ u.pc = "clear" /\ u.id = i /\ u.list = l
    BY RowFacts DEF Idle, Task, Steps
  <2> QED BY <2>1
<1>2. Begin(e, ManageRoles, t) /\ There(i) /\ MayChange(i, n, l)
  BY <1>1 DEF UpdateRole
<1>3. appointed
  BY <1>2, AdmittedOnce DEF Begin
<1>4. task'[e] = t /\ appointed' /\ role' = role
  BY <1>2, <1>3 DEF Begin, Inv, TypeOK, Processes, history, tables
<1>5. Known(e)'
  BY <1>1, <1>2, <1>4 DEF Known, There, MayChange
<1> QED BY <1>1, <1>2, <1>5, BeginInv

LEMMA RenameRoleInv ==
  ASSUME Inv, NEW e \in Employees, NEW i \in Ids, NEW n \in Names,
         task[e] = Idle, sent < MaxRequests, RenameRole(e, i, n)
  PROVE  Inv'
<1>1. PICK t \in Task : /\ t = [Idle EXCEPT !.pc = "rename", !.id = i, !.name = n]
                        /\ t.pc = "rename" /\ t.id = i
  <2> DEFINE u == [Idle EXCEPT !.pc = "rename", !.id = i, !.name = n]
  <2>1. u \in Task /\ u.pc = "rename" /\ u.id = i
    BY RowFacts DEF Idle, Task, Steps
  <2> QED BY <2>1
<1>2. Begin(e, ManageRoles, t)
  BY <1>1 DEF RenameRole
<1>3. appointed
  BY <1>2, AdmittedOnce DEF Begin
<1>4. task'[e] = t /\ appointed'
  BY <1>2, <1>3 DEF Begin, Inv, TypeOK, Processes, history
<1>5. Known(e)'
  BY <1>1, <1>4 DEF Known
<1> QED BY <1>1, <1>2, <1>5, BeginInv

LEMMA AssignRolesInv ==
  ASSUME Inv, NEW e \in Employees, NEW f \in Employees, NEW r \in SUBSET Ids,
         task[e] = Idle, sent < MaxRequests, AssignRoles(e, f, r)
  PROVE  Inv'
<1>1. PICK t \in Task : /\ t = [Idle EXCEPT !.pc = "assign", !.emp = f, !.todo = r]
                        /\ t.pc = "assign" /\ t.emp = f
  <2> DEFINE u == [Idle EXCEPT !.pc = "assign", !.emp = f, !.todo = r]
  <2>1. u \in Task /\ u.pc = "assign" /\ u.emp = f
    BY RowFacts DEF Idle, Task, Steps
  <2> QED BY <2>1
<1>2. Begin(e, AssignRole, t)
  BY <1>1 DEF AssignRoles
<1>3. appointed
  BY <1>2, AdmittedOnce DEF Begin
<1>4. task'[e] = t /\ appointed'
  BY <1>2, <1>3 DEF Begin, Inv, TypeOK, Processes, history
<1>5. Known(e)'
  BY <1>1, <1>4 DEF Known
<1> QED BY <1>1, <1>2, <1>5, BeginInv

LEMMA RevokeRolesInv ==
  ASSUME Inv, NEW e \in Employees, NEW f \in Employees, NEW r \in SUBSET Ids, NEW b \in Signed,
         task[e] = Idle, sent < MaxRequests, RevokeRoles(e, f, r, b)
  PROVE  Inv'
<1>0. b \in BOOLEAN
  OBVIOUS
<1>1. PICK t \in Task : /\ t = [Idle EXCEPT !.pc = "revoke", !.emp = f, !.todo = r, !.signed = b]
                        /\ t.pc = "revoke" /\ t.emp = f /\ t.todo = r /\ t.signed = b
  <2> DEFINE u == [Idle EXCEPT !.pc = "revoke", !.emp = f, !.todo = r, !.signed = b]
  <2>1. u \in Task /\ u.pc = "revoke" /\ u.emp = f /\ u.todo = r
    BY <1>0, RowFacts DEF Idle, Task, Steps
  <2>2. u.signed = b
    BY Zenon DEF Idle
  <2> QED BY <2>1, <2>2, Zenon
<1>2. Begin(e, AssignRole, t) /\ (\A i \in r : There(i)) /\ ~ LocksOut(e, f, r, b)
  BY <1>1, Zenon DEF RevokeRoles
<1>3. appointed
  BY <1>2, AdmittedOnce DEF Begin
<1>4. task'[e] = t /\ appointed' /\ role' = role
  BY <1>2, <1>3 DEF Begin, Inv, TypeOK, Processes, history, tables
<1>5. b /\ f = e => \A i \in r : role[i].state # "free" /\ role[i].slug # "tenant_admin"
  BY <1>2 DEF LocksOut, There, IsAdminRole
<1>6. Known(e)'
  BY <1>1, <1>4, <1>5 DEF Known
<1> QED BY <1>1, <1>2, <1>6, BeginInv

-----------------------------------------------------------------------------
(* The seeding script. *)

LEMMA StartSeedingInv == ASSUME Inv, StartSeeding PROVE Inv'
<1>1. next = 0 /\ next' = 1 /\ UNCHANGED <<tables, token, sent, task, history>>
  BY DEF StartSeeding
<1>2. TypeOK'
  BY <1>1, OrderFacts DEF Inv, TypeOK, tables, history
<1>3. SameRows
  BY <1>1 DEF SameRows, tables
<1>4. Seeds'
  <2>1. task[Seeder] = Idle
    BY <1>1 DEF Inv, Seeds
  <2>2. \A s : Seeded(s) => Seeded(s)'
    BY <1>1 DEF Seeded, There, tables, history
  <2> QED BY <1>1, <2>1, <2>2 DEF Inv, Seeds, history
<1>5. Governed'
  BY <1>1, <1>3, GovernedKept DEF tables, history
<1>6. \A p \in Processes : Known(p)'
  BY <1>1, <1>3, KnownKept DEF history
<1>7. \A i \in Ids : Kept(i)'
  BY <1>1 DEF Inv, Kept, tables, history, There, IsAdminRole, Emptied, Bare, Granting
<1> QED BY <1>2, <1>4, <1>5, <1>6, <1>7 DEF Inv

LEMMA SeedSkipInv == ASSUME Inv, SeedSkip PROVE Inv'
<1>1. /\ next \in 1 .. Len(Order) /\ task[Seeder] = Idle /\ HasSlug(Order[next])
      /\ next' = next + 1
      /\ squatted' = IF \E i \in Ids : role[i].slug = Order[next] /\ ~ role[i].system
                     THEN squatted \cup {Order[next]} ELSE squatted
      /\ UNCHANGED <<tables, token, sent, task, asked, torn, mixed, seeded, appointed, usurped, anonymous>>
  BY DEF SeedSkip
<1>2. TypeOK'
  BY <1>1, OrderFacts DEF Inv, TypeOK, tables
<1>3. SameRows
  BY <1>1 DEF SameRows, tables
<1>4. Seeds'
  <2>1. \A s : Seeded(s) => Seeded(s)'
    BY <1>1 DEF Seeded, There, tables
  <2>2. PICK s \in SystemSlugs : s = Order[next]
    BY <1>1, OrderFacts
  <2>3. Seeded(s)'
    BY <1>1, <2>2 DEF Seeded, There, tables, HasSlug
  <2>4. \A j \in 1 .. Len(Order) : j < next' => j < next \/ j = next
    BY <1>1, OrderFacts
  <2>5. ASSUME NEW j \in 1 .. Len(Order), j < next' PROVE Seeded(Order[j])'
    BY <2>1, <2>2, <2>3, <2>4, <2>5 DEF Inv, Seeds
  <2>6. seeded' => \A x \in Slugs : Seeded(x)'
    BY <1>1, <2>1 DEF Inv, Seeds
  <2> QED BY <1>1, <2>5, <2>6 DEF Seeds
<1>5. Governed'
  BY <1>1, <1>3, GovernedKept DEF tables
<1>6. \A p \in Processes : Known(p)'
  BY <1>1, <1>3, KnownKept
<1>7. \A i \in Ids : Kept(i)'
  BY <1>1 DEF Inv, Kept, tables, There, IsAdminRole, Emptied, Bare, Granting
<1> QED BY <1>2, <1>4, <1>5, <1>6, <1>7 DEF Inv

LEMMA SeedRoleInv == ASSUME Inv, SeedRole PROVE Inv'
<1>1. /\ next \in 1 .. Len(Order) /\ task[Seeder] = Idle
      /\ task' = [task EXCEPT ![Seeder] =
                    [Idle EXCEPT !.pc = "insert", !.slug = Order[next], !.name = Order[next],
                                 !.list = DefaultsOf(Order[next])]]
      /\ UNCHANGED <<tables, token, sent, next, history>>
  BY DEF SeedRole
<1>2. PICK t \in Task :
        /\ task' = [task EXCEPT ![Seeder] = t]
        /\ t.pc = "insert" /\ t.slug = Order[next] /\ t.list = DefaultsOf(Order[next])
  <2> DEFINE u == [Idle EXCEPT !.pc = "insert", !.slug = Order[next], !.name = Order[next],
                               !.list = DefaultsOf(Order[next])]
  <2>1. Order[next] \in Names /\ DefaultsOf(Order[next]) \in SUBSET Permissions
    BY <1>1, OrderFacts, Catalogue
  <2>2. u \in Task /\ u.pc = "insert" /\ u.slug = Order[next] /\ u.list = DefaultsOf(Order[next])
    BY <2>1, RowFacts DEF Idle, Task, Steps
  <2> QED BY <1>1, <2>2
<1>3. Seeder \in Processes /\ Seeder \notin Employees
  BY DEF Processes
<1>4. task'[Seeder] = t
  BY <1>2, <1>3 DEF Inv, TypeOK
<1>5. TypeOK'
  BY <1>1, <1>2 DEF Inv, TypeOK, tables, history
<1>6. SameRows /\ ~ Bare(Seeder)
  BY <1>1, RowFacts DEF SameRows, tables, Bare
<1>7. Seeds'
  <2>1. \A s : Seeded(s) => Seeded(s)'
    BY <1>1 DEF Seeded, There, tables, history
  <2> QED BY <1>1, <1>2, <1>4, <2>1 DEF Inv, Seeds, history
<1>8. Governed'
  BY <1>1, <1>6, GovernedKept DEF tables, history
<1>9. Known(Seeder)'
  BY <1>2, <1>3, <1>4 DEF Known
<1>10. UNCHANGED <<grants, asked, mixed, torn, appointed>>
  BY <1>1 DEF history, tables
<1> QED BY <1>2, <1>3, <1>5, <1>6, <1>7, <1>8, <1>9, <1>10, TaskStep

LEMMA SeedEndInv == ASSUME Inv, SeedEnd PROVE Inv'
<1>1. /\ next = Len(Order) + 1 /\ next' = 0
      /\ UNCHANGED <<tables, token, sent, task, asked, torn, mixed, squatted, appointed, usurped, anonymous>>
  BY DEF SeedEnd
<1>2. seeded' = TRUE
  BY Zenon DEF SeedEnd
<1>3. TypeOK'
  BY <1>1, <1>2, OrderFacts DEF Inv, TypeOK, tables
<1>4. SameRows
  BY <1>1 DEF SameRows, tables
<1>5. Seeds'
  <2>1. \A s : Seeded(s) => Seeded(s)'
    BY <1>1 DEF Seeded, There, tables
  <2>2. task[Seeder] = Idle
    BY <1>1, OrderFacts DEF Inv, Seeds
  <2>3. \A j \in 1 .. Len(Order) : j < next
    BY <1>1, OrderFacts
  <2>4. \A s \in Slugs : Seeded(s)'
    BY <2>1, <2>3, OrderFacts DEF Inv, Seeds
  <2>5. \A j \in 1 .. Len(Order) : ~ (j < next')
    BY <1>1, OrderFacts
  <2> QED BY <1>1, <2>2, <2>4, <2>5 DEF Seeds
<1>6. Governed'
  BY <1>1, <1>4, GovernedKept DEF tables
<1>7. \A p \in Processes : Known(p)'
  BY <1>1, <1>4, KnownKept
<1>8. \A i \in Ids : Kept(i)'
  BY <1>1 DEF Inv, Kept, tables, There, IsAdminRole, Emptied, Bare, Granting
<1> QED BY <1>3, <1>5, <1>6, <1>7, <1>8 DEF Inv

LEMMA AppointInv ==
  ASSUME Inv, NEW es \in (SUBSET Employees) \ {{}}, Appoint(es) PROVE Inv'
<1>1. PICK i \in Ids :
        /\ There(i) /\ IsAdminRole(i)
        /\ held' = [e \in Employees |-> IF e \in es THEN held[e] \cup {i} ELSE held[e]]
  BY DEF Appoint
<1>2. UNCHANGED <<role, grants, token, sent, task, next, asked, torn, mixed, squatted, seeded,
                  usurped, anonymous>>
  BY DEF Appoint
<1>3. appointed' = TRUE
  BY Zenon DEF Appoint
<1>4. TypeOK'
  BY <1>1, <1>2, <1>3 DEF Inv, TypeOK
<1>5. SameRows
  BY <1>2 DEF SameRows
<1>6. Seeds'
  BY <1>2, <1>5, SeedsKept
<1>7. Governed'
  <2>1. PICK e \in Employees : e \in es
    OBVIOUS
  <2>2. e \in Admins'
    BY <1>1, <1>2, <2>1 DEF Admins, IsAdminRole
  <2>3. role[i].system
    BY <1>1 DEF Inv, Kept
  <2> QED BY <1>1, <1>2, <1>3, <2>2, <2>3 DEF Governed, AdminRemains, There, IsAdminRole
<1>8. \A p \in Processes : Known(p)'
  BY <1>2, <1>3, <1>5, KnownKept
<1>9. \A j \in Ids : Kept(j)'
  BY <1>2 DEF Inv, Kept, There, IsAdminRole, Emptied, Bare, Granting
<1> QED BY <1>4, <1>6, <1>7, <1>8, <1>9 DEF Inv

-----------------------------------------------------------------------------
(* Requests that end: an error, a crash, and the writes to employee_roles. *)

\* The process goes idle, having left a row that it had emptied as torn.
LEMMA FailsInv ==
  ASSUME Inv, NEW p \in Processes, Fails(p), torn \subseteq torn', torn' \subseteq Ids,
         Bare(p) => task[p].id \in torn',
         UNCHANGED <<tables, token, sent, asked, mixed, squatted, seeded, appointed, usurped, anonymous>>
  PROVE  Inv'
<1>1. /\ task' = [task EXCEPT ![p] = Idle] /\ next' = IF p = Seeder THEN 0 ELSE next
  BY DEF Fails, Done
<1>2. task'[p] = Idle /\ Idle \in Task /\ Idle.pc = "idle"
  BY <1>1, RowFacts DEF Inv, TypeOK
<1>3. TypeOK'
  BY <1>1, <1>2, OrderFacts DEF Inv, TypeOK, tables
<1>4. SameRows
  BY DEF SameRows, tables
<1>5. Seeds'
  <2>1. CASE p = Seeder
    <3>1. \A s : Seeded(s) => Seeded(s)'
      BY DEF Seeded, There, tables
    <3>2. next' = 0 /\ \A j \in 1 .. Len(Order) : ~ (j < 0)
      BY <1>1, <2>1, OrderFacts
    <3> QED BY <1>2, <2>1, <3>1, <3>2 DEF Inv, Seeds
  <2>2. CASE p # Seeder
    <3>1. task'[Seeder] = task[Seeder] /\ next' = next
      BY <1>1, <2>2 DEF Inv, TypeOK, Processes
    <3> QED BY <1>4, <3>1, SeedsKept
  <2> QED BY <2>1, <2>2
<1>6. Governed'
  BY <1>4, GovernedKept DEF tables
<1>7. Known(p)'
  BY <1>2 DEF Known
<1>8. UNCHANGED grants
  BY DEF tables
<1> QED BY <1>1, <1>2, <1>3, <1>4, <1>5, <1>6, <1>7, <1>8, TaskStep

LEMMA RefuseInsertInv ==
  ASSUME Inv, NEW p \in Processes, RefuseInsert(p) PROVE Inv'
<1>1. /\ task[p].pc = "insert" /\ Fails(p)
      /\ UNCHANGED <<tables, asked, torn, mixed, squatted, seeded, appointed, usurped, anonymous>>
      /\ UNCHANGED <<token, sent>>
  BY DEF RefuseInsert, history
<1>2. ~ Bare(p) /\ torn' \subseteq Ids
  BY <1>1 DEF Bare, Inv, TypeOK
<1> QED BY <1>1, <1>2, FailsInv

LEMMA RefuseGrantInv ==
  ASSUME Inv, NEW p \in Processes, RefuseGrant(p) PROVE Inv'
<1>1. /\ ~ (There(task[p].id) /\ task[p].list \cap grants[task[p].id] = {}) /\ Fails(p)
      /\ UNCHANGED <<tables, asked, torn, mixed, squatted, seeded, appointed, usurped, anonymous>>
      /\ UNCHANGED <<token, sent>>
  BY DEF RefuseGrant, history
<1>2. ~ Bare(p) /\ torn' \subseteq Ids
  BY <1>1 DEF Bare, Inv, TypeOK
<1> QED BY <1>1, <1>2, FailsInv

LEMMA DiesInv ==
  ASSUME Inv, NEW p \in Processes, Dies(p) PROVE Inv'
<1>1. /\ Fails(p) /\ torn' = IF Bare(p) THEN torn \cup {task[p].id} ELSE torn
      /\ UNCHANGED <<tables, asked, mixed, squatted, seeded, appointed, usurped, anonymous>>
      /\ UNCHANGED <<token, sent>>
  BY DEF Dies
<1>2. torn \subseteq torn' /\ torn' \subseteq Ids /\ (Bare(p) => task[p].id \in torn')
  BY <1>1 DEF Bare, Inv, TypeOK, Known
<1> QED BY <1>1, <1>2, FailsInv

LEMMA RenameInv ==
  ASSUME Inv, NEW e \in Employees, Rename(e) PROVE Inv'
<1> DEFINE i == task[e].id
           moved == There(i) /\ ~ \E j \in Ids \ {i} : There(j) /\ role[j].name = task[e].name
<1>1. /\ task[e].pc = "rename" /\ task' = [task EXCEPT ![e] = Idle]
      /\ role' = IF moved THEN [role EXCEPT ![i].name = task[e].name] ELSE role
      /\ UNCHANGED <<grants, held, token, sent, next, history>>
  BY DEF Rename, Done
<1>2. PICK d \in Ids, n \in Names \cup {None} : d = i /\ n = task[e].name
  BY <1>1 DEF Inv, Known, Processes, TypeOK, Task
<1>3. role' = [role EXCEPT ![d].name = n] \/ role' = role
  BY <1>1, <1>2
<1>4. role[d] \in Row
  BY DEF Inv, TypeOK
<1>5. role'[d].state = role[d].state /\ role'[d].slug = role[d].slug /\ role' \in [Ids -> Row]
  <2>1. ASSUME role' = [role EXCEPT ![d].name = n]
        PROVE  /\ role'[d].state = role[d].state /\ role'[d].slug = role[d].slug
               /\ role' \in [Ids -> Row]
    BY <1>2, <1>4, <2>1 DEF Inv, TypeOK, Row
  <2>2. role \in [Ids -> Row]
    BY DEF Inv, TypeOK
  <2> QED BY <1>3, <2>1, <2>2
<1>6. role'[d].system = role[d].system
  <2>1. ASSUME role' = [role EXCEPT ![d].name = n] PROVE role'[d].system = role[d].system
    BY <1>2, <1>4, <2>1, Zenon DEF Inv, TypeOK, Row
  <2> QED BY <1>3, <2>1, Zenon
<1>7. \A j \in Ids : j # d => role'[j] = role[j]
  BY <1>3 DEF Inv, TypeOK
<1>8. SameRows
  BY <1>5, <1>6, <1>7 DEF SameRows
<1>9. e \in Processes /\ e # Seeder /\ ~ Bare(e)
  BY <1>1 DEF Processes, Bare
<1>10. task'[e] = Idle /\ task'[Seeder] = task[Seeder] /\ Idle \in Task /\ Idle.pc = "idle"
  BY <1>1, <1>9, RowFacts DEF Inv, TypeOK, Processes
<1>11. TypeOK'
  BY <1>1, <1>5, <1>9, <1>10 DEF Inv, TypeOK, history
<1>12. Seeds' /\ Governed'
  BY <1>1, <1>8, <1>10, SeedsKept, GovernedKept DEF history
<1>13. Known(e)'
  BY <1>10 DEF Known
<1>14. UNCHANGED <<grants, asked, mixed, torn, appointed>>
  BY <1>1 DEF history
<1> QED BY <1>1, <1>8, <1>9, <1>10, <1>11, <1>12, <1>13, <1>14, TaskStep

LEMMA AssignInv ==
  ASSUME Inv, NEW e \in Employees, Assign(e) PROVE Inv'
<1>1. PICK f \in Employees : f = task[e].emp
  BY DEF Assign, Inv, Known, Processes
<1>2. task[e].pc = "assign" /\ UNCHANGED <<role, grants, token, sent, next, history>>
  BY DEF Assign
<1>3. PICK i \in task[e].todo :
        \/ /\ There(i)
           /\ held' = [held EXCEPT ![f] = @ \cup {i}]
           /\ task' = [task EXCEPT ![e] = IF task[e].todo = {i} THEN Idle
                                          ELSE [task[e] EXCEPT !.todo = @ \ {i}]]
        \/ /\ task' = [task EXCEPT ![e] = Idle]
           /\ UNCHANGED held
  BY <1>1 DEF Assign, Done
<1>4. e \in Processes /\ e # Seeder /\ task[e] \in Task /\ i \in Ids
  BY <1>3 DEF Processes, Inv, TypeOK, Task
<1>5. appointed
  BY <1>2, <1>4, RowFacts DEF Inv, Known
<1>6. PICK t \in Task : /\ task' = [task EXCEPT ![e] = t]
                        /\ t.pc \in {"idle", "assign"} /\ (t.pc = "assign" => t.emp = f)
  <2> DEFINE u == [task[e] EXCEPT !.todo = @ \ {i}]
  <2>1. u \in Task /\ u.pc = "assign" /\ u.emp = f
    BY <1>1, <1>2, <1>4 DEF Task
  <2> QED BY <1>3, <2>1, RowFacts
<1>7. \A g \in Employees : held[g] \subseteq held'[g]
  BY <1>3 DEF Inv, TypeOK
<1>8. TypeOK'
  BY <1>2, <1>3, <1>4, <1>6 DEF Inv, TypeOK, history
<1>9. SameRows /\ ~ Bare(e)
  BY <1>2 DEF SameRows, Bare
<1>10. Seeds'
  BY <1>2, <1>4, <1>6, <1>9, SeedsKept DEF Inv, TypeOK, history, Processes
<1>11. Governed'
  <2>1. Admins \subseteq Admins'
    BY <1>2, <1>7 DEF Admins, IsAdminRole
  <2> QED BY <1>2, <1>5, <2>1 DEF Inv, Governed, AdminRemains, There, IsAdminRole, history
<1>12. Known(e)'
  <2>1. task'[e] = t
    BY <1>4, <1>6 DEF Inv, TypeOK
  <2> QED BY <1>2, <1>5, <1>6, <2>1 DEF Known, history
<1>13. UNCHANGED <<grants, asked, mixed, torn, appointed>>
  BY <1>2 DEF history
<1> QED BY <1>4, <1>6, <1>8, <1>9, <1>10, <1>11, <1>12, <1>13, TaskStep

LEMMA RevokeInv ==
  ASSUME Inv, NEW e \in Employees, Revoke(e) PROVE Inv'
<1>1. PICK f \in Employees : f = task[e].emp
  BY DEF Revoke, Inv, Known, Processes
<1> DEFINE demoted == f \in Admins /\ \E i \in held[f] \cap task[e].todo : IsAdminRole(i)
<1>2. /\ task[e].pc = "revoke"
      /\ held' = [held EXCEPT ![f] = @ \ task[e].todo]
      /\ task' = [task EXCEPT ![e] = Idle]
      /\ UNCHANGED <<role, grants, token, sent, next, asked, torn, mixed, squatted, seeded, appointed>>
  BY <1>1 DEF Revoke, Done
<1>3. (usurped' <=> (usurped \/ (demoted /\ e \notin Admins))) /\ usurped' \in BOOLEAN
  BY <1>1, Zenon DEF Revoke
<1>4. (anonymous' <=> (anonymous \/ (demoted /\ e = f /\ ~ task[e].signed))) /\ anonymous' \in BOOLEAN
  BY <1>1, Zenon DEF Revoke
<1>5. e \in Processes /\ e # Seeder /\ task[e] \in Task /\ task'[e] = Idle /\ ~ Bare(e)
  BY <1>2 DEF Processes, Inv, TypeOK, Bare
<1>6. appointed
  BY <1>2, <1>5, RowFacts DEF Inv, Known
<1>7. TypeOK'
  BY <1>2, <1>3, <1>4, <1>5, RowFacts DEF Inv, TypeOK
<1>8. SameRows
  BY <1>2 DEF SameRows
<1>9. Seeds'
  BY <1>2, <1>5, <1>8, SeedsKept DEF Inv, TypeOK, Processes
<1>10. \A g \in Admins : g \in Admins' \/ (g = f /\ demoted)
  <2>1. ASSUME NEW g \in Admins, g # f PROVE g \in Admins'
    BY <1>2, <2>1 DEF Admins, IsAdminRole, Inv, TypeOK
  <2>2. ASSUME f \in Admins, ~ demoted PROVE f \in Admins'
    <3>1. PICK i \in held[f] : IsAdminRole(i)
      BY <2>2 DEF Admins
    <3>2. i \notin task[e].todo
      BY <2>2, <3>1
    <3> QED BY <1>2, <3>1, <3>2 DEF Admins, IsAdminRole, Inv, TypeOK
  <2> QED BY <2>1, <2>2
<1>11. demoted /\ e = f => ~ task[e].signed
  BY <1>1, <1>2, <1>5 DEF Inv, Known, IsAdminRole
<1>12. AdminRemains'
  <2>1. Admins # {} \/ usurped \/ anonymous
    BY <1>6 DEF Inv, Governed, AdminRemains
  <2>2. CASE Admins # {}
    <3>1. CASE demoted
      BY <1>3, <1>4, <1>10, <1>11, <3>1 DEF AdminRemains
    <3>2. CASE ~ demoted
      BY <1>10, <2>2, <3>2 DEF AdminRemains
    <3> QED BY <3>1, <3>2
  <2> QED BY <1>3, <1>4, <2>1, <2>2 DEF AdminRemains
<1>13. Governed'
  BY <1>2, <1>6, <1>12 DEF Inv, Governed, There, IsAdminRole
<1>14. Known(e)'
  BY <1>2, <1>5, <1>6, RowFacts DEF Known
<1> QED BY <1>2, <1>5, <1>7, <1>8, <1>9, <1>13, <1>14, RowFacts, TaskStep

-----------------------------------------------------------------------------
(* The writes to roles and role_permissions. *)

LEMMA InsertInv ==
  ASSUME Inv, NEW p \in Processes, Insert(p) PROVE Inv'
<1>1. /\ task[p].pc = "insert" /\ ~ Taken(task[p].slug, task[p].name)
      /\ UNCHANGED <<grants, held, token, sent, next, history>>
  BY DEF Insert
<1>2. task[p] \in Task
  BY DEF Inv, TypeOK
<1>3. PICK i \in Ids, b \in BOOLEAN :
        /\ role[i] = Free
        /\ role' = [role EXCEPT ![i] = [state |-> "there", slug |-> task[p].slug,
                                        name |-> task[p].name, system |-> b]]
        /\ task' = [task EXCEPT ![p] = [@ EXCEPT !.pc = "clear", !.id = i, !.name = None]]
        /\ b <=> p = Seeder
  <2> DEFINE new == (p = Seeder)
  <2>1. PICK i \in Ids :
          /\ role[i] = Free
          /\ role' = [role EXCEPT ![i] = [state |-> "there", slug |-> task[p].slug,
                                          name |-> task[p].name, system |-> new]]
          /\ task' = [task EXCEPT ![p] = [@ EXCEPT !.pc = "clear", !.id = i, !.name = None]]
    BY Zenon DEF Insert
  <2>2. new \in BOOLEAN
    OBVIOUS
  <2>3. new <=> p = Seeder
    OBVIOUS
  <2> HIDE DEF new
  <2> QED BY <2>1, <2>2, <2>3, Zenon
<1>4. PICK r \in Row : /\ role' = [role EXCEPT ![i] = r]
                       /\ r.state = "there" /\ r.slug = task[p].slug
                       /\ r.system <=> p = Seeder
  <2> DEFINE n == [state |-> "there", slug |-> task[p].slug, name |-> task[p].name, system |-> b]
  <2>1. n \in Row /\ n.state = "there" /\ n.slug = task[p].slug
    BY <1>2 DEF Row, Task
  <2>2. n.system <=> p = Seeder
    BY <1>3, Zenon
  <2>3. role' = [role EXCEPT ![i] = n]
    BY <1>3, Zenon
  <2> QED BY <2>1, <2>2, <2>3, Zenon
<1>5. PICK t \in Task : /\ task' = [task EXCEPT ![p] = t] /\ t.pc = "clear" /\ t.id = i
                        /\ t.name = None /\ t.list = task[p].list
  <2> DEFINE u == [task[p] EXCEPT !.pc = "clear", !.id = i, !.name = None]
  <2>1. u \in Task /\ u.pc = "clear" /\ u.id = i /\ u.name = None /\ u.list = task[p].list
    BY <1>2 DEF Task, Steps
  <2>2. task' = [task EXCEPT ![p] = u]
    BY <1>3
  <2> QED BY <2>1, <2>2
<1>6. /\ role'[i] = r /\ \A j \in Ids \ {i} : role'[j] = role[j]
      /\ task'[p] = t /\ \A q \in Processes \ {p} : task'[q] = task[q]
  BY <1>4, <1>5 DEF Inv, TypeOK
<1>7. role[i].state = "free" /\ role[i].slug = None /\ grants[i] = {} /\ asked[i] = {}
  BY <1>3, RowFacts DEF Inv, Kept, There
<1>8. TypeOK'
  BY <1>1, <1>4, <1>5 DEF Inv, TypeOK, history
<1>9. Seeds'
  <2>1. \A s : Seeded(s) => Seeded(s)'
    BY <1>1, <1>6, <1>7 DEF Seeded, There, history
  <2>2. (\A j \in 1 .. Len(Order) : j < next' => Seeded(Order[j])')
    BY <1>1, <2>1 DEF Inv, Seeds
  <2>3. seeded' => \A s \in Slugs : Seeded(s)'
    BY <1>1, <2>1 DEF Inv, Seeds, history
  <2>4. CASE p = Seeder
    <3>1. task[Seeder] # Idle
      BY <1>1, <2>4, RowFacts
    <3> QED BY <1>1, <1>4, <1>5, <1>6, <2>2, <2>3, <2>4, <3>1 DEF Inv, Seeds
  <2>5. CASE p # Seeder
    <3>1. task'[Seeder] = task[Seeder] /\ Seeder \in Processes
      BY <1>6, <2>5 DEF Processes
    <3>2. task[Seeder].pc \in {"clear", "grant"} => task[Seeder].id \in Ids /\ task[Seeder].id # i
      BY <1>7, <3>1, RowFacts DEF Inv, Seeds, Known
    <3> QED BY <1>1, <1>6, <2>2, <2>3, <3>1, <3>2 DEF Inv, Seeds
  <2> QED BY <2>4, <2>5
<1>10. p # Seeder => appointed /\ task[p].slug # "tenant_admin"
  <2>1. ASSUME p # Seeder PROVE appointed
    BY <1>1, <2>1, RowFacts DEF Inv, Known, Processes
  <2>2. ASSUME appointed PROVE task[p].slug # "tenant_admin"
    BY <1>1, <2>2 DEF Inv, Governed, IsAdminRole, Taken
  <2> QED BY <2>1, <2>2
<1>11. Governed'
  <2>1. Admins \subseteq Admins'
    <3>1. None # "tenant_admin"
      BY DEF SystemSlugs
    <3>2. ASSUME NEW f \in Admins PROVE f \in Admins'
      <4>1. PICK j \in held[f] : IsAdminRole(j) /\ j \in Ids /\ f \in Employees
        BY DEF Admins, Inv, TypeOK
      <4>2. j # i
        BY <1>7, <3>1, <4>1 DEF IsAdminRole
      <4> QED BY <1>1, <1>6, <4>1, <4>2 DEF Admins, IsAdminRole
    <3> QED BY <3>2
  <2>2. \A j \in Ids : There(j) => role'[j] = role[j]
    BY <1>6, <1>7 DEF There
  <2>3. AdminRemains'
    BY <1>1, <2>1 DEF Inv, Governed, AdminRemains, history
  <2> QED BY <1>1, <2>2, <2>3 DEF Inv, Governed, There, IsAdminRole, history
<1>12. ASSUME NEW q \in Processes PROVE Known(q)'
  <2>1. CASE q = p
    <3>1. p = Seeder => DefaultsOf(r.slug) = t.list
      BY <1>1, <1>4, <1>5, RowFacts DEF Inv, Seeds
    <3> QED BY <1>1, <1>4, <1>5, <1>6, <1>10, <2>1, <3>1 DEF Known, history, Processes
  <2>2. CASE q # p
    <3>1. task'[q] = task[q] /\ task[q].todo \subseteq Ids
      BY <1>6, <2>2 DEF Inv, TypeOK, Task
    <3>2. \A j \in Ids : role[j].state # "free" => role'[j] = role[j]
      BY <1>6, <1>7
    <3> QED BY <1>1, <3>1, <3>2 DEF Inv, Known, history
  <2> QED BY <2>1, <2>2
<1>13. ASSUME NEW j \in Ids PROVE Kept(j)'
  <2>1. \A q \in Processes : Granting(q, j)' => Granting(q, j) /\ j # i
    <3>1. ASSUME NEW q \in Processes, Granting(q, j)' PROVE Granting(q, j) /\ j # i
      <4>1. q # p /\ task'[q] = task[q]
        BY <1>5, <1>6, <3>1 DEF Granting
      <4>2. Granting(q, j)
        BY <3>1, <4>1 DEF Granting
      <4> QED BY <1>7, <4>2 DEF Granting, Inv, Known
    <3> QED BY <3>1
  <2>2. CASE j = i
    <3>1. Emptied(i)'
      BY <1>1, <1>4, <1>5, <1>6, <1>7 DEF Emptied, Bare, There, history
    <3>2. IsAdminRole(i)' => role'[i].system
      BY <1>4, <1>6, <1>10 DEF IsAdminRole
    <3> QED BY <1>1, <1>4, <1>6, <1>7, <2>1, <2>2, <3>1, <3>2 DEF Kept, There, history
  <2>3. CASE j # i
    <3>1. Emptied(j) => Emptied(j)'
      BY <1>1, <1>6, <2>3 DEF Emptied, Bare, There, history
    <3> QED BY <1>1, <1>6, <2>1, <2>3, <3>1 DEF Inv, Kept, There, IsAdminRole, history
  <2> QED BY <2>2, <2>3
<1> QED BY <1>8, <1>9, <1>11, <1>12, <1>13 DEF Inv

LEMMA ClearInv ==
  ASSUME Inv, NEW p \in Processes, Clear(p) PROVE Inv'
<1>1. PICK i \in Ids : i = task[p].id
  BY DEF Clear, Inv, Known
<1>2. /\ task[p].pc = "clear" /\ task[p] \in Task
      /\ grants' = [grants EXCEPT ![i] = {}]
      /\ mixed' = IF Overlapped(p, i) THEN mixed \cup {i} ELSE mixed \ {i}
      /\ UNCHANGED <<role, held, token, sent, next, asked, torn, squatted, seeded, appointed, usurped,
                     anonymous>>
  BY <1>1 DEF Clear, Inv, TypeOK
<1>3. PICK t \in Task : /\ task' = [task EXCEPT ![p] = t]
                        /\ t.pc = "grant" /\ t.id = i /\ t.list = task[p].list /\ t.name = task[p].name
  <2> DEFINE u == [task[p] EXCEPT !.pc = "grant"]
  <2>1. u \in Task /\ u.pc = "grant" /\ u.id = i /\ u.list = task[p].list /\ u.name = task[p].name
    BY <1>1, <1>2 DEF Task, Steps
  <2> QED BY <2>1 DEF Clear
<1>4. task'[p] = t /\ \A q \in Processes \ {p} : task'[q] = task[q]
  BY <1>3 DEF Inv, TypeOK
<1>5. grants'[i] = {} /\ \A j \in Ids \ {i} : grants'[j] = grants[j] /\ (j \in mixed' <=> j \in mixed)
  BY <1>2 DEF Inv, TypeOK
<1>6. TypeOK'
  BY <1>2, <1>3 DEF Inv, TypeOK
<1>7. SameRows
  BY <1>2 DEF SameRows
<1>8. Seeds'
  <2>1. CASE p = Seeder
    <3>1. \A s : Seeded(s) => Seeded(s)'
      BY <1>2 DEF Seeded, There
    <3>2. task[Seeder] # Idle
      BY <1>2, <2>1, RowFacts
    <3> QED BY <1>1, <1>2, <1>3, <1>4, <2>1, <3>1, <3>2 DEF Inv, Seeds
  <2>2. CASE p # Seeder
    BY <1>2, <1>4, <1>7, <2>2, SeedsKept DEF Processes
  <2> QED BY <2>1, <2>2
<1>9. Governed'
  BY <1>2, <1>7, GovernedKept
<1>10. ASSUME NEW q \in Processes PROVE Known(q)'
  <2>1. CASE q = p
    BY <1>1, <1>2, <1>3, <1>4, <2>1, RowFacts DEF Inv, Known
  <2>2. CASE q # p
    BY <1>2, <1>4, <1>7, <2>2, KnownKept
  <2> QED BY <2>1, <2>2
<1>11. ASSUME NEW j \in Ids PROVE Kept(j)'
  <2>1. CASE j = i
    <3>1. There(i) => Emptied(i)'
      BY <1>2, <1>3, <1>4, <1>5 DEF Emptied, Bare, There
    <3>2. ~ There(i) => asked[i] = {}
      BY DEF Inv, Kept
    <3>3. i \notin mixed' => \A q \in Processes : Granting(q, i)' => q = p
      BY <1>2, <1>4 DEF Granting, Overlapped
    <3> QED BY <1>2, <1>5, <2>1, <3>1, <3>2, <3>3 DEF Inv, Kept, There, IsAdminRole
  <2>2. CASE j # i
    <3>1. \A q \in Processes : Granting(q, j)' => Granting(q, j)
      BY <1>3, <1>4, <2>2 DEF Granting
    <3>2. Emptied(j) => Emptied(j)'
      BY <1>1, <1>2, <1>4, <1>5, <2>2 DEF Emptied, Bare, There
    <3> QED BY <1>2, <1>5, <2>2, <3>1, <3>2 DEF Inv, Kept, There, IsAdminRole
  <2> QED BY <2>1, <2>2
<1> QED BY <1>6, <1>8, <1>9, <1>10, <1>11 DEF Inv

LEMMA GrantInv ==
  ASSUME Inv, NEW p \in Processes, Grant(p) PROVE Inv'
<1>1. PICK i \in Ids : i = task[p].id
  BY DEF Grant, Inv, Known
<1>2. /\ task[p].pc = "grant" /\ task[p] \in Task /\ There(i)
      /\ grants' = [grants EXCEPT ![i] = @ \cup task[p].list]
      /\ asked' = [asked EXCEPT ![i] = task[p].list]
      /\ torn' = torn \ {i}
      /\ next' = IF p = Seeder THEN next + 1 ELSE next
      /\ UNCHANGED <<role, held, token, sent, mixed, squatted, seeded, appointed, usurped, anonymous>>
  BY <1>1 DEF Grant, Inv, TypeOK
<1>3. PICK t \in Task : /\ task' = [task EXCEPT ![p] = t]
                        /\ t = Idle \/ (t.pc = "rename" /\ t.id = i /\ task[p].name # None)
  <2> DEFINE u == [task[p] EXCEPT !.pc = "rename"]
  <2>1. u \in Task /\ u.pc = "rename" /\ u.id = i
    BY <1>1, <1>2 DEF Task, Steps
  <2> QED BY <2>1, RowFacts DEF Grant, Done
<1>4. task'[p] = t /\ \A q \in Processes \ {p} : task'[q] = task[q]
  BY <1>3 DEF Inv, TypeOK
<1>5. /\ grants'[i] = grants[i] \cup task[p].list /\ asked'[i] = task[p].list
      /\ \A j \in Ids \ {i} : grants'[j] = grants[j] /\ asked'[j] = asked[j]
  BY <1>2 DEF Inv, TypeOK
<1>6. t.pc \in {"idle", "rename"} /\ task[p] # Idle
  BY <1>2, <1>3, RowFacts
<1>7. TypeOK'
  <2>1. next' \in 0 .. Len(Order) + 1
    BY <1>2, <1>6, OrderFacts DEF Inv, TypeOK, Seeds
  <2>2. task[p].list \subseteq Permissions
    BY <1>2 DEF Task
  <2> QED BY <1>2, <1>3, <2>1, <2>2 DEF Inv, TypeOK
<1>8. SameRows
  BY <1>2 DEF SameRows
<1>9. Seeds'
  <2>1. CASE p = Seeder
    <3>1. \A s : Seeded(s) => Seeded(s)'
      BY <1>2 DEF Seeded, There
    <3>2. PICK s \in SystemSlugs : s = Order[next]
      BY <1>6, <2>1, OrderFacts DEF Inv, Seeds
    <3>3. Seeded(s)'
      BY <1>1, <1>2, <1>6, <2>1, <3>2 DEF Inv, Seeds, Seeded, There
    <3>4. task'[Seeder] = Idle
      BY <1>2, <1>3, <1>4, <1>6, <2>1 DEF Inv, Seeds
    <3>5. ASSUME NEW j \in 1 .. Len(Order), j < next' PROVE Seeded(Order[j])'
      <4>1. j < next \/ j = next
        BY <1>2, <2>1, <3>5, OrderFacts DEF Inv, TypeOK
      <4> QED BY <3>1, <3>2, <3>3, <4>1 DEF Inv, Seeds
    <3>6. seeded' => \A x \in Slugs : Seeded(x)'
      BY <1>2, <3>1 DEF Inv, Seeds
    <3> QED BY <3>4, <3>5, <3>6 DEF Seeds
  <2>2. CASE p # Seeder
    BY <1>2, <1>4, <1>8, <2>2, SeedsKept DEF Processes
  <2> QED BY <2>1, <2>2
<1>10. Governed'
  BY <1>2, <1>8, GovernedKept
<1>11. ASSUME NEW q \in Processes PROVE Known(q)'
  <2>1. CASE q = p
    BY <1>1, <1>2, <1>3, <1>4, <1>6, <2>1, RowFacts DEF Inv, Known
  <2>2. CASE q # p
    BY <1>2, <1>4, <1>8, <2>2, KnownKept
  <2> QED BY <2>1, <2>2
<1>12. ASSUME NEW j \in Ids PROVE Kept(j)'
  <2>1. \A q \in Processes : Granting(q, j)' => Granting(q, j) /\ q # p
    BY <1>4, <1>6 DEF Granting
  <2>2. CASE j = i
    <3>1. Granting(p, i)
      BY <1>1, <1>2 DEF Granting
    <3>2. i \notin mixed => grants'[i] = asked'[i]
      BY <1>2, <1>5, <3>1 DEF Inv, Kept
    <3>3. role[i].system => DefaultsOf(role[i].slug) \subseteq grants'[i]
      BY <1>1, <1>2, <1>5 DEF Inv, Known, There
    <3>4. i \notin mixed => \A q \in Processes : ~ Granting(q, i)'
      BY <1>2, <2>1, <2>2, <3>1 DEF Inv, Kept
    <3> QED BY <1>2, <2>2, <3>2, <3>3, <3>4 DEF Inv, Kept, There, IsAdminRole
  <2>3. CASE j # i
    <3>1. Emptied(j) => Emptied(j)'
      BY <1>1, <1>2, <1>4, <1>5, <2>3 DEF Emptied, Bare, There
    <3> QED BY <1>2, <1>5, <2>1, <2>3, <3>1 DEF Inv, Kept, There, IsAdminRole
  <2> QED BY <2>2, <2>3
<1> QED BY <1>7, <1>9, <1>10, <1>11, <1>12 DEF Inv

LEMMA DeleteRoleInv ==
  ASSUME Inv, NEW e \in Employees, NEW i \in Ids, sent < MaxRequests, DeleteRole(e, i) PROVE Inv'
<1>1. /\ There(i) /\ ~ role[i].system /\ sent' = sent + 1
      /\ role' = [role EXCEPT ![i] = [Free EXCEPT !.state = "gone"]]
      /\ grants' = [grants EXCEPT ![i] = {}]
      /\ held' = [f \in Employees |-> held[f] \ {i}]
      /\ asked' = [asked EXCEPT ![i] = {}]
      /\ torn' = torn \ {i} /\ mixed' = mixed \ {i}
      /\ UNCHANGED <<token, task, next, squatted, seeded, appointed, usurped, anonymous>>
  BY DEF DeleteRole, Admitted
<1>2. appointed
  BY AdmittedOnce DEF DeleteRole
<1>3. PICK r \in Row : role' = [role EXCEPT ![i] = r] /\ r.state = "gone" /\ r.slug = None
  <2> DEFINE g == [Free EXCEPT !.state = "gone"]
  <2>1. g \in Row /\ g.state = "gone" /\ g.slug = None
    BY DEF Free, Row
  <2> QED BY <1>1, <2>1
<1>4. /\ role'[i] = r /\ \A j \in Ids \ {i} : role'[j] = role[j]
      /\ grants'[i] = {} /\ asked'[i] = {}
      /\ \A j \in Ids \ {i} : grants'[j] = grants[j] /\ asked'[j] = asked[j]
  BY <1>1, <1>3 DEF Inv, TypeOK
<1>5. TypeOK'
  BY <1>1, <1>3 DEF Inv, TypeOK
<1>6. None # "tenant_admin"
  BY DEF SystemSlugs
<1>7. Seeds'
  <2>1. \A s : Seeded(s) => Seeded(s)'
    BY <1>1, <1>4 DEF Seeded, There
  <2>2. task[Seeder].pc \in {"clear", "grant"} /\ task[Seeder] # Idle =>
          task[Seeder].id \in Ids /\ task[Seeder].id # i
    BY <1>1 DEF Inv, Seeds, Known, Processes
  <2> QED BY <1>1, <1>4, <2>1, <2>2 DEF Inv, Seeds
<1>8. Governed'
  <2>1. ASSUME NEW f \in Admins PROVE f \in Admins'
    <3>1. PICK j \in held[f] : IsAdminRole(j) /\ j \in Ids /\ f \in Employees
      BY DEF Admins, Inv, TypeOK
    <3>2. j # i
      BY <1>1, <3>1 DEF Inv, Kept
    <3> QED BY <1>1, <1>4, <3>1, <3>2 DEF Admins, IsAdminRole
  <2>2. AdminRemains'
    BY <1>1, <2>1 DEF Inv, Governed, AdminRemains
  <2>3. \E j \in Ids : There(j)' /\ role'[j].system /\ IsAdminRole(j)'
    BY <1>1, <1>2, <1>4 DEF Inv, Governed, There, IsAdminRole
  <2> QED BY <1>1, <1>2, <2>2, <2>3 DEF Governed
<1>9. ASSUME NEW q \in Processes PROVE Known(q)'
  <2>1. task[q].todo \subseteq Ids
    BY DEF Inv, TypeOK, Task
  <2>2. ASSUME NEW j \in Ids
        PROVE  /\ role[j].state # "free" => role'[j].state # "free"
               /\ role'[j].state = "there" => role'[j] = role[j]
               /\ role[j].slug # "tenant_admin" => role'[j].slug # "tenant_admin"
    BY <1>3, <1>4, <1>6
  <2> QED BY <1>1, <1>2, <2>1, <2>2 DEF Inv, Known
<1>10. ASSUME NEW j \in Ids PROVE Kept(j)'
  <2>1. CASE j = i
    BY <1>3, <1>4, <1>6, <2>1 DEF Kept, There, IsAdminRole
  <2>2. CASE j # i
    <3>1. Emptied(j) => Emptied(j)'
      BY <1>1, <1>4, <2>2 DEF Emptied, Bare, There
    <3>2. \A q \in Processes : Granting(q, j)' <=> Granting(q, j)
      BY <1>1 DEF Granting
    <3> QED BY <1>1, <1>4, <2>2, <3>1, <3>2 DEF Inv, Kept, There, IsAdminRole
  <2> QED BY <2>1, <2>2
<1> QED BY <1>5, <1>7, <1>8, <1>9, <1>10 DEF Inv

-----------------------------------------------------------------------------
LEMMA NextInv == Inv /\ [Next]_vars => Inv'
<1> SUFFICES ASSUME Inv, [Next]_vars PROVE Inv'
  OBVIOUS
<1>1. ASSUME NEW e \in Employees, task[e] = Idle, sent < MaxRequests, Starts(e) PROVE Inv'
  <2>1. ASSUME NEW s \in Names, NEW n \in Names, NEW l \in Lists, CreateRole(e, s, n, l) PROVE Inv'
    BY <1>1, <2>1, CreateRoleInv
  <2>2. ASSUME NEW i \in Ids, NEW n \in Names \cup {None}, NEW l \in Lists, UpdateRole(e, i, n, l)
        PROVE  Inv'
    BY <1>1, <2>2, UpdateRoleInv
  <2>3. ASSUME NEW i \in Ids, NEW n \in Names, RenameRole(e, i, n) PROVE Inv'
    BY <1>1, <2>3, RenameRoleInv
  <2>4. ASSUME NEW f \in Employees, NEW r \in (SUBSET Ids) \ {{}}, AssignRoles(e, f, r) PROVE Inv'
    <3>1. r \in SUBSET Ids
      OBVIOUS
    <3> QED BY <1>1, <2>4, <3>1, AssignRolesInv
  <2>5. ASSUME NEW f \in Employees, NEW r \in (SUBSET Ids) \ {{}}, NEW s \in Signed,
               RevokeRoles(e, f, r, s)
        PROVE  Inv'
    <3>1. r \in SUBSET Ids
      OBVIOUS
    <3> QED BY <1>1, <2>5, <3>1, RevokeRolesInv
  <2> QED BY <1>1, <2>1, <2>2, <2>3, <2>4, <2>5, DeleteRoleInv, Zenon DEF Starts
<1>2. ASSUME NEW e \in Employees, Request(e) PROVE Inv'
  BY <1>1, <1>2, LoginInv, ExpireInv, RenameInv, AssignInv, RevokeInv, Zenon DEF Request
<1>3. ASSUME NEW p \in Processes, Write(p) PROVE Inv'
  BY <1>3, InsertInv, RefuseInsertInv, ClearInv, GrantInv, RefuseGrantInv, DiesInv, Zenon DEF Write
<1>4. CASE Seeding
  BY <1>4, StartSeedingInv, SeedSkipInv, SeedRoleInv, SeedEndInv, Zenon DEF Seeding
<1>5. CASE UNCHANGED vars
  <2>1. SameRows
    BY <1>5 DEF SameRows, vars, tables
  <2>2. TypeOK' /\ Seeds' /\ Governed'
    BY <1>5, <2>1, SeedsKept, GovernedKept DEF Inv, TypeOK, vars, tables, history
  <2>3. \A p \in Processes : Known(p)'
    BY <1>5, <2>1, KnownKept DEF vars, tables, history
  <2>4. \A i \in Ids : Kept(i)'
    BY <1>5 DEF Inv, Kept, vars, tables, history, There, IsAdminRole, Emptied, Bare, Granting
  <2> QED BY <2>2, <2>3, <2>4 DEF Inv
<1> QED BY <1>2, <1>3, <1>4, <1>5, AppointInv, Zenon DEF Next

LEMMA Invariance == Spec => []Inv
BY InitInv, NextInv, PTL DEF Spec

-----------------------------------------------------------------------------
(***************************************************************************)
(* That the seeding leaves no system role empty but over a crash is a      *)
(* second invariant on top of Inv.                                         *)
(***************************************************************************)

\* The seeding is between the INSERT of row i and that of its permissions.
Filling(i) == task[Seeder].pc \in {"clear", "grant"} /\ task[Seeder].id = i

Filled ==
  /\ \A i \in Ids : There(i) /\ role[i].system =>
       /\ role[i].slug \in SystemSlugs
       /\ grants[i] # {} => asked[i] # {}
       /\ asked[i] # {} \/ i \in torn \/ Filling(i)
  /\ seeded => \A i \in Ids : Filling(i) => role[i].slug \in squatted

LEMMA DefaultsNotEmpty == \A s \in SystemSlugs : DefaultsOf(s) # {}
<1>1. "leave:request" \in LeaveOwn /\ LeaveOwn \subseteq LeaveCodes
  BY DEF LeaveOwn, LeaveCodes
<1>2. \A s \in SystemSlugs : "leave:request" \in DefaultsOf(s)
  BY <1>1 DEF SystemSlugs, DefaultsOf, TenantAdmin, HrManager, PayrollOfficer, DepartmentLead, Employee
<1> QED BY <1>2

LEMMA FillingFacts ==
  ASSUME Inv, NEW i \in Ids, Filling(i)
  PROVE  There(i) /\ role[i].system /\ role[i].slug = Order[next] /\ next \in 1 .. Len(Order)
BY RowFacts DEF Inv, Seeds, Filling, There

\* A step that grants nothing new keeps it, unless it takes the seeding off a row.
LEMMA FilledKept ==
  ASSUME Inv, Filled, SameRows, UNCHANGED <<asked, seeded>>, torn \subseteq torn',
         squatted \subseteq squatted',
         \A i \in Ids : grants'[i] # {} => grants[i] # {},
         \A i \in Ids : Filling(i)' => Filling(i),
         \A i \in Ids : Filling(i) => Filling(i)' \/ asked[i] # {} \/ i \in torn'
  PROVE  Filled'
BY DEF Filled, SameRows, There

\* A request that only starts, or that writes no permissions.
LEMMA FilledAside ==
  ASSUME Inv, Filled, SameRows, UNCHANGED <<grants, asked, torn, squatted, seeded>>,
         task'[Seeder] = task[Seeder]
  PROVE  Filled'
BY FilledKept DEF Filling

LEMMA FilledBegin ==
  ASSUME Inv, Filled, NEW e \in Employees, NEW need, NEW t, Begin(e, need, t)
  PROVE  Filled'
<1>1. e # Seeder /\ Seeder \in Processes
  BY DEF Processes
<1>2. /\ task' = [task EXCEPT ![e] = t] /\ UNCHANGED <<tables, history>>
  BY DEF Begin
<1>3. task'[Seeder] = task[Seeder] /\ SameRows
  BY <1>1, <1>2 DEF Inv, TypeOK, SameRows, tables
<1> QED BY <1>2, <1>3, FilledAside DEF tables, history

\* The process that fails leaves its row as it is, granted or torn.
LEMMA FilledFails ==
  ASSUME Inv, Filled, NEW p \in Processes, Fails(p), torn \subseteq torn',
         UNCHANGED <<tables, asked, squatted, seeded>>,
         p = Seeder /\ Filling(task[p].id) => grants[task[p].id] # {} \/ task[p].id \in torn'
  PROVE  Filled'
<1>1. /\ \A q \in Processes \ {p} : task'[q] = task[q]
      /\ task'[p] = Idle /\ Idle.pc = "idle" /\ Seeder \in Processes
  BY RowFacts DEF Fails, Done, Inv, TypeOK, Processes
<1>2. SameRows
  BY DEF SameRows, tables
<1>3. \A i \in Ids : Filling(i)' => Filling(i)
  BY <1>1 DEF Filling
<1>4. ASSUME NEW i \in Ids, Filling(i) PROVE Filling(i)' \/ asked[i] # {} \/ i \in torn'
  <2>1. CASE p = Seeder
    BY <1>4, <2>1, FillingFacts DEF Filled, Filling
  <2>2. CASE p # Seeder
    BY <1>1, <1>4, <2>2 DEF Filling
  <2> QED BY <2>1, <2>2
<1> QED BY <1>2, <1>3, <1>4, FilledKept DEF tables

LEMMA FilledInsert ==
  ASSUME Inv, Inv', Filled, NEW p \in Processes, Insert(p) PROVE Filled'
<1> DEFINE n == [state |-> "there", slug |-> task[p].slug, name |-> task[p].name, system |-> p = Seeder]
           u == [task[p] EXCEPT !.pc = "clear", !.id = None, !.name = None]
<1>1. /\ task[p].pc = "insert" /\ ~ Taken(task[p].slug, task[p].name)
      /\ UNCHANGED <<grants, history>>
  BY DEF Insert
<1>2. PICK i \in Ids : /\ role[i] = Free
                       /\ role' = [role EXCEPT ![i] = n]
                       /\ task' = [task EXCEPT ![p] = [@ EXCEPT !.pc = "clear", !.id = i, !.name = None]]
  BY Zenon DEF Insert
<1>3. \A j \in Ids \ {i} : role'[j] = role[j]
  BY <1>2 DEF Inv, TypeOK
<1>4. /\ role'[i] = n /\ n.slug = task[p].slug
      /\ \A q \in Processes \ {p} : task'[q] = task[q]
  <2> HIDE DEF n
  <2>1. /\ role'[i] = n /\ \A q \in Processes \ {p} : task'[q] = task[q]
    BY <1>2 DEF Inv, TypeOK
  <2>2. n.slug = task[p].slug
    BY DEF n
  <2> QED BY <2>1, <2>2
<1>5. n.system <=> p = Seeder
  BY Zenon
<1>6. task'[p].pc = "clear" /\ task'[p].id = i
  BY <1>2 DEF Inv, TypeOK, Task
<1> HIDE DEF n
<1>7. ~ There(i) /\ grants[i] = {} /\ Seeder \in Processes
  BY <1>2, RowFacts DEF There, Inv, Kept, Processes
<1>8. ASSUME NEW j \in Ids, j # i PROVE Filling(j)' <=> Filling(j)
  <2>1. CASE p = Seeder
    BY <1>1, <1>6, <1>8, <2>1 DEF Filling
  <2>2. CASE p # Seeder
    BY <1>4, <1>7, <2>2 DEF Filling
  <2> QED BY <2>1, <2>2
<1>9. ASSUME NEW j \in Ids, There(j)', role'[j].system
      PROVE  /\ role'[j].slug \in SystemSlugs
             /\ grants'[j] # {} => asked'[j] # {}
             /\ asked'[j] # {} \/ j \in torn' \/ Filling(j)'
  <2>1. CASE j = i
    <3>1. p = Seeder
      BY <1>4, <1>5, <1>9, <2>1
    <3>2. task[Seeder].slug \in SystemSlugs
      BY <1>1, <3>1, RowFacts, OrderFacts DEF Inv, Seeds
    <3> QED BY <1>1, <1>4, <1>6, <1>7, <2>1, <3>1, <3>2 DEF Filling
  <2>2. CASE j # i
    BY <1>1, <1>3, <1>8, <1>9, <2>2 DEF Filled, There, history
  <2> QED BY <2>1, <2>2
<1>10. ASSUME seeded', NEW j \in Ids, Filling(j)' PROVE role'[j].slug \in squatted'
  <2>1. CASE j # i
    BY <1>1, <1>3, <1>8, <1>10, <2>1 DEF Filled, history
  <2>2. CASE j = i
    <3>1. ~ Filling(i)
      BY <1>7, FillingFacts
    <3>2. p = Seeder
      BY <1>4, <1>7, <1>10, <2>2, <3>1 DEF Filling
    <3>3. PICK s \in Slugs : s = task[Seeder].slug
      BY <1>1, <3>2, RowFacts, OrderFacts DEF Inv, Seeds
    <3>4. s \in squatted
      BY <1>1, <1>10, <3>2, <3>3 DEF Inv, Seeds, Seeded, Taken, history
    <3> QED BY <1>1, <1>4, <2>2, <3>2, <3>3, <3>4 DEF history
  <2> QED BY <2>1, <2>2
<1> QED BY <1>9, <1>10 DEF Filled

LEMMA FilledClear ==
  ASSUME Inv, Filled, NEW p \in Processes, Clear(p) PROVE Filled'
<1>1. PICK i \in Ids : i = task[p].id
  BY DEF Clear, Inv, Known
<1>2. /\ task[p].pc = "clear" /\ grants' = [grants EXCEPT ![i] = {}]
      /\ task' = [task EXCEPT ![p] = [@ EXCEPT !.pc = "grant"]]
      /\ UNCHANGED <<role, asked, torn, squatted, seeded>>
  BY <1>1 DEF Clear
<1>3. /\ task'[p].pc = "grant" /\ task'[p].id = task[p].id
      /\ \A q \in Processes \ {p} : task'[q] = task[q]
  BY <1>2 DEF Inv, TypeOK, Task
<1>4. SameRows /\ \A j \in Ids : grants'[j] # {} => grants[j] # {}
  BY <1>2 DEF SameRows, Inv, TypeOK
<1>5. \A j \in Ids : Filling(j)' <=> Filling(j)
  BY <1>2, <1>3 DEF Filling, Processes
<1> QED BY <1>2, <1>4, <1>5, FilledKept

LEMMA FilledGrant ==
  ASSUME Inv, Filled, NEW p \in Processes, Grant(p) PROVE Filled'
<1>1. PICK i \in Ids : i = task[p].id
  BY DEF Grant, Inv, Known
<1>2. /\ task[p].pc = "grant" /\ There(i)
      /\ grants' = [grants EXCEPT ![i] = @ \cup task[p].list]
      /\ asked' = [asked EXCEPT ![i] = task[p].list]
      /\ torn' = torn \ {i}
      /\ UNCHANGED <<role, squatted, seeded>>
  BY <1>1 DEF Grant
<1>3. /\ asked'[i] = task[p].list
      /\ \A j \in Ids \ {i} : grants'[j] = grants[j] /\ asked'[j] = asked[j]
  BY <1>2 DEF Inv, TypeOK
<1>4. \/ task' = [task EXCEPT ![p] = Idle]
      \/ task[p].name # None /\ task' = [task EXCEPT ![p] = [@ EXCEPT !.pc = "rename"]]
  BY DEF Grant, Done
<1>5. task'[p].pc \in {"idle", "rename"} /\ \A q \in Processes \ {p} : task'[q] = task[q]
  BY <1>4, RowFacts DEF Inv, TypeOK, Task
<1>6. ASSUME NEW j \in Ids PROVE Filling(j)' => Filling(j) /\ p # Seeder
  BY <1>5 DEF Filling, Processes
<1>7. ASSUME NEW j \in Ids, j # i PROVE Filling(j) => Filling(j)'
  BY <1>1, <1>5, <1>7 DEF Filling, Processes
<1>8. role[i].system => task[p].list # {}
  <2>1. role[i].system => role[i].slug \in SystemSlugs
    BY <1>2 DEF Filled
  <2>2. role[i].system => DefaultsOf(role[i].slug) \subseteq task[p].list
    BY <1>1, <1>2 DEF Inv, Known, There
  <2> QED BY <2>1, <2>2, DefaultsNotEmpty
<1>9. ASSUME NEW j \in Ids, There(j)', role'[j].system
      PROVE  /\ role'[j].slug \in SystemSlugs
             /\ grants'[j] # {} => asked'[j] # {}
             /\ asked'[j] # {} \/ j \in torn' \/ Filling(j)'
  <2>1. CASE j = i
    <3>1. There(i) /\ role[i].system /\ role'[j] = role[i]
      BY <1>2, <1>9, <2>1
    <3> QED BY <1>3, <1>8, <2>1, <3>1 DEF Filled
  <2>2. CASE j # i
    BY <1>2, <1>3, <1>7, <1>9, <2>2 DEF Filled, There
  <2> QED BY <2>1, <2>2
<1>10. seeded' => \A j \in Ids : Filling(j)' => role'[j].slug \in squatted'
  BY <1>2, <1>6 DEF Filled
<1> QED BY <1>9, <1>10 DEF Filled

LEMMA FilledDelete ==
  ASSUME Inv, Filled, NEW e \in Employees, NEW i \in Ids, DeleteRole(e, i) PROVE Filled'
<1>1. /\ ~ role[i].system
      /\ role' = [role EXCEPT ![i] = [Free EXCEPT !.state = "gone"]]
      /\ grants' = [grants EXCEPT ![i] = {}]
      /\ asked' = [asked EXCEPT ![i] = {}]
      /\ torn' = torn \ {i}
      /\ UNCHANGED <<task, squatted, seeded>>
  BY DEF DeleteRole
<1>2. /\ role'[i].state = "gone"
      /\ \A j \in Ids \ {i} : role'[j] = role[j] /\ grants'[j] = grants[j] /\ asked'[j] = asked[j]
  BY <1>1 DEF Inv, TypeOK, Free
<1>3. \A j \in Ids : (Filling(j)' <=> Filling(j)) /\ (Filling(j) => j # i)
  BY <1>1, FillingFacts DEF Filling
<1> QED BY <1>1, <1>2, <1>3 DEF Filled, There

LEMMA FilledNext == Inv /\ Inv' /\ Filled /\ [Next]_vars => Filled'
<1> SUFFICES ASSUME Inv, Inv', Filled, [Next]_vars PROVE Filled'
  OBVIOUS
<1>1. Seeder \in Processes /\ Seeder \notin Employees
  BY DEF Processes
<1>2. ASSUME NEW e \in Employees, Starts(e) PROVE Filled'
  <2>1. ASSUME NEW need, NEW t, Begin(e, need, t) PROVE Filled'
    BY <2>1, FilledBegin
  <2> QED BY <1>2, <2>1, FilledDelete, Zenon
          DEF Starts, CreateRole, UpdateRole, RenameRole, AssignRoles, RevokeRoles
<1>3. ASSUME NEW e \in Employees, Login(e) \/ Expire(e) \/ Assign(e) \/ Revoke(e) PROVE Filled'
  <2>1. UNCHANGED <<role, grants, asked, torn, squatted, seeded>>
    BY <1>3 DEF Login, Expire, Assign, Revoke, tables, history
  <2>2. task'[Seeder] = task[Seeder]
    BY <1>1, <1>3 DEF Login, Expire, Assign, Revoke, Done, Inv, TypeOK
  <2> QED BY <2>1, <2>2, FilledAside DEF SameRows
<1>4. ASSUME NEW e \in Employees, Rename(e) PROVE Filled'
  <2>1. UNCHANGED <<grants, asked, torn, squatted, seeded>>
    BY <1>4 DEF Rename, history
  <2>2. task'[Seeder] = task[Seeder]
    BY <1>1, <1>4 DEF Rename, Done, Inv, TypeOK
  <2>3. SameRows
    <3>1. task[e].id \in Ids
      BY <1>4 DEF Rename, Inv, Known, Processes
    <3>2. role' = role \/ role' = [role EXCEPT ![task[e].id].name = task[e].name]
      BY <1>4 DEF Rename
    <3> QED BY <3>1, <3>2 DEF SameRows, Inv, TypeOK, Row
  <2> QED BY <2>1, <2>2, <2>3, FilledAside
<1>5. ASSUME NEW p \in Processes, Write(p) PROVE Filled'
  <2>1. CASE RefuseInsert(p)
    <3>1. ~ (p = Seeder /\ Filling(task[p].id))
      BY <2>1 DEF RefuseInsert, Filling
    <3>2. Fails(p) /\ UNCHANGED <<tables, asked, torn, squatted, seeded>>
      BY <2>1 DEF RefuseInsert, history
    <3> QED BY <3>1, <3>2, FilledFails
  <2>2. CASE RefuseGrant(p)
    <3>1. Fails(p) /\ UNCHANGED <<tables, asked, torn, squatted, seeded>>
      BY <2>2 DEF RefuseGrant, history
    <3>2. There(task[p].id) => grants[task[p].id] # {}
      BY <2>2 DEF RefuseGrant
    <3>3. task[p].id \in Ids
      BY <2>2 DEF RefuseGrant, Inv, Known
    <3> QED BY <3>1, <3>2, <3>3, FilledFails, FillingFacts
  <2>3. CASE Dies(p)
    <3>1. /\ Fails(p) /\ UNCHANGED <<tables, asked, squatted, seeded>>
          /\ torn' = IF Bare(p) THEN torn \cup {task[p].id} ELSE torn
      BY <2>3 DEF Dies
    <3>2. p = Seeder /\ Filling(task[p].id) => task[p].id \in Ids /\ There(task[p].id)
      BY FillingFacts DEF Filling, Inv, Known
    <3>3. p = Seeder /\ Filling(task[p].id) => grants[task[p].id] # {} \/ task[p].id \in torn'
      BY <3>1, <3>2 DEF Bare, Filling
    <3> QED BY <3>1, <3>3, FilledFails
  <2> QED BY <1>5, <2>1, <2>2, <2>3, FilledInsert, FilledClear, FilledGrant DEF Write
<1>6. CASE Seeding
  <2>1. CASE SeedEnd
    <3>1. task[Seeder] = Idle /\ UNCHANGED <<tables, task, asked, torn, squatted>>
      BY <2>1, OrderFacts DEF SeedEnd, Inv, Seeds
    <3> QED BY <3>1, RowFacts DEF Filled, Filling, There, tables
  <2>2. CASE SeedSkip
    <3>1. squatted \subseteq squatted' /\ UNCHANGED <<tables, task, asked, torn, seeded>>
      BY <2>2 DEF SeedSkip
    <3> QED BY <3>1, FilledKept DEF tables, SameRows, Filling
  <2>3. CASE StartSeeding
    BY <2>3, FilledAside DEF StartSeeding, tables, history, SameRows
  <2>4. CASE SeedRole
    <3>1. /\ UNCHANGED <<tables, asked, torn, squatted, seeded>>
          /\ task[Seeder] = Idle /\ task'[Seeder].pc = "insert"
      BY <1>1, <2>4 DEF SeedRole, Inv, TypeOK, Idle, history
    <3>2. \A i \in Ids : ~ Filling(i) /\ ~ Filling(i)'
      BY <3>1, RowFacts DEF Filling
    <3> QED BY <3>1, <3>2, FilledKept DEF tables, SameRows
  <2> QED BY <1>6, <2>1, <2>2, <2>3, <2>4 DEF Seeding
<1>7. ASSUME NEW es, Appoint(es) PROVE Filled'
  BY <1>7, FilledAside DEF Appoint, SameRows
<1>8. CASE UNCHANGED vars
  BY <1>8, FilledAside DEF vars, tables, history, SameRows
<1> QED BY <1>2, <1>3, <1>4, <1>5, <1>6, <1>7, <1>8, Zenon DEF Next, Request

LEMMA FilledAlways == Spec => []Filled
<1>1. Init => Filled
  <2> SUFFICES ASSUME Init PROVE Filled
    OBVIOUS
  <2>1. (\A i \in Ids : ~ There(i) /\ ~ Filling(i)) \/ ~ Seeder \in Processes
    BY RowFacts DEF Init, There, Filling
  <2>2. ~ seeded
    BY Zenon DEF Init
  <2> QED BY <2>1, <2>2 DEF Filled, Processes
<1> QED BY <1>1, Invariance, FilledNext, PTL DEF Spec

-----------------------------------------------------------------------------
\* Every variable keeps its type; the seeding looks at a role of the list, or past
\* its end.
THEOREM TypeCorrect == Spec => []TypeOK
<1>1. Inv => TypeOK
  BY DEF Inv
<1> QED BY <1>1, Invariance, PTL

\* However updates overlap and wherever they crash, a system role has all of its
\* default permissions, or none until setPermissions has inserted them.
THEOREM DefaultsKept == Spec => []SystemRoleKeepsDefaults
<1>1. Inv => SystemRoleKeepsDefaults
  BY DEF Inv, Kept, SystemRoleKeepsDefaults
<1> QED BY <1>1, Invariance, PTL

\* The DELETE and the INSERT of setPermissions leave one list, unless they were cut
\* short or two of them interleaved.
THEOREM OneListGranted == Spec => []RoleIsWhatWasAsked
<1>1. Inv => RoleIsWhatWasAsked
  BY DEF Inv, Kept, RoleIsWhatWasAsked
<1> QED BY <1>1, Invariance, PTL

\* The seeding script has created every system role once it ends without an error,
\* and filled those it did not die over, from whatever an earlier run has left.
THEOREM SeedingCompletes == Spec => []SeedingIsComplete
<1>1. Inv /\ Filled => SeedingIsComplete
  <2> SUFFICES ASSUME Inv, Filled, seeded, NEW s \in Slugs \ squatted
               PROVE  \E i \in Ids : /\ There(i) /\ role[i].slug = s /\ role[i].system
                                     /\ asked[i] # {} \/ i \in torn
    BY DEF SeedingIsComplete
  <2>1. PICK i \in Ids : There(i) /\ role[i].slug = s /\ role[i].system
    BY DEF Inv, Seeds, Seeded
  <2>2. ~ Filling(i)
    BY <2>1 DEF Filled
  <2> QED BY <2>1, <2>2 DEF Filled
<1> QED BY <1>1, Invariance, FilledAlways, PTL

\* A tenant that had an administrator has one, unless somebody who is none
\* at the write revoked the last one, or the last one's own request was not signed.
THEOREM AdministratorRemains == Spec => []AdminRemains
<1>1. Inv => AdminRemains
  BY DEF Inv, Governed
<1> QED BY <1>1, Invariance, PTL

\* What the routes ask for is in the catalogue of the administrator.
LEMMA RoutesOfAdmin ==
  ASSUME NEW need \in Routes
  PROVE  /\ need.codes \subseteq TenantAdmin /\ need.mode \in {"ALL", "ANY"}
         /\ need.mode = "ANY" => need.codes # {}
BY DEF Routes, ViewRoles, ManageRoles, AssignRole, DepartmentNeeds, EmployeeNeeds, OwnNeeds, AllOf, AnyOf,
   TenantAdmin, RbacCodes, DepartmentCodes, EmployeeCodes, PayrollCodes

\* The system role of the administrator opens every route, for whoever holds it and
\* has a new token, unless the role was left without permissions.
THEOREM AdministratorReachesEveryRoute == Spec => []AdminReachesEveryRoute
<1>1. Inv => AdminReachesEveryRoute
  <2> SUFFICES ASSUME Inv, NEW e \in Employees, NEW i \in held[e], IsAdminRole(i), ~ Emptied(i),
                      NEW r \in Routes
               PROVE  Allowed(Effective(e), r)
    BY DEF AdminReachesEveryRoute
  <2>1. i \in Ids /\ None # "tenant_admin"
    BY DEF Inv, TypeOK, SystemSlugs
  <2>2. There(i) /\ role[i].system /\ role[i].slug = "tenant_admin"
    BY <2>1 DEF Inv, Kept, IsAdminRole
  <2>3. DefaultsOf("tenant_admin") \subseteq grants[i]
    BY <2>1, <2>2 DEF Inv, Kept
  <2>4. DefaultsOf("tenant_admin") = TenantAdmin
    BY DEF DefaultsOf
  <2>5. TenantAdmin \subseteq Effective(e)
    BY <2>3, <2>4 DEF Effective
  <2>6. r.codes \subseteq Effective(e)
    BY <2>5, RoutesOfAdmin
  <2> QED BY <2>6, RoutesOfAdmin DEF Allowed
<1> QED BY <1>1, Invariance, PTL
=============================================================================
