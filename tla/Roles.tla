------------------------------- MODULE Roles -------------------------------
(***************************************************************************)
(* The roles of one tenant: the roles, role_permissions and employee_roles *)
(* tables under RoleService and RbacService, the script that seeds the     *)
(* system roles, and the guard that reads the permissions in the access    *)
(* token.  No operation opens a transaction: every query is a step.  The   *)
(* code never writes is_active = false, so an inactive role is left out.   *)
(***************************************************************************)
EXTENDS AccessControl, Naturals, Sequences

CONSTANTS
  Ids,        \* the rows that may ever be inserted into roles
  Employees,  \* the employees; each has at most one request in flight
  Seeder,     \* the process that runs the seeding script
  Order,      \* the slugs of SYSTEM_ROLES, in order (bound: some of them)
  Custom,     \* the slugs and names a tenant invents
  Lists,      \* the permission lists that requests carry
  Signed,     \* does revokedBy name the sender?  The controllers pass 'system'
  MaxRequests, \* bound: requests that are not refused, in a run
  None        \* no row, no name

Slugs == {Order[i] : i \in 1 .. Len(Order)}
Names == Slugs \cup Custom
Processes == Employees \cup {Seeder}

ASSUME RolesAssumption ==
  /\ Order \in Seq(SystemSlugs)
  /\ \A i, j \in 1 .. Len(Order) : Order[i] = Order[j] => i = j
  /\ Custom \cap SystemSlugs = {}
  /\ Seeder \notin Employees
  /\ Lists \subseteq SUBSET Permissions
  /\ {} \notin Lists
  /\ Signed \subseteq BOOLEAN
  /\ MaxRequests \in Nat
  /\ None \notin Ids \cup Names \cup Employees \cup SystemSlugs

VARIABLES
  role,       \* role[i]: the row, with its slug and its name
  grants,     \* grants[i]: the permissions of the row in role_permissions
  held,       \* held[e]: the rows of employee_roles
  token,      \* token[e]: the permissions in e's access token, if it has one
  task,       \* task[p]: the request, or the part of the seeding, in flight
  next,       \* the system role the seeding looks at; 0: it is not running
  sent,       \* the requests so far, for the bound
  asked,      \* history: the list that was last granted to the row
  torn,       \* history: rows whose permissions were cleared and not granted
  mixed,      \* history: rows that two overlapping lists were granted to
  squatted,   \* history: system slugs the seeding found in a custom role
  seeded,     \* history: the script has ended without an error
  appointed,  \* history: the operator made somebody an administrator
  usurped,    \* history: an administrator was revoked by who was none then
  anonymous   \* history: an unsigned request removed its sender's own role

tables == <<role, grants, held>>
history == <<asked, torn, mixed, squatted, seeded, appointed, usurped, anonymous>>
vars == <<tables, token, task, next, sent, history>>

Row == [state : {"free", "there", "gone"}, slug : Names \cup {None},
        name : Names \cup {None}, system : BOOLEAN]
Steps == {"idle", "insert", "clear", "grant", "rename", "assign", "revoke"}
Task == [pc : Steps, id : Ids \cup {None}, slug : Names \cup {None},
         name : Names \cup {None}, list : SUBSET Permissions,
         emp : Employees \cup {None}, todo : SUBSET Ids, signed : BOOLEAN]

Free == [state |-> "free", slug |-> None, name |-> None, system |-> FALSE]
Idle == [pc |-> "idle", id |-> None, slug |-> None, name |-> None, list |-> {},
         emp |-> None, todo |-> {}, signed |-> FALSE]

Init ==
  /\ role = [i \in Ids |-> Free]
  /\ grants = [i \in Ids |-> {}]
  /\ held = [e \in Employees |-> {}]
  /\ token = [e \in Employees |-> {}]
  /\ task = [p \in Processes |-> Idle]
  /\ next = 0
  /\ sent = 0
  /\ asked = [i \in Ids |-> {}]
  /\ torn = {} /\ mixed = {} /\ squatted = {}
  /\ seeded = FALSE /\ appointed = FALSE /\ usurped = FALSE /\ anonymous = FALSE

There(i) == role[i].state = "there"

\* findBySlug
HasSlug(s) == \E i \in Ids : There(i) /\ role[i].slug = s

\* getEffectivePermissions: the union over the roles held.
Effective(e) == UNION {grants[i] : i \in held[e]}

IsAdminRole(i) == role[i].slug = "tenant_admin"
Admins == {e \in Employees : \E i \in held[e] : IsAdminRole(i)}

Done(p) == task' = [task EXCEPT ![p] = Idle]

-----------------------------------------------------------------------------
(* Access tokens. *)

\* login and refresh: the permissions are read and put into the token.
Login(e) ==
  /\ token[e] # Effective(e)
  /\ token' = [token EXCEPT ![e] = Effective(e)]
  /\ UNCHANGED <<tables, task, next, sent, history>>

\* Fifteen minutes have passed.
Expire(e) ==
  /\ token[e] # {}
  /\ token' = [token EXCEPT ![e] = {}]
  /\ UNCHANGED <<tables, task, next, sent, history>>

\* Another process has deleted the permissions of i and not yet inserted any.
Overlapped(p, i) == \E q \in Processes \ {p} : task[q].pc = "grant" /\ task[q].id = i

-----------------------------------------------------------------------------
(***************************************************************************)
(* Plausible slips in the code below, for the properties to catch.  No     *)
(* action uses them.                                                       *)
(***************************************************************************)

\* Only a list of nothing but the administrator role is refused.
LocksOutOnly(e, f, r, signed) == signed /\ e = f /\ \A i \in r : IsAdminRole(i)

\* The default permissions of a system role are not compared.
MayChangeList(i, n, l) == role[i].system => n = None

\* The seeding returns at a role that is there.
SeedSkipRest ==
  /\ next \in 1 .. Len(Order)
  /\ task[Seeder] = Idle
  /\ HasSlug(Order[next])
  /\ next' = Len(Order) + 1
  /\ UNCHANGED <<tables, token, sent, task, history>>

\* setPermissions only inserts.
ClearNothing(p) ==
  /\ task[p].pc = "clear"
  /\ task' = [task EXCEPT ![p] = [@ EXCEPT !.pc = "grant"]]
  /\ UNCHANGED <<tables, token, sent, next, history>>

-----------------------------------------------------------------------------
(***************************************************************************)
(* Where a request of employee e starts: the guard, and the reads up to    *)
(* the first write.  A request that is refused changes nothing.            *)
(***************************************************************************)
Admitted(e, need) ==
  /\ Allowed(token[e], need)
  /\ sent' = sent + 1

Begin(e, need, t) ==
  /\ Admitted(e, need)
  /\ task' = [task EXCEPT ![e] = t]
  /\ UNCHANGED <<tables, token, next, history>>

\* createCustomRole: the slug is not found; the codes are all in the catalogue.
CreateRole(e, s, n, l) ==
  /\ ~ HasSlug(s)
  /\ Begin(e, ManageRoles, [Idle EXCEPT !.pc = "insert", !.slug = s, !.name = n, !.list = l])

\* A system role keeps its name and its default permissions.
MayChange(i, n, l) ==
  role[i].system => n = None /\ DefaultsOf(role[i].slug) \subseteq l

\* updateRole with a list, and with a new name or without.
UpdateRole(e, i, n, l) ==
  /\ There(i)
  /\ MayChange(i, n, l)
  /\ Begin(e, ManageRoles, [Idle EXCEPT !.pc = "clear", !.id = i, !.name = n, !.list = l])

\* updateRole with a new name only.
RenameRole(e, i, n) ==
  /\ There(i)
  /\ ~ role[i].system
  /\ Begin(e, ManageRoles, [Idle EXCEPT !.pc = "rename", !.id = i, !.name = n])

\* deleteRole: is_system never changes, so the read and the DELETE are one
\* step.  The permissions and the assignments go with the row.
DeleteRole(e, i) ==
  /\ Admitted(e, ManageRoles)
  /\ There(i)
  /\ ~ role[i].system
  /\ role' = [role EXCEPT ![i] = [Free EXCEPT !.state = "gone"]]
  /\ grants' = [grants EXCEPT ![i] = {}]
  /\ held' = [f \in Employees |-> held[f] \ {i}]
  /\ asked' = [asked EXCEPT ![i] = {}]
  /\ torn' = torn \ {i} /\ mixed' = mixed \ {i}
  /\ UNCHANGED <<token, task, next, squatted, seeded, appointed, usurped, anonymous>>

\* assignRoles: every role is found.  The rows name the sender in a uuid
\* column, so that the 'system' of the controller fails at the first insert.
AssignRoles(e, f, r) ==
  /\ TRUE \in Signed
  /\ \A i \in r : There(i)
  /\ Begin(e, AssignRole, [Idle EXCEPT !.pc = "assign", !.emp = f, !.todo = r])

\* The test against removing one's own administrator role.
LocksOut(e, f, r, signed) == signed /\ e = f /\ \E i \in r : IsAdminRole(i)

\* revokeRoles: every role is found.
RevokeRoles(e, f, r, signed) ==
  /\ \A i \in r : There(i)
  /\ ~ LocksOut(e, f, r, signed)
  /\ Begin(e, AssignRole, [Idle EXCEPT !.pc = "revoke", !.emp = f, !.todo = r,
                                       !.signed = signed])

-----------------------------------------------------------------------------
(* The seeding script. *)

\* The operator starts the script.
StartSeeding ==
  /\ next = 0
  /\ next' = 1
  /\ UNCHANGED <<tables, token, sent, task, history>>

\* findBySlug of the next system role: one that is there is passed over.
SeedSkip ==
  /\ next \in 1 .. Len(Order)
  /\ task[Seeder] = Idle
  /\ HasSlug(Order[next])
  /\ next' = next + 1
  /\ squatted' = IF \E i \in Ids : role[i].slug = Order[next] /\ ~ role[i].system
                 THEN squatted \cup {Order[next]} ELSE squatted
  /\ UNCHANGED <<tables, token, sent, task, asked, torn, mixed, seeded, appointed, usurped, anonymous>>

SeedRole ==
  /\ next \in 1 .. Len(Order)
  /\ task[Seeder] = Idle
  /\ ~ HasSlug(Order[next])
  /\ task' = [task EXCEPT ![Seeder] =
                [Idle EXCEPT !.pc = "insert", !.slug = Order[next], !.name = Order[next],
                             !.list = DefaultsOf(Order[next])]]
  /\ UNCHANGED <<tables, token, sent, next, history>>

SeedEnd ==
  /\ next = Len(Order) + 1
  /\ next' = 0
  /\ seeded' = TRUE
  /\ UNCHANGED <<tables, token, sent, task, asked, torn, mixed, squatted, appointed, usurped,
                 anonymous>>

\* No route can do it: the operator inserts the first administrators by hand.
Appoint(es) ==
  /\ ~ appointed
  /\ \E i \in Ids :
       /\ There(i) /\ IsAdminRole(i)
       /\ held' = [e \in Employees |-> IF e \in es THEN held[e] \cup {i} ELSE held[e]]
  /\ appointed' = TRUE
  /\ UNCHANGED <<role, grants, token, sent, task, next, asked, torn, mixed, squatted, seeded,
                 usurped, anonymous>>

-----------------------------------------------------------------------------
(* The writes. *)

\* The seeding stops at its first error; a request answers with it.
Fails(p) ==
  /\ Done(p)
  /\ next' = IF p = Seeder THEN 0 ELSE next

\* The unique indexes on slug and on name.
Taken(s, n) == \E i \in Ids : There(i) /\ (role[i].slug = s \/ role[i].name = n)

Insert(p) ==
  /\ task[p].pc = "insert"
  /\ ~ Taken(task[p].slug, task[p].name)
  /\ \E i \in Ids :
       /\ role[i] = Free
       /\ role' = [role EXCEPT ![i] = [state |-> "there", slug |-> task[p].slug,
                                       name |-> task[p].name, system |-> p = Seeder]]
       /\ task' = [task EXCEPT ![p] = [@ EXCEPT !.pc = "clear", !.id = i, !.name = None]]
  /\ UNCHANGED <<grants, held, token, sent, next, history>>

RefuseInsert(p) ==
  /\ task[p].pc = "insert"
  /\ Taken(task[p].slug, task[p].name)
  /\ Fails(p)
  /\ UNCHANGED <<tables, token, sent, history>>

\* setPermissions: the DELETE.
Clear(p) ==
  LET i == task[p].id
  IN  /\ task[p].pc = "clear"
      /\ grants' = [grants EXCEPT ![i] = {}]
      /\ mixed' = IF Overlapped(p, i) THEN mixed \cup {i} ELSE mixed \ {i}
      /\ task' = [task EXCEPT ![p] = [@ EXCEPT !.pc = "grant"]]
      /\ UNCHANGED <<role, held, token, sent, next, asked, torn, squatted, seeded,
                     appointed, usurped, anonymous>>

\* setPermissions: the INSERT of every row, refused when one is there already.
Grant(p) ==
  LET i == task[p].id
  IN  /\ task[p].pc = "grant"
      /\ There(i)
      /\ task[p].list \cap grants[i] = {}
      /\ grants' = [grants EXCEPT ![i] = @ \cup task[p].list]
      /\ asked' = [asked EXCEPT ![i] = task[p].list]
      /\ torn' = torn \ {i}
      /\ IF task[p].name = None
         THEN Done(p)
         ELSE task' = [task EXCEPT ![p] = [@ EXCEPT !.pc = "rename"]]
      /\ next' = IF p = Seeder THEN next + 1 ELSE next
      /\ UNCHANGED <<role, held, token, sent, mixed, squatted, seeded, appointed, usurped,
                     anonymous>>

RefuseGrant(p) ==
  LET i == task[p].id
  IN  /\ task[p].pc = "grant"
      /\ ~ (There(i) /\ task[p].list \cap grants[i] = {})
      /\ Fails(p)
      /\ UNCHANGED <<tables, token, sent, history>>

\* The UPDATE of the row: nothing when it is gone, refused when the name is taken.
Rename(e) ==
  LET i == task[e].id
      taken == \E j \in Ids \ {i} : There(j) /\ role[j].name = task[e].name
  IN  /\ task[e].pc = "rename"
      /\ role' = IF There(i) /\ ~ taken THEN [role EXCEPT ![i].name = task[e].name] ELSE role
      /\ Done(e)
      /\ UNCHANGED <<grants, held, token, sent, next, history>>

\* One INSERT per role.  A role that is held already is passed over, or ends the
\* loop when the driver wraps its error; a role that is gone ends the loop.
Assign(e) ==
  LET f == task[e].emp
      Rest(i) == IF task[e].todo = {i} THEN Idle ELSE [task[e] EXCEPT !.todo = @ \ {i}]
  IN  /\ task[e].pc = "assign"
      /\ \E i \in task[e].todo :
           \/ /\ There(i)
              /\ held' = [held EXCEPT ![f] = @ \cup {i}]
              /\ task' = [task EXCEPT ![e] = Rest(i)]
           \/ /\ ~ There(i) \/ i \in held[f]
              /\ Done(e)
              /\ UNCHANGED held
      /\ UNCHANGED <<role, grants, token, sent, next, history>>

Revoke(e) ==
  LET f == task[e].emp
      demoted == f \in Admins /\ \E i \in held[f] \cap task[e].todo : IsAdminRole(i)
  IN  /\ task[e].pc = "revoke"
      /\ held' = [held EXCEPT ![f] = @ \ task[e].todo]
      /\ usurped' = (usurped \/ (demoted /\ e \notin Admins))
      /\ anonymous' = (anonymous \/ (demoted /\ e = f /\ ~ task[e].signed))
      /\ Done(e)
      /\ UNCHANGED <<role, grants, token, sent, next, asked, torn, mixed, squatted, seeded,
                     appointed>>

\* p is between the DELETE, or the INSERT of a new role, and the permissions.
Bare(p) ==
  /\ task[p].pc \in {"clear", "grant"}
  /\ There(task[p].id)
  /\ grants[task[p].id] = {}

\* The process dies, or its connection does.  A role may be left without any
\* permission: the permissions of an old one deleted, of a new one not granted.
Dies(p) ==
  /\ task[p] # Idle
  /\ Fails(p)
  /\ torn' = IF Bare(p) THEN torn \cup {task[p].id} ELSE torn
  /\ UNCHANGED <<tables, token, sent, asked, mixed, squatted, seeded, appointed, usurped, anonymous>>

-----------------------------------------------------------------------------
Starts(e) ==
  \/ \E s, n \in Names, l \in Lists : CreateRole(e, s, n, l)
  \/ \E i \in Ids, n \in Names \cup {None}, l \in Lists : UpdateRole(e, i, n, l)
  \/ \E i \in Ids, n \in Names : RenameRole(e, i, n)
  \/ \E i \in Ids : DeleteRole(e, i)
  \/ \E f \in Employees, r \in (SUBSET Ids) \ {{}} : AssignRoles(e, f, r)
  \/ \E f \in Employees, r \in (SUBSET Ids) \ {{}}, s \in Signed : RevokeRoles(e, f, r, s)

Request(e) ==
  \/ Login(e)
  \/ Expire(e)
  \/ task[e] = Idle /\ sent < MaxRequests /\ Starts(e)
  \/ Rename(e)
  \/ Assign(e)
  \/ Revoke(e)

Seeding == StartSeeding \/ SeedSkip \/ SeedRole \/ SeedEnd

Write(p) == Insert(p) \/ RefuseInsert(p) \/ Clear(p) \/ Grant(p) \/ RefuseGrant(p) \/ Dies(p)

Next ==
  \/ \E e \in Employees : Request(e)
  \/ Seeding
  \/ \E es \in (SUBSET Employees) \ {{}} : Appoint(es)
  \/ \E p \in Processes : Write(p)

Spec == Init /\ [][Next]_vars

-----------------------------------------------------------------------------
TypeOK ==
  /\ role \in [Ids -> Row]
  /\ grants \in [Ids -> SUBSET Permissions]
  /\ held \in [Employees -> SUBSET Ids]
  /\ token \in [Employees -> SUBSET Permissions]
  /\ task \in [Processes -> Task]
  /\ next \in 0 .. Len(Order) + 1
  /\ sent \in 0 .. MaxRequests
  /\ asked \in [Ids -> SUBSET Permissions]
  /\ torn \subseteq Ids /\ mixed \subseteq Ids
  /\ squatted \subseteq Slugs
  /\ seeded \in BOOLEAN /\ appointed \in BOOLEAN
  /\ usurped \in BOOLEAN /\ anonymous \in BOOLEAN

\* A role without permissions whose list is about to be granted, or never was.
Emptied(i) == grants[i] = {} /\ (i \in torn \/ \E p \in Processes : Bare(p) /\ task[p].id = i)

\* "Tenants CANNOT remove the default permissions" (system-roles.ts): through
\* overlapping updates and crashes a system role has all of its defaults, or,
\* between the DELETE and the INSERT of setPermissions, none at all.
SystemRoleKeepsDefaults ==
  \A i \in Ids : There(i) /\ role[i].system =>
    DefaultsOf(role[i].slug) \subseteq grants[i] \/ Emptied(i)

\* setPermissions (role.repository) leaves the list that one request asked for.
\* It does not when it was cut short, and when two of them interleave.
RoleIsWhatWasAsked ==
  \A i \in Ids : grants[i] = asked[i] \/ Emptied(i) \/ i \in mixed

\* Once the seeding script has ended without an error, every system role is
\* there and was granted a list, but for those whose slug a custom role had
\* taken and those that a crash left bare: a later run, however often it is
\* repeated, passes over a role that is there, and no other accident empties it.
SeedingIsComplete ==
  seeded => \A s \in Slugs \ squatted :
    \E i \in Ids : There(i) /\ role[i].slug = s /\ role[i].system
                   /\ (asked[i] # {} \/ i \in torn)

\* A tenant that had an administrator keeps one: revokeRoles refuses to remove
\* one's own role, and deleteRole a system role.  It does not when the sender is
\* no administrator at the write (a role lost meanwhile, or a custom role with
\* the permission to assign), and when the request does not name its sender.
AdminRemains == appointed => Admins # {} \/ usurped \/ anonymous

\* Whoever holds the administrator role passes the guard of every route with a
\* new token, unless the seeding or an update left the role without permissions.
AdminReachesEveryRoute ==
  \A e \in Employees : \A i \in held[e] : IsAdminRole(i) =>
    (\A r \in Routes : Allowed(Effective(e), r)) \/ Emptied(i)

\* "Prevent self-lockout: don't allow revoking tenant_admin from self"
\* (rbac.service.ts:164).
OwnAdminRoleKept ==
  [][\A e \in Employees :
       task[e].pc = "revoke" /\ task[e].emp = e /\ e \in Admins => e \in Admins']_vars
=============================================================================
