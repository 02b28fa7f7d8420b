# HR SaaS platform: TLA+ models, checks and proofs

The program is a multi-tenant HR backend: NestJS over PostgreSQL (Drizzle), with
Redis, BullMQ and cron tasks, run as several identical pods. Almost all of its
state is in database tables, and almost no operation opens a transaction: a
request reads a row, decides, and writes with `UPDATE ... WHERE id`. What is hard
about the program is therefore not what one request does, which the unit tests
cover, but what two requests, two pods, or a request and a crash do together.
The models keep every query as a step of its own and check the rules that relate
the tables to one another under all interleavings of those steps.

Paths below are relative to the repository's `src/`.

## Inventory

| Component | State | Operations | Interacts with | What makes it correct |
|---|---|---|---|---|
| Event outbox and bus (`common/events`) | `event_outbox`, `outbox_processed_events`; per pod `isRunning`, the batch in memory | `emitAsync`, `processOutbox` every 5 s, `processEvent`, `handleEventFailure`, `reclaimStuckEvents`, `cleanup` hourly | every service publishes; handlers run inside the dispatcher | an accepted event is handled, or given up after real failures; purged only then; duplicated only where unavoidable; in the end settled |
| Tenant onboarding | none of its own | `handleTenantCreated` | called by the dispatcher, guarded by `IdempotencyService` | its work is not repeated by a plain retry |
| Departments (`modules/department`) | `departments.parent_id`, `is_active`, `manager_employee_id` | create, update (move), deactivate, reactivate, assign and remove manager, tree | employees, through facades | no ring; active under active; every department shown; the search ends |
| Employee lifecycle (`modules/employee`) | `employees.status`, `termination_date`, `department_id` | create, update, `changeStatus` | clears managers, deactivates devices | the transition table; terminated stays terminated; no unfit managers; no devices left |
| Devices | `employee_devices` | register, refresh, deactivate, deactivate all, record use | `changeStatus`, attendance | limit of five, one owner, uses of the right employee, none after termination |
| Salary | `employees` salary columns, `salary_history` | create with a first salary, update salary, latest entry | employee | the latest entry is the salary; a currency left out is kept |
| Sessions (`modules/auth`) | `users` (password, count, lock), `refresh_tokens`, `password_reset_tokens` | login, refresh, logout, change, forgot and reset password | reads tenant, employee, roles | one live token per login; revocations last; a new password ends old sessions; the lock follows the count |
| Access token checks | none (signed token, 15 min) | guards, strategy | sessions | stateless; may be outdated by its lifetime |
| Roles (`modules/rbac`) | `roles`, `role_permissions`, `employee_roles` | CRUD, `setPermissions`, assign, revoke, the seeding script | login reads them, the guard compares them | a role has the permissions of one update; system roles keep their defaults; the seeding is repeatable; an administrator remains and reaches every route |
| Tenants | `tenants`, settings in JSON, a 30 s cache per pod | create, status, plan, settings, cached facade | publishes `tenant.created`, `tenant.suspended`, `tenant.activated` | transition table, events agree with the row, no lost update of settings, bounded staleness |
| Tenant-scoped database, RLS | connection pool, session setting | transaction with retry, execute, `SET LOCAL` | the debug controller; every repository could use it | a client is released once; a callback sees its tenant; an answer is true |
| Jobs, scheduler | BullMQ queues; cron on every pod | enqueue attendance and leave jobs per tenant | tenants, queues | a day is checked out when it is over, and before it is reconciled |
| Request pipeline | request context | middleware, guards, interceptors, filters | everything | stateless |
| Utilities | none | dates, money, pagination, hash, encryption | everything | pure functions |
| Health, debug, bootstrap, scripts, migrations | none | diagnostics, wiring | | |

Hard behaviours, and where they bite: overlapping check-then-act (departments,
employees, sessions, tenants), late writes by a pod that lost its claim (outbox),
crashes between two statements (outbox, `changeStatus`, password change, role
seeding, salary), retries of work already done (outbox, onboarding), counters
written from copies (outbox), JSON merged in memory (tenant settings), access
tokens that outlive a decision (devices, roles), expiries that fall between a read
and a write (sessions), a connection given back twice (tenant-scoped database),
local midnights (scheduler). `PROJECT.json` lists each at its line under `hazards`,
with the properties that cover it or the reason why none does.

## Modules

| Module | Role |
|---|---|
| `EventQueue` | abstract: what the outbox promises a publisher |
| `Outbox` | the outbox tables, the pods' dispatchers, the guarded handler, publishers, cleanup |
| `OutboxProofs` | theorems about `Outbox` |
| `DepartmentTree` | abstract: the department tree with atomic operations, and the operators on trees |
| `Departments` | the department service, every query a step |
| `DepartmentsProofs` | theorems about `Departments` |
| `Employees` | employees, managers and devices across three modules of the program |
| `EmployeesProofs` | theorems about `Employees` and `Salaries` |
| `Sessions` | one account's tokens, password, lockout and reset tokens |
| `SessionsProofs` | theorems about `Sessions` |
| `Devices` | the device registry and its use by attendance |
| `DevicesProofs` | theorems about `Devices` |
| `AccessControl` | the permission catalogue, the system roles, the needs of the routes, the guard |
| `Roles` | roles, their permissions and assignments, the seeding script, access tokens |
| `RolesProofs` | theorems about `Roles` |
| `Tenants` | one tenant's status, plan and settings, and the row every pod caches |
| `TenantsProofs` | theorems about `Tenants`, `Calendar` and `Scheduler` |
| `TenantDatabase` | transactions with a tenant over a pool of connections |
| `TenantDatabaseProofs` | theorems about `TenantDatabase` |
| `Calendar` | instants, local days, payroll periods |
| `Scheduler` | the cron tasks of the pods and the jobs they add |
| `Salaries` | the salary of one employee and its history |
| `MCOutbox`, `MCDepartments`, `MCEmployees`, `MCSessions`, `MCDevices`, `MCRoles`, `MCTenants`, `MCTenantDatabase`, `MCScheduler`, `MCSalaries` | instances for TLC: values, symmetry and bounds |

`DepartmentTree` is instantiated by `Departments`, `EventQueue` by `Outbox`;
`AccessControl` is extended by `Roles`, `Calendar` by `Scheduler`. `EmployeesProofs`
and `TenantsProofs` speak of two specifications each, which is why the definitions of
`Salaries` and `Scheduler` have names of their own (`PayInit`, `PaySpec`, `CronInit`,
`CronSpec`, `Nodes` for the pods). The other modules meet in the tables: `Employees` is the composition of employees, departments and
devices, and `Outbox` begins where `Tenants`, and every other service, publishes.

Two conventions hold in all of them.

*History variables.* Most of the rules are broken by the code under some race or
crash; the question is which. A history variable records the accident exactly
where the code permits it (a write on a fact that another request has changed
since it was read, a clean-up cut short, an event taken back from a pod), and the
invariant says that the rule holds unless *that* accident happened to *that* row.
A history variable never appears in a guard.

*Slips.* Each module has a short section of plausible bugs, used by no action.
Each property is checked to fail when the slip named for it in `PROJECT.json`
replaces the definition it mutates.

### Outbox

`biz` is the publisher (the business commit, then `emitAsync` as a statement of
its own), `row` and `createdAt` the table, `marked` the idempotency table,
`phase`, `held`, `snap`, `cur` a pod in `processOutbox` (held is the batch, snap the
retry counts `RETURNING *` gave it). `Poll` is the timer with the reclaim that
precedes the fetch; `Fetch` is the `FOR UPDATE SKIP LOCKED` update; then
`ProcessEvent`, the handler, `MarkAsProcessed`, `Ack`, or `HandleEventFailure`, each
with the variant in which the query fails. `Crash` ends the round anywhere.
The final writes are conditional on the id alone, as in the code, so a slow pod
overwrites what another did.

Time is three facts about a row: due, stale, old enough to purge. `BatchOverruns`
makes a claim stale while its pod still works, `OrphanExpires` when no pod does.
The claim is one atomic step: two claims that run at once skip each other's rows,
which is the order in which one of them ran first on the remaining rows.
`emitDirect`, metrics and logging are left out. The cleanup deletes by status and age
alone: a dead letter is as old as its event, so it may go in the minute it was written,
while a pod that lost its claim still works on the event (`CleanupRow`, `CleanupMark`
have no guard on that). That pod's handler runs on, and its write by id then finds no
row (`WhereId`).

`EventQueue` promises that an accepted event is retired only once it was delivered, given
up or known to have no listener. A worker that is late loses the event (`takenBack`) but
is not stopped: it may still deliver the event after it was retired. Nobody else can.

### Departments

`status` and `parent` are the columns, `task[c]` a request: its operation, its
argument, and the next query. `createDepartment` reads the parent and inserts;
`updateDepartment` with a new parent reads the department, the parent and the
subtree, then writes; deactivation reads, counts the active children, and writes;
reactivation reads the department and the parent, and writes. A successful write
of one request marks the checks it outdates in every other request (`stale`); a
request that writes with such a mark adds the kind to `raced`. `findSubtreeIds` is
its least fixed point, and a step to `hung` when a ring can be reached: the loop
in the code has no visited set. Names, codes, descriptions and events are left out.
`DepartmentTree` is the same tree with atomic operations.

### Employees

`Employees` composes what three modules of the program do to one another: hire,
transfer and status changes (`EmployeeService`), managers (`DepartmentController`
asks `EmployeeFacade`, `DepartmentService` writes), deactivation of a department
(the controller counts employees through the facade, the service writes), and
device registration with a token that may be older than the termination.
`changeStatus` is a read, the update, `clearEmployeeAsManager` and
`deactivateAllForEmployee`, each a step, with a crash possible after each. A fact
is a reading a request still relies on: of an employee, of whether a department is
open, of its roster; `outdated` and `raced` are sets of facts. The departments here
have no children, `Departments` covers the tree.

### Sessions

One account in one tenant. `token[t]` is the row of a refresh token (live, expired,
revoked), `family[t]` its family, named by the first token of the login. A request
begins with its first read and proceeds by its writes: a refresh revokes the token
it read (`Rotate`), a reused one revokes the family, an expired one itself; then
tenant, employee and permissions are read, and the next token is inserted (`Issue`)
or the request is refused (`RefuseIssue`). What tenant and employee answer is a free
choice. A wrong password is counted by one statement and may lock by another; a
login clears both at its end. `changePassword` writes the password and revokes;
`resetPassword` writes, marks the reset token, and revokes. Logout is one
statement. Left out: the access token, events, the registration of an account,
`is_active` (no code clears it, so the branch that tests it is never taken), the
deletion of expired tokens (no code calls it), and other tenants of the account.

The history variables say when a rule may fail: `forked` (a refresh rotated a token
revoked since it was read), `stray` (a request issued a token into a family that
was revoked, or on a password that was replaced and its sessions revoked, after
its read), `lost` (a refresh failed after its token was used up, or the last token
expired), `abandoned` (a crash between a new password and the revocation; the next
revocation of all heals it), `lapsed` and `misplaced` (the lock ran out or was never
written; it was written over a count reset meanwhile), `shared` (two requests held
one reset token, or a crash kept it from being marked).

### Devices

`row[r]` is the row of an employee and a device: absent, or `is_active`. The unique
index is the guard of `Insert`. A registration begins with its lookup of the
employee's own row, which decides what it is: a new one looks for any row of the
device (`PassOwner`, `RefuseOwner`; the query has `LIMIT 1` and no order, so the row
it returns is a free choice), counts (`PassCount`, `RefuseCount`) and inserts; a row
that exists is refreshed or reactivated without either check. `updateFcmToken` and
`deactivateDevice` are a read and a write, `deactivateAllForEmployee` is one
statement. The attendance module is not in the repository: it calls `validateDevice`
and then `touchDeviceLastUsed`, which marks every active row of the device.
`Overtakes` says what a write outdates in the requests that are under way.

### AccessControl and Roles

`AccessControl` has the catalogue of `system-permissions.ts`, the five lists of
`system-roles.ts`, the declarations of the routes' decorators and
`RbacGuard.canActivate` (`Allowed`), each from its own file: that they agree is a
property, not an assumption. `Roles` is one tenant. `role[i]`, `grants[i]` and `held[e]`
are the three tables, `token[e]` the permissions in an employee's access token: what
the guard compares is what the roles granted when the token was issued. A request
starts with the guard and the reads up to its first write, and goes on with one
step per query: `Insert`, then `setPermissions` as `Clear` and `Grant`, then `Rename`;
`Assign` is one insert per role, `Revoke` one delete. `deleteRole` is one step, since
`is_system` never changes. The seeding script goes through the slugs in order
(`next`), passes over a slug that is there (`SeedSkip`) and otherwise uses the same
writes; it may be started again after any crash (`Dies`). The first administrator is
inserted by hand (`Appoint`): no route can be called before.
`Signed` are the values of "revokedBy is the sender": a service called with the id of
the sender (`TRUE`), and the controllers, which pass the literal `'system'` (`FALSE`).
`assigned_by` is a uuid column, so that an assignment by `'system'` fails at its first
insert; the model admits assignments with `Signed` `TRUE` only.

History: `torn` (permissions deleted and never inserted), `mixed` (two overlapping
lists), `squatted` (a custom role has the slug of a system role), `usurped` and
`anonymous` (an administrator was revoked by somebody who was none at the write, having
lost the role meanwhile or holding only a custom role with the permission to assign; a
request that does not name its sender removed the sender's own role). A crash that
leaves a system role empty is the only way for the seeding to end with a role that was
never granted a list (`SeedingIsComplete`).

### Tenants

`status`, `plan` and `settings` (the feature flags) are the row, `cache[p]` what
`TenantFacade` of pod `p` remembers and until when, `task[c]` a request with the copy of
the row it read. `updateTenantStatus` validates the transition on the copy, writes, and
publishes; `updateSettings` reads, merges in memory and writes the whole JSON back;
`updateTenant` with a plan looks only for the row, so its read and its update are one
step; `Lookup` and `Store` fill the cache in two steps, between which the row may
change and time may pass. `outdated` marks the copies a write makes old. A feature is
enabled by its flag, or by the plan where the flag is unset. `DeepMerge` has both branches
of the code: a section that is an object is merged flag by flag, and anything else replaces
the stored section, a `null` (`Null`) and, since the compiler's target declares the fields
of the DTO as properties, also a section that was not sent (`None`). A flag that such a
request changes without naming it is in `lost`; `KeysPreserved` says that there are none,
and is violated.

### TenantDatabase

`client[c]` is what the pool knows of a connection, `session[c]` the server's side of
it: the transaction, `app.current_tenant`, the writes that are not committed. A
request uses `transaction`, `execute`, `executeWithTenant`, `executeInTransaction`, or a
plain query through the pool; every statement of them is a step, and a callback reads,
writes, is refused by the policy, swallows the refusal or throws. pg-pool, the
server and the policy of `rls-policy.helper.ts` are modelled from how they are used:
`release` is a property of the client that the next acquisition replaces, so that the
second release of a retry (`WakeUp`) throws when the client is idle, and otherwise
frees it under the hands of the request that has acquired it in between; `COMMIT` of
an aborted transaction rolls it back and answers without an error; `SET LOCAL` outside
of a transaction has no effect. drizzle wraps the driver's errors, so whether the
code that makes a retry is seen is a free choice.

History: `disturbed` (another request released this one's client, or used it too)
and `unsure` (the connection was lost during `COMMIT`).

### Calendar and Scheduler

`Calendar` counts minutes and days; a zone is an offset with one change. `FromZoned` is
the algorithm of date-fns-tz (guess, correct twice) and not the inverse of `ToZoned`,
which does not exist in a gap or an overlap. In `Scheduler` the time advances by hours;
`due[p]` are the tasks pod `p` has yet to run in this hour, in any order. A task
is one step: it reads the active tenants and adds its jobs, or fails part of the way
(`AutoCheckoutFails`; `BulkFails` adds nothing). `checkout[p][t][d]` counts the jobs of
each pod: pods do not coordinate and the jobs have no id. Tenants are suspended,
activated and moved to another zone, and pods stop and start; the check-out runs at five
past, the other tasks on the hour, so a pod that starts within the first five minutes
still has the task of then (`AtFivePast`, `Start`). The clocks of the pods
are assumed to be in UTC, and the clocks of the zones to differ from UTC by less than a
day (`Offsets`). What `Intl` makes of midnight with `hour12: false`, "00" or
"24", differs between builds and is chosen once (`midnight`).

### Salaries

`pay` is the two columns of the employee, `ledger` the history. `createEmployee` and
`updateSalary` each write the one and then the other; a salary change that leaves the
currency out writes back the one it read, and one that leaves the date out is dated
today. The column is written at once, whatever the effective date. History: `astray`
(since the last change in good order one was cut short, overlapped, or was not dated
after all the others) and `lost` (a currency was undone by one read before).

## Runs

| Run | Instance | Distinct states | Shows |
|---|---|---|---|
| `Outbox` | 2 pods, 2 events (one with a handler), batch of 2, 2 retries, 1 fault, 1 overrun | 230,422 | safety of the outbox, how often an event can be attempted, implements `EventQueue`, every event settles, for good |
| `Departments` | 3 departments, 2 requests | 100,934 | rings and orphans need the race that is named; otherwise every change is atomic |
| `Employees` | 1 employee, 2 departments, 2 requests, at most 2 accidents | 1,535,429 | staff, managers, ends, devices |
| `Sessions` | 3 tokens, 1 reset token, 2 requests, lock at 2, at most 2 accidents | 1,585,158 | families, passwords, reset tokens |
| `Devices` | one device of 3 employees and a second of one of them, 1 push token, 2 requests, limit 1, at most 1 accident | 1,463,743 | limit, ownership, attribution of uses |
| `Roles` | 3 roles, 2 employees, 2 of the system roles, 3 lists, 2 requests besides the script | 345,882 | defaults, lists, seeding, administrators |
| `RolesSelfLockout` | 1 role, 1 employee, 1 request of the controllers | violation | an administrator revokes the own role |
| `Tenants` | 2 requests at a time, 3 writes in all, 1 pod, 2 flags, TTL 2, 3 ticks | 2,017,635 | lifecycle, events, settings, cache |
| `TenantsSettings` | 1 request at a time | violation | an update without the section of features wipes the flags |
| `TenantDatabase` | 3 requests of 2 tenants, 2 clients of which 1 is open at a time, 2 attempts, 1 fault | 3,637,815 | isolation and truth of the answers |
| `Scheduler` | 2 pods, 3 days around the start of a month, a tenant west of UTC and one whose clock goes back over midnight, 4 zones, 2 mishaps | 1,658,383 | check-out, reconciliation, one job per pod, payroll periods |
| `Salaries` | 2 requests at a time, 4 in all, 2 amounts, 2 currencies, 2 days | 1,490,914 | history and currency |

A passing run checks its properties in every state it reaches; each violation run
contradicts a sentence of the repository, quoted under `findings`.

**Bounds.** Two pods or requests are enough for every pair of steps to meet in both
orders; the accidents in the code are between two actors. In `Outbox` an
event is reclaimed while its first pod is still busy with it, a row is purged under the
hands of that pod, and a retry count reaches its maximum through failures of two pods;
one overrun is one late pod, one fault a crash or a failed query at any point, and each
slip is found within them. Liveness is what keeps the bounds small; the theorems cover the
safety properties and the refinement for any number of either.
A batch of 2 is a full batch with a
rest, which is what an aborted batch leaves behind. `MaxFaults` and `MaxOverruns`
bound crashes, failed queries and late claims; the counters, retries and runs are
bounded by the code itself once these are. Three departments make every shape of
ring and a subtree of two levels. In `Employees` and `Sessions` a CONSTRAINT stops
following a behaviour after more than two accidents, since every invariant excuses
what already went wrong; the states just beyond are still checked. `Sessions` also
stops when wrong passwords, tokens and password changes together exceed small
sums: 3 tokens are a login with two rotations, or two logins of which one rotates;
`MaxFailed` = 2 (5 in the code) leaves one failure below the limit and one at it;
`CountBound` only limits when a wrong password is tried. In `Devices` three employees are
needed for a lookup that returns one row and misses another, two devices of one
employee for the limit, and one push token besides the null for a copy that is
outdated; the constraint stops following a behaviour after the second accident, and after two
rows have a token or a device was validated in addition.

In `Roles` the two slugs are the one with special rules and the one that every employee
has; of the three lists one contains every default, one those of `employee`, and one
has no code in common with it, so that two overlapping grants may unite or collide.
Two requests and the script are three writers of one role. `MaxRequests` counts
requests that pass the guard. In `Tenants` a TTL of 2 and 3 ticks let a row be cached,
go stale and expire; three writes are a write that overlaps with another and a change
that follows them. In `TenantDatabase` a pool that lends one client is where a second
release meets the next request at once, and with a second connection to open after
the first is lost; one fault is an error, a lost connection, a refused or unanswered `COMMIT`,
or a failed connect, each at any point; two attempts are one retry. The three days of
`Scheduler`'s calendar (a month before and after day 1) are the shortest stretch with a
month boundary; a zone of each kind is in `Zones` (a fixed one west of UTC, one that skips
a midnight, one that has it twice, one that has the last hour of the month twice), and the
tenants move between them.
Two mishaps are, for instance, a pod that stops and an enqueue of the other one that
fails. In `Salaries` two amounts and two days make equal and descending dates. The
theorems do not have these bounds.

**Symmetry** is used where the elements are interchangeable, in safety runs only.

**Deadlock** is checked in `Outbox`, `Departments`, `Employees`,
`Sessions`, `Devices`, `Roles` and `RolesSelfLockout`, where timers, expiries or further
requests keep the model going. The others stop where their bounded requests or
hours are used up, and say so.

**Fairness** is assumed in `Outbox` alone: weak fairness of each pod's next step
(the interval timer fires for ever, and an awaited call returns or fails) and of
the two clocks (a backoff elapses, an abandoned claim becomes stale). Nothing is
assumed of publishers, of the cleanup, of crashes, or of slow batches, and a pod
step that may fail is not assumed to succeed: the faults are finite in number,
which is the assumption that the database is not down for ever. A handler that
never returns contradicts it; the code has no timeout around one, and that hazard
is listed as not covered.

## Proofs

All theorems are for every value of the constants (any pods, events, departments,
employees, requests, connections), from the named assumptions in the modules:
finiteness where a cardinality or a subtree is used, and that the null value is not
an element.

*Outbox.* The inductive invariant joins the type invariant with six parts: a pod
works on an event of its batch and holds nothing between rounds (`PodInv`); an
event that was not emitted has no row (`BizInv`); an event in a batch that was not
reclaimed has a row in processing and is in no other batch (`HoldInv`),
and its retry count is the one of the pod's copy (`SnapInv`); a pod that is about to
acknowledge has run the handler (`RunInv`); neither a row nor a copy counts more
failures than happened (`CountInv`); and an event that was neither reclaimed nor
unguarded was handled at most once, with the record, the row or the pod's phase as
the witness that filters the next attempt (`RepeatInv`). `DeadLettersEarned` needs
the clause about copies, since the counter is written from them.
`Refinement` shows that
every step is a step of `EventQueue` or stutters under the mapping `QueueState`: by `HoldInv`
a row that is purged while some pod still holds the event was taken back from that pod.

`AttemptsBounded` needs more than these, for a late write can set the retry count back
and a dead letter can come back to life. The argument counts the attempts that are
*left* (`Load`): those of the row, while anybody may claim it, and those of every pod
that holds the event, by its own copy. While a pod holds the event with the count of the
row, it stands for the row, and the row has none of its own (`Represented`); a claim
only moves attempts from the row to the pod, and a failure uses one up, whoever writes
it. A claim that overruns is the one step that adds some (the row is there to be claimed
again, and its old holder goes on), and a fault can hide one (the failure is not
written). So `runs` and `fails` and what is left stay within the budget (`BudgetInv`); that
no open row and no copy has reached the maximum is `OpenInv`. The bound is reached: with two
retries, one overrun and no fault, four attempts.

*Departments.* First the tree: the subtree of a department is the least set with it
and closed under children; a move of a department below something outside its
subtree keeps the tree free of rings; in a tree without rings every department is
reachable from the root (so nothing disappears). The invariant then says, for each
request, what the check it has passed still guarantees while it is not marked
stale. It is this clause that makes the others inductive.

*Employees.* The same plan with facts: a request's reading of an employee, a
department or a roster is true in the tables as long as it is not in its `outdated`
set (`Fresh`), and the operation's fields fit its step (`Sound`).

*Sessions.* A family that no overlapped rotation touched has one baton: one token
that is not revoked, or one request that used the last one up and has yet to issue
the next, never both (`BatonInv`). Uniqueness of the live token is not inductive
without the second half. A family that was revoked has no standing token, and every
request still refreshing in it is marked (`EndedInv`); the same holds of sessions
whose password was replaced, once nothing is left to revoke (`PasswordInv`); a
lock about to be written stands on a count that is high enough or is marked
(`LockInv`); a reset token that was spent is marked, or held by the one request that
is about to mark it (`ResetInv`). `Kept` says that a step leaves the other requests
where they are, up to their marks.

*Devices.* For each request: one that has counted leaves room for its row, one that
has looked for other owners knows them all, one about to record a use knows the one
active row, a copied push token is the latest, each as long as no write has outdated
the reading (`LimitInv`, `OwnerInv`, `UseInv`, `TokenInv`). The first holds of the
devices that were never reactivated; `ActiveGrows` shows that only an insert adds
to them. `UseInv` rests on `OwnerInv`: with one owner a use has one row to go to.

*TenantDatabase.* Everything rests on one fact: a request that was not disturbed is
the only user of its client (`Alone`), so that nobody else moves its transaction and
its tenant. `Sound` says of every session, disturbed or not, that a transaction has a
user who will end it, and that without one no tenant and no writes are left behind,
which is why a client that goes back to the pool is clean whatever failed. `Fate`
follows a request's writes: in its own transaction, or committed, or in an aborted
transaction whose error the callback swallowed. As a by-product it shows that
`executeWithTenant` never writes. `RetryTakesTheClientOfAnother` shows that no second
attempt of `transaction` begins except over a client that another request has acquired
during the pause: otherwise the second release throws.

*Tenants.* A request's copy is the row as it stands unless it is outdated (`Copied`); a
cached row that says active was read no later than the tenant ceased to be (`Cached`);
a flag is what was asked for last unless an older copy, or a request that named no flags,
was written over it (`Asked`).

*Roles.* For each row (`Kept`): a row without an overlap has one process between its
delete and its insert at a time, and is empty then; a system row has its defaults, or
is empty. For each process (`Known`): the list it is about to insert into a system row
contains the defaults, checked before the delete; a signed revocation of one's own
roles has no administrator row in it. `Seeds`: the script has dealt with the slugs
before `next` and works on `next`. A second invariant (`Filled`) stands on the first: a system row
was granted a list, or a crash left it bare, or some process has yet to insert into it
(`Filling`); when the script has ended that process is no longer the script's, which gives
`SeedingCompletes`. `Governed`: before the operator appoints somebody no
employee has a role, a token or a request; and then there is a system row of the
administrators, which nobody can delete, so that no custom role can take its slug.

*Scheduler.* The invariant (`CronInv`) is about what a pod has not yet run: a job that was
added was added in its hour, by a turn that has passed (`CountedOnce`). The jobs of the
check-out of a day are at most as many as the midnights at its end at which the pod had
its turn, so that a clock that shows midnight twice is the one way to a second one.
`EarlyOnlyIfNotOver` uses that a later hour cannot check out a day that was reconciled:
the midnight would have been served when it was reached.

*Calendar.* `FromZonedIsShown`: two corrections of a guess always find an instant that
shows the local time, if there is one. `ShownOnce`: where there is exactly one, it divides
the instants; the clock shows less before it and more after it. This gives
`PeriodHoldsItsDays`, the agreement of payroll periods and work dates for any zone, any
days and any instant, and `SameMonth` for the two months of `Scheduler`. The hypothesis that
the clock shows the first and the last minute of a month once is needed: see the divergences.

*Salaries.* The invariant (`PayInv`) counts: every entry and every request under way was
admitted (`PayCounted`). A request knows the currency it is about to write back unless it is
outdated, and one that has yet to write the history, and is not overlapped, has the salary
of the row and is the only such request (`PayKnown`); so its entry is the latest one and
the current one.

`PROJECT.json` lists the theorems with the properties they establish. Every invariant
and every action property of the passing runs is proved, and so is that the outbox
implements its queue.

*Proved, and checked by no run:* the type invariants of all ten specifications, the two
theorems on `Calendar` that hold of any zone, and some properties that a stronger one in a run stands next to: `DeadLetterEarned`,
`PurgedWasSettled` (`Outbox`), `ShownUnlessRaced`, `HungOnlyIfRaced` (`Departments`),
`ClosedHasNoManager`, `FollowsLifecycle` (`Employees`), `LockFollowsCount` (`Sessions`),
`TokenIsLatest` (`Devices`), `RetryTakesAClient` (`TenantDatabase`).

*Only model-checked:* the two liveness properties of `Outbox`
(`SettlesForGood`, `EventuallySettled`), since the prover has no support for fairness and
ENABLED. The violation runs are counterexamples, and need no proof.

## Where the code and its words part

Two are runs, with their counterexamples: `RolesSelfLockout` and `TenantsSettings`. The
others were met while modelling; the models contain the behaviour and name the accident, but no run is
spent on them.

- The controllers of roles pass `'system'` for the sender. Besides the lockout, every
  `POST roles/assign` fails, because `assigned_by` is a uuid.
- "Existing keys not in the payload are preserved", says the settings service. A section
  that is not in the payload is a property without a value of the DTO, and replaces the
  stored one (`TenantsSettings`).
- A handler may run twice although it is guarded, and the event is written after the
  business commit, not in its transaction (`Outbox`).
- Two moves can close a ring of departments; `terminated` is not final for an employee or a
  tenant under overlapping changes; a reset token can change the password twice; the
  reactivation of a known device is not counted against the limit.
- `enable-rls.sql` names the setting `app.current_tenant_id`, which no code sets; the model takes
  the policy of `rls-policy.helper.ts`.
- `RlsService.executeWithTenant` sets the tenant outside of a transaction, which has no
  effect: under the policy its callback sees and writes nothing. No code calls
  `RlsService`; `TenantScopedDatabase` is used by the debug controller alone.
- The retry of `transaction` releases its client twice; and as drizzle wraps errors, the
  code that triggers it is rarely seen.
- The settings `autoCheckoutEnabled` and `autoCheckoutTimeHour` are read by no task of the scheduler;
  `max_employees` and the limits of a plan are stored and shown, and never enforced.
- The comment at `date.util.ts:174` gives 124 for the work week Saturday to Wednesday; by the
  bits that `countWorkingDays` tests it is 103.
- Where, west of UTC, the clock is put back from midnight to eleven as a month turns, the
  last hour of the month comes twice, and the second time lies in no payroll period:
  `getPayrollPeriodUtcBounds` ends the month at the first of the two instants that show
  its last minute, and begins the next one after the second. (A proof of the agreement without `MonthTurnsOnce` fails there.)
- The salary column of an employee shows a change that is dated in the future at once.


## Not modelled

- *Health, debug and test endpoints, bootstrap, configuration, scripts, migrations*: wiring
  and declarations. The constraints that decide a behaviour (unique indexes, defaults,
  cascades) are modelled where they act.
- *Request pipeline*: the tenant status test and the permission guard are modelled (`Tenants`,
  `Roles`); the mapping of errors, the shape of responses and the thirty-second timeout
  keep no state.
- *Jobs*: only adding them. No processor exists yet, so what a duplicate or a retried job
  does cannot be said.
- *Utilities*: the dates are modelled where the scheduler and the payroll periods use them.
  Money, pagination, hashing and encryption are pure functions that nothing in
  the models could tell apart.
- *Departments, employees*: names, codes and other profile fields and their uniqueness
  checks, which fail cleanly on a unique index.
- *Sessions*: the registration of an account, the access token's signature, and several
  tenants of one account.
- *Tenants*: names, locale and the numbers a plan sets; nothing reads them.
- Text, formats, the contents of events and logging are abstracted everywhere.

## Plan

1. `EventQueue`, `Outbox`: done, proved. The most important behaviour: every other
   component's side effects pass through it.
2. `DepartmentTree`, `Departments`: done, proved.
3. `Employees`, composing employees, departments and devices: done, proved.
4. `Sessions`: done, proved.
5. `Devices`: done, proved.
6. `AccessControl`, `Roles`: done, proved.
7. `Tenants`: done, proved.
8. `TenantDatabase`: done, proved.
9. `Calendar`, `Scheduler`, `Salaries`: done, proved.
10. The bound on the attempts of an event (`AttemptsAreBounded`): done, proved.
11. Left: a bound on how often an event can be reclaimed, by pods, faults and overruns;
    zones with more than one change in `Calendar`; that the tenants' cache is never behind by
    more than its lifetime, for every field of the row and not only the status.
