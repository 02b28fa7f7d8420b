--------------------------- MODULE AccessControl ---------------------------
(***************************************************************************)
(* The catalogue of permissions, the system roles with their default       *)
(* permissions, what each route asks for, and the guard that compares the  *)
(* two.                                                                    *)
(***************************************************************************)

-----------------------------------------------------------------------------
(* The catalogue, one set per module of the product. *)

AttendanceOwn == {"attendance:checkin", "attendance:checkout", "attendance:view_own"}

AttendanceCodes == AttendanceOwn \cup
  {"attendance:view_team", "attendance:view_all", "attendance:edit",
   "attendance:approve", "attendance:manage_geofences"}

LeaveOwn == {"leave:request", "leave:cancel_own", "leave:view_own"}

LeaveCodes == LeaveOwn \cup
  {"leave:view_team", "leave:view_all", "leave:approve", "leave:adjust_balance",
   "leave:manage_types"}

PayrollCodes ==
  {"payroll:view_own", "payroll:view_all", "payroll:process", "payroll:approve",
   "payroll:finalize", "payroll:adjust", "payroll:settle"}

EmployeeCodes ==
  {"employee:view_own", "employee:view_team", "employee:view_all", "employee:create",
   "employee:update", "employee:terminate", "employee:manage_salary"}

RbacCodes == {"rbac:view_roles", "rbac:manage_roles", "rbac:assign_roles"}

ConfigCodes == {"config:view", "config:manage"}

DepartmentCodes == {"department:view", "department:manage"}

NotificationCodes == {"notification:view_own", "notification:manage_preferences"}

AuditCodes == {"audit:view", "audit:export"}

TenantCodes == {"tenant:view_settings", "tenant:manage_settings"}

ReportCodes == {"reports:attendance", "reports:payroll", "reports:leave"}

Permissions ==
  AttendanceCodes \cup LeaveCodes \cup PayrollCodes \cup EmployeeCodes \cup RbacCodes
    \cup ConfigCodes \cup DepartmentCodes \cup NotificationCodes \cup AuditCodes
    \cup TenantCodes \cup ReportCodes

-----------------------------------------------------------------------------
(* The system roles and the permissions they are seeded with. *)

\* A plausible slip: the codes of a module added later were forgotten.
TenantAdminOutdated == Permissions \ DepartmentCodes

TenantAdmin ==
  AttendanceCodes \cup LeaveCodes \cup PayrollCodes \cup EmployeeCodes \cup RbacCodes
    \cup ConfigCodes \cup DepartmentCodes \cup NotificationCodes \cup AuditCodes
    \cup TenantCodes \cup ReportCodes

HrManager ==
  AttendanceCodes \cup LeaveCodes \cup {"payroll:view_own", "payroll:view_all"}
    \cup EmployeeCodes \cup {"rbac:view_roles"} \cup ConfigCodes \cup DepartmentCodes
    \cup NotificationCodes \cup {"audit:view", "reports:attendance", "reports:leave"}

PayrollOfficer ==
  AttendanceOwn \cup {"attendance:view_all"} \cup LeaveOwn \cup {"leave:view_all"}
    \cup PayrollCodes
    \cup {"employee:view_own", "employee:view_all", "employee:manage_salary"}
    \cup NotificationCodes \cup {"reports:payroll", "reports:attendance"}

DepartmentLead ==
  AttendanceOwn \cup {"attendance:view_team"}
    \cup LeaveOwn \cup {"leave:view_team", "leave:approve"}
    \cup {"payroll:view_own", "employee:view_own", "employee:view_team", "department:view"}
    \cup NotificationCodes

Employee ==
  AttendanceOwn \cup LeaveOwn \cup {"payroll:view_own", "employee:view_own"}
    \cup NotificationCodes

SystemSlugs ==
  {"tenant_admin", "hr_manager", "payroll_officer", "department_lead", "employee"}

\* getSystemRoleBySlug(s).permissions
DefaultsOf(s) ==
  CASE s = "tenant_admin"    -> TenantAdmin
    [] s = "hr_manager"      -> HrManager
    [] s = "payroll_officer" -> PayrollOfficer
    [] s = "department_lead" -> DepartmentLead
    [] s = "employee"        -> Employee

-----------------------------------------------------------------------------
(***************************************************************************)
(* What a route declares with RequirePermissions: all of the codes, or any *)
(* of them.  A route without the declaration needs an access token only.   *)
(***************************************************************************)
AllOf(codes) == [mode |-> "ALL", codes |-> codes]
AnyOf(codes) == [mode |-> "ANY", codes |-> codes]

DepartmentNeeds == {AllOf({"department:view"}), AllOf({"department:manage"})}

ViewRoles == AllOf({"rbac:view_roles"})
ManageRoles == AllOf({"rbac:manage_roles"})
AssignRole == AllOf({"rbac:assign_roles"})

EmployeeNeeds ==
  {AllOf({"employee:view_all"}), AnyOf({"employee:view_all", "employee:view_team"}),
   AllOf({"employee:create"}), AllOf({"employee:update"}),
   AnyOf({"employee:update", "employee:terminate"}), AllOf({"employee:manage_salary"})}

OwnNeeds == {AllOf({"employee:view_own"}), AllOf({"payroll:view_own"})}

Routes ==
  {AllOf({}), ViewRoles, ManageRoles, AssignRole}
    \cup DepartmentNeeds \cup EmployeeNeeds \cup OwnNeeds

\* RbacGuard.canActivate for an authenticated user whose token holds the codes.
Allowed(token, need) ==
  \/ need.codes = {}
  \/ need.mode = "ALL" /\ need.codes \subseteq token
  \/ need.mode = "ANY" /\ need.codes \cap token # {}
=============================================================================
