------------------------------ MODULE Sessions ------------------------------
(***************************************************************************)
(* The sessions of one account in one tenant: the refresh_tokens,          *)
(* password_reset_tokens and users tables under AuthService, TokenService  *)
(* and PasswordResetService.  Every query of a request is a step, every    *)
(* UPDATE is conditional on the id alone, and no operation opens a         *)
(* transaction.  The access token, the events and the contents of the      *)
(* token rows are left out; the state of the tenant and of the employee is *)
(* a free choice here.                                                     *)
(***************************************************************************)
EXTENDS Naturals

CONSTANTS
  Tokens,       \* the refresh tokens that may ever be issued
  Resets,       \* the password reset tokens that may ever be issued
  Callers,      \* the requests that may be in flight at a time
  None,         \* no token
  MaxFailed,    \* MAX_FAILED_LOGIN_ATTEMPTS (5 in the code)
  MaxChanges,   \* bound: password changes in a run
  CountBound    \* bound: no wrong password is tried at this count

ASSUME SessionsAssumption ==
  /\ None \notin Tokens \cup Resets
  /\ MaxFailed \in Nat \ {0}
  /\ MaxChanges \in Nat
  /\ CountBound \in Nat

VARIABLES
  password,   \* the number of times password_hash was written
  failed,     \* failed_login_attempts
  locked,     \* locked_until lies in the future
  token,      \* token[t]: absent, live, expired or revoked
  family,     \* family[t]: family_id, named by the token of the login
  reset,      \* reset[r]: absent, valid, expired or used
  task,       \* task[c]: the request in flight
  known,      \* history: the password the login of t's family verified
  forked,     \* history: families that rotated a token revoked meanwhile
  ended,      \* history: families that were revoked as a whole
  stray,      \* history: families issued a token by a request so overtaken
  lost,       \* history: families whose last token ran out or was used up
  abandoned,  \* history: a password was written, the revocation cut short
  lapsed,     \* history: the lock ran out or was never written
  misplaced,  \* history: the lock was written over a reset count
  spent,      \* history: reset tokens that changed the password
  respent,    \* history: those that did it twice
  shared      \* history: resets held by two requests, or never marked

account == <<password, failed, locked>>
tables == <<account, token, family, reset>>
families == <<known, forked, ended, stray, lost>>
locks == <<lapsed, misplaced>>
resets == <<spent, respent, shared>>
history == <<families, abandoned, locks, resets>>
vars == <<tables, task, history>>

Steps == {"idle", "count", "lock", "issue", "clear", "rotate", "reuse",
          "expire", "update", "use", "revoke"}
Task == [pc : Steps, token : Tokens \cup {None}, reset : Resets \cup {None},
         seen : Nat, outdated : BOOLEAN]

Idle == [pc |-> "idle", token |-> None, reset |-> None, seen |-> 0, outdated |-> FALSE]

Init ==
  /\ password = 0
  /\ failed = 0
  /\ locked = FALSE
  /\ token = [t \in Tokens |-> "absent"]
  /\ family = [t \in Tokens |-> None]
  /\ reset = [r \in Resets |-> "absent"]
  /\ task = [c \in Callers |-> Idle]
  /\ known = [t \in Tokens |-> 0]
  /\ forked = {} /\ ended = {} /\ stray = {} /\ lost = {}
  /\ abandoned = FALSE
  /\ lapsed = FALSE /\ misplaced = FALSE
  /\ spent = {} /\ respent = {} /\ shared = {}

\* Rows with is_revoked = false.
Standing(t) == token[t] \in {"live", "expired"}

FamilyOf(t) == IF t = None THEN None ELSE family[t]

\* b has used up a token of family f and has not issued the next one yet.
Holds(b, f) == task[b].pc = "issue" /\ task[b].token # None /\ family[task[b].token] = f

-----------------------------------------------------------------------------
(***************************************************************************)
(* Where a request starts: its first query.  A request that this query     *)
(* refuses changes nothing.                                                *)
(***************************************************************************)
Begin(c, pc, t, r) ==
  /\ task[c] = Idle
  /\ task' = [task EXCEPT ![c] = [pc |-> pc, token |-> t, reset |-> r,
                                  seen |-> IF pc = "issue" THEN password ELSE 0,
                                  outdated |-> FALSE]]
  /\ UNCHANGED tables

\* login: the user is read, the lock and the password are compared with it.
LoginRight(c) ==
  /\ ~ locked
  /\ Begin(c, "issue", None, None)
  /\ UNCHANGED history

LoginWrong(c) ==
  /\ ~ locked
  /\ failed < CountBound
  /\ Begin(c, "count", None, None)
  /\ UNCHANGED history

\* refreshTokens: rotateRefreshToken reads the row of the token.
Refresh(c, t) ==
  /\ \/ token[t] = "live" /\ Begin(c, "rotate", t, None)
     \/ token[t] = "expired" /\ Begin(c, "expire", t, None)
     \/ token[t] = "revoked" /\ Begin(c, "reuse", t, None)
  /\ UNCHANGED history

\* changePassword: the current password is compared with the row.
ChangePassword(c) ==
  /\ password < MaxChanges
  /\ Begin(c, "update", None, None)
  /\ UNCHANGED history

\* forgotPassword: one insert.
ForgotPassword(r) ==
  /\ reset[r] = "absent"
  /\ reset' = [reset EXCEPT ![r] = "valid"]
  /\ UNCHANGED <<account, token, family, task, history>>

\* resetPassword: the reset token is found unused and not expired.
ResetPassword(c, r) ==
  /\ password < MaxChanges
  /\ reset[r] = "valid"
  /\ Begin(c, "update", None, r)
  /\ shared' = IF \E b \in Callers : task[b].reset = r THEN shared \cup {r} ELSE shared
  /\ UNCHANGED <<families, abandoned, locks, spent, respent>>

-----------------------------------------------------------------------------
(***************************************************************************)
(* Plausible slips in the code below, for the properties to catch.  No     *)
(* action uses them.                                                       *)
(***************************************************************************)

\* Rotation leaves the presented token as it is.
RotateKeeping(c) ==
  /\ task[c].pc = "rotate"
  /\ task' = [task EXCEPT ![c].pc = "issue"]
  /\ UNCHANGED <<tables, history>>

\* Rotation does not go on to issue the next token.
RotateOnly(c) ==
  /\ task[c].pc = "rotate"
  /\ token' = [token EXCEPT ![task[c].token] = "revoked"]
  /\ task' = [task EXCEPT ![c] = Idle]
  /\ UNCHANGED <<account, family, reset, history>>

\* A reused token is revoked alone, not with its family.
RevokedWithToken(t) == {t}

\* The reset token is never marked.
MarkNothing(c) ==
  /\ task[c].pc = "use"
  /\ task' = [task EXCEPT ![c].pc = "revoke"]
  /\ UNCHANGED <<tables, history>>

\* Only the change of a password revokes the sessions, its reset does not.
MarkAndReturn(c) ==
  /\ task[c].pc = "use"
  /\ reset' = [reset EXCEPT ![task[c].reset] = "used"]
  /\ task' = [task EXCEPT ![c] = Idle]
  /\ UNCHANGED <<account, token, family, history>>

-----------------------------------------------------------------------------
(***************************************************************************)
(* The lockout.                                                            *)
(***************************************************************************)

\* incrementFailedAttempts: one UPDATE that returns the new count.
CountFailure(c) ==
  /\ task[c].pc = "count"
  /\ failed' = failed + 1
  /\ task' = [task EXCEPT ![c] = IF failed' >= MaxFailed THEN [@ EXCEPT !.pc = "lock"] ELSE Idle]
  /\ UNCHANGED <<password, locked, token, family, reset, history>>

LockAccount(c) ==
  /\ task[c].pc = "lock"
  /\ locked' = TRUE
  /\ task' = [task EXCEPT ![c] = Idle]
  /\ lapsed' = FALSE
  /\ misplaced' = task[c].outdated
  /\ UNCHANGED <<password, failed, token, family, reset, families, abandoned, resets>>

\* The count is reset: a lock about to be written no longer follows from it.
ResetCount(c, next) ==
  /\ failed' = 0
  /\ locked' = FALSE
  /\ lapsed' = FALSE
  /\ misplaced' = FALSE
  /\ task' = [b \in Callers |->
                IF b = c THEN next
                ELSE [task[b] EXCEPT !.outdated = @ \/ task[b].pc = "lock"]]

\* resetFailedAttempts, the last write of a login.
ClearFailed(c) ==
  /\ task[c].pc = "clear"
  /\ ResetCount(c, Idle)
  /\ UNCHANGED <<password, token, family, reset, families, abandoned, resets>>

LockExpires ==
  /\ locked
  /\ locked' = FALSE
  /\ lapsed' = TRUE
  /\ misplaced' = FALSE
  /\ UNCHANGED <<password, failed, token, family, reset, task, families, abandoned, resets>>

-----------------------------------------------------------------------------
(***************************************************************************)
(* Tokens.                                                                 *)
(***************************************************************************)

\* revokeToken, whatever the row says by now.
Rotate(c) ==
  /\ task[c].pc = "rotate"
  /\ token' = [token EXCEPT ![task[c].token] = "revoked"]
  /\ task' = [task EXCEPT ![c].pc = "issue"]
  /\ forked' = IF Standing(task[c].token) THEN forked ELSE forked \cup {family[task[c].token]}
  /\ UNCHANGED <<account, family, reset, known, ended, stray, lost, abandoned, locks, resets>>

\* generateTokenPair, after tenant, employee and permissions were read.  A
\* login goes on to reset the count.
Issue(c, t) ==
  LET from == task[c].token
  IN  /\ task[c].pc = "issue"
      /\ token[t] = "absent"
      /\ token' = [token EXCEPT ![t] = "live"]
      /\ family' = [family EXCEPT ![t] = IF from = None THEN t ELSE family[from]]
      /\ known' = [known EXCEPT ![t] = IF from = None THEN task[c].seen ELSE known[from]]
      /\ task' = [task EXCEPT ![c] = IF from = None
                                      THEN [Idle EXCEPT !.pc = "clear"] ELSE Idle]
      /\ stray' = IF task[c].outdated THEN stray \cup {family'[t]} ELSE stray
      /\ UNCHANGED <<account, reset, forked, ended, lost, abandoned, locks, resets>>

\* The tenant or the employee is not admitted: the presented token is gone.
RefuseIssue(c) ==
  /\ task[c].pc = "issue"
  /\ task' = [task EXCEPT ![c] = Idle]
  /\ lost' = lost \cup ({FamilyOf(task[c].token)} \ {None})
  /\ UNCHANGED <<tables, known, forked, ended, stray, abandoned, locks, resets>>

RevokeExpired(c) ==
  /\ task[c].pc = "expire"
  /\ token' = [token EXCEPT ![task[c].token] = "revoked"]
  /\ task' = [task EXCEPT ![c] = Idle]
  /\ lost' = lost \cup {family[task[c].token]}
  /\ UNCHANGED <<account, family, reset, known, forked, ended, stray, abandoned, locks, resets>>

\* The rows revokeFamily touches.
RevokedWith(t) == {x \in Tokens : token[x] # "absent" /\ family[x] = family[t]}

\* A revoked token was presented: its family is revoked.
RevokeFamily(c) ==
  LET t == task[c].token
  IN  /\ task[c].pc = "reuse"
      /\ token' = [x \in Tokens |-> IF x \in RevokedWith(t) THEN "revoked" ELSE token[x]]
      /\ ended' = ended \cup {family[t]}
      /\ task' = [b \in Callers |->
                    IF b = c THEN Idle
                    ELSE [task[b] EXCEPT !.outdated = @ \/
                            /\ task[b].pc \in {"rotate", "issue"}
                            /\ FamilyOf(task[b].token) = family[t]]]
      /\ UNCHANGED <<account, family, reset, known, forked, stray, lost, abandoned, locks, resets>>

\* The requests that will issue a token although all are revoked now: they
\* have read a token, or have verified a password that was replaced.
Overtaken(b) ==
  \/ task[b].pc = "rotate"
  \/ task[b].pc = "issue" /\ (task[b].token # None \/ task[b].seen # password)

\* revokeAllForUser and revokeAllForUserInTenant.
RevokeAll ==
  /\ token' = [t \in Tokens |-> IF Standing(t) THEN "revoked" ELSE token[t]]
  /\ ended' = ended \cup {family[t] : t \in {x \in Tokens : token[x] # "absent"}}
  /\ abandoned' = FALSE
  /\ UNCHANGED <<account, family, reset, known, forked, stray, lost, locks, resets>>

Logout ==
  /\ RevokeAll
  /\ task' = [b \in Callers |-> [task[b] EXCEPT !.outdated = @ \/ Overtaken(b)]]

\* The expiry of a live token; of a reset token.
TokenExpires(t) ==
  /\ token[t] = "live"
  /\ token' = [token EXCEPT ![t] = "expired"]
  /\ UNCHANGED <<account, family, reset, task, history>>

ResetExpires(r) ==
  /\ reset[r] = "valid"
  /\ reset' = [reset EXCEPT ![r] = "expired"]
  /\ UNCHANGED <<account, token, family, task, history>>

-----------------------------------------------------------------------------
(***************************************************************************)
(* A new password, by changePassword (no reset token) or resetPassword.    *)
(***************************************************************************)
UpdatePassword(c) ==
  LET used == {task[c].reset} \ {None}
  IN  /\ task[c].pc = "update"
      /\ password' = password + 1
      /\ ResetCount(c, [task[c] EXCEPT !.pc = IF used = {} THEN "revoke" ELSE "use"])
      /\ spent' = spent \cup used
      /\ respent' = respent \cup (spent \cap used)
      /\ UNCHANGED <<token, family, reset, families, abandoned, shared>>

MarkUsed(c) ==
  /\ task[c].pc = "use"
  /\ reset' = [reset EXCEPT ![task[c].reset] = "used"]
  /\ task' = [task EXCEPT ![c].pc = "revoke"]
  /\ UNCHANGED <<account, token, family, history>>

RevokeSessions(c) ==
  /\ task[c].pc = "revoke"
  /\ RevokeAll
  /\ task' = [b \in Callers |->
                IF b = c THEN Idle ELSE [task[b] EXCEPT !.outdated = @ \/ Overtaken(b)]]

\* The pod dies with the request, or a query of it fails.
Dies(c) ==
  /\ task[c] # Idle
  /\ task' = [task EXCEPT ![c] = Idle]
  /\ lost' = IF task[c].pc = "issue"
             THEN lost \cup ({FamilyOf(task[c].token)} \ {None}) ELSE lost
  /\ abandoned' = (abandoned \/ task[c].pc \in {"use", "revoke"})
  /\ lapsed' = (lapsed \/ task[c].pc = "lock")
  /\ shared' = IF task[c].pc = "use" THEN shared \cup {task[c].reset} ELSE shared
  /\ UNCHANGED <<tables, known, forked, ended, stray, misplaced, spent, respent>>

-----------------------------------------------------------------------------
Request(c) ==
  \/ LoginRight(c) \/ LoginWrong(c) \/ ChangePassword(c)
  \/ \E t \in Tokens : Refresh(c, t)
  \/ \E r \in Resets : ResetPassword(c, r)

Step(c) ==
  \/ CountFailure(c) \/ LockAccount(c) \/ ClearFailed(c)
  \/ Rotate(c) \/ RefuseIssue(c) \/ RevokeExpired(c) \/ RevokeFamily(c)
  \/ \E t \in Tokens : Issue(c, t)
  \/ UpdatePassword(c) \/ MarkUsed(c) \/ RevokeSessions(c)

Next ==
  \/ \E c \in Callers : Request(c) \/ Step(c) \/ Dies(c)
  \/ Logout \/ LockExpires
  \/ \E t \in Tokens : TokenExpires(t)
  \/ \E r \in Resets : ForgotPassword(r) \/ ResetExpires(r)

Spec == Init /\ [][Next]_vars

-----------------------------------------------------------------------------
TypeOK ==
  /\ password \in Nat /\ failed \in Nat /\ locked \in BOOLEAN
  /\ token \in [Tokens -> {"absent", "live", "expired", "revoked"}]
  /\ family \in [Tokens -> Tokens \cup {None}]
  /\ reset \in [Resets -> {"absent", "valid", "expired", "used"}]
  /\ task \in [Callers -> Task]
  /\ known \in [Tokens -> Nat]
  /\ forked \subseteq Tokens /\ ended \subseteq Tokens
  /\ stray \subseteq Tokens /\ lost \subseteq Tokens
  /\ abandoned \in BOOLEAN /\ lapsed \in BOOLEAN /\ misplaced \in BOOLEAN
  /\ spent \subseteq Resets /\ respent \subseteq Resets /\ shared \subseteq Resets

\* Of each login there is one token to refresh with, unless a refresh rotated a
\* token that another request had revoked since it was read.
OneLivePerFamily ==
  \A s, t \in Tokens :
    token[s] = "live" /\ token[t] = "live" /\ family[s] = family[t] /\ s # t =>
      family[s] \in forked

\* A session that was revoked, by logout, a new password or a reused token,
\* has no live token again, unless a refresh overlapped the revocation.
RevokedStaysRevoked ==
  \A t \in Tokens : token[t] = "live" => family[t] \notin ended \/ family[t] \in stray

\* A new password ends the sessions opened with an older one: until then their
\* revocation is still to come, was cut short by a crash, or was overlapped.
SessionsKnowPassword ==
  \A t \in Tokens : token[t] = "live" =>
    \/ known[t] = password
    \/ \E c \in Callers : task[c].pc \in {"use", "revoke"}
    \/ abandoned
    \/ family[t] \in stray

\* A client that keeps refreshing keeps its session until it is revoked, runs
\* out, or a refresh fails after it has used up the token.
SessionNotLost ==
  \A t \in Tokens : token[t] # "absent" =>
    \/ \E s \in Tokens : Standing(s) /\ family[s] = family[t]
    \/ \E c \in Callers : Holds(c, family[t])
    \/ family[t] \in ended \cup lost

\* The account is locked because enough passwords were wrong, and so many wrong
\* passwords lock it, except for a reset of the count that the lock overtook,
\* and for a lock that ran out or was cut short.
LockFollowsCount ==
  /\ locked => failed >= MaxFailed \/ misplaced
  /\ failed >= MaxFailed =>
       locked \/ lapsed \/ \E c \in Callers : task[c].pc = "lock"

\* A reset token changes the password once, unless two requests held it at a
\* time or a crash kept it from being marked.
ResetSpentOnce == respent \subseteq shared
=============================================================================
