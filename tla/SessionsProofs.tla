--------------------------- MODULE SessionsProofs ---------------------------
(***************************************************************************)
(* Proofs about Sessions, for any number of tokens, resets and requests.   *)
(* A family has one baton: its standing token, or the one request that     *)
(* used the last one up.  The other parts of the invariant say which       *)
(* requests in flight a revocation, a new password, a reset of the count   *)
(* or a second reset has marked.                                           *)
(***************************************************************************)
EXTENDS Sessions, TLAPS

USE SessionsAssumption

Exists(t) == token[t] # "absent"

\* b will issue a token of the family of the token it read.
Refreshing(b) == task[b].pc \in {"rotate", "issue"} /\ task[b].token # None

\* What a request holds exists, and a family is named by a token of its own.
ShapeInv ==
  /\ \A b \in Callers :
       /\ task[b].pc \in {"rotate", "reuse", "expire"} => task[b].token # None
       /\ task[b].token # None => Exists(task[b].token)
       /\ task[b].pc = "use" => task[b].reset # None
  /\ \A t \in Tokens : IF Exists(t) THEN family[t] \in Tokens /\ Exists(family[t])
                                    ELSE family[t] = None
  /\ \A f \in ended : Exists(f)

\* One standing token in f, or one request about to issue the next, never both.
OneBaton(f) ==
  /\ \A s, t \in Tokens :
       Standing(s) /\ Standing(t) /\ family[s] = f /\ family[t] = f => s = t
  /\ \A b \in Callers : Holds(b, f) =>
       /\ \A t \in Tokens : Standing(t) => family[t] # f
       /\ \A c \in Callers : Holds(c, f) => b = c

BatonInv == \A f \in Tokens \ forked : OneBaton(f)

EndedInv ==
  \A f \in ended \ stray :
    /\ \A t \in Tokens : Standing(t) => family[t] # f
    /\ \A b \in Callers : Refreshing(b) /\ family[task[b].token] = f => task[b].outdated

\* The revocation that follows a new password is still to come or was cut short.
Unrevoked == abandoned \/ \E c \in Callers : task[c].pc \in {"use", "revoke"}

PasswordInv ==
  \/ Unrevoked
  \/ /\ \A t \in Tokens : token[t] = "live" /\ known[t] # password => family[t] \in stray
     /\ \A b \in Callers :
          /\ Refreshing(b) /\ known[task[b].token] # password =>
               task[b].outdated \/ family[task[b].token] \in stray
          /\ task[b].pc = "issue" /\ task[b].token = None /\ task[b].seen # password =>
               task[b].outdated

LockInv ==
  /\ LockFollowsCount
  /\ \A b \in Callers : task[b].pc = "lock" => failed >= MaxFailed \/ task[b].outdated

ResetInv ==
  /\ ResetSpentOnce
  /\ \A a, b \in Callers :
       a # b /\ task[a].reset = task[b].reset /\ task[a].reset # None => task[a].reset \in shared
  /\ \A r \in spent \ shared :
       /\ reset[r] = "used" \/ \E b \in Callers : task[b].pc = "use" /\ task[b].reset = r
       /\ \A b \in Callers : task[b].reset = r => task[b].pc \in {"use", "revoke"}

Inv ==
  /\ TypeOK
  /\ ShapeInv
  /\ BatonInv
  /\ EndedInv
  /\ PasswordInv
  /\ SessionNotLost
  /\ LockInv
  /\ ResetInv
LEMMA IdleTask == Idle \in Task
BY DEF Idle, Task, Steps

LEMMA InitInv == Init => Inv
<1> SUFFICES ASSUME Init PROVE Inv
  OBVIOUS
<1>1. TypeOK
  BY IdleTask DEF Init, TypeOK
<1>2. ShapeInv /\ BatonInv /\ EndedInv /\ PasswordInv /\ SessionNotLost
  BY DEF Init, ShapeInv, BatonInv, OneBaton, EndedInv, PasswordInv, Unrevoked,
     SessionNotLost, Exists, Standing, Holds, Refreshing, Idle
<1>3. LockInv /\ ResetInv
  BY DEF Init, LockInv, LockFollowsCount, ResetInv, ResetSpentOnce, Idle
<1> QED BY <1>1, <1>2, <1>3 DEF Inv

-----------------------------------------------------------------------------
(***************************************************************************)
(* Types.                                                                  *)
(***************************************************************************)

\* A request starts with a well-typed record.
LEMMA BeginTypes ==
  ASSUME TypeOK, NEW c \in Callers, NEW pc \in Steps,
         NEW t \in Tokens \cup {None}, NEW r \in Resets \cup {None}, Begin(c, pc, t, r)
  PROVE  task' \in [Callers -> Task] /\ UNCHANGED tables
BY DEF Begin, TypeOK, Task

\* So is a request that goes on to another step, or is marked as overtaken.
LEMMA GoesOn ==
  ASSUME NEW k \in Task, NEW pc \in Steps
  PROVE  [k EXCEPT !.pc = pc] \in Task
BY DEF Task

LEMMA Marked ==
  ASSUME NEW k \in Task, NEW x \in BOOLEAN
  PROVE  [k EXCEPT !.outdated = @ \/ x] \in Task
<1>1. (k.outdated \/ x) \in BOOLEAN
  OBVIOUS
<1> QED BY <1>1 DEF Task

LEMMA TypeStep ==
  ASSUME TypeOK, ShapeInv, [Next]_vars
  PROVE  TypeOK'
<1> USE DEF history, families, locks, resets, account, tables
<1>1. ASSUME NEW c \in Callers, Request(c) PROVE TypeOK'
  <2>1. ASSUME NEW t \in Tokens, Refresh(c, t) PROVE task' \in [Callers -> Task] /\ UNCHANGED tables
    BY <2>1, BeginTypes DEF Refresh, Steps
  <2>2. ASSUME NEW r \in Resets, ResetPassword(c, r)
        PROVE  task' \in [Callers -> Task] /\ UNCHANGED tables /\ shared' \subseteq Resets
    BY <2>2, BeginTypes DEF ResetPassword, Steps, TypeOK
  <2>3. ASSUME LoginRight(c) \/ LoginWrong(c) \/ ChangePassword(c)
        PROVE  task' \in [Callers -> Task] /\ UNCHANGED <<tables, history>>
    BY <2>3, BeginTypes DEF LoginRight, LoginWrong, ChangePassword, Steps
  <2> QED
    BY <1>1, <2>1, <2>2, <2>3 DEF Request, Refresh, ResetPassword, TypeOK
<1>2. ASSUME NEW c \in Callers, CountFailure(c) \/ LockAccount(c) PROVE TypeOK'
  <2>1. [task[c] EXCEPT !.pc = "lock"] \in Task
    BY GoesOn DEF TypeOK, Steps
  <2>2. task' \in [Callers -> Task]
    <3>1. CASE CountFailure(c)
      BY <2>1, <3>1, IdleTask DEF CountFailure, TypeOK
    <3>2. CASE LockAccount(c)
      BY <3>2, IdleTask DEF LockAccount, TypeOK
    <3> QED BY <1>2, <3>1, <3>2
  <2>3. task[c].outdated \in BOOLEAN
    BY DEF TypeOK, Task
  <2>4. CASE CountFailure(c)
    BY <2>2, <2>4 DEF CountFailure, TypeOK
  <2>5. CASE LockAccount(c)
    BY <2>2, <2>3, <2>5 DEF LockAccount, TypeOK
  <2> QED BY <1>2, <2>4, <2>5
<1>16. ASSUME NEW c \in Callers, NEW next \in Task, ResetCount(c, next)
       PROVE  /\ failed' \in Nat /\ locked' \in BOOLEAN /\ lapsed' \in BOOLEAN
              /\ misplaced' \in BOOLEAN /\ task' \in [Callers -> Task]
  <2>1. \A b \in Callers : [task[b] EXCEPT !.outdated = @ \/ task[b].pc = "lock"] \in Task
    BY Marked DEF TypeOK
  <2> QED BY <1>16, <2>1 DEF ResetCount
<1>17. ASSUME NEW c \in Callers, ClearFailed(c) PROVE TypeOK'
  BY <1>16, <1>17, IdleTask DEF ClearFailed, TypeOK
<1>3. ASSUME NEW c \in Callers, Rotate(c) \/ RefuseIssue(c) \/ RevokeExpired(c) PROVE TypeOK'
  BY <1>3, IdleTask DEF Rotate, RefuseIssue, RevokeExpired, FamilyOf, TypeOK, ShapeInv, Exists, Task, Steps
<1>4. ASSUME NEW c \in Callers, NEW t \in Tokens, Issue(c, t) PROVE TypeOK'
  BY <1>4, IdleTask DEF Issue, TypeOK, ShapeInv, Exists, Task, Steps
<1>5. ASSUME NEW c \in Callers, RevokeFamily(c) PROVE TypeOK'
  <2> DEFINE Hit(b) == /\ task[b].pc \in {"rotate", "issue"}
                       /\ FamilyOf(task[b].token) = family[task[c].token]
  <2>4. \A b \in Callers : Hit(b) \in BOOLEAN
    OBVIOUS
  <2>5. task' = [b \in Callers |-> IF b = c THEN Idle ELSE [task[b] EXCEPT !.outdated = @ \/ Hit(b)]]
    BY <1>5 DEF RevokeFamily
  <2> HIDE DEF Hit
  <2>1. \A b \in Callers : [task[b] EXCEPT !.outdated = @ \/ Hit(b)] \in Task
    BY <2>4, Marked DEF TypeOK
  <2>2. task' \in [Callers -> Task]
    BY <2>1, <2>5, IdleTask
  <2>3. family[task[c].token] \in Tokens
    BY <1>5 DEF RevokeFamily, ShapeInv, Exists, TypeOK, Task
  <2> QED BY <1>5, <2>2, <2>3 DEF RevokeFamily, TypeOK
<1>6. ASSUME RevokeAll
      PROVE  /\ token' \in [Tokens -> {"absent", "live", "expired", "revoked"}]
             /\ ended' \subseteq Tokens /\ abandoned' \in BOOLEAN
  <2>1. \A t \in Tokens : Exists(t) => family[t] \in Tokens
    BY DEF ShapeInv
  <2>2. ended' \subseteq Tokens
    BY <1>6, <2>1 DEF RevokeAll, TypeOK, Exists
  <2> QED BY <1>6, <2>2 DEF RevokeAll, TypeOK
<1>18. \A b \in Callers : [task[b] EXCEPT !.outdated = @ \/ Overtaken(b)] \in Task
  BY Marked DEF TypeOK, Overtaken
<1>7. ASSUME Logout PROVE TypeOK'
  <2>1. task' \in [Callers -> Task]
    BY <1>7, <1>18 DEF Logout
  <2> QED BY <1>6, <1>7, <2>1 DEF Logout, RevokeAll, TypeOK
<1>8. ASSUME NEW c \in Callers, RevokeSessions(c) PROVE TypeOK'
  <2>1. task' \in [Callers -> Task]
    BY <1>8, <1>18, IdleTask DEF RevokeSessions
  <2> QED BY <1>6, <1>8, <2>1 DEF RevokeSessions, RevokeAll, TypeOK
<1>9. ASSUME NEW c \in Callers, UpdatePassword(c) PROVE TypeOK'
  <2>1. [task[c] EXCEPT !.pc = IF {task[c].reset} \ {None} = {} THEN "revoke" ELSE "use"] \in Task
    BY GoesOn DEF TypeOK, Steps
  <2>2. {task[c].reset} \ {None} \subseteq Resets
    BY DEF TypeOK, Task
  <2> QED BY <1>9, <1>16, <2>1, <2>2 DEF UpdatePassword, TypeOK
<1>10. ASSUME NEW c \in Callers, MarkUsed(c) PROVE TypeOK'
  <2>1. [task[c] EXCEPT !.pc = "revoke"] \in Task
    BY GoesOn DEF TypeOK, Steps
  <2>2. task' = [task EXCEPT ![c] = [task[c] EXCEPT !.pc = "revoke"]]
    BY <1>10 DEF MarkUsed
  <2>3. task' \in [Callers -> Task]
    BY <2>1, <2>2 DEF TypeOK
  <2> QED BY <1>10, <2>3 DEF MarkUsed, TypeOK
<1>11. ASSUME NEW c \in Callers, Dies(c) PROVE TypeOK'
  BY <1>11, IdleTask DEF Dies, FamilyOf, TypeOK, ShapeInv, Exists, Task
<1>12. ASSUME LockExpires PROVE TypeOK'
  BY <1>12 DEF LockExpires, TypeOK
<1>13. ASSUME NEW t \in Tokens, TokenExpires(t) PROVE TypeOK'
  BY <1>13 DEF TokenExpires, TypeOK
<1>14. ASSUME NEW r \in Resets, ForgotPassword(r) \/ ResetExpires(r) PROVE TypeOK'
  BY <1>14 DEF ForgotPassword, ResetExpires, TypeOK
<1>15. CASE UNCHANGED vars
  BY <1>15 DEF vars, TypeOK
<1> QED
  BY <1>1, <1>2, <1>3, <1>4, <1>5, <1>7, <1>8, <1>9, <1>10, <1>11, <1>12, <1>13, <1>14, <1>15, <1>17
  DEF Next, Step
-----------------------------------------------------------------------------
(***************************************************************************)
(* What a step leaves alone.                                               *)
(***************************************************************************)

\* b stays where it is; it may be marked as overtaken.
Kept(b) ==
  /\ task'[b].pc = task[b].pc
  /\ task'[b].token = task[b].token
  /\ task'[b].reset = task[b].reset
  /\ task'[b].seen = task[b].seen
  /\ task[b].outdated => task'[b].outdated

Acts(c) == Request(c) \/ Step(c) \/ Dies(c)

Quiet ==
  \/ Logout \/ LockExpires
  \/ \E t \in Tokens : TokenExpires(t)
  \/ \E r \in Resets : ForgotPassword(r) \/ ResetExpires(r)
  \/ UNCHANGED vars

LEMMA MarkingKeeps ==
  ASSUME TypeOK, NEW b \in Callers, NEW x,
         task'[b] = [task[b] EXCEPT !.outdated = @ \/ x]
  PROVE  Kept(b) /\ (x => task'[b].outdated)
<1> DEFINE y == task[b].outdated \/ x
<1>1. (task[b].outdated => y) /\ (x => y)
  OBVIOUS
<1>2. task'[b] = [task[b] EXCEPT !.outdated = y]
  OBVIOUS
<1> HIDE DEF y
<1>3. task'[b].outdated = y
  BY <1>2 DEF TypeOK, Task
<1>4. /\ task'[b].pc = task[b].pc /\ task'[b].token = task[b].token
      /\ task'[b].reset = task[b].reset /\ task'[b].seen = task[b].seen
  BY <1>2 DEF TypeOK, Task
<1> QED BY <1>1, <1>3, <1>4 DEF Kept

\* A step of c leaves the other requests where they are.
LEMMA OthersKept ==
  ASSUME TypeOK, NEW c \in Callers, Acts(c)
  PROVE  \A b \in Callers \ {c} : Kept(b)
<1> SUFFICES ASSUME NEW b \in Callers, b # c PROVE Kept(b)
  OBVIOUS
<1>1. CASE RevokeFamily(c)
  BY <1>1, MarkingKeeps DEF RevokeFamily
<1>2. CASE RevokeSessions(c)
  BY <1>2, MarkingKeeps DEF RevokeSessions
<1>3. CASE UpdatePassword(c) \/ ClearFailed(c)
  BY <1>3, MarkingKeeps DEF UpdatePassword, ClearFailed, ResetCount
<1>4. ASSUME task'[b] = task[b] PROVE Kept(b)
  BY <1>4 DEF Kept
<1>5. CASE Request(c)
  <2>1. task'[b] = task[b]
    BY <1>5 DEF Request, LoginRight, LoginWrong, ChangePassword, Refresh, ResetPassword, Begin, TypeOK
  <2> QED BY <1>4, <2>1
<1>6. CASE \/ CountFailure(c) \/ LockAccount(c) \/ Rotate(c) \/ RefuseIssue(c) \/ RevokeExpired(c)
           \/ (\E t \in Tokens : Issue(c, t)) \/ MarkUsed(c) \/ Dies(c)
  <2>1. task'[b] = task[b]
    BY <1>6 DEF CountFailure, LockAccount, Rotate, RefuseIssue, RevokeExpired, Issue, MarkUsed, Dies, TypeOK
  <2> QED BY <1>4, <2>1
<1> QED BY <1>1, <1>2, <1>3, <1>5, <1>6 DEF Acts, Step

LEMMA QuietKept ==
  ASSUME TypeOK, Quiet
  PROVE  \A b \in Callers : Kept(b)
<1> SUFFICES ASSUME NEW b \in Callers PROVE Kept(b)
  OBVIOUS
<1>1. CASE Logout
  BY <1>1, MarkingKeeps DEF Logout
<1>2. CASE UNCHANGED task
  BY <1>2 DEF Kept
<1> QED
  BY <1>1, <1>2 DEF Quiet, LockExpires, TokenExpires, ForgotPassword, ResetExpires, vars

LEMMA StepKinds == [Next]_vars => Quiet \/ \E c \in Callers : Acts(c)
BY DEF Next, Quiet, Acts

\* Only Issue writes a family, and it makes an absent token exist.
LEMMA TokensKept ==
  ASSUME TypeOK, ShapeInv, [Next]_vars
  PROVE  \/ /\ UNCHANGED <<family, known>>
            /\ \A t \in Tokens : Exists(t) <=> Exists(t)'
         \/ \E c \in Callers, t \in Tokens : Issue(c, t)
<1> USE DEF history, families, account, tables, TypeOK, Exists
<1>1. ASSUME UNCHANGED <<token, family, known>> PROVE UNCHANGED <<family, known>> /\ \A t \in Tokens : Exists(t) <=> Exists(t)'
  BY <1>1
<1>2. ASSUME NEW c \in Callers, Request(c) \/ CountFailure(c) \/ LockAccount(c) \/ ClearFailed(c)
                                \/ RefuseIssue(c) \/ UpdatePassword(c) \/ MarkUsed(c) \/ Dies(c)
      PROVE  UNCHANGED <<token, family, known>>
  BY <1>2 DEF Request, LoginRight, LoginWrong, ChangePassword, Refresh, ResetPassword, Begin,
     CountFailure, LockAccount, ClearFailed, RefuseIssue, UpdatePassword, MarkUsed, Dies
<1>3. ASSUME NEW c \in Callers, Rotate(c) \/ RevokeExpired(c) \/ RevokeFamily(c) \/ RevokeSessions(c)
      PROVE  UNCHANGED <<family, known>> /\ \A t \in Tokens : Exists(t) <=> Exists(t)'
  BY <1>3 DEF Rotate, RevokeExpired, RevokeFamily, RevokedWith, RevokeSessions, RevokeAll, Standing,
     ShapeInv
<1>4. CASE Logout \/ \E t \in Tokens : TokenExpires(t)
  BY <1>4 DEF Logout, RevokeAll, Standing, TokenExpires
<1>5. CASE LockExpires \/ (\E r \in Resets : ForgotPassword(r) \/ ResetExpires(r)) \/ UNCHANGED vars
  BY <1>5 DEF LockExpires, ForgotPassword, ResetExpires, vars
<1> QED BY <1>1, <1>2, <1>3, <1>4, <1>5 DEF Next, Step

-----------------------------------------------------------------------------
(***************************************************************************)
(* Each part of the invariant survives a step.                             *)
(***************************************************************************)

\* What c holds after its step.
LEMMA OwnStep ==
  ASSUME TypeOK, ShapeInv, NEW c \in Callers, Acts(c)
  PROVE  /\ task'[c].pc \in {"rotate", "reuse", "expire"} => task'[c].token # None
         /\ task'[c].token # None => task'[c].token \in Tokens /\ Exists(task'[c].token)
         /\ task'[c].pc = "use" => task'[c].reset # None
<1> USE DEF TypeOK
<1>0. /\ task[c].token \in Tokens \cup {None} /\ task[c].token # None => Exists(task[c].token)
      /\ Idle.pc = "idle" /\ Idle.token = None
  BY DEF ShapeInv, Task, Idle
<1>1. CASE LoginRight(c) \/ LoginWrong(c) \/ ChangePassword(c)
  BY <1>1 DEF LoginRight, LoginWrong, ChangePassword, Begin
<1>2. CASE \E t \in Tokens : Refresh(c, t)
  BY <1>2 DEF Refresh, Begin, Exists
<1>3. CASE \E r \in Resets : ResetPassword(c, r)
  BY <1>3 DEF ResetPassword, Begin
<1>4. CASE task'[c] = Idle
  BY <1>0, <1>4
<1>5. CASE CountFailure(c)
  BY <1>0, <1>5 DEF CountFailure, Task, Idle
<1>6. CASE Rotate(c)
  BY <1>0, <1>6 DEF Rotate, Task
<1>7. CASE \E t \in Tokens : Issue(c, t)
  BY <1>7 DEF Issue, Idle
<1>8. CASE UpdatePassword(c)
  BY <1>0, <1>8 DEF UpdatePassword, ResetCount, Task
<1>9. CASE MarkUsed(c)
  BY <1>0, <1>9 DEF MarkUsed, Task
<1> QED
  BY <1>1, <1>2, <1>3, <1>4, <1>5, <1>6, <1>7, <1>8, <1>9
  DEF Acts, Request, Step, LockAccount, ClearFailed, ResetCount, RefuseIssue, RevokeExpired,
      RevokeFamily, RevokeSessions, Dies

\* Tokens never vanish.
LEMMA ExistsStays ==
  ASSUME TypeOK, ShapeInv, [Next]_vars, NEW t \in Tokens, Exists(t)
  PROVE  Exists(t)' /\ family'[t] = family[t] /\ known'[t] = known[t]
<1>1. ASSUME NEW c \in Callers, NEW x \in Tokens, Issue(c, x)
      PROVE  Exists(t)' /\ family'[t] = family[t] /\ known'[t] = known[t]
  BY <1>1 DEF Issue, Exists, TypeOK
<1> QED BY <1>1, TokensKept

\* The ended families are families of tokens.
LEMMA EndedExist ==
  ASSUME TypeOK, ShapeInv, [Next]_vars
  PROVE  \A f \in ended' : f \in Tokens /\ Exists(f)
<1> USE DEF history, families, account, tables
<1>1. \A f \in ended : f \in Tokens /\ Exists(f)
  BY DEF ShapeInv, TypeOK
<1>2. \A t \in Tokens : Exists(t) => family[t] \in Tokens /\ Exists(family[t])
  BY DEF ShapeInv
<1>3. ASSUME NEW c \in Callers, RevokeFamily(c) PROVE \A f \in ended' : f \in Tokens /\ Exists(f)
  <2>1. task[c].token \in Tokens /\ Exists(task[c].token)
    BY <1>3 DEF RevokeFamily, ShapeInv, TypeOK, Task
  <2> QED BY <1>1, <1>2, <1>3, <2>1 DEF RevokeFamily
<1>4. ASSUME RevokeAll PROVE \A f \in ended' : f \in Tokens /\ Exists(f)
  BY <1>1, <1>2, <1>4 DEF RevokeAll, Exists
<1>5. ASSUME UNCHANGED ended PROVE \A f \in ended' : f \in Tokens /\ Exists(f)
  BY <1>1, <1>5
<1> QED
  BY <1>3, <1>4, <1>5
  DEF Next, Request, Step, LoginRight, LoginWrong, ChangePassword, Refresh, ResetPassword,
      CountFailure, LockAccount, ClearFailed, Rotate, RefuseIssue, RevokeExpired, Issue,
      UpdatePassword, MarkUsed, RevokeSessions, Dies, Logout, LockExpires, TokenExpires,
      ForgotPassword, ResetExpires, vars

LEMMA ShapeStep ==
  ASSUME TypeOK, ShapeInv, [Next]_vars
  PROVE  ShapeInv'
<1>1. TypeOK'
  BY TypeStep
<1>2. ASSUME NEW b \in Callers
      PROVE  /\ task'[b].pc \in {"rotate", "reuse", "expire"} => task'[b].token # None
             /\ task'[b].token # None => task'[b].token \in Tokens /\ Exists(task'[b].token)
             /\ task'[b].pc = "use" => task'[b].reset # None
  <2>1. ASSUME Kept(b)
        PROVE  /\ task'[b].pc \in {"rotate", "reuse", "expire"} => task'[b].token # None
               /\ task'[b].token # None => task'[b].token \in Tokens /\ Exists(task'[b].token)
               /\ task'[b].pc = "use" => task'[b].reset # None
    BY <2>1 DEF Kept, ShapeInv, TypeOK, Task
  <2> QED BY <2>1, StepKinds, QuietKept, OthersKept, OwnStep
<1>3. ASSUME NEW t \in Tokens
      PROVE  IF Exists(t)' THEN family'[t] \in Tokens /\ token'[family'[t]] # "absent"
                           ELSE family'[t] = None
  <2>1. CASE Exists(t)
    BY <2>1, ExistsStays DEF ShapeInv, Exists
  <2>2. CASE ~ Exists(t)
    <3>1. ASSUME NEW c \in Callers, NEW x \in Tokens, Issue(c, x)
          PROVE  IF Exists(t)' THEN family'[t] \in Tokens /\ token'[family'[t]] # "absent"
                               ELSE family'[t] = None
      <4>1. task[c].token # None => task[c].token \in Tokens /\ Exists(task[c].token)
        BY DEF ShapeInv, TypeOK, Task
      <4>2. task[c].token # None => /\ family[task[c].token] \in Tokens
                                    /\ Exists(family[task[c].token])
        BY <4>1 DEF ShapeInv
      <4> QED BY <2>2, <3>1, <4>1, <4>2 DEF Issue, Exists, ShapeInv, TypeOK
    <3> QED BY <2>2, <3>1, TokensKept DEF ShapeInv
  <2> QED BY <2>1, <2>2
<1>4. \A b \in Callers : task'[b].token # None => token'[task'[b].token] # "absent"
  BY <1>2, ExistsStays DEF Exists
<1>5. \A f \in ended' : token'[f] # "absent"
  BY EndedExist, ExistsStays DEF Exists
<1> QED BY <1>2, <1>3, <1>4, <1>5 DEF ShapeInv, Exists

\* Only a login or a refresh issues a token, only a refresh uses one up.
LEMMA NoNewBaton ==
  ASSUME TypeOK, ShapeInv, [Next]_vars,
         \A c \in Callers : ~ Rotate(c) /\ \A t \in Tokens : ~ Issue(c, t)
  PROVE  /\ UNCHANGED <<family, known, forked, stray>>
         /\ \A t \in Tokens : /\ Standing(t)' => Standing(t)
                              /\ token'[t] = "live" => token[t] = "live"
         /\ \A b \in Callers, f \in Tokens : Holds(b, f)' => Holds(b, f)
<1> USE DEF history, families, locks, resets, account, tables
<1>1. UNCHANGED <<family, known>>
  BY TokensKept
<1>2. UNCHANGED <<forked, stray>>
  BY DEF Next, Request, Step, LoginRight, LoginWrong, ChangePassword, Refresh, ResetPassword,
     CountFailure, LockAccount, ClearFailed, RefuseIssue, RevokeExpired, RevokeFamily,
     UpdatePassword, MarkUsed, RevokeSessions, RevokeAll, Dies, Logout, LockExpires, TokenExpires,
     ForgotPassword, ResetExpires, vars
<1>3. \A t \in Tokens : /\ Standing(t)' => Standing(t)
                        /\ token'[t] = "live" => token[t] = "live"
  <2> USE DEF Standing, TypeOK
  <2>1. ASSUME UNCHANGED token PROVE <1>3!:
    BY <2>1
  <2>2. ASSUME NEW c \in Callers, RevokeExpired(c) \/ RevokeFamily(c) PROVE <1>3!:
    BY <2>2 DEF RevokeExpired, RevokeFamily
  <2>3. ASSUME RevokeAll PROVE <1>3!:
    BY <2>3 DEF RevokeAll
  <2>4. ASSUME NEW t \in Tokens, TokenExpires(t) PROVE <1>3!:
    BY <2>4 DEF TokenExpires
  <2> QED
    BY <2>1, <2>2, <2>3, <2>4
    DEF Next, Request, Step, LoginRight, LoginWrong, ChangePassword, Refresh, ResetPassword, Begin,
        CountFailure, LockAccount, ClearFailed, RefuseIssue, UpdatePassword, MarkUsed,
        RevokeSessions, Dies, Logout, LockExpires, ForgotPassword, ResetExpires, vars
<1>4. ASSUME NEW b \in Callers, NEW f \in Tokens, Holds(b, f)' PROVE Holds(b, f)
  <2>1. CASE Kept(b)
    BY <1>1, <1>4, <2>1 DEF Kept, Holds
  <2>2. CASE Acts(b)
    <3>1. task'[b].pc = "issue" /\ task'[b].token # None
      BY <1>4 DEF Holds
    <3> USE DEF TypeOK
    <3>2. CASE Request(b)
      BY <3>1, <3>2 DEF Request, LoginRight, LoginWrong, ChangePassword, Refresh, ResetPassword, Begin
    <3>3. CASE task'[b] = Idle
      BY <3>1, <3>3 DEF Idle
    <3>4. CASE CountFailure(b) \/ UpdatePassword(b) \/ MarkUsed(b)
      BY <3>1, <3>4 DEF CountFailure, UpdatePassword, ResetCount, MarkUsed, Task, Idle
    <3> QED
      BY <2>2, <3>2, <3>3, <3>4
      DEF Acts, Step, LockAccount, ClearFailed, ResetCount, RefuseIssue, RevokeExpired,
          RevokeFamily, RevokeSessions, Dies
  <2> QED BY <2>1, <2>2, StepKinds, QuietKept, OthersKept
<1> QED BY <1>1, <1>2, <1>3, <1>4

\* A login starts a family nobody else is in.
LEMMA FreshFamily ==
  ASSUME TypeOK, ShapeInv, NEW t \in Tokens, ~ Exists(t)
  PROVE  /\ \A s \in Tokens : family[s] # t
         /\ \A b \in Callers : ~ Holds(b, t)
         /\ t \notin ended
<1>1. \A s \in Tokens : family[s] # t
  BY DEF ShapeInv
<1> QED BY <1>1 DEF ShapeInv, Holds, TypeOK, Task

LEMMA BatonStep ==
  ASSUME TypeOK, ShapeInv, BatonInv, [Next]_vars
  PROVE  BatonInv'
<1>1. ASSUME \A c \in Callers : ~ Rotate(c) /\ \A t \in Tokens : ~ Issue(c, t)
      PROVE  BatonInv'
  BY <1>1, NoNewBaton DEF BatonInv, OneBaton
<1>2. ASSUME NEW c \in Callers, Rotate(c) PROVE BatonInv'
  <2> DEFINE t0 == task[c].token
  <2>1. t0 \in Tokens /\ task' = [task EXCEPT ![c].pc = "issue"]
        /\ token' = [token EXCEPT ![t0] = "revoked"] /\ UNCHANGED family
    BY <1>2 DEF Rotate, ShapeInv, TypeOK, Task
  <2>2. \A t \in Tokens : Standing(t)' => Standing(t) /\ t # t0
    BY <2>1 DEF Standing, TypeOK
  <2>3. ASSUME NEW b \in Callers, NEW f \in Tokens, Holds(b, f)'
        PROVE  Holds(b, f) \/ (b = c /\ f = family[t0])
    <3>1. CASE b = c
      <4>1. task'[c].token = t0
        BY <2>1 DEF TypeOK, Task
      <4> QED BY <2>1, <2>3, <3>1, <4>1 DEF Holds
    <3>2. CASE b # c
      <4>1. task'[b] = task[b]
        BY <2>1, <3>2 DEF TypeOK
      <4>2. UNCHANGED family
        BY <2>1
      <4> QED BY <2>3, <4>1, <4>2 DEF Holds
    <3> QED BY <3>1, <3>2
  <2>4. forked \subseteq forked' /\ (~ Standing(t0) => family[t0] \in forked')
    BY <1>2 DEF Rotate
  <2> HIDE DEF t0
  <2> SUFFICES ASSUME NEW f \in Tokens, f \notin forked' PROVE OneBaton(f)'
    BY DEF BatonInv
  <2>5. OneBaton(f)
    BY <2>4 DEF BatonInv
  <2>6. f = family[t0] => Standing(t0)
    BY <2>4
  <2>7. ASSUME NEW s \in Tokens, NEW t \in Tokens, Standing(s)', Standing(t)',
               family'[s] = f, family'[t] = f
        PROVE  s = t
    BY <2>1, <2>2, <2>5, <2>7 DEF OneBaton
  <2>8. ASSUME NEW b \in Callers, Holds(b, f)'
        PROVE  /\ \A t \in Tokens : Standing(t)' => family'[t] # f
               /\ \A d \in Callers : Holds(d, f)' => b = d
    BY <2>1, <2>2, <2>3, <2>5, <2>6, <2>8 DEF OneBaton
  <2> QED BY <2>7, <2>8 DEF OneBaton
<1>3. ASSUME NEW c \in Callers, NEW x \in Tokens, Issue(c, x) PROVE BatonInv'
  <2> DEFINE g == family'[x]
  <2>1. /\ ~ Exists(x) /\ UNCHANGED forked
        /\ token' = [token EXCEPT ![x] = "live"]
        /\ \A t \in Tokens \ {x} : family'[t] = family[t]
    BY <1>3 DEF Issue, Exists, TypeOK
  <2>2. ASSUME NEW t \in Tokens, Standing(t)', t # x
        PROVE  Standing(t) /\ family'[t] = family[t]
    <3>1. token'[t] = token[t]
      BY <2>1, <2>2 DEF TypeOK
    <3> QED BY <2>1, <2>2, <3>1 DEF Standing
  <2>3. ASSUME NEW b \in Callers, NEW f \in Tokens, Holds(b, f)' PROVE Holds(b, f) /\ b # c
    <3>1. b # c
      BY <1>3, <2>3 DEF Issue, Holds, Idle, TypeOK
    <3>2. task'[b] = task[b]
      BY <1>3, <3>1 DEF Issue, TypeOK
    <3>3. task[b].token \in Tokens /\ Exists(task[b].token)
      BY <2>3, <3>2 DEF Holds, ShapeInv, TypeOK, Task
    <3> QED BY <2>1, <2>3, <3>1, <3>2, <3>3 DEF Holds
  <2>4. (g = x /\ \A s \in Tokens : family[s] # g) \/ Holds(c, g)
    BY <1>3, <2>1, FreshFamily DEF Issue, Holds, ShapeInv, TypeOK
  <2>5. g = x => \A b \in Callers : ~ Holds(b, g)
    BY <2>1, FreshFamily
  <2> HIDE DEF g
  <2> SUFFICES ASSUME NEW f \in Tokens, f \notin forked' PROVE OneBaton(f)'
    BY DEF BatonInv
  <2>6. OneBaton(f)
    BY <2>1 DEF BatonInv
  <2>7. family'[x] = g
    BY DEF g
  <2>8. ASSUME NEW s \in Tokens, NEW t \in Tokens, Standing(s)', Standing(t)',
               family'[s] = f, family'[t] = f
        PROVE  s = t
    BY <2>2, <2>4, <2>6, <2>7, <2>8 DEF OneBaton
  <2>9. ASSUME NEW b \in Callers, Holds(b, f)'
        PROVE  /\ \A t \in Tokens : Standing(t)' => family'[t] # f
               /\ \A d \in Callers : Holds(d, f)' => b = d
    BY <2>2, <2>3, <2>4, <2>5, <2>6, <2>7, <2>9 DEF OneBaton
  <2> QED BY <2>8, <2>9 DEF OneBaton
<1> QED BY <1>1, <1>2, <1>3

\* A request that refreshes after its own step did before, or has read a live token.
LEMMA OwnRefresh ==
  ASSUME TypeOK, ShapeInv, NEW c \in Callers, Acts(c), Refreshing(c)'
  PROVE  \/ /\ Refreshing(c)
            /\ task'[c].token = task[c].token
            /\ task[c].outdated => task'[c].outdated
         \/ /\ task'[c].token \in Tokens
            /\ token[task'[c].token] = "live"
            /\ UNCHANGED <<history, tables>>
<1> USE DEF TypeOK
<1>0. task'[c].pc \in {"rotate", "issue"} /\ task'[c].token # None
  BY DEF Refreshing
<1>1. CASE LoginRight(c) \/ LoginWrong(c) \/ ChangePassword(c) \/ \E r \in Resets : ResetPassword(c, r)
  BY <1>0, <1>1 DEF LoginRight, LoginWrong, ChangePassword, ResetPassword, Begin
<1>2. CASE \E t \in Tokens : Refresh(c, t)
  BY <1>0, <1>2 DEF Refresh, Begin
<1>3. CASE task'[c] = Idle
  BY <1>0, <1>3 DEF Idle
<1>4. CASE CountFailure(c) \/ UpdatePassword(c) \/ MarkUsed(c)
  BY <1>0, <1>4 DEF CountFailure, UpdatePassword, ResetCount, MarkUsed, Task, Idle
<1>5. CASE Rotate(c)
  BY <1>0, <1>5 DEF Rotate, Refreshing, ShapeInv, Task
<1>6. CASE \E t \in Tokens : Issue(c, t)
  BY <1>0, <1>6 DEF Issue, Idle
<1> QED
  BY <1>1, <1>2, <1>3, <1>4, <1>5, <1>6
  DEF Acts, Request, Step, LockAccount, ClearFailed, ResetCount, RefuseIssue, RevokeExpired,
      RevokeFamily, RevokeSessions, Dies

\* The histories of the families only grow.
LEMMA FamiliesGrow ==
  ASSUME TypeOK, ShapeInv, [Next]_vars
  PROVE  stray \subseteq stray' /\ ended \subseteq ended' /\ lost \subseteq lost'
<1> USE DEF history, families, locks, resets
<1>1. ASSUME NEW c \in Callers, Step(c) \/ Dies(c)
      PROVE  stray \subseteq stray' /\ ended \subseteq ended' /\ lost \subseteq lost'
  BY <1>1 DEF Step, CountFailure, LockAccount, ClearFailed, Rotate, RefuseIssue, RevokeExpired,
     RevokeFamily, Issue, UpdatePassword, MarkUsed, RevokeSessions, RevokeAll, Dies
<1> QED
  BY <1>1 DEF Next, Request, LoginRight, LoginWrong, ChangePassword, Refresh, ResetPassword,
     Logout, RevokeAll, LockExpires, TokenExpires, ForgotPassword, ResetExpires, vars

\* What a revocation of all sessions does to the requests in flight.
LEMMA RevocationMarks ==
  ASSUME TypeOK, NEW b \in Callers,
         Logout \/ \E c \in Callers : RevokeSessions(c),
         task'[b].pc \in {"rotate", "issue"}
  PROVE  /\ Kept(b)
         /\ Overtaken(b) => task'[b].outdated
<1>1. CASE Logout
  <2>1. task'[b] = [task[b] EXCEPT !.outdated = @ \/ Overtaken(b)]
    BY <1>1 DEF Logout
  <2> QED BY <2>1, MarkingKeeps
<1>2. ASSUME NEW c \in Callers, RevokeSessions(c)
      PROVE  Kept(b) /\ (Overtaken(b) => task'[b].outdated)
  <2>1. b # c
    BY <1>2 DEF RevokeSessions, Idle
  <2>2. task'[b] = [task[b] EXCEPT !.outdated = @ \/ Overtaken(b)]
    BY <1>2, <2>1 DEF RevokeSessions
  <2> QED BY <2>2, MarkingKeeps
<1> QED BY <1>1, <1>2

LEMMA EndedStep ==
  ASSUME TypeOK, ShapeInv, EndedInv, [Next]_vars
  PROVE  EndedInv'
<1> SUFFICES ASSUME NEW f \in ended', f \notin stray'
             PROVE  /\ \A t \in Tokens : Standing(t)' => family'[t] # f
                    /\ \A b \in Callers : Refreshing(b)' /\ family'[task'[b].token] = f =>
                         task'[b].outdated
  BY DEF EndedInv
<1>1. CASE f \in ended
  <2>1. /\ f \notin stray
        /\ \A t \in Tokens : Standing(t) => family[t] # f
        /\ \A b \in Callers : Refreshing(b) /\ family[task[b].token] = f => task[b].outdated
    BY <1>1, FamiliesGrow DEF EndedInv
  <2>2. ASSUME NEW t \in Tokens, Standing(t)' PROVE family'[t] # f
    <3>1. ASSUME NEW c \in Callers, NEW x \in Tokens, Issue(c, x) PROVE family'[t] # f
      <4>1. CASE t = x
        <5>1. ~ Exists(x)
          BY <3>1 DEF Issue, Exists
        <5>2. x # f
          BY <1>1, <5>1, FreshFamily
        <5>3. task[c].token # None => /\ family'[x] = family[task[c].token]
                                      /\ task[c].outdated => family'[x] \in stray'
          BY <3>1 DEF Issue, TypeOK
        <5>4. task[c].token = None => family'[x] = x
          BY <3>1 DEF Issue, TypeOK
        <5>5. task[c].token # None => Refreshing(c)
          BY <3>1 DEF Issue, Refreshing
        <5> QED BY <2>1, <4>1, <5>2, <5>3, <5>4, <5>5
      <4>2. CASE t # x
        BY <2>1, <2>2, <3>1, <4>2 DEF Issue, Standing, TypeOK
      <4> QED BY <4>1, <4>2
    <3>2. ASSUME NEW c \in Callers, Rotate(c) PROVE family'[t] # f
      BY <2>1, <2>2, <3>2 DEF Rotate, Standing, TypeOK
    <3> QED BY <2>1, <2>2, <3>1, <3>2, NoNewBaton
  <2>3. ASSUME NEW b \in Callers, Refreshing(b)', family'[task'[b].token] = f
        PROVE  task'[b].outdated
    <3>1. CASE Kept(b)
      <4>1. Refreshing(b) /\ task'[b].token = task[b].token
        BY <2>3, <3>1 DEF Kept, Refreshing
      <4>2. family[task[b].token] = f
        BY <2>3, <4>1, ExistsStays DEF ShapeInv, Refreshing, TypeOK, Task
      <4> QED BY <2>1, <3>1, <4>1, <4>2 DEF Kept
    <3>2. CASE Acts(b)
      <4>1. CASE /\ Refreshing(b)
                 /\ task'[b].token = task[b].token
                 /\ task[b].outdated => task'[b].outdated
        <5>1. family[task[b].token] = f
          BY <2>3, <4>1, ExistsStays DEF ShapeInv, Refreshing, TypeOK, Task
        <5> QED BY <2>1, <4>1, <5>1
      <4>2. CASE /\ task'[b].token \in Tokens
                 /\ token[task'[b].token] = "live"
                 /\ UNCHANGED <<history, tables>>
        BY <2>1, <2>3, <4>2 DEF Standing, tables
      <4> QED BY <2>3, <3>2, <4>1, <4>2, OwnRefresh
    <3> QED BY <3>1, <3>2, StepKinds, QuietKept, OthersKept
  <2> QED BY <2>2, <2>3
<1>2. CASE f \notin ended
  <2>1. ASSUME NEW c \in Callers, RevokeFamily(c) PROVE f = family[task[c].token]
    BY <1>2, <2>1 DEF RevokeFamily
  <2>2. ASSUME NEW c \in Callers, RevokeFamily(c)
        PROVE  /\ \A t \in Tokens : Standing(t)' => family'[t] # f
               /\ \A b \in Callers : Refreshing(b)' /\ family'[task'[b].token] = f =>
                    task'[b].outdated
    <3>1. UNCHANGED family
      BY <2>2 DEF RevokeFamily
    <3>2. ASSUME NEW t \in Tokens, family[t] = f PROVE ~ Standing(t)'
      BY <2>1, <2>2, <3>2 DEF RevokeFamily, RevokedWith, Standing
    <3>3. ASSUME NEW b \in Callers, Refreshing(b)', family'[task'[b].token] = f
          PROVE  task'[b].outdated
      <4>1. b # c
        BY <2>2, <3>3 DEF RevokeFamily, Refreshing, Idle
      <4>2. Refreshing(b) /\ task'[b].token = task[b].token
        BY <2>2, <3>3, <4>1, OthersKept DEF Kept, Refreshing, Acts, Step
      <4>3. FamilyOf(task[b].token) = f
        BY <3>1, <3>3, <4>2 DEF FamilyOf, Refreshing
      <4> QED BY <2>1, <2>2, <4>1, <4>2, <4>3 DEF RevokeFamily, Refreshing, TypeOK, Task
    <3> QED BY <3>1, <3>2, <3>3
  <2>3. ASSUME Logout \/ \E c \in Callers : RevokeSessions(c)
        PROVE  /\ \A t \in Tokens : Standing(t)' => family'[t] # f
               /\ \A b \in Callers : Refreshing(b)' /\ family'[task'[b].token] = f =>
                    task'[b].outdated
    <3>1. \A t \in Tokens : ~ Standing(t)'
      BY <2>3 DEF Logout, RevokeSessions, RevokeAll, Standing
    <3>2. ASSUME NEW b \in Callers, Refreshing(b)' PROVE task'[b].outdated
      BY <2>3, <3>2, RevocationMarks DEF Refreshing, Overtaken, Kept
    <3> QED BY <3>1, <3>2
  <2>4. UNCHANGED ended \/ Logout \/ \E c \in Callers : RevokeFamily(c) \/ RevokeSessions(c)
    BY DEF history, families, locks, resets, Next, Request, Step, LoginRight, LoginWrong, ChangePassword, Refresh,
       ResetPassword, CountFailure, LockAccount, ClearFailed, Rotate, RefuseIssue, RevokeExpired,
       Issue, UpdatePassword, MarkUsed, Dies, LockExpires, TokenExpires, ForgotPassword,
       ResetExpires, vars
  <2> QED BY <1>2, <2>2, <2>3, <2>4
<1> QED BY <1>1, <1>2

\* A login that is about to issue a token after its own step has just verified
\* the current password.
LEMMA OwnLogin ==
  ASSUME TypeOK, ShapeInv, NEW c \in Callers, Acts(c),
         task'[c].pc = "issue", task'[c].token = None
  PROVE  task'[c].seen = password
<1> USE DEF TypeOK
<1>1. CASE Request(c)
  BY <1>1 DEF Request, LoginRight, LoginWrong, ChangePassword, Refresh, ResetPassword, Begin
<1>2. CASE task'[c] = Idle
  BY <1>2 DEF Idle
<1>3. CASE CountFailure(c) \/ UpdatePassword(c) \/ MarkUsed(c)
  BY <1>3 DEF CountFailure, UpdatePassword, ResetCount, MarkUsed, Task, Idle
<1>4. CASE Rotate(c)
  BY <1>4 DEF Rotate, ShapeInv, Task
<1>5. CASE \E t \in Tokens : Issue(c, t)
  BY <1>5 DEF Issue, Idle
<1> QED
  BY <1>1, <1>2, <1>3, <1>4, <1>5
  DEF Acts, Step, LockAccount, ClearFailed, ResetCount, RefuseIssue, RevokeExpired, RevokeFamily,
      RevokeSessions, Dies

\* Until all sessions are revoked, that they still have to be is not forgotten.
LEMMA UnrevokedStays ==
  ASSUME TypeOK, ShapeInv, [Next]_vars, Unrevoked, ~ Logout,
         \A c \in Callers : ~ RevokeSessions(c)
  PROVE  Unrevoked'
<1> USE DEF history, families, locks, resets
<1>1. ASSUME abandoned PROVE abandoned'
  BY <1>1 DEF Next, Request, Step, LoginRight, LoginWrong, ChangePassword, Refresh, ResetPassword,
     CountFailure, LockAccount, ClearFailed, Rotate, RefuseIssue, RevokeExpired, RevokeFamily,
     Issue, UpdatePassword, MarkUsed, Dies, LockExpires, TokenExpires, ForgotPassword,
     ResetExpires, vars
<1>2. ASSUME NEW b \in Callers, task[b].pc \in {"use", "revoke"} PROVE Unrevoked'
  <2>1. CASE Kept(b)
    BY <1>2, <2>1 DEF Kept, Unrevoked
  <2>2. CASE Acts(b)
    <3>1. CASE MarkUsed(b)
      BY <3>1 DEF MarkUsed, Unrevoked, TypeOK, Task
    <3>2. CASE Dies(b)
      BY <1>2, <3>2 DEF Dies, Unrevoked
    <3> QED
      BY <1>2, <2>2, <3>1, <3>2
      DEF Acts, Request, Step, LoginRight, LoginWrong, ChangePassword, Refresh, ResetPassword, Begin,
          CountFailure, LockAccount, ClearFailed, Rotate, RefuseIssue, RevokeExpired, RevokeFamily,
          Issue, UpdatePassword, Idle
  <2> QED BY <2>1, <2>2, StepKinds, QuietKept, OthersKept
<1> QED BY <1>1, <1>2 DEF Unrevoked

LEMMA PasswordStep ==
  ASSUME TypeOK, ShapeInv, PasswordInv, [Next]_vars
  PROVE  PasswordInv'
<1>1. ASSUME NEW c \in Callers, UpdatePassword(c) PROVE PasswordInv'
  <2>1. task'[c].pc \in {"use", "revoke"}
    BY <1>1 DEF UpdatePassword, ResetCount, TypeOK, Task
  <2> QED BY <2>1 DEF PasswordInv, Unrevoked
<1>2. ASSUME Logout \/ \E c \in Callers : RevokeSessions(c) PROVE PasswordInv'
  <2>1. \A t \in Tokens : token'[t] # "live"
    BY <1>2 DEF Logout, RevokeSessions, RevokeAll, Standing, TypeOK
  <2>2. UNCHANGED password
    BY <1>2 DEF Logout, RevokeSessions, RevokeAll, account
  <2>3. ASSUME NEW b \in Callers, Refreshing(b)' PROVE task'[b].outdated
    BY <1>2, <2>3, RevocationMarks DEF Refreshing, Overtaken, Kept
  <2>4. ASSUME NEW b \in Callers, task'[b].pc = "issue", task'[b].token = None,
               task'[b].seen # password'
        PROVE  task'[b].outdated
    BY <1>2, <2>2, <2>4, RevocationMarks DEF Overtaken, Kept
  <2> QED BY <2>1, <2>3, <2>4 DEF PasswordInv
<1>3. ASSUME ~ Logout, \A c \in Callers : ~ RevokeSessions(c) /\ ~ UpdatePassword(c), ~ Unrevoked'
      PROVE  PasswordInv'
  <2>1. /\ \A t \in Tokens : token[t] = "live" /\ known[t] # password => family[t] \in stray
        /\ \A b \in Callers :
             /\ Refreshing(b) /\ known[task[b].token] # password =>
                  task[b].outdated \/ family[task[b].token] \in stray
             /\ task[b].pc = "issue" /\ task[b].token = None /\ task[b].seen # password =>
                  task[b].outdated
    BY <1>3, UnrevokedStays DEF PasswordInv
  <2>2. UNCHANGED password
    BY <1>3 DEF account, tables, Next, Request, Step, LoginRight, LoginWrong, ChangePassword, Refresh,
       ResetPassword, Begin, CountFailure, LockAccount, ClearFailed, Rotate, RefuseIssue,
       RevokeExpired, RevokeFamily, Issue, MarkUsed, Dies, LockExpires, TokenExpires,
       ForgotPassword, ResetExpires, vars
  <2>3. ASSUME NEW t \in Tokens, token'[t] = "live", known'[t] # password
        PROVE  family'[t] \in stray'
    <3>1. ASSUME NEW c \in Callers, NEW x \in Tokens, Issue(c, x) PROVE family'[t] \in stray'
      <4>1. CASE t = x
        <5>1. CASE task[c].token = None
          BY <2>1, <2>3, <3>1, <4>1, <5>1 DEF Issue, TypeOK
        <5>2. CASE task[c].token # None
          <6>1. /\ known'[x] = known[task[c].token] /\ family'[x] = family[task[c].token]
                /\ task[c].outdated => family'[x] \in stray'
            BY <3>1, <5>2 DEF Issue, TypeOK
          <6>2. Refreshing(c)
            BY <3>1, <5>2 DEF Issue, Refreshing
          <6> QED BY <2>1, <2>3, <4>1, <6>1, <6>2, FamiliesGrow
        <5> QED BY <5>1, <5>2
      <4>2. CASE t # x
        BY <2>1, <2>3, <3>1, <4>2, FamiliesGrow DEF Issue, TypeOK
      <4> QED BY <4>1, <4>2
    <3>2. ASSUME NEW c \in Callers, Rotate(c) PROVE family'[t] \in stray'
      BY <2>1, <2>3, <3>2, FamiliesGrow DEF Rotate, families, TypeOK
    <3> QED BY <2>1, <2>3, <3>1, <3>2, NoNewBaton
  <2>4. ASSUME NEW b \in Callers, Refreshing(b)', known'[task'[b].token] # password
        PROVE  task'[b].outdated \/ family'[task'[b].token] \in stray'
    <3>1. ASSUME Refreshing(b), task'[b].token = task[b].token, task[b].outdated => task'[b].outdated
          PROVE  task'[b].outdated \/ family'[task'[b].token] \in stray'
      <4>1. known'[task[b].token] = known[task[b].token] /\ family'[task[b].token] = family[task[b].token]
        BY <3>1, ExistsStays DEF ShapeInv, Refreshing, TypeOK, Task
      <4> QED BY <2>1, <2>4, <3>1, <4>1, FamiliesGrow
    <3>2. CASE Kept(b)
      BY <2>4, <3>1, <3>2 DEF Kept, Refreshing
    <3>3. CASE /\ task'[b].token \in Tokens
               /\ token[task'[b].token] = "live"
               /\ UNCHANGED <<history, tables>>
      BY <2>1, <2>4, <3>3 DEF tables, history, families
    <3> QED BY <2>4, <3>1, <3>2, <3>3, StepKinds, QuietKept, OthersKept, OwnRefresh
  <2>5. ASSUME NEW b \in Callers, task'[b].pc = "issue", task'[b].token = None,
               task'[b].seen # password
        PROVE  task'[b].outdated
    <3>1. CASE Kept(b)
      BY <2>1, <2>5, <3>1 DEF Kept
    <3>2. CASE Acts(b)
      BY <2>5, <3>2, OwnLogin
    <3> QED BY <3>1, <3>2, StepKinds, QuietKept, OthersKept
  <2> QED BY <2>2, <2>3, <2>4, <2>5 DEF PasswordInv
<1>4. CASE Unrevoked'
  BY <1>4 DEF PasswordInv
<1> QED BY <1>1, <1>2, <1>3, <1>4

\* A token that stops standing was used up, or its family ended or was lost.
LEMMA StandingEnds ==
  ASSUME TypeOK, ShapeInv, [Next]_vars, NEW s \in Tokens, NEW f \in Tokens,
         Standing(s), family[s] = f, ~ Standing(s)'
  PROVE  \/ \E c \in Callers : Holds(c, f)'
         \/ f \in ended' \cup lost'
<1> USE DEF history, families, account, tables, TypeOK
<1>1. ASSUME NEW c \in Callers, Rotate(c) PROVE Holds(c, f)'
  <2>1. task[c].token = s /\ UNCHANGED family
    BY <1>1 DEF Rotate, Standing, ShapeInv, Task
  <2>2. task'[c].pc = "issue" /\ task'[c].token = s /\ s # None
    BY <1>1, <2>1 DEF Rotate, ShapeInv, Task
  <2> QED BY <2>1, <2>2 DEF Holds
<1>2. ASSUME NEW c \in Callers, RevokeExpired(c) PROVE f \in lost'
  BY <1>2 DEF RevokeExpired, Standing, ShapeInv, Task
<1>3. ASSUME NEW c \in Callers, RevokeFamily(c) PROVE f \in ended'
  BY <1>3 DEF RevokeFamily, RevokedWith, Standing
<1>4. ASSUME RevokeAll PROVE f \in ended'
  BY <1>4 DEF RevokeAll, Standing
<1>5. ASSUME token'[s] = token[s] \/ token'[s] \in {"live", "expired"} PROVE FALSE
  BY <1>5 DEF Standing
<1>6. ASSUME NEW c \in Callers, NEW t \in Tokens, Issue(c, t) PROVE FALSE
  BY <1>6 DEF Issue, Standing
<1> QED
  BY <1>1, <1>2, <1>3, <1>4, <1>5, <1>6
  DEF Next, Request, Step, LoginRight, LoginWrong, ChangePassword, Refresh, ResetPassword, Begin,
      CountFailure, LockAccount, ClearFailed, RefuseIssue, UpdatePassword, MarkUsed,
      RevokeSessions, Dies, Logout, LockExpires, TokenExpires, ForgotPassword, ResetExpires, vars

\* A request that gives up the baton issues the next token, or loses the session.
LEMMA HoldEnds ==
  ASSUME TypeOK, ShapeInv, [Next]_vars, NEW b \in Callers, NEW f \in Tokens,
         Holds(b, f), ~ Holds(b, f)'
  PROVE  \/ \E s \in Tokens : Standing(s)' /\ family'[s] = f
         \/ f \in lost'
<1>0. task[b].token \in Tokens /\ Exists(task[b].token)
  BY DEF Holds, ShapeInv, TypeOK, Task
<1>1. ~ Kept(b)
  <2> SUFFICES ASSUME Kept(b) PROVE FALSE
    OBVIOUS
  <2>1. family'[task[b].token] = family[task[b].token]
    BY <1>0, ExistsStays
  <2> QED BY <2>1 DEF Kept, Holds
<1>2. Acts(b)
  BY <1>1, StepKinds, QuietKept, OthersKept
<1>3. ASSUME NEW x \in Tokens, Issue(b, x) PROVE Standing(x)' /\ family'[x] = f
  BY <1>3 DEF Issue, Holds, Standing, TypeOK
<1>4. ASSUME RefuseIssue(b) \/ Dies(b) PROVE f \in lost'
  BY <1>0, <1>4 DEF RefuseIssue, Dies, Holds, FamilyOf
<1> QED
  BY <1>2, <1>3, <1>4
  DEF Holds, Acts, Request, Step, LoginRight, LoginWrong, ChangePassword, Refresh, ResetPassword, Begin,
      CountFailure, LockAccount, ClearFailed, Rotate, RevokeExpired, RevokeFamily, UpdatePassword,
      MarkUsed, RevokeSessions, Idle

LEMMA NotLostStep ==
  ASSUME TypeOK, ShapeInv, SessionNotLost, [Next]_vars
  PROVE  SessionNotLost'
<1> DEFINE Alive(f) == \/ \E s \in Tokens : Standing(s) /\ family[s] = f
                       \/ \E c \in Callers : Holds(c, f)
                       \/ f \in ended \cup lost
<1>1. ASSUME NEW f \in Tokens, Alive(f) PROVE Alive(f)'
  <2>1. CASE f \in ended \cup lost
    BY <2>1, FamiliesGrow
  <2>2. ASSUME NEW s \in Tokens, Standing(s), family[s] = f PROVE Alive(f)'
    <3>1. family'[s] = f
      BY <2>2, ExistsStays DEF Standing, Exists
    <3> QED BY <2>2, <3>1, StandingEnds
  <2>3. ASSUME NEW b \in Callers, Holds(b, f) PROVE Alive(f)'
    BY <2>3, HoldEnds
  <2> QED BY <1>1, <2>1, <2>2, <2>3
<1> SUFFICES ASSUME NEW t \in Tokens, NEW f, token'[t] # "absent", f = family'[t]
             PROVE  Alive(f)'
  BY DEF SessionNotLost
<1>2. CASE Exists(t)
  <2>1. f = family[t] /\ f \in Tokens
    BY <1>2, ExistsStays DEF ShapeInv
  <2>2. Alive(f)
    BY <1>2, <2>1 DEF SessionNotLost, Exists
  <2> QED BY <1>1, <2>1, <2>2
<1>3. CASE ~ Exists(t)
  <2>1. PICK c \in Callers, x \in Tokens : Issue(c, x)
    BY <1>3, TokensKept DEF Exists
  <2>2. Standing(t)'
    BY <1>3, <2>1 DEF Issue, Exists, Standing, TypeOK
  <2> QED BY <2>2
<1> QED BY <1>2, <1>3

\* Only the five actions below write the count, the lock or a task at lock.
LEMMA LockKept ==
  ASSUME TypeOK, [Next]_vars, ~ LockExpires,
         \A c \in Callers : ~ CountFailure(c) /\ ~ LockAccount(c) /\ ~ ClearFailed(c)
                            /\ ~ UpdatePassword(c) /\ ~ Dies(c)
  PROVE  /\ UNCHANGED <<failed, locked, lapsed, misplaced>>
         /\ \A b \in Callers : /\ task'[b].pc = "lock" <=> task[b].pc = "lock"
                               /\ task[b].pc = "lock" /\ task[b].outdated => task'[b].outdated
<1>1. UNCHANGED <<failed, locked, lapsed, misplaced>>
  BY DEF account, tables, history, locks, Next, Request, Step, LoginRight, LoginWrong, ChangePassword,
     Refresh, ResetPassword, Begin, Rotate, RefuseIssue, RevokeExpired, RevokeFamily, Issue,
     MarkUsed, RevokeSessions, RevokeAll, Logout, TokenExpires, ForgotPassword, ResetExpires, vars
<1>2. ASSUME NEW b \in Callers, Acts(b) PROVE task'[b].pc # "lock" /\ task[b].pc # "lock"
  <2> USE DEF TypeOK
  <2>1. CASE Request(b)
    BY <2>1 DEF Request, LoginRight, LoginWrong, ChangePassword, Refresh, ResetPassword, Begin, Idle
  <2>2. CASE task'[b] = Idle /\ task[b].pc # "lock"
    BY <2>2 DEF Idle
  <2>3. CASE Rotate(b) \/ MarkUsed(b)
    BY <2>3 DEF Rotate, MarkUsed, Task
  <2>4. CASE \E t \in Tokens : Issue(b, t)
    BY <2>4 DEF Issue, Idle
  <2> QED
    BY <1>2, <2>1, <2>2, <2>3, <2>4
    DEF Acts, Step, RefuseIssue, RevokeExpired, RevokeFamily, RevokeSessions
<1>3. ASSUME NEW b \in Callers, Kept(b)
      PROVE  /\ task'[b].pc = "lock" <=> task[b].pc = "lock"
             /\ task[b].pc = "lock" /\ task[b].outdated => task'[b].outdated
  BY <1>3 DEF Kept
<1> QED BY <1>1, <1>2, <1>3, StepKinds, QuietKept, OthersKept

LEMMA LockStep ==
  ASSUME TypeOK, ShapeInv, LockInv, [Next]_vars
  PROVE  LockInv'
<1> USE DEF LockInv, LockFollowsCount
<1>0. failed \in Nat /\ MaxFailed \in Nat \ {0}
  BY DEF TypeOK
<1>1. ASSUME NEW c \in Callers, CountFailure(c) PROVE LockInv'
  <2>1. /\ failed' = failed + 1 /\ UNCHANGED <<locked, lapsed, misplaced>>
        /\ \A b \in Callers \ {c} : task'[b] = task[b]
    BY <1>1 DEF CountFailure, history, locks, TypeOK
  <2>2. /\ failed' >= MaxFailed => task'[c].pc = "lock"
        /\ failed' < MaxFailed => task'[c].pc = "idle"
    BY <1>0, <1>1 DEF CountFailure, Idle, TypeOK, Task
  <2>3. task[c].pc # "lock"
    BY <1>1 DEF CountFailure
  <2> QED BY <1>0, <2>1, <2>2, <2>3
<1>2. ASSUME NEW c \in Callers, LockAccount(c) PROVE LockInv'
  <2>1. /\ locked' /\ ~ lapsed' /\ misplaced' = task[c].outdated /\ UNCHANGED failed
        /\ task'[c].pc = "idle" /\ task[c].pc = "lock"
        /\ \A b \in Callers \ {c} : task'[b] = task[b]
    BY <1>2 DEF LockAccount, Idle, TypeOK
  <2> QED BY <1>0, <2>1
<1>3. ASSUME NEW c \in Callers, UpdatePassword(c) \/ ClearFailed(c) PROVE LockInv'
  <2>1. failed' = 0 /\ ~ locked'
    BY <1>3 DEF UpdatePassword, ClearFailed, ResetCount
  <2>2. task'[c].pc # "lock"
    BY <1>3 DEF UpdatePassword, ClearFailed, ResetCount, Idle, TypeOK, Task
  <2>3. ASSUME NEW b \in Callers, task'[b].pc = "lock" PROVE task'[b].outdated
    <3>1. b # c /\ task[b].pc = "lock"
      BY <1>3, <2>2, <2>3, OthersKept DEF Kept, Acts, Step
    <3>2. task'[b] = [task[b] EXCEPT !.outdated = @ \/ task[b].pc = "lock"]
      BY <1>3, <3>1 DEF UpdatePassword, ClearFailed, ResetCount
    <3> QED BY <3>1, <3>2, MarkingKeeps
  <2> QED BY <1>0, <2>1, <2>3
<1>4. CASE LockExpires
  BY <1>4 DEF LockExpires, tables
<1>5. ASSUME NEW c \in Callers, Dies(c) PROVE LockInv'
  <2>1. /\ UNCHANGED <<failed, locked, misplaced>> /\ lapsed' = (lapsed \/ task[c].pc = "lock")
        /\ task'[c].pc = "idle"
        /\ \A b \in Callers \ {c} : task'[b] = task[b]
    BY <1>5 DEF Dies, tables, account, Idle, TypeOK
  <2> QED BY <2>1
<1>6. ASSUME ~ LockExpires,
             \A c \in Callers : ~ CountFailure(c) /\ ~ LockAccount(c) /\ ~ ClearFailed(c)
                                /\ ~ UpdatePassword(c) /\ ~ Dies(c)
      PROVE  LockInv'
  BY <1>6, LockKept
<1> QED BY <1>1, <1>2, <1>3, <1>4, <1>5, <1>6

\* The other steps of a request begin without a reset token, or end with one.
LEMMA OwnReset ==
  ASSUME TypeOK, NEW c \in Callers, Acts(c), ~ UpdatePassword(c), ~ MarkUsed(c), ~ Dies(c),
         \A r \in Resets : ~ ResetPassword(c, r)
  PROVE  /\ task'[c].reset \in {task[c].reset, None}
         /\ task[c].pc # "use"
         /\ task[c].pc = "revoke" => task'[c].reset = None
         /\ UNCHANGED <<reset, resets>>
<1> USE DEF TypeOK, tables, history, families, locks, resets
<1>1. CASE Request(c)
  BY <1>1 DEF Request, LoginRight, LoginWrong, ChangePassword, Refresh, ResetPassword, Begin, Idle
<1>2. CASE LockAccount(c) \/ ClearFailed(c) \/ RefuseIssue(c) \/ RevokeExpired(c) \/ RevokeFamily(c)
           \/ RevokeSessions(c)
  <2>1. task'[c] = Idle
    BY <1>2 DEF LockAccount, ClearFailed, ResetCount, RefuseIssue, RevokeExpired, RevokeFamily,
       RevokeSessions
  <2> QED
    BY <1>2, <2>1 DEF Idle, LockAccount, ClearFailed, ResetCount, RefuseIssue, RevokeExpired,
       RevokeFamily, RevokeSessions, RevokeAll
<1>3. CASE CountFailure(c) \/ Rotate(c)
  BY <1>3 DEF CountFailure, Rotate, Task, Idle
<1>4. CASE \E t \in Tokens : Issue(c, t)
  BY <1>4 DEF Issue, Idle
<1> QED BY <1>1, <1>2, <1>3, <1>4 DEF Acts, Step

LEMMA ResetStep ==
  ASSUME TypeOK, ShapeInv, ResetInv, [Next]_vars
  PROVE  ResetInv'
<1> USE DEF ResetInv, ResetSpentOnce
<1>0. \A b \in Callers : task[b].reset \in Resets \cup {None}
  BY DEF TypeOK, Task
<1>1. ASSUME NEW c \in Callers, NEW r0 \in Resets, ResetPassword(c, r0) PROVE ResetInv'
  <2>1. /\ task'[c].reset = r0 /\ task'[c].pc = "update" /\ reset[r0] = "valid"
        /\ task[c].reset = None /\ task[c].pc = "idle"
        /\ \A b \in Callers \ {c} : task'[b] = task[b]
        /\ shared \subseteq shared' /\ UNCHANGED <<reset, spent, respent>>
        /\ (\E b \in Callers : task[b].reset = r0) => r0 \in shared'
    BY <1>1 DEF ResetPassword, Begin, Idle, TypeOK, tables
  <2>2. ASSUME r0 \in spent PROVE r0 \in shared'
    BY <2>1, <2>2
  <2> QED BY <2>1, <2>2
<1>2. ASSUME NEW c \in Callers, UpdatePassword(c) PROVE ResetInv'
  <2> DEFINE r0 == task[c].reset
  <2>1. /\ task'[c].reset = r0 /\ task[c].pc = "update"
        /\ task'[c].pc = IF r0 = None THEN "revoke" ELSE "use"
        /\ UNCHANGED <<reset, shared>>
        /\ r0 # None => spent' = spent \cup {r0} /\ respent' = respent \cup (spent \cap {r0})
        /\ r0 = None => spent' = spent /\ respent' = respent
    BY <1>2 DEF UpdatePassword, ResetCount, TypeOK, Task
  <2>2. \A b \in Callers \ {c} : task'[b].reset = task[b].reset /\ task'[b].pc = task[b].pc
    BY <1>2, OthersKept DEF Kept, Acts, Step
  <2> HIDE DEF r0
  <2>3. r0 = task[c].reset
    BY DEF r0
  <2>4. r0 \in spent => r0 \in shared
    BY <2>1, <2>3
  <2>5. respent' \subseteq shared'
    BY <2>1, <2>4
  <2>6. ASSUME NEW a \in Callers, NEW b \in Callers, a # b, task'[a].reset = task'[b].reset,
               task'[a].reset # None
        PROVE  task'[a].reset \in shared'
    BY <2>1, <2>2, <2>3, <2>6
  <2>7. ASSUME NEW r \in spent', r \notin shared'
        PROVE  /\ reset'[r] = "used" \/ \E b \in Callers : task'[b].pc = "use" /\ task'[b].reset = r
               /\ \A b \in Callers : task'[b].reset = r => task'[b].pc \in {"use", "revoke"}
    <3>1. CASE r = r0
      BY <2>1, <2>2, <2>3, <2>7, <3>1, <1>0
    <3>2. CASE r # r0
      BY <2>1, <2>2, <2>3, <2>7, <3>2
    <3> QED BY <3>1, <3>2
  <2> QED BY <2>5, <2>6, <2>7
<1>3. ASSUME NEW c \in Callers, MarkUsed(c) PROVE ResetInv'
  <2>1. /\ task'[c].reset = task[c].reset /\ task'[c].pc = "revoke" /\ task[c].reset \in Resets
        /\ reset' = [reset EXCEPT ![task[c].reset] = "used"]
        /\ \A b \in Callers \ {c} : task'[b] = task[b]
        /\ UNCHANGED <<spent, respent, shared>>
    BY <1>0, <1>3 DEF MarkUsed, ShapeInv, TypeOK, Task, history, resets
  <2>2. \A r \in Resets : reset'[r] = IF r = task[c].reset THEN "used" ELSE reset[r]
    BY <2>1 DEF TypeOK
  <2>3. spent \subseteq Resets
    BY DEF TypeOK
  <2> QED BY <2>1, <2>2, <2>3
<1>4. ASSUME NEW c \in Callers, Dies(c) PROVE ResetInv'
  <2>1. /\ task'[c].reset = None
        /\ shared' = IF task[c].pc = "use" THEN shared \cup {task[c].reset} ELSE shared
        /\ \A b \in Callers \ {c} : task'[b] = task[b]
        /\ UNCHANGED <<reset, spent, respent>>
    BY <1>4 DEF Dies, Idle, TypeOK, tables
  <2>2. None \notin spent
    BY DEF TypeOK
  <2> QED BY <2>1, <2>2
<1>5. ASSUME NEW c \in Callers, Acts(c), ~ UpdatePassword(c), ~ MarkUsed(c), ~ Dies(c),
             \A r \in Resets : ~ ResetPassword(c, r)
      PROVE  ResetInv'
  <2>1. /\ task'[c].reset \in {task[c].reset, None}
        /\ task[c].pc # "use"
        /\ task[c].pc = "revoke" => task'[c].reset = None
        /\ UNCHANGED <<reset, spent, respent, shared>>
    BY <1>5, OwnReset DEF resets
  <2>2. \A b \in Callers \ {c} : task'[b].reset = task[b].reset /\ task'[b].pc = task[b].pc
    BY <1>5, OthersKept DEF Kept
  <2>3. None \notin spent
    BY DEF TypeOK
  <2> QED BY <2>1, <2>2, <2>3
<1>6. CASE Quiet
  <2>1. \A b \in Callers : task'[b].reset = task[b].reset /\ task'[b].pc = task[b].pc
    BY <1>6, QuietKept DEF Kept
  <2>2. /\ UNCHANGED <<spent, respent, shared>>
        /\ \A r \in Resets : reset[r] = "used" => reset'[r] = "used"
    BY <1>6 DEF Quiet, Logout, RevokeAll, LockExpires, TokenExpires, ForgotPassword, ResetExpires,
       vars, tables, history, resets, TypeOK
  <2>3. spent \subseteq Resets
    BY DEF TypeOK
  <2> QED BY <2>1, <2>2, <2>3
<1> QED BY <1>1, <1>2, <1>3, <1>4, <1>5, <1>6, StepKinds

-----------------------------------------------------------------------------
LEMMA Invariance == Spec => []Inv
<1>1. Inv /\ [Next]_vars => Inv'
  BY TypeStep, ShapeStep, BatonStep, EndedStep, PasswordStep, NotLostStep, LockStep, ResetStep DEF Inv
<1> QED BY InitInv, <1>1, PTL DEF Spec

(***************************************************************************)
(* The theorems.                                                           *)
(***************************************************************************)

\* Every request works on well-typed rows.
THEOREM SessionsTypeCorrect == Spec => []TypeOK
<1>1. Inv => TypeOK
  BY DEF Inv
<1> QED BY Invariance, <1>1, PTL

\* rotateRefreshToken leaves one live token to a login, unless it rotates one
\* that was revoked since it was read.
THEOREM RotationKeepsOneToken == Spec => []OneLivePerFamily
<1>1. Inv => OneLivePerFamily
  BY DEF Inv, ShapeInv, Exists, BatonInv, OneBaton, OneLivePerFamily, Standing
<1> QED BY Invariance, <1>1, PTL

\* A logout, a new password or a reused token ends a session for good, unless a
\* refresh overlaps it.
THEOREM RevocationLasts == Spec => []RevokedStaysRevoked
<1>1. Inv => RevokedStaysRevoked
  BY DEF Inv, EndedInv, RevokedStaysRevoked, Standing
<1> QED BY Invariance, <1>1, PTL

\* No session outlives the password it was opened with, but for the overlaps
\* and crashes that are named.
THEOREM PasswordEndsSessions == Spec => []SessionsKnowPassword
<1>1. Inv => SessionsKnowPassword
  BY DEF Inv, PasswordInv, Unrevoked, SessionsKnowPassword
<1> QED BY Invariance, <1>1, PTL

\* A session is not lost to the rotation itself.
THEOREM RotationKeepsSession == Spec => []SessionNotLost
<1>1. Inv => SessionNotLost
  BY DEF Inv
<1> QED BY Invariance, <1>1, PTL

\* The lock and the count of handleFailedLogin agree.
THEOREM LockAgreesWithCount == Spec => []LockFollowsCount
<1>1. Inv => LockFollowsCount
  BY DEF Inv, LockInv
<1> QED BY Invariance, <1>1, PTL

\* resetPassword works twice with a token only if two requests or a crash are
\* in the way.
THEOREM ResetOnceUnlessShared == Spec => []ResetSpentOnce
<1>1. Inv => ResetSpentOnce
  BY DEF Inv, ResetInv
<1> QED BY Invariance, <1>1, PTL
=============================================================================
