------------------------------ MODULE Salaries ------------------------------
(***************************************************************************)
(* The pay of one employee: the columns base_salary_encrypted and          *)
(* salary_currency of employees, and the rows of salary_history.           *)
(* createEmployee and updateSalary write the one and then the other,       *)
(* without a transaction.  An amount stands for its ciphertext; encryption *)
(* keeps it.  The events that follow are those of Outbox.                  *)
(***************************************************************************)
EXTENDS Naturals, FiniteSets

CONSTANTS
  Requests,   \* the requests that may be in flight at a time
  Amounts,    \* the salaries
  Currencies, \* the currencies
  Unset,      \* no row, and a field that a request leaves out
  LastDay,    \* bound: the days
  MaxRequests \* bound: requests that were admitted

Days == 1 .. LastDay
Pays == [amount : Amounts, currency : Currencies]

ASSUME SalariesAssumption ==
  /\ LastDay \in Nat \ {0}
  /\ MaxRequests \in Nat
  /\ Amounts # {} /\ Currencies # {}
  /\ Unset \notin Amounts /\ Unset \notin Currencies /\ Unset \notin Days

VARIABLES
  standing, \* employees.status; "none": there is no row yet
  pay,      \* employees.base_salary_encrypted and salary_currency
  ledger,   \* the rows of salary_history
  change,   \* change[c]: the request in flight
  today,    \* the date
  admitted, \* the requests so far, for the bound
  asked,    \* history: the currency that was last asked for
  lost,     \* history: a currency was undone with one read before it was written
  astray    \* history: since the last change in good order one was cut short,
            \* overlapped with another, or was not dated after the others

row == <<standing, pay>>
payVars == <<row, ledger, change, today, admitted, asked, lost, astray>>

Entries == [id : 1 .. MaxRequests, pay : Pays, effective : Days]
Change == [pc : {"idle", "create", "update", "record"}, pay : Pays, effective : Days,
           named : BOOLEAN, outdated : BOOLEAN, overlapped : BOOLEAN]

APay == CHOOSE p \in Pays : TRUE
NoChange == [pc |-> "idle", pay |-> APay, effective |-> 1, named |-> FALSE,
             outdated |-> FALSE, overlapped |-> FALSE]

PayInit ==
  /\ standing = "none"
  /\ pay = Unset
  /\ ledger = {}
  /\ change = [c \in Requests |-> NoChange]
  /\ today = 1
  /\ admitted = 0
  /\ asked = Unset
  /\ lost = FALSE /\ astray = FALSE

-----------------------------------------------------------------------------
(* Plausible slips, for the properties to catch.  No action uses them. *)

\* The history is read in ascending order.
LatestAscending(entries) ==
  {x \in entries : \A y \in entries : x.effective <= y.effective}

\* A request without a currency means the default one.
CurrencyOrFirst(seen, cur) == IF cur = Unset THEN CHOOSE x \in Currencies : TRUE ELSE cur

-----------------------------------------------------------------------------
(* Where a request starts. *)

BeginChange(c, t) ==
  /\ change[c] = NoChange
  /\ admitted < MaxRequests
  /\ admitted' = admitted + 1
  /\ change' = [change EXCEPT ![c] = t]
  /\ UNCHANGED <<row, ledger, today, asked, lost, astray>>

\* createEmployee: neither the number nor the user has a row yet.
CreateWithPay(c, p, hired) ==
  /\ standing = "none"
  /\ BeginChange(c, [NoChange EXCEPT !.pc = "create", !.pay = p, !.effective = hired])

CurrencyOf(seen, cur) == IF cur = Unset THEN seen ELSE cur
DateOf(date) == IF date = Unset THEN today ELSE date

\* updateSalary: the row is read, for its status and its currency.
UpdateSalary(c, amount, cur, date) ==
  /\ standing = "active"
  /\ BeginChange(c, [NoChange EXCEPT !.pc = "update", !.effective = DateOf(date),
                 !.named = cur # Unset,
                 !.pay = [amount |-> amount, currency |-> CurrencyOf(pay.currency, cur)]])

-----------------------------------------------------------------------------
(* The writes. *)

Recording == {c \in Requests : change[c].pc = "record"}

\* The next step of c, and what its write means for the others: those that have
\* read the row hold an old copy, those that wrote it and not the history overlap.
Outdate(c, then) ==
  [d \in Requests |->
     IF d = c THEN then
     ELSE [change[d] EXCEPT !.outdated = (@ \/ change[d].pc = "update"),
                            !.overlapped = (@ \/ change[d].pc = "record")]]

\* The INSERT into employees; the number and the user are unique.
InsertEmployee(c) ==
  /\ change[c].pc = "create"
  /\ standing = "none"
  /\ standing' = "active"
  /\ pay' = change[c].pay
  /\ asked' = change[c].pay.currency
  /\ change' = [change EXCEPT ![c].pc = "record"]
  /\ UNCHANGED <<ledger, today, admitted, lost, astray>>

RefuseEmployee(c) ==
  /\ change[c].pc = "create"
  /\ standing # "none"
  /\ change' = [change EXCEPT ![c] = NoChange]
  /\ UNCHANGED <<row, ledger, today, admitted, asked, lost, astray>>

\* The UPDATE of employees, whatever the effective date and the status now.
WritePay(c) ==
  LET t == change[c]
  IN  /\ t.pc = "update"
      /\ pay' = t.pay
      /\ asked' = IF t.named THEN t.pay.currency ELSE asked
      /\ lost' = (IF t.named THEN FALSE ELSE lost \/ t.outdated)
      /\ astray' = (astray \/ Recording # {})
      /\ change' = Outdate(c, [t EXCEPT !.pc = "record", !.overlapped = (Recording # {})])
      /\ UNCHANGED <<standing, ledger, today, admitted>>

\* The INSERT into salary_history.
Record(c) ==
  LET t == change[c]
      newest == \A x \in ledger : x.effective < t.effective
  IN  /\ t.pc = "record"
      /\ ledger' = ledger \cup {[id |-> Cardinality(ledger) + 1, pay |-> t.pay,
                                 effective |-> t.effective]}
      /\ astray' = IF newest /\ ~ t.overlapped THEN FALSE ELSE TRUE
      /\ change' = [change EXCEPT ![c] = NoChange]
      /\ UNCHANGED <<row, today, admitted, asked, lost>>

\* The process dies, or the statement fails: the row may be written alone.
ChangeDies(c) ==
  /\ change[c] # NoChange
  /\ change' = [change EXCEPT ![c] = NoChange]
  /\ astray' = (astray \/ change[c].pc = "record")
  /\ UNCHANGED <<row, ledger, today, admitted, asked, lost>>

\* changeStatus of Employees.
Terminate ==
  /\ standing = "active"
  /\ standing' = "terminated"
  /\ UNCHANGED <<pay, ledger, change, today, admitted, asked, lost, astray>>

Tomorrow ==
  /\ today < LastDay
  /\ today' = today + 1
  /\ UNCHANGED <<row, ledger, change, admitted, asked, lost, astray>>

-----------------------------------------------------------------------------
RequestChange(c) ==
  \/ \E p \in Pays, d \in Days : CreateWithPay(c, p, d)
  \/ \E a \in Amounts, u \in Currencies \cup {Unset}, d \in Days \cup {Unset} :
       UpdateSalary(c, a, u, d)

WriteChange(c) == InsertEmployee(c) \/ RefuseEmployee(c) \/ WritePay(c) \/ Record(c)

PayNext ==
  \/ \E c \in Requests : RequestChange(c) \/ WriteChange(c) \/ ChangeDies(c)
  \/ Terminate
  \/ Tomorrow

PaySpec == PayInit /\ [][PayNext]_payVars

-----------------------------------------------------------------------------
PayTypeOK ==
  /\ standing \in {"none", "active", "terminated"}
  /\ pay \in Pays \cup {Unset}
  /\ standing # "none" => pay \in Pays
  /\ ledger \subseteq Entries
  /\ change \in [Requests -> Change]
  /\ today \in Days
  /\ admitted \in 0 .. MaxRequests
  /\ asked \in Currencies \cup {Unset}
  /\ lost \in BOOLEAN /\ astray \in BOOLEAN

\* findLatestByEmployee and the head of findByEmployee: ORDER BY effective_date
\* leaves the order of rows with one date open.
Latest(entries) == {x \in entries : \A y \in entries : x.effective >= y.effective}

\* "The most recent salary record ... to determine the current salary"
\* (salary-history.repository): it is the salary of the employee when no request
\* is halfway, unless the last changes were cut short, overlapped, or carried a
\* date that is not after all the others.  One change in good order repairs it.
LatestIsCurrent ==
  \/ standing = "none" \/ Recording # {} \/ astray
  \/ {x.pay : x \in Latest(ledger)} = {pay}

\* A change that leaves the currency out keeps it: the salary is in the currency
\* that was asked for last, unless it was overwritten with one read earlier.
CurrencyIsKept == standing = "none" \/ lost \/ pay.currency = asked

=============================================================================
