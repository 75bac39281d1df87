------------------------------ MODULE Payroll -------------------------------
(***************************************************************************)
(* The employees of one tenant and its payroll (modules/employees, hr).    *)
(* Every statement names the tenant, or a row by an id that only its       *)
(* tenant has seen.  A calculation writes its lines one at a time, without *)
(* a transaction; other requests run between them.                         *)
(*                                                                         *)
(* Amounts are in hundredths, what the columns keep, and figures on their  *)
(* way there in twentieths of one.  Salaries are far from the limits of    *)
(* the columns: a double holds every figure to less than a twentieth.      *)
(***************************************************************************)
EXTENDS Integers

CONSTANTS Employees, Periods, \* ids that may be created (bound)
          Calculations,       \* calls of calculate at one time (bound)
          Salaries,           \* that clients give, unchecked; 0 is also none
          Cap,                \* of social security
          NoPeriod            \* what an idle call is about

ASSUME PayrollAssumption ==
  /\ Salaries \subseteq Int /\ 0 \in Salaries /\ Cap \in Nat
  /\ NoPeriod \notin Periods /\ "nobody" \notin Calculations

VARIABLES
  staff,    \* staff[e], the row of an employee, or NoEmployee
  period,   \* period[p], "none" or the status of the period
  payLine,  \* payLine[p][e], a line, or NoLine
  calc      \* calc[c], a call of calculate

payrollVars == <<staff, period, payLine, calc>>

NoEmployee == [status |-> "none", salary |-> 0]
EmploymentStatuses == {"ACTIVE", "TERMINATED"}   \* ON_LEAVE is unpaid like TERMINATED
Off == [pc |-> "idle", period |-> NoPeriod, left |-> {}, listed |-> {}, base |-> [e \in Employees |-> 0]]
NoLine == [base |-> 0, tax |-> 0, security |-> 0, net |-> 0, by |-> "nobody"]

PayrollInit ==
  /\ staff = [e \in Employees |-> NoEmployee]
  /\ period = [p \in Periods |-> "none"]
  /\ payLine = [p \in Periods |-> [e \in Employees |-> NoLine]]
  /\ calc = [c \in Calculations |-> Off]

-----------------------------------------------------------------------------
(* Employees: a POST, a PATCH that takes any columns, and a DELETE that     *)
(* keeps the row.                                                           *)

CreateEmployee(e, s, status) ==
  staff[e] = NoEmployee /\ staff' = [staff EXCEPT ![e] = [status |-> status, salary |-> s]]

UpdateEmployee(e, s, status) ==
  staff[e] # NoEmployee /\ staff' = [staff EXCEPT ![e] = [status |-> status, salary |-> s]]

DeleteEmployee(e) == staff[e] # NoEmployee /\ staff' = [staff EXCEPT ![e].status = "TERMINATED"]

EmployeeRequests ==
  /\ \E e \in Employees, s \in Salaries :
       \/ \E status \in EmploymentStatuses : CreateEmployee(e, s, status) \/ UpdateEmployee(e, s, status)
       \/ DeleteEmployee(e)
  /\ UNCHANGED <<period, payLine, calc>>

-----------------------------------------------------------------------------
(* Payroll *)

\* A twentieth of a salary is tax, and one, up to the cap, is social security.
\* These figures are in twentieths of a hundredth.
Tax(salary) == salary
Security(salary) == IF salary < 20 * Cap THEN salary ELSE 20 * Cap
Net(salary) == 20 * salary - Tax(salary) - Security(salary)

\* What a column may keep of a figure: the nearest hundredth.  On which side of a
\* half the product of doubles came out, nobody can say.
Nearest(x) == {n \in {x \div 20, x \div 20 + 1} : 20 * n \in (x - 10)..(x + 10)}

\* The lines that the figures of a salary may become.
Lines(c, salary) ==
  [base : {salary}, tax : Nearest(Tax(salary)), security : Nearest(Security(salary)),
   net : Nearest(Net(salary)), by : {c}]

\* Unique by its start, which stands for its id.
CreatePeriod(p) ==
  /\ period[p] = "none"
  /\ period' = [period EXCEPT ![p] = "DRAFT"]
  /\ UNCHANGED <<payLine, calc>>

\* By id, whatever its status and its lines are.
Approve(p) ==
  /\ period[p] # "none"
  /\ period' = [period EXCEPT ![p] = "APPROVED"]
  /\ UNCHANGED <<payLine, calc>>

FindPeriod(c, p) ==
  /\ calc[c].pc \in {"idle", "done"}
  /\ period[p] # "none"
  /\ calc' = [calc EXCEPT ![c] =
       [pc |-> "found", period |-> p, left |-> {}, listed |-> {}, base |-> Off.base]]
  /\ UNCHANGED <<period, payLine>>

\* What to write: a line for each active employee, with the salary of now.
ListEmployees(c) ==
  /\ calc[c].pc = "found"
  /\ LET active == {e \in Employees : staff[e].status = "ACTIVE"}
     IN calc' = [calc EXCEPT ![c] =
          [pc |-> IF active = {} THEN "done" ELSE "writing", period |-> calc[c].period,
           left |-> active, listed |-> active,
           base |-> [e \in Employees |-> IF e \in active THEN staff[e].salary ELSE 0]]]
  /\ UNCHANGED <<period, payLine>>

\* Mutant of Taken: a line that is there is written over.
Overwritten(p, e) == FALSE

\* (periodId, employeeId) is unique.
Taken(p, e) == payLine[p][e] # NoLine

\* The first line that is there already fails the call.
CreateLine(c, e) ==
  /\ calc[c].pc = "writing" /\ e \in calc[c].left
  /\ LET p == calc[c].period
     IN IF Taken(p, e) THEN calc' = [calc EXCEPT ![c] = Off] /\ UNCHANGED payLine
        ELSE /\ \E line \in Lines(c, calc[c].base[e]) : payLine' = [payLine EXCEPT ![p][e] = line]
             /\ calc' = [calc EXCEPT ![c].left = @ \ {e},
                                     ![c].pc = IF calc[c].left = {e} THEN "done" ELSE "writing"]
  /\ UNCHANGED period

\* A crash or an error of the database: the lines written so far stay.
BreakOff(c) ==
  /\ calc[c].pc \in {"found", "writing"}
  /\ calc' = [calc EXCEPT ![c] = Off]
  /\ UNCHANGED <<period, payLine>>

PayrollRequests ==
  /\ \/ \E p \in Periods : CreatePeriod(p) \/ Approve(p)
     \/ \E c \in Calculations :
          \/ \E p \in Periods : FindPeriod(c, p)
          \/ ListEmployees(c) \/ BreakOff(c)
          \/ \E e \in Employees : CreateLine(c, e)
  /\ UNCHANGED staff

PayrollNext == EmployeeRequests \/ PayrollRequests

PayrollSpec == PayrollInit /\ [][PayrollNext]_payrollVars

-----------------------------------------------------------------------------
(* Properties *)

Calls == [pc : {"idle", "found", "writing", "done"}, period : Periods \union {NoPeriod},
          left : SUBSET Employees, listed : SUBSET Employees, base : [Employees -> Salaries]]

PayLines == [base : Salaries, tax : Int, security : Int, net : Int, by : Calculations]

PayrollTypeOK ==
  /\ staff \in [Employees -> [status : EmploymentStatuses \union {"none"}, salary : Salaries]]
  /\ period \in [Periods -> {"none", "DRAFT", "APPROVED"}]
  /\ payLine \in [Periods -> [Employees -> PayLines \union {NoLine}]]
  /\ calc \in [Calculations -> Calls]

\* A calculation that was answered has written a line for every employee that
\* it listed, all of them itself and of the salaries that it read, and they are
\* still there: no later or concurrent calculation of the period, whole or
\* broken off, has replaced any.  The three figures of a line, each rounded for
\* itself, make up the salary to a hundredth, whatever its size and its sign.
PaidOnce ==
  \A c \in Calculations : calc[c].pc = "done" =>
    \A e \in calc[c].listed :
      LET line == payLine[calc[c].period][e] IN
      /\ line.by = c /\ line.base = calc[c].base[e]
      /\ line.tax + line.security + line.net - line.base \in {-1, 0, 1}
=============================================================================
