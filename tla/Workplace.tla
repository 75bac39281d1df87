----------------------------- MODULE Workplace ------------------------------
(***************************************************************************)
(* The departments of one tenant, and the attendance of its employees      *)
(* (modules/departments, hr/attendance.service.ts).                        *)
(***************************************************************************)
EXTENDS Integers, FiniteSets

CONSTANTS Departments, NoOne,   \* ids that may be created (bound), and no department
          Workers,              \* employees that exist
          Instants               \* milliseconds that the clock may show (bound)

ASSUME WorkplaceAssumption == NoOne \notin Departments /\ Instants \subseteq Nat

VARIABLES
  parent,   \* parent[d], of the departments that exist
  clock,    \* milliseconds
  record,   \* record[e], a function from dates, which are moments
  clockOut, \* a clock-out under way
  raced     \* history: records clocked in again within the millisecond they are dated

workplaceVars == <<parent, clock, record, clockOut, raced>>

Out == [pc |-> "idle"]
Put(f, x, v) == [y \in DOMAIN f \union {x} |-> IF y = x THEN v ELSE f[y]]
None == [x \in {} |-> 0]

WorkplaceInit ==
  /\ parent = None
  /\ clock = 0
  /\ record = [e \in Workers |-> None]
  /\ clockOut = Out
  /\ raced = {}

-----------------------------------------------------------------------------
(* Departments *)

\* create and update write any parent, without a look at what it names.
DepartmentRequests ==
  /\ \E d \in Departments, p \in Departments \union {NoOne} : parent' = Put(parent, d, p)
  /\ UNCHANGED <<clock, record, clockOut, raced>>

\* Mutant of Roots: a department whose parent is unknown is left out.
ParentlessRoots == {d \in DOMAIN parent : parent[d] = NoOne}

\* getTree: a department is among the children of its parent when the list has
\* that parent, and else a root.
Roots == {d \in DOMAIN parent : parent[d] \notin DOMAIN parent}

Tree ==
  LET Level[n \in Nat] ==
        IF n = 0 THEN Roots ELSE {d \in DOMAIN parent : parent[d] \in Level[n - 1]}
  IN UNION {Level[n] : n \in 0..Cardinality(DOMAIN parent)}

-----------------------------------------------------------------------------
(* Attendance *)

\* Mutant of Day: the date of a record is the day.
Today(m) == 0

\* The date of a moment, to clockIn and clockOut, is that moment.
Day(m) == m

\* A call reads the clock anew for each of its dates; what it reads may be a
\* millisecond old when its statement runs.
Readings == {m \in {clock - 1, clock} : m >= 0}

\* The upsert asks for one reading, dates the row it creates by the next and
\* writes the third. A row of the second one that is there fails the call.
ClockIn(e) ==
  \E asked, dated, in \in Readings :
    /\ asked <= dated /\ dated <= in
    /\ \/ /\ Day(asked) \in DOMAIN record[e]
          /\ record' = [record EXCEPT ![e][Day(asked)].in = in]
       \/ /\ {Day(asked), Day(dated)} \intersect DOMAIN record[e] = {}
          /\ record' = [record EXCEPT ![e] = Put(@, Day(dated), [in |-> in, out |-> -1, hours |-> 0])]
    /\ raced' = raced \union ({<<e, asked>>} \intersect {<<e, d>> : d \in DOMAIN record[e]})
    /\ UNCHANGED clockOut

\* Where there is no record of that millisecond, the call fails, whatever records
\* of the day there are.
FindRecord(e) ==
  \E asked \in Readings :
    /\ clockOut = Out
    /\ Day(asked) \in DOMAIN record[e]
    /\ clockOut' = [pc |-> "found", of |-> e, date |-> Day(asked), in |-> record[e][Day(asked)].in]
    /\ UNCHANGED <<record, raced>>

\* The column hoursWorked keeps hundredths of an hour of 36000 milliseconds: a
\* half goes up, as no clock-out precedes the clock-in that it read.
HundredthsOf(span) == (span + 18000) \div 36000

\* The update names the row by its id.
WriteClockOut ==
  /\ clockOut # Out
  /\ record' = [record EXCEPT ![clockOut.of][clockOut.date] =
       [@ EXCEPT !.out = clock, !.hours = HundredthsOf(clock - clockOut.in)]]
  /\ clockOut' = Out
  /\ UNCHANGED raced

AttendanceRequests ==
  /\ (\E e \in Workers : ClockIn(e) \/ FindRecord(e)) \/ WriteClockOut
  /\ UNCHANGED <<parent, clock>>

Tick ==
  /\ \E m \in Instants : clock < m /\ clock' = m
  /\ UNCHANGED <<parent, record, clockOut, raced>>

WorkplaceNext == DepartmentRequests \/ AttendanceRequests \/ Tick

WorkplaceSpec == WorkplaceInit /\ [][WorkplaceNext]_workplaceVars

-----------------------------------------------------------------------------
(* Properties *)

WorkplaceTypeOK ==
  /\ DOMAIN parent \subseteq Departments
  /\ clock \in Nat
  /\ \A e \in Workers : DOMAIN record[e] \subseteq Nat
  /\ clockOut.pc \in {"idle", "found"}
  /\ raced \subseteq Workers \X Nat

\* The tree leaves a department out only when its parents go round in a circle:
\* the parent of one that is left out is in the list, and left out too.
TreeComplete == \A d \in DOMAIN parent \ Tree : parent[d] \in DOMAIN parent \ Tree

\* The hours of a record are those between its own clock-in and clock-out, to
\* half a hundredth, although a clock-out is computed on a record read before: a
\* later clock-in starts a record of its own, except within one millisecond.
HoursTrue ==
  \A e \in Workers : \A d \in DOMAIN record[e] :
    record[e][d].out >= 0 /\ <<e, d>> \notin raced =>
      LET span == record[e][d].out - record[e][d].in IN
      /\ span >= 0
      /\ 36000 * record[e][d].hours \in (span - 18000)..(span + 18000)
=============================================================================
