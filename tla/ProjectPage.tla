---------------------------- MODULE ProjectPage -----------------------------
(***************************************************************************)
(* The page of one project with its tasks (ProjectDetail.tsx) over the     *)
(* project service (projects.service.ts), which looks a row up and then    *)
(* changes it by its id.  Calls of the page are in flight together and are *)
(* answered in any order.  Leaving and opening the page again mounts it    *)
(* anew; the answers to the calls of the old one change nothing.           *)
(***************************************************************************)
EXTENDS Integers, FiniteSets, Sequences, SequencesExt

CONSTANTS Tasks,        \* task ids that may be created (bound)
          Statuses, First,
          PageCalls,    \* calls that may be in flight together (bound)
          MaxElsewhere  \* changes by other clients (bound)

ASSUME ProjectAssumption ==
  First \in Statuses /\ Statuses \intersect {"new", "gone"} = {} /\ MaxElsewhere \in Nat

VARIABLES
  alive,     \* the project exists
  task,      \* task[x], a status, or "new" before its creation, "gone" after deletion
  page,      \* what the page shows: view, and the list of tasks
  call,      \* the calls in flight
  crossed,   \* history: tasks changed by overlapping calls, by others, or without an answer
  elsewhere  \* history: changes by other clients so far

projectVars == <<alive, task, page, call, crossed, elsewhere>>

Free == [pc |-> "free"]
Flying == {c \in PageCalls : call[c] # Free}
Mine == {c \in Flying : call[c].mine}
About(x) == {c \in Flying : call[c].op # "load" /\ call[c].task = x}
StoredTasks == {x \in Tasks : task[x] \in Statuses}

ProjectInit ==
  /\ alive = TRUE
  /\ task = [x \in Tasks |-> "new"]
  /\ page = [view |-> "closed", list |-> <<>>]
  /\ call = [c \in PageCalls |-> Free]
  /\ crossed = {}
  /\ elsewhere = 0

Send(c, op, x, next, before) ==
  /\ call[c] = Free
  /\ call' = [call EXCEPT ![c] = [pc |-> "sent", op |-> op, task |-> x, mine |-> TRUE,
                                  next |-> next, before |-> before]]

At(c, pc) == call' = [call EXCEPT ![c].pc = pc]

-----------------------------------------------------------------------------
(* The page *)

\* Mounting: the page is loading and calls GET /projects/:id. What is still in
\* flight belongs to an older page.
Open(c) ==
  /\ call[c] = Free
  /\ page' = [view |-> "loading", list |-> <<>>]
  /\ call' = [d \in PageCalls |->
       IF d = c THEN [pc |-> "sent", op |-> "load", mine |-> TRUE]
       ELSE IF d \in Flying THEN [call[d] EXCEPT !.mine = FALSE] ELSE Free]
  /\ crossed' = {x \in Tasks : About(x) # {}}
  /\ UNCHANGED <<alive, task, elsewhere>>

\* The page shows the form and the rows once it has loaded.
Ready == page.view = "ready"
Click(x) ==
  /\ Ready
  /\ crossed' = crossed \union (IF About(x) = {} THEN {} ELSE {x})
  /\ UNCHANGED <<alive, task, elsewhere>>

\* The button of the form is disabled while a creation of this page is under way.
Submitting == \E c \in Mine : call[c].op = "create"

\* The server draws the id.
HandleCreateTask(c, x) ==
  /\ Click(x)
  /\ task[x] = "new" /\ About(x) = {}
  /\ ~Submitting
  /\ Send(c, "create", x, First, First)
  /\ UNCHANGED page

Showing(list, x, s) == [i \in DOMAIN list |-> IF list[i].id = x THEN [list[i] EXCEPT !.status = s] ELSE list[i]]
Shows(x) == {i \in DOMAIN page.list : page.list[i].id = x}

\* Optimistic: the row changes before the call.
HandleStatusChange(c, i, next) ==
  LET x == page.list[i].id
  IN /\ Click(x)
     /\ page.list[i].status # next
     /\ Send(c, "status", x, next, page.list[i].status)
     /\ page' = [page EXCEPT !.list = Showing(@, x, next)]

HandleDeleteTask(c, x) ==
  /\ Click(x)
  /\ Shows(x) # {}
  /\ Send(c, "delete", x, First, First)
  /\ UNCHANGED page

\* Mutant of Reverted: a refused change stays on the page.
Kept(list, x, before) == list

\* A refused change puts back the status that the row had at the click.
Reverted(list, x, before) == Showing(list, x, before)

\* filter: the rows of other tasks, in their order; from the k-th to the last
\* there are n + 1 - k of them.
Without(list, x) ==
  LET Others == {i \in DOMAIN list : list[i].id # x}
      n == Cardinality(Others)
  IN [k \in 1..n |-> list[CHOOSE i \in Others : Cardinality({j \in Others : j >= i}) = n + 1 - k]]

\* An answer arrives. Only a page that is still mounted changes.
AfterCall(k) ==
  CASE k.op = "load" /\ k.pc = "ok" -> [view |-> "ready", list |-> k.list]
    [] k.op = "load" /\ k.pc = "refused" -> [page EXCEPT !.view = "failed"]
    [] k.op = "create" /\ k.pc = "ok" ->
         [page EXCEPT !.list = <<[id |-> k.task, status |-> First]>> \o @]
    [] k.op = "delete" /\ k.pc = "ok" ->
         [page EXCEPT !.list = Without(@, k.task)]
    [] k.op = "status" /\ k.pc = "refused" ->
         [page EXCEPT !.list = Reverted(@, k.task, k.before)]
    [] OTHER -> page

Receive(c) ==
  /\ call[c] # Free /\ call[c].pc \in {"ok", "refused"}
  /\ page' = IF call[c].mine THEN AfterCall(call[c]) ELSE page
  /\ call' = [call EXCEPT ![c] = Free]
  /\ UNCHANGED <<alive, task, crossed, elsewhere>>

-----------------------------------------------------------------------------
(* The service *)

\* getProject: the row with its tasks, in some order.
GetProject(c) ==
  /\ call[c] # Free /\ call[c].pc = "sent" /\ call[c].op = "load"
  /\ IF alive
     THEN \E order \in SetToSeqs(StoredTasks) :
            call' = [call EXCEPT ![c] = [pc |-> "ok", op |-> "load", mine |-> call[c].mine,
              list |-> [i \in DOMAIN order |-> [id |-> order[i], status |-> task[order[i]]]]]]
     ELSE At(c, "refused")
  /\ UNCHANGED <<alive, task, page, crossed, elsewhere>>

\* findProjectForTenant before a creation, findTaskForTenant before the others.
Find(c) ==
  /\ call[c] # Free /\ call[c].pc = "sent" /\ call[c].op # "load"
  /\ IF IF call[c].op = "create" THEN alive ELSE call[c].task \in StoredTasks
     THEN At(c, "found") ELSE At(c, "refused")
  /\ UNCHANGED <<alive, task, page, crossed, elsewhere>>

\* create, update or delete by id, without looking at what find has seen.
Changed(k) == IF k.op = "delete" THEN "gone" ELSE k.next

Change(c) ==
  /\ call[c] # Free /\ call[c].pc = "found"
  /\ IF IF call[c].op = "create" THEN alive ELSE call[c].task \in StoredTasks
     THEN At(c, "ok") /\ task' = [task EXCEPT ![call[c].task] = Changed(call[c])]
     ELSE At(c, "refused") /\ UNCHANGED task
  /\ UNCHANGED <<alive, page, crossed, elsewhere>>

\* The roles guard, the network or the database refuses the call.
Refuse(c) ==
  /\ call[c] # Free /\ call[c].pc \in {"sent", "found"}
  /\ At(c, "refused")
  /\ UNCHANGED <<alive, task, page, crossed, elsewhere>>

\* The change is made, and its answer does not arrive.
LoseAnswer(c) ==
  /\ call[c] # Free /\ call[c].pc = "ok" /\ call[c].op # "load"
  /\ At(c, "refused")
  /\ crossed' = crossed \union {call[c].task}
  /\ UNCHANGED <<alive, task, page, elsewhere>>

\* Other clients: updateTask, deleteTask, and deleteProject with its cascade.
Elsewhere ==
  /\ elsewhere < MaxElsewhere
  /\ elsewhere' = elsewhere + 1
  /\ \/ \E x \in StoredTasks, s \in Statuses \union {"gone"} :
          /\ task' = [task EXCEPT ![x] = s]
          /\ crossed' = crossed \union {x}
          /\ UNCHANGED alive
     \/ /\ alive' = FALSE
        /\ task' = [x \in Tasks |-> IF x \in StoredTasks THEN "gone" ELSE task[x]]
        /\ crossed' = Tasks
  /\ UNCHANGED <<page, call>>

ProjectNext ==
  \/ \E c \in PageCalls :
       \/ Open(c) \/ GetProject(c) \/ Find(c) \/ Change(c) \/ Refuse(c) \/ LoseAnswer(c) \/ Receive(c)
       \/ \E x \in Tasks : HandleCreateTask(c, x) \/ HandleDeleteTask(c, x)
       \/ \E i \in DOMAIN page.list, s \in Statuses : HandleStatusChange(c, i, s)
  \/ Elsewhere

ProjectSpec == ProjectInit /\ [][ProjectNext]_projectVars

-----------------------------------------------------------------------------
(* Properties *)

ProjectTypeOK ==
  /\ alive \in BOOLEAN
  /\ task \in [Tasks -> Statuses \union {"new", "gone"}]
  /\ page.view \in {"closed", "loading", "ready", "failed"}
  /\ page.list \in Seq([id : Tasks, status : Statuses])
  /\ crossed \subseteq Tasks

\* Once the calls of the page are answered, it shows each task exactly as the
\* server has it: the optimistic changes were made or taken back, and nothing is
\* listed twice or left over. Except for tasks whose calls overlapped, that
\* others changed, or for which an answer was lost, until the page is opened anew.
SerialPage ==
  Ready /\ Mine = {} =>
    \A x \in Tasks \ crossed :
      /\ x \in StoredTasks <=> Shows(x) # {}
      /\ \A i, j \in Shows(x) : i = j /\ page.list[i].status = task[x]
=============================================================================
