---------------------------- MODULE ProjectsList ----------------------------
(***************************************************************************)
(* The page that lists and creates the projects of a tenant                *)
(* (ProjectsList.tsx), over the project rows of projects.service.ts.  Ids  *)
(* are drawn by the database; here they are numbers in the order of        *)
(* creation, by which the list is sorted.  What users type into the form   *)
(* is a numbered entry: a new number each time somebody types.             *)
(***************************************************************************)
EXTENDS Integers, FiniteSets, Sequences

CONSTANTS Firms, Home,    \* tenants, and the one whose page it is
          Stages,         \* statuses of a project
          ListCalls,      \* creations that may be in flight together (bound)
          MaxProjects, MaxEntries   \* rows and entries of a behaviour (bounds)

ASSUME ListAssumption ==
  Home \in Firms /\ MaxProjects \in Nat /\ MaxEntries \in Nat

VARIABLES
  project,   \* the rows; a deleted one becomes Missing
  editing,   \* an update or deletion by another client, after its look at the row
  board,     \* the page: view, rows, entry in the form (0: empty), its creation under way
  creation,  \* creation[c], a call of the page
  typed,     \* entries so far
  unseen,    \* history: something changed that the page is not told of
  lost       \* history: entries whose creation lost its answer

listVars == <<project, editing, board, creation, typed, unseen, lost>>

Missing == [firm |-> Home, by |-> Home, entry |-> 0, stage |-> "gone"]
NotEditing == [pc |-> "idle"]
NoCreation == [pc |-> "free", mine |-> FALSE, entry |-> 0]

Existing(t) == {x \in DOMAIN project : project[x] # Missing /\ project[x].firm = t}

ListInit ==
  /\ project = <<>>
  /\ editing = NotEditing
  /\ board = [view |-> "away", rows |-> <<>>, form |-> 0, submitting |-> FALSE]
  /\ creation = [c \in ListCalls |-> NoCreation]
  /\ typed = 0
  /\ unseen = FALSE
  /\ lost = {}

-----------------------------------------------------------------------------
(* The service *)

\* Mutant of Picked: the tenant that a body names goes into the row.
Unpicked(row, stage, claimed) == [row EXCEPT !.stage = stage, !.firm = claimed]

\* Of a body only the allowed fields are written: a tenant that it names is not.
Picked(row, stage, claimed) == [row EXCEPT !.stage = stage]

\* by is history: the tenant of the request.
CreateProject(t, entry, stage) ==
  /\ Len(project) < MaxProjects
  /\ project' = Append(project, [firm |-> t, by |-> t, entry |-> entry, stage |-> stage])

FindProject(t, x) ==
  /\ editing = NotEditing
  /\ x \in Existing(t)
  /\ editing' = [pc |-> "found", id |-> x, firm |-> t]
  /\ UNCHANGED <<project, unseen>>

\* By id. An update of a row that is gone by now fails.
UpdateProject ==
  /\ editing # NotEditing
  /\ \E stage \in Stages, claimed \in Firms :
       project' = IF project[editing.id] = Missing THEN project
                  ELSE [project EXCEPT ![editing.id] = Picked(@, stage, claimed)]
  /\ editing' = NotEditing
  /\ unseen' = (unseen \/ editing.firm = Home)

DeleteProject ==
  /\ editing # NotEditing
  /\ project' = [project EXCEPT ![editing.id] = Missing]
  /\ editing' = NotEditing
  /\ unseen' = (unseen \/ editing.firm = Home)

\* Requests of other clients of any tenant, this one included.
ProjectRequests ==
  /\ \/ \E t \in Firms, stage \in Stages :
          CreateProject(t, 0, stage) /\ unseen' = (unseen \/ t = Home) /\ UNCHANGED editing
     \/ \E t \in Firms, x \in DOMAIN project : FindProject(t, x)
     \/ UpdateProject \/ DeleteProject
  /\ UNCHANGED <<board, creation, typed, lost>>

-----------------------------------------------------------------------------
(* The calls of the page *)

InFlight == {c \in ListCalls : creation[c].pc # "free"}
Expected == {c \in InFlight : creation[c].mine}

\* A creation of a page that is no longer there is not told to anybody.
ServeCreation(c) ==
  /\ creation[c].pc = "sent"
  /\ \E stage \in Stages :
       /\ CreateProject(Home, creation[c].entry, stage)
       /\ creation' = [creation EXCEPT ![c] = [pc |-> "ok", mine |-> @.mine, entry |-> @.entry,
                                              card |-> [id |-> Len(project) + 1, stage |-> stage]]]
  /\ unseen' = (unseen \/ ~creation[c].mine)
  /\ UNCHANGED <<editing, board, typed, lost>>

\* The call is refused, or its answer gets lost.
FailCreation(c) ==
  /\ creation[c].pc \in {"sent", "ok"}
  /\ creation' = [creation EXCEPT ![c].pc = "refused"]
  /\ IF creation[c].pc = "ok"
     THEN unseen' = TRUE /\ lost' = lost \union {creation[c].entry}
     ELSE UNCHANGED <<unseen, lost>>
  /\ UNCHANGED <<project, editing, board, typed>>

-----------------------------------------------------------------------------
(* The page *)

\* What a card shows: the row as it was when it was read.
Card(x) == [id |-> x, stage |-> project[x].stage]

\* listProjects: newest first.
ListProjects(t) ==
  LET Place(x) == Cardinality({y \in Existing(t) : y >= x})
  IN [k \in 1..Cardinality(Existing(t)) |-> Card(CHOOSE x \in Existing(t) : Place(x) = k)]

\* Mounting, or leaving and coming back: the page before it awaits nothing more,
\* and what it left under way may yet make a row.
OpenList ==
  /\ board' = [view |-> "loading", rows |-> <<>>, form |-> 0, submitting |-> FALSE]
  /\ creation' = [c \in ListCalls |-> [creation[c] EXCEPT !.mine = FALSE]]
  /\ UNCHANGED <<project, editing, typed, unseen, lost>>

\* The list, or an error above an empty one.
Loaded ==
  /\ board.view = "loading"
  /\ \/ board' = [board EXCEPT !.view = "open", !.rows = ListProjects(Home)] /\ unseen' = FALSE
     \/ board' = [board EXCEPT !.view = "open"] /\ unseen' = TRUE
  /\ UNCHANGED <<project, editing, creation, typed, lost>>

\* The fields stay usable while a creation is under way.
TypeName ==
  /\ board.view = "open" /\ typed < MaxEntries
  /\ typed' = typed + 1
  /\ board' = [board EXCEPT !.form = typed + 1]
  /\ UNCHANGED <<project, editing, creation, unseen, lost>>

\* The button needs a name, and no creation under way.
SubmitProject(c) ==
  /\ board.view = "open" /\ board.form # 0 /\ ~board.submitting
  /\ creation[c].pc = "free"
  /\ creation' = [creation EXCEPT ![c] = [pc |-> "sent", mine |-> TRUE, entry |-> board.form]]
  /\ board' = [board EXCEPT !.submitting = TRUE]
  /\ UNCHANGED <<project, editing, typed, unseen, lost>>

\* Mutant of Emptied: what was created stays in the form.
KeptForm == board.form

\* After a creation the fields are empty, whatever was typed meanwhile.
Emptied == 0

\* The new project goes on top, and the router goes to its page, which takes a
\* while. The answer to a page that was left changes nothing.
ReceiveCreated(c) ==
  /\ creation[c].pc \in {"ok", "refused"}
  /\ creation' = [creation EXCEPT ![c] = NoCreation]
  /\ board' = IF ~creation[c].mine THEN board
              ELSE IF creation[c].pc = "ok"
              THEN [board EXCEPT !.submitting = FALSE, !.form = Emptied, !.rows = <<creation[c].card>> \o @]
              ELSE [board EXCEPT !.submitting = FALSE]
  /\ UNCHANGED <<project, editing, typed, unseen, lost>>

ListPage ==
  \/ OpenList \/ Loaded \/ TypeName
  \/ \E c \in ListCalls : SubmitProject(c) \/ ServeCreation(c) \/ FailCreation(c) \/ ReceiveCreated(c)

ListNext == ProjectRequests \/ ListPage

ListSpec == ListInit /\ [][ListNext]_listVars

-----------------------------------------------------------------------------
(* Properties *)

ListTypeOK ==
  /\ project \in Seq([firm : Firms, by : Firms, entry : 0..MaxEntries, stage : Stages \union {"gone"}])
  /\ Len(project) <= MaxProjects
  /\ editing.pc \in {"idle", "found"}
  /\ board.view \in {"away", "loading", "open"} /\ board.form \in 0..typed
  /\ \A c \in ListCalls : creation[c].pc \in {"free", "sent", "ok", "refused"}

\* What a user typed once is stored once, however often they press the button,
\* with a page that goes on being used while a creation is under way and while
\* the router is on its way to the new project; unless an answer was lost, after
\* which the same entry is still in the form.
StoredOnce ==
  \A n \in 1..typed : n \notin lost =>
    Cardinality({x \in DOMAIN project : project[x].entry = n}) <= 1

\* A page that awaits nothing lists what the tenant has, newest first, although
\* it adds its creations to a list that it read before; unless something changed
\* that it is not told of. And a row stays with the tenant that made it.
ProjectsListed ==
  /\ board.view = "open" /\ Expected = {} /\ ~unseen => board.rows = ListProjects(Home)
  /\ \A x \in DOMAIN project : project[x].firm = project[x].by

\* What the list of projects promises.
ListKept == StoredOnce /\ ProjectsListed
=============================================================================
