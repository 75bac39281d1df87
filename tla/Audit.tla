-------------------------------- MODULE Audit --------------------------------
(***************************************************************************)
(* The audit trail: the middleware that writes a row after each changing   *)
(* request (common/audit), the queries of modules/audit, and the page that *)
(* lists the rows by filter (AuditLogTable.tsx).  A body is the set of the *)
(* paths of its leaves, each a sequence of keys.                           *)
(***************************************************************************)
EXTENDS Integers, FiniteSets, FiniteSetsExt, Sequences, SequencesExt

CONSTANTS Scopes, Outside,      \* tenants, and no tenant
          Viewer,               \* the tenant whose page is modelled
          Filters, All,         \* what a row is about, and no filter
          Keys, SENSITIVE_KEYS,
          Bodies,               \* bodies of requests and answers
          Writes, Loads,        \* requests at one time: changes, and lists of the page (bounds)
          Take, MaxRows         \* rows of a page, rows of a behaviour (bound)

ASSUME AuditAssumption ==
  /\ Viewer \in Scopes /\ Outside \notin Scopes /\ All \notin Filters
  /\ SENSITIVE_KEYS \subseteq Keys /\ Bodies \subseteq SUBSET Seq(Keys)
  /\ Take \in Nat \ {0} /\ MaxRows \in Nat

VARIABLES
  trail,   \* the rows, in the order of their creation
  write,   \* write[w], a changing request
  table,   \* the page: its filter, the rows it shows, their total
  load,    \* load[l], a request of the page
  strayed  \* history: why the rows may not be those of the filter

auditVars == <<trail, write, table, load, strayed>>

NoWrite == [pc |-> "idle"]
NoLoad == [pc |-> "idle"]
Closed == [view |-> "closed", filter |-> All, rows |-> <<>>, total |-> 0]

AuditInit ==
  /\ trail = <<>>
  /\ write = [w \in Writes |-> NoWrite]
  /\ table = Closed
  /\ load = [l \in Loads |-> NoLoad]
  /\ strayed = FALSE

-----------------------------------------------------------------------------
(* The middleware *)

\* Mutant of Redacted: only keys at the top are looked at.
TopRedacted(body) ==
  {IF path[1] \in SENSITIVE_KEYS THEN SubSeq(path, 1, 1) ELSE path : path \in body}

\* A sensitive key loses all that is below it, at whatever depth it is.
Redacted(body) ==
  LET Sensitive(path) == {i \in DOMAIN path : path[i] \in SENSITIVE_KEYS}
  IN {IF Sensitive(path) = {} THEN path ELSE SubSeq(path, 1, Min(Sensitive(path))) : path \in body}

\* Who asks, what it is about and the body are taken before the handler runs.
Use(w, t, f, body) ==
  /\ write[w].pc = "idle"
  /\ write' = [write EXCEPT ![w] = [pc |-> "called", tenant |-> t, about |-> f, before |-> Redacted(body)]]
  /\ UNCHANGED trail

\* The handler answers.
Answered(w, body) ==
  /\ write[w].pc = "called"
  /\ write' = [write EXCEPT ![w] = [pc |-> "answered", tenant |-> write[w].tenant,
                 about |-> write[w].about, before |-> write[w].before, after |-> Redacted(body)]]
  /\ UNCHANGED trail

\* 'finish': the row is written behind the answer.
Persist(w) ==
  /\ write[w].pc = "answered" /\ Len(trail) < MaxRows
  /\ trail' = Append(trail, [tenant |-> write[w].tenant, about |-> write[w].about,
                              before |-> write[w].before, after |-> write[w].after])
  /\ write' = [write EXCEPT ![w] = NoWrite]

\* The answer is an error, which has no row; or the client leaves before it is
\* out, so that 'finish' never comes; or the insertion fails, which is
\* swallowed; or the process stops.
Unrecorded(w) ==
  /\ write[w].pc \in {"called", "answered"}
  /\ write' = [write EXCEPT ![w] = NoWrite]
  /\ UNCHANGED trail

Capturing ==
  /\ \E w \in Writes :
       \/ \E t \in Scopes \union {Outside}, f \in Filters, body \in Bodies : Use(w, t, f, body)
       \/ \E body \in Bodies : Answered(w, body)
       \/ Persist(w) \/ Unrecorded(w)
  /\ UNCHANGED <<table, load, strayed>>

-----------------------------------------------------------------------------
(* The list: two queries at once, which see different moments.              *)

Where(f) == {i \in DOMAIN trail : trail[i].tenant = Viewer /\ f \in {All, trail[i].about}}

\* Newest first, and no more than a page takes.
Newest(S) ==
  LET Place(i) == Cardinality({j \in S : j >= i})
  IN [k \in 1..Min({Cardinality(S), Take}) |-> CHOOSE i \in S : Place(i) = k]

FindMany(l) ==
  /\ load[l].pc = "sent" /\ ~load[l].found
  /\ load' = [load EXCEPT ![l].found = TRUE, ![l].rows = Newest(Where(load[l].filter))]

CountRows(l) ==
  /\ load[l].pc = "sent" /\ load[l].total = -1
  /\ load' = [load EXCEPT ![l].total = Cardinality(Where(load[l].filter))]

\* An error page of the server has no items, and no answer at all has none either.
Fail(l) ==
  /\ load[l].pc = "sent"
  /\ load' = [load EXCEPT ![l] = [pc |-> "error", newest |-> load[l].newest]]

Listing ==
  /\ \E l \in Loads : FindMany(l) \/ CountRows(l) \/ Fail(l)
  /\ UNCHANGED <<trail, write, table, strayed>>

-----------------------------------------------------------------------------
(* The page *)

ListRequest(f) == [pc |-> "sent", filter |-> f, newest |-> TRUE, found |-> FALSE, rows |-> <<>>, total |-> -1]
Waiting == {l \in Loads : load[l].pc # "idle"}

\* Opening the page, or opening it anew, forgets what the page before it asked for.
OpenTable(l) ==
  /\ table' = [Closed EXCEPT !.view = "open"]
  /\ load' = [d \in Loads |-> IF d = l THEN ListRequest(All) ELSE NoLoad]
  /\ strayed' = FALSE

\* The filters are shown above rows only: no rows, no filters. What is in
\* flight is not cancelled.
SetFilter(l, f) ==
  /\ table.view = "open" /\ table.rows # <<>> /\ f # table.filter
  /\ load[l].pc = "idle"
  /\ table' = [table EXCEPT !.filter = f]
  /\ load' = [d \in Loads |-> IF d = l THEN ListRequest(f)
                              ELSE IF d \in Waiting THEN [load[d] EXCEPT !.newest = FALSE] ELSE NoLoad]
  /\ UNCHANGED strayed

Shown(answer) == [table EXCEPT !.rows = answer.rows, !.total = answer.total]

NoNewest == \A d \in Waiting : ~load[d].newest

\* Each answer is set in turn. One that is no list breaks the page when it
\* arrives, and one that does not arrive leaves the rows as they are.
SetData(l) ==
  /\ load[l].pc = "error" \/ (load[l].pc = "sent" /\ load[l].found /\ load[l].total >= 0)
  /\ table' \in IF load[l].pc = "sent" THEN {Shown(load[l])} ELSE {table, [Closed EXCEPT !.view = "broken"]}
  /\ strayed' = (load[l].pc = "error" \/ (~load[l].newest /\ (strayed \/ NoNewest)))
  /\ load' = [load EXCEPT ![l] = NoLoad]

Browsing ==
  /\ \E l \in Loads : OpenTable(l) \/ SetData(l) \/ \E f \in Filters \union {All} : SetFilter(l, f)
  /\ UNCHANGED <<trail, write>>

AuditNext == Capturing \/ Listing \/ Browsing

AuditSpec == AuditInit /\ [][AuditNext]_auditVars

-----------------------------------------------------------------------------
(* Properties *)

AuditRow == [tenant : Scopes \union {Outside}, about : Filters,
             before : {Redacted(b) : b \in Bodies}, after : {Redacted(b) : b \in Bodies}]

AuditTypeOK ==
  /\ trail \in Seq(AuditRow)
  /\ \A w \in Writes : write[w].pc \in {"idle", "called", "answered"}
  /\ table.view \in {"closed", "open", "broken"} /\ table.filter \in Filters \union {All}
  /\ \A l \in Loads : load[l].pc \in {"idle", "sent", "error"}
  /\ strayed \in BOOLEAN

\* No row holds anything below a sensitive key, whatever depth it was sent at.
NothingBelow ==
  \A i \in DOMAIN trail : \A path \in trail[i].before \union trail[i].after :
    \A k \in 1..(Len(path) - 1) : path[k] \notin SENSITIVE_KEYS

\* The page lists rows of its tenant that match the filter it
\* shows, although several requests may be under way and a page is put together
\* from two queries; except after an answer that came late or not at all, until
\* the newest one is there.
ListTrue ==
  table.view = "open" /\ Waiting = {} /\ ~strayed =>
    /\ ToSet(table.rows) \subseteq Where(table.filter)
    /\ table.total <= Cardinality(Where(table.filter))

\* What the trail records and shows.
AuditTrail == NothingBelow /\ ListTrue
=============================================================================
