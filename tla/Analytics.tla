----------------------------- MODULE Analytics ------------------------------
(***************************************************************************)
(* Events and their statistics, apps/api/src/analytics, over the table     *)
(* AnalyticsEvent.  A time is its day; the table is a bag of events.  A     *)
(* statement sees the rows of its moment; the statements of one request    *)
(* see different moments.                                                  *)
(***************************************************************************)
EXTENDS Integers, FiniteSets, FiniteSetsExt, Bags

CONSTANTS Companies, Users, Kinds,
          Days,         \* days that a date can be on, which end
          Things,       \* resources of the one type that is asked for
          Nobody,       \* no user, no tenant, no resource of that type
          Limits,       \* limits that clients write; 0 is none
          MaxEvents     \* rows (bound)

ASSUME AnalyticsAssumption ==
  /\ MaxEvents \in Nat
  /\ Nobody \notin Users \union Companies \union Things
  /\ Limits \subseteq Int
  /\ Days \subseteq Int /\ IsFiniteSet(Days)

VARIABLES events,    \* the rows, a bag
          visit      \* a request of several statements

analyticsVars == <<events, visit>>

Event == [tenant : Companies, user : Users \union {Nobody},
          kind : Kinds, thing : Things \union {Nobody}, day : Days, sender : Companies \union {Nobody}]

Still == [pc |-> "idle"]

AnalyticsInit == events = EmptyBag /\ visit = Still

-----------------------------------------------------------------------------
(* Capturing *)

\* What a client writes of an event.
Written == [user : Users \union {Nobody}, kind : Kinds, thing : Things \union {Nobody}, day : Days]

\* A row; sender is history: the tenant of the request, Nobody when internal.
Row(t, e, sender) ==
  [tenant |-> t, user |-> e.user, kind |-> e.kind, thing |-> e.thing, day |-> e.day, sender |-> sender]

Room(n) == BagCardinality(events) + n <= MaxEvents
Insert(rows) == events' = events (+) rows

\* Mutant of TrackedFor: a tenant named in the event goes first.
NamedFor(t, named) == named

\* The controller puts the request's tenant into the event.
TrackedFor(t, named) == t

\* POST /analytics/events. The event may name a user; by default it is the
\* caller, whom a token without a user leaves open.
Capture(t) ==
  /\ Room(1)
  /\ \E named \in Companies, e \in Written : Insert(SetToBag({Row(TrackedFor(t, named), e, t)}))
  /\ UNCHANGED visit

\* POST /analytics/events/batch: one transaction, all for the request's tenant.
CaptureBatch(t) ==
  /\ Room(2)
  /\ \E a, b \in Written : Insert(SetToBag({Row(t, a, t)}) (+) SetToBag({Row(t, b, t)}))
  /\ UNCHANGED visit

\* POST /analytics/internal/...: each event names its tenant; one statement
\* each, so a failure leaves those before it.
InternalTrack ==
  /\ Room(1)
  /\ \E t \in Companies, e \in Written : Insert(SetToBag({Row(t, e, Nobody)}))
  /\ UNCHANGED visit

-----------------------------------------------------------------------------
(* Statistics *)

Of(t) == {e \in BagToSet(events) : e.tenant = t}
Count(S) == MapThenSumSet(LAMBDA e : events[e], S)
Within(S, from, to) == {e \in S : from <= e.day /\ e.day <= to}
Known(S) == {e \in S : e.user # Nobody}
UsersOf(S) == {e.user : e \in Known(S)}

\* GET /stats: a value for every day that has events, and the sum of the values.
EventsPerDay(t, from, to) ==
  [d \in {e.day : e \in Within(Of(t), from, to)} |->
     Count({e \in Within(Of(t), from, to) : e.day = d})]

ActivePerDay(t, from, to) ==
  [d \in {e.day : e \in Known(Within(Of(t), from, to))} |->
     Cardinality(UsersOf({e \in Within(Of(t), from, to) : e.day = d}))]

Total(data) == MapThenSumSet(LAMBDA d : data[d], DOMAIN data)

\* GET /event-distribution: a count for every kind that occurs.
Distribution(S) == [k \in {e.kind : e \in S} |-> Count({e \in S : e.kind = k})]

\* GET /hourly: the counts, with 0 for what has none.
Filled(data, slots) == [d \in slots |-> IF d \in DOMAIN data THEN data[d] ELSE 0]

\* GET /realtime: what happened since some moment, future dates included.
Realtime(t, since) == Count({e \in Of(t) : since <= e.day})

\* GET /top-resources: those with the most events. Of equal ones any may be left out.
TopLimit(n) == IF n = 0 THEN 10 ELSE Min({Max({n, 1}), 100})
CountOf(S, x) == Count({e \in S : e.thing = x})

TopResources(S, limit) ==
  LET named == {e.thing : e \in S} \ {Nobody}
  IN {top \in SUBSET named :
        /\ Cardinality(top) = Min({limit, Cardinality(named)})
        /\ \A x \in top, y \in named \ top : CountOf(S, x) >= CountOf(S, y)}

UserEvents(t, u) == {e \in Of(t) : e.user = u}

\* Mutant of Summary: the summary is not limited to the user.
TenantSummary(t, u) == Count(Of(t))

Summary(t, u) == Count(UserEvents(t, u))

\* GET /user-activity: three statements at once, in any order.
StartActivity(t) ==
  /\ visit.pc = "idle"
  /\ \E u \in Users :
       visit' = [pc |-> "activity", tenant |-> t, user |-> u, before |-> Count(UserEvents(t, u)),
                 total |-> -1, kinds |-> -1]
  /\ UNCHANGED events

Summarize ==
  /\ visit.pc = "activity" /\ visit.total = -1
  /\ visit' = [visit EXCEPT !.total = Summary(visit.tenant, visit.user)]
  /\ UNCHANGED events

CountKinds ==
  /\ visit.pc = "activity" /\ visit.kinds = -1
  /\ visit' = [visit EXCEPT !.kinds = Total(Distribution(UserEvents(visit.tenant, visit.user)))]
  /\ UNCHANGED events

\* GET /funnel: one statement per step, each counting the users of its kind;
\* the rate is relative to the first step, and 1 stands for a first count of 0.
StartFunnel(t) ==
  /\ visit.pc = "idle"
  /\ \E k, l \in Kinds :
       visit' = [pc |-> "funnel", tenant |-> t, second |-> l,
                 first |-> Cardinality(UsersOf({e \in Of(t) : e.kind = k})), rate |-> -1]
  /\ UNCHANGED events

Rate(count, first) == (count * 100) \div (IF first = 0 THEN 1 ELSE first)

FunnelStep ==
  /\ visit.pc = "funnel" /\ visit.rate = -1
  /\ LET count == Cardinality(UsersOf({e \in Of(visit.tenant) : e.kind = visit.second}))
     IN visit' = [visit EXCEPT !.rate = Rate(count, visit.first)]
  /\ UNCHANGED events

\* The answer is sent, or the request breaks off.
EndVisit ==
  /\ visit # Still
  /\ visit' = Still
  /\ UNCHANGED events

AnalyticsNext ==
  \/ \E t \in Companies : Capture(t) \/ CaptureBatch(t) \/ StartActivity(t) \/ StartFunnel(t)
  \/ InternalTrack \/ Summarize \/ CountKinds \/ FunnelStep \/ EndVisit

AnalyticsSpec == AnalyticsInit /\ [][AnalyticsNext]_analyticsVars

-----------------------------------------------------------------------------
(* Properties *)

AnalyticsTypeOK ==
  /\ IsABag(events) /\ BagToSet(events) \subseteq Event /\ BagCardinality(events) <= MaxEvents
  /\ visit.pc \in {"idle", "activity", "funnel"}

\* Events of a tenant come from its own requests or from inside, whatever
\* tenant an event names.
EventsOwned == \A e \in BagToSet(events) : e.sender \in {e.tenant, Nobody}

\* The numbers about a user that an answer puts side by side come from different
\* moments, but each lies between what was stored when the request came and
\* what is stored now.
ActivityBetween ==
  visit.pc = "activity" =>
    \A n \in {visit.total, visit.kinds} \ {-1} :
      visit.before <= n /\ n <= Count(UserEvents(visit.tenant, visit.user))

\* The statistics are ways to add up the same events: per day, per hour with the
\* gaps filled, and per kind they have one sum; nobody is active without an event;
\* what is recent is what the days since then count; and a list of top resources
\* that is not full leaves out no event that is about one.
SumsAgree ==
  \A t \in Companies : \A from, to \in Days :
    LET all == Within(Of(t), from, to)
    IN /\ Total(EventsPerDay(t, from, to)) = Count(all)
       /\ Total(Filled(EventsPerDay(t, from, to), from..to)) = Total(Distribution(all))
       /\ Total(ActivePerDay(t, from, to)) <= Count(Known(all))
       /\ Cardinality(UsersOf(all)) <= Total(ActivePerDay(t, from, to))
       /\ Realtime(t, from) = Total(EventsPerDay(t, from, Max(Days)))
       /\ \A n \in Limits : \A top \in TopResources(all, TopLimit(n)) :
            LET rest == Count(all) - Total([x \in top |-> CountOf(all, x)])
            IN rest >= CountOf(all, Nobody) /\ (Cardinality(top) < TopLimit(n) => rest = CountOf(all, Nobody))

\* What analytics answers.
AnalyticsAnswers == EventsOwned /\ ActivityBetween /\ SumsAgree
=============================================================================
