------------------------------- MODULE Timers --------------------------------
(***************************************************************************)
(* What one process keeps by the clock, in its memory only: the attempts   *)
(* of the MFA guard (mfa-rate-limit.guard.ts), the scheduled reports       *)
(* (scheduled-reports.service.ts) and the IMAP client (imap.service.ts).   *)
(* The three share the clock and no other variable.                        *)
(***************************************************************************)
EXTENDS Integers, FiniteSets

CONSTANTS Window, Allowed,   \* of the guard: the length of a window, attempts in it
          Reports, Hour,     \* ids that may be created (bound), minutes between two runs
          ImapClients,           \* IMAP clients that may be made (bound)
          MaxNow             \* moments of a behaviour (bound)

ASSUME TimersAssumption ==
  Window \in Nat /\ Allowed \in Nat /\ Hour \in Nat \ {0} /\ MaxNow \in Nat

VARIABLES
  now,      \* the clock
  bucket,   \* the bucket of one user and route
  passed,   \* history: passed[m], attempts let through at moment m since the start
  refused,  \* history: an attempt was refused now
  report,   \* report[r], when it last ran, or a mark
  ran,      \* history: ran[r], the moments of its dispatches
  imap,     \* imap[c], a client; "unused" before it is made
  current,  \* the client of this.client, a set of one or none
  pending,  \* reconnect timers that run
  polling   \* the polling interval is set

timersVars == <<now, bucket, passed, refused, report, ran, imap, current, pending, polling>>
guardVars == <<bucket, passed, refused>>
reportVars == <<report, ran>>
imapVars == <<imap, current, pending, polling>>

Moments == 0..MaxNow
NoBucket == [count |-> 0, resetAt |-> -1]
Cancelled == -2
Never == -1

TimersInit ==
  /\ now = 0
  /\ bucket = NoBucket /\ passed = [m \in Moments |-> 0] /\ refused = FALSE
  /\ report = [r \in Reports |-> Cancelled] /\ ran = [r \in Reports |-> {}]
  /\ imap = [c \in ImapClients |-> "unused"] /\ current = {} /\ pending = 1 /\ polling = FALSE

-----------------------------------------------------------------------------
(* The guard *)

\* Mutant of Expired: each attempt starts a window.
AlwaysExpired == TRUE

\* There is no bucket, or its window is over: one that ends now is not.
Expired == bucket.resetAt < now

\* Mutant of Full: one attempt more.
FullAfter(count) == count > Allowed

Full(count) == count >= Allowed

CanActivate ==
  LET open == IF Expired THEN [count |-> 0, resetAt |-> now + Window] ELSE bucket
  IN IF Full(open.count)
     THEN bucket' = open /\ refused' = TRUE /\ UNCHANGED passed
     ELSE /\ bucket' = [open EXCEPT !.count = @ + 1]
          /\ passed' = [passed EXCEPT ![now] = @ + 1]
          /\ refused' = FALSE

\* The map is empty after a restart, and forgets what it let through.
Restart == bucket' = NoBucket /\ passed' = [m \in Moments |-> 0] /\ refused' = FALSE

Guard == (CanActivate \/ Restart) /\ UNCHANGED <<now, reportVars, imapVars>>

-----------------------------------------------------------------------------
(* Reports *)

CreateReport(r) ==
  /\ report[r] = Cancelled /\ ran[r] = {}
  /\ report' = [report EXCEPT ![r] = Never]
  /\ UNCHANGED ran
CancelReport(r) == report[r] # Cancelled /\ report' = [report EXCEPT ![r] = Cancelled] /\ UNCHANGED ran

ShouldRun(r) == report[r] = Never \/ (report[r] >= 0 /\ now - report[r] >= Hour)

\* The timer of each minute. The cron expression of a report is not looked at.
\* Nothing is awaited that would let a request in between. A format that cannot
\* be exported fails and is tried again by the next run.
RunDue ==
  \E failing \in SUBSET Reports :
    LET due == {r \in Reports : report[r] # Cancelled /\ ShouldRun(r)} \ failing
    IN /\ report' = [r \in Reports |-> IF r \in due THEN now ELSE report[r]]
       /\ ran' = [r \in Reports |-> IF r \in due THEN ran[r] \union {now} ELSE ran[r]]

Reporting ==
  /\ RunDue \/ \E r \in Reports : CreateReport(r) \/ CancelReport(r)
  /\ UNCHANGED <<now, guardVars, imapVars>>

-----------------------------------------------------------------------------
(* The IMAP client. A timer fires once its time has come; the first connect  *)
(* is that of the start.                                                     *)

\* Mutant of Reconnecting: a connection that was never open is given up.
OnceOpen(c) == IF imap[c] = "open" THEN {1} ELSE {0}

\* The timers that a client which ends starts: 'close' starts one, and a
\* connect that fails rejects, which starts one with or without 'close'.
Reconnecting(c) == IF imap[c] = "open" THEN {1} ELSE {1, 2}

Connect(c) ==
  /\ pending > 0 /\ imap[c] = "unused"
  /\ imap' = [imap EXCEPT ![c] = "connecting"]
  /\ current' = {c}
  /\ pending' = pending - 1
  /\ UNCHANGED polling

\* The interval is set once, and initially polled.
Connected(c) ==
  /\ imap[c] = "connecting"
  /\ imap' = [imap EXCEPT ![c] = "open"]
  /\ polling' = TRUE
  /\ UNCHANGED <<current, pending>>

Ended(c) ==
  /\ imap[c] \in {"connecting", "open"}
  /\ imap' = [imap EXCEPT ![c] = "closed"]
  /\ \E n \in Reconnecting(c) : pending' = pending + n
  /\ UNCHANGED <<current, polling>>

\* onModuleDestroy: the interval goes, and the client is closed, whose 'close'
\* starts a timer like any other.
Destroy ==
  /\ polling' = FALSE
  /\ current' = {}
  /\ LET live == {c \in current : imap[c] \in {"connecting", "open"}}
     IN \/ live = {} /\ UNCHANGED <<imap, pending>>
        \/ \E c \in live : \E n \in Reconnecting(c) :
             imap' = [imap EXCEPT ![c] = "closed"] /\ pending' = pending + n

Mailbox ==
  /\ \/ Destroy
     \/ \E c \in ImapClients : Connect(c) \/ Connected(c) \/ Ended(c)
  /\ UNCHANGED <<now, guardVars, reportVars>>

-----------------------------------------------------------------------------
Passing ==
  /\ now < MaxNow
  /\ now' = now + 1
  /\ refused' = FALSE
  /\ UNCHANGED <<bucket, passed, reportVars, imapVars>>

TimersNext == Guard \/ Reporting \/ Mailbox \/ Passing

TimersSpec == TimersInit /\ [][TimersNext]_timersVars

-----------------------------------------------------------------------------
(* Properties *)

TimersTypeOK ==
  /\ now \in Moments
  /\ bucket \in [count : 0..Allowed, resetAt : Int]
  /\ passed \in [Moments -> Nat] /\ refused \in BOOLEAN
  /\ report \in [Reports -> Moments \union {Cancelled, Never}]
  /\ imap \in [ImapClients -> {"unused", "connecting", "open", "closed"}]
  /\ current \subseteq ImapClients /\ pending \in Nat /\ polling \in BOOLEAN

PassedIn(from, to) ==
  LET Sum[m \in Int] == IF m < from THEN 0 ELSE Sum[m - 1] + (IF m \in Moments THEN passed[m] ELSE 0)
  IN Sum[to]

\* In any span as long as a window the guard lets at most twice the allowed
\* attempts through, since a window starts anew at the first attempt after it
\* ended; and it refuses only who has used up the allowed ones in such a span.
TwiceAtMost ==
  /\ \A m \in Moments : PassedIn(m, m + Window) <= 2 * Allowed
  /\ refused => PassedIn(now - Window, now) >= Allowed

\* Two runs of a report are an hour apart, whatever was created or cancelled
\* between them and however often the timer fires.
HourApart == \A r \in Reports : \A m, n \in ran[r] : m < n => n - m >= Hour

\* The mail client never comes to rest: some client is open or connecting, or
\* a timer will make one; and it is polled once one was open.
NeverAlone ==
  /\ pending > 0 \/ \E c \in ImapClients : imap[c] \in {"connecting", "open"}
  /\ \A c \in current : imap[c] = "open" => polling
=============================================================================
