-------------------------------- MODULE Mail --------------------------------
(***************************************************************************)
(* Mail in and out: MailService (mail.service.ts) over ImapService         *)
(* (imap.service.ts) and the SMTP transport.  One IMAP mailbox serves all  *)
(* tenants.  A sync, asked for by a tenant, copies the unseen messages     *)
(* into email_message and flags each; the timer's poll does the same       *)
(* without a tenant.  Runs interleave and may break off at any call.       *)
(* The other sender, EmailService of the workspace (email.service.ts),     *)
(* writes its row in the folder SENT, too, and sends nothing.              *)
(*                                                                         *)
(* A message is its identity: what findFirst compares (message-id, or      *)
(* subject, sender and date) is taken to tell messages apart.  Only this   *)
(* program flags messages; markAsRead flags by a timestamp, which is the   *)
(* number of no message.                                                   *)
(*                                                                         *)
(* The service reads and writes messageId and statusMessage, columns that  *)
(* schema.prisma does not declare: over a client made from that schema     *)
(* every findFirst and create of it is refused.  Both databases, with and  *)
(* without the columns, are modelled.                                      *)
(***************************************************************************)
EXTENDS Integers

CONSTANTS
  Tenants,
  Mails,       \* messages that may arrive (bound)
  Outgoing,    \* messages that may be sent (bound)
  Runs,        \* handlers that may be in flight together (bound)
  MaxCopies,   \* rows of one message in one tenant (bound)
  None         \* no tenant, no message

ASSUME MailAssumption ==
  /\ MaxCopies \in Nat
  /\ None \notin Tenants \cup Mails \cup Outgoing

VARIABLES
  columns,    \* the database has messageId and statusMessage; never changes
  arrived,    \* messages in the mailbox
  seen,       \* messages with the flag \Seen
  copies,     \* tenant -> message -> rows in folder INBOX
  sent,       \* messages with a row of MailService in folder SENT, status SENT
  filed,      \* messages with a row of EmailService there, status DRAFT
  run,        \* handler -> where it is
  accepted,   \* history: messages that the SMTP server took
  overlapped, \* history: messages that two runs had fetched at once
  unflagged,  \* history: messages stored by a run that broke off before the flag
  unrecorded  \* history: messages accepted for a run that ended without the row

boxVars == <<columns, arrived, seen, copies>>
vars == <<columns, arrived, seen, copies, sent, filed, run, accepted, overlapped, unflagged, unrecorded>>

----------------------------------------------------------------------------

Run == [pc: {"idle", "search", "next", "create", "flag", "smtp", "record"},
        tenant: Tenants \cup {None},
        todo: SUBSET Mails,                       \* fetched and not yet handled
        mail: Mails \cup Outgoing \cup {None}]    \* the message at hand

At(pc, t, todo, m) == [pc |-> pc, tenant |-> t, todo |-> todo, mail |-> m]
Idle == At("idle", None, {}, None)

Rows(m) == {t \in Tenants : copies[t][m] > 0}

Init ==
  /\ columns \in BOOLEAN
  /\ arrived = {}
  /\ seen = {}
  /\ copies = [t \in Tenants |-> [m \in Mails |-> 0]]
  /\ sent = {}
  /\ filed = {}
  /\ run = [r \in Runs |-> Idle]
  /\ accepted = {}
  /\ overlapped = {}
  /\ unflagged = {}
  /\ unrecorded = {}

Arrive(m) ==
  /\ m \notin arrived
  /\ arrived' = arrived \cup {m}
  /\ UNCHANGED <<columns, seen, copies, sent, filed, run, accepted, overlapped, unflagged, unrecorded>>

----------------------------------------------------------------------------
(* Inbound *)

\* syncInbox for a tenant, or the timer's poll, which has none.
StartRun(r) ==
  /\ run[r].pc = "idle"
  /\ \E t \in Tenants \cup {None} :
       run' = [run EXCEPT ![r] = At("search", t, {}, None)]
  /\ UNCHANGED <<boxVars, sent, filed, accepted, overlapped, unflagged, unrecorded>>

\* Mutant of Unseen: the search asks for everything.
AllMail == arrived

\* Mutant of Unseen: a message may be listed that is not in the mailbox.
NotSeen == Mails \ seen

Unseen == arrived \ seen

\* The unseen messages, but for those that could not be fetched.
\* handleIncomingMessages throws at once where there is no tenant.
Fetch(r) ==
  /\ run[r].pc = "search"
  /\ IF run[r].tenant = None
     THEN run' = [run EXCEPT ![r] = Idle] /\ UNCHANGED overlapped
     ELSE \E got \in SUBSET Unseen :
            /\ run' = [run EXCEPT ![r] = At("next", run[r].tenant, got, None)]
            /\ overlapped' = overlapped \cup
                 (got \cap UNION {run[q].todo : q \in Runs \ {r}})
  /\ UNCHANGED <<boxVars, sent, filed, accepted, unflagged, unrecorded>>

\* Mutant of Handled: every fetched message is taken for new.
Unchecked(t, m) == FALSE

\* findFirst: the tenant has the message already.
Handled(t, m) == copies[t][m] > 0

\* Mutant of ForNew: the flag is set first, and the row is forgotten.
ForNewFlag == "flag"

\* What follows for a message that is new.
ForNew == "create"

FindExisting(r) ==
  LET t == run[r].tenant
      todo == run[r].todo
  IN
  /\ run[r].pc = "next"
  /\ \/ (todo = {} \/ ~columns) /\ run' = [run EXCEPT ![r] = Idle]
     \/ \E m \in todo :
          /\ columns
          /\ run' = [run EXCEPT ![r] = At(IF Handled(t, m) THEN "flag" ELSE ForNew, t, todo, m)]
  /\ UNCHANGED <<boxVars, sent, filed, accepted, overlapped, unflagged, unrecorded>>

Create(r) ==
  LET t == run[r].tenant
      m == run[r].mail
  IN
  /\ run[r].pc = "create"
  /\ copies[t][m] < MaxCopies
  /\ copies' = [copies EXCEPT ![t][m] = @ + 1]
  /\ run' = [run EXCEPT ![r].pc = "flag"]
  /\ UNCHANGED <<columns, arrived, seen, sent, filed, accepted, overlapped, unflagged, unrecorded>>

\* markSeen, and on to the next message.
Flag(r) ==
  /\ run[r].pc = "flag"
  /\ seen' = seen \cup {run[r].mail}
  /\ run' = [run EXCEPT ![r] = At("next", run[r].tenant, run[r].todo \ {run[r].mail}, None)]
  /\ UNCHANGED <<columns, arrived, copies, sent, filed, accepted, overlapped, unflagged, unrecorded>>

----------------------------------------------------------------------------
(* Outbound *)

\* Mutant of FirstOfSend: the row is written without sending.
RecordFirst == "record"

FirstOfSend == "smtp"

\* sendEmail of a message of its own.
StartSend(r) ==
  /\ run[r].pc = "idle"
  /\ \E t \in Tenants, o \in Outgoing :
       /\ o \notin accepted \cup sent \cup filed
       /\ \A q \in Runs : run[q].mail # o
       /\ run' = [run EXCEPT ![r] = At(FirstOfSend, t, {}, o)]
  /\ UNCHANGED <<boxVars, sent, filed, accepted, overlapped, unflagged, unrecorded>>

Transmit(r) ==
  /\ run[r].pc = "smtp"
  /\ accepted' = accepted \cup {run[r].mail}
  /\ run' = [run EXCEPT ![r].pc = "record"]
  /\ UNCHANGED <<boxVars, sent, filed, overlapped, unflagged, unrecorded>>

RecordSent(r) ==
  /\ run[r].pc = "record"
  /\ IF columns
     THEN sent' = sent \cup {run[r].mail} /\ UNCHANGED unrecorded
     ELSE unrecorded' = unrecorded \cup {run[r].mail} /\ UNCHANGED sent
  /\ run' = [run EXCEPT ![r] = Idle]
  /\ UNCHANGED <<boxVars, filed, accepted, overlapped, unflagged>>

\* EmailService.sendEmail, behind POST /email/send: the row, in one call, whose
\* columns every database has, and no transport.
FileUnsent ==
  /\ \E o \in Outgoing :
       /\ o \notin accepted \cup sent \cup filed
       /\ \A q \in Runs : run[q].mail # o
       /\ filed' = filed \cup {o}
  /\ UNCHANGED <<boxVars, sent, run, accepted, overlapped, unflagged, unrecorded>>

----------------------------------------------------------------------------

\* A call fails, or the process stops: the run ends where it is.  A call whose
\* answer is lost is the step that makes it, and then a break.
Break(r) ==
  LET m == run[r].mail IN
  /\ run[r].pc # "idle"
  /\ run' = [run EXCEPT ![r] = Idle]
  /\ unflagged' = IF run[r].pc = "flag" THEN unflagged \cup {m} ELSE unflagged
  /\ unrecorded' = IF run[r].pc = "record" THEN unrecorded \cup {m} ELSE unrecorded
  /\ UNCHANGED <<boxVars, sent, filed, accepted, overlapped>>

Next ==
  \/ \E m \in Mails : Arrive(m)
  \/ FileUnsent
  \/ \E r \in Runs :
       \/ StartRun(r) \/ Fetch(r) \/ FindExisting(r) \/ Create(r) \/ Flag(r)
       \/ StartSend(r) \/ Transmit(r) \/ RecordSent(r)
       \/ Break(r)

Spec == Init /\ [][Next]_vars

----------------------------------------------------------------------------
(* Properties *)

\* The variables have their types.
TypeOK ==
  /\ columns \in BOOLEAN
  /\ arrived \subseteq Mails
  /\ seen \subseteq arrived
  /\ copies \in [Tenants -> [Mails -> 0..MaxCopies]]
  /\ sent \subseteq Outgoing
  /\ filed \subseteq Outgoing
  /\ run \in [Runs -> Run]
  /\ accepted \subseteq Outgoing
  /\ overlapped \subseteq Mails
  /\ unflagged \subseteq Mails
  /\ unrecorded \subseteq Outgoing

\* A message that is flagged, and so never fetched again, is in some tenant's
\* inbox: no break, and no two runs, lose mail (handleIncomingMessages).
NothingLost == \A m \in seen : Rows(m) # {}

\* A message is stored once per tenant unless two runs had it in hand at once:
\* findFirst makes a sync that broke off repeatable.  It goes to one tenant
\* unless, besides, some run stored it and could not flag it.
OneCopy ==
  \A m \in Mails \ overlapped :
    /\ \A t \in Tenants : copies[t][m] <= 1
    /\ m \notin unflagged => \A t, u \in Rows(m) : t = u

\* The rows with status SENT are of messages that the server accepted, all of
\* them but what a run that broke off, or was refused the row, did not record
\* (MailService.sendEmail); what EmailService files beside them stays apart.
SentLedger ==
  /\ sent \subseteq accepted
  /\ \A o \in accepted \ (sent \cup unrecorded) :
       \E r \in Runs : run[r].mail = o /\ run[r].pc = "record"
=============================================================================
