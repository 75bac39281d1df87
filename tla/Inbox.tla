-------------------------------- MODULE Inbox -------------------------------
(***************************************************************************)
(* The inbox of one tenant (email-inbox.service.ts) over the mail service: *)
(* a sync stores the unseen messages as rows, requests move a row to       *)
(* another folder, and the folders are counted one statement at a time.    *)
(* Each request looks its row up and then changes it by id.  What a sync   *)
(* does against the mail server is in Mail; here it meets the requests of  *)
(* the users.  The mark of a read row, a column that only markAsRead and   *)
(* markAsUnread write and that none of the rest looks at, is left out.     *)
(***************************************************************************)
EXTENDS Integers, FiniteSets, FiniteSetsExt, Sequences

CONSTANTS Letters,     \* messages on the mail server (bound)
          BoxCalls,    \* requests at one time (bound)
          MaxInbox     \* rows (bound)

ASSUME InboxAssumption == MaxInbox \in Nat

VARIABLES
  inbox,     \* the rows, in the order of their creation
  flagged,   \* messages flagged as seen on the server
  request,   \* request[c], a request under way
  quiet,     \* history: requests during which no row was made or moved
  loose,     \* history: messages that two syncs had at once, or stored and did not flag
  tangled,   \* history: rows that two requests had found at once
  put        \* history: put[i], where row i was put when it first left the inbox

inboxVars == <<inbox, flagged, request, quiet, loose, tangled, put>>

NoRequest == [pc |-> "rest"]
Syncing == {c \in BoxCalls : request[c].pc \in {"next", "create", "flag"}}
AtHand(c) == request[c].todo \union (IF request[c].pc = "next" THEN {} ELSE {request[c].letter})

\* Mutant of CountOrder: the inbox comes last.
InboxLast == <<"TRASH", "ARCHIVE", "INBOX">>

\* getFolderCounts asks for six folders; two stand for the five after the first.
CountOrder == <<"INBOX", "TRASH", "ARCHIVE">>

\* moveToFolder takes any name, also one that is not counted.
FolderNames == {"INBOX", "TRASH", "ARCHIVE", "OTHER"}

InboxInit ==
  /\ inbox = <<>>
  /\ flagged = {}
  /\ request = [c \in BoxCalls |-> NoRequest]
  /\ quiet = {} /\ loose = {} /\ tangled = {}
  /\ put = [i \in 1..MaxInbox |-> "INBOX"]

Goes(c, k) == request' = [request EXCEPT ![c] = k]

-----------------------------------------------------------------------------
(* Sync *)

\* Mutant of Unseen: the search asks for everything.
AllLetters == Letters

Unseen == Letters \ flagged

\* Some of the unseen messages: others arrive later or cannot be fetched.
SyncInbox(c) ==
  /\ request[c] = NoRequest
  /\ \E got \in SUBSET Unseen :
       /\ Goes(c, [pc |-> "next", todo |-> got])
       /\ loose' = loose \union (got \intersect UNION {AtHand(d) : d \in Syncing \ {c}})
  /\ UNCHANGED <<inbox, flagged, quiet, tangled, put>>

\* findFirst looks into the inbox only.
InInbox(m) == \E i \in DOMAIN inbox : inbox[i].letter = m /\ inbox[i].folder = "INBOX"

FindLetter(c) ==
  /\ request[c].pc = "next"
  /\ IF request[c].todo = {} THEN Goes(c, NoRequest)
     ELSE \E m \in request[c].todo :
            Goes(c, [pc |-> IF InInbox(m) THEN "flag" ELSE "create", todo |-> request[c].todo \ {m}, letter |-> m])
  /\ UNCHANGED <<inbox, flagged, quiet, loose, tangled, put>>

StoreLetter(c) ==
  /\ request[c].pc = "create" /\ Len(inbox) < MaxInbox
  /\ inbox' = Append(inbox, [letter |-> request[c].letter, folder |-> "INBOX"])
  /\ request' = [request EXCEPT ![c].pc = "flag"]
  /\ quiet' = {}
  /\ UNCHANGED <<flagged, loose, tangled, put>>

FlagLetter(c) ==
  /\ request[c].pc = "flag"
  /\ flagged' = flagged \union {request[c].letter}
  /\ Goes(c, [pc |-> "next", todo |-> request[c].todo])
  /\ UNCHANGED <<inbox, quiet, loose, tangled, put>>

-----------------------------------------------------------------------------
(* Rows *)

\* Mutant of Findable: a row is found in any folder.
FoundAnywhere(i) == TRUE

\* Every request of a row looks for it in the inbox.
Findable(i) == inbox[i].folder = "INBOX"

\* moveToFolder and deleteMessage, which moves to TRASH.
FindToMove(c, i, f) ==
  /\ request[c] = NoRequest /\ Findable(i)
  /\ Goes(c, [pc |-> "move", row |-> i, to |-> f])
  /\ tangled' = tangled \union
       (IF \E d \in BoxCalls : request[d].pc = "move" /\ request[d].row = i THEN {i} ELSE {})
  /\ UNCHANGED <<inbox, flagged, quiet, loose, put>>

\* The update names the row alone, wherever it is by now.
MoveToFolder(c) ==
  /\ request[c].pc = "move"
  /\ LET i == request[c].row
         f == request[c].to
     IN /\ inbox' = [inbox EXCEPT ![i].folder = f]
        /\ put' = IF put[i] = "INBOX" THEN [put EXCEPT ![i] = f] ELSE put
  /\ Goes(c, NoRequest)
  /\ quiet' = {}
  /\ UNCHANGED <<flagged, loose, tangled>>

\* getFolderCounts: one statement for each folder.
StartCounts(c) ==
  /\ request[c] = NoRequest
  /\ Goes(c, [pc |-> "count", counts |-> <<>>, rows |-> Len(inbox)])
  /\ quiet' = quiet \union {c}
  /\ UNCHANGED <<inbox, flagged, loose, tangled, put>>

Counted(c) == Len(request[c].counts) = Len(CountOrder)
InFolder(f) == Cardinality({i \in DOMAIN inbox : inbox[i].folder = f})

CountFolder(c) ==
  /\ request[c].pc = "count" /\ ~Counted(c)
  /\ request' = [request EXCEPT ![c].counts = Append(@, InFolder(CountOrder[Len(@) + 1]))]
  /\ UNCHANGED <<inbox, flagged, quiet, loose, tangled, put>>

AnswerCounts(c) ==
  /\ request[c].pc = "count" /\ Counted(c)
  /\ Goes(c, NoRequest)
  /\ quiet' = quiet \ {c}
  /\ UNCHANGED <<inbox, flagged, loose, tangled, put>>

\* A crash, or an error of the database or of the mail server.
GiveUp(c) ==
  /\ request[c] # NoRequest
  /\ Goes(c, NoRequest)
  /\ loose' = loose \union (IF request[c].pc = "flag" THEN {request[c].letter} ELSE {})
  /\ quiet' = quiet \ {c}
  /\ UNCHANGED <<inbox, flagged, tangled, put>>

InboxNext ==
  \E c \in BoxCalls :
    \/ SyncInbox(c) \/ FindLetter(c) \/ StoreLetter(c) \/ FlagLetter(c) \/ GiveUp(c)
    \/ \E i \in DOMAIN inbox, f \in FolderNames : FindToMove(c, i, f)
    \/ MoveToFolder(c)
    \/ StartCounts(c) \/ CountFolder(c) \/ AnswerCounts(c)

InboxSpec == InboxInit /\ [][InboxNext]_inboxVars

-----------------------------------------------------------------------------
(* Properties *)

InboxTypeOK ==
  /\ inbox \in Seq([letter : Letters, folder : FolderNames])
  /\ flagged \subseteq Letters /\ loose \subseteq Letters
  /\ \A c \in BoxCalls : request[c].pc \in {"rest", "next", "create", "flag", "move", "count"}
  /\ quiet \subseteq BoxCalls /\ tangled \subseteq 1..MaxInbox
  /\ put \in [1..MaxInbox -> FolderNames]

\* A message is stored once, and does not come back when its row was deleted or
\* filed, although findFirst looks into the inbox only. Except when two syncs had
\* it at once, or one broke off before it flagged what it had stored.
LetterOnce ==
  \A i, j \in DOMAIN inbox : inbox[i].letter = inbox[j].letter => i = j \/ inbox[i].letter \in loose

\* A row that was filed or deleted stays where it was put, however requests
\* interleave; except when two requests had found it in the inbox.
MovedOnce == \A i \in DOMAIN inbox \ tangled : inbox[i].folder = put[i]

\* The counts of a moment at which nothing changed are those of the folders; and
\* a row that moves while they are taken may be counted twice but is never
\* missed, the inbox being counted first.
CountsTrue ==
  \A c \in {d \in BoxCalls : request[d].pc = "count" /\ Counted(d)} :
    /\ c \in quiet => \A n \in DOMAIN CountOrder : request[c].counts[n] = InFolder(CountOrder[n])
    /\ Cardinality({i \in 1..request[c].rows \ tangled : inbox[i].folder # "OTHER"})
         <= MapThenSumSet(LAMBDA n : request[c].counts[n], DOMAIN CountOrder)

InboxTrue == LetterOnce /\ MovedOnce /\ CountsTrue
=============================================================================
