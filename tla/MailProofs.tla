----------------------------- MODULE MailProofs -----------------------------
(***************************************************************************)
(* What holds of Mail for any tenants, messages and runs.                  *)
(***************************************************************************)
EXTENDS Mail, TLAPS

Inbound == {"next", "create", "flag"}

\* What a run at each place has in hand.
InHand ==
  \A r \in Runs :
    /\ run[r].pc \in Inbound => run[r].tenant \in Tenants
    /\ run[r].pc \in {"create", "flag"} => run[r].mail \in Mails /\ run[r].mail \in run[r].todo
    /\ run[r].pc \in {"smtp", "record"} => run[r].mail \in Outgoing
    /\ run[r].todo \subseteq arrived

\* A run that is about to flag a message has it stored.
Stored == \A r \in Runs : run[r].pc = "flag" => copies[run[r].tenant][run[r].mail] > 0

\* A message that no two runs have in hand: it is not flagged before its run
\* gets to it, and it is new when it is to be stored.
Alone ==
  \A m \in Mails \ overlapped :
    /\ \A r, q \in Runs : m \in run[r].todo /\ m \in run[q].todo => r = q
    /\ \A r \in Runs : m \in run[r].todo => m \notin seen
    /\ \A r \in Runs : run[r].pc = "create" /\ run[r].mail = m => copies[run[r].tenant][m] = 0

\* Once stored it is flagged, or about to be.
Followed ==
  \A m \in Mails \ (overlapped \cup unflagged) :
    Rows(m) # {} => m \in seen \/ \E r \in Runs : run[r].pc = "flag" /\ run[r].mail = m

\* An outgoing message is written down once the server has it.
Recording ==
  \A r \in Runs : run[r].pc = "record" => run[r].mail \in accepted

Shape == TypeOK /\ InHand
Inbox == Stored /\ NothingLost /\ Alone /\ Followed /\ OneCopy
MailInv == Shape /\ Inbox /\ Recording /\ SentLedger

----------------------------------------------------------------------------

LEMMA RunFields ==
  ASSUME TypeOK, NEW r \in Runs
  PROVE  /\ run[r].pc \in {"idle", "search", "next", "create", "flag", "smtp", "record"}
         /\ run[r].tenant \in Tenants \cup {None}
         /\ run[r].todo \subseteq Mails
         /\ run[r].mail \in Mails \cup Outgoing \cup {None}
  BY DEF TypeOK, Run

LEMMA InitOK == Init => MailInv
  <1> SUFFICES ASSUME Init PROVE MailInv
    OBVIOUS
  <1>1. TypeOK
    BY MailAssumption DEF Init, TypeOK, Run, Idle, At
  <1>2. InHand /\ Inbox
    BY DEF Init, InHand, Inbox, Stored, NothingLost, Alone, Followed, OneCopy, Rows, Idle, At, Inbound
  <1>3. Recording /\ SentLedger
    BY DEF Init, Recording, SentLedger, Idle, At
  <1>4. QED BY <1>1, <1>2, <1>3 DEF MailInv, Shape

LEMMA ShapeStep == MailInv /\ [Next]_vars => Shape'
  <1> SUFFICES ASSUME MailInv, [Next]_vars PROVE Shape'
    OBVIOUS
  <1>a. TypeOK /\ InHand
    BY DEF MailInv, Shape
  <1> USE DEF Shape, InHand, Inbound, At
  <1>r. \A r \in Runs :
          /\ run[r].pc \in {"idle", "search", "next", "create", "flag", "smtp", "record"}
          /\ run[r].tenant \in Tenants \cup {None}
          /\ run[r].todo \subseteq Mails
          /\ run[r].mail \in Mails \cup Outgoing \cup {None}
    BY <1>a, RunFields
  <1>1. ASSUME NEW m \in Mails, Arrive(m) PROVE Shape'
    BY <1>1, <1>a DEF Arrive, TypeOK
  <1>2. ASSUME NEW r \in Runs, StartRun(r) PROVE Shape'
    <2>1. PICK t \in Tenants \cup {None} :
            run' = [run EXCEPT ![r] = At("search", t, {}, None)]
      BY <1>2 DEF StartRun
    <2>2. run' \in [Runs -> Run]
      BY <2>1, <1>a DEF TypeOK, Run
    <2>3. TypeOK'
      BY <1>2, <2>2, <1>a DEF StartRun, boxVars, TypeOK
    <2>4. QED BY <1>2, <2>1, <2>3, <1>a DEF StartRun, boxVars, TypeOK
  <1>3. ASSUME NEW r \in Runs, Fetch(r) PROVE Shape'
    <2>1. CASE run' = [run EXCEPT ![r] = Idle] /\ UNCHANGED overlapped
      <3>1. run' \in [Runs -> Run]
        BY <2>1, <1>a DEF TypeOK, Run, Idle
      <3>2. QED BY <1>3, <2>1, <3>1, <1>a DEF Fetch, boxVars, TypeOK, Idle
    <2>2. ASSUME run[r].tenant # None, NEW got \in SUBSET Unseen,
                 run' = [run EXCEPT ![r] = At("next", run[r].tenant, got, None)],
                 overlapped' = overlapped \cup
                   (got \cap UNION {run[q].todo : q \in Runs \ {r}})
          PROVE  Shape'
      <3>1. got \subseteq arrived /\ got \subseteq Mails
        BY <1>a DEF Unseen, TypeOK
      <3>2. run' \in [Runs -> Run]
        BY <2>2, <3>1, <1>a DEF TypeOK, Run
      <3>3. overlapped' \subseteq Mails
        BY <2>2, <3>1, <1>a DEF TypeOK
      <3>4. TypeOK'
        BY <1>3, <3>2, <3>3, <1>a DEF Fetch, boxVars, TypeOK
      <3>5. InHand'
        BY <1>3, <2>2, <3>1, <1>a, <1>r DEF Fetch, boxVars, TypeOK
      <3>6. QED BY <3>4, <3>5
    <2>3. QED BY <1>3, <2>1, <2>2 DEF Fetch
  <1>4. ASSUME NEW r \in Runs, FindExisting(r) PROVE Shape'
    <2>1. CASE run' = [run EXCEPT ![r] = Idle]
      <3>1. run' \in [Runs -> Run]
        BY <2>1, <1>a DEF TypeOK, Run, Idle
      <3>2. QED BY <1>4, <2>1, <3>1, <1>a DEF FindExisting, boxVars, TypeOK, Idle
    <2>2. ASSUME NEW m \in run[r].todo, NEW pc \in {"flag", "create"},
                 run' = [run EXCEPT ![r] = At(pc, run[r].tenant, run[r].todo, m)]
          PROVE  Shape'
      <3>1. run' \in [Runs -> Run]
        BY <2>2, <1>a, <1>r DEF TypeOK, Run
      <3>2. TypeOK'
        BY <1>4, <3>1, <1>a DEF FindExisting, boxVars, TypeOK
      <3>3. InHand'
        BY <1>4, <2>2, <1>a, <1>r DEF FindExisting, boxVars, TypeOK
      <3>4. QED BY <3>2, <3>3
    <2>3. QED BY <1>4, <2>1, <2>2 DEF FindExisting, ForNew
  <1>5. ASSUME NEW r \in Runs, Create(r) PROVE Shape'
    <2> DEFINE t == run[r].tenant
               m == run[r].mail
    <2>1. t \in Tenants /\ m \in Mails
      BY <1>5, <1>a DEF Create
    <2>2. copies' \in [Tenants -> [Mails -> 0..MaxCopies]]
      BY <1>5, <2>1, <1>a, MailAssumption DEF Create, TypeOK
    <2>3. run' \in [Runs -> Run]
      BY <1>5, <1>a DEF Create, TypeOK, Run
    <2>4. TypeOK'
      BY <1>5, <2>2, <2>3, <1>a DEF Create, TypeOK
    <2>5. QED BY <1>5, <2>4, <1>a, <1>r DEF Create, TypeOK
  <1>6. ASSUME NEW r \in Runs, Flag(r) PROVE Shape'
    <2>1. run[r].mail \in arrived
      BY <1>6, <1>a DEF Flag
    <2>2. run' \in [Runs -> Run]
      BY <1>6, <1>a DEF Flag, TypeOK, Run
    <2>3. TypeOK'
      BY <1>6, <2>1, <2>2, <1>a DEF Flag, TypeOK
    <2>4. QED BY <1>6, <2>3, <1>a, <1>r DEF Flag, TypeOK
  <1>7. ASSUME NEW r \in Runs, StartSend(r) PROVE Shape'
    <2>1. PICK t \in Tenants, o \in Outgoing :
            run' = [run EXCEPT ![r] = At("smtp", t, {}, o)]
      BY <1>7 DEF StartSend, FirstOfSend
    <2>3. run' \in [Runs -> Run]
      BY <2>1, <1>a DEF TypeOK, Run
    <2>4. QED BY <1>7, <2>1, <2>3, <1>a DEF StartSend, boxVars, TypeOK
  <1>8. ASSUME NEW r \in Runs, Transmit(r) PROVE Shape'
    <2>1. run' \in [Runs -> Run] /\ accepted' \subseteq Outgoing
      BY <1>8, <1>a DEF Transmit, TypeOK, Run
    <2>2. QED BY <1>8, <2>1, <1>a, <1>r DEF Transmit, boxVars, TypeOK
  <1>9. ASSUME NEW r \in Runs, RecordSent(r) PROVE Shape'
    <2>1. run' \in [Runs -> Run] /\ sent' \subseteq Outgoing
      BY <1>9, <1>a DEF RecordSent, TypeOK, Run, Idle
    <2>2. QED BY <1>9, <2>1, <1>a DEF RecordSent, boxVars, TypeOK, Idle
  <1>10. ASSUME NEW r \in Runs, Break(r) PROVE Shape'
    <2>1. run' \in [Runs -> Run] /\ unflagged' \subseteq Mails /\ unrecorded' \subseteq Outgoing
      BY <1>10, <1>a DEF Break, TypeOK, Run, Idle
    <2>2. QED BY <1>10, <2>1, <1>a DEF Break, boxVars, TypeOK, Idle
  <1>11. CASE FileUnsent
    BY <1>11, <1>a DEF FileUnsent, boxVars, TypeOK
  <1>12. CASE UNCHANGED vars
    BY <1>12, <1>a DEF vars, boxVars, TypeOK
  <1>13. QED
    BY <1>1, <1>2, <1>3, <1>4, <1>5, <1>6, <1>7, <1>8, <1>9, <1>10, <1>11, <1>12 DEF Next

----------------------------------------------------------------------------
(* The inbox *)

\* A run that is not at its flag ends or goes on elsewhere, and nothing is
\* stored or flagged.
LEMMA QuietStep ==
  ASSUME TypeOK, Inbox, NEW r \in Runs,
         UNCHANGED <<copies, seen, overlapped, unflagged>>,
         run[r].pc # "flag",
         run'[r].pc \notin {"create", "flag"},
         run'[r].todo \subseteq run[r].todo,
         \A q \in Runs : q # r => run'[q] = run[q]
  PROVE  Inbox'
  <1> USE DEF Inbox
  <1>1. Stored' /\ NothingLost' /\ OneCopy'
    BY DEF Stored, NothingLost, OneCopy, Rows
  <1>2. Alone'
    BY DEF Alone
  <1>3. Followed'
    BY DEF Followed, Rows
  <1>4. QED BY <1>1, <1>2, <1>3

LEMMA InboxStep == MailInv /\ [Next]_vars => Inbox'
  <1> SUFFICES ASSUME MailInv, [Next]_vars PROVE Inbox'
    OBVIOUS
  <1>a. TypeOK /\ InHand /\ Inbox
    BY DEF MailInv, Shape
  <1>t. run \in [Runs -> Run] /\ copies \in [Tenants -> [Mails -> 0..MaxCopies]]
    BY <1>a DEF TypeOK
  <1>1. ASSUME NEW m \in Mails, Arrive(m) PROVE Inbox'
    BY <1>1, <1>a DEF Arrive, Inbox, Stored, NothingLost, Alone, Followed, OneCopy, Rows
  <1>2. ASSUME NEW r \in Runs, StartRun(r) \/ StartSend(r) PROVE Inbox'
    <2>1. /\ UNCHANGED <<copies, seen, overlapped, unflagged>> /\ run[r].pc = "idle"
          /\ run'[r].pc \notin {"create", "flag"} /\ run'[r].todo = {}
          /\ \A q \in Runs : q # r => run'[q] = run[q]
      BY <1>2, <1>t DEF StartRun, StartSend, FirstOfSend, At, boxVars
    <2>2. QED BY <2>1, <1>a, QuietStep
  <1>3. ASSUME NEW r \in Runs, Transmit(r) \/ RecordSent(r) PROVE Inbox'
    <2>1. /\ UNCHANGED <<copies, seen, overlapped, unflagged>> /\ run[r].pc # "flag"
          /\ run'[r].pc \notin {"create", "flag"} /\ run'[r].todo \subseteq run[r].todo
          /\ \A q \in Runs : q # r => run'[q] = run[q]
      BY <1>3, <1>t DEF Transmit, RecordSent, Idle, At, boxVars, Run
    <2>2. QED BY <2>1, <1>a, QuietStep
  <1>4. ASSUME NEW r \in Runs, Fetch(r) PROVE Inbox'
    <2>0. UNCHANGED <<copies, seen, unflagged>> /\ run[r].pc = "search"
      BY <1>4 DEF Fetch, boxVars
    <2>1. CASE run' = [run EXCEPT ![r] = Idle] /\ UNCHANGED overlapped
      <3>1. /\ run'[r].pc \notin {"create", "flag"} /\ run'[r].todo = {}
            /\ \A q \in Runs : q # r => run'[q] = run[q]
        BY <2>1, <1>t DEF Idle, At
      <3>2. QED BY <2>0, <2>1, <3>1, <1>a, QuietStep
    <2>2. ASSUME NEW got \in SUBSET Unseen,
                 run' = [run EXCEPT ![r] = At("next", run[r].tenant, got, None)],
                 overlapped' = overlapped \cup
                   (got \cap UNION {run[q].todo : q \in Runs \ {r}})
          PROVE  Inbox'
      <3>1. /\ run'[r].pc = "next" /\ run'[r].todo = got
            /\ \A q \in Runs : q # r => run'[q] = run[q]
        BY <2>2, <1>t DEF At
      <3>2. got \cap seen = {}
        BY DEF Unseen
      <3>3. \A m \in got \ overlapped' : \A q \in Runs \ {r} : m \notin run[q].todo
        BY <2>2
      <3>4. overlapped \subseteq overlapped'
        BY <2>2
      <3>5. Stored' /\ NothingLost' /\ OneCopy'
        BY <2>0, <3>1, <3>4, <1>a DEF Inbox, Stored, NothingLost, OneCopy, Rows
      <3>6. Alone'
        BY <2>0, <3>1, <3>2, <3>3, <3>4, <1>a DEF Inbox, Alone
      <3>7. Followed'
        BY <2>0, <3>1, <3>4, <1>a DEF Inbox, Followed, Rows
      <3>8. QED BY <3>5, <3>6, <3>7 DEF Inbox
    <2>3. QED BY <1>4, <2>1, <2>2 DEF Fetch
  <1>5. ASSUME NEW r \in Runs, FindExisting(r) PROVE Inbox'
    <2>0. UNCHANGED <<copies, seen, overlapped, unflagged>> /\ run[r].pc = "next"
      BY <1>5 DEF FindExisting, boxVars
    <2>1. CASE run' = [run EXCEPT ![r] = Idle]
      <3>1. /\ run'[r].pc \notin {"create", "flag"} /\ run'[r].todo = {}
            /\ \A q \in Runs : q # r => run'[q] = run[q]
        BY <2>1, <1>t DEF Idle, At
      <3>2. QED BY <2>0, <3>1, <1>a, QuietStep
    <2>2. ASSUME NEW m \in run[r].todo,
                 run' = [run EXCEPT ![r] = At(IF Handled(run[r].tenant, m) THEN "flag" ELSE ForNew,
                                              run[r].tenant, run[r].todo, m)]
          PROVE  Inbox'
      <3>1. /\ run'[r].todo = run[r].todo /\ run'[r].mail = m /\ run'[r].tenant = run[r].tenant
            /\ run'[r].pc = IF copies[run[r].tenant][m] > 0 THEN "flag" ELSE "create"
            /\ \A q \in Runs : q # r => run'[q] = run[q]
        BY <2>2, <1>t DEF At, Handled, ForNew
      <3>2. m \in Mails /\ run[r].tenant \in Tenants
        BY <2>0, <1>a, RunFields DEF InHand, Inbound
      <3>3. copies[run[r].tenant][m] \in 0..MaxCopies
        BY <3>2, <1>t
      <3>4. Stored' /\ NothingLost' /\ OneCopy'
        BY <2>0, <3>1, <1>a DEF Inbox, Stored, NothingLost, OneCopy, Rows
      <3>5. Alone'
        <4>1. \A n \in Mails \ overlapped : \A q \in Runs :
                run'[q].pc = "create" /\ run'[q].mail = n => copies[run'[q].tenant][n] = 0
          BY <2>0, <3>1, <3>3, <1>a, MailAssumption DEF Inbox, Alone
        <4>2. \A q \in Runs : run'[q].todo = run[q].todo
          BY <3>1
        <4>3. QED BY <2>0, <4>1, <4>2, <1>a DEF Inbox, Alone
      <3>6. Followed'
        BY <2>0, <3>1, <1>a DEF Inbox, Followed, Rows
      <3>7. QED BY <3>4, <3>5, <3>6 DEF Inbox
    <2>3. QED BY <1>5, <2>1, <2>2 DEF FindExisting
  <1>6. ASSUME NEW r \in Runs, Create(r) PROVE Inbox'
    <2> DEFINE t == run[r].tenant
               m == run[r].mail
    <2>1. t \in Tenants /\ m \in Mails /\ m \in run[r].todo /\ run[r].pc = "create"
      BY <1>6, <1>a DEF Create, InHand, Inbound
    <2>2. /\ UNCHANGED <<seen, overlapped, unflagged>>
          /\ \A q \in Runs : q # r => run'[q] = run[q]
          /\ run'[r].pc = "flag" /\ run'[r].tenant = t /\ run'[r].mail = m
          /\ run'[r].todo = run[r].todo
      BY <1>6, <1>t DEF Create, Run
    <2>3. /\ copies'[t][m] = copies[t][m] + 1
          /\ \A u \in Tenants, n \in Mails :
               u # t \/ n # m => copies'[u][n] = copies[u][n]
      BY <1>6, <2>1, <1>t DEF Create
    <2>4. \A u \in Tenants, n \in Mails : copies[u][n] \in Nat
      BY <1>t, MailAssumption
    <2>4a. \A u \in Tenants, n \in Mails : copies'[u][n] \in Nat
      <3>1. copies' \in [Tenants -> [Mails -> 0..MaxCopies]]
        BY <1>6, <1>t, <2>1, MailAssumption DEF Create
      <3>2. QED BY <3>1, MailAssumption
    <2>5. m \notin overlapped =>
            /\ copies[t][m] = 0
            /\ m \notin seen
            /\ \A q \in Runs : m \in run[q].todo => q = r
      BY <2>1, <1>a DEF Inbox, Alone
    <2> HIDE DEF t, m
    <2>6. Stored'
      <3>1. \A u \in Tenants, n \in Mails : copies'[u][n] >= copies[u][n]
        BY <2>1, <2>3, <2>4
      <3>2. \A q \in Runs : run[q].pc = "flag" => run[q].tenant \in Tenants /\ run[q].mail \in Mails
        BY <1>a DEF InHand, Inbound
      <3>3. copies'[t][m] > 0
        BY <2>1, <2>3, <2>4
      <3>4. ASSUME NEW q \in Runs, run'[q].pc = "flag"
            PROVE  copies'[run'[q].tenant][run'[q].mail] > 0
        <4>1. CASE q = r
          BY <4>1, <2>2, <3>3
        <4>2. CASE q # r
          <5>1. run[q].pc = "flag" /\ copies[run[q].tenant][run[q].mail] > 0
            BY <3>4, <4>2, <2>2, <1>a DEF Inbox, Stored
          <5>2. run[q].tenant \in Tenants /\ run[q].mail \in Mails
            BY <5>1, <3>2
          <5>3. copies'[run[q].tenant][run[q].mail] > 0
            <6> DEFINE u == run[q].tenant
                       n == run[q].mail
            <6>1. u \in Tenants /\ n \in Mails /\ copies[u][n] > 0
              BY <5>1, <5>2
            <6> HIDE DEF u, n
            <6>2. copies[u][n] \in Nat /\ copies'[u][n] \in Nat
              BY <6>1, <2>4, <2>4a
            <6>3. copies'[u][n] > 0
              BY <6>1, <6>2, <3>1
            <6>4. QED BY <6>3 DEF u, n
          <5>4. QED BY <5>3, <4>2, <2>2
        <4>3. QED BY <4>1, <4>2
      <3>5. QED BY <3>4 DEF Stored
    <2>7. \A n \in Mails : n # m => Rows(n)' = Rows(n)
      BY <2>3 DEF Rows
    <2>8. \A u \in Tenants : copies'[u][m] > 0 <=> copies[u][m] > 0 \/ u = t
      <3>1. ASSUME NEW u \in Tenants
            PROVE  copies'[u][m] > 0 <=> copies[u][m] > 0 \/ u = t
        <4>1. CASE u = t
          <5>1. copies[t][m] \in Nat /\ copies'[t][m] = copies[t][m] + 1
            BY <2>1, <2>3, <2>4
          <5>2. copies'[t][m] > 0
            BY <5>1
          <5>3. QED BY <4>1, <5>2
        <4>2. CASE u # t
          <5>1. copies'[u][m] = copies[u][m]
            BY <4>2, <2>1, <2>3
          <5>2. QED BY <5>1, <4>2
        <4>3. QED BY <4>1, <4>2
      <3>2. QED BY <3>1
    <2>9. NothingLost'
      <3>1. seen \subseteq Mails
        BY <1>a DEF TypeOK
      <3>2. \A n \in seen : Rows(n) # {}
        BY <1>a DEF Inbox, NothingLost
      <3>3. ASSUME NEW n \in seen PROVE \E u \in Tenants : copies'[u][n] > 0
        <4>1. n \in Mails /\ \E u \in Tenants : copies[u][n] > 0
          BY <3>1, <3>2 DEF Rows
        <4>2. CASE n = m
          BY <4>1, <4>2, <2>8
        <4>3. CASE n # m
          BY <4>1, <4>3, <2>3
        <4>4. QED BY <4>2, <4>3
      <3>4. \A n \in seen' : \E u \in Tenants : copies'[u][n] > 0
        BY <2>2, <3>3
      <3>5. QED BY <3>4 DEF NothingLost, Rows
    <2>10. Alone'
      <3>1. ASSUME NEW n \in Mails \ overlapped, NEW q \in Runs,
                   run'[q].pc = "create", run'[q].mail = n
            PROVE  copies'[run'[q].tenant][n] = 0
        <4>1. q # r /\ run'[q] = run[q]
          BY <3>1, <2>2
        <4>2. copies[run[q].tenant][n] = 0 /\ n \in run[q].todo /\ run[q].tenant \in Tenants
          BY <3>1, <4>1, <1>a DEF Inbox, Alone, InHand, Inbound
        <4>3. n # m
          BY <4>1, <4>2, <2>5, <3>1
        <4>4. QED BY <4>1, <4>2, <4>3, <2>3
      <3>2. \A q \in Runs : run'[q].todo = run[q].todo
        BY <2>2
      <3>3. QED BY <2>2, <3>1, <3>2, <1>a DEF Inbox, Alone
    <2>11. Followed'
      <3>1. ASSUME NEW n \in Mails \ (overlapped \cup unflagged), n # m, Rows(n) # {}
            PROVE  n \in seen \/ \E q \in Runs : run'[q].pc = "flag" /\ run'[q].mail = n
        <4>1. n \in seen \/ \E q \in Runs : run[q].pc = "flag" /\ run[q].mail = n
          BY <3>1, <1>a DEF Inbox, Followed
        <4>2. QED BY <4>1, <2>1, <2>2
      <3>2. QED BY <3>1, <2>2, <2>7 DEF Followed
    <2>12. OneCopy'
      <3>1. ASSUME m \notin overlapped
            PROVE  /\ \A u \in Tenants : copies'[u][m] <= 1
                   /\ m \notin unflagged => \A u, v \in Tenants :
                        copies'[u][m] > 0 /\ copies'[v][m] > 0 => u = v
        <4>1. \A u \in Tenants : copies[u][m] <= 1
          BY <2>1, <3>1, <1>a DEF Inbox, OneCopy
        <4>2. \A u \in Tenants : copies'[u][m] <= 1
          BY <4>1, <2>1, <2>3, <2>5, <3>1
        <4>3. m \notin unflagged => Rows(m) = {}
          <5>1. SUFFICES ASSUME m \notin unflagged, Rows(m) # {} PROVE FALSE
            OBVIOUS
          <5>2. PICK q \in Runs : run[q].pc = "flag" /\ run[q].mail = m
            BY <5>1, <3>1, <2>1, <2>5, <1>a DEF Inbox, Followed
          <5>3. m \in run[q].todo
            BY <5>2, <1>a DEF InHand
          <5>4. QED BY <5>2, <5>3, <2>5, <2>1, <3>1
        <4>4. m \notin unflagged => \A u \in Tenants : copies'[u][m] > 0 => u = t
          BY <4>3, <2>8 DEF Rows
        <4>5. QED BY <4>2, <4>4
      <3>2. ASSUME NEW n \in Mails \ overlapped, n # m
            PROVE  /\ \A u \in Tenants : copies'[u][n] <= 1
                   /\ n \notin unflagged => \A u, v \in Tenants :
                        copies'[u][n] > 0 /\ copies'[v][n] > 0 => u = v
        <4>1. \A u \in Tenants : copies'[u][n] = copies[u][n]
          BY <3>2, <2>3
        <4>2. /\ \A u \in Tenants : copies[u][n] <= 1
              /\ n \notin unflagged => \A u, v \in Tenants :
                   copies[u][n] > 0 /\ copies[v][n] > 0 => u = v
          BY <1>a DEF Inbox, OneCopy, Rows
        <4>3. QED BY <4>1, <4>2
      <3>3. ASSUME NEW n \in Mails \ overlapped
            PROVE  /\ \A u \in Tenants : copies'[u][n] <= 1
                   /\ n \notin unflagged => \A u, v \in Tenants :
                        copies'[u][n] > 0 /\ copies'[v][n] > 0 => u = v
        <4>1. CASE n = m
          BY <4>1, <3>1
        <4>2. CASE n # m
          BY <4>2, <3>2
        <4>3. QED BY <4>1, <4>2
      <3>4. QED BY <3>3, <2>2 DEF OneCopy, Rows
    <2>13. QED BY <2>6, <2>9, <2>10, <2>11, <2>12 DEF Inbox
  <1>7. ASSUME NEW r \in Runs, Flag(r) PROVE Inbox'
    <2> DEFINE m == run[r].mail
    <2>1. /\ m \in Mails /\ m \in run[r].todo /\ run[r].pc = "flag"
          /\ run[r].tenant \in Tenants /\ copies[run[r].tenant][m] > 0
      BY <1>7, <1>a DEF Flag, InHand, Inbox, Stored, Inbound
    <2>2. /\ UNCHANGED <<copies, overlapped, unflagged>> /\ seen' = seen \cup {m}
          /\ \A q \in Runs : q # r => run'[q] = run[q]
          /\ run'[r].pc = "next" /\ run'[r].todo = run[r].todo \ {m}
      BY <1>7, <1>t DEF Flag, At
    <2> HIDE DEF m
    <2>3. Stored' /\ OneCopy'
      BY <2>2, <1>a DEF Inbox, Stored, OneCopy, Rows
    <2>4. Rows(m) # {}
      BY <2>1 DEF Rows
    <2>5. NothingLost'
      BY <2>2, <2>4, <1>a DEF Inbox, NothingLost, Rows
    <2>6. Alone'
      BY <2>1, <2>2, <1>a DEF Inbox, Alone
    <2>7. Followed'
      <3>1. ASSUME NEW n \in Mails \ (overlapped \cup unflagged), Rows(n) # {}
            PROVE  n \in seen' \/ \E q \in Runs : run'[q].pc = "flag" /\ run'[q].mail = n
        <4>1. n \in seen \/ \E q \in Runs : run[q].pc = "flag" /\ run[q].mail = n
          BY <3>1, <1>a DEF Inbox, Followed
        <4>2. CASE \E q \in Runs \ {r} : run[q].pc = "flag" /\ run[q].mail = n
          BY <4>2, <2>2
        <4>3. CASE n \in seen \/ n = m
          BY <4>3, <2>2
        <4>4. QED BY <4>1, <4>2, <4>3 DEF m
      <3>2. QED BY <3>1, <2>2 DEF Followed, Rows
    <2>8. QED BY <2>3, <2>5, <2>6, <2>7 DEF Inbox
  <1>8. ASSUME NEW r \in Runs, Break(r) PROVE Inbox'
    <2>1. /\ UNCHANGED <<copies, seen, overlapped>>
          /\ \A q \in Runs : q # r => run'[q] = run[q]
          /\ run'[r].pc = "idle" /\ run'[r].todo = {}
          /\ unflagged' = IF run[r].pc = "flag" THEN unflagged \cup {run[r].mail} ELSE unflagged
      BY <1>8, <1>t DEF Break, Idle, At, boxVars
    <2>2. CASE run[r].pc # "flag"
      BY <2>1, <2>2, <1>a, QuietStep
    <2>3. CASE run[r].pc = "flag"
      <3>1. Stored' /\ NothingLost' /\ OneCopy'
        BY <2>1, <2>3, <1>a DEF Inbox, Stored, NothingLost, OneCopy, Rows
      <3>2. Alone'
        BY <2>1, <1>a DEF Inbox, Alone
      <3>3. Followed'
        BY <2>1, <2>3, <1>a DEF Inbox, Followed, Rows
      <3>4. QED BY <3>1, <3>2, <3>3 DEF Inbox
    <2>4. QED BY <2>2, <2>3
  <1>9. CASE FileUnsent
    BY <1>9, <1>a DEF FileUnsent, boxVars, Inbox, Stored, NothingLost, Alone, Followed, OneCopy,
       Rows
  <1>10. CASE UNCHANGED vars
    BY <1>10, <1>a DEF vars, Inbox, Stored, NothingLost, Alone, Followed, OneCopy, Rows
  <1>11. QED
    BY <1>1, <1>2, <1>3, <1>4, <1>5, <1>6, <1>7, <1>8, <1>9, <1>10 DEF Next

----------------------------------------------------------------------------
(* The SENT folder *)

LEMMA LedgerStep == MailInv /\ [Next]_vars => Recording' /\ SentLedger'
  <1> SUFFICES ASSUME MailInv, [Next]_vars PROVE Recording' /\ SentLedger'
    OBVIOUS
  <1>a. TypeOK /\ InHand /\ Recording /\ SentLedger
    BY DEF MailInv, Shape
  <1>t. run \in [Runs -> Run]
    BY <1>a DEF TypeOK
  <1>1. ASSUME NEW r \in Runs, run[r].pc # "record", run'[r].pc # "record",
               \A q \in Runs : q # r => run'[q] = run[q],
               UNCHANGED <<sent, accepted, unrecorded>>
        PROVE  Recording' /\ SentLedger'
    BY <1>1, <1>a DEF Recording, SentLedger
  <1>2. ASSUME NEW r \in Runs,
               \/ StartRun(r) \/ Fetch(r) \/ FindExisting(r) \/ Create(r) \/ Flag(r)
               \/ StartSend(r)
        PROVE  Recording' /\ SentLedger'
    <2>1. UNCHANGED <<sent, accepted, unrecorded>>
      BY <1>2 DEF StartRun, Fetch, FindExisting, Create, Flag, StartSend
    <2>2. run[r].pc # "record" /\ run'[r].pc # "record"
      BY <1>2, <1>t DEF StartRun, Fetch, FindExisting, Create, Flag, StartSend, At, Idle,
         ForNew, FirstOfSend, Run
    <2>3. \A q \in Runs : q # r => run'[q] = run[q]
      BY <1>2, <1>t DEF StartRun, Fetch, FindExisting, Create, Flag, StartSend
    <2>4. QED BY <1>1, <2>1, <2>2, <2>3
  <1>3. ASSUME NEW r \in Runs, Transmit(r) PROVE Recording' /\ SentLedger'
    <2>1. /\ run'[r].pc = "record" /\ run'[r].mail = run[r].mail
          /\ \A q \in Runs : q # r => run'[q] = run[q]
          /\ accepted' = accepted \cup {run[r].mail} /\ UNCHANGED <<sent, unrecorded>>
          /\ run[r].pc = "smtp"
      BY <1>3, <1>t DEF Transmit, Run
    <2>2. Recording'
      BY <2>1, <1>a DEF Recording
    <2>3. SentLedger'
      <3>1. ASSUME NEW o \in accepted' \ (sent \cup unrecorded)
            PROVE  \E q \in Runs : run'[q].mail = o /\ run'[q].pc = "record"
        <4>1. CASE o = run[r].mail
          BY <4>1, <2>1
        <4>2. CASE o # run[r].mail
          <5>1. PICK q \in Runs : run[q].mail = o /\ run[q].pc = "record"
            BY <4>2, <2>1, <1>a DEF SentLedger
          <5>2. q # r
            BY <5>1, <4>2
          <5>3. QED BY <5>1, <5>2, <2>1
        <4>3. QED BY <4>1, <4>2
      <3>2. QED BY <3>1, <2>1, <1>a DEF SentLedger
    <2>4. QED BY <2>2, <2>3
  <1>4. ASSUME NEW r \in Runs, RecordSent(r) \/ Break(r) PROVE Recording' /\ SentLedger'
    <2>1. /\ run'[r].pc = "idle" /\ UNCHANGED accepted
          /\ \A q \in Runs : q # r => run'[q] = run[q]
      BY <1>4, <1>t DEF RecordSent, Break, Idle, At
    <2>2. /\ sent \subseteq sent' /\ unrecorded \subseteq unrecorded'
          /\ run[r].pc = "record" => run[r].mail \in sent' \cup unrecorded'
          /\ sent' = sent \/ (run[r].pc = "record" /\ sent' = sent \cup {run[r].mail})
      BY <1>4 DEF RecordSent, Break
    <2>3. Recording'
      BY <2>1, <1>a DEF Recording
    <2>4. SentLedger'
      <3>1. sent' \subseteq accepted'
        BY <2>1, <2>2, <1>a DEF SentLedger, Recording
      <3>2. ASSUME NEW o \in accepted' \ (sent' \cup unrecorded')
            PROVE  \E q \in Runs : run'[q].mail = o /\ run'[q].pc = "record"
        <4>1. PICK q \in Runs : run[q].mail = o /\ run[q].pc = "record"
          BY <3>2, <2>1, <2>2, <1>a DEF SentLedger
        <4>2. q # r
          BY <4>1, <3>2, <2>2
        <4>3. QED BY <4>1, <4>2, <2>1
      <3>3. QED BY <3>1, <3>2 DEF SentLedger
    <2>5. QED BY <2>3, <2>4
  <1>5. CASE \E m \in Mails : Arrive(m)
    BY <1>5, <1>a DEF Arrive, Recording, SentLedger
  <1>6. CASE FileUnsent
    BY <1>6, <1>a DEF FileUnsent, Recording, SentLedger
  <1>7. CASE UNCHANGED vars
    BY <1>7, <1>a DEF vars, Recording, SentLedger
  <1>8. QED
    BY <1>2, <1>3, <1>4, <1>5, <1>6, <1>7 DEF Next

----------------------------------------------------------------------------

\* The invariant holds of every behaviour.
THEOREM InvariantHolds == Spec => []MailInv
  <1>1. MailInv /\ [Next]_vars => MailInv'
    BY ShapeStep, InboxStep, LedgerStep DEF MailInv
  <1>2. QED BY InitOK, <1>1, PTL DEF Spec

\* The variables of Mail keep their types.
THEOREM TypeCorrect == Spec => []TypeOK
  BY InvariantHolds, PTL DEF MailInv, Shape

\* No interleaving of syncs, polls and breaks loses a message.
THEOREM NothingLostCorrect == Spec => []NothingLost
  BY InvariantHolds, PTL DEF MailInv, Inbox

\* A message that no two runs have in hand at once is stored once per tenant,
\* and in one tenant unless a run broke off before flagging it.
THEOREM OneCopyCorrect == Spec => []OneCopy
  BY InvariantHolds, PTL DEF MailInv, Inbox

\* The rows with status SENT are what the server accepted, but for broken runs,
\* whatever EmailService files beside them.
THEOREM SentLedgerCorrect == Spec => []SentLedger
  BY InvariantHolds, PTL DEF MailInv
=============================================================================
