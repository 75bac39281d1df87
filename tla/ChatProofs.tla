----------------------------- MODULE ChatProofs -----------------------------
(***************************************************************************)
(* What holds of Chat for any users, tenants, sockets and channels.        *)
(***************************************************************************)
EXTENDS Chat, TLAPS

\* Membership rows are of channels that exist, and are all remembered.
RowsKept ==
  /\ members \subseteq were
  /\ \A c \in Channels, u \in Users : <<c, u>> \in were => home[c] \in Tenants

\* A socket that is sending, open or asking for its channels has an identity.
Identified ==
  \A s \in Sockets :
    s \in open \/ conn[s] = "query" \/ send[s].pc # "idle" => ident[s] \in Identity

\* Only open sockets are in rooms, those of channels their user was let into.
RoomsHeld ==
  \A s \in Sockets : \A c \in rooms[s] :
    s \in open /\ Belongs(c, ident[s].user, ident[s].tenant)

\* A message on its way past the check was checked.
Checked ==
  \A s \in Sockets :
    /\ send[s].pc # "idle" => send[s].channel \in Channels
    /\ (send[s].pc = "check" /\ send[s].member) \/ send[s].pc = "stored" =>
         Belongs(send[s].channel, ident[s].user, ident[s].tenant)
    /\ send[s].pc = "stored" => MessageOf(s) \in log

ChatInv == TypeOK /\ RowsKept /\ Identified /\ RoomsHeld /\ Checked /\ Attributed /\ Confined

\* What a step does to the rows: they are only added, to channels that exist.
LEMMA RowsStep ==
  ASSUME TypeOK, RowsKept, [Next]_vars
  PROVE  /\ RowsKept'
         /\ home' \in [Channels -> Tenants \cup {None}]
         /\ members' \subseteq Channels \X Users
         /\ were' \subseteq Channels \X Users
         /\ \A c \in Channels, u \in Users, t \in Tenants :
              Belongs(c, u, t) => Belongs(c, u, t)'
  <1> USE ChatAssumption DEF TypeOK, RowsKept, Belongs
  <1>1. ASSUME NEW c \in Channels, NEW i \in Identity, home[c] = None,
               home' = [home EXCEPT ![c] = i.tenant], AddRow(c, i.user)
        PROVE  /\ RowsKept'
               /\ home' \in [Channels -> Tenants \cup {None}]
               /\ members' \subseteq Channels \X Users
               /\ were' \subseteq Channels \X Users
               /\ \A d \in Channels, u \in Users, t \in Tenants :
                    Belongs(d, u, t) => Belongs(d, u, t)'
    <2>1. i.user \in Users /\ i.tenant \in Tenants
      BY DEF Identity
    <2>2. members' = members \cup {<<c, i.user>>} /\ were' = were \cup {<<c, i.user>>}
      BY <1>1 DEF AddRow
    <2>3. QED BY <1>1, <2>1, <2>2
  <1>2. CASE CreateChannel
    BY <1>1, <1>2 DEF CreateChannel
  <1>3. CASE AddMember
    <2>1. PICK c \in Channels, u \in Users : home[c] # None /\ AddRow(c, u) /\ UNCHANGED home
      BY <1>3 DEF AddMember
    <2>2. members' = members \cup {<<c, u>>} /\ were' = were \cup {<<c, u>>}
      BY <2>1 DEF AddRow
    <2>3. QED BY <2>1, <2>2
  <1>4. CASE RemoveMember
    BY <1>4 DEF RemoveMember
  <1>5. CASE UNCHANGED memberVars
    BY <1>5 DEF memberVars
  <1>6. ASSUME NEW s \in Sockets,
               \/ Connect(s) \/ JoinChannels(s) \/ Disconnect(s)
               \/ StartMessage(s) \/ Store(s) \/ Broadcast(s) \/ Fail(s)
        PROVE  UNCHANGED memberVars
    BY <1>6 DEF Connect, JoinChannels, Disconnect, StartMessage, Store, Broadcast, Fail
  <1>7. CASE PostMessage
    BY <1>7, <1>5 DEF PostMessage
  <1>8. CASE UNCHANGED vars
    BY <1>8, <1>5 DEF vars, memberVars
  <1>9. QED
    BY <1>2, <1>3, <1>4, <1>5, <1>6, <1>7, <1>8 DEF Next

\* Steps that write rows touch no socket, and no message.
LEMMA RowsOnly ==
  ASSUME CreateChannel \/ AddMember \/ RemoveMember
  PROVE  UNCHANGED <<ident, open, conn, rooms, send, log, posted, cast, heard>>
  BY DEF CreateChannel, AddMember, RemoveMember, AddRow

\* A post through the REST route stores one message, and touches nothing else.
LEMMA PostOnly ==
  ASSUME PostMessage
  PROVE  /\ \E m \in Message : log' = log \cup {m} /\ posted' = posted \cup {m}
         /\ UNCHANGED <<memberVars, ident, open, conn, rooms, send, cast, heard, missed>>
  <1>1. PICK c \in Channels, i \in Identity :
          /\ log' = log \cup {[channel |-> c, user |-> i.user, tenant |-> i.tenant]}
          /\ posted' = posted \cup {[channel |-> c, user |-> i.user, tenant |-> i.tenant]}
          /\ UNCHANGED <<memberVars, ident, open, conn, rooms, send, cast, heard, missed>>
    BY DEF PostMessage
  <1>2. [channel |-> c, user |-> i.user, tenant |-> i.tenant] \in Message
    BY DEF Message, Identity
  <1>3. QED BY <1>1, <1>2

LEMMA InitOK == Init => ChatInv
  BY ChatAssumption DEF Init, ChatInv, TypeOK, RowsKept, Identified, RoomsHeld, Checked,
     Attributed, Confined, Belongs, NoSend, Nobody

LEMMA TypeStep == ChatInv /\ [Next]_vars => TypeOK'
  <1> SUFFICES ASSUME ChatInv, [Next]_vars PROVE TypeOK'
    OBVIOUS
  <1>a. TypeOK /\ RowsKept
    BY DEF ChatInv
  <1>0. /\ home' \in [Channels -> Tenants \cup {None}]
        /\ members' \subseteq Channels \X Users
        /\ were' \subseteq Channels \X Users
    BY <1>a, RowsStep
  <1> USE DEF ChatInv
  <1>1. CASE CreateChannel \/ AddMember \/ RemoveMember
    <2>0. ASSUME NEW c \in Channels, NEW u, AddRow(c, u)
          PROVE  missed' \subseteq Sockets \X Channels
      <3>1. missed' = missed \cup {<<s, c>> : s \in {q \in open : ident[q].user = u}}
        BY <2>0 DEF AddRow
      <3>2. missed \subseteq Sockets \X Channels /\ open \subseteq Sockets
        BY <1>a DEF TypeOK
      <3>3. QED BY <3>1, <3>2
    <2>1. missed' \subseteq Sockets \X Channels
      BY <1>1, <1>a, <2>0 DEF TypeOK, CreateChannel, AddMember, RemoveMember
    <2>2. UNCHANGED <<ident, open, conn, rooms, send, log, posted, cast, heard>>
      BY <1>1, RowsOnly
    <2>3. QED BY <1>0, <1>a, <2>1, <2>2 DEF TypeOK
  <1>2. ASSUME NEW s \in Sockets, Connect(s) PROVE TypeOK'
    BY <1>0, <1>2 DEF TypeOK, Connect
  <1>3. ASSUME NEW s \in Sockets, JoinChannels(s) PROVE TypeOK'
    <2>1. missed' \subseteq Sockets \X Channels
      <3>1. CASE missed' = {m \in missed : m[1] # s}
        BY <3>1, <1>a DEF TypeOK
      <3>2. CASE missed' = missed \cup {<<s, c>> : c \in Channels}
        BY <3>2, <1>a DEF TypeOK
      <3>3. CASE missed' = missed
        BY <3>3, <1>a DEF TypeOK
      <3>4. QED BY <1>3, <3>1, <3>2, <3>3 DEF JoinChannels
    <2>2. rooms' \in [Sockets -> SUBSET Channels] /\ conn' \in [Sockets -> {"out", "query", "done"}]
      BY <1>3, <1>a DEF TypeOK, JoinChannels, Memberships
    <2>3. UNCHANGED <<ident, open, send, log, posted, cast, heard>>
      BY <1>3 DEF JoinChannels
    <2>4. QED BY <1>0, <1>a, <2>1, <2>2, <2>3 DEF TypeOK
  <1>4. ASSUME NEW s \in Sockets, Disconnect(s) PROVE TypeOK'
    BY <1>0, <1>4 DEF TypeOK, Disconnect
  <1>5. ASSUME NEW s \in Sockets, StartMessage(s) PROVE TypeOK'
    BY <1>0, <1>5 DEF TypeOK, StartMessage, MayPost
  <1>6. ASSUME NEW s \in Sockets, Store(s) PROVE TypeOK'
    <2>1. MessageOf(s) \in Message
      <3>1. send[s].pc = "check"
        BY <1>6 DEF Store
      <3>2. send[s].channel \in Channels /\ ident[s] \in Identity
        BY <3>1 DEF Checked, Identified
      <3>3. QED BY <3>2 DEF MessageOf, Message, Identity
    <2>2. log' = log \/ log' = log \cup {MessageOf(s)}
      BY <1>6 DEF Store
    <2>3. log' \subseteq Message /\ cast \subseteq log' /\ posted \subseteq log'
      BY <2>1, <2>2, <1>a DEF TypeOK
    <2>4. send' \in [Sockets -> [pc: {"idle", "check", "stored"},
                                 channel: Channels \cup {None}, member: BOOLEAN]]
      <3>1. CASE send' = [send EXCEPT ![s] = NoSend]
        BY <3>1, <1>a DEF TypeOK, NoSend
      <3>2. CASE send' = [send EXCEPT ![s].pc = "stored"]
        BY <3>2, <1>a DEF TypeOK
      <3>3. QED BY <1>6, <3>1, <3>2 DEF Store
    <2>5. UNCHANGED <<ident, open, conn, rooms, posted, cast, heard, missed>>
      BY <1>6 DEF Store
    <2>6. QED BY <1>0, <1>a, <2>3, <2>4, <2>5 DEF TypeOK
  <1>7. ASSUME NEW s \in Sockets, Broadcast(s) PROVE TypeOK'
    <2>1. MessageOf(s) \in log
      BY <1>7 DEF Checked, Broadcast
    <2>2. heard' \subseteq Message
      BY <1>7 DEF Broadcast, Reached, TypeOK, RoomsHeld, Identified, Identity, Message,
         MessageOf, Checked
    <2>3. QED BY <1>0, <1>7, <2>1, <2>2 DEF TypeOK, Broadcast, NoSend
  <1>8. ASSUME NEW s \in Sockets, Fail(s) PROVE TypeOK'
    BY <1>0, <1>8 DEF TypeOK, Fail, NoSend
  <1>9. CASE PostMessage
    BY <1>0, <1>9, <1>a, PostOnly DEF TypeOK
  <1>10. CASE UNCHANGED vars
    BY <1>10 DEF TypeOK, vars
  <1>11. QED
    BY <1>1, <1>2, <1>3, <1>4, <1>5, <1>6, <1>7, <1>8, <1>9, <1>10 DEF Next

LEMMA IdentifiedStep == ChatInv /\ [Next]_vars => Identified'
  <1> SUFFICES ASSUME ChatInv, [Next]_vars PROVE Identified'
    OBVIOUS
  <1> USE DEF ChatInv, TypeOK, Identified
  <1>1. CASE CreateChannel \/ AddMember \/ RemoveMember
    BY <1>1, RowsOnly
  <1>2. ASSUME NEW s \in Sockets, Connect(s) PROVE Identified'
    BY <1>2 DEF Connect
  <1>3. ASSUME NEW s \in Sockets, JoinChannels(s) PROVE Identified'
    BY <1>3 DEF JoinChannels
  <1>4. ASSUME NEW s \in Sockets, Disconnect(s) PROVE Identified'
    BY <1>4 DEF Disconnect
  <1>5. ASSUME NEW s \in Sockets, StartMessage(s) \/ Store(s) PROVE Identified'
    BY <1>5 DEF StartMessage, Store, NoSend
  <1>6. ASSUME NEW s \in Sockets, Broadcast(s) \/ Fail(s) PROVE Identified'
    BY <1>6 DEF Broadcast, Fail, NoSend
  <1>7. CASE PostMessage
    BY <1>7, PostOnly
  <1>8. CASE UNCHANGED vars
    BY <1>8 DEF vars
  <1>9. QED
    BY <1>1, <1>2, <1>3, <1>4, <1>5, <1>6, <1>7, <1>8 DEF Next

LEMMA RoomsStep == ChatInv /\ [Next]_vars => RoomsHeld'
  <1> SUFFICES ASSUME ChatInv, [Next]_vars PROVE RoomsHeld'
    OBVIOUS
  <1>0. \A c \in Channels, u \in Users, t \in Tenants : Belongs(c, u, t) => Belongs(c, u, t)'
    BY RowsStep DEF ChatInv
  <1>a. \A s \in open : ident[s].user \in Users /\ ident[s].tenant \in Tenants
    BY DEF ChatInv, TypeOK, Identified, Identity
  <1> USE DEF ChatInv, TypeOK, RoomsHeld
  <1>1. CASE UNCHANGED <<ident, open, rooms>>
    BY <1>0, <1>1, <1>a DEF Belongs
  <1>2. ASSUME NEW s \in Sockets, Connect(s) PROVE RoomsHeld'
    <2>1. /\ s \notin open /\ open' = open \cup {s} /\ rooms' = rooms
          /\ \A q \in Sockets : q # s => ident'[q] = ident[q]
      BY <1>2 DEF Connect
    <2>2. ASSUME NEW q \in Sockets, NEW c \in rooms'[q]
          PROVE  q \in open' /\ Belongs(c, ident[q].user, ident[q].tenant)'
      <3>1. /\ c \in rooms[q] /\ c \in Channels /\ q \in open
            /\ Belongs(c, ident[q].user, ident[q].tenant)
        BY <2>1, <2>2
      <3>2. q # s /\ ident'[q] = ident[q]
        BY <2>1, <3>1
      <3>3. Belongs(c, ident[q].user, ident[q].tenant)'
        BY <3>1, <3>2, <1>0, <1>a DEF Belongs
      <3>4. QED BY <2>1, <3>1, <3>3
    <2>3. QED BY <2>2
  <1>3. ASSUME NEW s \in Sockets, JoinChannels(s) PROVE RoomsHeld'
    <2>1. /\ UNCHANGED <<ident, open, home, were>>
          /\ \A q \in Sockets : q # s => rooms'[q] = rooms[q]
      BY <1>3 DEF JoinChannels, memberVars
    <2>2. \A c \in rooms'[s] : c \in rooms[s] \/ (s \in open /\ c \in Memberships(ident[s]))
      BY <1>3 DEF JoinChannels
    <2>3. \A c \in Memberships(ident[s]) : Belongs(c, ident[s].user, ident[s].tenant)
      BY DEF Memberships, Belongs, RowsKept
    <2>4. QED BY <2>1, <2>2, <2>3 DEF Belongs
  <1>4. ASSUME NEW s \in Sockets, Disconnect(s) PROVE RoomsHeld'
    <2>1. /\ UNCHANGED <<ident, home, were>> /\ open' = open \ {s}
          /\ rooms' = [rooms EXCEPT ![s] = {}]
      BY <1>4 DEF Disconnect, memberVars
    <2>2. QED BY <2>1 DEF Belongs
  <1>5. CASE CreateChannel \/ AddMember \/ RemoveMember
    BY <1>1, <1>5, RowsOnly
  <1>6. ASSUME NEW s \in Sockets, StartMessage(s) \/ Store(s) \/ Broadcast(s) \/ Fail(s)
        PROVE  RoomsHeld'
    BY <1>1, <1>6 DEF StartMessage, Store, Broadcast, Fail
  <1>7. CASE PostMessage
    BY <1>1, <1>7, PostOnly
  <1>8. CASE UNCHANGED vars
    BY <1>1, <1>8 DEF vars
  <1>9. QED
    BY <1>2, <1>3, <1>4, <1>5, <1>6, <1>7, <1>8 DEF Next

LEMMA CheckedStep == ChatInv /\ [Next]_vars => Checked'
  <1> SUFFICES ASSUME ChatInv, [Next]_vars PROVE Checked'
    OBVIOUS
  <1>0. \A c \in Channels, u \in Users, t \in Tenants : Belongs(c, u, t) => Belongs(c, u, t)'
    BY RowsStep DEF ChatInv
  <1>a. \A s \in Sockets : send[s].pc # "idle" =>
          /\ send[s].channel \in Channels
          /\ ident[s].user \in Users /\ ident[s].tenant \in Tenants
    BY DEF ChatInv, Checked, Identified, Identity
  <1> USE DEF ChatInv, TypeOK
  <1>1. ASSUME log \subseteq log',
               \A s \in Sockets : \/ send'[s].pc = "idle"
                                  \/ send'[s] = send[s] /\ ident'[s] = ident[s]
        PROVE  Checked'
    BY <1>0, <1>1, <1>a DEF Checked, Belongs, MessageOf
  <1>2. ASSUME NEW s \in Sockets, StartMessage(s) PROVE Checked'
    <2>1. PICK c \in Channels : send' = [send EXCEPT ![s] = [pc |-> "check", channel |-> c,
                                                  member |-> MayPost(ident[s], c)]]
      BY <1>2 DEF StartMessage
    <2>2. UNCHANGED <<home, were, ident, log>>
      BY <1>2 DEF StartMessage, memberVars
    <2>3. MayPost(ident[s], c) => Belongs(c, ident[s].user, ident[s].tenant)
      BY DEF MayPost, Belongs, RowsKept
    <2>4. QED BY <2>1, <2>2, <2>3 DEF Checked, Belongs, MessageOf
  <1>3. ASSUME NEW s \in Sockets, Store(s), send[s].member PROVE Checked'
    <2>1. /\ send[s].pc = "check" /\ log' = log \cup {MessageOf(s)}
          /\ send' = [send EXCEPT ![s].pc = "stored"]
          /\ UNCHANGED <<home, were, ident>>
      BY <1>3 DEF Store, memberVars
    <2>2. MessageOf(s)' = MessageOf(s)
      BY <2>1 DEF MessageOf
    <2>3. ASSUME NEW q \in Sockets, q # s
          PROVE  send'[q] = send[q] /\ MessageOf(q)' = MessageOf(q)
      BY <2>1, <2>3 DEF MessageOf
    <2>4. /\ send'[s].pc = "stored" /\ send'[s].channel = send[s].channel
          /\ MessageOf(s)' \in log'
      BY <2>1, <2>2
    <2>5. /\ send[s].channel \in Channels
          /\ Belongs(send[s].channel, ident[s].user, ident[s].tenant)
      BY <2>1, <1>3 DEF Checked
    <2>6. QED BY <2>1, <2>3, <2>4, <2>5 DEF Checked, Belongs
  <1>4. ASSUME NEW s \in Sockets, Store(s), ~send[s].member PROVE Checked'
    BY <1>1, <1>4 DEF Store, NoSend
  <1>5. ASSUME NEW s \in Sockets, Broadcast(s) \/ Fail(s) PROVE Checked'
    BY <1>1, <1>5 DEF Broadcast, Fail, NoSend
  <1>6. ASSUME NEW s \in Sockets, Connect(s) PROVE Checked'
    <2>1. /\ send[s].pc = "idle" /\ UNCHANGED <<send, log>>
          /\ \A q \in Sockets : q # s => ident'[q] = ident[q]
      BY <1>6 DEF Connect
    <2>2. QED BY <1>1, <2>1
  <1>7. ASSUME NEW s \in Sockets, JoinChannels(s) \/ Disconnect(s) PROVE Checked'
    BY <1>1, <1>7 DEF JoinChannels, Disconnect
  <1>8. CASE CreateChannel \/ AddMember \/ RemoveMember
    BY <1>1, <1>8, RowsOnly
  <1>9. CASE PostMessage
    BY <1>1, <1>9, PostOnly
  <1>10. CASE UNCHANGED vars
    BY <1>1, <1>10 DEF vars
  <1>11. QED
    BY <1>2, <1>3, <1>4, <1>5, <1>6, <1>7, <1>8, <1>9, <1>10 DEF Next

LEMMA DeliveryStep == ChatInv /\ [Next]_vars => Attributed' /\ Confined'
  <1> SUFFICES ASSUME ChatInv, [Next]_vars PROVE Attributed' /\ Confined'
    OBVIOUS
  <1>0. \A c \in Channels, u \in Users, t \in Tenants : Belongs(c, u, t) => Belongs(c, u, t)'
    BY RowsStep DEF ChatInv
  <1>a. \A m \in log \cup heard :
          m.channel \in Channels /\ m.user \in Users /\ m.tenant \in Tenants
    BY DEF ChatInv, TypeOK, Message
  <1>b. cast \subseteq log /\ Attributed /\ Confined
    BY DEF ChatInv, TypeOK
  <1>1. CASE UNCHANGED <<log, posted, cast, heard>>
    <2>1. \A m \in (log \ posted) \cup cast : Belongs(m.channel, m.user, m.tenant)'
      BY <1>0, <1>a, <1>b DEF Attributed
    <2>2. \A h \in heard : Belongs(h.channel, h.user, h.tenant)'
      BY <1>0, <1>a, <1>b DEF Confined
    <2>3. QED BY <1>1, <2>1, <2>2 DEF Attributed, Confined, Belongs
  <1>2. ASSUME NEW s \in Sockets, Store(s) PROVE Attributed' /\ Confined'
    <2>1. UNCHANGED <<home, were, posted, cast, heard>>
      BY <1>2 DEF Store, memberVars
    <2>2. log' = log \/ (log' = log \cup {MessageOf(s)}
                        /\ Belongs(MessageOf(s).channel, MessageOf(s).user, MessageOf(s).tenant))
      BY <1>2 DEF Store, ChatInv, Checked, MessageOf
    <2>3. QED BY <2>1, <2>2, <1>b DEF Attributed, Confined, Belongs
  <1>3. ASSUME NEW s \in Sockets, Broadcast(s) PROVE Attributed' /\ Confined'
    <2>1. UNCHANGED <<home, were, log, posted>> /\ cast' = cast \cup {MessageOf(s)}
      BY <1>3 DEF Broadcast, memberVars
    <2>2. ASSUME NEW h \in heard', h \notin heard
          PROVE  Belongs(h.channel, h.user, h.tenant)
      <3>1. PICK q \in Reached(MessageOf(s)) :
              h = [channel |-> MessageOf(s).channel, user |-> ident[q].user,
                   tenant |-> ident[q].tenant]
        BY <1>3, <2>2 DEF Broadcast
      <3>2. QED BY <3>1 DEF Reached, ChatInv, RoomsHeld
    <2>3. Belongs(MessageOf(s).channel, MessageOf(s).user, MessageOf(s).tenant)
      BY <1>3 DEF Broadcast, ChatInv, Checked, MessageOf
    <2>4. QED BY <2>1, <2>2, <2>3, <1>b DEF Attributed, Confined, Belongs
  <1>4. CASE CreateChannel \/ AddMember \/ RemoveMember
    BY <1>1, <1>4, RowsOnly
  <1>5. ASSUME NEW s \in Sockets,
               \/ Connect(s) \/ JoinChannels(s) \/ Disconnect(s)
               \/ StartMessage(s) \/ Fail(s)
        PROVE  UNCHANGED <<log, posted, cast, heard>>
    BY <1>5 DEF Connect, JoinChannels, Disconnect, StartMessage, Fail
  <1>6. CASE PostMessage
    <2>1. PICK m \in Message : log' = log \cup {m} /\ posted' = posted \cup {m}
      BY <1>6, PostOnly
    <2>2. UNCHANGED <<home, were, cast, heard>>
      BY <1>6, PostOnly DEF memberVars
    <2>3. (log' \ posted') \cup cast' \subseteq (log \ posted) \cup cast
      BY <2>1, <2>2
    <2>4. QED BY <2>2, <2>3, <1>b DEF Attributed, Confined, Belongs
  <1>7. CASE UNCHANGED vars
    BY <1>1, <1>7 DEF vars
  <1>8. QED
    BY <1>1, <1>2, <1>3, <1>4, <1>5, <1>6, <1>7 DEF Next

\* The invariant holds of every behaviour.
THEOREM InvariantHolds == Spec => []ChatInv
  <1>1. ChatInv /\ [Next]_vars => ChatInv'
    <2> SUFFICES ASSUME ChatInv, [Next]_vars PROVE ChatInv'
      OBVIOUS
    <2>1. RowsKept'
      BY RowsStep DEF ChatInv
    <2>2. QED
      BY <2>1, TypeStep, IdentifiedStep, RoomsStep, CheckedStep, DeliveryStep DEF ChatInv
  <1>2. QED BY InitOK, <1>1, PTL DEF Spec

\* The variables of Chat keep their types.
THEOREM TypeCorrect == Spec => []TypeOK
  BY InvariantHolds, PTL DEF ChatInv

\* What is broadcast, and what is stored other than by the REST route, belongs to
\* the tenant of its channel and comes from users who were members: the check of
\* onChatMessage suffices in any interleaving, with posts that nobody checks.
THEOREM AttributedCorrect == Spec => []Attributed
  BY InvariantHolds, PTL DEF ChatInv

\* Deliveries go to members of the channel, in its tenant, only.
THEOREM ConfinedCorrect == Spec => []Confined
  BY InvariantHolds, PTL DEF ChatInv

\* A connected member misses a room only for the two reasons of RoomsComplete.
THEOREM RoomsCompleteCorrect == Spec => []RoomsComplete
  <1>1. Init => RoomsComplete
    BY DEF Init, RoomsComplete
  <1>2. ChatInv /\ RoomsComplete /\ [Next]_vars => RoomsComplete'
    <2> SUFFICES ASSUME ChatInv, RoomsComplete, [Next]_vars,
                        NEW s \in open', conn'[s] = "done", NEW c \in Channels,
                        home'[c] = ident'[s].tenant, <<c, ident'[s].user>> \in members'
                 PROVE  c \in rooms'[s] \/ <<s, c>> \in missed'
      BY DEF RoomsComplete
    <2>s. s \in Sockets
      BY TypeStep DEF TypeOK
    <2> DEFINE Fine == c \in rooms'[s] \/ <<s, c>> \in missed'
    <2> USE <2>s DEF ChatInv, TypeOK
    <2>a. ASSUME s \in open, conn[s] = "done", ident'[s] = ident[s], rooms'[s] = rooms[s],
                 home[c] = home'[c], <<c, ident[s].user>> \in members,
                 <<s, c>> \in missed => <<s, c>> \in missed'
          PROVE  Fine
      BY <2>a DEF RoomsComplete
    <2>b. ASSUME NEW d \in Channels, NEW u \in Users, AddRow(d, u), home[c] = home'[c]
          PROVE  Fine
      <3>1. /\ members' = members \cup {<<d, u>>}
            /\ missed' = missed \cup {<<q, d>> : q \in {p \in open : ident[p].user = u}}
            /\ UNCHANGED <<ident, open, conn, rooms>>
        BY <2>b DEF AddRow
      <3>2. CASE c = d /\ ident[s].user = u
        BY <3>1, <3>2
      <3>3. CASE ~(c = d /\ ident[s].user = u)
        <4>1. <<c, ident[s].user>> \in members
          BY <3>1, <3>3
        <4>2. QED BY <4>1, <3>1, <2>a, <2>b
      <3>4. QED BY <3>2, <3>3
    <2>1. CASE CreateChannel
      <3>1. PICK d \in Channels, i \in Identity :
              /\ home[d] = None
              /\ home' = [home EXCEPT ![d] = i.tenant]
              /\ AddRow(d, i.user)
        BY <2>1 DEF CreateChannel
      <3>2. i.user \in Users
        BY DEF Identity
      <3>3. CASE c # d
        BY <3>1, <3>2, <3>3, <2>b
      <3>4. CASE c = d
        <4>1. /\ members' = members \cup {<<d, i.user>>}
              /\ missed' = missed \cup {<<q, d>> : q \in {p \in open : ident[p].user = i.user}}
              /\ UNCHANGED <<ident, open, conn, rooms>>
          BY <3>1 DEF AddRow
        <4>2. ident[s] \in Identity
          BY <4>1 DEF Identified
        <4>3. <<c, ident[s].user>> \notin members
          BY <3>1, <3>4, <4>2, ChatAssumption DEF RowsKept, Identity
        <4>4. ident[s].user = i.user
          BY <4>1, <4>3, <3>4
        <4>5. QED BY <4>1, <4>4, <3>4
      <3>5. QED BY <3>3, <3>4
    <2>2. CASE AddMember
      <3>1. PICK d \in Channels, u \in Users : AddRow(d, u) /\ UNCHANGED home
        BY <2>2 DEF AddMember
      <3>2. QED BY <3>1, <2>b
    <2>3. CASE RemoveMember
      BY <2>3, <2>a DEF RemoveMember
    <2>4. ASSUME NEW q \in Sockets, Connect(q) PROVE Fine
      <3>1. q # s
        BY <2>4 DEF Connect
      <3>2. /\ s \in open /\ conn[s] = conn'[s] /\ ident'[s] = ident[s]
            /\ UNCHANGED <<home, members, rooms, missed>>
        BY <2>4, <3>1 DEF Connect, memberVars
      <3>3. QED BY <3>2, <2>a
    <2>5. ASSUME NEW q \in Sockets, JoinChannels(q) PROVE Fine
      <3>1. UNCHANGED <<home, members, ident, open>>
        BY <2>5 DEF JoinChannels, memberVars
      <3>2. CASE q = s
        <4>1. c \in Memberships(ident[s])
          BY <3>1 DEF Memberships
        <4>2. QED BY <4>1, <3>1, <3>2, <2>5 DEF JoinChannels
      <3>3. CASE q # s
        <4>1. conn[s] = conn'[s] /\ rooms'[s] = rooms[s]
          BY <2>5, <3>3 DEF JoinChannels
        <4>2. <<s, c>> \in missed => <<s, c>> \in missed'
          BY <2>5, <3>3 DEF JoinChannels
        <4>3. QED BY <3>1, <4>1, <4>2, <2>a
      <3>4. QED BY <3>2, <3>3
    <2>6. ASSUME NEW q \in Sockets, Disconnect(q) PROVE Fine
      <3>1. q # s
        BY <2>6 DEF Disconnect
      <3>2. /\ s \in open /\ conn[s] = conn'[s] /\ rooms'[s] = rooms[s]
            /\ UNCHANGED <<home, members, ident>>
        BY <2>6, <3>1 DEF Disconnect, memberVars
      <3>3. <<s, c>> \in missed => <<s, c>> \in missed'
        BY <2>6, <3>1 DEF Disconnect
      <3>4. QED BY <3>2, <3>3, <2>a
    <2>7. ASSUME NEW q \in Sockets,
                 StartMessage(q) \/ Store(q) \/ Broadcast(q) \/ Fail(q)
          PROVE  Fine
      <3>1. UNCHANGED <<home, members, ident, open, conn, rooms, missed>>
        BY <2>7 DEF StartMessage, Store, Broadcast, Fail, memberVars
      <3>2. QED BY <3>1, <2>a
    <2>8. CASE PostMessage
      BY <2>8, <2>a, PostOnly DEF memberVars
    <2>9. CASE UNCHANGED vars
      BY <2>9, <2>a DEF vars
    <2>10. QED
      BY <2>1, <2>2, <2>3, <2>4, <2>5, <2>6, <2>7, <2>8, <2>9 DEF Next
  <1>3. QED
    BY <1>1, <1>2, InvariantHolds, PTL DEF Spec
=============================================================================
