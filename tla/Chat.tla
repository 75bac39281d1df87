-------------------------------- MODULE Chat --------------------------------
(***************************************************************************)
(* Chat over the sockets of the realtime namespace: the rooms that         *)
(* RealtimeGateway.handleConnection joins, and ChatGateway.onChatMessage   *)
(* (chat.gateway.ts), which checks the membership, stores the message      *)
(* (chat.service.ts) and broadcasts it, with other handlers in between.    *)
(* The REST route (chat.controller.ts) stores through the same service, in *)
(* any channel, and neither checks nor broadcasts.                         *)
(*                                                                         *)
(* A message is its channel, sender and tenant: contents and replies are   *)
(* left out, and so are messages refused for their form.  The code makes   *)
(* one member, the creator of a channel; other rows of chat_channel_member *)
(* come and go by other hands.                                             *)
(***************************************************************************)


CONSTANTS
  Users,
  Tenants,
  Sockets,    \* connections that may exist together (bound)
  Channels,   \* channels that may be created (bound)
  None        \* no tenant, user or channel

ASSUME ChatAssumption == None \notin Users \cup Tenants \cup Channels

VARIABLES
  home,     \* channel -> tenantId
  members,  \* rows of chat_channel_member, as <<channel, user>>
  ident,    \* socket -> user and tenant of its token
  open,     \* sockets that are connected
  conn,     \* socket -> where its handleConnection is
  rooms,    \* socket -> channels whose room it is in
  send,     \* socket -> the message it is sending (one at a time, a bound)
  log,      \* stored messages
  posted,   \* history: messages that the REST route stored
  cast,     \* history: messages broadcast
  heard,    \* history: who a channel's message was delivered to
  were,     \* history: all rows that members ever had
  missed    \* history: <<socket, channel>> that the socket could not join:
            \*   its query failed, or the row came later

memberVars == <<home, members, were>>
vars == <<home, members, ident, open, conn, rooms, send, log, posted,
          cast, heard, were, missed>>

----------------------------------------------------------------------------

Identity == [user: Users, tenant: Tenants]
Nobody == [user |-> None, tenant |-> None]
Message == [channel: Channels, user: Users, tenant: Tenants]
NoSend == [pc |-> "idle", channel |-> None, member |-> FALSE]

\* Mutant of MessageOf: sender and tenant change places.
SwappedMessageOf(s) == [channel |-> send[s].channel, user |-> ident[s].tenant,
                        tenant |-> ident[s].user]

\* What sendMessage stores for socket s.
MessageOf(s) == [channel |-> send[s].channel, user |-> ident[s].user,
                 tenant |-> ident[s].tenant]

Init ==
  /\ home = [c \in Channels |-> None]
  /\ members = {}
  /\ ident = [s \in Sockets |-> Nobody]
  /\ open = {}
  /\ conn = [s \in Sockets |-> "out"]
  /\ rooms = [s \in Sockets |-> {}]
  /\ send = [s \in Sockets |-> NoSend]
  /\ log = {}
  /\ posted = {}
  /\ cast = {}
  /\ heard = {}
  /\ were = {}
  /\ missed = {}

----------------------------------------------------------------------------
(* Channels and their members *)

AddRow(c, u) ==
  /\ members' = members \cup {<<c, u>>}
  /\ were' = were \cup {<<c, u>>}
  /\ missed' = missed \cup {<<s, c>> : s \in {q \in open : ident[q].user = u}}
  /\ UNCHANGED <<ident, open, conn, rooms, send, log, posted, cast, heard>>

\* The creator becomes the channel's member.  No socket joins the new room.
CreateChannel ==
  \E c \in Channels : \E i \in Identity :
    /\ home[c] = None
    /\ home' = [home EXCEPT ![c] = i.tenant]
    /\ AddRow(c, i.user)

\* Rows that no code of the API writes.
AddMember ==
  \E c \in Channels : \E u \in Users :
    /\ home[c] # None
    /\ <<c, u>> \notin members
    /\ AddRow(c, u)
    /\ UNCHANGED home

RemoveMember ==
  /\ \E m \in members : members' = members \ {m}
  /\ UNCHANGED <<home, ident, open, conn, rooms, send, log, posted, cast, heard, were, missed>>

----------------------------------------------------------------------------
(* Connections *)

Connect(s) ==
  /\ s \notin open /\ conn[s] = "out" /\ send[s].pc = "idle"
  /\ \E i \in Identity : ident' = [ident EXCEPT ![s] = i]
  /\ open' = open \cup {s}
  /\ conn' = [conn EXCEPT ![s] = "query"]
  /\ UNCHANGED <<memberVars, rooms, send, log, posted, cast, heard, missed>>

\* Mutant of Memberships: channels of all the user's tenants.
MembershipsAnywhere(i) == {c \in Channels : <<c, i.user>> \in members}

\* Mutant of Memberships: the user's only channel, or none.
OnlyMembership(i) ==
  {c \in Channels : home[c] = i.tenant /\ {m \in members : m[2] = i.user} = {<<c, i.user>>}}

\* The channels that handleConnection finds.
Memberships(i) == {c \in Channels : home[c] = i.tenant /\ <<c, i.user>> \in members}

\* The query is answered, or fails: the socket joins what it was told.
\* A socket that has closed meanwhile is in no room that matters.
JoinChannels(s) ==
  /\ conn[s] = "query"
  /\ conn' = [conn EXCEPT ![s] = IF s \in open THEN "done" ELSE "out"]
  /\ \/ /\ rooms' = [rooms EXCEPT ![s] = IF s \in open THEN Memberships(ident[s]) ELSE {}]
        /\ missed' = {m \in missed : m[1] # s}
     \/ /\ missed' = IF s \in open THEN missed \cup {<<s, c>> : c \in Channels} ELSE missed
        /\ UNCHANGED rooms
  /\ UNCHANGED <<memberVars, ident, open, send, log, posted, cast, heard>>

Disconnect(s) ==
  /\ s \in open
  /\ open' = open \ {s}
  /\ conn' = [conn EXCEPT ![s] = IF @ = "done" THEN "out" ELSE @]
  /\ rooms' = [rooms EXCEPT ![s] = {}]
  /\ missed' = {m \in missed : m[1] # s}
  /\ UNCHANGED <<memberVars, ident, send, log, posted, cast, heard>>

----------------------------------------------------------------------------
(* Sending *)

\* Mutant of MayPost: the tenant of the membership is not compared.
AnyTenantMayPost(i, c) == <<c, i.user>> \in members

\* A member of the channel, in the tenant of the socket.
MayPost(i, c) == <<c, i.user>> \in members /\ home[c] = i.tenant

\* A message arrives and the membership is read.
StartMessage(s) ==
  /\ s \in open
  /\ send[s].pc = "idle"
  /\ \E c \in Channels :
       send' = [send EXCEPT ![s] = [pc |-> "check", channel |-> c,
                                    member |-> MayPost(ident[s], c)]]
  /\ UNCHANGED <<memberVars, ident, open, conn, rooms, log, posted, cast, heard, missed>>

\* The membership decides: the message is stored, or refused.
Store(s) ==
  /\ send[s].pc = "check"
  /\ \/ /\ send[s].member
        /\ log' = log \cup {MessageOf(s)}
        /\ send' = [send EXCEPT ![s].pc = "stored"]
     \/ /\ ~send[s].member
        /\ send' = [send EXCEPT ![s] = NoSend]
        /\ UNCHANGED log
  /\ UNCHANGED <<memberVars, ident, open, conn, rooms, posted, cast, heard, missed>>

\* Mutant of Reached: whoever is connected to the tenant.
TenantReached(m) == {s \in open : ident[s].tenant = m.tenant}

\* The sockets a broadcast to the channel's room reaches.
Reached(m) == {s \in Sockets : m.channel \in rooms[s]}

Broadcast(s) ==
  LET m == MessageOf(s) IN
  /\ send[s].pc = "stored"
  /\ cast' = cast \cup {m}
  /\ heard' = heard \cup {[channel |-> m.channel, user |-> ident[q].user,
                           tenant |-> ident[q].tenant] : q \in Reached(m)}
  /\ send' = [send EXCEPT ![s] = NoSend]
  /\ UNCHANGED <<memberVars, ident, open, conn, rooms, log, posted, missed>>

\* The database refuses a call.
Fail(s) ==
  /\ send[s].pc # "idle"
  /\ send' = [send EXCEPT ![s] = NoSend]
  /\ UNCHANGED <<memberVars, ident, open, conn, rooms, log, posted, cast, heard, missed>>

----------------------------------------------------------------------------
(* The REST route *)

\* ChatController.sendMessage stores at once, for any caller with a token and
\* any channel that exists (a foreign key), of whatever tenant.
PostMessage ==
  \E c \in Channels : \E i \in Identity :
    LET m == [channel |-> c, user |-> i.user, tenant |-> i.tenant] IN
    /\ home[c] # None
    /\ log' = log \cup {m}
    /\ posted' = posted \cup {m}
    /\ UNCHANGED <<memberVars, ident, open, conn, rooms, send, cast, heard, missed>>

Next ==
  \/ CreateChannel
  \/ AddMember
  \/ RemoveMember
  \/ PostMessage
  \/ \E s \in Sockets :
       \/ Connect(s) \/ JoinChannels(s) \/ Disconnect(s)
       \/ StartMessage(s) \/ Store(s) \/ Broadcast(s) \/ Fail(s)

Spec == Init /\ [][Next]_vars

----------------------------------------------------------------------------
(* Properties *)

\* The variables have their types.
TypeOK ==
  /\ home \in [Channels -> Tenants \cup {None}]
  /\ members \subseteq Channels \X Users
  /\ ident \in [Sockets -> Identity \cup {Nobody}]
  /\ open \subseteq Sockets
  /\ conn \in [Sockets -> {"out", "query", "done"}]
  /\ rooms \in [Sockets -> SUBSET Channels]
  /\ send \in [Sockets -> [pc: {"idle", "check", "stored"},
                           channel: Channels \cup {None}, member: BOOLEAN]]
  /\ log \subseteq Message
  /\ posted \subseteq log
  /\ cast \subseteq log
  /\ heard \subseteq Message
  /\ were \subseteq Channels \X Users
  /\ missed \subseteq Sockets \X Channels

\* c is a channel of tenant t, and u is or was a member of it.
Belongs(c, u, t) == home[c] = t /\ <<c, u>> \in were

\* However memberships, connections, messages and posts interleave, what is
\* broadcast, and all that is stored but by the REST route, belongs to the
\* tenant of its channel and comes from a user who was a member (onChatMessage
\* checks before it stores; the row may go in between).
Attributed ==
  \A m \in (log \ posted) \cup cast : Belongs(m.channel, m.user, m.tenant)

\* A message is delivered only to users who were members of its channel, on
\* sockets of the channel's tenant (the rooms joined by handleConnection).
Confined == \A h \in heard : Belongs(h.channel, h.user, h.tenant)

\* A connected member is in the rooms of the channels it had when it connected:
\* only a failed query, or a row written later, makes it miss messages.
RoomsComplete ==
  \A s \in open : conn[s] = "done" =>
    \A c \in Channels :
      home[c] = ident[s].tenant /\ <<c, ident[s].user>> \in members =>
        c \in rooms[s] \/ <<s, c>> \in missed
=============================================================================
