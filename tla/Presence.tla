------------------------------ MODULE Presence ------------------------------
(***************************************************************************)
(* Who is online in a tenant: the handlers of RealtimeGateway              *)
(* (realtime.gateway.ts) over the Redis set that PresenceService           *)
(* (presence.service.ts) keeps.  The set's key, the room and the handlers  *)
(* are those of one tenant; tenants share nothing here.                    *)
(*                                                                         *)
(* The API holds one Redis connection, so a command takes effect in the    *)
(* order it is issued; its answer comes later, and other handlers run in   *)
(* between.  A step is a handler's run from one answer to the next         *)
(* command.  A command that fails has no effect.  Channel rooms are in     *)
(* Chat; sockets whose token is refused change nothing.                    *)
(***************************************************************************)
EXTENDS Integers, FiniteSets

CONSTANTS
  Users,
  Sockets,   \* connections that may exist together (bound)
  Ttl,       \* PRESENCE_TTL, in ticks
  MaxTime,   \* last tick of the clock (bound)
  None       \* no user

ASSUME PresenceAssumption ==
  /\ Ttl \in Nat \ {0}
  /\ MaxTime \in Nat
  /\ None \notin Users
  /\ IsFiniteSet(Sockets)

VARIABLES
  now,
  entries,    \* the members of the set: a user and its lastSeen
  deadline,   \* when the set's key expires, or Forever
  user,       \* socket -> the user of its token
  open,       \* sockets that are connected
  conn,       \* socket -> where its handleConnection is
  disc,       \* socket -> where its handleDisconnect is, and what it read
  beat,       \* socket -> where its heartbeat is, and what it read
  told,       \* user -> the last presence broadcast about it
  failed,     \* history: a Redis command failed or the server restarted
  disturbed,  \* history: users with overlapping handlers, or met by a failure
  shared,     \* history: users with two open sockets at once
  lapsed      \* history: users whose entry expired since they connected

setVars == <<entries, deadline>>
vars == <<now, entries, deadline, user, open, conn, disc, beat, told,
          failed, disturbed, shared, lapsed>>

----------------------------------------------------------------------------

Times == 0..MaxTime
Forever == MaxTime + Ttl + 1
Entry == [user: Users, at: Times]
Of(u) == {e \in entries : e.user = u}

NoDisc == [pc |-> "none", saw |-> {}]
NoBeat == [pc |-> "idle", saw |-> {}, fresh |-> {}]

Free(s) == /\ s \notin open
           /\ conn[s] \in {"out", "done"}
           /\ disc[s].pc \in {"none", "gone"}
           /\ beat[s].pc = "idle"

\* A handler runs for socket s.
Runs(s) == \/ conn[s] \in {"query", "sadd", "announce"}
           \/ disc[s].pc \in {"find", "tell"}
           \/ beat[s].pc # "idle"
Busy(u) == \E s \in Sockets : user[s] = u /\ Runs(s)

Init ==
  /\ now = 0
  /\ entries = {}
  /\ deadline = Forever
  /\ user = [s \in Sockets |-> None]
  /\ open = {}
  /\ conn = [s \in Sockets |-> "out"]
  /\ disc = [s \in Sockets |-> NoDisc]
  /\ beat = [s \in Sockets |-> NoBeat]
  /\ told = [u \in Users |-> "unknown"]
  /\ failed = FALSE
  /\ disturbed = {}
  /\ shared = {}
  /\ lapsed = {}

\* A handler for user u starts.
Begin(u) == disturbed' = IF Busy(u) THEN disturbed \cup {u} ELSE disturbed

\* A command issued for user u fails.
Fails(u) == failed' = TRUE /\ disturbed' = disturbed \cup {u}
Succeeds == UNCHANGED <<failed, disturbed>>

----------------------------------------------------------------------------
(* The commands.  A Redis set exists while it has a member. *)

Srem(e) ==
  /\ entries' = entries \ {e}
  /\ deadline' = IF entries' = {} THEN Forever ELSE deadline

Sadd(e) == entries' = entries \cup {e} /\ UNCHANGED deadline

\* Mutant of Renewed: the key is never given a lifetime.
NotRenewed == Forever

\* Mutant of Renewed: the lifetime is added to what is left.
Extended == deadline + Ttl

Renewed == now + Ttl

Expire ==
  /\ deadline' = IF entries = {} THEN Forever ELSE Renewed
  /\ UNCHANGED entries

----------------------------------------------------------------------------
(* Connecting *)

\* A socket with a valid token: its rooms are joined, and its channels asked.
Connect(s) ==
  /\ Free(s)
  /\ \E u \in Users :
       /\ user' = [user EXCEPT ![s] = u]
       /\ Begin(u)
       /\ shared' = IF \E q \in open : user[q] = u THEN shared \cup {u} ELSE shared
  /\ open' = open \cup {s}
  /\ conn' = [conn EXCEPT ![s] = "query"]
  /\ disc' = [disc EXCEPT ![s] = NoDisc]
  /\ UNCHANGED <<now, setVars, beat, told, failed, lapsed>>

\* The channels are known, or are not: the user is added to the set.
GoOnline(s) ==
  /\ conn[s] = "query"
  /\ \/ /\ Sadd([user |-> user[s], at |-> now])
        /\ conn' = [conn EXCEPT ![s] = "sadd"]
        /\ lapsed' = lapsed \ {user[s]}
        /\ Succeeds
     \/ /\ Fails(user[s])
        /\ conn' = [conn EXCEPT ![s] = "announce"]
        /\ UNCHANGED <<setVars, lapsed>>
  /\ UNCHANGED <<now, user, open, disc, beat, told, shared>>

\* The user is in the set: the key gets its lifetime.
SetTtl(s) ==
  /\ conn[s] = "sadd"
  /\ conn' = [conn EXCEPT ![s] = "announce"]
  /\ \/ Expire /\ Succeeds
     \/ Fails(user[s]) /\ UNCHANGED setVars
  /\ UNCHANGED <<now, user, open, disc, beat, told, shared, lapsed>>

AnnounceOnline(s) ==
  /\ conn[s] = "announce"
  /\ conn' = [conn EXCEPT ![s] = "done"]
  /\ told' = [told EXCEPT ![user[s]] = "online"]
  /\ UNCHANGED <<now, setVars, user, open, disc, beat, failed, disturbed,
                 shared, lapsed>>

----------------------------------------------------------------------------
(* Disconnecting.  The gateway hears of it as soon as handleConnection is at *)
(* its first await.                                                         *)

\* Mutant of Matches: an entry is looked up by its age.
MatchesNow(es) == {e \in es : e.at = now}

\* The entries that find may return.
Matches(es) == es

Disconnect(s) ==
  LET u == user[s] IN
  /\ s \in open
  /\ open' = open \ {s}
  /\ \/ /\ disc' = [disc EXCEPT ![s] = [pc |-> "find", saw |-> Of(u)]]
        /\ Begin(u)
        /\ UNCHANGED failed
     \/ /\ disc' = [disc EXCEPT ![s] = [pc |-> "tell", saw |-> {}]]
        /\ Fails(u)
  /\ UNCHANGED <<now, setVars, user, conn, beat, told, shared, lapsed>>

\* Broadcasts that the user is offline, which ends handleDisconnect.
TellOffline(s) ==
  /\ told' = [told EXCEPT ![user[s]] = "offline"]
  /\ disc' = [disc EXCEPT ![s] = [pc |-> "gone", saw |-> {}]]

\* The members are known: one of the user's is removed.
RemoveEntry(s) ==
  LET found == Matches(disc[s].saw) IN
  /\ disc[s].pc = "find"
  /\ \/ found = {} /\ TellOffline(s) /\ Succeeds /\ UNCHANGED setVars
     \/ /\ \E e \in found : \/ Srem(e) /\ Succeeds
                            \/ Fails(user[s]) /\ UNCHANGED setVars
        /\ disc' = [disc EXCEPT ![s] = [pc |-> "tell", saw |-> {}]]
        /\ UNCHANGED told
  /\ UNCHANGED <<now, user, open, conn, beat, shared, lapsed>>

AnnounceOffline(s) ==
  /\ disc[s].pc = "tell"
  /\ TellOffline(s)
  /\ UNCHANGED <<now, setVars, user, open, conn, beat, failed, disturbed,
                 shared, lapsed>>

----------------------------------------------------------------------------
(* Heartbeats.  An error in the loop moves it to the next member. *)

\* The members are read.  When that fails, nothing happens.
Heartbeat(s) ==
  /\ s \in open
  /\ beat[s].pc = "idle"
  /\ beat' = [beat EXCEPT ![s] = [NoBeat EXCEPT !.pc = "find", !.saw = Of(user[s])]]
  /\ Begin(user[s])
  /\ UNCHANGED <<now, setVars, user, open, conn, disc, told, failed, shared, lapsed>>

\* Mutant of TakeOut: the old entry stays.
LeaveIn(e) == UNCHANGED setVars

TakeOut(e) == Srem(e)

\* The user's entry, if there was one, is taken out to be put back renewed.
SwapOut(s) ==
  LET b == beat[s] IN
  /\ b.pc = "find"
  /\ \/ /\ b.saw = {}
        /\ beat' = [beat EXCEPT ![s] = NoBeat]
        /\ Succeeds
        /\ UNCHANGED setVars
     \/ \E e \in b.saw :
          \/ /\ TakeOut(e)
             /\ beat' = [beat EXCEPT ![s] = [pc |-> "swap", saw |-> b.saw \ {e},
                                             fresh |-> {[e EXCEPT !.at = now]}]]
             /\ Succeeds
          \/ /\ Fails(user[s])
             /\ beat' = [beat EXCEPT ![s].saw = @ \ {e}]
             /\ UNCHANGED setVars
  /\ UNCHANGED <<now, user, open, conn, disc, told, shared, lapsed>>

\* Where a heartbeat goes on after an error.
NextMember(s) ==
  /\ Fails(user[s])
  /\ beat' = [beat EXCEPT ![s].pc = "find", ![s].fresh = {}]
  /\ UNCHANGED setVars

SwapIn(s) ==
  /\ beat[s].pc = "swap"
  /\ \/ /\ \E e \in beat[s].fresh : Sadd(e)
        /\ beat' = [beat EXCEPT ![s].pc = "ttl", ![s].fresh = {}]
        /\ Succeeds
     \/ NextMember(s)
  /\ UNCHANGED <<now, user, open, conn, disc, told, shared, lapsed>>

RenewTtl(s) ==
  /\ beat[s].pc = "ttl"
  /\ \/ /\ Expire
        /\ beat' = [beat EXCEPT ![s] = NoBeat]
        /\ Succeeds
     \/ NextMember(s)
  /\ UNCHANGED <<now, user, open, conn, disc, told, shared, lapsed>>

----------------------------------------------------------------------------

\* Time passes; Redis drops a set whose lifetime is over.
Tick ==
  /\ now < MaxTime
  /\ now' = now + 1
  /\ IF deadline <= now + 1
     THEN /\ entries' = {}
          /\ deadline' = Forever
          /\ lapsed' = lapsed \cup {e.user : e \in entries}
     ELSE UNCHANGED <<setVars, lapsed>>
  /\ UNCHANGED <<user, open, conn, disc, beat, told, failed, disturbed, shared>>

\* The API stops: its sockets and handlers are gone, the set is not.
Crash ==
  /\ \E s \in Sockets : ~Free(s)
  /\ failed' = TRUE
  /\ disturbed' = disturbed \cup {user[s] : s \in {q \in Sockets : ~Free(q)}}
  /\ open' = {}
  /\ conn' = [s \in Sockets |-> "out"]
  /\ disc' = [s \in Sockets |-> NoDisc]
  /\ beat' = [s \in Sockets |-> NoBeat]
  /\ UNCHANGED <<now, setVars, user, told, shared, lapsed>>

Handler(s) ==
  \/ GoOnline(s) \/ SetTtl(s) \/ AnnounceOnline(s)
  \/ RemoveEntry(s) \/ AnnounceOffline(s)
  \/ SwapOut(s) \/ SwapIn(s) \/ RenewTtl(s)

Next ==
  \/ \E s \in Sockets : Connect(s) \/ Disconnect(s) \/ Heartbeat(s) \/ Handler(s)
  \/ Tick
  \/ Crash

Spec == Init /\ [][Next]_vars

----------------------------------------------------------------------------
(* Properties *)

\* The variables have their types.
TypeOK ==
  /\ now \in Times
  /\ entries \subseteq Entry
  /\ deadline \in 0..(MaxTime + Ttl) \cup {Forever}
  /\ user \in [Sockets -> Users \cup {None}]
  /\ open \subseteq {s \in Sockets : user[s] # None}
  /\ conn \in [Sockets -> {"out", "query", "sadd", "announce", "done"}]
  /\ disc \in [Sockets -> [pc: {"none", "find", "tell", "gone"}, saw: SUBSET Entry]]
  /\ beat \in [Sockets -> [pc: {"idle", "find", "swap", "ttl"},
                           saw: SUBSET Entry, fresh: SUBSET Entry]]
  /\ told \in [Users -> {"unknown", "online", "offline"}]
  /\ failed \in BOOLEAN
  /\ disturbed \subseteq Users
  /\ shared \subseteq Users
  /\ lapsed \subseteq Users

\* The sockets of user u that put an entry in the set and have not taken one out.
Listed(u) == {s \in Sockets : /\ user[s] = u
                              /\ conn[s] \in {"sadd", "announce", "done"}
                              /\ disc[s].pc \in {"none", "find"}}

\* A user whose handlers take turns has no more entries than sockets that
\* entered it: connecting, heartbeats and disconnecting leave no ghosts, and
\* getOnlineCount counts no socket twice.
SerialNoGhosts ==
  \A u \in Users \ disturbed : Cardinality(Of(u)) <= Cardinality(Listed(u))

\* Once the handlers of a user with one socket at a time are done, the last
\* broadcast about the user is the truth, a user who left is not in the set,
\* and one who is connected is, unless the key expired meanwhile.
SerialPresence ==
  \A u \in Users \ (disturbed \cup shared) :
    LET connected == \E s \in open : user[s] = u IN
    ~Busy(u) =>
      /\ (told[u] = "online") <=> connected
      /\ Of(u) # {} => connected
      /\ connected => Of(u) # {} \/ u \in lapsed

\* While no command fails, a key without a lifetime has a handler that is about
\* to give it one: stale presence cannot stay for ever (userOnline, heartbeat).
KeyWillExpire ==
  entries # {} /\ deadline = Forever /\ ~failed =>
    \E s \in Sockets : conn[s] = "sadd" \/ beat[s].pc = "ttl"

\* "On disconnect: server marks the user offline and broadcasts
\* presence:offline": when the handlers of a user have taken turns and are done,
\* a user broadcast as offline is not in the set.
OfflineMeansUnlisted ==
  \A u \in Users \ disturbed :
    ~Busy(u) /\ told[u] = "offline" => Of(u) = {}
=============================================================================
