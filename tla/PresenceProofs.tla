--------------------------- MODULE PresenceProofs ---------------------------
(***************************************************************************)
(* What holds of Presence for any users, sockets and lifetimes.            *)
(***************************************************************************)
EXTENDS Presence, FiniteSetTheorems, TLAPS

ClockOK == now \in Times
SetOK == entries \subseteq Entry /\ deadline \in 0..(MaxTime + Ttl) \cup {Forever}
SocketsOK ==
  /\ user \in [Sockets -> Users \cup {None}]
  /\ open \subseteq {s \in Sockets : user[s] # None}
ConnOK == conn \in [Sockets -> {"out", "query", "sadd", "announce", "done"}]
DiscOK == disc \in [Sockets -> [pc: {"none", "find", "tell", "gone"}, saw: SUBSET Entry]]
BeatOK == beat \in [Sockets -> [pc: {"idle", "find", "swap", "ttl"},
                               saw: SUBSET Entry, fresh: SUBSET Entry]]
ToldOK == told \in [Users -> {"unknown", "online", "offline"}]
HistoryOK == failed \in BOOLEAN /\ disturbed \subseteq Users
             /\ shared \subseteq Users /\ lapsed \subseteq Users

LEMMA Parts == TypeOK <=> /\ ClockOK /\ SetOK /\ SocketsOK /\ ConnOK
                          /\ DiscOK /\ BeatOK /\ ToldOK /\ HistoryOK
  BY DEF TypeOK, ClockOK, SetOK, SocketsOK, ConnOK, DiscOK, BeatOK, ToldOK, HistoryOK

\* A handler that runs, or a socket that is open, has a user.
Owned == \A s \in Sockets : s \in open \/ Runs(s) => user[s] \in Users

\* The commands keep the set's type.
LEMMA Commands ==
  ASSUME TypeOK
  PROVE  /\ \A e : Srem(e) => SetOK'
         /\ \A e \in Entry : Sadd(e) => SetOK'
         /\ Expire => SetOK'
         /\ UNCHANGED setVars => SetOK'
  <1>0. /\ entries \subseteq Entry /\ deadline \in 0..(MaxTime + Ttl) \cup {Forever}
        /\ now \in 0..MaxTime
    BY DEF TypeOK, Times
  <1>1. ASSUME NEW e, Srem(e) PROVE SetOK'
    BY <1>0, <1>1 DEF SetOK, Srem
  <1>2. ASSUME NEW e \in Entry, Sadd(e) PROVE SetOK'
    <2>1. entries' = entries \cup {e} /\ deadline' = deadline
      BY <1>2 DEF Sadd
    <2>2. QED BY <1>0, <2>1 DEF SetOK
  <1>3. ASSUME Expire PROVE SetOK'
    <2>1. now + Ttl \in 0..(MaxTime + Ttl)
      BY <1>0, PresenceAssumption
    <2>2. entries' = entries /\ deadline' \in {Forever, now + Ttl}
      BY <1>3 DEF Expire, Renewed
    <2>3. QED BY <1>0, <2>1, <2>2 DEF SetOK
  <1>4. ASSUME UNCHANGED setVars PROVE SetOK'
    BY <1>0, <1>4 DEF SetOK, setVars
  <1>5. QED BY <1>1, <1>2, <1>3, <1>4

LEMMA Marks ==
  ASSUME TypeOK, NEW u \in Users
  PROVE  /\ Begin(u) => disturbed' \subseteq Users
         /\ Fails(u) => disturbed' \subseteq Users /\ failed' \in BOOLEAN
         /\ Succeeds => disturbed' \subseteq Users /\ failed' \in BOOLEAN
  BY DEF TypeOK, Begin, Fails, Succeeds

LEMMA InitOK == Init => TypeOK /\ Owned /\ KeyWillExpire
  <1> SUFFICES ASSUME Init PROVE TypeOK /\ Owned /\ KeyWillExpire
    OBVIOUS
  <1>1. ClockOK /\ SetOK /\ SocketsOK /\ ConnOK
    BY PresenceAssumption DEF Init, ClockOK, SetOK, SocketsOK, ConnOK, Times
  <1>2. DiscOK /\ BeatOK /\ ToldOK /\ HistoryOK
    BY DEF Init, DiscOK, BeatOK, ToldOK, HistoryOK, NoDisc, NoBeat
  <1>3. Owned /\ KeyWillExpire
    BY DEF Init, Owned, Runs, NoDisc, NoBeat, KeyWillExpire
  <1>4. QED BY <1>1, <1>2, <1>3, Parts

LEMMA TypeStep == TypeOK /\ Owned /\ [Next]_vars => TypeOK'
  <1> SUFFICES ASSUME TypeOK, Owned, [Next]_vars PROVE TypeOK'
    OBVIOUS
  <1> DEFINE Goal == ClockOK' /\ SetOK' /\ SocketsOK' /\ ConnOK'
                     /\ DiscOK' /\ BeatOK' /\ ToldOK' /\ HistoryOK'
  <1>0. /\ ClockOK /\ SetOK /\ SocketsOK /\ ConnOK
        /\ DiscOK /\ BeatOK /\ ToldOK /\ HistoryOK
    BY Parts
  <1>a. UNCHANGED setVars => SetOK'
    BY Commands
  <1>b. /\ UNCHANGED now => ClockOK'
        /\ UNCHANGED <<user, open>> => SocketsOK'
        /\ UNCHANGED conn => ConnOK'
        /\ UNCHANGED disc => DiscOK'
        /\ UNCHANGED beat => BeatOK'
        /\ UNCHANGED told => ToldOK'
    BY <1>0 DEF ClockOK, SocketsOK, ConnOK, DiscOK, BeatOK, ToldOK
  <1>c. \A s \in Sockets : Of(user[s]) \subseteq Entry
    BY <1>0 DEF SetOK, Of
  <1>1. ASSUME NEW s \in Sockets, Connect(s) PROVE Goal
    <2>1. PICK u \in Users :
            /\ user' = [user EXCEPT ![s] = u]
            /\ Begin(u)
            /\ shared' = IF \E q \in open : user[q] = u THEN shared \cup {u} ELSE shared
      BY <1>1 DEF Connect
    <2>2. SocketsOK'
      BY <1>1, <2>1, <1>0, PresenceAssumption DEF Connect, SocketsOK
    <2>3. ConnOK' /\ DiscOK'
      BY <1>1, <1>0 DEF Connect, ConnOK, DiscOK, NoDisc
    <2>4. HistoryOK'
      BY <1>1, <2>1, <1>0, Marks DEF Connect, HistoryOK
    <2>5. QED BY <1>1, <2>2, <2>3, <2>4, <1>a, <1>b DEF Connect
  <1>2. ASSUME NEW s \in Sockets, GoOnline(s) PROVE Goal
    <2>1. user[s] \in Users
      BY <1>2 DEF Owned, GoOnline, Runs
    <2>2. [user |-> user[s], at |-> now] \in Entry
      BY <2>1, <1>0 DEF Entry, ClockOK
    <2>3. SetOK'
      BY <1>2, <2>2, Commands DEF GoOnline, setVars
    <2>4. ConnOK'
      BY <1>2, <1>0 DEF GoOnline, ConnOK
    <2>5. HistoryOK'
      BY <1>2, <2>1, <1>0, Marks DEF GoOnline, HistoryOK
    <2>6. QED BY <1>2, <2>3, <2>4, <2>5, <1>b DEF GoOnline
  <1>3. ASSUME NEW s \in Sockets, SetTtl(s) PROVE Goal
    <2>1. user[s] \in Users
      BY <1>3 DEF Owned, SetTtl, Runs
    <2>2. SetOK' /\ ConnOK'
      BY <1>3, <1>0, Commands DEF SetTtl, ConnOK
    <2>3. HistoryOK'
      BY <1>3, <2>1, <1>0, Marks DEF SetTtl, HistoryOK
    <2>4. QED BY <1>3, <2>2, <2>3, <1>b DEF SetTtl
  <1>4. ASSUME NEW s \in Sockets, AnnounceOnline(s) PROVE Goal
    BY <1>4, <1>0, <1>a, <1>b DEF AnnounceOnline, ConnOK, ToldOK, HistoryOK
  <1>5. ASSUME NEW s \in Sockets, Disconnect(s) PROVE Goal
    <2>1. user[s] \in Users
      BY <1>5 DEF Owned, Disconnect
    <2>2. DiscOK'
      BY <1>5, <1>0, <1>c DEF Disconnect, DiscOK
    <2>3. SocketsOK'
      BY <1>5, <1>0 DEF Disconnect, SocketsOK
    <2>4. HistoryOK'
      BY <1>5, <2>1, <1>0, Marks DEF Disconnect, HistoryOK
    <2>5. QED BY <1>5, <2>2, <2>3, <2>4, <1>a, <1>b DEF Disconnect
  <1>6. ASSUME NEW s \in Sockets, RemoveEntry(s) PROVE Goal
    <2>1. user[s] \in Users
      BY <1>6 DEF Owned, RemoveEntry, Runs
    <2>2. SetOK'
      BY <1>6, Commands DEF RemoveEntry
    <2>3. DiscOK' /\ ToldOK'
      BY <1>6, <1>0 DEF RemoveEntry, TellOffline, DiscOK, ToldOK
    <2>4. HistoryOK'
      BY <1>6, <2>1, <1>0, Marks DEF RemoveEntry, HistoryOK
    <2>5. QED BY <1>6, <2>2, <2>3, <2>4, <1>b DEF RemoveEntry
  <1>7. ASSUME NEW s \in Sockets, AnnounceOffline(s) PROVE Goal
    BY <1>7, <1>0, <1>a, <1>b DEF AnnounceOffline, TellOffline, DiscOK, ToldOK, HistoryOK
  <1>8. ASSUME NEW s \in Sockets, Heartbeat(s) PROVE Goal
    <2>1. user[s] \in Users
      BY <1>8 DEF Owned, Heartbeat
    <2>2. BeatOK'
      BY <1>8, <1>0, <1>c DEF Heartbeat, BeatOK, NoBeat
    <2>3. HistoryOK'
      BY <1>8, <2>1, <1>0, Marks DEF Heartbeat, HistoryOK
    <2>4. QED BY <1>8, <2>2, <2>3, <1>a, <1>b DEF Heartbeat
  <1>9. ASSUME NEW s \in Sockets, SwapOut(s) PROVE Goal
    <2>1. user[s] \in Users
      BY <1>9 DEF Owned, SwapOut, Runs
    <2>2. SetOK'
      BY <1>9, Commands DEF SwapOut, TakeOut
    <2>3. \A e \in beat[s].saw : [e EXCEPT !.at = now] \in Entry
      BY <1>0 DEF BeatOK, Entry, ClockOK
    <2>4. BeatOK'
      <3>1. CASE beat' = [beat EXCEPT ![s] = NoBeat]
        BY <3>1, <1>0 DEF BeatOK, NoBeat
      <3>2. ASSUME NEW e \in beat[s].saw,
                   beat' = [beat EXCEPT ![s] = [pc |-> "swap", saw |-> beat[s].saw \ {e},
                                                fresh |-> {[e EXCEPT !.at = now]}]]
            PROVE  BeatOK'
        BY <3>2, <2>3, <1>0 DEF BeatOK
      <3>3. ASSUME NEW e \in beat[s].saw, beat' = [beat EXCEPT ![s].saw = @ \ {e}]
            PROVE  BeatOK'
        BY <3>3, <1>0 DEF BeatOK
      <3>4. QED BY <1>9, <3>1, <3>2, <3>3 DEF SwapOut
    <2>5. HistoryOK'
      BY <1>9, <2>1, <1>0, Marks DEF SwapOut, HistoryOK
    <2>6. QED BY <1>9, <2>2, <2>4, <2>5, <1>b DEF SwapOut
  <1>10. ASSUME NEW s \in Sockets, SwapIn(s) PROVE Goal
    <2>1. user[s] \in Users
      BY <1>10 DEF Owned, SwapIn, Runs
    <2>2. \A e \in beat[s].fresh : e \in Entry
      BY <1>0 DEF BeatOK
    <2>3. SetOK'
      BY <1>10, <2>2, Commands DEF SwapIn, NextMember
    <2>4. BeatOK'
      BY <1>10, <1>0 DEF SwapIn, NextMember, BeatOK
    <2>5. HistoryOK'
      BY <1>10, <2>1, <1>0, Marks DEF SwapIn, NextMember, HistoryOK
    <2>6. QED BY <1>10, <2>3, <2>4, <2>5, <1>b DEF SwapIn
  <1>11. ASSUME NEW s \in Sockets, RenewTtl(s) PROVE Goal
    <2>1. user[s] \in Users
      BY <1>11 DEF Owned, RenewTtl, Runs
    <2>2. SetOK' /\ BeatOK'
      BY <1>11, <1>0, Commands DEF RenewTtl, NextMember, BeatOK, NoBeat
    <2>3. HistoryOK'
      BY <1>11, <2>1, <1>0, Marks DEF RenewTtl, NextMember, HistoryOK
    <2>4. QED BY <1>11, <2>2, <2>3, <1>b DEF RenewTtl
  <1>12. ASSUME Tick PROVE Goal
    <2>1. ClockOK'
      BY <1>12, <1>0, PresenceAssumption DEF Tick, ClockOK, Times
    <2>2. SetOK'
      BY <1>12, <1>a, <1>0 DEF Tick, SetOK
    <2>3. lapsed' \subseteq Users
      BY <1>12, <1>0 DEF Tick, HistoryOK, SetOK, Entry
    <2>4. QED BY <1>12, <2>1, <2>2, <2>3, <1>0, <1>b DEF Tick, HistoryOK
  <1>13. ASSUME Crash PROVE Goal
    <2>1. ConnOK' /\ DiscOK' /\ BeatOK'
      BY <1>13 DEF Crash, ConnOK, DiscOK, BeatOK, NoDisc, NoBeat
    <2>2. SocketsOK'
      BY <1>13, <1>0 DEF Crash, SocketsOK
    <2>3. \A s \in Sockets : ~Free(s) => user[s] \in Users
      BY <1>0 DEF Owned, Free, Runs, ConnOK, DiscOK, BeatOK
    <2>4. HistoryOK'
      BY <1>13, <2>3, <1>0 DEF Crash, HistoryOK
    <2>5. QED BY <1>13, <2>1, <2>2, <2>4, <1>a, <1>b DEF Crash
  <1>14. ASSUME UNCHANGED vars PROVE Goal
    <2>1. UNCHANGED <<now, setVars, user, open, conn, disc, beat, told>>
      BY <1>14 DEF vars, setVars
    <2>2. UNCHANGED <<failed, disturbed, shared, lapsed>>
      BY <1>14 DEF vars
    <2>3. HistoryOK'
      BY <2>2, <1>0 DEF HistoryOK
    <2>4. QED BY <2>1, <2>3, <1>a, <1>b
  <1> HIDE DEF Goal
  <1>15. Goal
    BY <1>1, <1>2, <1>3, <1>4, <1>5, <1>6, <1>7, <1>8, <1>9, <1>10, <1>11,
       <1>12, <1>13, <1>14 DEF Next, Handler
  <1>16. TypeOK' <=> Goal
    BY DEF Goal, TypeOK, ClockOK, SetOK, SocketsOK, ConnOK, DiscOK, BeatOK, ToldOK, HistoryOK, Times, Entry, Forever
  <1>17. QED BY <1>15, <1>16

LEMMA OwnedStep == TypeOK /\ Owned /\ [Next]_vars => Owned'
  <1> SUFFICES ASSUME TypeOK, Owned, [Next]_vars PROVE Owned'
    OBVIOUS
  <1>0. /\ user \in [Sockets -> Users \cup {None}]
        /\ ConnOK /\ DiscOK /\ BeatOK
    BY Parts DEF SocketsOK
  <1> USE DEF Owned, Runs, ConnOK, DiscOK, BeatOK
  <1>1. ASSUME NEW s \in Sockets, Connect(s) PROVE Owned'
    <2>1. PICK u \in Users : user' = [user EXCEPT ![s] = u]
      BY <1>1 DEF Connect
    <2>2. \A q \in Sockets : q # s => /\ user'[q] = user[q] /\ conn'[q] = conn[q]
                                     /\ disc'[q] = disc[q] /\ beat'[q] = beat[q]
                                     /\ (q \in open') = (q \in open)
      BY <1>1, <2>1, <1>0 DEF Connect
    <2>3. QED BY <2>1, <2>2, <1>0
  <1>2. ASSUME NEW s \in Sockets, GoOnline(s) \/ SetTtl(s) \/ AnnounceOnline(s) PROVE Owned'
    <2>1. Runs(s) /\ UNCHANGED <<user, open, disc, beat>>
      BY <1>2 DEF GoOnline, SetTtl, AnnounceOnline
    <2>2. \A q \in Sockets : q # s => conn'[q] = conn[q]
      BY <1>2, <1>0 DEF GoOnline, SetTtl, AnnounceOnline
    <2>3. QED BY <2>1, <2>2
  <1>3. ASSUME NEW s \in Sockets, Disconnect(s) \/ RemoveEntry(s) \/ AnnounceOffline(s)
        PROVE  Owned'
    <2>1. (s \in open \/ Runs(s)) /\ UNCHANGED <<user, conn, beat>> /\ open' \subseteq open
      BY <1>3 DEF Disconnect, RemoveEntry, AnnounceOffline
    <2>2. \A q \in Sockets : q # s => disc'[q] = disc[q]
      BY <1>3, <1>0 DEF Disconnect, RemoveEntry, AnnounceOffline, TellOffline
    <2>3. QED BY <2>1, <2>2
  <1>4. ASSUME NEW s \in Sockets, Heartbeat(s) \/ SwapOut(s) \/ SwapIn(s) \/ RenewTtl(s)
        PROVE  Owned'
    <2>1. (s \in open \/ Runs(s)) /\ UNCHANGED <<user, open, conn, disc>>
      BY <1>4 DEF Heartbeat, SwapOut, SwapIn, RenewTtl
    <2>2. \A q \in Sockets : q # s => beat'[q] = beat[q]
      BY <1>4, <1>0 DEF Heartbeat, SwapOut, SwapIn, RenewTtl, NextMember
    <2>3. QED BY <2>1, <2>2
  <1>5. CASE Tick
    BY <1>5 DEF Tick
  <1>6. CASE Crash
    BY <1>6 DEF Crash, NoDisc, NoBeat
  <1>7. CASE UNCHANGED vars
    BY <1>7 DEF vars
  <1>8. QED
    BY <1>1, <1>2, <1>3, <1>4, <1>5, <1>6, <1>7 DEF Next, Handler

\* A key that has no lifetime has a handler that will give it one.
Pending == \E s \in Sockets : conn[s] = "sadd" \/ beat[s].pc = "ttl"

LEMMA KeyStep == TypeOK /\ KeyWillExpire /\ [Next]_vars => KeyWillExpire'
  <1> SUFFICES ASSUME TypeOK, KeyWillExpire, [Next]_vars PROVE KeyWillExpire'
    OBVIOUS
  <1>0. ConnOK /\ BeatOK /\ now \in 0..MaxTime
    BY Parts DEF ClockOK, Times
  <1>a. KeyWillExpire' <=> (entries' # {} /\ deadline' = Forever /\ ~failed' => Pending')
    BY DEF KeyWillExpire, Pending
  <1>b. entries # {} /\ deadline = Forever /\ ~failed => Pending
    BY DEF KeyWillExpire, Pending
  <1>c. ASSUME Pending => Pending', failed => failed',
               UNCHANGED setVars \/ \E e : Srem(e)
        PROVE  KeyWillExpire'
    BY <1>a, <1>b, <1>c DEF Srem, setVars
  <1>d. Expire => entries' = {} \/ deadline' # Forever
    BY <1>0, PresenceAssumption DEF Expire, Renewed, Forever
  <1> USE DEF Pending
  <1>1. ASSUME NEW s \in Sockets, Connect(s) PROVE KeyWillExpire'
    <2>1. conn[s] # "sadd"
      BY <1>1 DEF Connect, Free
    <2>2. Pending => Pending'
      BY <1>1, <2>1, <1>0 DEF Connect, ConnOK
    <2>3. QED BY <1>1, <2>2, <1>c DEF Connect
  <1>2. ASSUME NEW s \in Sockets, GoOnline(s) PROVE KeyWillExpire'
    <2>1. CASE Fails(user[s])
      BY <2>1, <1>a DEF Fails
    <2>2. CASE conn' = [conn EXCEPT ![s] = "sadd"]
      <3>1. conn'[s] = "sadd"
        BY <2>2, <1>0 DEF ConnOK
      <3>2. QED BY <3>1, <1>a
    <2>3. QED BY <1>2, <2>1, <2>2 DEF GoOnline
  <1>3. ASSUME NEW s \in Sockets, SetTtl(s) PROVE KeyWillExpire'
    BY <1>3, <1>a, <1>d DEF SetTtl, Fails
  <1>4. ASSUME NEW s \in Sockets, AnnounceOnline(s) PROVE KeyWillExpire'
    <2>1. Pending => Pending'
      BY <1>4, <1>0 DEF AnnounceOnline, ConnOK
    <2>2. QED BY <1>4, <2>1, <1>c DEF AnnounceOnline
  <1>5. ASSUME NEW s \in Sockets, Disconnect(s) \/ AnnounceOffline(s) PROVE KeyWillExpire'
    <2>1. /\ UNCHANGED <<conn, beat>> /\ UNCHANGED setVars
          /\ failed => failed'
      BY <1>5 DEF Disconnect, AnnounceOffline, Fails
    <2>2. QED BY <2>1, <1>c
  <1>6. ASSUME NEW s \in Sockets, RemoveEntry(s) PROVE KeyWillExpire'
    <2>1. UNCHANGED <<conn, beat>> /\ (failed => failed')
      BY <1>6 DEF RemoveEntry, Fails, Succeeds
    <2>2. UNCHANGED setVars \/ \E e : Srem(e)
      BY <1>6 DEF RemoveEntry
    <2>3. QED BY <2>1, <2>2, <1>c
  <1>7. ASSUME NEW s \in Sockets, Heartbeat(s) PROVE KeyWillExpire'
    <2>1. Pending => Pending'
      BY <1>7, <1>0 DEF Heartbeat, BeatOK
    <2>2. QED BY <1>7, <2>1, <1>c DEF Heartbeat
  <1>8. ASSUME NEW s \in Sockets, SwapOut(s) PROVE KeyWillExpire'
    <2>1. beat[s].pc # "ttl" /\ conn' = conn
          /\ \A q \in Sockets : q # s => beat'[q] = beat[q]
      BY <1>8, <1>0 DEF SwapOut, BeatOK
    <2>2. UNCHANGED setVars \/ \E e : Srem(e)
      BY <1>8 DEF SwapOut, TakeOut
    <2>3. failed => failed'
      BY <1>8 DEF SwapOut, Fails, Succeeds
    <2>4. QED BY <2>1, <2>2, <2>3, <1>c
  <1>9. ASSUME NEW s \in Sockets, SwapIn(s) PROVE KeyWillExpire'
    <2>1. CASE Fails(user[s])
      BY <2>1, <1>a DEF Fails
    <2>2. CASE beat' = [beat EXCEPT ![s].pc = "ttl", ![s].fresh = {}]
      <3>1. beat'[s].pc = "ttl"
        BY <2>2, <1>0 DEF BeatOK
      <3>2. QED BY <3>1, <1>a
    <2>3. QED BY <1>9, <2>1, <2>2 DEF SwapIn, NextMember
  <1>10. ASSUME NEW s \in Sockets, RenewTtl(s) PROVE KeyWillExpire'
    BY <1>10, <1>a, <1>d DEF RenewTtl, NextMember, Fails
  <1>11. CASE Tick
    <2>1. UNCHANGED <<conn, beat, failed>>
      BY <1>11 DEF Tick
    <2>2. entries' = {} \/ UNCHANGED setVars
      BY <1>11 DEF Tick
    <2>3. QED BY <2>1, <2>2, <1>a, <1>c
  <1>12. CASE Crash
    BY <1>12, <1>a DEF Crash
  <1>13. CASE UNCHANGED vars
    BY <1>13, <1>c DEF vars, setVars
  <1>14. QED
    BY <1>1, <1>2, <1>3, <1>4, <1>5, <1>6, <1>7, <1>8, <1>9, <1>10, <1>11,
       <1>12, <1>13 DEF Next, Handler

LEMMA InvariantHolds == Spec => [](TypeOK /\ Owned /\ KeyWillExpire)
  BY InitOK, TypeStep, OwnedStep, KeyStep, PTL DEF Spec

\* The variables of Presence keep their types.
THEOREM TypeCorrect == Spec => []TypeOK
  BY InvariantHolds, PTL

\* Presence cannot stay for ever unless a command fails: whatever handlers of
\* however many users interleave, a key without a lifetime is about to get one.
THEOREM KeyWillExpireCorrect == Spec => []KeyWillExpire
  BY InvariantHolds, PTL

----------------------------------------------------------------------------
(* Users whose handlers take turns *)

\* What socket s has: it is open from the start of its connecting to that of its
\* disconnecting, and its handlers have in hand entries of its user only.
ShapeOf(s) ==
  /\ s \in open <=> conn[s] # "out" /\ disc[s].pc = "none"
  /\ beat[s].pc = "idle" => beat[s].saw = {} /\ beat[s].fresh = {}
  /\ \A e \in disc[s].saw \cup beat[s].saw \cup beat[s].fresh : e.user = user[s]

Shape == IsFiniteSet(entries) /\ \A s \in Sockets : ShapeOf(s)

\* A step of a handler of socket s.
Acts(s) == Disconnect(s) \/ Heartbeat(s) \/ Handler(s)

\* What such a step leaves alone.
Touches(s) ==
  /\ user' = user /\ shared' = shared
  /\ \A q \in Sockets \ {s} : /\ conn'[q] = conn[q] /\ disc'[q] = disc[q] /\ beat'[q] = beat[q]
                              /\ q \in open' <=> q \in open
  /\ disturbed' \in {disturbed, disturbed \cup {user[s]}}
  /\ lapsed' \in {lapsed, lapsed \ {user[s]}}
  /\ \A u \in Users \ {user[s]} : told'[u] = told[u]
  /\ \A e : e.user # user[s] => (e \in entries' <=> e \in entries)
  /\ IsFiniteSet(entries')

LEMMA Effects ==
  ASSUME IsFiniteSet(entries)
  PROVE  /\ \A e : Srem(e) => IsFiniteSet(entries') /\ entries' = entries \ {e}
         /\ \A e : Sadd(e) => IsFiniteSet(entries') /\ entries' = entries \cup {e}
         /\ Expire => entries' = entries
         /\ UNCHANGED setVars => entries' = entries
  BY FS_AddElement, FS_RemoveElement DEF Srem, Sadd, Expire, setVars

LEMMA HandlerTouches ==
  ASSUME TypeOK, Owned, Shape, NEW s \in Sockets, Acts(s)
  PROVE  Touches(s) /\ ShapeOf(s)'
  <1>0. /\ user \in [Sockets -> Users \cup {None}] /\ open \subseteq Sockets
        /\ ConnOK /\ DiscOK /\ BeatOK /\ ToldOK /\ entries \subseteq Entry /\ now \in Times
    BY DEF TypeOK, ConnOK, DiscOK, BeatOK, ToldOK
  <1>a. IsFiniteSet(entries) /\ ShapeOf(s)
    BY DEF Shape
  <1> USE DEF ConnOK, DiscOK, BeatOK
  <1>1. CASE GoOnline(s)
    <2>1. /\ UNCHANGED <<user, open, disc, beat, told, shared>>
          /\ conn[s] = "query" /\ conn'[s] # "out" /\ \A q \in Sockets \ {s} : conn'[q] = conn[q]
      BY <1>1, <1>0 DEF GoOnline
    <2>2. entries' = entries \/ entries' = entries \cup {[user |-> user[s], at |-> now]}
      BY <1>1, <1>a, Effects DEF GoOnline
    <2>3. IsFiniteSet(entries')
      BY <2>2, <1>a, FS_AddElement
    <2>4. /\ disturbed' \in {disturbed, disturbed \cup {user[s]}}
          /\ lapsed' \in {lapsed, lapsed \ {user[s]}}
      BY <1>1 DEF GoOnline, Fails, Succeeds
    <2>5. ShapeOf(s)'
      BY <2>1, <1>a DEF ShapeOf
    <2>6. QED BY <2>1, <2>2, <2>3, <2>4, <2>5 DEF Touches
  <1>2. CASE SetTtl(s) \/ AnnounceOnline(s)
    <2>1. /\ UNCHANGED <<user, open, disc, beat, shared, lapsed>>
          /\ conn[s] # "out" /\ conn'[s] # "out" /\ \A q \in Sockets \ {s} : conn'[q] = conn[q]
          /\ \A u \in Users \ {user[s]} : told'[u] = told[u]
      BY <1>2, <1>0 DEF SetTtl, AnnounceOnline, ToldOK
    <2>2. entries' = entries
      BY <1>2, <1>a, Effects DEF SetTtl, AnnounceOnline
    <2>3. disturbed' \in {disturbed, disturbed \cup {user[s]}}
      BY <1>2 DEF SetTtl, AnnounceOnline, Fails, Succeeds
    <2>4. ShapeOf(s)'
      BY <2>1, <1>a DEF ShapeOf
    <2>5. QED BY <2>1, <2>2, <2>3, <2>4, <1>a DEF Touches
  <1>3. CASE Disconnect(s)
    <2>1. /\ UNCHANGED <<user, conn, beat, told, shared, lapsed, setVars>>
          /\ open' = open \ {s} /\ \A q \in Sockets \ {s} : disc'[q] = disc[q]
          /\ disc'[s].pc # "none" /\ disc'[s].saw \in {Of(user[s]), {}}
      BY <1>3, <1>0 DEF Disconnect
    <2>2. disturbed' \in {disturbed, disturbed \cup {user[s]}}
      BY <1>3 DEF Disconnect, Begin, Fails
    <2>3. ShapeOf(s)'
      BY <2>1, <1>a DEF ShapeOf, Of
    <2>4. QED BY <2>1, <2>2, <2>3, <1>a DEF Touches, setVars
  <1>4. CASE RemoveEntry(s) \/ AnnounceOffline(s)
    <2>1. /\ UNCHANGED <<user, open, conn, beat, shared, lapsed>>
          /\ \A q \in Sockets \ {s} : disc'[q] = disc[q]
          /\ disc[s].pc # "none" /\ disc'[s].pc # "none" /\ disc'[s].saw = {}
          /\ \A u \in Users \ {user[s]} : told'[u] = told[u]
      BY <1>4, <1>0 DEF RemoveEntry, AnnounceOffline, TellOffline, ToldOK
    <2>2. entries' = entries \/ \E e \in disc[s].saw : Srem(e)
      BY <1>4 DEF RemoveEntry, AnnounceOffline, Matches, setVars
    <2>3. disturbed' \in {disturbed, disturbed \cup {user[s]}}
      BY <1>4 DEF RemoveEntry, AnnounceOffline, Fails, Succeeds
    <2>4. IsFiniteSet(entries') /\ \A e : e.user # user[s] => (e \in entries' <=> e \in entries)
      BY <2>2, <1>a, Effects DEF ShapeOf
    <2>5. ShapeOf(s)'
      BY <2>1, <1>a DEF ShapeOf
    <2>6. QED BY <2>1, <2>3, <2>4, <2>5 DEF Touches
  <1>5. CASE Heartbeat(s)
    <2>1. /\ UNCHANGED <<user, open, conn, disc, told, shared, lapsed, setVars>>
          /\ \A q \in Sockets \ {s} : beat'[q] = beat[q]
          /\ beat'[s].pc = "find" /\ beat'[s].saw = Of(user[s]) /\ beat'[s].fresh = {}
      BY <1>5, <1>0 DEF Heartbeat, NoBeat
    <2>2. disturbed' \in {disturbed, disturbed \cup {user[s]}}
      BY <1>5 DEF Heartbeat, Begin
    <2>3. ShapeOf(s)'
      BY <2>1, <1>a DEF ShapeOf, Of
    <2>4. QED BY <2>1, <2>2, <2>3, <1>a DEF Touches, setVars
  <1>6. CASE SwapOut(s)
    <2>1. /\ UNCHANGED <<user, open, conn, disc, told, shared, lapsed>>
          /\ \A q \in Sockets \ {s} : beat'[q] = beat[q]
      BY <1>6, <1>0 DEF SwapOut
    <2>2. entries' = entries \/ \E e \in beat[s].saw : Srem(e)
      BY <1>6 DEF SwapOut, TakeOut, setVars
    <2>3. disturbed' \in {disturbed, disturbed \cup {user[s]}}
      BY <1>6 DEF SwapOut, Fails, Succeeds
    <2>4. IsFiniteSet(entries') /\ \A e : e.user # user[s] => (e \in entries' <=> e \in entries)
      BY <2>2, <1>a, Effects DEF ShapeOf
    <2>5. \A e \in beat[s].saw : [e EXCEPT !.at = now].user = user[s]
      BY <1>0, <1>a DEF ShapeOf, Entry
    <2>6. /\ beat'[s].saw \subseteq beat[s].saw
          /\ beat'[s].pc = "idle" => beat'[s].saw = {} /\ beat'[s].fresh = {}
          /\ \A e \in beat'[s].fresh : e.user = user[s]
      <3>1. CASE beat' = [beat EXCEPT ![s] = NoBeat]
        BY <3>1, <1>0 DEF NoBeat
      <3>2. ASSUME NEW e \in beat[s].saw,
                   beat' = [beat EXCEPT ![s] = [pc |-> "swap", saw |-> beat[s].saw \ {e},
                                                fresh |-> {[e EXCEPT !.at = now]}]]
            PROVE  /\ beat'[s].saw \subseteq beat[s].saw
                   /\ beat'[s].pc = "idle" => beat'[s].saw = {} /\ beat'[s].fresh = {}
                   /\ \A f \in beat'[s].fresh : f.user = user[s]
        BY <3>2, <2>5, <1>0
      <3>3. ASSUME NEW e \in beat[s].saw, beat' = [beat EXCEPT ![s].saw = @ \ {e}]
            PROVE  beat'[s].saw \subseteq beat[s].saw /\ beat'[s].fresh = beat[s].fresh
                   /\ beat'[s].pc = "find"
        BY <3>3, <1>6, <1>0 DEF SwapOut
      <3>4. QED BY <1>6, <3>1, <3>2, <3>3, <1>a DEF SwapOut, ShapeOf
    <2>7. ShapeOf(s)'
      BY <2>1, <2>6, <1>a DEF ShapeOf
    <2>8. QED BY <2>1, <2>3, <2>4, <2>7 DEF Touches
  <1>7. CASE SwapIn(s) \/ RenewTtl(s)
    <2>1. /\ UNCHANGED <<user, open, conn, disc, told, shared, lapsed>>
          /\ \A q \in Sockets \ {s} : beat'[q] = beat[q]
          /\ beat'[s].saw \subseteq beat[s].saw /\ beat'[s].fresh = {}
          /\ beat'[s].pc = "idle" => beat'[s].saw = {}
      BY <1>7, <1>0 DEF SwapIn, RenewTtl, NextMember, NoBeat
    <2>2. entries' = entries \/ \E e \in beat[s].fresh : Sadd(e)
      BY <1>7, <1>a, Effects DEF SwapIn, RenewTtl, NextMember
    <2>3. disturbed' \in {disturbed, disturbed \cup {user[s]}}
      BY <1>7 DEF SwapIn, RenewTtl, NextMember, Fails, Succeeds
    <2>4. IsFiniteSet(entries') /\ \A e : e.user # user[s] => (e \in entries' <=> e \in entries)
      BY <2>2, <1>a, Effects DEF ShapeOf
    <2>5. ShapeOf(s)'
      BY <2>1, <1>a DEF ShapeOf
    <2>6. QED BY <2>1, <2>3, <2>4, <2>5 DEF Touches
  <1>8. QED BY <1>1, <1>2, <1>3, <1>4, <1>5, <1>6, <1>7 DEF Acts, Handler

LEMMA ShapeStep == TypeOK /\ Owned /\ Shape /\ [Next]_vars => Shape'
  <1> SUFFICES ASSUME TypeOK, Owned, Shape, [Next]_vars PROVE Shape'
    OBVIOUS
  <1>0. /\ user \in [Sockets -> Users \cup {None}]
        /\ ConnOK /\ DiscOK /\ BeatOK
    BY DEF TypeOK, ConnOK, DiscOK, BeatOK
  <1>1. ASSUME NEW s \in Sockets, Acts(s) PROVE Shape'
    <2>1. Touches(s) /\ ShapeOf(s)'
      BY <1>1, HandlerTouches
    <2>2. ASSUME NEW q \in Sockets, q # s PROVE ShapeOf(q)'
      <3>1. ShapeOf(q)
        BY DEF Shape
      <3>2. QED BY <2>1, <2>2, <3>1 DEF Touches, ShapeOf
    <2>3. QED BY <2>1, <2>2 DEF Shape, Touches
  <1>2. ASSUME NEW s \in Sockets, Connect(s) PROVE Shape'
    <2>1. /\ UNCHANGED <<entries, beat>> /\ open' = open \cup {s}
          /\ conn'[s] = "query" /\ disc'[s] = NoDisc /\ beat[s].pc = "idle"
          /\ \A q \in Sockets \ {s} :
               user'[q] = user[q] /\ conn'[q] = conn[q] /\ disc'[q] = disc[q]
      BY <1>2, <1>0 DEF Connect, Free, setVars, ConnOK, DiscOK
    <2>2. ASSUME NEW q \in Sockets PROVE ShapeOf(q)'
      <3>1. ShapeOf(q)
        BY DEF Shape
      <3>2. CASE q = s
        BY <2>1, <3>1, <3>2 DEF ShapeOf, NoDisc
      <3>3. CASE q # s
        BY <2>1, <3>1, <3>3 DEF ShapeOf
      <3>4. QED BY <3>2, <3>3
    <2>3. QED BY <2>1, <2>2 DEF Shape
  <1>3. CASE Tick
    <2>1. UNCHANGED <<user, open, conn, disc, beat>> /\ entries' \in {entries, {}}
      BY <1>3 DEF Tick, setVars
    <2>2. QED BY <2>1, FS_EmptySet DEF Shape, ShapeOf
  <1>4. CASE Crash
    <2>1. /\ UNCHANGED <<user, entries>> /\ open' = {}
          /\ \A s \in Sockets : conn'[s] = "out" /\ disc'[s] = NoDisc /\ beat'[s] = NoBeat
      BY <1>4 DEF Crash, setVars
    <2>2. QED BY <2>1 DEF Shape, ShapeOf, NoDisc, NoBeat
  <1>5. CASE UNCHANGED vars
    BY <1>5 DEF vars, setVars, Shape, ShapeOf
  <1>6. QED BY <1>1, <1>2, <1>3, <1>4, <1>5 DEF Next, Acts

\* A socket that is free is not listed.
LEMMA FreeUnlisted ==
  ASSUME TypeOK, Shape, NEW s \in Sockets, Free(s)
  PROVE  s \notin Listed(user[s]) /\ s \notin open /\ ~Runs(s)
  BY DEF Shape, ShapeOf, Free, Listed, Runs, TypeOK
----------------------------------------------------------------------------

\* Where the handlers of a socket may be, of a user whose handlers take turns: at
\* most one of the three runs, and what it has read is there still or has expired.
Phase(s) ==
  /\ conn[s] \in {"query", "sadd", "announce"} => disc[s].pc = "none" /\ beat[s].pc = "idle"
  /\ disc[s].pc \in {"find", "tell"} => conn[s] = "done" /\ beat[s].pc = "idle"
  /\ beat[s].pc # "idle" => conn[s] = "done" /\ disc[s].pc = "none"
  /\ disc[s].pc = "find" => Of(user[s]) \in {disc[s].saw, {}}
  /\ beat[s].pc = "find" => Of(user[s]) \in {beat[s].saw, {}}

Turns(u) ==
  \A s \in Sockets : user[s] = u =>
    /\ Phase(s)
    /\ \A q \in Sockets : user[q] = u /\ Runs(s) /\ Runs(q) => s = q

TurnsTaken == \A u \in Users \ disturbed : Turns(u)

\* While a handler of s runs or starts, and its user is not disturbed by it, no
\* other socket of the user has a handler, before or after the step.
LEMMA NoOther ==
  ASSUME TypeOK, Owned, Shape, TurnsTaken, NEW s \in Sockets, Acts(s), user[s] \notin disturbed'
  PROVE  /\ user[s] \in Users \ disturbed /\ Phase(s)
         /\ Disconnect(s) \/ Heartbeat(s) => ~Runs(s)
         /\ Handler(s) => Runs(s)
         /\ \A q \in Sockets \ {s} : user[q] = user[s] => ~Runs(q) /\ ~Runs(q)'
  <1>1. Touches(s)
    BY HandlerTouches
  <1>2. user[s] \in Users \ disturbed
    BY <1>1 DEF Touches, Owned, Acts, Disconnect, Heartbeat, Handler, Runs, GoOnline, SetTtl, AnnounceOnline,
         RemoveEntry, AnnounceOffline, SwapOut, SwapIn, RenewTtl
  <1>3. Turns(user[s])
    BY <1>2 DEF TurnsTaken
  <1>4. Handler(s) => Runs(s)
    BY DEF Handler, Runs, GoOnline, SetTtl, AnnounceOnline, RemoveEntry, AnnounceOffline, SwapOut, SwapIn, RenewTtl
  <1>5. Disconnect(s) \/ Heartbeat(s) => ~Busy(user[s])
    BY DEF Disconnect, Heartbeat, Begin, Fails
  <1>6. \A q \in Sockets \ {s} : user[q] = user[s] => ~Runs(q)
    BY <1>3, <1>4, <1>5 DEF Acts, Turns, Busy
  <1>7. \A q \in Sockets \ {s} : ~Runs(q) => ~Runs(q)'
    BY <1>1 DEF Touches, Runs
  <1>8. QED BY <1>2, <1>3, <1>4, <1>5, <1>6, <1>7 DEF Turns, Busy

\* A step of another user's handler.
LEMMA OtherUser ==
  ASSUME NEW s \in Sockets, Touches(s), NEW u \in Users, user[s] # u
  PROVE  /\ Of(u)' = Of(u) /\ Listed(u)' = Listed(u)
         /\ u \in disturbed' <=> u \in disturbed
         /\ u \in shared' <=> u \in shared
         /\ u \in lapsed' <=> u \in lapsed
         /\ \A q \in Sockets : user[q] = u => (Phase(q)' <=> Phase(q)) /\ (Runs(q)' <=> Runs(q))
  <1>1. Of(u)' = Of(u)
    BY DEF Touches, Of
  <1>2. Listed(u)' = Listed(u)
    BY DEF Touches, Listed
  <1>3. /\ u \in disturbed' <=> u \in disturbed
        /\ u \in shared' <=> u \in shared
        /\ u \in lapsed' <=> u \in lapsed
    BY DEF Touches
  <1>4. ASSUME NEW q \in Sockets, user[q] = u
        PROVE  (Phase(q)' <=> Phase(q)) /\ (Runs(q)' <=> Runs(q))
    <2>1. user'[q] = u /\ conn'[q] = conn[q] /\ disc'[q] = disc[q] /\ beat'[q] = beat[q]
      BY <1>4 DEF Touches
    <2>2. QED BY <2>1, <1>1, <1>4 DEF Phase, Runs
  <1>5. QED BY <1>1, <1>2, <1>3, <1>4

LEMMA PhaseStep ==
  ASSUME TypeOK, Owned, Shape, TurnsTaken, NEW s \in Sockets, Acts(s), user[s] \notin disturbed'
  PROVE  Phase(s)'
  <1>0. /\ ConnOK /\ DiscOK /\ BeatOK /\ ToldOK
        /\ Phase(s) /\ ShapeOf(s)
        /\ Disconnect(s) \/ Heartbeat(s) => ~Runs(s)
    BY NoOther DEF TypeOK, ConnOK, DiscOK, BeatOK, ToldOK, Shape
  <1>a. user[s] \notin disturbed' => ~Fails(user[s])
    BY DEF Fails
  <1> USE DEF ConnOK, DiscOK, BeatOK, Phase
  <1>1. CASE GoOnline(s) \/ SetTtl(s) \/ AnnounceOnline(s)
    <2>1. /\ conn[s] \in {"query", "sadd", "announce"} /\ UNCHANGED <<disc, beat>>
          /\ conn'[s] \in {"query", "sadd", "announce", "done"}
      BY <1>1, <1>0 DEF GoOnline, SetTtl, AnnounceOnline
    <2>2. QED BY <2>1, <1>0
  <1>2. CASE Disconnect(s)
    <2>1. /\ UNCHANGED <<conn, beat, entries, user>>
          /\ disc'[s] = [pc |-> "find", saw |-> Of(user[s])]
          /\ conn[s] = "done" /\ disc[s].pc = "none" /\ beat[s].pc = "idle"
      BY <1>2, <1>a, <1>0 DEF Disconnect, setVars, ShapeOf, Runs
    <2>2. QED BY <2>1 DEF Of
  <1>3. CASE RemoveEntry(s) \/ AnnounceOffline(s)
    <2>1. /\ UNCHANGED <<conn, beat, user>> /\ disc[s].pc \in {"find", "tell"}
          /\ disc'[s].pc \in {"tell", "gone"}
      BY <1>3, <1>0 DEF RemoveEntry, AnnounceOffline, TellOffline
    <2>2. QED BY <2>1, <1>0
  <1>4. CASE Heartbeat(s)
    <2>1. /\ UNCHANGED <<conn, disc, entries, user>>
          /\ beat'[s].pc = "find" /\ beat'[s].saw = Of(user[s])
          /\ conn[s] = "done" /\ disc[s].pc = "none" /\ beat[s].pc = "idle"
      BY <1>4, <1>0 DEF Heartbeat, setVars, ShapeOf, Runs, NoBeat
    <2>2. QED BY <2>1 DEF Of
  <1>5. CASE SwapOut(s) \/ SwapIn(s) \/ RenewTtl(s)
    <2>1. /\ UNCHANGED <<conn, disc, user>> /\ beat[s].pc # "idle"
          /\ beat'[s].pc \in {"idle", "swap", "ttl"}
      BY <1>5, <1>a, <1>0 DEF SwapOut, SwapIn, RenewTtl, NextMember, NoBeat
    <2>2. QED BY <2>1, <1>0
  <1>6. QED BY <1>1, <1>2, <1>3, <1>4, <1>5 DEF Acts, Handler

LEMMA TurnsStep == TypeOK /\ Owned /\ Shape /\ TurnsTaken /\ [Next]_vars => TurnsTaken'
  <1> SUFFICES ASSUME TypeOK, Owned, Shape, TurnsTaken, [Next]_vars,
                      NEW u \in Users, u \notin disturbed'
               PROVE  Turns(u)'
    BY DEF TurnsTaken
  <1>0. /\ user \in [Sockets -> Users \cup {None}]
        /\ ConnOK /\ DiscOK /\ BeatOK
    BY DEF TypeOK, ConnOK, DiscOK, BeatOK
  <1>1. ASSUME NEW s \in Sockets, Acts(s) PROVE Turns(u)'
    <2>1. Touches(s)
      BY <1>1, HandlerTouches
    <2>2. CASE user[s] = u
      <3>1. \A q \in Sockets \ {s} : user[q] = u => ~Runs(q)'
        BY <1>1, <2>2, NoOther
      <3>2. \A q \in Sockets \ {s} : user[q] = u => Phase(q)'
        BY <3>1, <1>0, <2>1 DEF Phase, Runs, Touches
      <3>3. Phase(s)'
        BY <1>1, <2>2, PhaseStep
      <3>4. user' = user
        BY <2>1 DEF Touches
      <3>5. QED BY <3>1, <3>2, <3>3, <3>4 DEF Turns
    <2>3. CASE user[s] # u
      <3>1. u \notin disturbed
        BY <2>1, <2>3, OtherUser
      <3>2. Turns(u) /\ user' = user
        BY <2>1, <3>1 DEF TurnsTaken, Touches
      <3>3. QED BY <2>1, <2>3, <3>2, OtherUser DEF Turns
    <2>4. QED BY <2>2, <2>3
  <1>2. ASSUME NEW s \in Sockets, Connect(s) PROVE Turns(u)'
    <2>1. PICK w \in Users : user' = [user EXCEPT ![s] = w] /\ Begin(w)
      BY <1>2 DEF Connect
    <2>2. /\ UNCHANGED <<entries, beat>>
          /\ conn'[s] = "query" /\ disc'[s].pc = "none" /\ beat[s].pc = "idle"
          /\ \A q \in Sockets \ {s} : conn'[q] = conn[q] /\ disc'[q] = disc[q] /\ user'[q] = user[q]
          /\ user'[s] = w
      BY <1>2, <2>1, <1>0 DEF Connect, Free, setVars, ConnOK, DiscOK, NoDisc
    <2>3. u \notin disturbed /\ (u = w => ~Busy(u))
      BY <2>1 DEF Begin
    <2>4. Turns(u)
      BY <2>3 DEF TurnsTaken
    <2>5. Phase(s)'
      BY <2>2 DEF Phase
    <2>6. ASSUME NEW q \in Sockets, q # s, user[q] = u
          PROVE  (Phase(q)' <=> Phase(q)) /\ (Runs(q)' <=> Runs(q))
      BY <2>2, <2>6 DEF Phase, Runs, Of
    <2>7. CASE u = w
      <3>1. \A q \in Sockets \ {s} : user[q] = u => ~Runs(q)'
        BY <2>3, <2>6, <2>7 DEF Busy
      <3>2. QED BY <2>2, <2>4, <2>5, <2>6, <3>1 DEF Turns
    <2>8. CASE u # w
      BY <2>2, <2>4, <2>6, <2>8 DEF Turns
    <2>9. QED BY <2>7, <2>8
  <1>3. CASE Tick
    <2>1. UNCHANGED <<user, conn, disc, beat, disturbed>> /\ entries' \in {entries, {}}
      BY <1>3 DEF Tick, setVars
    <2>2. Turns(u) /\ Of(u)' \in {Of(u), {}}
      BY <2>1 DEF TurnsTaken, Of
    <2>3. \A q \in Sockets : user[q] = u => (Runs(q)' <=> Runs(q)) /\ (Phase(q) => Phase(q)')
      BY <2>1, <2>2 DEF Runs, Phase
    <2>4. QED BY <2>1, <2>2, <2>3 DEF Turns
  <1>4. CASE Crash
    <2>1. \A s \in Sockets : conn'[s] = "out" /\ disc'[s].pc = "none" /\ beat'[s].pc = "idle"
      BY <1>4 DEF Crash, NoDisc, NoBeat
    <2>2. QED BY <2>1 DEF Turns, Phase, Runs
  <1>5. CASE UNCHANGED vars
    <2>1. UNCHANGED <<user, conn, disc, beat, disturbed, entries>>
      BY <1>5 DEF vars, setVars
    <2>2. QED BY <2>1 DEF TurnsTaken, Turns, Phase, Runs, Of
  <1>6. QED BY <1>1, <1>2, <1>3, <1>4, <1>5 DEF Next, Acts

----------------------------------------------------------------------------

\* A heartbeat of the user has taken its entry out, to put it back.
Swapping(u) == \E s \in Sockets : user[s] = u /\ beat[s].pc = "swap"

\* The entry in the hand of a heartbeat counts too.
Counted(u) == Cardinality(Of(u)) + (IF Swapping(u) THEN 1 ELSE 0) <= Cardinality(Listed(u))

AllCounted == \A u \in Users \ disturbed : Counted(u)

LEMMA Sizes ==
  ASSUME NEW S, IsFiniteSet(S), NEW x
  PROVE  /\ Cardinality(S) \in Nat /\ Cardinality(S \cup {x}) \in Nat /\ Cardinality(S \ {x}) \in Nat
         /\ Cardinality(S \cup {x}) <= Cardinality(S) + 1
         /\ x \notin S => Cardinality(S \cup {x}) = Cardinality(S) + 1
         /\ x \in S => Cardinality(S \ {x}) = Cardinality(S) - 1
         /\ x \notin S => S \ {x} = S
         /\ x \in S => Cardinality(S) >= 1
  <1>1. Cardinality(S) \in Nat
    BY FS_CardinalityType
  <1>2. /\ Cardinality(S \cup {x}) = IF x \in S THEN Cardinality(S) ELSE Cardinality(S) + 1
        /\ Cardinality(S \ {x}) = IF x \in S THEN Cardinality(S) - 1 ELSE Cardinality(S)
        /\ IsFiniteSet(S \ {x})
    BY FS_AddElement, FS_RemoveElement
  <1>3. Cardinality(S \ {x}) \in Nat
    BY <1>2, FS_CardinalityType
  <1>4. QED BY <1>1, <1>2, <1>3

\* Entries and listed sockets can be counted.
LEMMA Finite ==
  ASSUME Shape, NEW u \in Users
  PROVE  IsFiniteSet(Of(u)) /\ IsFiniteSet(Listed(u))
  <1>1. Of(u) \subseteq entries /\ Listed(u) \subseteq Sockets
    BY DEF Of, Listed
  <1>2. QED BY <1>1, FS_Subset, PresenceAssumption DEF Shape

LEMMA OwnCount ==
  ASSUME TypeOK, Owned, Shape, TurnsTaken, NEW s \in Sockets, Acts(s), user[s] \notin disturbed',
         Counted(user[s])
  PROVE  Counted(user[s])'
  <1> DEFINE u == user[s]
             n == Cardinality(Of(u))
             m == Cardinality(Listed(u))
  <1>0. /\ ConnOK /\ DiscOK /\ BeatOK /\ entries \subseteq Entry /\ now \in Times
        /\ Phase(s) /\ ShapeOf(s) /\ u \in Users
        /\ \A q \in Sockets \ {s} : user[q] = u => beat[q].pc # "swap" /\ beat'[q].pc # "swap"
    BY NoOther DEF TypeOK, ConnOK, DiscOK, BeatOK, Shape, Runs
  <1>a. ~Fails(u)
    BY DEF Fails
  <1>b. /\ user' = user
        /\ \A q \in Sockets \ {s} : conn'[q] = conn[q] /\ disc'[q] = disc[q]
    BY HandlerTouches DEF Touches
  <1>c. IsFiniteSet(Of(u)) /\ IsFiniteSet(Listed(u)) /\ n \in Nat /\ m \in Nat
    BY <1>0, Finite, FS_CardinalityType
  <1>i. /\ \A e : Cardinality(Of(u) \cup {e}) \in Nat /\ Cardinality(Of(u) \cup {e}) <= n + 1
        /\ \A q : q \notin Listed(u) => Cardinality(Listed(u) \cup {q}) = m + 1
    BY <1>c, Sizes
  <1>d. /\ n <= m
        /\ beat[s].pc = "swap" => n + 1 <= m
    BY <1>0, <1>c DEF Counted, Swapping
  <1>e. ASSUME Cardinality(Of(u)') <= Cardinality(Listed(u)'),
               beat'[s].pc = "swap" => Cardinality(Of(u)') + 1 <= Cardinality(Listed(u)'),
               Cardinality(Of(u)') \in Nat
        PROVE  Counted(u)'
    BY <1>0, <1>b, <1>e DEF Counted, Swapping
  <1>f. UNCHANGED setVars => Of(u)' = Of(u)
    BY <1>b DEF setVars, Of
  <1>g. /\ \A e : Srem(e) => Of(u)' = Of(u) \ {e}
        /\ \A e : Sadd(e) /\ e.user = u => Of(u)' = Of(u) \cup {e}
        /\ Expire => Of(u)' = Of(u)
    BY <1>0, <1>b DEF Srem, Sadd, Expire, Of
  <1>h. ASSUME conn'[s] = conn[s], disc'[s] = disc[s] PROVE Listed(u)' = Listed(u)
    BY <1>b, <1>h DEF Listed
  <1>1. CASE GoOnline(s)
    <2>1. /\ Sadd([user |-> u, at |-> now]) /\ conn[s] = "query" /\ conn'[s] = "sadd"
          /\ UNCHANGED <<disc, beat>>
      BY <1>1, <1>a, <1>0 DEF GoOnline, ConnOK
    <2>2. Of(u)' = Of(u) \cup {[user |-> u, at |-> now]}
      BY <2>1, <1>g
    <2>3. Listed(u)' = Listed(u) \cup {s} /\ s \notin Listed(u)
      BY <2>1, <1>b, <1>0 DEF Listed, Phase
    <2>4. beat'[s].pc = "idle"
      BY <2>1, <1>0 DEF Phase
    <2>5. /\ Cardinality(Of(u)') \in Nat /\ Cardinality(Of(u)') <= n + 1
          /\ Cardinality(Listed(u)') = m + 1
      BY <2>2, <2>3, <1>i
    <2>6. QED BY <2>4, <2>5, <1>c, <1>d, <1>e
  <1>2. CASE SetTtl(s) \/ AnnounceOnline(s)
    <2>1. /\ Of(u)' = Of(u) /\ UNCHANGED <<disc, beat>>
          /\ {conn[s], conn'[s]} \subseteq {"sadd", "announce", "done"}
      BY <1>2, <1>a, <1>f, <1>g, <1>0 DEF SetTtl, AnnounceOnline, ConnOK
    <2>2. Listed(u)' = Listed(u)
      BY <2>1, <1>b DEF Listed
    <2>3. QED BY <2>1, <2>2, <1>c, <1>d, <1>e
  <1>3. CASE Disconnect(s)
    <2>1. /\ Of(u)' = Of(u) /\ UNCHANGED <<conn, beat>> /\ disc'[s].pc = "find" /\ disc[s].pc = "none"
      BY <1>3, <1>a, <1>f, <1>0 DEF Disconnect, DiscOK, ShapeOf
    <2>2. Listed(u)' = Listed(u)
      BY <2>1, <1>b DEF Listed
    <2>3. QED BY <2>1, <2>2, <1>c, <1>d, <1>e
  <1>4. CASE RemoveEntry(s)
    <2>1. /\ UNCHANGED <<conn, beat>> /\ disc[s].pc = "find" /\ disc'[s].pc \in {"tell", "gone"}
      BY <1>4, <1>0 DEF RemoveEntry, TellOffline, DiscOK
    <2>2. Listed(u)' = Listed(u) \ {s} /\ s \in Listed(u)
      BY <2>1, <1>b, <1>0 DEF Listed, Phase
    <2>3. beat'[s].pc = "idle" /\ Of(u) \in {disc[s].saw, {}}
      BY <2>1, <1>0 DEF Phase
    <2>4. (Of(u) = {} /\ Of(u)' = {}) \/ \E e \in Of(u) : Of(u)' = Of(u) \ {e}
      <3>1. CASE disc[s].saw = {}
        BY <1>4, <2>3, <3>1, <1>f DEF RemoveEntry, Matches
      <3>2. CASE disc[s].saw # {}
        <4>1. PICK e \in disc[s].saw : Srem(e)
          BY <1>4, <3>2, <1>a DEF RemoveEntry, Matches
        <4>2. QED BY <4>1, <2>3, <1>g
      <3>3. QED BY <3>1, <3>2
    <2>5. Cardinality(Listed(u)') \in Nat /\ Cardinality(Listed(u)') = m - 1
      BY <2>2, <1>c, Sizes
    <2>6. CASE Of(u)' = {}
      <3>1. Cardinality(Of(u)') = 0
        BY <2>6, FS_EmptySet
      <3>2. QED BY <3>1, <2>3, <2>5, <1>e
    <2>7. CASE \E e \in Of(u) : Of(u)' = Of(u) \ {e}
      <3>1. Cardinality(Of(u)') \in Nat /\ Cardinality(Of(u)') = n - 1
        BY <2>7, <1>c, Sizes
      <3>2. QED BY <3>1, <2>3, <2>5, <1>c, <1>d, <1>e
    <2>8. QED BY <2>4, <2>6, <2>7
  <1>5. CASE AnnounceOffline(s)
    <2>1. /\ Of(u)' = Of(u) /\ UNCHANGED <<conn, beat>> /\ disc[s].pc = "tell" /\ disc'[s].pc = "gone"
      BY <1>5, <1>f, <1>0 DEF AnnounceOffline, TellOffline, DiscOK
    <2>2. Listed(u)' = Listed(u)
      BY <2>1, <1>b DEF Listed
    <2>3. QED BY <2>1, <2>2, <1>c, <1>d, <1>e
  <1>6. CASE Heartbeat(s)
    <2>1. /\ Of(u)' = Of(u) /\ UNCHANGED <<conn, disc>> /\ beat'[s].pc = "find"
      BY <1>6, <1>f, <1>0 DEF Heartbeat, BeatOK, NoBeat
    <2>2. QED BY <2>1, <1>h, <1>c, <1>d, <1>e
  <1>7. CASE SwapOut(s)
    <2>1. /\ UNCHANGED <<conn, disc>> /\ s \in Listed(u) /\ Of(u) \in {beat[s].saw, {}}
      BY <1>7, <1>0 DEF SwapOut, Phase, Listed
    <2>2. Listed(u)' = Listed(u)
      BY <2>1, <1>h
    <2>3. CASE Of(u)' = Of(u) /\ beat'[s].pc = "idle"
      BY <2>2, <2>3, <1>c, <1>d, <1>e
    <2>4. CASE \E e \in beat[s].saw : Srem(e)
      <3>1. PICK e \in beat[s].saw : Of(u)' = Of(u) \ {e}
        BY <2>4, <1>g
      <3>2. CASE Of(u) = {}
        <4>1. Cardinality(Of(u)') = 0
          BY <3>1, <3>2, FS_EmptySet
        <4>2. m >= 1
          BY <2>1, <1>c, Sizes
        <4>3. QED BY <4>1, <4>2, <2>2, <1>c, <1>e
      <3>3. CASE e \in Of(u)
        <4>1. Cardinality(Of(u)') \in Nat /\ Cardinality(Of(u)') = n - 1
          BY <3>1, <3>3, <1>c, Sizes
        <4>2. QED BY <4>1, <2>2, <1>c, <1>d, <1>e
      <3>4. QED BY <2>1, <3>2, <3>3
    <2>5. QED BY <1>7, <2>3, <2>4, <1>a, <1>f, <1>0 DEF SwapOut, TakeOut, BeatOK, NoBeat
  <1>8. CASE SwapIn(s)
    <2>1. /\ UNCHANGED <<conn, disc>> /\ beat[s].pc = "swap" /\ beat'[s].pc = "ttl"
          /\ \E e \in beat[s].fresh : Of(u)' = Of(u) \cup {e}
      BY <1>8, <1>a, <1>g, <1>0 DEF SwapIn, NextMember, ShapeOf, BeatOK
    <2>2. Cardinality(Of(u)') \in Nat /\ Cardinality(Of(u)') <= n + 1
      BY <2>1, <1>i
    <2>3. QED BY <2>1, <2>2, <1>h, <1>c, <1>d, <1>e
  <1>9. CASE RenewTtl(s)
    <2>1. /\ UNCHANGED <<conn, disc>> /\ beat'[s].pc = "idle" /\ Of(u)' = Of(u)
      BY <1>9, <1>a, <1>g, <1>0 DEF RenewTtl, NextMember, BeatOK, NoBeat
    <2>2. QED BY <2>1, <1>h, <1>c, <1>d, <1>e
  <1>10. QED
    BY <1>1, <1>2, <1>3, <1>4, <1>5, <1>6, <1>7, <1>8, <1>9 DEF Acts, Handler

LEMMA CountStep ==
  TypeOK /\ Owned /\ Shape /\ TurnsTaken /\ AllCounted /\ [Next]_vars => AllCounted'
  <1> SUFFICES ASSUME TypeOK, Owned, Shape, TurnsTaken, AllCounted, [Next]_vars,
                      NEW u \in Users, u \notin disturbed'
               PROVE  Counted(u)'
    BY DEF AllCounted
  <1>0. /\ user \in [Sockets -> Users \cup {None}]
        /\ ConnOK /\ DiscOK /\ BeatOK
    BY DEF TypeOK, ConnOK, DiscOK, BeatOK
  <1>1. ASSUME NEW s \in Sockets, Acts(s) PROVE Counted(u)'
    <2>1. Touches(s) /\ user' = user
      BY <1>1, HandlerTouches DEF Touches
    <2>2. CASE user[s] = u
      BY <1>1, <2>1, <2>2, OwnCount DEF AllCounted, Touches
    <2>3. CASE user[s] # u
      <3>1. /\ Of(u)' = Of(u) /\ Listed(u)' = Listed(u)
            /\ u \notin disturbed
        BY <2>1, <2>3, OtherUser
      <3>2. Swapping(u)' <=> Swapping(u)
        BY <2>1, <2>3 DEF Swapping, Touches
      <3>3. QED BY <3>1, <3>2 DEF AllCounted, Counted
    <2>4. QED BY <2>2, <2>3
  <1>2. ASSUME NEW s \in Sockets, Connect(s) PROVE Counted(u)'
    <2>1. PICK w \in Users : user' = [user EXCEPT ![s] = w] /\ Begin(w)
      BY <1>2 DEF Connect
    <2>2. /\ UNCHANGED <<entries, beat>>
          /\ conn'[s] = "query" /\ beat[s].pc = "idle"
          /\ \A q \in Sockets \ {s} : conn'[q] = conn[q] /\ disc'[q] = disc[q] /\ user'[q] = user[q]
      BY <1>2, <2>1, <1>0 DEF Connect, Free, setVars, ConnOK, DiscOK
    <2>3. u \notin disturbed
      BY <2>1 DEF Begin
    <2>4. Listed(u)' = Listed(u)
      <3>1. s \notin Listed(u)
        BY <1>2, FreeUnlisted DEF Connect, Listed
      <3>2. s \notin Listed(u)'
        BY <2>2 DEF Listed
      <3>3. QED BY <2>2, <3>1, <3>2 DEF Listed
    <2>5. Of(u)' = Of(u) /\ (Swapping(u)' <=> Swapping(u))
      BY <2>2 DEF Of, Swapping
    <2>6. QED BY <2>3, <2>4, <2>5 DEF AllCounted, Counted
  <1>3. CASE Tick
    <2>1. /\ UNCHANGED <<user, conn, disc, beat, disturbed>> /\ entries' \in {entries, {}}
      BY <1>3 DEF Tick, setVars
    <2>2. /\ Of(u)' \in {Of(u), {}} /\ Listed(u)' = Listed(u)
          /\ Swapping(u)' <=> Swapping(u)
      BY <2>1 DEF Of, Listed, Swapping
    <2>3. Counted(u) /\ Turns(u)
      BY <2>1 DEF AllCounted, TurnsTaken
    <2>4. CASE Of(u)' = Of(u)
      BY <2>2, <2>3, <2>4 DEF Counted
    <2>5. CASE Of(u)' = {}
      <3>1. Cardinality(Of(u)') = 0 /\ Cardinality(Listed(u)) \in Nat
        BY <2>5, FS_EmptySet, Finite, FS_CardinalityType
      <3>2. Swapping(u) => Cardinality(Listed(u)) >= 1
        <4>1. Swapping(u) => \E s \in Sockets : s \in Listed(u)
          BY <2>3 DEF Swapping, Turns, Phase, Listed
        <4>2. QED BY <4>1, Finite, Sizes
      <3>3. QED BY <2>2, <3>1, <3>2 DEF Counted
    <2>6. QED BY <2>2, <2>4, <2>5
  <1>4. CASE Crash
    <2>1. /\ UNCHANGED <<entries, user>>
          /\ \A s \in Sockets : conn'[s] = "out" /\ beat'[s].pc = "idle"
          /\ \A s \in Sockets : user[s] = u => Free(s)
          /\ u \notin disturbed
      BY <1>4 DEF Crash, NoBeat, setVars
    <2>2. Listed(u) = {} /\ Listed(u)' = {}
      BY <2>1, FreeUnlisted DEF Listed
    <2>3. Of(u)' = Of(u) /\ ~Swapping(u) /\ ~Swapping(u)'
      BY <2>1 DEF Of, Swapping, Free
    <2>4. QED BY <2>1, <2>2, <2>3 DEF AllCounted, Counted
  <1>5. CASE UNCHANGED vars
    <2>1. UNCHANGED <<user, conn, disc, beat, disturbed, entries>>
      BY <1>5 DEF vars, setVars
    <2>2. Of(u)' = Of(u) /\ Listed(u)' = Listed(u) /\ (Swapping(u)' <=> Swapping(u))
      BY <2>1 DEF Of, Listed, Swapping
    <2>3. QED BY <2>1, <2>2 DEF AllCounted, Counted
  <1>6. QED BY <1>1, <1>2, <1>3, <1>4, <1>5 DEF Next, Acts

----------------------------------------------------------------------------

\* Of a user with one socket at a time: what socket s says of the user's entry
\* and of what was last broadcast.
AloneAt(s) ==
  /\ disc[s].pc \in {"find", "tell"} => \A q \in open : user[q] # user[s]
  /\ conn[s] = "query" \/ beat[s].pc = "swap" \/ disc[s].pc = "tell" => Of(user[s]) = {}
  /\ s \in open /\ conn[s] # "query" /\ beat[s].pc # "swap" => Of(user[s]) # {} \/ user[s] \in lapsed
  /\ s \in open /\ conn[s] = "done" => told[user[s]] = "online"

\* Such a user has one entry at most, which an open socket, or one that is about
\* to take it out, stands for; and so it is with a user last told to be online.
Alone(u) ==
  /\ \A s, q \in open : user[s] = u /\ user[q] = u => s = q
  /\ \A e, f \in Of(u) : e = f
  /\ Of(u) # {} => \E s \in Sockets : user[s] = u /\ (s \in open \/ disc[s].pc = "find")
  /\ told[u] = "online" =>
       \E s \in Sockets : user[s] = u /\ conn[s] = "done" /\ disc[s].pc \in {"none", "find", "tell"}
  /\ \A s \in Sockets : user[s] = u => AloneAt(s)

AllAlone == \A u \in Users \ (disturbed \cup shared) : Alone(u)

LEMMA OwnAlone ==
  ASSUME TypeOK, Owned, Shape, TurnsTaken, NEW s \in Sockets, Acts(s), user[s] \notin disturbed',
         Alone(user[s])
  PROVE  Alone(user[s])'
  <1> DEFINE u == user[s]
  <1>0. /\ ConnOK /\ DiscOK /\ BeatOK /\ ToldOK /\ entries \subseteq Entry /\ open \subseteq Sockets
        /\ Phase(s) /\ Phase(s)' /\ ShapeOf(s) /\ AloneAt(s) /\ u \in Users
        /\ Disconnect(s) \/ Heartbeat(s) => ~Runs(s)
    BY NoOther, PhaseStep DEF TypeOK, ConnOK, DiscOK, BeatOK, ToldOK, Shape, Alone
  <1>a. ~Fails(u)
    BY DEF Fails
  <1>b. /\ user' = user
        /\ \A q \in Sockets \ {s} : /\ conn'[q] = conn[q] /\ disc'[q] = disc[q] /\ beat'[q] = beat[q]
                                    /\ q \in open' <=> q \in open
    BY HandlerTouches DEF Touches
  <1>c. s \in open \/ disc[s].pc \in {"find", "tell"}
    <2>1. Runs(s) \/ s \in open
      BY NoOther DEF Acts, Disconnect, Heartbeat
    <2>2. QED BY <2>1, <1>0 DEF Runs, Phase, ShapeOf, ConnOK, DiscOK, BeatOK
  <1>d. \A q \in Sockets \ {s} : user[q] = u =>
          q \notin open /\ q \notin open' /\ ~Runs(q) /\ ~Runs(q)'
    <2>1. \A q \in Sockets \ {s} : user[q] = u => q \notin open
      BY <1>c, <1>0 DEF Alone, AloneAt
    <2>2. QED BY <2>1, <1>b, NoOther
  \* Before the step only s counts,
  <1>e. /\ \A e, f \in Of(u) : e = f
        /\ Of(u) # {} => s \in open \/ disc[s].pc = "find"
        /\ told[u] = "online" => conn[s] = "done" /\ disc[s].pc \in {"none", "find", "tell"}
    <2>1. \A q \in Sockets \ {s} : user[q] = u =>
            q \notin open /\ (conn[q] = "out" \/ disc[q].pc \notin {"none", "find", "tell"})
      BY <1>d DEF Shape, ShapeOf, Runs
    <2>2. \A q \in Sockets \ {s} : user[q] = u => disc[q].pc # "find"
      BY <1>d DEF Runs
    <2>3. QED BY <2>1, <2>2 DEF Alone
  \* and after it.
  <1> DEFINE After ==
        /\ \A e, f \in Of(u)' : e = f
        /\ Of(u)' # {} => s \in open' \/ disc'[s].pc = "find"
        /\ told'[u] = "online" => conn'[s] = "done" /\ disc'[s].pc \in {"none", "find", "tell"}
        /\ disc'[s].pc \in {"find", "tell"} => s \notin open'
        /\ conn'[s] = "query" \/ beat'[s].pc = "swap" \/ disc'[s].pc = "tell" => Of(u)' = {}
        /\ s \in open' /\ conn'[s] # "query" /\ beat'[s].pc # "swap" => Of(u)' # {} \/ u \in lapsed'
        /\ s \in open' /\ conn'[s] = "done" => told'[u] = "online"
  <1>f. After => Alone(u)'
    <2> SUFFICES ASSUME After PROVE Alone(u)'
      OBVIOUS
    <2>1. open' \subseteq Sockets
      BY TypeStep DEF TypeOK, Next, Acts
    <2>2. \A q \in Sockets : user[q] = u => AloneAt(q)'
      <3>1. ASSUME NEW q \in Sockets, q # s, user[q] = u PROVE AloneAt(q)'
        BY <3>1, <1>b, <1>d DEF AloneAt, Runs
      <3>2. AloneAt(s)'
        BY <1>b, <1>d, <2>1 DEF AloneAt
      <3>3. QED BY <3>1, <3>2
    <2>3. \A p, q \in open' : user[p] = u /\ user[q] = u => p = q
      BY <1>d, <2>1
    <2>4. QED BY <2>2, <2>3, <1>b DEF Alone
  <1>g. UNCHANGED setVars => Of(u)' = Of(u)
    BY <1>b DEF setVars, Of
  <1>h. /\ \A e : Srem(e) => Of(u)' = Of(u) \ {e}
        /\ \A e : Sadd(e) /\ e.user = u => Of(u)' = Of(u) \cup {e}
        /\ Expire => Of(u)' = Of(u)
    BY <1>0, <1>b DEF Srem, Sadd, Expire, Of
  <1>1. CASE GoOnline(s)
    <2>1. /\ Sadd([user |-> u, at |-> now]) /\ conn[s] = "query" /\ conn'[s] = "sadd"
          /\ UNCHANGED <<disc, beat, open, told>>
      BY <1>1, <1>a, <1>0 DEF GoOnline, ConnOK
    <2>2. Of(u) = {} /\ Of(u)' = Of(u) \cup {[user |-> u, at |-> now]}
      BY <2>1, <1>h, <1>0 DEF AloneAt
    <2>3. s \in open /\ disc[s].pc = "none" /\ beat[s].pc = "idle"
      BY <2>1, <1>0 DEF Phase, ShapeOf
    <2>4. After
      BY <2>1, <2>2, <2>3, <1>e
    <2>5. QED BY <2>4, <1>f
  <1>2. CASE SetTtl(s) \/ AnnounceOnline(s)
    <2>1. /\ Of(u)' = Of(u) /\ UNCHANGED <<disc, beat, open, lapsed>>
          /\ conn[s] \in {"sadd", "announce"}
          /\ \/ conn'[s] = "announce" /\ told' = told
             \/ conn'[s] = "done" /\ told'[u] = "online"
      BY <1>2, <1>a, <1>g, <1>h, <1>0 DEF SetTtl, AnnounceOnline, ConnOK, ToldOK
    <2>2. s \in open /\ disc[s].pc = "none" /\ beat[s].pc = "idle"
      BY <2>1, <1>0 DEF Phase, ShapeOf
    <2>3. After
      BY <2>1, <2>2, <1>e, <1>0 DEF AloneAt
    <2>4. QED BY <2>3, <1>f
  <1>3. CASE Disconnect(s)
    <2>1. /\ Of(u)' = Of(u) /\ UNCHANGED <<conn, beat, told>> /\ disc'[s].pc = "find" /\ s \notin open'
      BY <1>3, <1>a, <1>g, <1>0 DEF Disconnect, DiscOK
    <2>2. conn[s] = "done" /\ beat[s].pc = "idle"
      BY <2>1, <1>0 DEF Phase
    <2>3. After
      BY <2>1, <2>2, <1>e
    <2>4. QED BY <2>3, <1>f
  <1>4. CASE RemoveEntry(s)
    <2>1. /\ UNCHANGED <<conn, beat, open>> /\ disc[s].pc = "find"
          /\ \/ disc'[s].pc = "gone" /\ told'[u] = "offline" /\ disc[s].saw = {} /\ UNCHANGED setVars
             \/ disc'[s].pc = "tell" /\ told' = told /\ \E e \in disc[s].saw : Srem(e)
      BY <1>4, <1>a, <1>0 DEF RemoveEntry, TellOffline, Matches, DiscOK, ToldOK
    <2>2. s \notin open /\ conn[s] = "done" /\ beat[s].pc = "idle" /\ Of(u) \in {disc[s].saw, {}}
      BY <2>1, <1>0 DEF Phase, ShapeOf
    <2>3. Of(u)' = {}
      BY <2>1, <2>2, <1>e, <1>g, <1>h
    <2>4. After
      BY <2>1, <2>2, <2>3
    <2>5. QED BY <2>4, <1>f
  <1>5. CASE AnnounceOffline(s)
    <2>1. /\ Of(u)' = Of(u) /\ UNCHANGED <<conn, beat, open>> /\ disc[s].pc = "tell"
          /\ disc'[s].pc = "gone" /\ told'[u] = "offline"
      BY <1>5, <1>g, <1>0 DEF AnnounceOffline, TellOffline, DiscOK, ToldOK
    <2>2. s \notin open /\ conn[s] = "done" /\ beat[s].pc = "idle" /\ Of(u) = {}
      BY <2>1, <1>0 DEF Phase, ShapeOf, AloneAt
    <2>3. After
      BY <2>1, <2>2
    <2>4. QED BY <2>3, <1>f
  <1>6. CASE Heartbeat(s)
    <2>1. /\ Of(u)' = Of(u) /\ UNCHANGED <<conn, disc, open, told, lapsed>>
          /\ beat[s].pc = "idle" /\ beat'[s].pc = "find" /\ s \in open
      BY <1>6, <1>g, <1>0 DEF Heartbeat, BeatOK, NoBeat
    <2>2. disc[s].pc = "none"
      BY <2>1, <1>0 DEF ShapeOf
    <2>3. After
      BY <2>1, <2>2, <1>e, <1>0 DEF AloneAt
    <2>4. QED BY <2>3, <1>f
  <1>7. CASE SwapOut(s) \/ SwapIn(s) \/ RenewTtl(s)
    <2>1. /\ UNCHANGED <<conn, disc, open, told, lapsed>> /\ beat[s].pc # "idle"
          /\ conn[s] = "done" /\ disc[s].pc = "none" /\ s \in open
      BY <1>7, <1>0 DEF SwapOut, SwapIn, RenewTtl, Phase, ShapeOf
    <2>2. CASE SwapOut(s)
      <3>1. /\ beat[s].pc = "find" /\ Of(u) \in {beat[s].saw, {}}
            /\ \/ beat'[s].pc = "idle" /\ UNCHANGED setVars
               \/ beat'[s].pc = "swap" /\ \E e \in beat[s].saw : Srem(e)
        BY <2>2, <1>a, <1>0 DEF SwapOut, TakeOut, BeatOK, NoBeat, Phase
      <3>2. CASE beat'[s].pc = "idle" /\ UNCHANGED setVars
        BY <2>1, <3>1, <3>2, <1>e, <1>g, <1>0, <1>f DEF AloneAt
      <3>3. CASE beat'[s].pc = "swap" /\ \E e \in beat[s].saw : Srem(e)
        <4>1. Of(u)' = {}
          BY <3>1, <3>3, <1>e, <1>h
        <4>2. QED BY <2>1, <3>3, <4>1, <1>e, <1>0, <1>f DEF AloneAt
      <3>4. QED BY <3>1, <3>2, <3>3
    <2>3. CASE SwapIn(s)
      <3>1. /\ beat[s].pc = "swap" /\ beat'[s].pc = "ttl" /\ Of(u) = {}
            /\ \E e \in beat[s].fresh : Of(u)' = Of(u) \cup {e}
        BY <2>3, <1>a, <1>h, <1>0 DEF SwapIn, NextMember, ShapeOf, BeatOK, AloneAt
      <3>2. QED BY <2>1, <3>1, <1>e, <1>0, <1>f DEF AloneAt
    <2>4. CASE RenewTtl(s)
      <3>1. beat[s].pc = "ttl" /\ beat'[s].pc = "idle" /\ Of(u)' = Of(u)
        BY <2>4, <1>a, <1>h, <1>0 DEF RenewTtl, NextMember, BeatOK, NoBeat
      <3>2. QED BY <2>1, <3>1, <1>e, <1>0, <1>f DEF AloneAt
    <2>5. QED BY <1>7, <2>2, <2>3, <2>4
  <1>8. QED
    BY <1>1, <1>2, <1>3, <1>4, <1>5, <1>6, <1>7 DEF Acts, Handler

LEMMA AloneStep ==
  TypeOK /\ Owned /\ Shape /\ TurnsTaken /\ AllAlone /\ [Next]_vars => AllAlone'
  <1> SUFFICES ASSUME TypeOK, Owned, Shape, TurnsTaken, AllAlone, [Next]_vars,
                      NEW u \in Users, u \notin disturbed', u \notin shared'
               PROVE  Alone(u)'
    BY DEF AllAlone
  <1>0. /\ user \in [Sockets -> Users \cup {None}] /\ open \subseteq Sockets
        /\ ConnOK /\ DiscOK /\ BeatOK
    BY DEF TypeOK, ConnOK, DiscOK, BeatOK
  <1>1. ASSUME NEW s \in Sockets, Acts(s) PROVE Alone(u)'
    <2>1. Touches(s) /\ user' = user
      BY <1>1, HandlerTouches DEF Touches
    <2>2. CASE user[s] = u
      <3>1. u \notin disturbed /\ u \notin shared
        BY <2>1 DEF Touches
      <3>2. QED BY <1>1, <2>1, <2>2, <3>1, OwnAlone DEF AllAlone
    <2>3. CASE user[s] # u
      <3>1. /\ Of(u)' = Of(u) /\ u \notin disturbed /\ u \notin shared
            /\ u \in lapsed' <=> u \in lapsed
        BY <2>1, <2>3, OtherUser
      <3>2. /\ \A q \in Sockets : user[q] = u => /\ conn'[q] = conn[q] /\ disc'[q] = disc[q]
                                                 /\ beat'[q] = beat[q] /\ (q \in open' <=> q \in open)
            /\ told'[u] = told[u]
        BY <2>1, <2>3 DEF Touches
      <3>3. Alone(u) /\ open' \subseteq Sockets
        BY <3>1, TypeStep DEF AllAlone, TypeOK
      <3>4. \A q \in Sockets : user[q] = u => AloneAt(q)'
        BY <2>1, <3>1, <3>2, <3>3, <1>0 DEF Alone, AloneAt
      <3>5. QED BY <2>1, <3>1, <3>2, <3>3, <3>4 DEF Alone
    <2>4. QED BY <2>2, <2>3
  <1>2. ASSUME NEW s \in Sockets, Connect(s) PROVE Alone(u)'
    <2>1. PICK w \in Users :
            /\ user' = [user EXCEPT ![s] = w] /\ Begin(w)
            /\ shared' = IF \E q \in open : user[q] = w THEN shared \cup {w} ELSE shared
      BY <1>2 DEF Connect
    <2>2. /\ UNCHANGED <<entries, beat, told, lapsed>> /\ open' = open \cup {s}
          /\ conn'[s] = "query" /\ disc'[s].pc = "none" /\ beat[s].pc = "idle" /\ user'[s] = w
          /\ \A q \in Sockets \ {s} : conn'[q] = conn[q] /\ disc'[q] = disc[q] /\ user'[q] = user[q]
      BY <1>2, <2>1, <1>0 DEF Connect, Free, setVars, ConnOK, DiscOK, NoDisc
    <2>3. /\ u \notin disturbed /\ u \notin shared
          /\ u = w => ~Busy(u) /\ \A q \in open : user[q] # u
      BY <2>1 DEF Begin
    <2>4. Alone(u) /\ Of(u)' = Of(u)
      BY <2>2, <2>3 DEF AllAlone, Of
    <2>5. s \notin open /\ ~Runs(s) /\ (conn[s] = "out" \/ disc[s].pc = "gone")
      BY <1>2, <1>0, FreeUnlisted DEF Connect, Free, Shape, ShapeOf, DiscOK
    <2>6. CASE u = w
      <3>1. \A q \in Sockets : user[q] = u => q \notin open /\ ~Runs(q)
        BY <2>3, <2>6 DEF Busy
      <3>2. Of(u) = {}
        BY <3>1, <2>4 DEF Alone, Runs
      <3>3. told[u] # "online"
        BY <3>1, <2>4 DEF Alone, Runs, Shape, ShapeOf
      <3>4. ASSUME NEW q \in Sockets, user'[q] = u PROVE AloneAt(q)'
        <4>1. CASE q = s
          BY <2>2, <2>4, <2>6, <3>2, <4>1 DEF AloneAt
        <4>2. CASE q # s
          <5>1. user[q] = u /\ beat' = beat /\ conn'[q] = conn[q] /\ disc'[q] = disc[q]
            BY <2>2, <3>4, <4>2
          <5>2. ~Runs(q) /\ q \notin open
            BY <5>1, <3>1
          <5>3. q \notin open'
            BY <5>2, <2>2, <4>2
          <5>4. QED BY <5>1, <5>2, <5>3 DEF AloneAt, Runs
        <4>3. QED BY <4>1, <4>2
      <3>5. \A p, q \in open' : user'[p] = u /\ user'[q] = u => p = q
        BY <2>2, <3>1, <1>0
      <3>6. QED BY <2>2, <2>4, <3>2, <3>3, <3>4, <3>5 DEF Alone
    <2>7. CASE u # w
      <3>1. \A q \in Sockets : user'[q] = u => q # s /\ user[q] = u /\ (q \in open' <=> q \in open)
        BY <2>2, <2>7
      <3>2. ASSUME NEW q \in Sockets, user'[q] = u PROVE AloneAt(q)'
        <4>1. AloneAt(q) /\ user[q] = u /\ q # s
          BY <2>4, <3>1, <3>2 DEF Alone
        <4>2. QED BY <4>1, <2>2, <2>4, <2>7, <3>1, <3>2, <1>0 DEF AloneAt
      <3>3. Of(u) # {} => \E q \in Sockets : user[q] = u /\ q # s /\ (q \in open \/ disc[q].pc = "find")
        BY <2>4, <2>5 DEF Alone, Runs
      <3>4. told[u] = "online" => \E q \in Sockets :
              user[q] = u /\ q # s /\ conn[q] = "done" /\ disc[q].pc \in {"none", "find", "tell"}
        BY <2>4, <2>5 DEF Alone
      <3>5. \A p, q \in open' : user'[p] = u /\ user'[q] = u => p = q
        BY <2>2, <2>4, <2>7, <3>1, <1>0 DEF Alone
      <3>6. QED BY <2>2, <2>4, <3>2, <3>3, <3>4, <3>5 DEF Alone
    <2>8. QED BY <2>6, <2>7
  <1>3. CASE Tick
    <2>1. /\ UNCHANGED <<user, open, conn, disc, beat, told, disturbed, shared>>
          /\ \/ UNCHANGED <<entries, lapsed>>
             \/ entries' = {} /\ lapsed' = lapsed \cup {e.user : e \in entries}
      BY <1>3 DEF Tick, setVars
    <2>2. Alone(u)
      BY <2>1 DEF AllAlone
    <2>3. \/ Of(u)' = Of(u) /\ (u \in lapsed => u \in lapsed')
          \/ Of(u)' = {} /\ (Of(u) # {} \/ u \in lapsed => u \in lapsed')
      BY <2>1 DEF Of
    <2>4. \A q \in Sockets : user[q] = u => AloneAt(q)'
      BY <2>1, <2>2, <2>3 DEF Alone, AloneAt
    <2>5. QED BY <2>1, <2>2, <2>3, <2>4 DEF Alone
  <1>4. CASE Crash
    <2>1. /\ UNCHANGED <<entries, user, told, shared>> /\ open' = {}
          /\ \A s \in Sockets : conn'[s] = "out" /\ beat'[s].pc = "idle" /\ disc'[s].pc = "none"
          /\ \A s \in Sockets : user[s] = u => Free(s)
          /\ u \notin disturbed
      BY <1>4 DEF Crash, NoBeat, NoDisc, setVars
    <2>2. Alone(u) /\ Of(u)' = Of(u)
      BY <2>1 DEF AllAlone, Of
    <2>3. \A s \in Sockets : user[s] = u => s \notin open /\ ~Runs(s) /\ (conn[s] = "out" \/ disc[s].pc = "gone")
      BY <2>1, FreeUnlisted DEF Free, Shape, ShapeOf
    <2>4. Of(u) = {} /\ told[u] # "online"
      BY <2>2, <2>3 DEF Alone, Runs
    <2>5. QED BY <2>1, <2>2, <2>4 DEF Alone, AloneAt
  <1>5. CASE UNCHANGED vars
    <2>1. UNCHANGED <<user, open, conn, disc, beat, told, disturbed, shared, lapsed, entries>>
      BY <1>5 DEF vars, setVars
    <2>2. Alone(u) /\ Of(u)' = Of(u)
      BY <2>1 DEF AllAlone, Of
    <2>3. \A q \in Sockets : user[q] = u => AloneAt(q)'
      BY <2>1, <2>2 DEF Alone, AloneAt
    <2>4. QED BY <2>1, <2>2, <2>3 DEF Alone
  <1>6. QED BY <1>1, <1>2, <1>3, <1>4, <1>5 DEF Next, Acts

LEMMA SerialInit == Init => Shape /\ TurnsTaken /\ AllCounted /\ AllAlone
  <1> SUFFICES ASSUME Init PROVE Shape /\ TurnsTaken /\ AllCounted /\ AllAlone
    OBVIOUS
  <1>1. /\ entries = {} /\ open = {}
        /\ \A s \in Sockets : user[s] = None /\ conn[s] = "out" /\ disc[s] = NoDisc /\ beat[s] = NoBeat
      BY DEF Init
  <1>2. Shape
    BY <1>1, FS_EmptySet DEF Shape, ShapeOf, NoDisc, NoBeat
  <1>3. \A u \in Users, s \in Sockets : user[s] # u
    BY <1>1, PresenceAssumption
  <1>4. TurnsTaken
    BY <1>3 DEF TurnsTaken, Turns
  <1>5. AllCounted
    <2>1. ASSUME NEW u \in Users PROVE Counted(u)
      <3>1. Of(u) = {} /\ Listed(u) = {} /\ ~Swapping(u)
        BY <1>1, <1>3 DEF Of, Listed, Swapping
      <3>2. QED BY <3>1, FS_EmptySet DEF Counted
    <2>2. QED BY <2>1 DEF AllCounted
  <1>6. AllAlone
    <2>1. \A u \in Users : Of(u) = {} /\ told[u] = "unknown"
      BY <1>1 DEF Of, Init
    <2>2. QED BY <1>1, <1>3, <2>1 DEF AllAlone, Alone
  <1>7. QED BY <1>2, <1>4, <1>5, <1>6

LEMMA SerialHolds == Spec => [](TypeOK /\ Shape /\ TurnsTaken /\ AllCounted /\ AllAlone)
  <1>1. Init => TypeOK /\ Owned /\ Shape /\ TurnsTaken /\ AllCounted /\ AllAlone
    BY InitOK, SerialInit
  <1>2. QED
    BY <1>1, TypeStep, OwnedStep, ShapeStep, TurnsStep, CountStep, AloneStep, PTL DEF Spec

\* A user whose handlers take turns has no more entries than sockets that entered
\* it: nothing that userOnline, userOffline and heartbeat do, in any order, with
\* expiries and restarts between them, leaves a ghost.
THEOREM SerialNoGhostsCorrect == Spec => []SerialNoGhosts
  <1>1. TypeOK /\ Shape /\ AllCounted => SerialNoGhosts
    <2> SUFFICES ASSUME Shape, AllCounted, NEW u \in Users \ disturbed
                 PROVE  Cardinality(Of(u)) <= Cardinality(Listed(u))
      BY DEF SerialNoGhosts
    <2>1. Cardinality(Of(u)) \in Nat /\ Cardinality(Listed(u)) \in Nat
      BY Finite, FS_CardinalityType
    <2>2. QED BY <2>1 DEF AllCounted, Counted
  <1>2. QED BY <1>1, SerialHolds, PTL

\* Once the handlers of a user with one socket at a time are done, broadcast, set
\* and connection agree: handleConnection, handleDisconnect and the heartbeats.
THEOREM SerialPresenceCorrect == Spec => []SerialPresence
  <1>1. TypeOK /\ Shape /\ TurnsTaken /\ AllAlone => SerialPresence
    <2> SUFFICES ASSUME TypeOK, Shape, TurnsTaken, AllAlone,
                        NEW u \in Users \ (disturbed \cup shared), ~Busy(u)
                 PROVE  LET connected == \E s \in open : user[s] = u IN
                        /\ (told[u] = "online") <=> connected
                        /\ Of(u) # {} => connected
                        /\ connected => Of(u) # {} \/ u \in lapsed
      BY DEF SerialPresence
    <2>0. open \subseteq Sockets /\ ConnOK /\ DiscOK /\ BeatOK
      BY DEF TypeOK, ConnOK, DiscOK, BeatOK
    <2>1. Alone(u) /\ \A s \in Sockets : user[s] = u => ~Runs(s) /\ AloneAt(s) /\ ShapeOf(s)
      BY DEF AllAlone, Alone, Busy, Shape
    <2>2. \A s \in open : user[s] = u => conn[s] = "done" /\ beat[s].pc = "idle"
      BY <2>0, <2>1 DEF Runs, ShapeOf, ConnOK
    <2>3. ASSUME NEW s \in open, user[s] = u
          PROVE  told[u] = "online" /\ (Of(u) # {} \/ u \in lapsed)
      BY <2>0, <2>1, <2>2, <2>3 DEF AloneAt
    <2>4. told[u] = "online" => \E s \in open : user[s] = u
      BY <2>1 DEF Alone, Runs, ShapeOf
    <2>5. Of(u) # {} => \E s \in open : user[s] = u
      BY <2>1 DEF Alone, Runs
    <2>6. QED BY <2>3, <2>4, <2>5
  <1>2. QED BY <1>1, SerialHolds, PTL
=============================================================================
