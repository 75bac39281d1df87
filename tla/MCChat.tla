------------------------------- MODULE MCChat -------------------------------
(* Small instances of Chat for TLC. *)
EXTENDS Chat, Integers, FiniteSets, TLC

\* Users, tenants, sockets and channels are interchangeable.
Symmetric == Permutations(Users) \cup Permutations(Tenants)
               \cup Permutations(Sockets) \cup Permutations(Channels)

CONSTANT MaxMarks  \* marks in the histories of a behaviour (bound)

\* Memberships, stored messages (a posted one twice) and deliveries: so many in all.
MarkBound ==
  Cardinality(were) + Cardinality(log) + Cardinality(posted) + Cardinality(heard) <= MaxMarks

\* What is left in a socket that is out and sends nothing is never read.
Seen == <<home, members, [s \in Sockets |-> IF s \in open \/ conn[s] # "out" \/ send[s].pc # "idle"
                            THEN ident[s] ELSE Nobody],
          open, conn, rooms, send, log, posted, cast, heard, were, missed>>
=============================================================================
