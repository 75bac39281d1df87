---------------------------- MODULE MCPresence ----------------------------
(* Small instances of Presence for TLC. *)
EXTENDS Presence, TLC

\* Users and sockets are interchangeable.
Symmetric == Permutations(Users) \cup Permutations(Sockets)

CONSTANT MaxMarks  \* marks in the histories of a behaviour (bound)

\* Users with overlapping handlers or failures, users with two sockets, users
\* whose entry expired: so many of them in all.
MarkBound == Cardinality(disturbed) + Cardinality(shared) + Cardinality(lapsed) <= MaxMarks

\* What is left in a free socket is never read.
Seen == <<now, entries, deadline,
          [s \in Sockets |-> IF Free(s) THEN None ELSE <<user[s], conn[s], disc[s], beat[s]>>],
          open, told, failed, disturbed, shared, lapsed>>
=============================================================================
