------------------------------- MODULE MCMfa -------------------------------
(* Small instances of Mfa for TLC. *)
EXTENDS Mfa, FiniteSets, TLC

CONSTANT MaxAccepted  \* distinct codes accepted in a behaviour (bound)

\* Requests, rows and code slots are interchangeable.
Symmetric == Permutations(Requests) \cup Permutations(FactorIds)
               \cup Permutations(Slots)

AcceptBound ==
  Cardinality(spent) + Cardinality({c \in TotpCode : lastAccept[c] # Never})
    <= MaxAccepted
=============================================================================
