------------------------------ MODULE MCFiles ------------------------------
(* Small instances of Files for TLC. *)
EXTENDS Files, FiniteSets, TLC

CONSTANT MaxEvents  \* marks in the histories of a behaviour (bound)

\* Tenants, requests, rows and keys are interchangeable.
Symmetric == Permutations(Tenants) \cup Permutations(Requests)
               \cup Permutations(FileIds) \cup Permutations(Keys)
\* Legacy uploads, unverified sizes, rows worked on by two requests at once,
\* rows to delete, objects erased or left: so many of them in all.
EventBound ==
  Cardinality(chosen) + Cardinality(taken) + Cardinality(contended)
    + Cardinality(doomed) + Cardinality(unclean) <= MaxEvents
=============================================================================
