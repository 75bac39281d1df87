------------------------------- MODULE MCMail -------------------------------
(* Small instances of Mail for TLC. *)
EXTENDS Mail, TLC

\* Tenants, messages and runs are interchangeable.
Symmetric == Permutations(Tenants) \cup Permutations(Mails)
               \cup Permutations(Outgoing) \cup Permutations(Runs)
=============================================================================
