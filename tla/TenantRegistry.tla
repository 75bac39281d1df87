--------------------------- MODULE TenantRegistry ---------------------------
(***************************************************************************)
(* What accounts and workspaces promise, without handlers, transactions or *)
(* failures: an account appears together with the workspace it owns, a     *)
(* workspace has one owner from its first moment, and a session is granted *)
(* only to an owner of the workspace it is for.                            *)
(***************************************************************************)
EXTENDS Integers

CONSTANTS Emails, Slugs

VARIABLES
  accounts,  \* emails that have an account
  owns,      \* pairs <<email, slug>>
  sessions   \* pairs <<email, slug>> for which a token was issued

vars == <<accounts, owns, sessions>>

TypeOK ==
  /\ accounts \in SUBSET Emails
  /\ owns \in SUBSET (Emails \X Slugs)
  /\ sessions \in SUBSET (Emails \X Slugs)

Vacant(s) == \A p \in owns : p[2] # s

Init == accounts = {} /\ owns = {} /\ sessions = {}

Register(e, s) ==
  /\ e \notin accounts
  /\ Vacant(s)
  /\ accounts' = accounts \cup {e}
  /\ owns' = owns \cup {<<e, s>>}
  /\ UNCHANGED sessions

OpenTenant(e, s) ==
  /\ e \in accounts
  /\ Vacant(s)
  /\ owns' = owns \cup {<<e, s>>}
  /\ UNCHANGED <<accounts, sessions>>

Grant(e, s) ==
  /\ <<e, s>> \in owns
  /\ sessions' = sessions \cup {<<e, s>>}
  /\ UNCHANGED <<accounts, owns>>

Next == \E e \in Emails, s \in Slugs : Register(e, s) \/ OpenTenant(e, s) \/ Grant(e, s)

Spec == Init /\ [][Next]_vars

----------------------------------------------------------------------------

\* Nobody has an account without a workspace, no workspace has two owners or
\* an owner without an account, and sessions are the owners'.
Consistent ==
  /\ \A e \in accounts : \E p \in owns : p[1] = e
  /\ \A p, q \in owns : p[2] = q[2] => p = q
  /\ \A p \in owns : p[1] \in accounts
  /\ sessions \subseteq owns
=============================================================================
