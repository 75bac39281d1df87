------------------------------ MODULE Tenancy ------------------------------
(***************************************************************************)
(* Accounts and workspaces: AuthService (auth.service.ts) and              *)
(* TenantsService (tenants.service.ts) over the User, Tenant and           *)
(* UserTenant tables.  A handler runs through its database calls one at a  *)
(* time.  The rows a transaction has inserted are the ones its handler has *)
(* gone past; nobody else sees them before the commit, and an insert of    *)
(* the same unique value waits until that transaction ends.                *)
(*                                                                         *)
(* A user is its email and a tenant its slug, both unique.  The only role  *)
(* the code ever writes is OWNER, so a membership is a pair.  Of a         *)
(* tenant's settings, onboardingComplete and one other entry are kept.     *)
(***************************************************************************)
EXTENDS Integers

CONSTANTS
  Emails,
  Slugs,
  Requests,   \* handler invocations that may be in flight together
  Watched,    \* tenants whose settings and status are followed (bound)
  Entries,    \* values of the other entry of settings
  Unset,      \* no such entry
  None        \* no email or slug

ASSUME TenancyAssumption ==
  /\ Watched \subseteq Slugs
  /\ Unset \notin Entries
  /\ None \notin Emails \cup Slugs

VARIABLES
  users,      \* emails of committed User rows
  tenants,    \* slugs of committed Tenant rows
  members,    \* committed UserTenant rows, as <<email, slug>>
  suspended,  \* tenants whose status is not ACTIVE
  settings,   \* slug -> settings
  req,        \* request -> where its handler is
  tokens,     \* history: <<email, slug>> of the tokens handed out
  twice,      \* history: emails and slugs created a second time
  edited,     \* history: slug -> the entry last written by a client
  raced       \* history: tenants whose settings were written between the
              \*   read and the write of an onboarding

dbVars == <<users, tenants, members>>
vars == <<users, tenants, members, suspended, settings, req, tokens, twice,
          edited, raced>>

----------------------------------------------------------------------------

Settings == [done: BOOLEAN, entry: Entries \cup {Unset}]
NewSettings == [done |-> FALSE, entry |-> Unset]

Pcs == {"idle", "find", "user", "check", "tenant", "member", "commit",
        "lookup", "sign", "read", "merge"}

Request ==
  [pc: Pcs, op: {"none", "signup", "create", "switch", "login", "onboard"},
   email: Emails \cup {None}, slug: Slugs \cup {None},
   seen: Settings]                 \* the settings that onboarding read

Idle == [pc |-> "idle", op |-> "none", email |-> None, slug |-> None,
         seen |-> NewSettings]

At(pc, op, e, s) ==
  [pc |-> pc, op |-> op, email |-> e, slug |-> s, seen |-> NewSettings]

Init ==
  /\ users = {}
  /\ tenants = {}
  /\ members = {}
  /\ suspended = {}
  /\ settings = [s \in Slugs |-> NewSettings]
  /\ req = [r \in Requests |-> Idle]
  /\ tokens = {}
  /\ twice = {}
  /\ edited = [s \in Slugs |-> Unset]
  /\ raced = {}

----------------------------------------------------------------------------
(* Unique values *)

\* Inserted by a transaction that has not ended yet.
HoldsEmail(r, e) ==
  /\ req[r].op = "signup"
  /\ req[r].email = e
  /\ req[r].pc \in {"tenant", "member", "commit"}

\* Mutant of HoldsSlug: those who are about to insert hold the slug as well.
ClaimsSlug(r, s) == req[r].slug = s /\ req[r].pc \in {"tenant", "member", "commit"}

HoldsSlug(r, s) == req[r].slug = s /\ req[r].pc \in {"member", "commit"}

\* Mutant of SlugTaken: no unique index on Tenant.slug.
NoSlugIndex(s) == FALSE

SlugTaken(s) == s \in tenants

\* Mutant of Membership: the columns are swapped.
SwappedMembership(e, s) == <<s, e>>

\* A UserTenant row with role OWNER.
Membership(e, s) == <<e, s>>

----------------------------------------------------------------------------
(* Steps of a handler *)

Start(r, rec) ==
  /\ req[r].pc = "idle"
  /\ req' = [req EXCEPT ![r] = rec]
  /\ UNCHANGED <<dbVars, suspended, settings, tokens, twice, edited, raced>>

\* An await answers: the handler goes on at pc, or ends with an error.
GoTo(r, pc) ==
  /\ req' = [req EXCEPT ![r] = IF pc = "idle" THEN Idle ELSE [@ EXCEPT !.pc = pc]]
  /\ UNCHANGED <<dbVars, suspended, settings, tokens, twice, edited, raced>>

StartSignup(r) ==
  \E e \in Emails, s \in Slugs : Start(r, At("find", "signup", e, s))

\* The transaction looks for the email first: 409 if it is registered.
FindUser(r) ==
  /\ req[r].pc = "find"
  /\ GoTo(r, IF req[r].email \in users THEN "idle" ELSE "user")

\* Mutant of InsertUser: created outside the transaction.
InsertUserDirectly(r) ==
  LET e == req[r].email IN
  /\ req[r].pc = "user"
  /\ users' = users \cup {e}
  /\ req' = [req EXCEPT ![r].pc = "tenant"]
  /\ UNCHANGED <<tenants, members, suspended, settings, tokens, twice, edited, raced>>

\* The insert waits for another transaction with the same email, and fails
\* (P2002, 409) if that one has committed.
InsertUser(r) ==
  LET e == req[r].email IN
  /\ req[r].pc = "user"
  /\ \A q \in Requests \ {r} : ~HoldsEmail(q, e)
  /\ GoTo(r, IF e \in users THEN "idle" ELSE "tenant")

\* createTenant, for a caller that has a token.
StartCreate(r) ==
  \E t \in tokens, s \in Slugs : Start(r, At("check", "create", t[1], s))

\* Its look at the slug is outside the transaction: 409 if it is taken.
CheckSlug(r) ==
  /\ req[r].pc = "check"
  /\ GoTo(r, IF req[r].slug \in tenants THEN "idle" ELSE "tenant")

\* P2002 again if the slug is taken: a 409 of signup, a 500 of createTenant.
InsertTenant(r) ==
  LET s == req[r].slug IN
  /\ req[r].pc = "tenant"
  /\ \A q \in Requests \ {r} : ~HoldsSlug(q, s)
  /\ GoTo(r, IF SlugTaken(s) THEN "idle" ELSE "member")

InsertMember(r) ==
  /\ req[r].pc = "member"
  /\ GoTo(r, "commit")

\* All rows appear together.  signup then signs a token, and the controller
\* of createTenant switches to the new tenant.
Commit(r) ==
  LET q == req[r] IN
  /\ q.pc = "commit"
  /\ users' = IF q.op = "signup" THEN users \cup {q.email} ELSE users
  /\ tenants' = tenants \cup {q.slug}
  /\ members' = members \cup {Membership(q.email, q.slug)}
  /\ \E v \in IF q.op = "create" /\ q.slug \in Watched THEN Entries \cup {Unset} ELSE {Unset} :
       /\ settings' = [settings EXCEPT ![q.slug] = [NewSettings EXCEPT !.entry = v]]
       /\ edited' = [edited EXCEPT ![q.slug] = v]
  /\ twice' = twice \cup ({q.slug} \cap tenants)
                    \cup (IF q.op = "signup" THEN {q.email} \cap users ELSE {})
  /\ req' = [req EXCEPT ![r].pc = IF q.op = "signup" THEN "sign" ELSE "lookup"]
  /\ UNCHANGED <<suspended, tokens, raced>>

\* switchTenant, for a caller that has a token.
StartSwitch(r) ==
  \E t \in tokens, s \in Slugs : Start(r, At("lookup", "switch", t[1], s))

\* Mutant of MaySwitch: the membership is not looked up.
AnyActiveTenant(q) == q.slug \in tenants \ suspended

\* The caller is a member of the tenant, and the tenant is ACTIVE.
MaySwitch(q) == <<q.email, q.slug>> \in members /\ q.slug \notin suspended

Lookup(r) ==
  /\ req[r].pc = "lookup"
  /\ GoTo(r, IF MaySwitch(req[r]) THEN "sign" ELSE "idle")

\* login, with the right password: the token is for memberships[0], whichever
\* row the database returns first.
StartLogin(r) == \E m \in members : Start(r, At("sign", "login", m[1], m[2]))

Sign(r) ==
  /\ req[r].pc = "sign"
  /\ tokens' = tokens \cup {<<req[r].email, req[r].slug>>}
  /\ req' = [req EXCEPT ![r] = Idle]
  /\ UNCHANGED <<dbVars, suspended, settings, twice, edited, raced>>

StartOnboarding(r) ==
  \E t \in {t \in tokens : t[2] \in Watched} : Start(r, At("read", "onboard", t[1], t[2]))

ReadSettings(r) ==
  /\ req[r].pc = "read"
  /\ req' = [req EXCEPT ![r].pc = "merge", ![r].seen = settings[req[r].slug]]
  /\ UNCHANGED <<dbVars, suspended, settings, tokens, twice, edited, raced>>

\* Mutant of Merged: the settings are not merged.
Replaced(seen) == [NewSettings EXCEPT !.done = TRUE]

Merged(seen) == [seen EXCEPT !.done = TRUE]

\* The settings that were read are written back, with the flag set; READ
\* COMMITTED lets another write in between.
MergeSettings(r) ==
  /\ req[r].pc = "merge"
  /\ settings' = [settings EXCEPT ![req[r].slug] = Merged(req[r].seen)]
  /\ req' = [req EXCEPT ![r] = Idle]
  /\ UNCHANGED <<dbVars, suspended, tokens, twice, edited, raced>>

\* updateCurrent replaces the settings by the client's, in one statement.
UpdateCurrent ==
  \E t \in tokens, d \in BOOLEAN, v \in Entries \cup {Unset} :
    /\ t[2] \in Watched
    /\ settings' = [settings EXCEPT ![t[2]] = [done |-> d, entry |-> v]]
    /\ edited' = [edited EXCEPT ![t[2]] = v]
    /\ raced' = IF \E r \in Requests : req[r].pc = "merge" /\ req[r].slug = t[2]
                THEN raced \cup {t[2]} ELSE raced
    /\ UNCHANGED <<dbVars, suspended, req, tokens, twice>>

\* An operator changes a tenant's status in the database.
SetStatus(s) ==
  /\ s \in tenants \cap Watched
  /\ suspended' = (suspended \cup {s}) \ (suspended \cap {s})
  /\ UNCHANGED <<dbVars, settings, req, tokens, twice, edited, raced>>

\* The process stops, a transaction times out or the database refuses: what
\* was not committed is rolled back.
Abort(r) ==
  /\ req[r].pc # "idle"
  /\ GoTo(r, "idle")

\* What the event loop and the database do by themselves.
Progress(r) ==
  \/ FindUser(r) \/ InsertUser(r) \/ CheckSlug(r) \/ InsertTenant(r)
  \/ InsertMember(r) \/ Commit(r) \/ Lookup(r) \/ Sign(r)
  \/ ReadSettings(r) \/ MergeSettings(r)

Next ==
  \/ UpdateCurrent
  \/ \E s \in Slugs : SetStatus(s)
  \/ \E r \in Requests :
       \/ StartSignup(r) \/ StartCreate(r) \/ StartSwitch(r)
       \/ StartLogin(r) \/ StartOnboarding(r)
       \/ Progress(r) \/ Abort(r)

\* Awaits are answered in the end; the inserts that wait for a unique value are
\* let in one after the other as the transactions before them end.
Spec == Init /\ [][Next]_vars /\ \A r \in Requests : SF_vars(Progress(r))

----------------------------------------------------------------------------
(* Properties *)

\* Every variable has its shape.
TypeOK ==
  /\ users \in SUBSET Emails
  /\ tenants \in SUBSET Slugs
  /\ members \in SUBSET (Emails \X Slugs)
  /\ suspended \in SUBSET Slugs
  /\ settings \in [Slugs -> Settings]
  /\ req \in [Requests -> Request]
  /\ tokens \in SUBSET (Emails \X Slugs)
  /\ twice \in SUBSET (Emails \cup Slugs)
  /\ edited \in [Slugs -> Entries \cup {Unset}]
  /\ raced \in SUBSET Slugs

Registry == INSTANCE TenantRegistry
              WITH accounts <- users, owns <- members, sessions <- tokens

\* Signup is atomic ("no orphan User rows, no orphan Tenant rows", 26), a
\* tenant comes with its owner, and tokens go to owners: whatever interleaves,
\* aborts or fails, the tables take only the steps of the registry.
ImplementsRegistry == Registry!Init /\ [][Registry!Next]_<<users, members, tokens>>

\* Nobody has an account without a workspace, no tenant two owners, and every
\* token handed out is backed by a membership.
RegistryConsistent ==
  /\ Registry!Consistent
  /\ tenants = {m[2] : m \in members}

\* Of the signups for one email and the creations of one slug, one succeeds,
\* although each looks for the value before the other inserts it.
OneWinner == twice = {}

\* Completing the onboarding keeps the rest of the settings, unless someone
\* wrote them between its read and its write.
SerialSettings == \A s \in tenants \ raced : settings[s].entry = edited[s]

\* Handlers that wait for each other's inserts never wait in a circle: every
\* request ends.
Answered == \A r \in Requests : req[r].pc # "idle" ~> req[r].pc = "idle"
=============================================================================
