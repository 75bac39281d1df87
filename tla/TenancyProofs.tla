--------------------------- MODULE TenancyProofs ---------------------------
(***************************************************************************)
(* Tenancy implements the registry, for any emails, slugs and requests.    *)
(***************************************************************************)
EXTENDS Tenancy, TLAPS

\* A handler has an email and a slug; only signup works for a new email.
Named ==
  \A r \in Requests :
    req[r].pc # "idle" =>
      /\ req[r].email \in Emails /\ req[r].slug \in Slugs
      /\ req[r].op = "signup" \/ req[r].email \in users
      /\ req[r].pc \in {"find", "user"} => req[r].op = "signup"
      /\ req[r].pc = "check" => req[r].op # "signup"

\* What a transaction has inserted is new, and no other one has inserted it.
Exclusive ==
  /\ \A r \in Requests :
       /\ HoldsEmail(r, req[r].email) => req[r].email \notin users
       /\ HoldsSlug(r, req[r].slug) => req[r].slug \notin tenants
  /\ \A p, q \in Requests :
       /\ HoldsEmail(p, req[p].email) /\ HoldsEmail(q, req[p].email) => p = q
       /\ HoldsSlug(p, req[p].slug) /\ HoldsSlug(q, req[p].slug) => p = q

\* A token is signed for a member.
Backed ==
  \A r \in Requests : req[r].pc = "sign" => <<req[r].email, req[r].slug>> \in members

IInv == TypeOK /\ Named /\ Exclusive /\ Backed /\ RegistryConsistent /\ OneWinner

----------------------------------------------------------------------------
(* Steps of one request *)

OthersSame(r) == \A p \in Requests \ {r} : req'[p] = req[p]

LEMMA IdleRequest ==
  /\ Idle \in Request /\ Idle.pc = "idle" /\ Idle.op = "none"
  /\ NewSettings \in Settings
  BY DEF Idle, Request, Pcs, NewSettings, Settings

\* A step from one await to the next keeps everything but the pc.
LEMMA GoToFields ==
  ASSUME TypeOK, NEW r \in Requests, NEW pc \in Pcs, GoTo(r, pc)
  PROVE  /\ OthersSame(r) /\ req' \in [Requests -> Request]
         /\ req'[r].pc = pc
         /\ pc # "idle" => /\ req'[r].op = req[r].op
                           /\ req'[r].email = req[r].email
                           /\ req'[r].slug = req[r].slug
         /\ UNCHANGED <<users, tenants, members, suspended, settings, tokens,
                        twice, edited, raced>>
  <1>1. req[r] \in Request
    BY DEF TypeOK
  <1> DEFINE p == [req[r] EXCEPT !.pc = pc]
  <1>2. /\ p \in Request /\ p.pc = pc /\ p.op = req[r].op
        /\ p.email = req[r].email /\ p.slug = req[r].slug
    BY <1>1 DEF Request
  <1>3. /\ req' = [req EXCEPT ![r] = IF pc = "idle" THEN Idle ELSE p]
        /\ UNCHANGED <<users, tenants, members, suspended, settings, tokens,
                       twice, edited, raced>>
    BY DEF GoTo, dbVars
  <1> HIDE DEF p
  <1>4. QED
    BY <1>2, <1>3, IdleRequest DEF TypeOK, OthersSame

\* A handler starts: for a caller known to the system, unless it signs up.
LEMMA StartFields ==
  ASSUME TypeOK, Named, RegistryConsistent, NEW r \in Requests,
         \/ StartSignup(r) \/ StartCreate(r) \/ StartSwitch(r)
         \/ StartLogin(r) \/ StartOnboarding(r)
  PROVE  /\ OthersSame(r) /\ req' \in [Requests -> Request]
         /\ req'[r].email \in Emails /\ req'[r].slug \in Slugs
         /\ \/ req'[r].op = "signup" /\ req'[r].pc = "find"
            \/ /\ req'[r].email \in users /\ req'[r].op # "signup"
               /\ req'[r].pc \in {"check", "lookup", "read"}
            \/ /\ req'[r].email \in users
               /\ req'[r].pc = "sign"
               /\ <<req'[r].email, req'[r].slug>> \in members
         /\ UNCHANGED <<users, tenants, members, suspended, settings, tokens,
                        twice, edited, raced>>
  <1>1. \A m \in tokens \cup members :
          m[1] \in Emails /\ m[2] \in Slugs /\ m[1] \in users /\ m = <<m[1], m[2]>>
    BY DEF TypeOK, RegistryConsistent, Registry!Consistent
  <1>2. \E pc \in Pcs, op \in {"signup", "create", "switch", "login", "onboard"},
           e \in Emails, s \in Slugs :
          /\ Start(r, At(pc, op, e, s))
          /\ \/ op = "signup" /\ pc = "find"
             \/ e \in users /\ op # "signup" /\ pc \in {"check", "lookup", "read"}
             \/ e \in users /\ pc = "sign" /\ <<e, s>> \in members
    <2>1. CASE StartSignup(r)
      BY <2>1 DEF StartSignup, Pcs
    <2>2. CASE StartCreate(r)
      BY <2>2, <1>1 DEF StartCreate, Pcs
    <2>3. CASE StartSwitch(r)
      BY <2>3, <1>1 DEF StartSwitch, Pcs
    <2>4. CASE StartLogin(r)
      BY <2>4, <1>1 DEF StartLogin, Pcs
    <2>5. CASE StartOnboarding(r)
      BY <2>5, <1>1 DEF StartOnboarding, Pcs
    <2>6. QED BY <2>1, <2>2, <2>3, <2>4, <2>5
  <1>3. PICK pc \in Pcs, op \in {"signup", "create", "switch", "login", "onboard"},
             e \in Emails, s \in Slugs :
          /\ Start(r, At(pc, op, e, s))
          /\ \/ op = "signup" /\ pc = "find"
             \/ e \in users /\ op # "signup" /\ pc \in {"check", "lookup", "read"}
             \/ e \in users /\ pc = "sign" /\ <<e, s>> \in members
    BY <1>2
  <1> DEFINE p == At(pc, op, e, s)
  <1>4. p \in Request /\ p.pc = pc /\ p.op = op /\ p.email = e /\ p.slug = s
    BY IdleRequest DEF At, Request
  <1>5. /\ req' = [req EXCEPT ![r] = p]
        /\ UNCHANGED <<users, tenants, members, suspended, settings, tokens,
                       twice, edited, raced>>
    BY <1>3 DEF Start, dbVars
  <1> HIDE DEF p
  <1>6. req'[r] = p /\ OthersSame(r) /\ req' \in [Requests -> Request]
    BY <1>4, <1>5 DEF TypeOK, OthersSame
  <1>7. QED
    BY <1>3, <1>4, <1>5, <1>6

----------------------------------------------------------------------------
(* The invariant *)

LEMMA InitInv == Init => IInv
  <1> SUFFICES ASSUME Init PROVE IInv
    OBVIOUS
  <1>1. TypeOK
    BY IdleRequest DEF Init, TypeOK
  <1>2. \A r \in Requests : req[r].pc = "idle"
    BY IdleRequest DEF Init
  <1>3. Named /\ Exclusive /\ Backed
    BY <1>2 DEF Named, Exclusive, Backed, HoldsEmail, HoldsSlug
  <1>4. RegistryConsistent /\ OneWinner
    BY DEF Init, RegistryConsistent, Registry!Consistent, OneWinner
  <1>5. QED BY <1>1, <1>3, <1>4 DEF IInv

\* Steps that neither insert nor commit.
LEMMA QuietStep ==
  ASSUME IInv, NEW r \in Requests, OthersSame(r), req' \in [Requests -> Request],
         UNCHANGED <<users, tenants, members, twice>>,
         suspended' \in SUBSET Slugs, settings' \in [Slugs -> Settings],
         edited' \in [Slugs -> Entries \cup {Unset}], raced' \in SUBSET Slugs,
         tokens' \in SUBSET (Emails \X Slugs), tokens' \subseteq members,
         req'[r].pc # "idle" =>
           /\ req'[r].email \in Emails /\ req'[r].slug \in Slugs
           /\ req'[r].op = "signup" \/ req'[r].email \in users
           /\ req'[r].pc \in {"find", "user"} => req'[r].op = "signup"
           /\ req'[r].pc = "check" => req'[r].op # "signup"
           /\ req'[r].pc \notin {"member", "commit"}
           /\ req'[r].pc = "tenant" => req'[r].op # "signup"
           /\ req'[r].pc = "sign" => <<req'[r].email, req'[r].slug>> \in members
  PROVE  IInv'
  <1>1. TypeOK'
    BY DEF IInv, TypeOK
  <1>2. Named'
    BY DEF IInv, Named, OthersSame
  <1>3. Exclusive'
    BY DEF IInv, Exclusive, OthersSame, HoldsEmail, HoldsSlug
  <1>4. Backed'
    BY DEF IInv, Backed, OthersSame
  <1>5. RegistryConsistent' /\ OneWinner'
    BY DEF IInv, RegistryConsistent, Registry!Consistent, OneWinner
  <1>6. QED BY <1>1, <1>2, <1>3, <1>4, <1>5 DEF IInv
\* Steps inside a transaction: what is newly inserted was free.
LEMMA InsertStep ==
  ASSUME IInv, NEW r \in Requests, OthersSame(r), req' \in [Requests -> Request],
         UNCHANGED <<users, tenants, members, suspended, settings, tokens,
                     twice, edited, raced>>,
         req[r].pc # "idle",
         req'[r].op = req[r].op, req'[r].email = req[r].email,
         req'[r].slug = req[r].slug, req'[r].pc \in {"tenant", "member", "commit"},
         req[r].op = "signup" =>
           /\ req[r].email \notin users
           /\ \A q \in Requests \ {r} : ~HoldsEmail(q, req[r].email),
         req'[r].pc # "tenant" =>
           /\ req[r].slug \notin tenants
           /\ \A q \in Requests \ {r} : ~HoldsSlug(q, req[r].slug)
  PROVE  IInv'
  <1>1. TypeOK'
    BY DEF IInv, TypeOK
  <1>2. Named' /\ Backed'
    BY DEF IInv, Named, Backed, OthersSame
  <1>3. Exclusive'
    BY DEF IInv, Exclusive, OthersSame, HoldsEmail, HoldsSlug
  <1>4. RegistryConsistent' /\ OneWinner'
    BY DEF IInv, RegistryConsistent, Registry!Consistent, OneWinner
  <1>5. QED BY <1>1, <1>2, <1>3, <1>4 DEF IInv

\* A commit adds a new tenant with its owner, for a new or a known email.
LEMMA CommitStep ==
  ASSUME IInv, NEW r \in Requests, Commit(r)
  PROVE  /\ IInv'
         /\ Registry!Register(req[r].email, req[r].slug)
              \/ Registry!OpenTenant(req[r].email, req[r].slug)
         /\ req[r].email \in Emails /\ req[r].slug \in Slugs
  <1> DEFINE e == req[r].email
             s == req[r].slug
  <1>1. /\ req[r].pc = "commit" /\ req[r] \in Request
        /\ e \in Emails /\ s \in Slugs
        /\ s \notin tenants
        /\ IF req[r].op = "signup" THEN e \notin users ELSE e \in users
    BY DEF IInv, Commit, Named, Exclusive, HoldsEmail, HoldsSlug, TypeOK
  <1>2. PICK pc \in {"sign", "lookup"}, v \in Entries \cup {Unset} :
          /\ users' = users \cup {e}
          /\ tenants' = tenants \cup {s}
          /\ members' = members \cup {<<e, s>>}
          /\ settings' = [settings EXCEPT ![s] = [NewSettings EXCEPT !.entry = v]]
          /\ edited' = [edited EXCEPT ![s] = v]
          /\ req' = [req EXCEPT ![r] = [@ EXCEPT !.pc = pc]]
          /\ UNCHANGED <<suspended, tokens, raced>>
    <2>1. PICK v \in Entries \cup {Unset} :
            /\ settings' = [settings EXCEPT ![s] = [NewSettings EXCEPT !.entry = v]]
            /\ edited' = [edited EXCEPT ![s] = v]
      BY DEF Commit
    <2>2. users' = users \cup {e}
      BY <1>1 DEF Commit
    <2>3. QED BY <2>1, <2>2 DEF Commit, Membership
  <1>3. twice' = twice
    BY <1>1 DEF Commit
  <1> DEFINE p == [req[r] EXCEPT !.pc = pc]
  <1>4. /\ p \in Request /\ p.pc = pc /\ p.op = req[r].op
        /\ p.email = e /\ p.slug = s
    BY <1>1 DEF Request, Pcs
  <1>5. req' = [req EXCEPT ![r] = p]
    BY <1>2
  <1> HIDE DEF p
  <1>6. req'[r] = p /\ OthersSame(r) /\ req' \in [Requests -> Request]
    BY <1>4, <1>5 DEF IInv, TypeOK, OthersSame
  <1>7. TypeOK'
    <2>1. [NewSettings EXCEPT !.entry = v] \in Settings
      BY DEF NewSettings, Settings
    <2>2. settings' \in [Slugs -> Settings]
      BY <1>1, <1>2, <2>1 DEF IInv, TypeOK
    <2>3. QED BY <1>1, <1>2, <1>3, <1>6, <2>2 DEF IInv, TypeOK
  <1>8. Named' /\ Backed'
    BY <1>1, <1>2, <1>4, <1>6 DEF IInv, Named, Backed, OthersSame
  <1>9. Exclusive'
    <2>1. \A q \in Requests \ {r} :
            /\ ~HoldsSlug(q, s)
            /\ req[r].op = "signup" => ~HoldsEmail(q, e)
      BY <1>1 DEF IInv, Exclusive, HoldsSlug, HoldsEmail
    <2>2. \A q \in Requests \ {r} : HoldsEmail(q, req[q].email) => req[q].email \notin users'
      BY <1>1, <1>2, <2>1 DEF IInv, Exclusive, HoldsEmail
    <2>3. QED BY <1>2, <1>4, <1>6, <2>1, <2>2
            DEF IInv, Exclusive, HoldsSlug, HoldsEmail, OthersSame
  <1>10. \A m \in members : m[2] # s
    BY <1>1 DEF IInv, RegistryConsistent
  <1>11. Registry!Register(e, s) \/ Registry!OpenTenant(e, s)
    <2>1. Registry!Vacant(s)
      BY <1>10 DEF Registry!Vacant
    <2>2. QED BY <1>1, <1>2, <2>1 DEF Registry!Register, Registry!OpenTenant
  <1>12. RegistryConsistent' /\ OneWinner'
    <2> DEFINE n == <<e, s>>
    <2>1. n[1] = e /\ n[2] = s /\ members' = members \cup {n}
      BY <1>2
    <2> HIDE DEF n
    <2>2. \A x \in users' : \E m \in members' : m[1] = x
      BY <1>2, <2>1 DEF IInv, RegistryConsistent, Registry!Consistent
    <2>3. \A m, o \in members' : m[2] = o[2] => m = o
      BY <1>10, <2>1 DEF IInv, RegistryConsistent, Registry!Consistent
    <2>4. \A m \in members' : m[1] \in users'
      BY <1>2, <2>1 DEF IInv, RegistryConsistent, Registry!Consistent
    <2>5. tokens' \subseteq members'
      BY <1>2 DEF IInv, RegistryConsistent, Registry!Consistent
    <2>6. tenants' = {m[2] : m \in members'}
      BY <1>2, <2>1 DEF IInv, RegistryConsistent
    <2>7. QED BY <1>3, <2>2, <2>3, <2>4, <2>5, <2>6
            DEF IInv, RegistryConsistent, Registry!Consistent, OneWinner
  <1>13. QED
    BY <1>1, <1>7, <1>8, <1>9, <1>11, <1>12 DEF IInv

RegistryStep == [Registry!Next]_<<users, members, tokens>>

\* Every step keeps the invariant, and is one of the registry's or invisible.
LEMMA StepInv ==
  ASSUME IInv, [Next]_vars
  PROVE  IInv' /\ RegistryStep
  <1>0. tokens \subseteq members /\ tokens \in SUBSET (Emails \X Slugs)
    BY DEF IInv, TypeOK, RegistryConsistent, Registry!Consistent
  <1>1. ASSUME NEW r \in Requests,
               \/ StartSignup(r) \/ StartCreate(r) \/ StartSwitch(r)
               \/ StartLogin(r) \/ StartOnboarding(r)
        PROVE  IInv' /\ RegistryStep
    <2>1. IInv'
      BY <1>0, <1>1, StartFields, QuietStep DEF IInv, TypeOK
    <2>2. UNCHANGED <<users, members, tokens>>
      BY <1>1, StartFields DEF IInv
    <2>3. QED BY <2>1, <2>2 DEF RegistryStep
  <1>2. ASSUME NEW r \in Requests, NEW pc \in {"idle", "user", "tenant", "sign"},
               GoTo(r, pc), pc = "user" => req[r].pc = "find",
               pc = "tenant" => req[r].pc = "check",
               pc = "sign" => /\ req[r].pc # "idle"
                              /\ <<req[r].email, req[r].slug>> \in members
        PROVE  IInv' /\ RegistryStep
    <2>1. pc \in Pcs
      BY DEF Pcs
    <2>2. /\ OthersSame(r) /\ req' \in [Requests -> Request]
          /\ req'[r].pc = pc
          /\ pc # "idle" => /\ req'[r].op = req[r].op
                            /\ req'[r].email = req[r].email
                            /\ req'[r].slug = req[r].slug
          /\ UNCHANGED <<users, tenants, members, suspended, settings, tokens,
                         twice, edited, raced>>
      BY <1>2, <2>1, GoToFields DEF IInv
    <2>3. pc # "idle" =>
            /\ req[r].email \in Emails /\ req[r].slug \in Slugs
            /\ req[r].op = "signup" \/ req[r].email \in users
            /\ pc = "user" => req[r].op = "signup"
            /\ pc = "tenant" => req[r].op # "signup"
      BY <1>2 DEF IInv, Named
    <2>4. IInv'
      BY <1>0, <1>2, <2>2, <2>3, QuietStep DEF IInv, TypeOK
    <2>5. QED BY <2>2, <2>4 DEF RegistryStep
  <1>3. ASSUME NEW r \in Requests,
               FindUser(r) \/ CheckSlug(r) \/ Lookup(r) \/ Abort(r)
        PROVE  IInv' /\ RegistryStep
    BY <1>2, <1>3 DEF FindUser, CheckSlug, Lookup, MaySwitch, Abort
  <1>4. ASSUME NEW r \in Requests, InsertUser(r) \/ InsertTenant(r) \/ InsertMember(r)
        PROVE  IInv' /\ RegistryStep
    <2>1. CASE GoTo(r, "idle")
      BY <1>2, <2>1
    <2>2. ASSUME NEW pc \in {"tenant", "member", "commit"}, GoTo(r, pc),
                 \/ InsertUser(r) /\ req[r].email \notin users /\ pc = "tenant"
                 \/ InsertTenant(r) /\ ~SlugTaken(req[r].slug) /\ pc = "member"
                 \/ InsertMember(r) /\ pc = "commit"
          PROVE  IInv' /\ RegistryStep
      <3>1. pc \in Pcs
        BY DEF Pcs
      <3>2. /\ OthersSame(r) /\ req' \in [Requests -> Request]
            /\ req'[r].pc = pc /\ req'[r].op = req[r].op
            /\ req'[r].email = req[r].email /\ req'[r].slug = req[r].slug
            /\ UNCHANGED <<users, tenants, members, suspended, settings, tokens,
                           twice, edited, raced>>
        BY <2>2, <3>1, GoToFields DEF IInv
      <3>3. req[r].op = "signup" =>
              /\ req[r].email \notin users
              /\ \A q \in Requests \ {r} : ~HoldsEmail(q, req[r].email)
        <4>1. CASE InsertUser(r)
          BY <2>2, <4>1 DEF InsertUser, InsertTenant, InsertMember
        <4>2. CASE req[r].pc \in {"tenant", "member"}
          BY <4>2 DEF IInv, Exclusive, HoldsEmail
        <4>3. QED BY <2>2, <4>1, <4>2 DEF InsertTenant, InsertMember
      <3>4. pc # "tenant" =>
              /\ req[r].slug \notin tenants
              /\ \A q \in Requests \ {r} : ~HoldsSlug(q, req[r].slug)
        <4>1. CASE InsertTenant(r)
          BY <2>2, <4>1 DEF InsertUser, InsertTenant, InsertMember, SlugTaken
        <4>2. CASE InsertMember(r)
          BY <4>2 DEF InsertMember, IInv, Exclusive, HoldsSlug
        <4>3. QED BY <2>2, <4>1, <4>2
      <3>5. req[r].pc # "idle"
        BY <2>2 DEF InsertUser, InsertTenant, InsertMember
      <3>6. IInv'
        BY <3>2, <3>3, <3>4, <3>5, InsertStep
      <3>7. QED BY <3>2, <3>6 DEF RegistryStep
    <2>3. QED BY <1>4, <2>1, <2>2 DEF InsertUser, InsertTenant, InsertMember
  <1>5. ASSUME NEW r \in Requests, Commit(r) PROVE IInv' /\ RegistryStep
    BY <1>5, CommitStep DEF RegistryStep, Registry!Next
  <1>6. ASSUME NEW r \in Requests, Sign(r) PROVE IInv' /\ RegistryStep
    <2> DEFINE n == <<req[r].email, req[r].slug>>
    <2>1. n \in members /\ req[r].email \in Emails /\ req[r].slug \in Slugs
      BY <1>6 DEF Sign, IInv, Backed, Named
    <2>2. /\ OthersSame(r) /\ req' \in [Requests -> Request]
          /\ req'[r].pc = "idle"
      BY <1>6, IdleRequest DEF Sign, OthersSame, IInv, TypeOK
    <2>3. /\ tokens' = tokens \cup {n}
          /\ UNCHANGED <<users, tenants, members, suspended, settings, twice,
                         edited, raced>>
      BY <1>6 DEF Sign, dbVars
    <2>4. IInv'
      BY <1>0, <2>1, <2>2, <2>3, QuietStep DEF IInv, TypeOK
    <2>5. Registry!Grant(req[r].email, req[r].slug)
      BY <2>1, <2>3 DEF Registry!Grant
    <2>6. QED BY <2>1, <2>4, <2>5 DEF RegistryStep, Registry!Next
  <1>7. ASSUME NEW r \in Requests, ReadSettings(r) PROVE IInv' /\ RegistryStep
    <2>1. req[r] \in Request /\ req[r].slug \in Slugs /\ req[r].email \in Emails
      BY <1>7 DEF ReadSettings, IInv, TypeOK, Named
    <2> DEFINE p == [req[r] EXCEPT !.pc = "merge", !.seen = settings[req[r].slug]]
    <2>2. /\ p \in Request /\ p.pc = "merge" /\ p.op = req[r].op
          /\ p.email = req[r].email /\ p.slug = req[r].slug
      BY <2>1 DEF Request, Pcs, IInv, TypeOK
    <2>3. req' = [req EXCEPT ![r] = p]
      BY <1>7 DEF ReadSettings
    <2> HIDE DEF p
    <2>4. req'[r] = p /\ OthersSame(r) /\ req' \in [Requests -> Request]
      BY <2>2, <2>3 DEF OthersSame, IInv, TypeOK
    <2>5. UNCHANGED <<users, tenants, members, suspended, settings, tokens,
                      twice, edited, raced>>
      BY <1>7 DEF ReadSettings, dbVars
    <2>6. req[r].op = "signup" \/ req[r].email \in users
      BY <1>7 DEF ReadSettings, IInv, Named
    <2>7. IInv'
      BY <1>0, <2>1, <2>2, <2>4, <2>5, <2>6, QuietStep DEF IInv, TypeOK
    <2>8. QED BY <2>5, <2>7 DEF RegistryStep
  <1>8. ASSUME NEW r \in Requests, MergeSettings(r) PROVE IInv' /\ RegistryStep
    <2>1. req[r].seen \in Settings
      BY DEF IInv, TypeOK, Request
    <2>2. Merged(req[r].seen) \in Settings
      BY <2>1 DEF Merged, Settings
    <2>3. /\ OthersSame(r) /\ req' \in [Requests -> Request]
          /\ req'[r].pc = "idle"
      BY <1>8, IdleRequest DEF MergeSettings, OthersSame, IInv, TypeOK
    <2>4. /\ settings' \in [Slugs -> Settings]
          /\ UNCHANGED <<users, tenants, members, suspended, tokens, twice,
                         edited, raced>>
      BY <1>8, <2>2 DEF MergeSettings, dbVars, IInv, TypeOK
    <2>5. IInv'
      BY <1>0, <2>3, <2>4, QuietStep DEF IInv, TypeOK
    <2>6. QED BY <2>4, <2>5 DEF RegistryStep
  <1>9. CASE UpdateCurrent \/ (\E s \in Slugs : SetStatus(s)) \/ UNCHANGED vars
    <2>1. UNCHANGED <<users, tenants, members, req, tokens, twice>>
      BY <1>9 DEF UpdateCurrent, SetStatus, dbVars, vars
    <2>2. TypeOK'
      <3>1. CASE UpdateCurrent
        <4>1. PICK t \in tokens, d \in BOOLEAN, v \in Entries \cup {Unset} :
                /\ t[2] \in Watched
                /\ settings' = [settings EXCEPT ![t[2]] = [done |-> d, entry |-> v]]
                /\ edited' = [edited EXCEPT ![t[2]] = v]
                /\ raced' \in {raced, raced \cup {t[2]}}
                /\ UNCHANGED suspended
          BY <3>1 DEF UpdateCurrent
        <4>2. t[2] \in Slugs /\ [done |-> d, entry |-> v] \in Settings
          BY <4>1, TenancyAssumption DEF Settings
        <4>3. QED BY <2>1, <4>1, <4>2 DEF IInv, TypeOK
      <3>2. CASE \E s \in Slugs : SetStatus(s)
        BY <2>1, <3>2 DEF SetStatus, IInv, TypeOK
      <3>3. CASE UNCHANGED vars
        BY <3>3 DEF vars, IInv, TypeOK
      <3>4. QED BY <1>9, <3>1, <3>2, <3>3
    <2>3. Named' /\ Exclusive' /\ Backed' /\ RegistryConsistent' /\ OneWinner'
      BY <2>1 DEF IInv, Named, Exclusive, Backed, HoldsEmail, HoldsSlug,
         RegistryConsistent, Registry!Consistent, OneWinner
    <2>4. QED BY <2>1, <2>2, <2>3 DEF IInv, RegistryStep
  <1>10. QED
    BY <1>1, <1>3, <1>4, <1>5, <1>6, <1>7, <1>8, <1>9 DEF Next, Progress

\* The inductive invariant.
THEOREM InvariantHolds == Spec => []IInv
  <1>1. IInv /\ [Next]_vars => IInv'
    BY StepInv
  <1>2. QED BY InitInv, <1>1, PTL DEF Spec

\* Every variable keeps its shape.
THEOREM TypeCorrect == Spec => []TypeOK
  <1>1. IInv => TypeOK
    BY DEF IInv
  <1>2. QED BY <1>1, InvariantHolds, PTL

\* No orphan users or tenants, one owner per tenant, tokens for members only.
THEOREM RegistryConsistentCorrect == Spec => []RegistryConsistent
  <1>1. IInv => RegistryConsistent
    BY DEF IInv
  <1>2. QED BY <1>1, InvariantHolds, PTL

\* No email is registered and no slug created twice.
THEOREM OneWinnerCorrect == Spec => []OneWinner
  <1>1. IInv => OneWinner
    BY DEF IInv
  <1>2. QED BY <1>1, InvariantHolds, PTL

\* The handlers, interleaved and aborted at will, implement the registry.
THEOREM Implementation == Spec => ImplementsRegistry
  <1>1. Init => Registry!Init
    BY DEF Init, Registry!Init
  <1>2. IInv /\ [Next]_vars => RegistryStep
    BY StepInv
  <1>3. QED
    BY <1>1, <1>2, InvariantHolds, PTL DEF Spec, ImplementsRegistry, RegistryStep

----------------------------------------------------------------------------
(* Settings *)

\* An onboarding works on a tenant that exists, and what it has read is what
\* the tenant's settings hold, but for those that someone wrote meanwhile.
ReadHolds ==
  \A r \in Requests :
    /\ req[r].pc \in {"read", "merge"} => req[r].slug \in tenants
    /\ req[r].pc = "merge" /\ req[r].slug \notin raced =>
         req[r].seen.entry = edited[req[r].slug]

SettingsInv == ReadHolds /\ SerialSettings

\* Steps of a handler that is not between its read and its write afterwards.
LEMMA SettingsKept ==
  ASSUME IInv, SettingsInv, NEW r \in Requests, OthersSame(r),
         UNCHANGED <<tenants, settings, edited, raced>>,
         req'[r].pc # "merge", req'[r].pc = "read" => req'[r].slug \in tenants
  PROVE  SettingsInv'
  BY DEF SettingsInv, ReadHolds, SerialSettings, OthersSame

LEMMA SettingsStep ==
  ASSUME IInv, SettingsInv, [Next]_vars
  PROVE  SettingsInv'
  <1>0. /\ req \in [Requests -> Request] /\ tenants \subseteq Slugs
        /\ settings \in [Slugs -> Settings] /\ edited \in [Slugs -> Entries \cup {Unset}]
        /\ \A t \in tokens \cup members : t[2] \in tenants
    BY DEF IInv, TypeOK, RegistryConsistent, Registry!Consistent
  <1>1. ASSUME NEW r \in Requests, NEW pc \in Pcs \ {"read", "merge"}, GoTo(r, pc)
        PROVE  SettingsInv'
    <2>1. OthersSame(r) /\ req'[r].pc = pc /\ UNCHANGED <<tenants, settings, edited, raced>>
      BY <1>1, GoToFields DEF IInv
    <2>2. QED BY <2>1, SettingsKept
  <1>2. ASSUME NEW r \in Requests,
               \/ FindUser(r) \/ InsertUser(r) \/ CheckSlug(r) \/ InsertTenant(r)
               \/ InsertMember(r) \/ Lookup(r) \/ Abort(r)
        PROVE  SettingsInv'
    BY <1>1, <1>2 DEF FindUser, InsertUser, CheckSlug, InsertTenant, InsertMember,
       Lookup, Abort, Pcs
  <1>3. ASSUME NEW r \in Requests,
               \/ StartSignup(r) \/ StartCreate(r) \/ StartSwitch(r)
               \/ StartLogin(r) \/ StartOnboarding(r)
        PROVE  SettingsInv'
    <2>1. OthersSame(r) /\ UNCHANGED <<tenants, settings, edited, raced>>
      BY <1>3, StartFields DEF IInv
    <2>2. req'[r].pc # "merge"
      BY <1>3, StartFields DEF IInv
    <2>3. req'[r].pc = "read" => req'[r].slug \in tenants
      <3>1. ASSUME NEW pc, NEW op, NEW e, NEW s, Start(r, At(pc, op, e, s)),
                   pc = "read" => s \in tenants
            PROVE  req'[r].pc = "read" => req'[r].slug \in tenants
        BY <3>1, <1>0 DEF Start, At
      <3>2. CASE StartOnboarding(r)
        BY <3>1, <3>2, <1>0 DEF StartOnboarding
      <3>3. CASE \/ StartSignup(r) \/ StartCreate(r) \/ StartSwitch(r) \/ StartLogin(r)
        BY <3>1, <3>3 DEF StartSignup, StartCreate, StartSwitch, StartLogin
      <3>4. QED BY <1>3, <3>2, <3>3
    <2>4. QED BY <2>1, <2>2, <2>3, SettingsKept
  <1>4. ASSUME NEW r \in Requests, Sign(r) PROVE SettingsInv'
    <2>1. /\ OthersSame(r) /\ req'[r].pc = "idle"
          /\ UNCHANGED <<tenants, settings, edited, raced>>
      BY <1>0, <1>4, IdleRequest DEF Sign, OthersSame, dbVars
    <2>2. QED BY <2>1, SettingsKept
  <1>5. ASSUME NEW r \in Requests, Commit(r) PROVE SettingsInv'
    <2> DEFINE s == req[r].slug
    <2>1. s \in Slugs /\ s \notin tenants
      BY <1>5 DEF IInv, Commit, Named, Exclusive, HoldsSlug
    <2>2. PICK v \in Entries \cup {Unset} :
            /\ settings' = [settings EXCEPT ![s] = [NewSettings EXCEPT !.entry = v]]
            /\ edited' = [edited EXCEPT ![s] = v]
      BY <1>5 DEF Commit
    <2>3. [NewSettings EXCEPT !.entry = v].entry = v
      BY DEF NewSettings
    <2>4. /\ tenants' = tenants \cup {s} /\ UNCHANGED raced
          /\ OthersSame(r) /\ req'[r].pc \in {"sign", "lookup"}
      BY <1>0, <1>5 DEF Commit, OthersSame, Request
    <2> HIDE DEF s
    <2>5. settings'[s].entry = v /\ edited'[s] = v
      BY <1>0, <2>1, <2>2, <2>3
    <2>6. \A u \in tenants : settings'[u] = settings[u] /\ edited'[u] = edited[u]
      BY <1>0, <2>1, <2>2
    <2>7. SerialSettings'
      BY <2>4, <2>5, <2>6 DEF SettingsInv, SerialSettings
    <2>8. ReadHolds'
      BY <2>4, <2>6 DEF SettingsInv, ReadHolds, OthersSame
    <2>9. QED BY <2>7, <2>8 DEF SettingsInv
  <1>6. ASSUME NEW r \in Requests, ReadSettings(r) PROVE SettingsInv'
    <2>1. /\ OthersSame(r) /\ UNCHANGED <<tenants, settings, edited, raced>>
          /\ req[r].pc = "read" /\ req'[r].pc = "merge" /\ req'[r].slug = req[r].slug
          /\ req'[r].seen = settings[req[r].slug]
      BY <1>0, <1>6 DEF ReadSettings, OthersSame, dbVars, Request
    <2>2. req[r].slug \in tenants
      BY <2>1 DEF SettingsInv, ReadHolds
    <2>3. QED BY <2>1, <2>2 DEF SettingsInv, ReadHolds, SerialSettings, OthersSame
  <1>7. ASSUME NEW r \in Requests, MergeSettings(r) PROVE SettingsInv'
    <2> DEFINE s == req[r].slug
    <2>1. /\ OthersSame(r) /\ req'[r].pc = "idle" /\ req[r].pc = "merge"
          /\ UNCHANGED <<tenants, edited, raced>>
          /\ settings' = [settings EXCEPT ![s] = Merged(req[r].seen)]
      BY <1>0, <1>7, IdleRequest DEF MergeSettings, OthersSame, dbVars
    <2>2. Merged(req[r].seen).entry = req[r].seen.entry
      BY <1>0 DEF Merged, Request, Settings
    <2>3. s \in Slugs /\ (s \notin raced => req[r].seen.entry = edited[s])
      BY <1>0, <2>1 DEF SettingsInv, ReadHolds
    <2> HIDE DEF s
    <2>4. s \notin raced => settings'[s].entry = edited[s]
      BY <1>0, <2>1, <2>2, <2>3
    <2>5. \A u \in tenants : u # s => settings'[u] = settings[u]
      BY <1>0, <2>1
    <2>6. SerialSettings'
      BY <2>1, <2>4, <2>5 DEF SettingsInv, SerialSettings
    <2>7. ReadHolds'
      BY <2>1 DEF SettingsInv, ReadHolds, OthersSame
    <2>8. QED BY <2>6, <2>7 DEF SettingsInv
  <1>8. CASE UpdateCurrent
    <2>1. PICK t \in tokens, d \in BOOLEAN, v \in Entries \cup {Unset} :
            /\ settings' = [settings EXCEPT ![t[2]] = [done |-> d, entry |-> v]]
            /\ edited' = [edited EXCEPT ![t[2]] = v]
            /\ raced' = IF \E r \in Requests : req[r].pc = "merge" /\ req[r].slug = t[2]
                        THEN raced \cup {t[2]} ELSE raced
            /\ UNCHANGED <<tenants, req>>
      BY <1>8 DEF UpdateCurrent, dbVars
    <2> DEFINE s == t[2]
    <2>2. s \in tenants
      BY <1>0
    <2>3. settings'[s].entry = v /\ edited'[s] = v
      BY <1>0, <2>1, <2>2
    <2>4. \A u \in tenants : u # s => settings'[u] = settings[u] /\ edited'[u] = edited[u]
      BY <1>0, <2>1
    <2>5. raced \subseteq raced'
      BY <2>1
    <2>6. \A r \in Requests : req[r].pc = "merge" /\ req[r].slug = s => s \in raced'
      BY <2>1
    <2>7. UNCHANGED <<tenants, req>>
      BY <2>1
    <2> HIDE DEF s
    <2>8. SerialSettings'
      BY <2>3, <2>4, <2>5, <2>7 DEF SettingsInv, SerialSettings
    <2>9. ReadHolds'
      BY <2>4, <2>5, <2>6, <2>7 DEF SettingsInv, ReadHolds
    <2>10. QED BY <2>8, <2>9 DEF SettingsInv
  <1>9. CASE (\E s \in Slugs : SetStatus(s)) \/ UNCHANGED vars
    BY <1>9 DEF SetStatus, dbVars, vars, SettingsInv, ReadHolds, SerialSettings
  <1>10. QED
    BY <1>2, <1>3, <1>4, <1>5, <1>6, <1>7, <1>8, <1>9 DEF Next, Progress

\* Completing the onboarding keeps what the client last wrote into the settings,
\* unless the write came between its read and its own write.
THEOREM SerialSettingsCorrect == Spec => []SerialSettings
  <1>1. Init => SettingsInv
    <2> SUFFICES ASSUME Init PROVE SettingsInv
      OBVIOUS
    <2>1. \A r \in Requests : req[r].pc = "idle"
      BY IdleRequest DEF Init
    <2>2. QED BY <2>1 DEF Init, SettingsInv, ReadHolds, SerialSettings
  <1>2. IInv /\ SettingsInv /\ [Next]_vars => SettingsInv'
    BY SettingsStep
  <1>3. SettingsInv => SerialSettings
    BY DEF SettingsInv
  <1>4. QED BY <1>1, <1>2, <1>3, InvariantHolds, PTL DEF Spec
=============================================================================
