# Omyxia in TLA+

Specifications of the stateful parts of the Omyxia API (`apps/api`) and of the pages over it (`apps/web`):
TLA+ modules translated from the TypeScript, TLC configurations that check them on small instances, and
theorems about them that TLAPS checks for every value of the constants. `PROJECT.json` maps every definition
to the lines it stands for, and lists the runs, the mutants that each property must catch, the hazards and
the theorems.

To repeat the work, in this directory:

    tlc -workers 2 -config MCFiles.cfg MCFiles      # a run: the cfg and the module of the run
    tlapm FilesProofs.tla                           # the proofs of a module

## 1. The system

Omyxia is a multi-tenant back office: a NestJS API over PostgreSQL (Prisma), Redis, an S3 store and a mail
server, and a Next.js web application. Every handler is an `async` method: it runs to its next `await`,
then other requests run. Almost nothing is done in a database transaction, so nearly all hard behaviour is
of one form: a handler reads a row, awaits, and writes what follows from what it read.

| Component | State it keeps | Operations | Talks to | What is hard |
|---|---|---|---|---|
| Second factor, `modules/mfa` | `MfaFactor` rows: secret, hashed recovery codes, `lastUsedAt`, `isActive` | enroll, verify, regenerate, disable, status | database, clock | read, slow hash, write without a condition; replay over time steps |
| MFA rate limit, `mfa-rate-limit.guard.ts` | a map of counters in memory | one check per attempt | clock | window boundary, per process |
| Files, `workspace/files.service.ts`, `storage/` | `FileItem` rows; objects and presigned URLs of the store | presign, finalize, download, delete, legacy upload | database, S3, and the client behind the API's back | two stores, no transaction; late uploads; swallowed errors |
| Accounts and tenants, `auth`, `tenants` | `User`, `Tenant`, `UserTenant` rows, `Tenant.settings`, JWTs | signup, login, onboarding, create, switch, rename | database transactions | check, then insert; unique indexes; read-modify-write of JSON |
| Presence, `realtime/` | a Redis set per tenant, socket rooms | connect, disconnect, heartbeat | Redis, socket.io | handlers of one user interleave; two commands where one is meant; key lifetime |
| Chat, `realtime/chat.gateway.ts`, `workspace/chat.service.ts` | channels, members, messages; rooms | create channel, send, join at connection | database, socket.io | check, store, broadcast; stale rooms |
| Mail, `mail/` | `EmailMessage` rows; one IMAP mailbox for all tenants | sync, poll, send, list, mark read | IMAP, SMTP, database | three systems, no transaction; duplicates; breaks |
| Tenant context, Prisma, Redis clients, `common/` | per-request ids | run with a context | everything | `req.user` (see below) |
| Roles, `auth/rbac` | none | compare roles with a route's list | guards | none |
| Audit, `common/audit`, `modules/audit` | `AuditLog` rows | write after the response, query | database | the row is written after the answer |
| Reports, `modules/reports` | a map of schedules in memory | create, cancel, run due | timer | overlapping timer runs |
| Human resources, `modules/hr`, `employees`, `departments` | payroll periods and lines, leave requests, attendance | calculate, approve, reject, clock in and out | database | a loop of inserts, unconditional updates, days as timestamps |
| Accounting, `modules/erp` | journal, bills, invoices, periods | post, close, age, report | database | rounding; a closed period still takes entries |
| CRM, specialised modules, governance | many tables | tenant-scoped CRUD | database | little |
| Internal inboxes, `email-inbox` over `mail` | `EmailMessage` rows with their folder | sync, move, delete, count folders | database, IMAP | look up, then update by id; six statements for one answer |
| Search, `search/` | `SearchIndex` rows, a trigger for their word vectors | index, bulk index, delete, search, statistics | database | two queries for one page |
| Analytics, `analytics/` | `AnalyticsEvent` rows | capture, statistics, user activity, funnel | database | several statements for one answer; whose event it is |
| Web, `apps/web` | React state | pages over the API | API | optimistic updates, late and lost answers, pages left |
| Deployment | none | install, backup, restore | shell | outside the program |

Interactions: signup and switching hand out the token whose claims every other component works for.
`TenantContextMiddleware` turns a request into a tenant and a user id, which the services read. The
realtime gateways verify the same token on their own, and chat reads the memberships that the REST service
wrote. Files and mail are the only components that change a second system besides the database.

An observation met on the way: no code assigns `req.user`, which `MfaController`, `TenantsController`, the
rate limit and `RolesGuard` read; the middleware decodes the token for the tenant context only. The models
start where a handler has its user and its tenant, so they say what the services do once that is in place.
Of the same kind: `mail.service.ts` uses columns that the schema lacks (section 4, Mail).

What makes each component correct, in one line:
* MFA: codes work once, a batch is whole, a user has one active factor, disabling is final.
* Files: a row and its object agree, nobody else's object is erased, what is left behind has a known cause.
* Accounts: no account without its workspace, one winner per unique value, tokens for members only.
* Presence: the set and the broadcasts tell the truth once handlers are done; nothing stale stays for ever.
* Chat: a message stays in its tenant and channel; members hear it.
* Mail: nothing fetched is lost, nothing is stored twice without cause, what was sent is recorded.
* Payroll: an answered calculation has written every line it worked out, and nothing replaces them.
* Attendance and departments: hours belong to one record; the tree loses no department without a cause.
* Accounting: debits and credits differ by rounding only; seeds leave what is there.
* Search and analytics: an answer has no row of another tenant and no row twice; counts are of that tenant.
* Inboxes: a message is stored once, and stays where it was put.
* Audit: a row holds nothing below a sensitive key. Rate limit and reports: so many in a span, and no more.
* Pages: once nothing is under way, a page shows what the server has, but for the causes it names.

## 2. The plan

In order of importance. All steps but one are done.

1. `Mfa`: interleaved handlers on one user's factors. Done, with proofs.
2. `Files`: rows and objects, two tenants. Done, with proofs.
3. `TenantRegistry` (abstract) and `Tenancy` (handlers and transactions), refinement. Done, with proofs.
4. `Presence`: the Redis set. Done, with proofs of all its invariants.
5. `Chat`: rooms, memberships, messages. Done, with proofs.
6. `Mail`: one mailbox, SMTP, breaks. Done, with proofs.
7. `Payroll`, `Workplace`, `Ledger`: human resources and the books. Done, with proofs.
8. `ProjectPage`, `ProjectsList`, `Templates`, `SignIn`, `Topbar`: the pages over their services. Done, with proofs.
9. `Timers` (rate limit, reports, IMAP client), `Audit`, `Search`, `Analytics`, `Inbox`. Done, with proofs.
10. Roles: not modelled (section 7).

Composition: the components share no variable that two of them write, apart from the socket's connection,
which `Presence` and `Chat` each model as far as they depend on it (the presence entry; the rooms). Their
handlers run one after the other in `handleConnection`, and neither reads what the other writes, so they
are kept apart and small. `Inbox` meets the syncs of `Mail` with the requests of users: `Mail` has the mail
server and the breaks in full, `Inbox` only what a sync does to the rows. The parts of the office (7 to 9)
share nothing, and `MCOffice` runs them side by side (section 4).

## 3. How the models are written

* A handler in flight is a record (`req[r]`, `run[r]`, or one per socket) with the place `pc` where it waits
  and what it has read so far. An action is the code between two awaits. What a handler read is kept in its
  record and used from there, as the code uses its local variables.
* A failing call, a timeout and a stopping process are one action (`Abort`, `Break`, `Fail`, `Crash`): the
  handler goes away where it is and leaves what it has done. A call whose answer is lost is the call and
  then that action.
* Variables marked `history` record what happened and are read by properties only; no code reads them.
* Properties named `Serial...` hold while handlers on the same object take turns. This is not a way out: it
  is the strongest claim the code supports, crashes and failures included, and the violation runs show
  what goes wrong beyond it.
* A mutant is an operator next to the definition it replaces. It is a plausible bug (a dropped check, a
  stale list, a swapped order) that the property must notice.

## 4. Modules, runs and bounds

### Mfa: `Mfa.tla`, `MCMfa.tla`, `MfaProofs.tla`
Source: `mfa.service.ts` with `totp.ts` and `recovery.ts`. Rows of different users never meet, so the module
is about one user. `StartEnroll`/`FinishEnroll`, `StartVerify`/`Check`/`Write`, `StartRegenerate`/
`RegenerateFind`/`FinishRegenerate` and `StartDisable`/`FinishDisable` are the handlers cut at their awaits.
A TOTP code is its factor and its time step, a recovery code a slot of a batch; codes that differ in the
model are taken to differ in the program. Comparing hashes changes nothing and is part of `Check`. The clock
does not go back. The regeneration runs a whole verification first and then finds its row again, as the
code does.

* Run `mfa` (two requests, two rows, two batches of two codes, steps 0..2, at most one accepted code): `OneBatch`,
  `DisabledIsFinal` always; `SerialOneFactor`, `SerialLedger` and `SerialSpacing` while requests take turns.
* Run `mfa_totp`: a code may be used a step early and again a step late. The replay check measures the
  distance between uses and current step, not the identity of the code. One request at a time suffices.
* Run `mfa_recovery`: two verifications accept the same recovery code, against "can only be used once".
* Bounds: two requests are all a race of read and write needs; three steps reach both ends of the window
  (one step to either side); a second batch makes old and new lists meet. One accepted code bounds the runs
  of `mfa`; the violation runs allow more, and the proofs have no bounds.

### Files: `Files.tla`, `MCFiles.tla`, `FilesProofs.tla`
Source: `files.service.ts` over `storage.service.ts`. `Presign` makes the row and `IssueUrl` the URL, `Put` is
the client's upload to the store, any number of times until `UrlExpires`. `Head` and `Finalize` are the two
halves of finalizing, `Erase` and `Remove` those of deleting; `UploadFile` is the legacy call in which the
client names the key. The sizes that clients send are chosen freely; the version, checksum and other columns that
the bodies of requests may set are not modelled, so a version is what finalizes make of it. A key is new because `buildStorageKey` draws 64 random bits; contents are sizes.

* Run `files` (two tenants, rows, keys and requests; sizes 0..1; versions to 2; three marks in the histories):
  `UploadKept`, `OrphansExplained`, `SizeEvidence`, `DeletedForGood`, `OwnTenantOnly` always, `SerialVersion`
  while a row is worked on by one request at a time. The properties about objects exclude keys that a
  client chose: two rows may then name one object, and nothing is promised.
* A finalized size above 0 does not show that anything was uploaded, as the comment at `files.service.ts:134` has it:
  when `Head` fails or finds nothing the client's size is stored. `SizeEvidence` is about the other sizes.
* Run `files_version`: a finalize that does not bump the version, against the comment that it does.
* Bounds: two of everything give each race and each mix-up of tenants; a version bound of 2 allows the second
  finalize that loses an update; the marks bound how many odd events a behaviour has, not which.

### Accounts and tenants: `TenantRegistry.tla`, `Tenancy.tla`, `MCTenancy.tla`, `TenancyProofs.tla`
Source: `auth.service.ts`, `tenants.service.ts` and the unique indexes of the schema. `TenantRegistry` is the
promise without handlers: an account appears with the workspace it owns, a workspace has one owner, sessions
go to owners. `Tenancy` runs the handlers through their calls. In a transaction, the rows inserted so far are
those its `pc` has gone past (`HoldsEmail`, `HoldsSlug`); they are seen by nobody before `Commit`, and an
insert of the same unique value waits for the other transaction's end, as PostgreSQL does under READ
COMMITTED. A user is its email, a tenant its slug; the only role ever written is OWNER. An operator may
suspend tenants (`SetStatus`), which switching looks at and login does not.

* Run `tenancy` (two requests, emails and slugs; settings and status of one tenant followed):
  `ImplementsRegistry` is the refinement with the mapping accounts = users, owns = members, sessions = tokens;
  `OneWinner` says the check-then-insert races end with one winner; `RegistryConsistent` ties tables and
  tokens together; `SerialSettings` bounds the lost update of onboarding; `Answered` says every request ends,
  so transactions that wait for each other never do so in a circle.
* Fairness: strong fairness of each handler's own steps (`Progress`). Weak fairness would not do: a wait
  on another transaction's insert is enabled and disabled as transactions come and go, and PostgreSQL's
  queue of waiters gives the lock to a waiter eventually. Nothing is assumed of users or operators, and
  nothing of failures.
* Bounds: a circle of waiting needs two transactions and two values; two handlers make every race in the code.

### Presence: `Presence.tla`, `MCPresence.tla`, `PresenceProofs.tla`
Source: `realtime.gateway.ts` and `presence.service.ts`. The state of one tenant: the set (`entries`, a user
and its lastSeen), the key's `deadline`, each socket's three handlers (`conn`, `disc`, `beat`) and the last
broadcast about each user. Commands on the single Redis connection take effect in the order they are issued,
so a step goes from one answer to the next command. `Tick` advances the clock and drops the key at its
deadline; `Crash` restarts the API: sockets are gone, the set stays.

* Run `presence` (two users, two sockets, lifetime one tick, two instants, one mark): `KeyWillExpire`; and of users
  whose handlers take turns `SerialNoGhosts` (no more entries than listed sockets) and `SerialPresence` (once
  the handlers are done, broadcast, set and connection agree).
* Run `presence_offline`: closing one of two tabs broadcasts the user as offline while the set lists it.
* Bounds: two sockets are two tabs of one user or two users; a lifetime of one tick makes every tick an expiry,
  so a heartbeat in time, too late, or none all occur. Marks bound how many users were met by overlaps or failures.
* The lifetime is that of the whole key, so heartbeats of one user keep the stale entries of the others in
  place; `KeyWillExpire` promises an end only once they all stop.

### Chat: `Chat.tla`, `MCChat.tla`, `ChatProofs.tla`
Source: `chat.gateway.ts`, `chat.service.ts` and the room part of `realtime.gateway.ts`. `Connect` and
`JoinChannels` are the two ends of the membership query; `StartMessage` checks the membership, `Store` writes
the message, `Broadcast` delivers it to the sockets in the room at that moment. `PostMessage` is the REST route,
which stores through the same service, in any channel that exists, and neither checks nor broadcasts; the
history `posted` tells its rows apart. No code of the program adds a second member to a channel, so rows of
other members come and go by an environment action.

* Run `chat` (two users, tenants, sockets and channels, four marks): `Attributed`, `Confined` and `RoomsComplete`.
  `Attributed` speaks of what is stored over sockets and of all that is broadcast, with posts in between.
* A row of the REST route need not be of a member, nor of the channel's tenant, although the comment at
  `chat.gateway.ts:32` says that the REST controller checks as well: of the rows in `posted` nothing is claimed.
* The comment at `realtime.gateway.ts:128` counts on a REST refresh after a failed join; no code joins rooms
  later, which is why `RoomsComplete` excepts what is in `missed`.
* Bounds: the properties relate a message to one channel, one sender and one receiver; a second tenant and a
  second channel are there to be confused with the first.

### Mail: `Mail.tla`, `MCMail.tla`, `MailProofs.tla`
Source: `mail.service.ts`, `imap.service.ts`, `smtp.service.ts`. A run is a sync for a tenant, the timer's
poll, or a send. `Fetch` takes the unseen messages, or those of them that could be fetched; `FindExisting`,
`Create` and `Flag` are the loop's three calls; `Transmit` and `RecordSent` are the two of sending. A message
is its identity: two messages that `findFirst` would take for one are not modelled. The poll has no tenant,
so `handleIncomingMessages` throws and stores nothing, which is what `Fetch` does for it. `FileUnsent` is the
other service that writes the folder SENT: `POST /email/send` of the workspace stores the row and sends nothing.
The folder is `sent` with `filed`, the rows of the one service and of the other.
`findFirst` and both `create` calls use columns, `messageId` and `statusMessage`, that `schema.prisma` does
not declare. `columns` says whether the database has them; both values are initial, so every result covers
the repository as it is (no row is ever written, and each send ends unrecorded) and as it is meant.

* Run `mail` (three runs, two tenants, two messages in, one out, two copies at most): `NothingLost`, `OneCopy`, `SentLedger`.
  `SentLedger` compares what the mail service records with what the server accepted.
  Of the rows in `filed` it claims nothing: no server was given what they say, although the test of that method
  (`email.service.spec.ts:24`) calls it sending.
* Bounds: two runs make a duplicate and the third leaves one to break off meanwhile; a second copy is already
  the duplicate that `OneCopy` speaks of.

### The office: thirteen modules, one run (`MCOffice.tla`, `MCOffice.cfg`)
These parts share no variable and call nothing of one another. A behaviour of `MCOffice` has one of them at
work, chosen at the start by the variable `part`, and the others at rest in their initial states. That loses
nothing, since no step of a part depends on another part, and the states add up instead of multiplying. Three
modules whose halves are just as independent are cut further: departments and attendance; seeds, journal and
bills; guard, reports and mailbox. Each property looks at the behaviours of its own part.

| Module | Source | State and actions | Property |
|---|---|---|---|
| `Search` | `search.service.ts`, its controller, the trigger of migration 0007 | `SearchIndex` rows; `Index`, `BulkIndex`, `Delete`; `SimpleSearch`, `CombinedSearch` with its second query as a step, statistics | `SearchAnswers` |
| `Analytics` | `analytics.service.ts`, its controller | a bag of events; three ways to capture them; the statements of statistics, user activity and funnel | `AnalyticsAnswers` |
| `Inbox` | `email-inbox.service.ts`, `handleIncomingMessages` | rows with a folder; sync, move and delete as look-up and update, counts one by one (three of the six folders stand for all) | `InboxTrue` |
| `ProjectPage` | `ProjectDetail.tsx`, `lib/api.ts`, `projects.service.ts` | the page, tasks, calls in flight with their answers | `SerialPage` |
| `ProjectsList` | `ProjectsList.tsx`, `projects.service.ts` | list and form, project rows, calls | `ListKept` |
| `Templates` | `DocumentTemplatesList.tsx`, `TemplateRenderer.tsx`, `document-templates.service.ts` | templates as pieces and placeholders, both pages, rendering with escaping and with the expressions that clean raw values as far as they go | `TemplatesTrue` |
| `Topbar` | `TenantSwitcher.tsx`, `Topbar.tsx` | the bar, switches and a sign-out under way, the document | `BarAgrees` |
| `SignIn` | `SignupWizard.tsx`, `MfaEnroll.tsx`, `MfaChallenge.tsx` over the handlers of `auth` and `mfa` | pages, calls in flight, account and factors; enrolment is cut between its check and its insertion, the other handlers take one step, their races are in `Tenancy` and `Mfa` | `SignInAgrees` |
| `Payroll` | `payroll.service.ts`, `employees.service.ts` | employees, periods, lines; `calculate` cut at its awaits, one insertion a step, each figure rounded to its column | `PaidOnce` |
| `Workplace` | `departments.service.ts`, `attendance.service.ts` | parents and the tree; records by their date; clock-out as look-up and write, hours in hundredths | `TreeComplete`, `HoursTrue` |
| `Ledger` | `chart-of-accounts`, `tax`, `journal`, `ap`, `ar` services | rows of two seeded tables; sums per date; the last bill or invoice | `SeedsAdd`, `TrialBalanceAdds`, `FiguresAdd` |
| `Audit` | `audit.middleware.ts`, `audit-redactor.ts`, `audit.service.ts`, `AuditLogTable.tsx` | rows, watched requests, the two queries of a list, the page and its filters | `NothingBelow`, `ListTrue` |
| `Timers` | `mfa-rate-limit.guard.ts`, `scheduled-reports.service.ts`, `imap.service.ts` | a bucket, runs of reports, clients and pending reconnects | `TwiceAtMost`, `HourApart`, `NeverAlone` |

Run `office` checks nine properties, most of them bundles of those in the table: `TypeOK`; `AnswersTrue` (search,
analytics, inbox); `PagesTrue` (projects, templates, bar); `PaidOnce`; `WorkplaceTrue`; `BooksAdd`; `SignInAgrees`;
`AuditTrail`; `TimersTrue`. What they say that is not obvious:
* `InboxTrue` is `LetterOnce` (a message is stored once and does not come back after it was filed), `MovedOnce` (a
  row stays where it was put) and `CountsTrue` (a row that moves between the counts may be counted twice
  and is never missed, because the inbox is counted first).
* `TwiceAtMost`: the window of the guard starts at the first attempt after the last one ended, so twice the
  allowed attempts fit into a span of a window's length, and no more.
* `PaidOnce` is about calculations that were answered. Its figures are integers: salaries in hundredths, of either
  sign, since nothing refuses one below zero, and shares in twentieths of that. `Nearest` leaves open on which
  side of a half a double comes out. A pay need not be what the exact figures give, but the figures of a line make
  up its salary to a hundredth. A calculation that breaks off leaves its lines, and the unique
  key then refuses every retry of the period: that is what the code does, and nothing is promised about it.
* `HoursTrue`: a record is dated by the full timestamp, so a second clock-in makes a second record and a
  clock-out finds a record of its own millisecond only. Each `new Date()` reads the clock anew (`Readings`). What
  is stored is hundredths of an hour (`HundredthsOf`), so the hours of a clock-out that found its record at once
  are zero; they grow only if its update is slow. Every other clock-out is refused for want of a record today
  (line 60), on the day of the clock-in too: it changes nothing and is no step of the model.
* `PreviewTrue`: texts and values are free HTML of clients, and a text reaches the preview as it is. A value is
  escaped, but for a raw placeholder, where the server takes out what its expressions match; markup that they do
  not match whole (`odd`) may stay or be made by the removal, and the property claims nothing of it. The page
  shows the preview in a frame with an empty `sandbox`, which is not modelled.
* `SignInAgrees`: both pages wait for a field `success` that the answer of the server does not have (`Wanted`,
  `Granted`), so no page ever gets to `through`; run `sign_in_code` shows the accepted code that the page refuses.
  The start button of the enrolment may be pressed again (`overlapped`): two factors are active then, of which a
  verification finds any, and what is still promised is that the secret on the page is of an active one. The
  form of the secret that the page shows is its text; for the QR code the page reads `otpauthUrl`, and the server
  answers `otpAuthUrl`.
* `TrialBalanceAdds`: `create` accepts a difference of up to a cent, and the columns round; the drift is at most a
  cent for each entry and each line. An entry of the model has two lines; the code takes any number of them.
* `SumsAgree`, a part of `AnswersTrue`, compares sums over one state of the events. No interleaving can break it: it
  is about the ways in which the statistics group and count, and is true of any events.
* The routes `/analytics/internal/...` are plain HTTP routes whose events name their own tenant (`InternalTrack`).

Exceptions are variables that name why a promise may fail, and are set where it happens: `crossed` (calls about
one task overlapped), `excuse` (an answer that a sign-in page lost, or a second enrolment), `strayed` (a list
answered late or not at all), `stale` and `unseen` (a page has not heard of a change), `lost` (an answer to a
creation did not come), `loose` (two syncs had a message, or one broke off), `tangled` (two requests had found a
row), `overtaken` and `mixed` (a second tenant chosen, or a sign-out, during a switch), `raced` (a second
clock-in within the millisecond). `quiet` marks the counts during which no row changed. A property is silent
about the excepted objects only, since the code can break its promise about them, and speaks of all others.

* Bounds: two tenants, calls, words, resources, rows, events and reports, so that two of each kind meet; three
  departments, so that a circle of parents can be beside a tree; three clients and three calls of the bar, so
  that a third follows two; six instants, which hold two windows of two and the attempts around them. Amounts
  are -4, 0, 5 and 40 tenths of a cent: below, at and above what is rounded or tolerated. Salaries are 0 and -6
  hundredths, whose shares are no whole hundredths; instants 0, 1, 2 and 18001 milliseconds, the last of which
  makes half a hundredth of an hour. The proofs have neither bound. Parts with a bound stop at it, so deadlock
  is not checked.
* Facts met on the way: `search/`, `analytics/`, `reports/` and `email-inbox/` are imported by no module that
  `app.module.ts` reaches, and line 217 of `analytics.controller.ts` does not parse (`return this. return this...`);
  the route `user-activity/:userId` reads its user from the query. No page shows the bar of `Topbar`; the server
  has neither a session cookie nor the routes `/auth/logout` and `/invites` that pages call. The models take
  each of these parts as it would run once it is reached.

## 5. What is proved

Every invariant and every action property that a run checks is a theorem, and so is the refinement; only the
liveness property `Answered` is not. The theorems are for any values the assumptions on the constants allow.
Sets may be infinite, except where things are counted: the sockets of `PresenceProofs` and the days of `Analytics`,
which are the dates between two timestamps.
Each proof module names the inductive invariant and why the property alone is not inductive.

* `MfaProofs`. `TypeCorrect`; `DisableIsFinal` by looking at each action's writes; `OneBatchCorrect` needs that the
  copies requests hold are of one batch too (`OneBatchHeld`). The three serial theorems share `SerialInv`: a
  handler alone still sees the rows as it read them (`ReadIsCurrent`), and a new batch is unspent
  (`BatchesFresh`).
* `FilesProofs`. The invariant has five parts: a request's tenant and key are its row's (`Scoped`), keys no client
  chose belong to one row (`KeysUnique`) and were untouched before it (`UnusedKeys`), a delete marks its file
  before it touches anything (`Deletes`), what a HEAD answered had been stored (`HeadEvidence`), and a version
  that was read without contention is the row's (`VersionRead`). All seven checked properties follow.
* `TenancyProofs`. `Exclusive`: what open transactions hold is new and held once. With it the commit of a
  transaction is a step of `TenantRegistry` and every other step a stutter: theorem `Implementation`.
  `RegistryConsistentCorrect`, `OneWinnerCorrect` and `TypeCorrect` come from the same invariant.
  `SerialSettingsCorrect` needs `ReadHolds` besides: an onboarding works on a tenant that exists and, if nobody
  wrote since its read, what it has read is the entry last written.
* `PresenceProofs`. `TypeCorrect` and `KeyWillExpireCorrect`; `SerialNoGhostsCorrect` and `SerialPresenceCorrect` by an
  invariant of four parts: the handlers of a socket are at places that fit each other (`Shape`), those of a
  user take turns (`TurnsTaken`), its entries, plus one for a swap under way, are at most its listed sockets
  (`AllCounted`), and a user that never had two tabs is told online for a reason (`AllAlone`).
* `ChatProofs`. `ChatInv`: rows only ever go from members to history, a socket is in rooms its user was let into
  (`RoomsHeld`), a message past the check was checked (`Checked`). `AttributedCorrect`, `ConfinedCorrect`,
  `RoomsCompleteCorrect`.
* `MailProofs`. `MailInv`: a run about to flag has stored (`Stored`); a message in one hand only is not flagged
  before its run gets to it, and new when it is to be stored (`Alone`); once stored it is flagged or about to
  be (`Followed`). `NothingLostCorrect`, `OneCopyCorrect`, `SentLedgerCorrect`.
* `OfficeProofs`: the services of the office, each part on its own specification. It opens with lemmas on finite
  sets and on sums over them, which the later parts cite. The sum of the community modules is a fold, which is a
  recursive function: `SumsThere` builds a function that adds from subset to subset, and `FoldIsSum` shows that the
  fold is that function, so that sums can be split, compared and reordered. Induction is by sets: what is to
  hold of every number is a set of numbers, and the least number outside it contradicts the step (`NumbersAll`,
  and `SetsAll` for the subsets of a finite set).
  * Payroll: `PayrollTypeCorrect`, `PaidOnceCorrect` and the action property `LinesKept`. `Progress` says that a
    calculation has written what it listed except what is left. It survives other calculations because a line
    that is there is never written again. `LineAddsUp` is the arithmetic of a line, for any salary: each of three
    roundings is off by at most half a hundredth (`Rounding`), and what is off in all is a whole number of them.
  * Attendance: `HoursTrueCorrect`. `HoursInv`: records are dated in the past, and a clock-out under way holds the
    clock-in its record has, unless somebody clocked in again. `HundredthsClose` is the rounding.
  * Departments: `TreeCompleteCorrect`. That there are finitely many departments is the whole invariant; the rest is
    about the recursion of `Tree`. Its levels are the departments from which a path of that length leads to a
    root (`Depth`). No two levels share a department, so after as many levels as there are departments the next one
    is empty, and `getTree` has looked far enough (`LastLevel`).
  * Ledger: `SeedsAddCorrect` (`SeedsInv`: the default rows a seed has gone past are there), `FiguresAddCorrect` for
    any amount and rate (each rounding is off by at most half a cent, and figures of one bill have one sign),
    and `TrialBalanceAddsCorrect`. `JournalInv` bounds the drift of one date (`DaysAdd`); the sums of a range drift by
    no more than the sum of the bounds (`RangeAdds`).
  * Inbox: `MovedOnceCorrect`, `LetterOnceCorrect` and `CountsTrueCorrect`, together `InboxTrueCorrect`. A request that
    has found a row is the only one, or the row is tangled (`MovedInv`); a message without a cause is with one
    sync, in one row, or nowhere (`OnceInv`). A count alone says too little of a row that moves later, so
    `CountsInv` keeps the set of rows behind each number of a request: every row that was there when it came
    and is now in a counted folder is in one of those sets.
  * Audit: `NothingBelowCorrect`, for bodies of any depth: the least sensitive place of a path exists
    (`LeastPlace`, by well-foundedness) and nothing is left below it (`RedactedClean`). `ListTrueCorrect`: an answer
    under way matches its own filter, and the newest one has the filter of the page (`TableInv`).
  * Timers: `TwiceAtMostCorrect`. `GuardInv` relates the bucket to the attempts of the past: its count is what its window
    let through, the window before let no more than allowed through, and no span of a window's length has held
    more than twice that; a new window starts behind the end of the last one. `HourApartCorrect`
    (`RunsRemembered`: a report that is not cancelled remembers its last run) and `NeverAloneCorrect`.
  * Bar: `BarAgreesCorrect` (`BarInv`: what is disabled has been asked for).
  * Sign-in: `SignInAgreesCorrect`, by what the pages know: the account of a page past the sign-up is there
    (`AccountKnown`), a page that shows a secret has one, and it is of an active factor unless one was disabled
    (`SecretShown`); and there is only one, which the page knows or is about to learn, unless an excuse says
    otherwise (`FactorKnown`). Between its check and its insertion an enrolment knows nothing of others.
* `MCOfficeProofs`: search, analytics, the pages of projects and templates, and the composition.
  * Search: `SearchAnswersCorrect`. Every row of a tenant says it is that tenant's (`IndexInv`); a request between its
    two queries has fewer exact matches than its limit (`RequestInv`).
  * Analytics: `AnalyticsAnswersCorrect`. `EventsInv`: the table is a finite bag of events, each of the tenant that sent
    it. Statistics that read one state agree because each adds up the same events by another key (`KeysAdd`);
    what a slow request has counted lies between what was there when it came and what is there now (`VisitInv`).
  * `ListKeptCorrect`. `BoardInv`: an entry is stored once or under way once, and while it is in the form the call about
    it is awaited (`EntryInv`); the page lists what is there, but for the row of an answer on its way (`FreshInv`).
  * `TemplatesTrueCorrect`. `TemplatesInv`: only one page is open (`ViewInv`), its list is that of the templates but
    for one being created (`ShelfInv`), and the other page has the row as it is stored (`DeskInv`). `RenderedSafe` is
    about one piece of a rendered body: a value stands unescaped only at a raw placeholder.
  * `SerialPageCorrect`. `DetailInv`: a task that is not crossed has one call at most (`LoneInv`), and the page shows the
    task as it will be once that call is answered (`ShowInv`).
  * `PartsImplemented`: the composition implements the specification of each of the thirteen parts, by a step of the part
    or a stutter. With it the theorems on the parts give those on the run's properties: `TypeOKCorrect`,
    `AnswersTrueCorrect`, `PagesTrueCorrect`, `WorkplaceTrueCorrect`, `BooksAddCorrect`, `TimersTrueCorrect`; `PaidOnce`,
    `SignInAgrees` and `AuditTrail` are properties of a single part each (`SinglePartsCorrect`).

Some definitions have a form the provers can follow: `Newest`, `ListProjects` and `Without` name the element at each
place by its rank instead of sorting or filtering a sequence, and `TrialBalance`, `ByType` and `SumsAgree` add up
functions. TLC checks them in the same form.

Only model-checked: `Answered`, because liveness is beyond the prover; and of course the violations.

## 6. Where code and comments disagree

The violation runs each show one, with a trace; the lines are quoted in `PROJECT.json`.

| Run | The comment | The code |
|---|---|---|
| `mfa_totp` | the same code cannot be used twice in its window | it can, two steps apart |
| `mfa_recovery` | each recovery code can only be used once | twice, by two requests at once |
| `files_version` | finalize bumps the version | not when two finalizes race |
| `presence_offline` | on disconnect the user is marked offline | an entry stays when there were two tabs |
| `sign_in_code` | a test: the page redirects when the code was accepted | it refuses the code, and the code is spent |

Four more follow from the models at a glance and have no run: the size of a file that was never uploaded (section 4,
Files), the check of memberships that the REST route lacks (Chat), the row in SENT of what was not sent (Mail), and
the clock-out that finds no record of the day (the office).

## 7. What is not modelled

* Single-statement, tenant-scoped CRUD (CRM, positions, most specialised modules, accounting's master data): a
  statement is atomic and reads nothing first, so there is no state to go wrong between steps.
* Leave requests: `create` calls `getTime` on the strings of the request and always throws, so no request ever
  exists, and `approve` and `reject`, which update by id whatever the status, have nothing to change.
* Roles: the guard compares `req.user`, which nothing sets, with a table, and keeps no state. Tenant context,
  Prisma and Redis clients: the modelled handlers take their tenant as a parameter.
* Fiscal periods and their closing (`JournalService.create` does not look at them), aging, PP30, payments, vendors
  and customers; BI. Parsing, hashing, HTML, logging.
* In modelled components: folders, names and checksums of files, the creation of the bucket, renaming a tenant,
  the whoami message, read marks, drafts and listings of mail, `reindexType`, the first and last activity of
  a user, single rows, dates and users as filters of the audit log and its size cap, what reports contain,
  the inputs of pages.
* Web pages that only display, deployment scripts, and `_modules_disabled`, which is not compiled.
