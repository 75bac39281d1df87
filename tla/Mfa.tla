-------------------------------- MODULE Mfa --------------------------------
(***************************************************************************)
(* The second factor of one user: MfaService (mfa.service.ts) with the     *)
(* pieces of totp.ts and recovery.ts it calls.  Rows of different users    *)
(* never meet (every query filters on userId), so one user is the whole    *)
(* story.  Each handler is a request that runs through its awaits: the     *)
(* read of a row, the slow bcrypt work and the write of the row are steps  *)
(* of their own, and other requests of the same user run in between.       *)
(*                                                                         *)
(* Codes are abstract: a TOTP code is the pair of the factor whose secret  *)
(* made it and the 30s step it was made for; a recovery code is a slot of  *)
(* a generated batch.  Codes of different steps, factors or batches are    *)
(* taken to differ (six digits and ten characters may collide by chance).  *)
(***************************************************************************)
EXTENDS Integers

CONSTANTS
  Requests,    \* handler invocations that may be in flight together
  FactorIds,   \* rows that may be created (bound)
  Slots,       \* the codes of one batch; RECOVERY_CONFIG.COUNT is 10
  Window,      \* TOTP_CONFIG.WINDOW, in steps on either side
  MaxStep,     \* last time step (bound)
  MaxBatch,    \* batches of recovery codes that may be generated (bound)
  NoFactor     \* stands for "no row read yet"

ASSUME MfaAssumption ==
  /\ Window \in Nat
  /\ MaxStep \in Nat
  /\ MaxBatch \in Nat
  /\ NoFactor \notin FactorIds

VARIABLES
  created,      \* factors that have a row
  active,       \* rows with isActive
  backupCodes,  \* factor -> recovery codes whose hashes the row holds
  lastUsedAt,   \* factor -> step of lastUsedAt, or Never
  step,         \* Math.floor(Date.now() / 1000 / PERIOD)
  batches,      \* batches of recovery codes generated so far
  req,          \* request -> where its handler is and what it has read
  issued,       \* history: factor -> the batch last written to the row
  spent,        \* history: recovery codes accepted so far
  lastAccept,   \* history: TOTP code -> step of its latest acceptance, or Never
  repeats,      \* history: [kind, gap] of codes accepted again, gap steps later
  overlapped    \* history: two requests were once in flight together

rowVars == <<created, active, backupCodes, lastUsedAt>>
histVars == <<issued, spent, lastAccept, repeats>>
vars == <<created, active, backupCodes, lastUsedAt, step, batches, req,
          issued, spent, lastAccept, repeats, overlapped>>

----------------------------------------------------------------------------
(* Codes, rows and requests *)

Never == -1
Steps == 0..MaxStep

TotpCode == [kind: {"totp"}, factor: FactorIds, step: Steps]
RecoveryCode == [kind: {"recovery"}, batch: 1..MaxBatch, slot: Slots]
Code == TotpCode \cup RecoveryCode
NoCode == [kind |-> "none"]

\* generateRecoveryCodes: distinct codes, none of which was ever issued before.
Batch(b) == {c \in RecoveryCode : c.batch = b}

Distance(a, b) == IF a >= b THEN a - b ELSE b - a

\* verifyTOTP: the code was made by this factor's secret for a step at most
\* Window away from the current one.
TotpMatches(c, f) ==
  /\ c.kind = "totp"
  /\ c.factor = f
  /\ Distance(step, c.step) <= Window

\* Mutant of UsedRecently: only a use in the current step counts.
UsedThisStep(last) == last = step

\* The replay check of verify, on the lastUsedAt that was read.
UsedRecently(last) == last # Never /\ Distance(step, last) <= Window

\* Mutant of Spliced: the matched code stays in the list.
Unspliced(codes, c) == codes

\* verifyAndConsumeRecoveryCode, for a code that matches: it leaves the list.
Spliced(codes, c) == codes \ {c}

\* Mutant of StampedStep: the end of the code's validity is stored.
ExpiryStep == step + Window

\* The step of the lastUsedAt that an accepted code writes.
StampedStep == step

Pcs == {"idle", "enroll", "find", "check", "write", "regenerate", "disable"}

Request ==
  [pc: Pcs, op: {"none", "enroll", "verify", "regenerate", "disable"},
   code: Code \cup {NoCode},
   target: FactorIds \cup {NoFactor},   \* row that disable and regenerate found
   factor: FactorIds \cup {NoFactor},   \* row that verify found ...
   codes: SUBSET RecoveryCode,          \* ... its backupCodes
   last: Steps \cup {Never},            \* ... and its lastUsedAt
   at: Steps \cup {Never}]              \* step at which the code passed

Idle == [pc |-> "idle", op |-> "none", code |-> NoCode, target |-> NoFactor,
         factor |-> NoFactor, codes |-> {}, last |-> Never, at |-> Never]

InFlight(r) == req[r].pc # "idle"
\* Codes a caller can hold: those of an enrolled secret, and issued batches.
Held == {c \in TotpCode : c.factor \in active}
          \cup {c \in RecoveryCode : c.batch <= batches}

Init ==
  /\ created = {}
  /\ active = {}
  /\ backupCodes = [f \in FactorIds |-> {}]
  /\ lastUsedAt = [f \in FactorIds |-> Never]
  /\ step = 0
  /\ batches = 0
  /\ req = [r \in Requests |-> Idle]
  /\ issued = [f \in FactorIds |-> 0]
  /\ spent = {}
  /\ lastAccept = [c \in TotpCode |-> Never]
  /\ repeats = {}
  /\ overlapped = FALSE

----------------------------------------------------------------------------
(* Steps of a request *)

Begin(r, rec) ==
  /\ req[r].pc = "idle"
  /\ req' = [req EXCEPT ![r] = rec]
  /\ overlapped' = (overlapped \/ \E q \in Requests \ {r} : InFlight(q))
  /\ UNCHANGED <<rowVars, step, batches, histVars>>

Continue(r, rec) ==
  /\ req' = [req EXCEPT ![r] = rec]
  /\ UNCHANGED overlapped

\* Mutant of MayEnroll: no look at the existing factors.
AlwaysEnroll == TRUE

\* enroll's findFirst found no active factor.
MayEnroll == active = {}

\* enroll up to the first slow await; with an active row it answers 409.
StartEnroll(r) ==
  /\ MayEnroll
  /\ Begin(r, [Idle EXCEPT !.pc = "enroll", !.op = "enroll"])

\* The row is created after hashing, with no second look at the active rows.
FinishEnroll(r) ==
  /\ req[r].pc = "enroll"
  /\ batches < MaxBatch
  /\ \E f \in FactorIds \ created :
       /\ created' = created \cup {f}
       /\ active' = active \cup {f}
       /\ backupCodes' = [backupCodes EXCEPT ![f] = Batch(batches + 1)]
       /\ issued' = [issued EXCEPT ![f] = batches + 1]
  /\ batches' = batches + 1
  /\ Continue(r, Idle)
  /\ UNCHANGED <<lastUsedAt, step, spent, lastAccept, repeats>>

\* What verify's findFirst leaves in the handler.
Loaded(rec, f) ==
  [rec EXCEPT !.pc = "check", !.factor = f,
              !.codes = backupCodes[f], !.last = lastUsedAt[f]]

StartVerify(r) ==
  \E c \in Held, f \in active :
    Begin(r, Loaded([Idle EXCEPT !.op = "verify", !.code = c], f))

\* regenerateRecoveryCodes finds the row it will rewrite ...
StartRegenerate(r) ==
  \E c \in Held, f \in active :
    Begin(r, [Idle EXCEPT !.pc = "find", !.op = "regenerate",
                          !.code = c, !.target = f])

\* ... and then calls verify, which looks for a row again.
RegenerateFind(r) ==
  /\ req[r].pc = "find"
  /\ \/ \E f \in active : Continue(r, Loaded(req[r], f))
     \/ active = {} /\ Continue(r, Idle)
  /\ UNCHANGED <<rowVars, step, batches, histVars>>

\* The handler once its code has passed, with the list it may write back.
Passed(q, codes) == [q EXCEPT !.pc = "write", !.at = StampedStep,
                              !.codes = codes, !.last = Never]

\* The decision of verify, all from what was read: TOTP first, refused when
\* the row was used recently; else a recovery code, spliced from the copy.
Check(r) ==
  LET q == req[r]
      totp == TotpMatches(q.code, q.factor)
  IN
  /\ q.pc = "check"
  /\ \/ /\ totp
        /\ ~UsedRecently(q.last)
        /\ Continue(r, Passed(q, {}))
     \/ /\ ~totp
        /\ q.code \in q.codes
        /\ Continue(r, Passed(q, Spliced(q.codes, q.code)))
     \/ /\ IF totp THEN UsedRecently(q.last) ELSE q.code \notin q.codes
        /\ Continue(r, Idle)
  /\ UNCHANGED <<rowVars, step, batches, histVars>>

AcceptTotp(c, at) ==
  /\ lastAccept' = [lastAccept EXCEPT ![c] = at]
  /\ repeats' = IF lastAccept[c] = Never THEN repeats
                ELSE repeats \cup {[kind |-> "totp",
                                    gap |-> Distance(at, lastAccept[c])]}
  /\ UNCHANGED spent

AcceptRecovery(c) ==
  /\ spent' = spent \cup {c}
  /\ repeats' = IF c \in spent
                THEN repeats \cup {[kind |-> "recovery", gap |-> 0]}
                ELSE repeats
  /\ UNCHANGED lastAccept

AfterVerify(q) ==
  IF q.op = "verify" THEN Idle
  ELSE [Idle EXCEPT !.pc = "regenerate", !.op = q.op, !.target = q.target]

\* Mutant of Write: the whole row is written back as it was read.
WriteWholeRow(r) ==
  LET q == req[r] IN
  /\ q.pc = "write"
  /\ active' = active \cup {q.factor}
  /\ lastUsedAt' = [lastUsedAt EXCEPT ![q.factor] = q.at]
  /\ \/ /\ q.code.kind = "totp"
        /\ AcceptTotp(q.code, q.at)
        /\ UNCHANGED backupCodes
     \/ /\ q.code.kind = "recovery"
        /\ AcceptRecovery(q.code)
        /\ backupCodes' = [backupCodes EXCEPT ![q.factor] = q.codes]
  /\ Continue(r, AfterVerify(q))
  /\ UNCHANGED <<created, step, batches, issued>>

\* The update by id that ends verify: a TOTP writes lastUsedAt, a recovery
\* code writes the copy of backupCodes too, whatever the row holds by now.
Write(r) ==
  LET q == req[r] IN
  /\ q.pc = "write"
  /\ lastUsedAt' = [lastUsedAt EXCEPT ![q.factor] = q.at]
  /\ \/ /\ q.code.kind = "totp"
        /\ AcceptTotp(q.code, q.at)
        /\ UNCHANGED backupCodes
     \/ /\ q.code.kind = "recovery"
        /\ AcceptRecovery(q.code)
        /\ backupCodes' = [backupCodes EXCEPT ![q.factor] = q.codes]
  /\ Continue(r, AfterVerify(q))
  /\ UNCHANGED <<created, active, step, batches, issued>>

\* Mutant of NewCodes: the new batch is appended to the row's codes.
AppendedCodes(f) == backupCodes[f] \cup Batch(batches + 1)

\* What regenerateRecoveryCodes writes: a fresh batch, the old codes dropped.
NewCodes(f) == Batch(batches + 1)

\* New codes, hashed, replace those of the row found at the start.
FinishRegenerate(r) ==
  LET f == req[r].target IN
  /\ req[r].pc = "regenerate"
  /\ batches < MaxBatch
  /\ backupCodes' = [backupCodes EXCEPT ![f] = NewCodes(f)]
  /\ issued' = [issued EXCEPT ![f] = batches + 1]
  /\ batches' = batches + 1
  /\ Continue(r, Idle)
  /\ UNCHANGED <<created, active, lastUsedAt, step, spent, lastAccept, repeats>>

\* disable, once the password has been compared and the row found.
StartDisable(r) ==
  \E f \in active :
    Begin(r, [Idle EXCEPT !.pc = "disable", !.op = "disable", !.target = f])

FinishDisable(r) ==
  /\ req[r].pc = "disable"
  /\ active' = active \ {req[r].target}
  /\ Continue(r, Idle)
  /\ UNCHANGED <<created, backupCodes, lastUsedAt, step, batches, histVars>>

\* The process stops, or the database refuses: the rest never happens.
Abort(r) ==
  /\ InFlight(r)
  /\ Continue(r, Idle)
  /\ UNCHANGED <<rowVars, step, batches, histVars>>

Tick ==
  /\ step < MaxStep
  /\ step' = step + 1
  /\ UNCHANGED <<rowVars, batches, req, histVars, overlapped>>

Next ==
  \/ Tick
  \/ \E r \in Requests :
       \/ StartEnroll(r) \/ FinishEnroll(r)
       \/ StartVerify(r) \/ Check(r) \/ Write(r)
       \/ StartRegenerate(r) \/ RegenerateFind(r) \/ FinishRegenerate(r)
       \/ StartDisable(r) \/ FinishDisable(r)
       \/ Abort(r)

Spec == Init /\ [][Next]_vars

----------------------------------------------------------------------------
(* Properties *)

\* Every variable has its shape; rows are active only if they exist.
TypeOK ==
  /\ created \in SUBSET FactorIds
  /\ active \in SUBSET created
  /\ backupCodes \in [FactorIds -> SUBSET RecoveryCode]
  /\ lastUsedAt \in [FactorIds -> Steps \cup {Never}]
  /\ step \in Steps
  /\ batches \in 0..MaxBatch
  /\ req \in [Requests -> Request]
  /\ issued \in [FactorIds -> 0..MaxBatch]
  /\ spent \in SUBSET RecoveryCode
  /\ lastAccept \in [TotpCode -> Steps \cup {Never}]
  /\ repeats \in SUBSET [kind: {"totp", "recovery"}, gap: Nat]
  /\ overlapped \in BOOLEAN

\* A factor that was disabled stays disabled, even when a verification or a
\* regeneration that read the row before lands its update after the disable
\* (the updates of verify:123,143 and regenerate:228 write single columns).
DisabledIsFinal == [][\A f \in created \ active : f \notin active']_vars

\* The codes of a row come from one batch, whatever interleaves: a late
\* update may bring an old batch back, but never mixes it with a newer one.
OneBatch ==
  \A f \in FactorIds : \A c, d \in backupCodes[f] : c.batch = d.batch

\* While requests come one at a time, enroll's look at the active rows (51)
\* keeps a user at one active factor.
SerialOneFactor == ~overlapped => \A f, g \in active : f = g

\* While requests come one at a time, crashes included, the codes that still
\* work are exactly those of the batch last shown to the user, minus the
\* accepted ones.
SerialLedger ==
  ~overlapped =>
    \A f \in created :
      backupCodes[f] = Batch(issued[f]) \ spent

\* While requests come one at a time, a recovery code is accepted once, and a
\* TOTP code again only more than Window steps after its last acceptance.
SerialSpacing ==
  ~overlapped => \A x \in repeats : x.kind = "totp" /\ x.gap > Window

\* Replay protection as verify's comment states it (94): the same TOTP code
\* is not accepted twice in the window in which it is valid.
TotpSingleUse == \A x \in repeats : x.kind # "totp"

\* "Each code can only be used once" (recovery.ts:7).
RecoverySingleUse == \A x \in repeats : x.kind # "recovery"
=============================================================================
