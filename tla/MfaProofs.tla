----------------------------- MODULE MfaProofs -----------------------------
(***************************************************************************)
(* What holds of Mfa for any number of requests, rows, codes and steps.    *)
(***************************************************************************)
EXTENDS Mfa, TLAPS

\* A handler that runs alone still sees the rows as it read them.
ReadIsCurrent(r) ==
  /\ req[r].pc = "enroll" => active = {}
  /\ req[r].pc \in {"find", "regenerate"} => req[r].target \in created
  /\ req[r].pc = "check" =>
       /\ req[r].factor \in created
       /\ req[r].codes = backupCodes[req[r].factor]
       /\ req[r].last = lastUsedAt[req[r].factor]
       /\ req[r].op # "verify" => req[r].target \in created
  /\ req[r].pc = "write" =>
       /\ req[r].factor \in created
       /\ req[r].at \in Steps
       /\ req[r].at <= step
       /\ lastUsedAt[req[r].factor] <= req[r].at
       /\ req[r].op # "verify" => req[r].target \in created
       /\ req[r].code.kind = "totp" =>
            /\ req[r].code.factor = req[r].factor
            /\ lastUsedAt[req[r].factor] # Never =>
                 req[r].at - lastUsedAt[req[r].factor] > Window
       /\ req[r].code.kind = "recovery" =>
            /\ req[r].code \in backupCodes[req[r].factor]
            /\ req[r].codes = backupCodes[req[r].factor] \ {req[r].code}

\* The state that a history without overlapping requests can reach.
SerialInv ==
  /\ \A p, q \in Requests : InFlight(p) /\ InFlight(q) => p = q
  /\ \A r \in Requests : ReadIsCurrent(r)
  /\ \A f, g \in active : f = g
  /\ \A f \in created : backupCodes[f] = Batch(issued[f]) \ spent
  /\ \A f, g \in created : issued[f] = issued[g] => f = g
  /\ \A f \in FactorIds : lastUsedAt[f] <= step
  /\ \A c \in TotpCode : lastAccept[c] <= lastUsedAt[c.factor]
  /\ \A x \in repeats : x.kind = "totp" /\ x.gap > Window

\* Batches are numbered as they are generated, so a new one is unspent.
BatchesFresh ==
  /\ \A f \in FactorIds : issued[f] <= batches
  /\ \A c \in spent : c.batch <= batches
  /\ \A f \in FactorIds : \A c \in backupCodes[f] : c.batch <= batches
  /\ \A r \in Requests : \A c \in req[r].codes : c.batch <= batches
  /\ \A r \in Requests :
       req[r].code.kind = "recovery" => req[r].code.batch <= batches

\* The copies that requests hold are of one batch as well.
OneBatchHeld ==
  \A r \in Requests : \A c, d \in req[r].codes : c.batch = d.batch

----------------------------------------------------------------------------
(* Typing *)

\* A code is of the kind its tag says.
LEMMA KindOfCode ==
  ASSUME NEW c \in Code \cup {NoCode}
  PROVE  /\ c.kind = "totp" => c \in TotpCode
         /\ c.kind = "recovery" => c \in RecoveryCode
  BY DEF Code, NoCode, TotpCode, RecoveryCode

LEMMA DistanceNat ==
  ASSUME NEW a \in Int, NEW b \in Int
  PROVE  /\ Distance(a, b) \in Nat
         /\ a >= b => Distance(a, b) = a - b
         /\ Distance(a, b) = Distance(b, a)
  BY DEF Distance

LEMMA IdleRequest == Idle \in Request
  BY DEF Idle, Request, Pcs, Never, NoCode

\* The records that handlers continue with are requests.
LEMMA RequestRecords ==
  ASSUME TypeOK, NEW q \in Request
  PROVE  /\ Idle \in Request
         /\ AfterVerify(q) \in Request
         /\ \A f \in FactorIds : Loaded(q, f) \in Request
         /\ \A cs \in SUBSET RecoveryCode : Passed(q, cs) \in Request
  <1>1. Idle \in Request
    BY IdleRequest
  <1>2. AfterVerify(q) \in Request
    BY <1>1 DEF AfterVerify, Idle, Request, Pcs, NoCode
  <1>3. \A f \in FactorIds : Loaded(q, f) \in Request
    BY DEF Loaded, Request, Pcs, TypeOK
  <1>4. \A cs \in SUBSET RecoveryCode : Passed(q, cs) \in Request
    BY DEF Passed, StampedStep, Request, Pcs, TypeOK
  <1>5. QED
    BY <1>1, <1>2, <1>3, <1>4

\* What a handler carries on after its code has passed, and after the write.
LEMMA PassedFields ==
  ASSUME NEW q \in Request, NEW cs
  PROVE  LET p == Passed(q, cs) IN
         /\ p.pc = "write" /\ p.at = StampedStep /\ p.codes = cs
         /\ p.factor = q.factor /\ p.code = q.code
         /\ p.target = q.target /\ p.op = q.op
  BY DEF Passed, Request

LEMMA AfterFields ==
  ASSUME NEW q \in Request
  PROVE  LET p == AfterVerify(q) IN
         /\ p.pc = IF q.op = "verify" THEN "idle" ELSE "regenerate"
         /\ p.codes = {} /\ p.code = NoCode
         /\ p.pc = "regenerate" => p.target = q.target
  BY DEF AfterVerify, Idle, Request

LEMMA LoadedFields ==
  ASSUME NEW q \in Request, NEW f
  PROVE  LET p == Loaded(q, f) IN
         /\ p.pc = "check" /\ p.factor = f
         /\ p.codes = backupCodes[f] /\ p.last = lastUsedAt[f]
         /\ p.op = q.op /\ p.target = q.target /\ p.code = q.code
  BY DEF Loaded, Request

LEMMA TypeInit == Init => TypeOK
  <1> SUFFICES ASSUME Init PROVE TypeOK
    OBVIOUS
  <1>1. req \in [Requests -> Request]
    BY IdleRequest DEF Init
  <1>2. step \in Steps /\ batches \in 0..MaxBatch
    BY MfaAssumption DEF Init, Steps
  <1>3. issued \in [FactorIds -> 0..MaxBatch]
    BY MfaAssumption DEF Init
  <1>4. QED
    BY <1>1, <1>2, <1>3 DEF Init, TypeOK

LEMMA TypeStep == TypeOK /\ [Next]_vars => TypeOK'
  <1> SUFFICES ASSUME TypeOK, [Next]_vars PROVE TypeOK'
    OBVIOUS
  <1> USE MfaAssumption
  <1>0. ASSUME NEW r \in Requests, NEW rec \in Request,
               req' = [req EXCEPT ![r] = rec]
        PROVE  req' \in [Requests -> Request]
    BY <1>0 DEF TypeOK
  <1>1. CASE Tick
    BY <1>1 DEF Tick, TypeOK, Steps, rowVars, histVars
  <1>2. ASSUME NEW r \in Requests, NEW rec \in Request, Begin(r, rec)
        PROVE  TypeOK'
    BY <1>2, <1>0 DEF Begin, TypeOK, InFlight, rowVars, histVars
  <1>3. ASSUME NEW r \in Requests, StartEnroll(r) PROVE TypeOK'
    <2>1. [Idle EXCEPT !.pc = "enroll", !.op = "enroll"] \in Request
      BY RequestRecords DEF Idle, Request, Pcs, NoCode, Never
    <2>2. QED BY <1>3, <1>2, <2>1 DEF StartEnroll
  <1>4. ASSUME NEW r \in Requests, StartDisable(r) PROVE TypeOK'
    <2>1. PICK f \in active : Begin(r, [Idle EXCEPT !.pc = "disable",
                                      !.op = "disable", !.target = f])
      BY <1>4 DEF StartDisable
    <2>2. [Idle EXCEPT !.pc = "disable", !.op = "disable", !.target = f] \in Request
      BY DEF Idle, Request, Pcs, NoCode, Never, TypeOK
    <2>3. QED BY <2>1, <2>2, <1>2
  <1>5. ASSUME NEW r \in Requests, StartVerify(r) PROVE TypeOK'
    <2>1. PICK c \in Held, f \in active :
            Begin(r, Loaded([Idle EXCEPT !.op = "verify", !.code = c], f))
      BY <1>5 DEF StartVerify
    <2>2. c \in Code /\ f \in FactorIds
      BY DEF Held, Code, TypeOK
    <2>3. [Idle EXCEPT !.op = "verify", !.code = c] \in Request
      BY <2>2 DEF Idle, Request, Pcs, NoCode, Never
    <2>4. QED BY <2>1, <2>2, <2>3, <1>2, RequestRecords
  <1>6. ASSUME NEW r \in Requests, StartRegenerate(r) PROVE TypeOK'
    <2>1. PICK c \in Held, f \in active :
            Begin(r, [Idle EXCEPT !.pc = "find", !.op = "regenerate",
                                  !.code = c, !.target = f])
      BY <1>6 DEF StartRegenerate
    <2>2. c \in Code /\ f \in FactorIds
      BY DEF Held, Code, TypeOK
    <2>3. [Idle EXCEPT !.pc = "find", !.op = "regenerate",
                       !.code = c, !.target = f] \in Request
      BY <2>2 DEF Idle, Request, Pcs, NoCode, Never
    <2>4. QED BY <2>1, <2>3, <1>2
  <1>7. ASSUME NEW r \in Requests, RegenerateFind(r) PROVE TypeOK'
    <2>1. req[r] \in Request
      BY DEF TypeOK
    <2>2. \E rec \in Request : Continue(r, rec)
      BY <1>7, <2>1, RequestRecords DEF RegenerateFind, TypeOK
    <2>3. QED BY <1>7, <2>2, <1>0
            DEF RegenerateFind, Continue, TypeOK, rowVars, histVars
  <1>8. ASSUME NEW r \in Requests, Check(r) PROVE TypeOK'
    <2>1. req[r] \in Request
      BY DEF TypeOK
    <2>2. Spliced(req[r].codes, req[r].code) \in SUBSET RecoveryCode
      BY <2>1 DEF Spliced, Request
    <2>3. \E rec \in Request : Continue(r, rec)
      BY <1>8, <2>1, <2>2, RequestRecords DEF Check
    <2>4. QED BY <1>8, <2>3, <1>0
            DEF Check, Continue, TypeOK, rowVars, histVars
  <1>9. ASSUME NEW r \in Requests, Write(r) PROVE TypeOK'
    <2> DEFINE q == req[r]
    <2>1. q \in Request
      BY DEF TypeOK
    <2>2. req' \in [Requests -> Request]
      BY <1>9, <2>1, <1>0, RequestRecords DEF Write, Continue
    <2>3. lastUsedAt' \in [FactorIds -> Steps \cup {Never}]
      BY <1>9, <2>1 DEF Write, TypeOK, Request
    <2>4. backupCodes' \in [FactorIds -> SUBSET RecoveryCode]
      BY <1>9, <2>1 DEF Write, TypeOK, Request
    <2>5. spent' \in SUBSET RecoveryCode
      BY <1>9, <2>1, KindOfCode DEF Write, AcceptTotp, AcceptRecovery, TypeOK, Request
    <2>6. lastAccept' \in [TotpCode -> Steps \cup {Never}]
      BY <1>9, <2>1 DEF Write, AcceptTotp, AcceptRecovery, TypeOK, Request
    <2>7. repeats' \in SUBSET [kind: {"totp", "recovery"}, gap: Nat]
      <3>1. CASE q.code.kind = "totp"
        <4>1. q.code \in TotpCode /\ q.at \in Int /\ lastAccept[q.code] \in Int
          BY <2>1, <3>1, KindOfCode DEF Request, TypeOK, Steps, Never
        <4>2. Distance(q.at, lastAccept[q.code]) \in Nat
          BY <4>1, DistanceNat
        <4>3. QED BY <1>9, <3>1, <4>2 DEF Write, AcceptTotp, TypeOK
      <3>2. CASE q.code.kind = "recovery"
        BY <1>9, <3>2 DEF Write, AcceptRecovery, TypeOK
      <3>3. QED BY <1>9, <3>1, <3>2 DEF Write
    <2>8. QED BY <1>9, <2>2, <2>3, <2>4, <2>5, <2>6, <2>7
            DEF Write, Continue, TypeOK
  <1>10. ASSUME NEW r \in Requests, FinishEnroll(r) PROVE TypeOK'
    <2>1. Batch(batches + 1) \in SUBSET RecoveryCode /\ batches' \in 0..MaxBatch
      BY <1>10 DEF FinishEnroll, Batch, TypeOK
    <2>2. req' \in [Requests -> Request]
      BY <1>10, <1>0, RequestRecords DEF FinishEnroll, Continue, TypeOK
    <2>3. QED BY <1>10, <2>1, <2>2 DEF FinishEnroll, Continue, TypeOK
  <1>11. ASSUME NEW r \in Requests, FinishRegenerate(r) PROVE TypeOK'
    <2>1. NewCodes(req[r].target) \in SUBSET RecoveryCode /\ batches' \in 0..MaxBatch
      BY <1>11 DEF FinishRegenerate, NewCodes, Batch, TypeOK
    <2>2. req' \in [Requests -> Request]
      BY <1>11, <1>0, RequestRecords DEF FinishRegenerate, Continue, TypeOK
    <2>3. QED BY <1>11, <2>1, <2>2 DEF FinishRegenerate, Continue, TypeOK
  <1>12. ASSUME NEW r \in Requests, FinishDisable(r) \/ Abort(r) PROVE TypeOK'
    <2>1. req' \in [Requests -> Request]
      BY <1>12, <1>0, RequestRecords DEF FinishDisable, Abort, Continue, TypeOK
    <2>2. QED BY <1>12, <2>1
            DEF FinishDisable, Abort, Continue, TypeOK, rowVars, histVars
  <1>13. CASE UNCHANGED vars
    BY <1>13 DEF vars, TypeOK
  <1>14. QED
    BY <1>1, <1>3, <1>4, <1>5, <1>6, <1>7, <1>8, <1>9, <1>10, <1>11, <1>12, <1>13
       DEF Next

\* Every variable keeps its shape, whatever the requests do.
THEOREM TypeCorrect == Spec => []TypeOK
  BY TypeInit, TypeStep, PTL DEF Spec

----------------------------------------------------------------------------
(* Disabling is final; the codes of a row are of one batch *)

\* No update that lands late turns a disabled factor on again.
THEOREM DisableIsFinal == Spec => DisabledIsFinal
  <1>1. TypeOK /\ [Next]_vars => [\A f \in created \ active : f \notin active']_vars
    <2> SUFFICES ASSUME TypeOK, Next,
                        NEW f \in created \ active, f \in active'
                 PROVE  FALSE
      OBVIOUS
    <2>1. CASE Tick
      BY <2>1 DEF Tick, rowVars
    <2>2. ASSUME NEW r \in Requests, FinishEnroll(r) PROVE FALSE
      BY <2>2 DEF FinishEnroll
    <2>3. ASSUME NEW r \in Requests, FinishDisable(r) PROVE FALSE
      BY <2>3 DEF FinishDisable
    <2>4. ASSUME NEW r \in Requests,
                 \/ StartEnroll(r) \/ StartVerify(r)
                 \/ StartRegenerate(r) \/ StartDisable(r)
          PROVE  FALSE
      BY <2>4 DEF StartEnroll, StartVerify, StartRegenerate, StartDisable,
         Begin, rowVars
    <2>5. ASSUME NEW r \in Requests,
                 \/ RegenerateFind(r) \/ Check(r) \/ Write(r)
                 \/ FinishRegenerate(r) \/ Abort(r)
          PROVE  FALSE
      BY <2>5 DEF RegenerateFind, Check, Write, FinishRegenerate, Abort, rowVars
    <2>6. QED
      BY <2>1, <2>2, <2>3, <2>4, <2>5 DEF Next
  <1>2. QED
    BY <1>1, TypeCorrect, PTL DEF Spec, DisabledIsFinal

BatchInv == OneBatch /\ OneBatchHeld

\* The codes a handler holds after a step are some it held, or a row's.
HeldFrom(p) ==
  \/ req'[p].codes \subseteq req[p].codes
  \/ \E f \in FactorIds : req'[p].codes = backupCodes[f]

LEMMA HeldCodes ==
  ASSUME TypeOK, [Next]_vars, NEW p \in Requests
  PROVE  HeldFrom(p)
  <1> USE DEF HeldFrom
  <1>1. CASE Tick \/ UNCHANGED vars
    BY <1>1 DEF Tick, vars
  <1>2. ASSUME NEW r \in Requests,
               \/ StartEnroll(r) \/ StartRegenerate(r) \/ StartDisable(r)
               \/ FinishEnroll(r) \/ FinishRegenerate(r) \/ FinishDisable(r)
               \/ Abort(r)
        PROVE  HeldFrom(p)
    <2> DEFINE Emptied == /\ req'[r].codes = {}
                          /\ \A q \in Requests \ {r} : req'[q] = req[q]
    <2>1. CASE StartEnroll(r)
      <3>1. Emptied
        BY <2>1 DEF StartEnroll, Begin, Idle, TypeOK
      <3>2. QED BY <3>1
    <2>2. CASE StartRegenerate(r)
      <3>1. Emptied
        BY <2>2 DEF StartRegenerate, Begin, Idle, TypeOK
      <3>2. QED BY <3>1
    <2>3. CASE StartDisable(r)
      <3>1. Emptied
        BY <2>3 DEF StartDisable, Begin, Idle, TypeOK
      <3>2. QED BY <3>1
    <2>4. CASE FinishEnroll(r) \/ FinishRegenerate(r) \/ FinishDisable(r) \/ Abort(r)
      <3>1. Emptied
        BY <2>4 DEF FinishEnroll, FinishRegenerate, FinishDisable, Abort,
           Continue, Idle, TypeOK
      <3>2. QED BY <3>1
    <2>5. QED BY <1>2, <2>1, <2>2, <2>3, <2>4
  <1>3. ASSUME NEW r \in Requests, StartVerify(r) PROVE HeldFrom(p)
    <2>1. PICK c \in Held, f \in active :
            Begin(r, Loaded([Idle EXCEPT !.op = "verify", !.code = c], f))
      BY <1>3 DEF StartVerify
    <2>2. Loaded([Idle EXCEPT !.op = "verify", !.code = c], f).codes = backupCodes[f]
      BY DEF Loaded, Idle
    <2>3. QED BY <2>1, <2>2 DEF Begin, TypeOK
  <1>4. ASSUME NEW r \in Requests, RegenerateFind(r) PROVE HeldFrom(p)
    <2>1. req[r] \in Request
      BY DEF TypeOK
    <2>2. \A f \in active : Loaded(req[r], f).codes = backupCodes[f]
      BY <2>1 DEF Loaded, Request
    <2>3. QED BY <1>4, <2>2 DEF RegenerateFind, Continue, Idle, TypeOK
  <1>5. ASSUME NEW r \in Requests, Check(r) PROVE HeldFrom(p)
    <2>1. req[r] \in Request
      BY DEF TypeOK
    <2>2. \E rec : /\ req' = [req EXCEPT ![r] = rec]
                   /\ rec.codes \subseteq req[r].codes
      <3>1. \A cs : Passed(req[r], cs).codes = cs
        BY <2>1, PassedFields
      <3>2. Idle.codes = {}
        BY DEF Idle
      <3>3. Spliced(req[r].codes, req[r].code) \subseteq req[r].codes
        BY DEF Spliced
      <3>4. QED BY <1>5, <3>1, <3>2, <3>3 DEF Check, Continue
    <2>3. QED BY <2>2 DEF TypeOK
  <1>6. ASSUME NEW r \in Requests, Write(r) PROVE HeldFrom(p)
    <2>1. req[r] \in Request
      BY DEF TypeOK
    <2>2. AfterVerify(req[r]).codes = {}
      BY <2>1 DEF AfterVerify, Idle, Request
    <2>3. QED BY <1>6, <2>2 DEF Write, Continue, TypeOK
  <1>7. QED
    BY <1>1, <1>2, <1>3, <1>4, <1>5, <1>6 DEF Next

\* The codes of a row after a step are some it had, some a handler held, or
\* those of the next batch.
RowFrom(f) ==
  \/ backupCodes'[f] = backupCodes[f]
  \/ \E r \in Requests : backupCodes'[f] = req[r].codes
  \/ /\ batches' = batches + 1
     /\ backupCodes'[f] = Batch(batches + 1)

LEMMA RowCodes ==
  ASSUME TypeOK, [Next]_vars, NEW f \in FactorIds
  PROVE  RowFrom(f)
  <1> USE DEF RowFrom
  <1>1. CASE Tick \/ UNCHANGED vars
    BY <1>1 DEF Tick, vars, rowVars
  <1>2. ASSUME NEW r \in Requests,
               \/ StartEnroll(r) \/ StartVerify(r)
               \/ StartRegenerate(r) \/ StartDisable(r)
        PROVE  backupCodes' = backupCodes
    BY <1>2 DEF StartEnroll, StartVerify, StartRegenerate, StartDisable,
       Begin, rowVars
  <1>3. ASSUME NEW r \in Requests,
               \/ RegenerateFind(r) \/ Check(r) \/ Abort(r) \/ FinishDisable(r)
        PROVE  backupCodes' = backupCodes
    BY <1>3 DEF RegenerateFind, Check, Abort, FinishDisable, rowVars
  <1>4. ASSUME NEW r \in Requests, Write(r) PROVE RowFrom(f)
    BY <1>4 DEF Write, TypeOK
  <1>5. ASSUME NEW r \in Requests, FinishEnroll(r) \/ FinishRegenerate(r)
        PROVE  RowFrom(f)
    BY <1>5 DEF FinishEnroll, FinishRegenerate, NewCodes, TypeOK
  <1>6. QED
    BY <1>1, <1>2, <1>3, <1>4, <1>5 DEF Next

LEMMA BatchStep == TypeOK /\ BatchInv /\ [Next]_vars => BatchInv'
  <1> SUFFICES ASSUME TypeOK, BatchInv, [Next]_vars PROVE BatchInv'
    OBVIOUS
  <1>1. \A p \in Requests : HeldFrom(p)
    BY HeldCodes
  <1>2. \A f \in FactorIds : RowFrom(f)
    BY RowCodes
  <1>3. OneBatch'
    BY <1>2 DEF RowFrom, Batch, BatchInv, OneBatch, OneBatchHeld
  <1>4. OneBatchHeld'
    BY <1>1 DEF HeldFrom, BatchInv, OneBatch, OneBatchHeld
  <1>5. QED
    BY <1>3, <1>4 DEF BatchInv

\* A row never mixes recovery codes of two batches, under any interleaving.
THEOREM OneBatchCorrect == Spec => []OneBatch
  <1>1. Init => BatchInv
    BY DEF Init, BatchInv, OneBatch, OneBatchHeld, Idle
  <1>2. QED
    BY <1>1, BatchStep, TypeCorrect, PTL DEF Spec, BatchInv

----------------------------------------------------------------------------
(* Batches are fresh *)

\* The code of a request is the one it came with.
CodeFrom(p) ==
  \/ req'[p].code = req[p].code
  \/ req'[p].code \in Held
  \/ req'[p].code = NoCode

LEMMA CodeKept ==
  ASSUME TypeOK, [Next]_vars, NEW p \in Requests
  PROVE  CodeFrom(p)
  <1> USE DEF CodeFrom
  <1>1. CASE Tick \/ UNCHANGED vars
    BY <1>1 DEF Tick, vars
  <1>2. ASSUME NEW r \in Requests, StartEnroll(r) PROVE CodeFrom(p)
    BY <1>2 DEF StartEnroll, Begin, Idle, TypeOK
  <1>3. ASSUME NEW r \in Requests, StartDisable(r) PROVE CodeFrom(p)
    BY <1>3 DEF StartDisable, Begin, Idle, TypeOK
  <1>4. ASSUME NEW r \in Requests, StartVerify(r) PROVE CodeFrom(p)
    <2>1. PICK c \in Held, f \in active :
            Begin(r, Loaded([Idle EXCEPT !.op = "verify", !.code = c], f))
      BY <1>4 DEF StartVerify
    <2>2. Loaded([Idle EXCEPT !.op = "verify", !.code = c], f).code = c
      BY DEF Loaded, Idle
    <2>3. QED BY <2>1, <2>2 DEF Begin, TypeOK
  <1>5. ASSUME NEW r \in Requests, StartRegenerate(r) PROVE CodeFrom(p)
    BY <1>5 DEF StartRegenerate, Begin, Idle, TypeOK
  <1>6. ASSUME NEW r \in Requests,
               \/ RegenerateFind(r) \/ Check(r) \/ Write(r) \/ FinishEnroll(r)
               \/ FinishRegenerate(r) \/ FinishDisable(r) \/ Abort(r)
        PROVE  CodeFrom(p)
    <2>1. req[r] \in Request
      BY DEF TypeOK
    <2>2. \/ req'[r] = req[r] \/ req'[r].code = req[r].code \/ req'[r].code = NoCode
      <3>1. CASE RegenerateFind(r)
        <4>1. \A f : Loaded(req[r], f).code = req[r].code
          BY <2>1, LoadedFields
        <4>2. Idle.code = NoCode
          BY DEF Idle
        <4>3. QED BY <3>1, <4>1, <4>2 DEF RegenerateFind, Continue, TypeOK
      <3>2. CASE Check(r)
        <4>1. \A cs : Passed(req[r], cs).code = req[r].code
          BY <2>1, PassedFields
        <4>2. Idle.code = NoCode
          BY DEF Idle
        <4>3. QED BY <3>2, <4>1, <4>2 DEF Check, Continue, TypeOK
      <3>3. CASE Write(r)
        BY <3>3, <2>1, AfterFields DEF Write, Continue, TypeOK
      <3>4. CASE FinishEnroll(r) \/ FinishRegenerate(r) \/ FinishDisable(r) \/ Abort(r)
        BY <3>4 DEF FinishEnroll, FinishRegenerate, FinishDisable, Abort,
           Continue, Idle, TypeOK
      <3>5. QED BY <1>6, <3>1, <3>2, <3>3, <3>4
    <2>3. p # r => req'[p] = req[p]
      BY <1>6 DEF RegenerateFind, Check, Write, FinishEnroll, FinishRegenerate,
         FinishDisable, Abort, Continue, TypeOK
    <2>4. QED BY <2>2, <2>3
  <1>7. QED
    BY <1>1, <1>2, <1>3, <1>4, <1>5, <1>6 DEF Next

\* Numbers of batches only move when a batch is generated.
LEMMA BatchCounters ==
  ASSUME TypeOK, [Next]_vars
  PROVE  /\ batches' \in {batches, batches + 1}
         /\ \A f \in FactorIds : issued'[f] \in {issued[f], batches'}
         /\ \A c \in spent' \ spent : \E r \in Requests : c = req[r].code /\ c.kind = "recovery"
  <1>1. CASE Tick \/ UNCHANGED vars
    BY <1>1 DEF Tick, vars, histVars
  <1>2. ASSUME NEW r \in Requests, FinishEnroll(r) \/ FinishRegenerate(r)
        PROVE  /\ batches' = batches + 1
               /\ \A f \in FactorIds : issued'[f] \in {issued[f], batches'}
               /\ spent' = spent
    BY <1>2 DEF FinishEnroll, FinishRegenerate, TypeOK
  <1>3. ASSUME NEW r \in Requests, Write(r)
        PROVE  /\ batches' = batches /\ issued' = issued
               /\ \A c \in spent' \ spent : c = req[r].code /\ c.kind = "recovery"
    BY <1>3 DEF Write, AcceptTotp, AcceptRecovery
  <1>4. ASSUME NEW r \in Requests,
               \/ StartEnroll(r) \/ StartVerify(r)
               \/ StartRegenerate(r) \/ StartDisable(r)
        PROVE  batches' = batches /\ issued' = issued /\ spent' = spent
    BY <1>4 DEF StartEnroll, StartVerify, StartRegenerate, StartDisable,
       Begin, histVars
  <1>5. ASSUME NEW r \in Requests,
               \/ RegenerateFind(r) \/ Check(r) \/ FinishDisable(r) \/ Abort(r)
        PROVE  batches' = batches /\ issued' = issued /\ spent' = spent
    BY <1>5 DEF RegenerateFind, Check, FinishDisable, Abort, histVars
  <1>6. QED
    BY <1>1, <1>2, <1>3, <1>4, <1>5 DEF Next

LEMMA FreshStep == TypeOK /\ BatchesFresh /\ [Next]_vars => BatchesFresh'
  <1> SUFFICES ASSUME TypeOK, BatchesFresh, [Next]_vars PROVE BatchesFresh'
    OBVIOUS
  <1> USE DEF BatchesFresh
  <1>1. batches \in Nat /\ batches' \in {batches, batches + 1}
    BY BatchCounters DEF TypeOK
  <1>2. TypeOK'
    BY TypeStep
  <1>3. \A f \in FactorIds : issued'[f] <= batches'
    BY <1>1, <1>2, BatchCounters DEF TypeOK
  <1>4. \A c \in spent' : c.batch <= batches'
    <2>1. \A c \in spent' : c.batch \in Nat
      BY <1>2 DEF TypeOK, RecoveryCode
    <2>2. QED BY <2>1, <1>1, BatchCounters
  <1>5. \A f \in FactorIds : \A c \in backupCodes'[f] : c.batch <= batches'
    <2> SUFFICES ASSUME NEW f \in FactorIds, NEW c \in backupCodes'[f]
                 PROVE  c.batch <= batches'
      OBVIOUS
    <2>1. c.batch \in Nat
      BY <1>2 DEF TypeOK, RecoveryCode
    <2>2. RowFrom(f)
      BY RowCodes
    <2>3. QED BY <2>1, <2>2, <1>1 DEF RowFrom, Batch
  <1>6. \A p \in Requests : \A c \in req'[p].codes : c.batch <= batches'
    <2> SUFFICES ASSUME NEW p \in Requests, NEW c \in req'[p].codes
                 PROVE  c.batch <= batches'
      OBVIOUS
    <2>1. c.batch \in Nat
      BY <1>2 DEF TypeOK, Request, RecoveryCode
    <2>2. HeldFrom(p)
      BY HeldCodes
    <2>3. QED BY <2>1, <2>2, <1>1 DEF HeldFrom
  <1>7. \A p \in Requests :
          req'[p].code.kind = "recovery" => req'[p].code.batch <= batches'
    <2> SUFFICES ASSUME NEW p \in Requests, req'[p].code.kind = "recovery"
                 PROVE  req'[p].code.batch <= batches'
      OBVIOUS
    <2>1. req'[p].code.batch \in Nat
      <3>1. req'[p].code \in Code \cup {NoCode}
        BY <1>2 DEF TypeOK, Request
      <3>2. req'[p].code \in RecoveryCode
        BY <3>1, KindOfCode
      <3>3. QED BY <3>2 DEF RecoveryCode
    <2>2. CodeFrom(p)
      BY CodeKept
    <2>3. CASE req'[p].code = req[p].code
      BY <2>1, <2>3, <1>1
    <2>4. CASE req'[p].code \in Held
      BY <2>1, <2>4, <1>1 DEF Held, TotpCode
    <2>5. CASE req'[p].code = NoCode
      BY <2>5 DEF NoCode
    <2>6. QED BY <2>2, <2>3, <2>4, <2>5 DEF CodeFrom
  <1>8. QED
    BY <1>3, <1>4, <1>5, <1>6, <1>7

----------------------------------------------------------------------------
(* Histories without overlapping requests *)

\* A step of a request touches no other request.
OthersIdle(r) ==
  \A q \in Requests \ {r} : req[q].pc = "idle" /\ req'[q] = req[q]

\* The row part of SerialInv, apart from the requests.
RowsSerial ==
  /\ \A f, g \in active : f = g
  /\ \A f \in created : backupCodes[f] = Batch(issued[f]) \ spent
  /\ \A f, g \in created : issued[f] = issued[g] => f = g
  /\ \A f \in FactorIds : lastUsedAt[f] <= step
  /\ \A c \in TotpCode : lastAccept[c] <= lastUsedAt[c.factor]
  /\ \A x \in repeats : x.kind = "totp" /\ x.gap > Window

\* With everyone else idle, only the stepping request and the rows matter.
LEMMA SerialFromParts ==
  ASSUME NEW r \in Requests, OthersIdle(r), RowsSerial', ReadIsCurrent(r)'
  PROVE  SerialInv'
  <1>1. \A q \in Requests \ {r} : req'[q].pc = "idle"
    BY DEF OthersIdle
  <1>2. \A q \in Requests : ReadIsCurrent(q)'
    BY <1>1 DEF ReadIsCurrent
  <1>3. \A p, q \in Requests : InFlight(p)' /\ InFlight(q)' => p = q
    BY <1>1 DEF InFlight
  <1>4. QED
    BY <1>2, <1>3 DEF SerialInv, RowsSerial

\* While requests do not overlap, a request that begins is alone.
LEMMA BeginAlone ==
  ASSUME TypeOK, NEW r \in Requests, NEW rec, Begin(r, rec), ~overlapped'
  PROVE  OthersIdle(r) /\ req'[r] = rec
  BY DEF Begin, InFlight, OthersIdle, TypeOK

\* ... and one that continues still is.
LEMMA ContinueAlone ==
  ASSUME TypeOK, SerialInv, NEW r \in Requests, InFlight(r), NEW rec, Continue(r, rec)
  PROVE  OthersIdle(r) /\ req'[r] = rec
  BY DEF Continue, InFlight, OthersIdle, SerialInv, TypeOK

LEMMA SerialBegin ==
  ASSUME TypeOK, SerialInv, ~overlapped', NEW r \in Requests,
         StartEnroll(r) \/ StartVerify(r) \/ StartRegenerate(r) \/ StartDisable(r)
  PROVE  SerialInv'
  <1>1. RowsSerial'
    <2>1. UNCHANGED <<rowVars, step, histVars>>
      BY DEF StartEnroll, StartVerify, StartRegenerate, StartDisable, Begin
    <2>2. QED BY <2>1 DEF rowVars, histVars, SerialInv, RowsSerial
  <1>2. CASE StartEnroll(r)
    <2> DEFINE rec == [Idle EXCEPT !.pc = "enroll", !.op = "enroll"]
    <2>1. Begin(r, rec) /\ active = {} /\ rec.pc = "enroll"
      BY <1>2 DEF StartEnroll, MayEnroll, Idle
    <2>2. OthersIdle(r) /\ req'[r] = rec
      BY <2>1, BeginAlone
    <2>3. ReadIsCurrent(r)'
      BY <2>1, <2>2 DEF ReadIsCurrent, Begin, rowVars
    <2>4. QED BY <1>1, <2>2, <2>3, SerialFromParts
  <1>3. CASE StartVerify(r)
    <2>1. PICK c \in Held, f \in active :
            Begin(r, Loaded([Idle EXCEPT !.op = "verify", !.code = c], f))
      BY <1>3 DEF StartVerify
    <2> DEFINE q == [Idle EXCEPT !.op = "verify", !.code = c]
    <2>2. q \in Request /\ q.op = "verify"
      BY IdleRequest DEF Held, Code, Idle, Request, TypeOK, Pcs, NoCode
    <2>3. OthersIdle(r) /\ req'[r] = Loaded(q, f)
      BY <2>1, BeginAlone
    <2>4. /\ req'[r].pc = "check" /\ req'[r].factor = f /\ req'[r].op = "verify"
          /\ req'[r].codes = backupCodes[f] /\ req'[r].last = lastUsedAt[f]
      <3> HIDE DEF q
      <3>1. QED BY <2>2, <2>3, LoadedFields
    <2>5. ReadIsCurrent(r)'
      BY <2>1, <2>4 DEF ReadIsCurrent, Begin, rowVars, TypeOK
    <2>6. QED BY <1>1, <2>3, <2>5, SerialFromParts
  <1>4. CASE StartRegenerate(r)
    <2>1. PICK c \in Held, f \in active :
            Begin(r, [Idle EXCEPT !.pc = "find", !.op = "regenerate",
                                  !.code = c, !.target = f])
      BY <1>4 DEF StartRegenerate
    <2> DEFINE rec == [Idle EXCEPT !.pc = "find", !.op = "regenerate",
                                   !.code = c, !.target = f]
    <2>2. OthersIdle(r) /\ req'[r] = rec
      BY <2>1, BeginAlone
    <2>3. rec.pc = "find" /\ rec.target = f
      BY DEF Idle
    <2>4. ReadIsCurrent(r)'
      BY <2>1, <2>2, <2>3 DEF ReadIsCurrent, Begin, rowVars, TypeOK
    <2>5. QED BY <1>1, <2>2, <2>4, SerialFromParts
  <1>5. CASE StartDisable(r)
    <2>1. PICK f \in active : Begin(r, [Idle EXCEPT !.pc = "disable",
                                      !.op = "disable", !.target = f])
      BY <1>5 DEF StartDisable
    <2> DEFINE rec == [Idle EXCEPT !.pc = "disable", !.op = "disable", !.target = f]
    <2>2. OthersIdle(r) /\ req'[r] = rec
      BY <2>1, BeginAlone
    <2>3. rec.pc = "disable"
      BY DEF Idle
    <2>4. ReadIsCurrent(r)'
      BY <2>2, <2>3 DEF ReadIsCurrent
    <2>5. QED BY <1>1, <2>2, <2>4, SerialFromParts
  <1>6. QED
    BY <1>2, <1>3, <1>4, <1>5

\* An idle request reads nothing.
LEMMA IdleIsCurrent ==
  ASSUME NEW r \in Requests, req'[r] = Idle
  PROVE  ReadIsCurrent(r)'
  BY DEF ReadIsCurrent, Idle

LEMMA SerialFindCheck ==
  ASSUME TypeOK, SerialInv, NEW r \in Requests,
         RegenerateFind(r) \/ Check(r) \/ Abort(r)
  PROVE  SerialInv'
  <1>1. /\ UNCHANGED <<rowVars, step, histVars>>
        /\ InFlight(r)
    BY DEF RegenerateFind, Check, Abort, InFlight
  <1>2. RowsSerial'
    BY <1>1 DEF rowVars, histVars, SerialInv, RowsSerial
  <1>3. req[r] \in Request /\ ReadIsCurrent(r)
    BY DEF TypeOK, SerialInv
  <1>4. OthersIdle(r) /\ ReadIsCurrent(r)'
    <2>1. CASE Continue(r, Idle)
      BY <1>1, <2>1, ContinueAlone, IdleIsCurrent
    <2>2. ASSUME NEW f \in active, req[r].pc = "find", Continue(r, Loaded(req[r], f))
          PROVE  OthersIdle(r) /\ ReadIsCurrent(r)'
      <3>1. OthersIdle(r) /\ req'[r] = Loaded(req[r], f)
        BY <1>1, <2>2, ContinueAlone
      <3>2. /\ req'[r].pc = "check" /\ req'[r].factor = f
            /\ req'[r].codes = backupCodes[f] /\ req'[r].last = lastUsedAt[f]
            /\ req'[r].target = req[r].target
        BY <1>3, <3>1, LoadedFields
      <3>3. ReadIsCurrent(r)'
        BY <1>1, <1>3, <2>2, <3>2 DEF ReadIsCurrent, rowVars, TypeOK
      <3>4. QED BY <3>1, <3>3
    <2>3. ASSUME NEW cs, req[r].pc = "check", Continue(r, Passed(req[r], cs)),
                 \/ /\ TotpMatches(req[r].code, req[r].factor)
                    /\ ~UsedRecently(req[r].last)
                 \/ /\ ~TotpMatches(req[r].code, req[r].factor)
                    /\ req[r].code \in req[r].codes
                    /\ cs = Spliced(req[r].codes, req[r].code)
          PROVE  OthersIdle(r) /\ ReadIsCurrent(r)'
      <3>1. OthersIdle(r) /\ req'[r] = Passed(req[r], cs)
        BY <1>1, <2>3, ContinueAlone
      <3>2. /\ req'[r].pc = "write" /\ req'[r].at = step /\ req'[r].codes = cs
            /\ req'[r].factor = req[r].factor /\ req'[r].code = req[r].code
            /\ req'[r].target = req[r].target /\ req'[r].op = req[r].op
        BY <1>3, <3>1, PassedFields DEF StampedStep
      <3>3. /\ req[r].factor \in created /\ req[r].factor \in FactorIds
            /\ req[r].codes = backupCodes[req[r].factor]
            /\ req[r].last = lastUsedAt[req[r].factor]
            /\ req[r].op # "verify" => req[r].target \in created
        BY <1>3, <2>3 DEF ReadIsCurrent, TypeOK
      <3>4. req[r].code.kind = "totp" =>
              /\ req[r].code.factor = req[r].factor
              /\ lastUsedAt[req[r].factor] # Never =>
                   step - lastUsedAt[req[r].factor] > Window
        <4> SUFFICES ASSUME req[r].code.kind = "totp"
                     PROVE  /\ req[r].code.factor = req[r].factor
                            /\ lastUsedAt[req[r].factor] # Never =>
                                 step - lastUsedAt[req[r].factor] > Window
          OBVIOUS
        <4>1. TotpMatches(req[r].code, req[r].factor) /\ ~UsedRecently(req[r].last)
          BY <2>3, <3>3 DEF TypeOK, RecoveryCode
        <4>2. /\ step \in Int /\ lastUsedAt[req[r].factor] \in Int
              /\ lastUsedAt[req[r].factor] <= step
          BY <3>3 DEF TypeOK, Steps, Never, SerialInv
        <4>3. Distance(step, lastUsedAt[req[r].factor]) = step - lastUsedAt[req[r].factor]
          BY <4>2, DistanceNat
        <4>4. QED BY <3>3, <4>1, <4>2, <4>3, MfaAssumption DEF TotpMatches, UsedRecently
      <3>5. req[r].code.kind = "recovery" =>
              /\ req[r].code \in backupCodes[req[r].factor]
              /\ cs = backupCodes[req[r].factor] \ {req[r].code}
        BY <2>3, <3>3 DEF TotpMatches, Spliced
      <3>6. step \in Steps /\ step <= step /\ lastUsedAt[req[r].factor] <= step
        BY <3>3 DEF TypeOK, Steps, SerialInv
      <3>7. ReadIsCurrent(r)'
        BY <1>1, <3>2, <3>3, <3>4, <3>5, <3>6 DEF ReadIsCurrent, rowVars
      <3>8. QED BY <3>1, <3>7
    <2>4. QED
      BY <2>1, <2>2, <2>3 DEF RegenerateFind, Check, Abort
  <1>5. QED
    BY <1>2, <1>4, SerialFromParts

LEMMA SerialFinish ==
  ASSUME TypeOK, BatchesFresh, SerialInv, NEW r \in Requests,
         FinishEnroll(r) \/ FinishRegenerate(r) \/ FinishDisable(r)
  PROVE  SerialInv'
  <1>1. InFlight(r) /\ Continue(r, Idle)
    BY DEF FinishEnroll, FinishRegenerate, FinishDisable, InFlight
  <1>2. OthersIdle(r) /\ ReadIsCurrent(r)'
    BY <1>1, ContinueAlone, IdleIsCurrent
  <1>3. ReadIsCurrent(r)
    BY DEF SerialInv
  <1>4. Batch(batches + 1) \ spent = Batch(batches + 1)
    <2>1. batches \in Nat
      BY DEF TypeOK
    <2>2. \A c \in spent : c.batch # batches + 1
      BY <2>1 DEF BatchesFresh, TypeOK, RecoveryCode
    <2>3. QED BY <2>2 DEF Batch
  <1>5. batches \in Nat /\ \A f \in FactorIds : issued[f] # batches + 1
    BY DEF TypeOK, BatchesFresh
  <1>6. RowsSerial'
    <2>1. CASE FinishEnroll(r)
      <3>1. PICK f \in FactorIds \ created :
              /\ created' = created \cup {f}
              /\ active' = active \cup {f}
              /\ backupCodes' = [backupCodes EXCEPT ![f] = Batch(batches + 1)]
              /\ issued' = [issued EXCEPT ![f] = batches + 1]
        BY <2>1 DEF FinishEnroll
      <3>2. active = {}
        BY <2>1, <1>3 DEF FinishEnroll, ReadIsCurrent
      <3>3. UNCHANGED <<lastUsedAt, step, spent, lastAccept, repeats>>
        BY <2>1 DEF FinishEnroll
      <3>4. \A g \in created' : backupCodes'[g] = Batch(issued'[g]) \ spent'
        BY <3>1, <3>3, <1>4 DEF TypeOK, SerialInv
      <3>5. \A g, h \in created' : issued'[g] = issued'[h] => g = h
        BY <3>1, <1>5 DEF TypeOK, SerialInv
      <3>6. QED BY <3>1, <3>2, <3>3, <3>4, <3>5 DEF RowsSerial, SerialInv
    <2>2. CASE FinishRegenerate(r)
      <3> DEFINE f == req[r].target
      <3>1. /\ f \in created /\ f \in FactorIds
        BY <2>2, <1>3 DEF FinishRegenerate, ReadIsCurrent, TypeOK
      <3>2. /\ backupCodes' = [backupCodes EXCEPT ![f] = Batch(batches + 1)]
            /\ issued' = [issued EXCEPT ![f] = batches + 1]
            /\ UNCHANGED <<created, active, lastUsedAt, step, spent, lastAccept, repeats>>
        BY <2>2 DEF FinishRegenerate, NewCodes
      <3> HIDE DEF f
      <3>3. \A g \in created' : backupCodes'[g] = Batch(issued'[g]) \ spent'
        BY <3>1, <3>2, <1>4 DEF TypeOK, SerialInv
      <3>4. \A g, h \in created' : issued'[g] = issued'[h] => g = h
        BY <3>1, <3>2, <1>5 DEF TypeOK, SerialInv
      <3>5. QED BY <3>2, <3>3, <3>4 DEF RowsSerial, SerialInv
    <2>3. CASE FinishDisable(r)
      <3>1. /\ active' \subseteq active
            /\ UNCHANGED <<created, backupCodes, lastUsedAt, step, histVars>>
        BY <2>3 DEF FinishDisable
      <3>2. QED BY <3>1 DEF RowsSerial, SerialInv, histVars
    <2>4. QED BY <2>1, <2>2, <2>3
  <1>7. QED
    BY <1>2, <1>6, SerialFromParts
\* An accepted code: the row is stamped, and the code cannot pass again soon.
LEMMA SerialWrite ==
  ASSUME TypeOK, SerialInv, NEW r \in Requests, Write(r)
  PROVE  SerialInv'
  <1> DEFINE q == req[r]
             f == q.factor
  <1>1. /\ q \in Request /\ q.pc = "write" /\ InFlight(r)
        /\ Continue(r, AfterVerify(q)) /\ ReadIsCurrent(r)
        /\ UNCHANGED <<created, active, step, batches, issued>>
        /\ lastUsedAt' = [lastUsedAt EXCEPT ![f] = q.at]
    BY DEF Write, InFlight, TypeOK, SerialInv
  <1>2. /\ f \in created /\ f \in FactorIds /\ q.at \in Steps /\ q.at <= step
        /\ lastUsedAt[f] <= q.at
        /\ q.op # "verify" => q.target \in created
    BY <1>1 DEF ReadIsCurrent, TypeOK
  <1>3. OthersIdle(r) /\ req'[r] = AfterVerify(q)
    <2> HIDE DEF q
    <2>1. QED BY <1>1, ContinueAlone
  <1>4. ReadIsCurrent(r)'
    <2>1. /\ req'[r].pc = IF q.op = "verify" THEN "idle" ELSE "regenerate"
          /\ req'[r].pc = "regenerate" => req'[r].target = q.target
      <3> HIDE DEF q
      <3>1. QED BY <1>1, <1>3, AfterFields
    <2>2. QED BY <1>1, <1>2, <2>1 DEF ReadIsCurrent
  <1>5. \A g \in FactorIds : /\ lastUsedAt'[g] <= step'
                             /\ lastUsedAt[g] <= lastUsedAt'[g]
    BY <1>1, <1>2 DEF SerialInv, TypeOK, Steps, Never
  <1>6. RowsSerial'
    <2>1. CASE q.code.kind = "totp"
      <3>1. /\ AcceptTotp(q.code, q.at) /\ UNCHANGED backupCodes
            /\ q.code.factor = f
            /\ lastUsedAt[f] # Never => q.at - lastUsedAt[f] > Window
        BY <1>1, <2>1 DEF Write, ReadIsCurrent
      <3>2. /\ q.code \in TotpCode /\ q.at \in Nat
            /\ lastAccept[q.code] \in Int /\ lastUsedAt[f] \in Int
            /\ lastAccept[q.code] <= lastUsedAt[f]
            /\ lastAccept[q.code] # Never => lastAccept[q.code] >= 0
        <4>1. q.code \in TotpCode
          BY <1>1, <2>1, KindOfCode DEF Request
        <4>2. QED BY <4>1, <3>1, <1>2 DEF TypeOK, SerialInv, Steps, Never
      <3>3. \A c \in TotpCode : lastAccept'[c] <= lastUsedAt'[c.factor]
        <4> SUFFICES ASSUME NEW c \in TotpCode
                     PROVE  lastAccept'[c] <= lastUsedAt'[c.factor]
          OBVIOUS
        <4>1. CASE c = q.code
          BY <4>1, <1>1, <1>2, <3>1, <3>2 DEF AcceptTotp, TypeOK
        <4>2. CASE c # q.code
          <5>1. c.factor \in FactorIds
            BY DEF TotpCode
          <5>2. lastAccept'[c] = lastAccept[c] /\ lastAccept[c] <= lastUsedAt[c.factor]
            BY <4>2, <3>1, <3>2 DEF AcceptTotp, TypeOK, SerialInv
          <5>3. /\ lastAccept[c] \in Int /\ lastUsedAt[c.factor] \in Int
                /\ lastUsedAt'[c.factor] \in Int
            BY <5>1, <1>1, <1>2 DEF TypeOK, Steps, Never
          <5>4. QED BY <5>1, <5>2, <5>3, <1>5
        <4>3. QED BY <4>1, <4>2
      <3>4. \A x \in repeats' : x.kind = "totp" /\ x.gap > Window
        <4>1. CASE lastAccept[q.code] = Never
          BY <4>1, <3>1 DEF AcceptTotp, SerialInv
        <4>2. CASE lastAccept[q.code] # Never
          <5>1. q.at - lastAccept[q.code] > Window
            BY <4>2, <3>1, <3>2, MfaAssumption DEF Never
          <5>2. Distance(q.at, lastAccept[q.code]) = q.at - lastAccept[q.code]
            BY <5>1, <3>2, MfaAssumption, DistanceNat
          <5>3. QED BY <4>2, <5>1, <5>2, <3>1 DEF AcceptTotp, SerialInv
        <4>3. QED BY <4>1, <4>2
      <3>5. UNCHANGED spent
        BY <3>1 DEF AcceptTotp
      <3>6. QED BY <1>1, <1>5, <3>1, <3>3, <3>4, <3>5 DEF RowsSerial, SerialInv
    <2>2. CASE q.code.kind = "recovery"
      <3>1. /\ AcceptRecovery(q.code)
            /\ backupCodes' = [backupCodes EXCEPT ![f] = q.codes]
            /\ q.code \in backupCodes[f]
            /\ q.codes = backupCodes[f] \ {q.code}
        BY <1>1, <2>2 DEF Write, ReadIsCurrent
      <3>2. /\ backupCodes[f] = Batch(issued[f]) \ spent
            /\ q.code.batch = issued[f] /\ q.code \notin spent
        BY <1>2, <3>1 DEF SerialInv, Batch
      <3>3. /\ spent' = spent \cup {q.code} /\ repeats' = repeats
            /\ lastAccept' = lastAccept
        BY <3>1, <3>2 DEF AcceptRecovery
      <3>4. \A g \in created' : backupCodes'[g] = Batch(issued'[g]) \ spent'
        <4> SUFFICES ASSUME NEW g \in created
                     PROVE  backupCodes'[g] = Batch(issued[g]) \ (spent \cup {q.code})
          BY <1>1, <3>3 DEF Batch
        <4>1. CASE g = f
          BY <4>1, <1>2, <3>1, <3>2 DEF TypeOK
        <4>2. CASE g # f
          <5>1. issued[g] # issued[f]
            BY <4>2, <1>2 DEF SerialInv
          <5>2. q.code \notin Batch(issued[g])
            BY <5>1, <3>2 DEF Batch
          <5>3. backupCodes'[g] = backupCodes[g]
            BY <4>2, <3>1, <1>2 DEF TypeOK
          <5>4. QED BY <5>2, <5>3 DEF SerialInv
        <4>3. QED BY <4>1, <4>2
      <3>5. \A c \in TotpCode : lastAccept'[c] <= lastUsedAt'[c.factor]
        <4> SUFFICES ASSUME NEW c \in TotpCode
                     PROVE  lastAccept[c] <= lastUsedAt'[c.factor]
          BY <3>3
        <4>1. c.factor \in FactorIds
          BY DEF TotpCode
        <4>2. /\ lastAccept[c] \in Int /\ lastUsedAt[c.factor] \in Int
              /\ lastUsedAt'[c.factor] \in Int
          BY <4>1, <1>1, <1>2 DEF TypeOK, Steps, Never
        <4>3. QED BY <4>1, <4>2, <1>5 DEF SerialInv
      <3>6. QED BY <1>1, <1>5, <3>3, <3>4, <3>5 DEF RowsSerial, SerialInv
    <2>3. QED BY <2>1, <2>2 DEF Write
  <1>7. QED
    BY <1>3, <1>4, <1>6, SerialFromParts

\* Time passes: what was read stays current, and stamps stay in the past.
LEMMA SerialTick ==
  ASSUME TypeOK, SerialInv, Tick
  PROVE  SerialInv'
  <1>1. /\ step \in Nat /\ step' = step + 1
        /\ UNCHANGED <<rowVars, batches, req, histVars, overlapped>>
    BY DEF Tick, TypeOK, Steps
  <1>2. \A r \in Requests : ReadIsCurrent(r)'
    <2> SUFFICES ASSUME NEW r \in Requests PROVE ReadIsCurrent(r)'
      OBVIOUS
    <2>1. ReadIsCurrent(r)
      BY DEF SerialInv
    <2>2. req[r].pc = "write" => req[r].at <= step'
      BY <1>1, <2>1 DEF ReadIsCurrent, Steps
    <2>3. QED BY <1>1, <2>1, <2>2 DEF ReadIsCurrent, rowVars
  <1>3. \A f \in FactorIds : lastUsedAt'[f] <= step'
    BY <1>1 DEF rowVars, TypeOK, SerialInv, Steps, Never
  <1>4. QED
    BY <1>1, <1>2, <1>3 DEF SerialInv, rowVars, histVars, InFlight, Batch

LEMMA SerialStep ==
  TypeOK /\ BatchesFresh /\ (~overlapped => SerialInv) /\ [Next]_vars
    => (~overlapped => SerialInv)'
  <1> SUFFICES ASSUME TypeOK, BatchesFresh, ~overlapped => SerialInv,
                      [Next]_vars, ~overlapped'
               PROVE  SerialInv'
    OBVIOUS
  <1>1. ~overlapped
    BY DEF Next, Tick, StartEnroll, FinishEnroll, StartVerify, Check, Write,
       StartRegenerate, RegenerateFind, FinishRegenerate, StartDisable,
       FinishDisable, Abort, Begin, Continue, vars
  <1>2. CASE Tick
    BY <1>1, <1>2, SerialTick
  <1>3. ASSUME NEW r \in Requests,
               \/ StartEnroll(r) \/ StartVerify(r)
               \/ StartRegenerate(r) \/ StartDisable(r)
        PROVE  SerialInv'
    BY <1>1, <1>3, SerialBegin
  <1>4. ASSUME NEW r \in Requests, RegenerateFind(r) \/ Check(r) \/ Abort(r)
        PROVE  SerialInv'
    BY <1>1, <1>4, SerialFindCheck
  <1>5. ASSUME NEW r \in Requests,
               FinishEnroll(r) \/ FinishRegenerate(r) \/ FinishDisable(r)
        PROVE  SerialInv'
    BY <1>1, <1>5, SerialFinish
  <1>6. ASSUME NEW r \in Requests, Write(r) PROVE SerialInv'
    BY <1>1, <1>6, SerialWrite
  <1>7. CASE UNCHANGED vars
    BY <1>1, <1>7 DEF vars, SerialInv, ReadIsCurrent, InFlight, Batch
  <1>8. QED
    BY <1>2, <1>3, <1>4, <1>5, <1>6, <1>7 DEF Next

LEMMA SerialInit == Init => BatchesFresh /\ SerialInv
  <1> SUFFICES ASSUME Init PROVE BatchesFresh /\ SerialInv
    OBVIOUS
  <1>1. BatchesFresh
    BY DEF Init, BatchesFresh, Idle, NoCode
  <1>2. \A r \in Requests : ReadIsCurrent(r)
    BY DEF Init, Idle, ReadIsCurrent
  <1>3. \A c \in TotpCode : lastAccept[c] <= lastUsedAt[c.factor]
    BY DEF Init, TotpCode, Never
  <1>4. QED
    BY <1>1, <1>2, <1>3 DEF Init, SerialInv, InFlight, Idle, Never

\* The strengthening holds in every state.
THEOREM SerialHistories ==
  Spec => [](TypeOK /\ BatchesFresh /\ (~overlapped => SerialInv))
  BY TypeInit, SerialInit, TypeStep, FreshStep, SerialStep, PTL DEF Spec

\* One request at a time: enroll's look at the active rows suffices.
THEOREM SerialOneFactorCorrect == Spec => []SerialOneFactor
  <1>1. (~overlapped => SerialInv) => SerialOneFactor
    BY DEF SerialInv, SerialOneFactor
  <1>2. QED BY <1>1, SerialHistories, PTL

\* One request at a time: the working codes are those issued and not spent.
THEOREM SerialLedgerCorrect == Spec => []SerialLedger
  <1>1. (~overlapped => SerialInv) => SerialLedger
    BY DEF SerialInv, SerialLedger
  <1>2. QED BY <1>1, SerialHistories, PTL

\* One request at a time: no recovery code passes twice, and a TOTP code only
\* after the window has gone by.
THEOREM SerialSpacingCorrect == Spec => []SerialSpacing
  <1>1. (~overlapped => SerialInv) => SerialSpacing
    BY DEF SerialInv, SerialSpacing
  <1>2. QED BY <1>1, SerialHistories, PTL
=============================================================================
