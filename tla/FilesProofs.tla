---------------------------- MODULE FilesProofs ----------------------------
(***************************************************************************)
(* What holds of Files for any tenants, files, keys and requests.          *)
(***************************************************************************)
EXTENDS Files, TLAPS

\* A request that works on a file has found it: its tenant and key are right.
Scoped ==
  \A r \in Requests :
    req[r].pc # "idle" =>
      /\ req[r].file \in created
      /\ req[r].tenant = tenantOf[req[r].file]
      /\ req[r].key = keyOf[req[r].file]
      /\ req[r].pc \in {"head", "update"} => req[r].version < MaxVersion

\* Keys that no client chose belong to one row, ...
KeysUnique ==
  \A f, g \in created : keyOf[f] = keyOf[g] /\ keyOf[f] \notin chosen => f = g

\* ... and before that nothing has been done with them.
UnusedKeys ==
  \A k \in Keys \ chosen :
    (\A f \in created : keyOf[f] # k) =>
      k \notin urls /\ stored[k] = {} /\ objects[k] = Absent

\* A delete marks its file, and tries the object before it drops the row.
Deletes ==
  /\ \A r \in Requests :
       /\ req[r].pc \in {"erase", "remove"} => req[r].file \in doomed
       /\ req[r].pc = "remove" => req[r].key \in erased
  /\ \A f \in created \ live : keyOf[f] \in erased
  /\ \A k \in erased : objects[k] # Absent => k \in unclean

\* What HeadObject answered was stored once.
HeadEvidence ==
  /\ \A k \in Keys : objects[k] # Absent => objects[k] \in stored[k]
  /\ \A r \in Requests :
       req[r].pc = "update" /\ req[r].head # Absent => req[r].head \in stored[req[r].key]

\* Without contention, the version that a finalize read is the row's.
VersionRead ==
  /\ \A p, q \in Requests, f \in created \ contended :
       Works(p, f) /\ Works(q, f) => p = q
  /\ \A r \in Requests, f \in created \ contended :
       Works(r, f) /\ req[r].pc \in {"head", "update"} => req[r].version = version[f]
  /\ \A f \in FileIds \ created : finalized[f] = 0

----------------------------------------------------------------------------
(* Typing and scope *)

LEMMA IdleRequest == Idle \in Request
  BY FilesAssumption DEF Idle, Request, Pcs, Absent, Sizes

LEMMA InitOK == Init => TypeOK /\ Scoped
  <1> SUFFICES ASSUME Init PROVE TypeOK /\ Scoped
    OBVIOUS
  <1>1. req \in [Requests -> Request]
    BY IdleRequest DEF Init
  <1>2. Scoped
    BY DEF Init, Scoped, Idle
  <1>3. QED
    BY <1>1, <1>2, FilesAssumption DEF Init, TypeOK, Sizes

\* The request r works on, after an action, is built from its fields.
LEMMA RequestFields ==
  ASSUME NEW q \in Request
  PROVE  /\ LET p == [q EXCEPT !.pc = "remove"] IN
              /\ p \in Request
              /\ p.pc = "remove" /\ p.file = q.file
              /\ p.tenant = q.tenant /\ p.key = q.key
         /\ \A h \in Sizes \cup {Absent} :
              LET p == [q EXCEPT !.pc = "update", !.head = h] IN
              /\ p \in Request
              /\ p.pc = "update" /\ p.head = h /\ p.file = q.file
              /\ p.tenant = q.tenant /\ p.key = q.key /\ p.version = q.version
  BY DEF Request, Pcs

LEMMA ScopeStep == TypeOK /\ Scoped /\ [Next]_vars => TypeOK' /\ Scoped'
  <1> SUFFICES ASSUME TypeOK, Scoped, [Next]_vars PROVE TypeOK' /\ Scoped'
    OBVIOUS
  <1> USE FilesAssumption
  <1>1. ASSUME NEW r \in Requests, Presign(r) PROVE TypeOK' /\ Scoped'
    <2>1. PICK f \in FileIds, t \in Tenants, k \in Keys :
            /\ CreateRow(f, t, k, 0)
            /\ req' = [req EXCEPT ![r] = At("url", t, f, k, 0, 0)]
      BY <1>1 DEF Presign
    <2> DEFINE p == At("url", t, f, k, 0, 0)
    <2>2. p \in Request /\ p.pc = "url" /\ p.file = f /\ p.tenant = t /\ p.key = k
      BY DEF At, Request, Pcs, Sizes, Absent
    <2> HIDE DEF p
    <2>3. TypeOK'
      <3>1. req' \in [Requests -> Request]
        BY <2>1, <2>2 DEF TypeOK, p
      <3>2. size' \in [FileIds -> Sizes] /\ version' \in [FileIds -> 0..MaxVersion]
        BY <2>1 DEF CreateRow, TypeOK, Sizes
      <3>3. QED BY <1>1, <2>1, <3>1, <3>2 DEF Presign, CreateRow, TypeOK, storeVars, histVars
    <2>4. Scoped'
      BY <2>1, <2>2 DEF CreateRow, TypeOK, Scoped, p
    <2>5. QED BY <2>3, <2>4
  <1>2. CASE UploadFile
    <2>1. PICK f \in FileIds, t \in Tenants, k \in Keys, s \in Sizes :
            /\ CreateRow(f, t, k, s)
            /\ chosen' = chosen \cup {k}
            /\ taken' = taken \cup {f}
            /\ UNCHANGED <<storeVars, req, stored, finalized, contended, doomed,
                           erased, unclean>>
      BY <1>2 DEF UploadFile
    <2>2. TypeOK'
      BY <2>1 DEF CreateRow, TypeOK, storeVars
    <2>3. Scoped'
      BY <2>1 DEF CreateRow, TypeOK, Scoped
    <2>4. QED BY <2>2, <2>3
  <1>3. ASSUME NEW k \in Keys, UrlExpires(k) \/ \E s \in Sizes : Put(k, s)
        PROVE  TypeOK' /\ Scoped'
    BY <1>3 DEF UrlExpires, Put, TypeOK, Scoped, rowVars, histVars
  <1>4. ASSUME NEW r \in Requests, StartFinalize(r) PROVE TypeOK' /\ Scoped'
    <2>1. PICK t \in Tenants, f \in FileIds, c \in Sizes :
            /\ f \in Rows(t)
            /\ version[f] < MaxVersion
            /\ Take(r, At("head", t, f, keyOf[f], version[f], c))
      BY <1>4 DEF StartFinalize, Rows, TypeOK
    <2> DEFINE p == At("head", t, f, keyOf[f], version[f], c)
    <2>2. /\ p \in Request /\ p.pc = "head" /\ p.file = f /\ p.tenant = t
          /\ p.key = keyOf[f] /\ p.version = version[f]
      BY DEF At, Rows, Request, Pcs, Sizes, Absent, TypeOK
    <2> HIDE DEF p
    <2>3. req' = [req EXCEPT ![r] = p] /\ contended' \in SUBSET FileIds
      BY <2>1, <2>2 DEF Take, Rows, TypeOK, p
    <2>4. TypeOK'
      BY <1>4, <2>2, <2>3 DEF StartFinalize, TypeOK, rowVars, storeVars
    <2>5. Scoped'
      BY <1>4, <2>1, <2>2, <2>3 DEF StartFinalize, Scoped, TypeOK, rowVars, Rows
    <2>6. QED BY <2>4, <2>5
  <1>5. ASSUME NEW r \in Requests, StartDelete(r) PROVE TypeOK' /\ Scoped'
    <2>1. PICK t \in Tenants, f \in FileIds :
            /\ f \in Rows(t)
            /\ Take(r, At(FirstOfDelete, t, f, keyOf[f], 0, 0))
            /\ doomed' = doomed \cup {f}
      BY <1>5 DEF StartDelete, Rows, TypeOK
    <2> DEFINE p == At(FirstOfDelete, t, f, keyOf[f], 0, 0)
    <2>2. /\ p \in Request /\ p.pc = "erase" /\ p.file = f /\ p.tenant = t
          /\ p.key = keyOf[f]
      BY DEF At, Rows, Request, Pcs, Sizes, Absent, TypeOK, FirstOfDelete
    <2> HIDE DEF p
    <2>3. req' = [req EXCEPT ![r] = p] /\ contended' \in SUBSET FileIds
      BY <2>1, <2>2 DEF Take, Rows, TypeOK, p
    <2>4. TypeOK'
      BY <1>5, <2>1, <2>2, <2>3 DEF StartDelete, TypeOK, rowVars, storeVars, Rows
    <2>5. Scoped'
      BY <1>5, <2>1, <2>2, <2>3 DEF StartDelete, Scoped, TypeOK, rowVars, Rows
    <2>6. QED BY <2>4, <2>5
  <1>6. ASSUME NEW r \in Requests, IssueUrl(r) \/ Abort(r) PROVE TypeOK' /\ Scoped'
    <2>1. req' = [req EXCEPT ![r] = Idle] /\ Idle \in Request /\ Idle.pc = "idle"
      BY <1>6, IdleRequest DEF IssueUrl, Abort, Idle
    <2>2. urls' \in SUBSET Keys
      BY <1>6 DEF IssueUrl, Abort, Scoped, TypeOK, storeVars
    <2>3. QED BY <1>6, <2>1, <2>2
            DEF IssueUrl, Abort, TypeOK, Scoped, rowVars, storeVars, histVars
  <1>7. ASSUME NEW r \in Requests, Head(r) PROVE TypeOK' /\ Scoped'
    <2>1. PICK h \in {objects[req[r].key], Absent} :
            req' = [req EXCEPT ![r] = [req[r] EXCEPT !.pc = "update", !.head = h]]
      BY <1>7 DEF Head
    <2>2. h \in Sizes \cup {Absent} /\ req[r] \in Request
      BY <1>7, <2>1 DEF Head, Scoped, TypeOK
    <2> DEFINE p == [req[r] EXCEPT !.pc = "update", !.head = h]
    <2>3. /\ p \in Request /\ p.file = req[r].file /\ p.tenant = req[r].tenant
          /\ p.key = req[r].key /\ p.version = req[r].version
      BY <2>2, RequestFields
    <2> HIDE DEF p
    <2>4. TypeOK'
      BY <1>7, <2>1, <2>3 DEF Head, TypeOK, rowVars, storeVars, histVars, p
    <2>5. Scoped'
      BY <1>7, <2>1, <2>3 DEF Head, TypeOK, Scoped, rowVars, p
    <2>6. QED BY <2>4, <2>5
  <1>8. ASSUME NEW r \in Requests, Finalize(r) PROVE TypeOK' /\ Scoped'
    <2>1. /\ req' = [req EXCEPT ![r] = Idle] /\ Idle \in Request /\ Idle.pc = "idle"
          /\ req[r] \in Request
      BY <1>8, IdleRequest DEF Finalize, Idle, TypeOK
    <2>2. FinalSize(req[r]) \in Sizes
      BY <2>1 DEF FinalSize, Request
    <2>3. NextVersion(req[r]) \in 0..MaxVersion
      BY <1>8, <2>1 DEF NextVersion, Request, Scoped, Finalize
    <2>4. TypeOK'
      BY <1>8, <2>1, <2>2, <2>3 DEF Finalize, TypeOK, storeVars
    <2>5. Scoped'
      BY <1>8, <2>1 DEF Finalize, TypeOK, Scoped
    <2>6. QED BY <2>4, <2>5
  <1>9. ASSUME NEW r \in Requests, Erase(r) PROVE TypeOK' /\ Scoped'
    <2> DEFINE p == [req[r] EXCEPT !.pc = "remove"]
    <2>1. /\ req' = [req EXCEPT ![r] = p] /\ p \in Request /\ p.pc = "remove"
          /\ p.file = req[r].file /\ p.tenant = req[r].tenant /\ p.key = req[r].key
      BY <1>9, RequestFields DEF Erase, TypeOK
    <2> HIDE DEF p
    <2>2. req[r].key \in Keys
      BY <1>9 DEF Erase, Scoped, TypeOK
    <2>3. TypeOK'
      BY <1>9, <2>1, <2>2 DEF Erase, TypeOK, rowVars
    <2>4. Scoped'
      BY <1>9, <2>1 DEF Erase, TypeOK, Scoped, rowVars
    <2>5. QED BY <2>3, <2>4
  <1>10. ASSUME NEW r \in Requests, Remove(r) PROVE TypeOK' /\ Scoped'
    <2>1. req' = [req EXCEPT ![r] = Idle] /\ Idle \in Request /\ Idle.pc = "idle"
      BY <1>10, IdleRequest DEF Remove, Idle
    <2>2. QED BY <1>10, <2>1 DEF Remove, TypeOK, Scoped, storeVars, histVars
  <1>11. CASE UNCHANGED vars
    BY <1>11 DEF vars, TypeOK, Scoped
  <1>12. QED
    BY <1>1, <1>2, <1>3, <1>4, <1>5, <1>6, <1>7, <1>8, <1>9, <1>10, <1>11 DEF Next

\* Every variable keeps its shape, and every handler works on a row of the
\* tenant it acts for.
THEOREM TypeCorrect == Spec => []TypeOK
  BY InitOK, ScopeStep, PTL DEF Spec

LEMMA ScopeCorrect == Spec => [](TypeOK /\ Scoped)
  BY InitOK, ScopeStep, PTL DEF Spec
----------------------------------------------------------------------------
(* What the steps of a request leave in it *)

OthersSame(r) == \A p \in Requests \ {r} : req'[p] = req[p]

LEMMA StartFields ==
  ASSUME TypeOK, NEW r \in Requests, StartFinalize(r) \/ StartDelete(r)
  PROVE  /\ OthersSame(r) /\ req[r].pc = "idle"
         /\ \E f \in live :
              /\ req'[r].file = f /\ req'[r].key = keyOf[f]
              /\ contended' = IF \E q \in Requests \ {r} : Works(q, f)
                              THEN contended \cup {f} ELSE contended
              /\ \/ /\ StartFinalize(r) /\ req'[r].pc = "head"
                    /\ req'[r].version = version[f]
                 \/ /\ StartDelete(r) /\ req'[r].pc = "erase"
                    /\ doomed' = doomed \cup {f}
  <1>1. CASE StartFinalize(r)
    <2>1. PICK t \in Tenants, f \in FileIds, c \in Sizes :
            /\ f \in Rows(t)
            /\ Take(r, At("head", t, f, keyOf[f], version[f], c))
      BY <1>1 DEF StartFinalize, Rows, TypeOK
    <2> DEFINE p == At("head", t, f, keyOf[f], version[f], c)
    <2>2. p.pc = "head" /\ p.file = f /\ p.key = keyOf[f] /\ p.version = version[f]
      BY DEF At
    <2> HIDE DEF p
    <2>3. /\ req[r].pc = "idle" /\ req' = [req EXCEPT ![r] = p]
          /\ contended' = IF \E q \in Requests \ {r} : Works(q, f)
                          THEN contended \cup {f} ELSE contended
      BY <2>1, <2>2 DEF Take, p
    <2>4. f \in live
      BY <2>1 DEF Rows
    <2>5. QED BY <1>1, <2>2, <2>3, <2>4 DEF OthersSame, TypeOK
  <1>2. CASE StartDelete(r)
    <2>1. PICK t \in Tenants, f \in FileIds :
            /\ f \in Rows(t)
            /\ Take(r, At(FirstOfDelete, t, f, keyOf[f], 0, 0))
            /\ doomed' = doomed \cup {f}
      BY <1>2 DEF StartDelete, Rows, TypeOK
    <2> DEFINE p == At(FirstOfDelete, t, f, keyOf[f], 0, 0)
    <2>2. p.pc = "erase" /\ p.file = f /\ p.key = keyOf[f]
      BY DEF At, FirstOfDelete
    <2> HIDE DEF p
    <2>3. /\ req[r].pc = "idle" /\ req' = [req EXCEPT ![r] = p]
          /\ contended' = IF \E q \in Requests \ {r} : Works(q, f)
                          THEN contended \cup {f} ELSE contended
      BY <2>1, <2>2 DEF Take, p
    <2>4. f \in live
      BY <2>1 DEF Rows
    <2>5. QED BY <1>2, <2>1, <2>2, <2>3, <2>4 DEF OthersSame, TypeOK
  <1>3. QED BY <1>1, <1>2

LEMMA PresignFields ==
  ASSUME TypeOK, NEW r \in Requests, Presign(r)
  PROVE  /\ OthersSame(r)
         /\ req'[r].pc = "url"
         /\ \E f \in FileIds, t \in Tenants, k \in Keys :
              NewKey(k) /\ CreateRow(f, t, k, 0) /\ req'[r].file = f
  <1>1. PICK f \in FileIds, t \in Tenants, k \in Keys :
          /\ NewKey(k) /\ CreateRow(f, t, k, 0)
          /\ req' = [req EXCEPT ![r] = At("url", t, f, k, 0, 0)]
    BY DEF Presign
  <1>2. LET p == At("url", t, f, k, 0, 0) IN p.pc = "url" /\ p.file = f
    BY DEF At
  <1>3. req'[r] = At("url", t, f, k, 0, 0) /\ OthersSame(r)
    BY <1>1 DEF TypeOK, OthersSame
  <1>4. QED BY <1>1, <1>2, <1>3

LEMMA MoveFields ==
  ASSUME TypeOK, NEW r \in Requests, Head(r) \/ Erase(r)
  PROVE  /\ OthersSame(r)
         /\ req'[r].file = req[r].file /\ req'[r].key = req[r].key
         /\ \/ /\ Head(r) /\ req[r].pc = "head" /\ req'[r].pc = "update"
               /\ req'[r].head \in {objects[req[r].key], Absent}
               /\ req'[r].version = req[r].version
            \/ Erase(r) /\ req[r].pc = "erase" /\ req'[r].pc = "remove"
  <1>1. req[r] \in Request
    BY DEF TypeOK
  <1>2. CASE Head(r)
    <2>1. PICK h \in {objects[req[r].key], Absent} :
            req' = [req EXCEPT ![r] = [req[r] EXCEPT !.pc = "update", !.head = h]]
      BY <1>2 DEF Head
    <2> DEFINE p == [req[r] EXCEPT !.pc = "update", !.head = h]
    <2>2. /\ p.pc = "update" /\ p.head = h /\ p.file = req[r].file
          /\ p.key = req[r].key /\ p.version = req[r].version
      BY <1>1 DEF Request
    <2> HIDE DEF p
    <2>3. req'[r] = p /\ OthersSame(r)
      BY <2>1 DEF TypeOK, OthersSame, p
    <2>4. QED BY <1>2, <2>2, <2>3 DEF Head
  <1>3. CASE Erase(r)
    <2> DEFINE p == [req[r] EXCEPT !.pc = "remove"]
    <2>1. p.pc = "remove" /\ p.file = req[r].file /\ p.key = req[r].key
      BY <1>1 DEF Request
    <2>2. req' = [req EXCEPT ![r] = p]
      BY <1>3 DEF Erase
    <2> HIDE DEF p
    <2>3. req'[r] = p /\ OthersSame(r)
      BY <2>2 DEF TypeOK, OthersSame
    <2>4. QED BY <1>3, <2>1, <2>3 DEF Erase
  <1>4. QED BY <1>2, <1>3

LEMMA EndFields ==
  ASSUME TypeOK, NEW r \in Requests,
         IssueUrl(r) \/ Finalize(r) \/ Remove(r) \/ Abort(r)
  PROVE  OthersSame(r) /\ req'[r].pc = "idle"
  <1>1. req' = [req EXCEPT ![r] = Idle] /\ Idle.pc = "idle"
    BY DEF IssueUrl, Finalize, Remove, Abort, Idle
  <1>2. QED BY <1>1 DEF TypeOK, OthersSame

----------------------------------------------------------------------------
(* Keys *)

KeysInv == KeysUnique /\ UnusedKeys

LEMMA KeysStep == TypeOK /\ Scoped /\ KeysInv /\ [Next]_vars => KeysInv'
  <1> SUFFICES ASSUME TypeOK, Scoped, KeysInv, [Next]_vars PROVE KeysInv'
    OBVIOUS
  <1> USE DEF KeysInv
  <1>1. ASSUME NEW r \in Requests, Presign(r) PROVE KeysInv'
    <2>1. PICK f \in FileIds, t \in Tenants, k \in Keys :
            NewKey(k) /\ CreateRow(f, t, k, 0)
      BY <1>1 DEF Presign
    <2>2. UNCHANGED <<chosen, urls, stored, objects>>
      BY <1>1 DEF Presign, storeVars, histVars
    <2>3. QED BY <2>1, <2>2 DEF NewKey, CreateRow, KeysUnique, UnusedKeys, TypeOK
  <1>2. CASE UploadFile
    <2>1. PICK f \in FileIds, t \in Tenants, k \in Keys, s \in Sizes :
            /\ CreateRow(f, t, k, s)
            /\ chosen' = chosen \cup {k}
            /\ UNCHANGED <<urls, stored, objects>>
      BY <1>2 DEF UploadFile, storeVars
    <2>2. QED BY <2>1 DEF CreateRow, KeysUnique, UnusedKeys, TypeOK
  <1>3. ASSUME NEW k \in Keys, UrlExpires(k) \/ \E s \in Sizes : Put(k, s)
        PROVE  KeysInv'
    BY <1>3 DEF UrlExpires, Put, KeysUnique, UnusedKeys, TypeOK, rowVars, histVars
  <1>4. ASSUME NEW r \in Requests, IssueUrl(r) \/ Erase(r) PROVE KeysInv'
    <2>1. req[r].file \in created /\ req[r].key = keyOf[req[r].file]
      BY <1>4 DEF IssueUrl, Erase, Scoped
    <2>2. /\ urls' \subseteq urls \cup {req[r].key}
          /\ \A k \in Keys : k # req[r].key => objects'[k] = objects[k]
          /\ UNCHANGED <<created, keyOf, chosen, stored>>
      BY <1>4 DEF IssueUrl, Erase, TypeOK, rowVars, histVars
    <2>3. QED BY <2>1, <2>2 DEF KeysUnique, UnusedKeys
  <1>5. ASSUME NEW r \in Requests,
               \/ StartFinalize(r) \/ Head(r) \/ Finalize(r)
               \/ StartDelete(r) \/ Remove(r) \/ Abort(r)
        PROVE  KeysInv'
    <2>1. UNCHANGED <<created, keyOf, chosen, urls, stored, objects>>
      BY <1>5 DEF StartFinalize, Head, Finalize, StartDelete, Remove, Abort,
         rowVars, storeVars, histVars
    <2>2. QED BY <2>1 DEF KeysUnique, UnusedKeys
  <1>6. CASE UNCHANGED vars
    BY <1>6 DEF vars, KeysUnique, UnusedKeys
  <1>7. QED
    BY <1>1, <1>2, <1>3, <1>4, <1>5, <1>6 DEF Next

----------------------------------------------------------------------------
(* Deletes *)

LEMMA DeletesStep == TypeOK /\ Scoped /\ Deletes /\ [Next]_vars => Deletes'
  <1> SUFFICES ASSUME TypeOK, Scoped, Deletes, [Next]_vars PROVE Deletes'
    OBVIOUS
  <1> USE DEF Deletes
  <1>1. ASSUME NEW r \in Requests, Presign(r) PROVE Deletes'
    <2>1. UNCHANGED <<objects, doomed, erased, unclean>>
      BY <1>1 DEF Presign, storeVars, histVars
    <2>2. PICK f \in FileIds, t \in Tenants, k \in Keys : CreateRow(f, t, k, 0)
      BY <1>1 DEF Presign
    <2>3. QED BY <1>1, <2>1, <2>2, PresignFields DEF CreateRow, TypeOK, OthersSame
  <1>2. CASE UploadFile
    <2>1. PICK f \in FileIds, t \in Tenants, k \in Keys, s \in Sizes :
            /\ CreateRow(f, t, k, s)
            /\ UNCHANGED <<req, objects, doomed, erased, unclean>>
      BY <1>2 DEF UploadFile, storeVars
    <2>2. QED BY <2>1 DEF CreateRow, TypeOK
  <1>3. ASSUME NEW k \in Keys, UrlExpires(k) \/ \E s \in Sizes : Put(k, s)
        PROVE  Deletes'
    BY <1>3 DEF UrlExpires, Put, TypeOK, rowVars, histVars
  <1>4. ASSUME NEW r \in Requests, StartFinalize(r) \/ StartDelete(r)
        PROVE  Deletes'
    <2>1. UNCHANGED <<created, live, keyOf, objects, erased, unclean>>
      BY <1>4 DEF StartFinalize, StartDelete, rowVars, storeVars
    <2>2. StartFinalize(r) => UNCHANGED doomed
      BY DEF StartFinalize
    <2>3. /\ OthersSame(r)
          /\ req'[r].pc \in {"head", "erase"}
          /\ req'[r].pc = "erase" => req'[r].file \in doomed'
          /\ \A f \in doomed : f \in doomed'
      <3>1. StartDelete(r) => \A f \in doomed : f \in doomed'
        BY DEF StartDelete
      <3>2. QED BY <1>4, <2>2, <3>1, StartFields
    <2>4. QED BY <2>1, <2>3 DEF OthersSame
  <1>5. ASSUME NEW r \in Requests, Head(r) PROVE Deletes'
    <2>1. UNCHANGED <<created, live, keyOf, objects, doomed, erased, unclean>>
      BY <1>5 DEF Head, rowVars, storeVars, histVars
    <2>2. OthersSame(r) /\ req'[r].pc \notin {"erase", "remove"}
      BY <1>5, MoveFields DEF Head, Erase
    <2>3. QED BY <2>1, <2>2 DEF OthersSame
  <1>6. ASSUME NEW r \in Requests, Erase(r) PROVE Deletes'
    <2>1. /\ OthersSame(r) /\ req'[r].file = req[r].file
          /\ req'[r].key = req[r].key
      BY <1>6, MoveFields
    <2>2. /\ UNCHANGED <<created, live, keyOf, doomed>>
          /\ erased' = erased \cup {req[r].key}
          /\ req[r].file \in doomed
      BY <1>6 DEF Erase, rowVars
    <2>3. \A k \in erased' : objects'[k] # Absent => k \in unclean'
      <3>1. req[r].key \in Keys /\ \A k \in erased : k \in Keys
        BY <1>6 DEF Erase, Scoped, TypeOK
      <3>2. QED BY <1>6, <3>1 DEF Erase, TypeOK
    <2>4. QED BY <2>1, <2>2, <2>3 DEF OthersSame
  <1>7. ASSUME NEW r \in Requests, Remove(r) PROVE Deletes'
    <2>1. OthersSame(r) /\ req'[r].pc = "idle"
      BY <1>7, EndFields
    <2>2. /\ live' = live \ {req[r].file}
          /\ UNCHANGED <<created, keyOf, objects, doomed, erased, unclean>>
          /\ req[r].key \in erased
      BY <1>7 DEF Remove, storeVars, histVars
    <2>3. req[r].key = keyOf[req[r].file]
      BY <1>7 DEF Remove, Scoped
    <2>4. QED BY <2>1, <2>2, <2>3 DEF OthersSame
  <1>8. ASSUME NEW r \in Requests, IssueUrl(r) \/ Finalize(r) \/ Abort(r)
        PROVE  Deletes'
    <2>1. OthersSame(r) /\ req'[r].pc = "idle"
      BY <1>8, EndFields
    <2>2. UNCHANGED <<created, live, keyOf, objects, doomed, erased, unclean>>
      BY <1>8 DEF IssueUrl, Finalize, Abort, rowVars, storeVars, histVars
    <2>3. QED BY <2>1, <2>2 DEF OthersSame
  <1>9. CASE UNCHANGED vars
    BY <1>9 DEF vars
  <1>10. QED
    BY <1>1, <1>2, <1>3, <1>4, <1>5, <1>6, <1>7, <1>8, <1>9 DEF Next
----------------------------------------------------------------------------
(* Sizes *)

EvidenceInv == HeadEvidence /\ SizeEvidence

LEMMA EvidenceStep == TypeOK /\ Scoped /\ EvidenceInv /\ [Next]_vars => EvidenceInv'
  <1> SUFFICES ASSUME TypeOK, Scoped, EvidenceInv, [Next]_vars PROVE EvidenceInv'
    OBVIOUS
  <1> USE DEF EvidenceInv
  <1>1. ASSUME NEW r \in Requests, Presign(r) PROVE EvidenceInv'
    <2>1. UNCHANGED <<objects, stored, taken>>
      BY <1>1 DEF Presign, storeVars, histVars
    <2>2. OthersSame(r) /\ req'[r].pc = "url"
      BY <1>1, PresignFields
    <2>3. PICK f \in FileIds, t \in Tenants, k \in Keys : CreateRow(f, t, k, 0)
      BY <1>1 DEF Presign
    <2>4. HeadEvidence'
      BY <2>1, <2>2 DEF HeadEvidence, OthersSame
    <2>5. SizeEvidence'
      BY <2>1, <2>3 DEF CreateRow, SizeEvidence, TypeOK
    <2>6. QED BY <2>4, <2>5
  <1>2. CASE UploadFile
    <2>1. PICK f \in FileIds, t \in Tenants, k \in Keys, s \in Sizes :
            /\ CreateRow(f, t, k, s)
            /\ taken' = taken \cup {f}
            /\ UNCHANGED <<req, objects, stored>>
      BY <1>2 DEF UploadFile, storeVars
    <2>2. QED BY <2>1 DEF CreateRow, HeadEvidence, SizeEvidence, TypeOK
  <1>3. ASSUME NEW k \in Keys, NEW s \in Sizes, Put(k, s) PROVE EvidenceInv'
    <2>1. /\ objects' = [objects EXCEPT ![k] = s]
          /\ stored' = [stored EXCEPT ![k] = @ \cup {s}]
          /\ UNCHANGED <<created, keyOf, size, req, taken>>
      BY <1>3 DEF Put, rowVars
    <2>2. /\ \A j : stored[j] \subseteq stored'[j] \/ j \notin Keys
          /\ \A j \in Keys : objects'[j] # Absent => objects'[j] \in stored'[j]
      BY <2>1 DEF HeadEvidence, TypeOK
    <2>3. \A r \in Requests : req[r].pc = "update" => req[r].key \in Keys
      BY DEF Scoped, TypeOK
    <2>4. \A f \in created : keyOf[f] \in Keys
      BY DEF TypeOK
    <2>5. QED BY <2>1, <2>2, <2>3, <2>4 DEF HeadEvidence, SizeEvidence
  <1>4. ASSUME NEW r \in Requests, StartFinalize(r) \/ StartDelete(r)
        PROVE  EvidenceInv'
    <2>1. UNCHANGED <<created, keyOf, size, objects, stored, taken>>
      BY <1>4 DEF StartFinalize, StartDelete, rowVars, storeVars
    <2>2. OthersSame(r) /\ req'[r].pc # "update"
      BY <1>4, StartFields
    <2>3. QED BY <2>1, <2>2 DEF OthersSame, HeadEvidence, SizeEvidence
  <1>5. ASSUME NEW r \in Requests, Head(r) PROVE EvidenceInv'
    <2>1. UNCHANGED <<created, keyOf, size, objects, stored, taken>>
      BY <1>5 DEF Head, rowVars, storeVars, histVars
    <2>2. /\ OthersSame(r) /\ req'[r].key = req[r].key
          /\ req'[r].head \in {objects[req[r].key], Absent}
      BY <1>5, MoveFields DEF Head
    <2>3. req[r].key \in Keys
      BY <1>5 DEF Head, Scoped, TypeOK
    <2>4. QED BY <2>1, <2>2, <2>3 DEF OthersSame, HeadEvidence, SizeEvidence
  <1>6. ASSUME NEW r \in Requests, Erase(r) PROVE EvidenceInv'
    <2>1. /\ OthersSame(r) /\ req'[r].pc = "remove"
      BY <1>6, MoveFields DEF Head, Erase
    <2>2. /\ UNCHANGED <<created, keyOf, size, stored, taken>>
          /\ \A k \in Keys : objects'[k] \in {objects[k], Absent}
      BY <1>6 DEF Erase, rowVars, TypeOK
    <2>3. QED BY <2>1, <2>2 DEF OthersSame, HeadEvidence, SizeEvidence
  <1>7. ASSUME NEW r \in Requests, Finalize(r) PROVE EvidenceInv'
    <2>1. OthersSame(r) /\ req'[r].pc = "idle"
      BY <1>7, EndFields
    <2>2. UNCHANGED <<created, keyOf, objects, stored>>
      BY <1>7 DEF Finalize, storeVars
    <2>3. HeadEvidence'
      BY <2>1, <2>2 DEF OthersSame, HeadEvidence
    <2>4. SizeEvidence'
      <3> DEFINE f == req[r].file
      <3>1. req[r].head # Absent => req[r].head \in stored[keyOf[f]]
        BY <1>7 DEF Finalize, HeadEvidence, Scoped
      <3>2. QED BY <1>7, <2>2, <3>1 DEF Finalize, FinalSize, SizeEvidence, TypeOK
    <2>5. QED BY <2>3, <2>4
  <1>8. ASSUME NEW r \in Requests, IssueUrl(r) \/ Remove(r) \/ Abort(r)
        PROVE  EvidenceInv'
    <2>1. OthersSame(r) /\ req'[r].pc = "idle"
      BY <1>8, EndFields
    <2>2. UNCHANGED <<created, keyOf, size, objects, stored, taken>>
      BY <1>8 DEF IssueUrl, Remove, Abort, rowVars, storeVars, histVars
    <2>3. QED BY <2>1, <2>2 DEF OthersSame, HeadEvidence, SizeEvidence
  <1>9. CASE UNCHANGED vars \/ \E k \in Keys : UrlExpires(k)
    <2>1. UNCHANGED <<created, keyOf, size, req, objects, stored, taken>>
      BY <1>9 DEF vars, UrlExpires, rowVars, histVars
    <2>2. QED BY <2>1 DEF HeadEvidence, SizeEvidence
  <1>10. QED
    BY <1>1, <1>2, <1>3, <1>4, <1>5, <1>6, <1>7, <1>8, <1>9 DEF Next

----------------------------------------------------------------------------
(* Versions *)

VersionInv == VersionRead /\ SerialVersion

LEMMA VersionStep == TypeOK /\ Scoped /\ VersionInv /\ [Next]_vars => VersionInv'
  <1> SUFFICES ASSUME TypeOK, Scoped, VersionInv, [Next]_vars PROVE VersionInv'
    OBVIOUS
  <1> USE DEF VersionInv
  <1>1. ASSUME NEW r \in Requests, Presign(r) PROVE VersionInv'
    <2>1. UNCHANGED <<finalized, contended>>
      BY <1>1 DEF Presign, histVars
    <2>2. PICK f \in FileIds, t \in Tenants, k \in Keys :
            CreateRow(f, t, k, 0) /\ req'[r].file = f
      BY <1>1, PresignFields
    <2>3. OthersSame(r) /\ req'[r].pc = "url"
      BY <1>1, PresignFields
    <2>4. \A p \in Requests : Works(p, f) => FALSE
      BY <2>2 DEF Works, Scoped, CreateRow
    <2>5. /\ created' = created \cup {f} /\ f \notin created
          /\ version'[f] = 1 /\ \A g \in created : version'[g] = version[g]
      BY <2>2 DEF CreateRow, TypeOK
    <2>6. VersionRead'
      BY <2>1, <2>2, <2>3, <2>4, <2>5 DEF VersionRead, Works, OthersSame
    <2>7. SerialVersion'
      BY <2>1, <2>5 DEF VersionRead, SerialVersion
    <2>8. QED BY <2>6, <2>7
  <1>2. CASE UploadFile
    <2>1. PICK f \in FileIds, t \in Tenants, k \in Keys, s \in Sizes :
            CreateRow(f, t, k, s) /\ UNCHANGED <<req, finalized, contended>>
      BY <1>2 DEF UploadFile
    <2>2. \A p \in Requests : Works(p, f) => FALSE
      BY <2>1 DEF Works, Scoped, CreateRow
    <2>3. /\ created' = created \cup {f} /\ f \notin created
          /\ version'[f] = 1 /\ \A g \in created : version'[g] = version[g]
      BY <2>1 DEF CreateRow, TypeOK
    <2>4. QED BY <2>1, <2>2, <2>3 DEF VersionRead, SerialVersion, Works
  <1>3. ASSUME NEW r \in Requests, StartFinalize(r) \/ StartDelete(r)
        PROVE  VersionInv'
    <2>1. UNCHANGED <<created, version, finalized>>
      BY <1>3 DEF StartFinalize, StartDelete, rowVars
    <2>2. OthersSame(r)
      BY <1>3, StartFields
    <2>3. PICK f \in live :
            /\ req'[r].file = f
            /\ contended' = IF \E q \in Requests \ {r} : Works(q, f)
                            THEN contended \cup {f} ELSE contended
            /\ req'[r].pc \in {"head", "erase"}
            /\ req'[r].pc = "head" => req'[r].version = version[f]
      BY <1>3, StartFields
    <2>4. QED BY <2>1, <2>2, <2>3 DEF VersionRead, SerialVersion, Works, OthersSame
  <1>4. ASSUME NEW r \in Requests, Head(r) \/ Erase(r) PROVE VersionInv'
    <2>1. UNCHANGED <<created, version, finalized, contended>>
      BY <1>4 DEF Head, Erase, rowVars, histVars
    <2>2. /\ OthersSame(r) /\ req'[r].file = req[r].file
          /\ req[r].pc # "idle"
          /\ req'[r].pc \in {"head", "update"} =>
               req[r].pc = "head" /\ req'[r].version = req[r].version
      BY <1>4, MoveFields
    <2>3. QED BY <2>1, <2>2 DEF VersionRead, SerialVersion, Works, OthersSame
  <1>5. ASSUME NEW r \in Requests, Finalize(r) PROVE VersionInv'
    <2> DEFINE f == req[r].file
    <2>1. OthersSame(r) /\ req'[r].pc = "idle"
      BY <1>5, EndFields
    <2>2. /\ UNCHANGED <<created, contended>>
          /\ f \in created /\ Works(r, f) /\ req[r].pc = "update"
      BY <1>5 DEF Finalize, Scoped, Works
    <2>3. CASE f \in live
      <3>1. /\ \A g \in FileIds \ {f} :
                 version'[g] = version[g] /\ finalized'[g] = finalized[g]
            /\ version'[f] = req[r].version + 1
            /\ finalized'[f] = finalized[f] + 1
        BY <1>5, <2>2, <2>3 DEF Finalize, NextVersion, TypeOK
      <3>2. f \notin contended => \A p \in Requests \ {r} : ~Works(p, f)
        BY <2>2 DEF VersionRead
      <3>3. VersionRead'
        BY <2>1, <2>2, <3>1, <3>2 DEF VersionRead, Works, OthersSame, TypeOK
      <3>4. SerialVersion'
        BY <2>2, <3>1 DEF VersionRead, SerialVersion, TypeOK
      <3>5. QED BY <3>3, <3>4
    <2>4. CASE f \notin live
      <3>1. UNCHANGED <<version, finalized>>
        BY <1>5, <2>4 DEF Finalize
      <3>2. QED BY <2>1, <2>2, <3>1 DEF VersionRead, SerialVersion, Works, OthersSame
    <2>5. QED BY <2>3, <2>4
  <1>6. ASSUME NEW r \in Requests, IssueUrl(r) \/ Remove(r) \/ Abort(r)
        PROVE  VersionInv'
    <2>1. OthersSame(r) /\ req'[r].pc = "idle"
      BY <1>6, EndFields
    <2>2. UNCHANGED <<created, version, finalized, contended>>
      BY <1>6 DEF IssueUrl, Remove, Abort, rowVars, histVars
    <2>3. QED BY <2>1, <2>2 DEF VersionRead, SerialVersion, Works, OthersSame
  <1>7. CASE \/ UNCHANGED vars
             \/ \E k \in Keys : UrlExpires(k) \/ \E s \in Sizes : Put(k, s)
    <2>1. UNCHANGED <<created, version, req, finalized, contended>>
      BY <1>7 DEF vars, UrlExpires, Put, rowVars, histVars
    <2>2. QED BY <2>1 DEF VersionRead, SerialVersion, Works
  <1>8. QED
    BY <1>1, <1>2, <1>3, <1>4, <1>5, <1>6, <1>7 DEF Next
----------------------------------------------------------------------------
(* Uploaded objects *)

LEMMA KeptStep ==
  TypeOK /\ Scoped /\ KeysInv /\ Deletes /\ UploadKept /\ [Next]_vars => UploadKept'
  <1> SUFFICES ASSUME TypeOK, Scoped, KeysInv, Deletes, UploadKept, [Next]_vars
               PROVE  UploadKept'
    OBVIOUS
  <1>1. ASSUME NEW r \in Requests, Presign(r) PROVE UploadKept'
    <2>1. UNCHANGED <<objects, stored, chosen, doomed>>
      BY <1>1 DEF Presign, storeVars, histVars
    <2>2. PICK f \in FileIds, t \in Tenants, k \in Keys :
            NewKey(k) /\ CreateRow(f, t, k, 0)
      BY <1>1 DEF Presign
    <2>3. stored[k] = {}
      BY <2>2 DEF KeysInv, UnusedKeys, NewKey
    <2>4. QED BY <2>1, <2>2, <2>3 DEF CreateRow, UploadKept, TypeOK
  <1>2. CASE UploadFile
    <2>1. PICK f \in FileIds, t \in Tenants, k \in Keys, s \in Sizes :
            /\ CreateRow(f, t, k, s)
            /\ chosen' = chosen \cup {k}
            /\ UNCHANGED <<objects, stored, doomed>>
      BY <1>2 DEF UploadFile, storeVars
    <2>2. QED BY <2>1 DEF CreateRow, UploadKept, TypeOK
  <1>3. ASSUME NEW k \in Keys, NEW s \in Sizes, Put(k, s) PROVE UploadKept'
    <2>1. /\ objects'[k] = s /\ s # Absent
          /\ \A j \in Keys \ {k} : objects'[j] = objects[j] /\ stored'[j] = stored[j]
          /\ UNCHANGED <<live, keyOf, chosen, doomed>>
      BY <1>3, FilesAssumption DEF Put, TypeOK, rowVars, Sizes, Absent
    <2>2. \A f \in live : keyOf[f] \in Keys
      BY DEF TypeOK
    <2>3. QED BY <2>1, <2>2 DEF UploadKept
  <1>4. ASSUME NEW r \in Requests, StartFinalize(r) \/ StartDelete(r)
        PROVE  UploadKept'
    <2>1. /\ UNCHANGED <<live, keyOf, objects, stored, chosen>>
          /\ \A f \in doomed : f \in doomed'
      BY <1>4 DEF StartFinalize, StartDelete, rowVars, storeVars
    <2>2. QED BY <2>1 DEF UploadKept
  <1>5. ASSUME NEW r \in Requests, Erase(r) PROVE UploadKept'
    <2>1. /\ UNCHANGED <<live, keyOf, stored, chosen, doomed>>
          /\ \A j \in Keys : j # req[r].key => objects'[j] = objects[j]
      BY <1>5 DEF Erase, rowVars, TypeOK
    <2>2. /\ req[r].file \in created /\ req[r].file \in doomed
          /\ req[r].key = keyOf[req[r].file]
      BY <1>5 DEF Erase, Scoped, Deletes
    <2>3. \A f \in live \ doomed : keyOf[f] \notin chosen => keyOf[f] # req[r].key
      BY <2>2 DEF KeysInv, KeysUnique, TypeOK
    <2>4. \A f \in live : keyOf[f] \in Keys
      BY DEF TypeOK
    <2>5. QED BY <2>1, <2>3, <2>4 DEF UploadKept
  <1>6. ASSUME NEW r \in Requests,
               \/ IssueUrl(r) \/ Head(r) \/ Finalize(r) \/ Remove(r) \/ Abort(r)
        PROVE  UploadKept'
    <2>1. live' \subseteq live /\ UNCHANGED <<keyOf, objects, stored, chosen, doomed>>
      BY <1>6 DEF IssueUrl, Head, Finalize, Remove, Abort, rowVars, storeVars, histVars
    <2>2. QED BY <2>1 DEF UploadKept
  <1>7. CASE UNCHANGED vars \/ \E k \in Keys : UrlExpires(k)
    <2>1. UNCHANGED <<live, keyOf, objects, stored, chosen, doomed>>
      BY <1>7 DEF vars, UrlExpires, rowVars, histVars
    <2>2. QED BY <2>1 DEF UploadKept
  <1>8. QED
    BY <1>1, <1>2, <1>3, <1>4, <1>5, <1>6, <1>7 DEF Next

FilesInv ==
  /\ TypeOK /\ Scoped
  /\ KeysInv /\ Deletes /\ EvidenceInv /\ VersionInv /\ UploadKept

\* The inductive invariant: scope, keys, deletes, sizes, versions, objects.
THEOREM InvariantHolds == Spec => []FilesInv
  <1>1. Init => FilesInv
    <2> SUFFICES ASSUME Init PROVE FilesInv
      OBVIOUS
    <2>1. \A r \in Requests : req[r].pc = "idle"
      BY DEF Init, Idle
    <2>2. KeysInv /\ Deletes /\ EvidenceInv /\ VersionInv /\ UploadKept
      BY <2>1 DEF Init, KeysInv, KeysUnique, UnusedKeys, Deletes, EvidenceInv,
         HeadEvidence, SizeEvidence, VersionInv, VersionRead, SerialVersion,
         UploadKept
    <2>3. QED BY <2>2, InitOK DEF FilesInv
  <1>2. FilesInv /\ [Next]_vars => FilesInv'
    BY ScopeStep, KeysStep, DeletesStep, EvidenceStep, VersionStep, KeptStep
       DEF FilesInv
  <1>3. QED
    BY <1>1, <1>2, PTL DEF Spec

\* Only a delete of its own row takes an uploaded object away.
THEOREM UploadKeptCorrect == Spec => []UploadKept
  <1>1. FilesInv => UploadKept
    BY DEF FilesInv
  <1>2. QED BY <1>1, InvariantHolds, PTL

\* An object that outlives its row was left by a failed erase or a late upload.
THEOREM OrphansExplainedCorrect == Spec => []OrphansExplained
  <1>1. FilesInv => OrphansExplained
    <2> SUFFICES ASSUME FilesInv, NEW k \in Keys \ chosen, objects[k] # Absent,
                        \A f \in live : keyOf[f] # k
                 PROVE  k \in unclean
      BY DEF OrphansExplained
    <2>1. PICK f \in created : keyOf[f] = k
      BY DEF FilesInv, KeysInv, UnusedKeys
    <2>2. k \in erased
      BY <2>1 DEF FilesInv, Deletes
    <2>3. QED BY <2>2 DEF FilesInv, Deletes
  <1>2. QED BY <1>1, InvariantHolds, PTL

\* A verified size was the size of an object stored under the row's key.
THEOREM SizeEvidenceCorrect == Spec => []SizeEvidence
  <1>1. FilesInv => SizeEvidence
    BY DEF FilesInv, EvidenceInv
  <1>2. QED BY <1>1, InvariantHolds, PTL

\* Without contention on a row its version counts the finalizes.
THEOREM SerialVersionCorrect == Spec => []SerialVersion
  <1>1. FilesInv => SerialVersion
    BY DEF FilesInv, VersionInv
  <1>2. QED BY <1>1, InvariantHolds, PTL

\* No finalize that lands late brings a deleted row back.
THEOREM DeletedForGoodCorrect == Spec => DeletedForGood
  <1>1. TypeOK /\ [Next]_vars => [\A f \in created \ live : f \notin live']_vars
    <2> SUFFICES ASSUME TypeOK, Next, NEW f \in created \ live, f \in live'
                 PROVE  FALSE
      OBVIOUS
    <2>1. ASSUME NEW r \in Requests, Presign(r) PROVE FALSE
      BY <2>1 DEF Presign, CreateRow
    <2>2. CASE UploadFile
      BY <2>2 DEF UploadFile, CreateRow
    <2>3. ASSUME NEW r \in Requests,
                 \/ IssueUrl(r) \/ StartFinalize(r) \/ Head(r) \/ Finalize(r)
                 \/ StartDelete(r) \/ Erase(r) \/ Remove(r) \/ Abort(r)
          PROVE  FALSE
      BY <2>3 DEF IssueUrl, StartFinalize, Head, Finalize, StartDelete, Erase,
         Remove, Abort, rowVars
    <2>4. CASE \E k \in Keys : UrlExpires(k) \/ \E s \in Sizes : Put(k, s)
      BY <2>4 DEF UrlExpires, Put, rowVars
    <2>5. QED
      BY <2>1, <2>2, <2>3, <2>4 DEF Next
  <1>2. QED
    BY <1>1, TypeCorrect, PTL DEF Spec, DeletedForGood

\* A handler changes rows and erases objects of its own tenant only.
THEOREM OwnTenantOnlyCorrect == Spec => OwnTenantOnly
  <1> DEFINE
        RowsOwn == \A f \in created :
          \/ (f \in live) # (f \in live')
          \/ size'[f] # size[f]
          \/ version'[f] # version[f]
          => \E r \in Requests : Works(r, f) /\ req[r].tenant = tenantOf[f]
        ObjectsOwn == \A k \in Keys \ chosen :
          objects[k] # Absent /\ objects'[k] = Absent
          => \E r \in Requests, f \in created :
               /\ keyOf[f] = k
               /\ Works(r, f)
               /\ req[r].tenant = tenantOf[f]
  <1>1. TypeOK /\ Scoped /\ [Next]_vars => [RowsOwn /\ ObjectsOwn]_vars
    <2> SUFFICES ASSUME TypeOK, Scoped, Next PROVE RowsOwn /\ ObjectsOwn
      OBVIOUS
    <2>1. ASSUME NEW r \in Requests, Presign(r) PROVE RowsOwn /\ ObjectsOwn
      <3>1. PICK f \in FileIds, t \in Tenants, k \in Keys : CreateRow(f, t, k, 0)
        BY <2>1 DEF Presign
      <3>2. UNCHANGED objects
        BY <2>1 DEF Presign, storeVars
      <3>3. QED BY <3>1, <3>2 DEF CreateRow, TypeOK
    <2>2. CASE UploadFile
      <3>1. PICK f \in FileIds, t \in Tenants, k \in Keys, s \in Sizes :
              CreateRow(f, t, k, s) /\ UNCHANGED objects
        BY <2>2 DEF UploadFile, storeVars
      <3>2. QED BY <3>1 DEF CreateRow, TypeOK
    <2>3. ASSUME NEW r \in Requests, Finalize(r) \/ Remove(r)
          PROVE  RowsOwn /\ ObjectsOwn
      <3> DEFINE f == req[r].file
      <3>1. f \in created /\ Works(r, f) /\ req[r].tenant = tenantOf[f]
        BY <2>3 DEF Finalize, Remove, Scoped, Works
      <3>2. /\ \A g \in created : g # f =>
                 ((g \in live) = (g \in live')) /\ size'[g] = size[g] /\ version'[g] = version[g]
            /\ UNCHANGED objects
        BY <2>3, <3>1 DEF Finalize, Remove, storeVars, TypeOK
      <3>3. QED BY <3>1, <3>2
    <2>4. ASSUME NEW r \in Requests, Erase(r) PROVE RowsOwn /\ ObjectsOwn
      <3>1. /\ UNCHANGED <<live, size, version>>
            /\ \A k \in Keys : k # req[r].key => objects'[k] = objects[k]
        BY <2>4 DEF Erase, rowVars, TypeOK
      <3>2. /\ req[r].file \in created /\ keyOf[req[r].file] = req[r].key
            /\ Works(r, req[r].file) /\ req[r].tenant = tenantOf[req[r].file]
        BY <2>4 DEF Erase, Scoped, Works
      <3>3. QED BY <3>1, <3>2
    <2>5. ASSUME NEW r \in Requests,
                 \/ IssueUrl(r) \/ StartFinalize(r) \/ Head(r)
                 \/ StartDelete(r) \/ Abort(r)
          PROVE  RowsOwn /\ ObjectsOwn
      <3>1. UNCHANGED <<live, size, version, objects>>
        BY <2>5 DEF IssueUrl, StartFinalize, Head, StartDelete, Abort,
           rowVars, storeVars
      <3>2. QED BY <3>1
    <2>6. ASSUME NEW k \in Keys, UrlExpires(k) \/ \E s \in Sizes : Put(k, s)
          PROVE  RowsOwn /\ ObjectsOwn
      <3>1. /\ UNCHANGED <<live, size, version>>
            /\ \A j \in Keys : objects'[j] = Absent => objects[j] = Absent
        BY <2>6, FilesAssumption DEF UrlExpires, Put, rowVars, TypeOK, Sizes, Absent
      <3>2. QED BY <3>1
    <2>7. QED
      BY <2>1, <2>2, <2>3, <2>4, <2>5, <2>6 DEF Next
  <1>2. QED
    BY <1>1, ScopeCorrect, PTL DEF Spec, OwnTenantOnly
=============================================================================
