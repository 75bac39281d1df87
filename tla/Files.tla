------------------------------- MODULE Files -------------------------------
(***************************************************************************)
(* The files of a workspace: the FileItem rows that FilesService           *)
(* (files.service.ts) keeps, and the objects of the S3 store that clients  *)
(* write through presigned URLs.  No transaction spans the two.  Every     *)
(* handler is a request that runs through its awaits; requests, uploads    *)
(* and crashes interleave.                                                 *)
(*                                                                         *)
(* A storage key is a member of a set: what matters of buildStorageKey is  *)
(* that its random part makes every key new.  Object contents are their    *)
(* sizes.  Folders, checksums and names are left out.                      *)
(***************************************************************************)
EXTENDS Integers

CONSTANTS
  Tenants,
  Requests,     \* handler invocations that may be in flight together
  FileIds,      \* rows that may be created (bound)
  Keys,         \* storage keys (bound)
  MaxSize,      \* largest size of an object (bound)
  MaxVersion,   \* largest version of a row (bound)
  None          \* no tenant, file or key

ASSUME FilesAssumption ==
  /\ MaxSize \in Nat
  /\ MaxVersion \in Nat
  /\ MaxVersion >= 1
  /\ None \notin Tenants \cup FileIds \cup Keys

VARIABLES
  created,    \* files that were given a row
  live,       \* files that still have it
  tenantOf,   \* file -> tenantId
  keyOf,      \* file -> storageKey
  size,       \* file -> size
  version,    \* file -> version
  objects,    \* key -> size of the stored object, or Absent
  urls,       \* keys with a presigned PUT URL that has not expired
  req,        \* request -> where its handler is and what it has read
  chosen,     \* history: keys that clients chose (legacy uploads)
  stored,     \* history: key -> sizes of the objects stored under it
  taken,      \* history: files whose size is a client's word
  finalized,  \* history: file -> completed finalize calls
  contended,  \* history: files that two requests worked on at once
  doomed,     \* history: files that some delete has found
  erased,     \* history: keys whose object a delete tried to erase
  unclean     \* history: keys left with an object by a failed erase, or by
              \*   an upload after it

rowVars == <<created, live, tenantOf, keyOf, size, version>>
storeVars == <<objects, urls>>
histVars == <<chosen, stored, taken, finalized, contended, doomed, erased, unclean>>
vars == <<created, live, tenantOf, keyOf, size, version, objects, urls, req,
          chosen, stored, taken, finalized, contended, doomed, erased, unclean>>

----------------------------------------------------------------------------

Absent == -1
Sizes == 0..MaxSize
Pcs == {"idle", "url", "head", "update", "erase", "remove"}

Request ==
  [pc: Pcs,
   file: FileIds \cup {None}, tenant: Tenants \cup {None}, key: Keys \cup {None},
   version: 0..MaxVersion,         \* the version finalize read
   claim: Sizes,                   \* the size the client reports
   head: Sizes \cup {Absent}]      \* the size HeadObject answered

\* A handler at pc, for tenant t, on file f with key k.
At(pc, t, f, k, v, c) ==
  [pc |-> pc, file |-> f, tenant |-> t, key |-> k,
   version |-> v, claim |-> c, head |-> Absent]

Idle == [pc |-> "idle", file |-> None, tenant |-> None, key |-> None,
         version |-> 0, claim |-> 0, head |-> Absent]

Works(r, f) == req[r].pc # "idle" /\ req[r].file = f

Init ==
  /\ created = {}
  /\ live = {}
  /\ tenantOf = [f \in FileIds |-> None]
  /\ keyOf = [f \in FileIds |-> None]
  /\ size = [f \in FileIds |-> 0]
  /\ version = [f \in FileIds |-> 0]
  /\ objects = [k \in Keys |-> Absent]
  /\ urls = {}
  /\ req = [r \in Requests |-> Idle]
  /\ chosen = {}
  /\ stored = [k \in Keys |-> {}]
  /\ taken = {}
  /\ finalized = [f \in FileIds |-> 0]
  /\ contended = {}
  /\ doomed = {}
  /\ erased = {}
  /\ unclean = {}

----------------------------------------------------------------------------
(* Rows *)

\* Mutant of Rows: found by id alone.
AllRows(t) == live

\* What findFirst({ id, tenantId }) can return to a caller of tenant t.
Rows(t) == {f \in live : tenantOf[f] = t}

\* A request starts to work on a row it has found.
Take(r, rec) ==
  /\ req[r].pc = "idle"
  /\ req' = [req EXCEPT ![r] = rec]
  /\ contended' = IF \E q \in Requests \ {r} : Works(q, rec.file)
                  THEN contended \cup {rec.file} ELSE contended

CreateRow(f, t, k, s) ==
  /\ f \notin created
  /\ created' = created \cup {f}
  /\ live' = live \cup {f}
  /\ tenantOf' = [tenantOf EXCEPT ![f] = t]
  /\ keyOf' = [keyOf EXCEPT ![f] = k]
  /\ size' = [size EXCEPT ![f] = s]
  /\ version' = [version EXCEPT ![f] = 1]

\* Mutant of NewKey: the key is built from the name alone.
NamedKey(k) == TRUE

\* buildStorageKey: random bytes make a key that nothing has used.
NewKey(k) == k \notin chosen /\ \A f \in created : keyOf[f] # k

----------------------------------------------------------------------------
(* Uploading *)

\* presignUpload writes the row first, with size 0 ...
Presign(r) ==
  /\ req[r].pc = "idle"
  /\ \E f \in FileIds, t \in Tenants, k \in Keys :
       /\ NewKey(k)
       /\ CreateRow(f, t, k, 0)
       /\ req' = [req EXCEPT ![r] = At("url", t, f, k, 0, 0)]
  /\ UNCHANGED <<storeVars, histVars>>

\* ... and then asks the store for a URL; if that fails the row remains.
IssueUrl(r) ==
  /\ req[r].pc = "url"
  /\ \/ urls' = urls \cup {req[r].key}
     \/ UNCHANGED urls
  /\ req' = [req EXCEPT ![r] = Idle]
  /\ UNCHANGED <<rowVars, objects, histVars>>

UrlExpires(k) ==
  /\ k \in urls
  /\ urls' = urls \ {k}
  /\ UNCHANGED <<rowVars, objects, req, histVars>>

\* A client stores an object, as often as it likes while the URL is good; the
\* keys of legacy uploads are stored without one.
Put(k, s) ==
  /\ k \in urls \cup chosen
  /\ objects' = [objects EXCEPT ![k] = s]
  /\ stored' = [stored EXCEPT ![k] = @ \cup {s}]
  /\ unclean' = IF k \in erased THEN unclean \cup {k} ELSE unclean
  /\ UNCHANGED <<rowVars, urls, req, chosen, taken, finalized, contended,
                 doomed, erased>>

\* uploadFile (legacy): key and size are the client's.
UploadFile ==
  \E f \in FileIds, t \in Tenants, k \in Keys, s \in Sizes :
    /\ CreateRow(f, t, k, s)
    /\ chosen' = chosen \cup {k}
    /\ taken' = taken \cup {f}
    /\ UNCHANGED <<storeVars, req, stored, finalized, contended, doomed,
                   erased, unclean>>

\* finalizeUpload finds the row, ...
StartFinalize(r) ==
  /\ \E t \in Tenants : \E f \in Rows(t), c \in Sizes :
       /\ version[f] < MaxVersion
       /\ Take(r, At("head", t, f, keyOf[f], version[f], c))
  /\ UNCHANGED <<rowVars, storeVars, chosen, stored, taken, finalized,
                 doomed, erased, unclean>>

\* ... asks the store for the object's size (no object, or no answer: the
\* size stays unknown), ...
Head(r) ==
  LET q == req[r] IN
  /\ q.pc = "head"
  /\ \E h \in {objects[q.key], Absent} :
       req' = [req EXCEPT ![r] = [q EXCEPT !.pc = "update", !.head = h]]
  /\ UNCHANGED <<rowVars, storeVars, histVars>>

\* Mutants of FinalSize: the client's word is taken; no fallback to it.
ClaimedSize(q) == q.claim
UncheckedSize(q) == q.head

\* The size to record: the store's if it is known, else the client's.
FinalSize(q) == IF q.head # Absent THEN q.head ELSE q.claim

\* Mutant of NextVersion: the version is not bumped.
SameVersion(q) == q.version

NextVersion(q) == q.version + 1

\* Mutant of Finalize: the update is an upsert.
FinalizeUpsert(r) ==
  LET q == req[r]
      f == q.file
  IN
  /\ q.pc = "update"
  /\ live' = live \cup {f}
  /\ size' = [size EXCEPT ![f] = FinalSize(q)]
  /\ version' = [version EXCEPT ![f] = NextVersion(q)]
  /\ finalized' = [finalized EXCEPT ![f] = @ + 1]
  /\ taken' = IF q.head = Absent THEN taken \cup {f} ELSE taken \ {f}
  /\ req' = [req EXCEPT ![r] = Idle]
  /\ UNCHANGED <<created, tenantOf, keyOf, storeVars, chosen, stored,
                 contended, doomed, erased, unclean>>

\* ... and updates the row by id: an error if it is gone by now.
Finalize(r) ==
  LET q == req[r]
      f == q.file
  IN
  /\ q.pc = "update"
  /\ \/ /\ f \in live
        /\ size' = [size EXCEPT ![f] = FinalSize(q)]
        /\ version' = [version EXCEPT ![f] = NextVersion(q)]
        /\ finalized' = [finalized EXCEPT ![f] = @ + 1]
        /\ taken' = IF q.head = Absent THEN taken \cup {f} ELSE taken \ {f}
     \/ /\ f \notin live
        /\ UNCHANGED <<size, version, finalized, taken>>
  /\ req' = [req EXCEPT ![r] = Idle]
  /\ UNCHANGED <<created, live, tenantOf, keyOf, storeVars, chosen, stored,
                 contended, doomed, erased, unclean>>

----------------------------------------------------------------------------
(* Deleting *)

\* Mutant of FirstOfDelete: the row goes, and the object is forgotten.
RowOnly == "remove"

\* Where deleteFile continues once it has found the row.
FirstOfDelete == "erase"

StartDelete(r) ==
  /\ \E t \in Tenants : \E f \in Rows(t) :
       /\ Take(r, At(FirstOfDelete, t, f, keyOf[f], 0, 0))
       /\ doomed' = doomed \cup {f}
  /\ UNCHANGED <<rowVars, storeVars, chosen, stored, taken, finalized,
                 erased, unclean>>

\* The object is erased; an error of the store is swallowed.
Erase(r) ==
  LET k == req[r].key IN
  /\ req[r].pc = "erase"
  /\ \/ objects' = [objects EXCEPT ![k] = Absent] /\ unclean' = unclean \ {k}
     \/ UNCHANGED objects /\ unclean' = unclean \cup {k}
  /\ erased' = erased \cup {k}
  /\ req' = [req EXCEPT ![r].pc = "remove"]
  /\ UNCHANGED <<rowVars, urls, chosen, stored, taken, finalized, contended, doomed>>

\* The row is deleted by id; an error (404 by now) if it is gone already.
Remove(r) ==
  /\ req[r].pc = "remove"
  /\ live' = live \ {req[r].file}
  /\ req' = [req EXCEPT ![r] = Idle]
  /\ UNCHANGED <<created, tenantOf, keyOf, size, version, storeVars, histVars>>

\* The process stops, or the database refuses: the rest never happens.
Abort(r) ==
  /\ req[r].pc # "idle"
  /\ req' = [req EXCEPT ![r] = Idle]
  /\ UNCHANGED <<rowVars, storeVars, histVars>>

Next ==
  \/ UploadFile
  \/ \E k \in Keys : UrlExpires(k) \/ \E s \in Sizes : Put(k, s)
  \/ \E r \in Requests :
       \/ Presign(r) \/ IssueUrl(r)
       \/ StartFinalize(r) \/ Head(r) \/ Finalize(r)
       \/ StartDelete(r) \/ Erase(r) \/ Remove(r)
       \/ Abort(r)

Spec == Init /\ [][Next]_vars

----------------------------------------------------------------------------
(* Properties *)

\* Every variable has its shape; a file without a row has no tenant or key.
TypeOK ==
  /\ created \in SUBSET FileIds
  /\ live \in SUBSET created
  /\ tenantOf \in [FileIds -> Tenants \cup {None}]
  /\ keyOf \in [FileIds -> Keys \cup {None}]
  /\ \A f \in created : tenantOf[f] # None /\ keyOf[f] # None
  /\ size \in [FileIds -> Sizes]
  /\ version \in [FileIds -> 0..MaxVersion]
  /\ objects \in [Keys -> Sizes \cup {Absent}]
  /\ urls \in SUBSET Keys
  /\ req \in [Requests -> Request]
  /\ chosen \in SUBSET Keys
  /\ stored \in [Keys -> SUBSET Sizes]
  /\ taken \in SUBSET FileIds
  /\ finalized \in [FileIds -> Nat]
  /\ contended \in SUBSET FileIds
  /\ doomed \in SUBSET FileIds
  /\ erased \in SUBSET Keys
  /\ unclean \in SUBSET Keys
\* Handlers of one tenant (presign to delete) change no row of another, nor
\* erase an object that a row of another names, however they interleave.
OwnTenantOnly ==
  [][/\ \A f \in created :
          \/ (f \in live) # (f \in live')
          \/ size'[f] # size[f]
          \/ version'[f] # version[f]
          => \E r \in Requests : Works(r, f) /\ req[r].tenant = tenantOf[f]
     /\ \A k \in Keys \ chosen :
          objects[k] # Absent /\ objects'[k] = Absent
          => \E r \in Requests, f \in created :
               /\ keyOf[f] = k
               /\ Works(r, f)
               /\ req[r].tenant = tenantOf[f]]_vars

\* A deleted row stays deleted, although a finalize that read it before may
\* still write (207).
DeletedForGood == [][\A f \in created \ live : f \notin live']_vars

\* An uploaded object stays as long as nobody asks to delete its own row:
\* deletes of other rows, failed handlers and crashes never take it away.
UploadKept ==
  \A f \in live \ doomed :
    keyOf[f] \notin chosen /\ stored[keyOf[f]] # {} => objects[keyOf[f]] # Absent

\* deleteFile "removes both the DB row and the S3 object" (248), except for
\* what its catch lets by: an object whose row is gone is one whose erasure
\* failed, or one that a late upload put back.
OrphansExplained ==
  \A k \in Keys \ chosen :
    objects[k] # Absent /\ (\A f \in live : keyOf[f] # k) => k \in unclean

\* A size that is not a client's word is 0 or that of an object that was
\* stored under the row's key, even when uploads and finalizes race.
SizeEvidence ==
  \A f \in created \ taken : size[f] \in {0} \cup stored[keyOf[f]]

\* While requests take turns on a row, its version counts its finalizes.
SerialVersion ==
  \A f \in created \ contended : version[f] = 1 + finalized[f]

\* finalizeUpload "bumps version" (186).
FinalizeBumps ==
  [][\A f \in created : finalized'[f] > finalized[f] => version'[f] > version[f]]_vars
=============================================================================
