--------------------------- MODULE MCOfficeProofs ---------------------------
(***************************************************************************)
(* What holds of the search, the analytics and the pages of projects and   *)
(* templates, each for any values of its constants; and that what is       *)
(* proved of a part, here and in OfficeProofs, holds in the composition    *)
(* that is model-checked: every behaviour of Spec is a behaviour of each   *)
(* part, which takes a step of its own or none.                            *)
(***************************************************************************)
EXTENDS MCOffice, OfficeProofs

-----------------------------------------------------------------------------
(* Search *)

\* The counts of the kinds of a finite set come to its size.
LEMMA CountsByKind ==
  ASSUME NEW L, IsFiniteSet(L), NEW T, NEW f,
         f = [k \in {T[x] : x \in L} |-> Cardinality({x \in L : T[x] = k})]
  PROVE  SumOver(f, DOMAIN f) = Cardinality(L)
  <1> DEFINE K == {T[x] : x \in L}
             Under(J) == {x \in L : T[x] \in J}
  <1>1. IsFiniteSet(K)
    BY ImageFinite
  <1>2. \A J : IsFiniteSet(Under(J)) /\ Cardinality(Under(J)) \in Nat
    BY FS_Subset, FS_CardinalityType
  <1>3. \A k \in K : f[k] = Cardinality(Under({k}))
    BY \A k : {x \in L : T[x] = k} = Under({k})
  <1>4. DOMAIN f = K /\ Under({}) = {} /\ Under(K) = L
    OBVIOUS
  <1>5. \A J, M : Under(J \union M) = Under(J) \union Under(M)
                  /\ (J \intersect M = {} => Under(J) \intersect Under(M) = {})
    OBVIOUS
  <1> HIDE DEF K, Under
  <1>6. PICK g : Adds(g, f, K) /\ SumOver(f, K) = g[K]
    <2>1. \A k \in K : f[k] \in Int
      <3> TAKE k \in K
      <3>1. f[k] = Cardinality(Under({k})) /\ Cardinality(Under({k})) \in Nat
        BY <1>2, <1>3
      <3>2. QED BY <3>1
    <2>2. QED BY <1>1, <2>1, SumThere
  <1> DEFINE Q == {J \in SUBSET K : g[J] = Cardinality(Under(J))}
  <1>7. {} \in Q
    BY <1>4, <1>6, FS_EmptySet DEF Adds
  <1>8. \A J \in SUBSET K : \A k \in K \ J : J \in Q => J \union {k} \in Q
    <2> SUFFICES ASSUME NEW J \in SUBSET K, NEW k \in K \ J, J \in Q PROVE J \union {k} \in Q
      OBVIOUS
    <2>1. g[J \union {k}] = f[k] + g[J]
      BY <1>6, SumOneMore
    <2>2. J \intersect {k} = {}
      OBVIOUS
    <2>3. Under(J \union {k}) = Under(J) \union Under({k}) /\ Under(J) \intersect Under({k}) = {}
      BY <1>5, <2>2
    <2>4. Cardinality(Under(J \union {k})) = Cardinality(Under(J)) + Cardinality(Under({k}))
      BY <1>2, <2>3, SizeOfTwo
    <2>5. g[J] = Cardinality(Under(J)) /\ f[k] = Cardinality(Under({k}))
          /\ Cardinality(Under(J)) \in Int /\ Cardinality(Under({k})) \in Int
      BY <1>2, <1>3
    <2>6. g[J \union {k}] = Cardinality(Under(J \union {k}))
      BY <2>1, <2>4, <2>5
    <2>7. QED BY <2>6
  <1> HIDE DEF Q
  <1>9. K \in Q
    BY <1>1, <1>7, <1>8, SetsAll
  <1>10. QED BY <1>4, <1>6, <1>9 DEF Q

\* A page has matches, and no more than its limit.
LEMMA PageOf ==
  ASSUME NEW M, IsFiniteSet(M), NEW limit \in Nat, NEW offset \in Int, NEW hits \in Pages(M, limit, offset)
  PROVE  hits \subseteq M /\ IsFiniteSet(hits) /\ Cardinality(hits) \in Nat /\ Cardinality(hits) <= limit
  <1>1. hits \in SUBSET M /\ Cardinality(hits) = Min({limit, Max({Cardinality(M) - offset, 0})})
    BY DEF Pages
  <1>2. Cardinality(M) \in Nat
    BY FS_CardinalityType
  <1>3. PICK m \in Int : m = Max({Cardinality(M) - offset, 0})
    <2>1. Cardinality(M) - offset \in Int /\ 0 \in Int
      BY <1>2
    <2>2. QED BY <2>1, OfTwo
  <1>4. Min({limit, m}) <= limit
    BY OfTwo
  <1>5. QED BY <1>1, <1>3, <1>4, FS_Subset, FS_CardinalityType

\* The limit of a page is positive, whatever a client sends.
LEMMA LimitOK == ASSUME NEW n \in Int PROVE LimitOf(n) \in Nat \ {0} /\ OffsetOf(n) \in Int
  <1>1. DefaultLimit \in Int /\ MaxLimit \in Int /\ MaxLimit >= 1
    BY SearchAssumption
  <1>2. PICK a \in Int : a = IF n = 0 THEN DefaultLimit ELSE n
    BY <1>1
  <1>3. PICK b \in Int : b = Max({a, 1}) /\ b >= 1
    BY OfTwo
  <1>4. Min({b, MaxLimit}) \in Int /\ Min({b, MaxLimit}) >= 1
    BY <1>1, <1>3, OfTwo
  <1>5. LimitOf(n) = Min({b, MaxLimit})
    BY <1>2, <1>3 DEF LimitOf
  <1>6. OffsetOf(n) \in Int
    BY 0 \in Int, OfTwo DEF OffsetOf
  <1>7. QED BY <1>4, <1>5, <1>6

\* The index: what is listed for a tenant is finite, and this tenant wrote it.
IndexInv ==
  /\ index \in [Tenants -> [Resources -> Rows]]
  /\ \A t \in Tenants : IsFiniteSet(Listed(t)) /\ \A x \in Listed(t) : index[t][x].by = t

\* What a request under way has read.
RequestInv ==
  /\ search.pc \in {"idle", "bulk", "fuzzy", "done", "stats", "counted"}
  /\ search.pc \in {"bulk", "fuzzy", "stats"} => search.tenant \in Tenants
  /\ search.pc = "bulk" => search.next \in Resources /\ search.doc \in Documents
  /\ search.pc = "fuzzy" =>
       /\ search.limit \in Nat /\ search.offset \in Int /\ IsFiniteSet(search.exact)
       /\ Cardinality(search.exact) < search.limit /\ search.foreign = {}
  /\ search.pc = "stats" => search.total = Cardinality(search.at)
  /\ SearchAnswers

\* The row that a request writes is its tenant's.
LEMMA UpsertStep ==
  ASSUME IndexInv, NEW t \in Tenants, NEW claimed, NEW x \in Resources, NEW doc \in Documents,
         Upsert(t, claimed, x, doc)
  PROVE  IndexInv'
  <1> DEFINE r == [title |-> doc.title, vector |-> Vector(doc), by |-> t]
  <1>1. index' = [index EXCEPT ![t][x] = r]
    BY DEF Upsert, Tagged
  <1>2. r \in Rows /\ r.by = t
    BY SearchAssumption DEF Rows, Vector
  <1>3. index' \in [Tenants -> [Resources -> Rows]]
    BY <1>1, <1>2 DEF IndexInv
  <1>4. /\ \A u \in Tenants \ {t} : index'[u] = index[u]
        /\ index'[t][x] = r /\ \A y \in Resources \ {x} : index'[t][y] = index[t][y]
    BY <1>1 DEF IndexInv
  <1> HIDE DEF r
  <1>5. Listed(t)' \in SUBSET (Listed(t) \union {x}) /\ \A u \in Tenants \ {t} : Listed(u)' = Listed(u)
    BY <1>4 DEF Listed
  <1>6. IsFiniteSet(Listed(t) \union {x})
    BY FS_AddElement DEF IndexInv
  <1>7. \A u \in Tenants : IsFiniteSet(Listed(u)')
    BY <1>5, <1>6, FS_Subset DEF IndexInv
  <1>8. ASSUME NEW u \in Tenants, NEW y \in Listed(u)' PROVE index'[u][y].by = u
    <2>1. y \in Resources /\ index'[u][y] # Absent
      BY DEF Listed
    <2>2. CASE u = t /\ y = x
      BY <1>2, <1>4, <2>2
    <2>3. CASE ~(u = t /\ y = x)
      <3>1. index'[u][y] = index[u][y]
        BY <1>4, <2>1, <2>3
      <3>2. y \in Listed(u)
        BY <2>1, <3>1 DEF Listed
      <3>3. QED BY <3>1, <3>2 DEF IndexInv
    <2>4. QED BY <2>2, <2>3
  <1>9. QED BY <1>3, <1>7, <1>8 DEF IndexInv

\* A deletion leaves the other rows to their tenants.
LEMMA DeleteStep ==
  ASSUME IndexInv, NEW t \in Tenants, NEW x \in Resources, index' = [index EXCEPT ![t][x] = Absent]
  PROVE  IndexInv'
  <1>1. index' \in [Tenants -> [Resources -> Rows]]
    BY DEF IndexInv, Rows
  <1>2. /\ \A u \in Tenants \ {t} : index'[u] = index[u]
        /\ index'[t][x] = Absent /\ \A y \in Resources \ {x} : index'[t][y] = index[t][y]
    BY DEF IndexInv
  <1>3. \A u \in Tenants : \A y \in Listed(u)' : y \in Listed(u) /\ index'[u][y] = index[u][y]
    BY <1>2 DEF Listed
  <1>4. \A u \in Tenants : IsFiniteSet(Listed(u)')
    <2>1. \A u \in Tenants : Listed(u)' \in SUBSET Listed(u)
      BY <1>3
    <2>2. QED BY <2>1, FS_Subset DEF IndexInv
  <1>5. QED BY <1>1, <1>3, <1>4 DEF IndexInv

\* What a search finds is listed, so that it is finite and nothing foreign.
LEMMA FoundOf ==
  ASSUME IndexInv, NEW t \in Tenants, NEW words, NEW types, NEW n \in Nat, NEW m \in Int,
         NEW matches \in {Exact(t, words, types), Fuzzy(t, words, types)}, NEW hits \in Pages(matches, n, m)
  PROVE  /\ IsFiniteSet(hits) /\ Cardinality(hits) \in Nat /\ Cardinality(hits) <= n
         /\ Foreign(t, hits) = {}
  <1>1. matches \in SUBSET Listed(t)
    BY DEF Exact, Fuzzy, InTypes
  <1>2. IsFiniteSet(matches)
    BY <1>1, FS_Subset DEF IndexInv
  <1>3. hits \subseteq matches /\ IsFiniteSet(hits) /\ Cardinality(hits) \in Nat /\ Cardinality(hits) <= n
    BY <1>2, PageOf
  <1>4. Foreign(t, hits) = {}
    BY <1>1, <1>3 DEF Foreign, IndexInv
  <1>5. QED BY <1>3, <1>4

\* Every step keeps the invariant of the search.
LEMMA SearchStep == IndexInv /\ RequestInv /\ [SearchNext]_searchVars => IndexInv' /\ RequestInv'
  <1> SUFFICES ASSUME IndexInv, RequestInv, [SearchNext]_searchVars PROVE IndexInv' /\ RequestInv'
    OBVIOUS
  <1>1. CASE UNCHANGED searchVars
    BY <1>1 DEF searchVars, IndexInv, RequestInv, SearchAnswers, StatsAgree, Listed
  <1>2. ASSUME UNCHANGED index PROVE IndexInv'
    BY <1>2 DEF IndexInv, Listed
  <1>3. ASSUME UNCHANGED search PROVE RequestInv'
    BY <1>3 DEF RequestInv, SearchAnswers, StatsAgree
  <1>4. ASSUME search' = Idle PROVE RequestInv'
    BY <1>4 DEF Idle, RequestInv, SearchAnswers, StatsAgree
  <1>5. ASSUME NEW t \in Tenants, Index(t) PROVE IndexInv' /\ RequestInv'
    BY <1>3, <1>5, UpsertStep DEF Index
  <1>6. ASSUME NEW t \in Tenants, BulkIndex(t) PROVE IndexInv' /\ RequestInv'
    <2>1. PICK x, y \in Resources, d, e \in Documents :
            Upsert(t, t, x, d) /\ search' = [pc |-> "bulk", tenant |-> t, next |-> y, doc |-> e]
      BY <1>6 DEF BulkIndex
    <2>2. RequestInv'
      BY <2>1 DEF RequestInv, SearchAnswers, StatsAgree
    <2>3. QED BY <2>1, <2>2, UpsertStep
  <1>7. ASSUME BulkNext PROVE IndexInv' /\ RequestInv'
    BY <1>4, <1>7, UpsertStep DEF BulkNext, RequestInv
  <1>8. ASSUME NEW t \in Tenants, Delete(t) PROVE IndexInv' /\ RequestInv'
    BY <1>3, <1>8, DeleteStep DEF Delete
  <1>9. ASSUME NEW t \in Tenants, SimpleSearch(t) PROVE RequestInv'
    <2>1. PICK words \in SUBSET Words, types \in SUBSET Types, n \in Asked, m \in Asked :
            \/ \E hits \in IF words = {} THEN {{}} ELSE Pages(Exact(t, words, types), LimitOf(n), OffsetOf(m)) :
                 search' = Answer(LimitOf(n), hits, {}, Foreign(t, hits))
            \/ \E hits \in IF words = {} THEN {{}} ELSE Pages(Fuzzy(t, words, types), LimitOf(n), OffsetOf(m)) :
                 search' = Answer(LimitOf(n), {}, hits, Foreign(t, hits))
      BY <1>9 DEF SimpleSearch
    <2>2. LimitOf(n) \in Nat /\ OffsetOf(m) \in Int
      BY LimitOK, SearchAssumption
    <2>3. PICK hits : /\ \/ search' = Answer(LimitOf(n), hits, {}, Foreign(t, hits))
                         \/ search' = Answer(LimitOf(n), {}, hits, Foreign(t, hits))
                      /\ \/ hits = {}
                         \/ hits \in Pages(Exact(t, words, types), LimitOf(n), OffsetOf(m))
                         \/ hits \in Pages(Fuzzy(t, words, types), LimitOf(n), OffsetOf(m))
      BY <2>1
    <2>4. Cardinality({}) = 0 /\ Foreign(t, {}) = {}
      BY FS_EmptySet DEF Foreign
    <2>5. Cardinality(hits) \in Nat /\ Cardinality(hits) <= LimitOf(n) /\ Foreign(t, hits) = {}
      <3>1. CASE hits = {}
        BY <2>2, <2>4, <3>1
      <3>2. CASE hits \in Pages(Exact(t, words, types), LimitOf(n), OffsetOf(m))
        BY <2>2, <3>2, FoundOf
      <3>3. CASE hits \in Pages(Fuzzy(t, words, types), LimitOf(n), OffsetOf(m))
        BY <2>2, <3>3, FoundOf
      <3>4. QED BY <2>3, <3>1, <3>2, <3>3
    <2>6. search'.pc = "done" /\ search'.limit = LimitOf(n) /\ search'.foreign = {}
          /\ ((search'.exact = hits /\ search'.fuzzy = {}) \/ (search'.exact = {} /\ search'.fuzzy = hits))
      BY <2>3, <2>5 DEF Answer
    <2>7. Cardinality(search'.exact) + Cardinality(search'.fuzzy) = Cardinality(hits)
          /\ search'.exact \intersect search'.fuzzy = {}
      <3>1. CASE search'.exact = hits /\ search'.fuzzy = {}
        BY <2>4, <2>5, <3>1
      <3>2. CASE search'.exact = {} /\ search'.fuzzy = hits
        BY <2>4, <2>5, <3>2
      <3>3. QED BY <2>6, <3>1, <3>2
    <2>8. QED BY <2>2, <2>5, <2>6, <2>7 DEF RequestInv, SearchAnswers, StatsAgree
  <1>10. ASSUME NEW t \in Tenants, CombinedSearch(t) PROVE RequestInv'
    <2>0. PICK words \in SUBSET Words, types \in SUBSET Types, n \in Asked, m \in Asked :
            \E hits \in Pages(Exact(t, words, types), LimitOf(n), OffsetOf(m)) :
              search' = IF Cardinality(hits) >= LimitOf(n) THEN Answer(LimitOf(n), hits, {}, Foreign(t, hits))
                        ELSE [pc |-> "fuzzy", tenant |-> t, words |-> words, types |-> types,
                              limit |-> LimitOf(n), offset |-> OffsetOf(m), exact |-> hits, foreign |-> Foreign(t, hits)]
      BY <1>10 DEF CombinedSearch
    <2>1. PICK hits \in Pages(Exact(t, words, types), LimitOf(n), OffsetOf(m)) :
            search' = IF Cardinality(hits) >= LimitOf(n) THEN Answer(LimitOf(n), hits, {}, Foreign(t, hits))
                      ELSE [pc |-> "fuzzy", tenant |-> t, words |-> words, types |-> types,
                            limit |-> LimitOf(n), offset |-> OffsetOf(m), exact |-> hits, foreign |-> Foreign(t, hits)]
      BY <2>0
    <2>2. LimitOf(n) \in Nat /\ OffsetOf(m) \in Int
      BY LimitOK, SearchAssumption
    <2>3. IsFiniteSet(hits) /\ Cardinality(hits) \in Nat /\ Cardinality(hits) <= LimitOf(n) /\ Foreign(t, hits) = {}
      BY <2>2, FoundOf
    <2>4. CASE Cardinality(hits) >= LimitOf(n)
      <3>1. search'.pc = "done" /\ search'.limit = LimitOf(n) /\ search'.foreign = {}
            /\ search'.exact = hits /\ search'.fuzzy = {}
        BY <2>1, <2>3, <2>4 DEF Answer
      <3>2. QED BY <2>2, <2>3, <3>1, FS_EmptySet DEF RequestInv, SearchAnswers, StatsAgree
    <2>5. CASE ~(Cardinality(hits) >= LimitOf(n))
      <3>1. search'.pc = "fuzzy" /\ search'.limit = LimitOf(n) /\ search'.foreign = {}
            /\ search'.exact = hits /\ search'.offset = OffsetOf(m) /\ search'.tenant = t
        BY <2>1, <2>3, <2>5
      <3>2. QED BY <2>2, <2>3, <2>5, <3>1 DEF RequestInv, SearchAnswers, StatsAgree
    <2>6. QED BY <2>4, <2>5
  <1>11. ASSUME FuzzyRest PROVE RequestInv'
    <2>1. PICK hits \in Pages(Fuzzy(search.tenant, search.words, search.types),
                              search.limit - Cardinality(search.exact), search.offset) :
            search' = Answer(search.limit, search.exact, Supplement(hits, search.exact),
                             search.foreign \union Foreign(search.tenant, hits))
      BY <1>11 DEF FuzzyRest
    <2>2. search.tenant \in Tenants /\ search.limit \in Nat /\ search.offset \in Int /\ search.foreign = {}
          /\ IsFiniteSet(search.exact) /\ Cardinality(search.exact) < search.limit
      BY <1>11 DEF FuzzyRest, RequestInv
    <2>3. PICK rest \in Nat : rest = search.limit - Cardinality(search.exact)
      BY <2>2, FS_CardinalityType
    <2>4. IsFiniteSet(hits) /\ Cardinality(hits) \in Nat /\ Cardinality(hits) <= rest /\ Foreign(search.tenant, hits) = {}
      BY <2>1, <2>2, <2>3, FoundOf
    <2>5. Cardinality(hits \ search.exact) \in Nat /\ Cardinality(hits \ search.exact) <= Cardinality(hits)
      <3>1. hits \ search.exact \in SUBSET hits
        OBVIOUS
      <3>2. QED BY <2>4, <3>1, FS_Subset, FS_CardinalityType
    <2>6. Cardinality(search.exact) + Cardinality(hits \ search.exact) <= search.limit
      BY <2>2, <2>3, <2>4, <2>5, FS_CardinalityType
    <2>7. search'.pc = "done" /\ search'.limit = search.limit /\ search'.foreign = {}
          /\ search'.exact = search.exact /\ search'.fuzzy = hits \ search.exact
      BY <2>1, <2>2, <2>4 DEF Answer, Supplement
    <2>8. search'.exact \intersect search'.fuzzy = {}
      BY <2>7
    <2>9. QED BY <2>6, <2>7, <2>8 DEF RequestInv, SearchAnswers, StatsAgree
  <1>12. ASSUME NEW t \in Tenants, StartStats(t) PROVE RequestInv'
    BY <1>12 DEF StartStats, RequestInv, SearchAnswers, StatsAgree
  <1>13. ASSUME FinishStats PROVE RequestInv'
    <2> DEFINE t == search.tenant
    <2>1. /\ search'.pc = "counted" /\ search'.total = search.total /\ search'.byType = ByType(t)
          /\ search'.steady = (search.at = Listed(t))
      BY <1>13 DEF FinishStats
    <2>2. t \in Tenants /\ search.total = Cardinality(search.at)
      BY <1>13 DEF FinishStats, RequestInv
    <2>3. IsFiniteSet(Listed(t))
      BY <2>2 DEF IndexInv
    <2>4. ByType(t) = [k \in {TypeOf[x] : x \in Listed(t)} |-> Cardinality({x \in Listed(t) : TypeOf[x] = k})]
      <3>1. \A k : InTypes(t, {k}) = {x \in Listed(t) : TypeOf[x] = k}
        BY DEF InTypes
      <3>2. QED BY <3>1 DEF ByType
    <2>5. Together(ByType(t)) = Cardinality(Listed(t))
      <3>1. Together(ByType(t)) = SumOver(ByType(t), DOMAIN ByType(t))
        BY DEF Together, SumOver
      <3>2. QED BY <2>3, <2>4, <3>1, CountsByKind
    <2> HIDE DEF t
    <2>6. search'.steady => Together(search'.byType) = search'.total
      BY <2>1, <2>2, <2>5
    <2>7. QED BY <2>1, <2>6 DEF RequestInv, SearchAnswers, StatsAgree
  <1>14. ASSUME End PROVE RequestInv'
    BY <1>4, <1>14 DEF End
  <1>15. CASE \E t \in Tenants : SimpleSearch(t) \/ CombinedSearch(t) \/ StartStats(t)
    BY <1>2, <1>9, <1>10, <1>12, <1>15 DEF SimpleSearch, CombinedSearch, StartStats
  <1>16. CASE FuzzyRest \/ FinishStats \/ End
    BY <1>2, <1>11, <1>13, <1>14, <1>16 DEF FuzzyRest, FinishStats, End
  <1>17. QED BY <1>1, <1>5, <1>6, <1>7, <1>8, <1>15, <1>16 DEF SearchNext

\* The invariant of the search holds.
LEMMA SearchInvHolds == SearchSpec => [](IndexInv /\ RequestInv)
  <1>1. SearchInit => IndexInv /\ RequestInv
    <2> SUFFICES ASSUME SearchInit PROVE IndexInv /\ RequestInv
      OBVIOUS
    <2>1. index \in [Tenants -> [Resources -> Rows]] /\ \A t \in Tenants : Listed(t) = {}
      BY DEF SearchInit, Rows, Listed
    <2>2. QED BY <2>1, FS_EmptySet DEF SearchInit, Idle, IndexInv, RequestInv, SearchAnswers, StatsAgree
  <1>2. QED BY <1>1, SearchStep, PTL DEF SearchSpec

\* The index has rows of its form, and a request is at one of its statements.
THEOREM SearchTypeCorrect == SearchSpec => []SearchTypeOK
  <1>1. IndexInv /\ RequestInv => SearchTypeOK
    BY DEF IndexInv, RequestInv, SearchTypeOK
  <1>2. QED BY <1>1, SearchInvHolds, PTL

\* SearchService: a page is within its limit and names nothing twice, only what
\* the tenant that asks has indexed, and steady counts agree; for any number of
\* resources, types, words and tenants, and any limits and offsets.
THEOREM SearchAnswersCorrect == SearchSpec => []SearchAnswers
  <1>1. IndexInv /\ RequestInv => SearchAnswers
    BY DEF RequestInv
  <1>2. QED BY <1>1, SearchInvHolds, PTL

-----------------------------------------------------------------------------
(* Analytics: bags *)

\* The size of a bag is the sum of its counts.
LEMMA BagSize ==
  ASSUME NEW B, IsABag(B), IsFiniteSet(BagToSet(B))
  PROVE  BagCardinality(B) = SumOver(B, BagToSet(B))
  <1> DEFINE S == DOMAIN B
             Iter(h) == h = [T \in SUBSET S |-> IF T = {} THEN 0
                              ELSE LET x == CHOOSE x \in T : TRUE IN B[x] + h[T \ {x}]]
  <1>1. BagCardinality(B) = (CHOOSE h : Iter(h))[S]
    BY DEF BagCardinality
  <1>2. IsFiniteSet(S) /\ \A x \in S : B[x] \in Int
    BY DEF IsABag, BagToSet
  <1>3. \A h : Iter(h) <=> FoldOf(h, B, S)
    BY DEF FoldOf
  <1> HIDE DEF Iter, S
  <1>4. PICK g : Adds(g, B, S) /\ FoldOf(g, B, S) /\ \A h : FoldOf(h, B, S) => h[S] = g[S]
    BY <1>2, FoldThere
  <1>5. Iter(CHOOSE h : Iter(h))
    BY <1>3, <1>4
  <1>6. BagCardinality(B) = g[S]
    BY <1>1, <1>3, <1>4, <1>5
  <1>7. SumOver(B, S) = g[S]
    BY <1>2, <1>4, SumPart, S \in SUBSET S
  <1>8. QED BY <1>6, <1>7 DEF S, BagToSet

\* Two finite bags together.
LEMMA BagsTogether ==
  ASSUME NEW B, IsABag(B), IsFiniteSet(BagToSet(B)), NEW R, IsABag(R), IsFiniteSet(BagToSet(R))
  PROVE  /\ IsABag(B (+) R) /\ IsFiniteSet(BagToSet(B (+) R))
         /\ BagToSet(B (+) R) = BagToSet(B) \union BagToSet(R)
         /\ \A x \in BagToSet(B) : B[x] <= (B (+) R)[x]
         /\ BagCardinality(B (+) R) = BagCardinality(B) + BagCardinality(R)
  <1> DEFINE S == DOMAIN B
             T == DOMAIN R
             b == [x \in S \union T |-> IF x \in S THEN B[x] ELSE 0]
             r == [x \in S \union T |-> IF x \in T THEN R[x] ELSE 0]
  <1>1. PICK K : K = B (+) R
    OBVIOUS
  <1>2. K = [x \in S \union T |-> b[x] + r[x]]
    BY <1>1 DEF (+)
  <1>3. /\ \A x \in S : B[x] \in Nat /\ B[x] > 0
        /\ \A x \in T : R[x] \in Nat /\ R[x] > 0
    BY DEF IsABag
  <1>4. /\ \A x \in S \union T : b[x] \in Nat /\ r[x] \in Nat /\ b[x] + r[x] > 0 /\ b[x] + r[x] \in Nat
        /\ \A x \in S : b[x] = B[x]
    BY <1>3
  <1>5. IsFiniteSet(S) /\ IsFiniteSet(T) /\ IsFiniteSet(S \union T)
    BY FS_Union DEF BagToSet
  <1>6. SumOver(b, S \union T) = SumOver(B, S)
    <2>1. PICK V : V = S \union T
      OBVIOUS
    <2>2. /\ IsFiniteSet(V) /\ S \in SUBSET V /\ \A x \in S : B[x] \in Int
          /\ \A x \in V : b[x] = IF x \in S THEN B[x] ELSE 0
      BY <1>3, <1>5, <2>1
    <2> HIDE DEF b, S
    <2>3. QED BY <2>1, <2>2, SumFilled
  <1>7. SumOver(r, S \union T) = SumOver(R, T)
    <2>1. PICK V : V = S \union T
      OBVIOUS
    <2>2. /\ IsFiniteSet(V) /\ T \in SUBSET V /\ \A x \in T : R[x] \in Int
          /\ \A x \in V : r[x] = IF x \in T THEN R[x] ELSE 0
      BY <1>3, <1>5, <2>1
    <2> HIDE DEF r, T
    <2>3. QED BY <2>1, <2>2, SumFilled
  <1> HIDE DEF b, r
  <1>8. DOMAIN K = S \union T /\ \A x \in S \union T : K[x] = b[x] + r[x]
    BY <1>2
  <1>9. IsABag(K)
    BY <1>2, <1>4, <1>8 DEF IsABag
  <1>10. SumOver(K, S \union T) = SumOver(b, S \union T) + SumOver(r, S \union T)
    <2>1. PICK V : V = S \union T
      OBVIOUS
    <2>2. IsFiniteSet(V) /\ \A x \in V : b[x] \in Int /\ r[x] \in Int /\ K[x] = b[x] + r[x]
      BY <1>4, <1>5, <1>8, <2>1
    <2>3. QED BY <2>1, <2>2, SumPlus
  <1>11. BagCardinality(K) = SumOver(K, S \union T)
    BY <1>5, <1>8, <1>9, BagSize DEF BagToSet
  <1>12. BagCardinality(B) = SumOver(B, S) /\ BagCardinality(R) = SumOver(R, T)
    BY BagSize DEF BagToSet
  <1>13. \A x \in S : B[x] <= K[x]
    BY <1>4, <1>8, <1>3
  <1>14. QED
    BY <1>1, <1>5, <1>6, <1>7, <1>8, <1>9, <1>10, <1>11, <1>12, <1>13 DEF BagToSet

\* The bag of one element, and the empty bag.
LEMMA BagOfOne ==
  ASSUME NEW e
  PROVE  /\ IsABag(SetToBag({e})) /\ IsFiniteSet(BagToSet(SetToBag({e})))
         /\ BagToSet(SetToBag({e})) = {e} /\ BagCardinality(SetToBag({e})) = 1
  <1>1. PICK B : B = SetToBag({e})
    OBVIOUS
  <1>2. DOMAIN B = {e} /\ B[e] = 1 /\ B = [x \in {e} |-> 1]
    BY <1>1 DEF SetToBag
  <1>3. IsABag(B) /\ BagToSet(B) = {e} /\ IsFiniteSet(BagToSet(B))
    <2>1. IsABag(B)
      BY <1>2 DEF IsABag
    <2>2. IsFiniteSet({e})
      BY FS_Singleton
    <2>3. QED BY <1>2, <2>1, <2>2 DEF BagToSet
  <1>4. SumOver(B, {} \union {e}) = B[e] + SumOver(B, {}) /\ {} \union {e} = {e}
    <2>1. PICK I : I = {e}
      OBVIOUS
    <2>2. IsFiniteSet(I) /\ (\A x \in I : B[x] \in Int) /\ {} \in SUBSET I /\ e \in I \ {}
      <3>1. IsFiniteSet(I)
        BY <2>1, FS_Singleton
      <3>2. \A x \in I : B[x] \in Int
        BY <1>2, <2>1
      <3>3. QED BY <2>1, <3>1, <3>2
    <2>3. ASSUME NEW T \in SUBSET I, NEW x \in I \ T PROVE SumOver(B, T \union {x}) = B[x] + SumOver(B, T)
      BY <2>2, SumWith
    <2>4. QED BY <2>2, <2>3
  <1>5. SumOver(B, {}) = 0
    BY SumOfNone
  <1>6. BagCardinality(B) = 1
    BY <1>2, <1>3, <1>4, <1>5, BagSize
  <1>7. QED BY <1>1, <1>3, <1>6

\* The empty bag.
LEMMA BagOfNone == IsABag(EmptyBag) /\ IsFiniteSet(BagToSet(EmptyBag)) /\ BagToSet(EmptyBag) = {}
                   /\ BagCardinality(EmptyBag) = 0
  <1>1. DOMAIN EmptyBag = {} /\ EmptyBag = [x \in {} |-> 1]
    BY DEF EmptyBag, SetToBag
  <1>2. IsABag(EmptyBag) /\ BagToSet(EmptyBag) = {} /\ IsFiniteSet(BagToSet(EmptyBag))
    BY <1>1, FS_EmptySet DEF IsABag, BagToSet
  <1>3. BagCardinality(EmptyBag) = 0
    BY <1>1, <1>2, BagSize, SumOfNone
  <1>4. QED BY <1>2, <1>3

-----------------------------------------------------------------------------
(* Analytics *)

\* The table is a finite bag of events, each of the tenant that sent it.
EventsInv ==
  /\ IsABag(events) /\ IsFiniteSet(BagToSet(events)) /\ BagToSet(events) \subseteq Event
  /\ BagCardinality(events) <= MaxEvents
  /\ EventsOwned

\* What a request has counted of a user lies between what was there when it came
\* and what is there now.
Between(n) == n # -1 => n \in Int /\ visit.before <= n /\ n <= Count(UserEvents(visit.tenant, visit.user))

VisitInv ==
  /\ visit.pc \in {"idle", "activity", "funnel"}
  /\ visit.pc = "activity" =>
       /\ visit = [pc |-> "activity", tenant |-> visit.tenant, user |-> visit.user, before |-> visit.before,
                   total |-> visit.total, kinds |-> visit.kinds]
       /\ visit.before \in Int /\ visit.before <= Count(UserEvents(visit.tenant, visit.user))
       /\ Between(visit.total) /\ Between(visit.kinds)

\* A count of events is a sum over them.
LEMMA CountIs ==
  ASSUME NEW S
  PROVE  Count(S) = SumOver(events, S)
  BY DEF Count, SumOver

\* The same of what the next state has.
LEMMA CountIsLater ==
  ASSUME NEW S
  PROVE  Count(S)' = SumOver(events', S)
  BY DEF Count, SumOver, MapThenSumSet, MapThenFoldSet

\* A total is a sum over its keys.
LEMMA TotalIs ==
  ASSUME NEW f
  PROVE  Total(f) = SumOver(f, DOMAIN f)
  BY DEF Total, SumOver

\* The counts of some events, all of which are there.
LEMMA CountOfSome ==
  ASSUME EventsInv, NEW S \in SUBSET BagToSet(events)
  PROVE  /\ IsFiniteSet(S) /\ \A e \in S : events[e] \in Nat /\ events[e] >= 1
         /\ Count(S) \in Nat
  <1>1. IsFiniteSet(S)
    BY FS_Subset DEF EventsInv
  <1>2. \A e \in S : events[e] \in Nat /\ events[e] >= 1
    BY DEF EventsInv, IsABag, BagToSet
  <1>3. SumOver(events, S) \in Nat
    BY <1>1, <1>2, SumOfPart, S \in SUBSET S
  <1>4. QED BY <1>1, <1>2, <1>3, CountIs

\* Rows that are added are of the tenant or from inside.
LEMMA RowIsEvent ==
  ASSUME NEW t \in Companies, NEW e \in Written, NEW sender \in {t, Nobody}
  PROVE  /\ Row(t, e, sender) \in Event
         /\ Row(t, e, sender).sender \in {Row(t, e, sender).tenant, Nobody}
  BY DEF Row, Event, Written

\* Adding n rows that are events of their tenants.
LEMMA RowsAdded ==
  ASSUME EventsInv, NEW n \in Nat, Room(n), NEW R, Insert(R),
         IsABag(R), IsFiniteSet(BagToSet(R)), BagToSet(R) \subseteq Event, BagCardinality(R) = n,
         \A e \in BagToSet(R) : e.sender \in {e.tenant, Nobody}
  PROVE  /\ EventsInv'
         /\ BagToSet(events) \subseteq BagToSet(events')
         /\ \A e \in BagToSet(events) : events[e] <= events'[e]
  <1>1. /\ IsABag(events') /\ IsFiniteSet(BagToSet(events'))
        /\ BagToSet(events') = BagToSet(events) \union BagToSet(R)
        /\ \A x \in BagToSet(events) : events[x] <= events'[x]
        /\ BagCardinality(events') = BagCardinality(events) + n
    BY BagsTogether DEF Insert, EventsInv
  <1>2. BagCardinality(events') <= MaxEvents
    BY <1>1 DEF Room
  <1>3. EventsOwned'
    BY <1>1 DEF EventsInv, EventsOwned
  <1>4. QED BY <1>1, <1>2, <1>3 DEF EventsInv

\* The table grows: a statement inserts one row or two.
LEMMA EventsStep ==
  ASSUME EventsInv, [AnalyticsNext]_analyticsVars
  PROVE  /\ EventsInv'
         /\ BagToSet(events) \subseteq BagToSet(events')
         /\ \A e \in BagToSet(events) : events[e] <= events'[e]
         /\ events' = events \/ visit' = visit
  <1>1. CASE UNCHANGED events
    <2>1. \A e \in BagToSet(events) : events[e] \in Nat
      BY DEF EventsInv, IsABag, BagToSet
    <2>2. EventsInv'
      BY <1>1 DEF EventsInv, EventsOwned
    <2>3. QED BY <1>1, <2>1, <2>2
  <1>2. ASSUME NEW t \in Companies, NEW e \in Written, NEW sender \in {t, Nobody}, Room(1),
               Insert(SetToBag({Row(t, e, sender)})), UNCHANGED visit
        PROVE  /\ EventsInv'
               /\ BagToSet(events) \subseteq BagToSet(events')
               /\ \A x \in BagToSet(events) : events[x] <= events'[x]
               /\ visit' = visit
    <2>1. PICK R : R = SetToBag({Row(t, e, sender)})
      OBVIOUS
    <2>2. /\ IsABag(R) /\ IsFiniteSet(BagToSet(R)) /\ BagToSet(R) = {Row(t, e, sender)}
          /\ BagCardinality(R) = 1
      BY <2>1, BagOfOne
    <2>3. BagToSet(R) \subseteq Event /\ \A x \in BagToSet(R) : x.sender \in {x.tenant, Nobody}
      BY <2>2, RowIsEvent
    <2>4. QED BY <1>2, <2>1, <2>2, <2>3, RowsAdded
  <1>3. ASSUME NEW t \in Companies, NEW a \in Written, NEW b \in Written, Room(2),
               Insert(SetToBag({Row(t, a, t)}) (+) SetToBag({Row(t, b, t)})), UNCHANGED visit
        PROVE  /\ EventsInv'
               /\ BagToSet(events) \subseteq BagToSet(events')
               /\ \A x \in BagToSet(events) : events[x] <= events'[x]
               /\ visit' = visit
    <2>1. PICK A : A = SetToBag({Row(t, a, t)})
      OBVIOUS
    <2>2. PICK B : B = SetToBag({Row(t, b, t)})
      OBVIOUS
    <2>3. /\ IsABag(A) /\ IsFiniteSet(BagToSet(A)) /\ BagToSet(A) = {Row(t, a, t)} /\ BagCardinality(A) = 1
          /\ IsABag(B) /\ IsFiniteSet(BagToSet(B)) /\ BagToSet(B) = {Row(t, b, t)} /\ BagCardinality(B) = 1
      BY <2>1, <2>2, BagOfOne
    <2>4. PICK R : R = A (+) B
      OBVIOUS
    <2>5. /\ IsABag(R) /\ IsFiniteSet(BagToSet(R)) /\ BagToSet(R) = {Row(t, a, t), Row(t, b, t)}
          /\ BagCardinality(R) = 2
      <3>1. /\ IsABag(R) /\ IsFiniteSet(BagToSet(R)) /\ BagToSet(R) = BagToSet(A) \union BagToSet(B)
            /\ BagCardinality(R) = BagCardinality(A) + BagCardinality(B)
        BY <2>3, <2>4, BagsTogether
      <3>2. QED BY <2>3, <3>1
    <2>6. BagToSet(R) \subseteq Event /\ \A x \in BagToSet(R) : x.sender \in {x.tenant, Nobody}
      BY <2>5, RowIsEvent
    <2>7. QED BY <1>3, <2>1, <2>2, <2>4, <2>5, <2>6, RowsAdded
  <1>4. ASSUME NEW t \in Companies, Capture(t) \/ CaptureBatch(t)
        PROVE  /\ EventsInv'
               /\ BagToSet(events) \subseteq BagToSet(events')
               /\ \A x \in BagToSet(events) : events[x] <= events'[x]
               /\ visit' = visit
    BY <1>2, <1>3, <1>4 DEF Capture, CaptureBatch, TrackedFor
  <1>5. CASE InternalTrack
    BY <1>2, <1>5 DEF InternalTrack
  <1>6. ASSUME NEW t \in Companies, StartActivity(t) \/ StartFunnel(t) PROVE UNCHANGED events
    BY <1>6 DEF StartActivity, StartFunnel
  <1>7. Summarize \/ CountKinds \/ FunnelStep \/ EndVisit => UNCHANGED events
    BY DEF Summarize, CountKinds, FunnelStep, EndVisit
  <1>8. QED
    BY <1>1, <1>4, <1>5, <1>6, <1>7 DEF AnalyticsNext, analyticsVars

\* What is counted for each value of a key comes to the count of the whole.
LEMMA KeysAdd ==
  ASSUME EventsInv, NEW S \in SUBSET BagToSet(events), NEW key, NEW w,
         DOMAIN w = {key[e] : e \in S}, \A k \in DOMAIN w : w[k] = Count({e \in S : key[e] = k})
  PROVE  /\ Total(w) = Count(S)
         /\ IsFiniteSet(DOMAIN w) /\ \A k \in DOMAIN w : w[k] \in Int
  <1>1. IsFiniteSet(S) /\ \A e \in S : events[e] \in Int
    BY CountOfSome
  <1>2. PICK K : K = DOMAIN w
    OBVIOUS
  <1>3. IsFiniteSet(K) /\ {e \in S : key[e] \in K} = S
    BY <1>1, <1>2, ImageFinite
  <1>4. \A k \in K : w[k] = SumOver(events, {e \in S : key[e] = k})
    BY <1>2, CountIs
  <1>5. SumOver(w, K) = SumOver(events, {e \in S : key[e] \in K}) /\ \A k \in K : w[k] \in Int
    BY <1>1, <1>3, <1>4, SumByKey
  <1>6. QED BY <1>2, <1>3, <1>5, TotalIs, CountIs

\* Each event of some has one kind.
LEMMA DistributionAdds ==
  ASSUME EventsInv, NEW S \in SUBSET BagToSet(events)
  PROVE  Total(Distribution(S)) = Count(S)
  <1> DEFINE kinds == [e \in S |-> e.kind]
  <1>1. PICK w : w = Distribution(S)
    OBVIOUS
  <1>2. DOMAIN w = {kinds[e] : e \in S} /\ \A k \in DOMAIN w : w[k] = Count({e \in S : kinds[e] = k})
    <2>1. {e.kind : e \in S} = {kinds[e] : e \in S} /\ \A k : {e \in S : e.kind = k} = {e \in S : kinds[e] = k}
      OBVIOUS
    <2>2. QED BY <1>1, <2>1 DEF Distribution
  <1> HIDE DEF kinds
  <1>3. QED BY <1>1, <1>2, KeysAdd

\* The count of the events of a user, in the next state.
LEMMA UserCountLater ==
  ASSUME NEW t, NEW u
  PROVE  Count(UserEvents(t, u))' = SumOver(events', UserEvents(t, u)')
  BY DEF Count, SumOver, MapThenSumSet, MapThenFoldSet

\* The count of the user a request is about, before and after a step.
LEMMA VisitCount ==
  /\ \A t, u : Count(UserEvents(t, u)) = SumOver(events, {e \in BagToSet(events) : e.tenant = t /\ e.user = u})
  /\ Count(UserEvents(visit.tenant, visit.user))' =
       SumOver(events', {e \in BagToSet(events') : e.tenant = visit'.tenant /\ e.user = visit'.user})
  <1>1. \A t, u : UserEvents(t, u) = {e \in BagToSet(events) : e.tenant = t /\ e.user = u}
    BY DEF UserEvents, Of
  <1>2. UserEvents(visit.tenant, visit.user)' =
          {e \in BagToSet(events') : e.tenant = visit'.tenant /\ e.user = visit'.user}
    BY DEF UserEvents, Of
  <1>3. Count(UserEvents(visit.tenant, visit.user))' = SumOver(events', UserEvents(visit.tenant, visit.user)')
    BY DEF Count, SumOver, MapThenSumSet, MapThenFoldSet
  <1>4. QED BY <1>1, <1>2, <1>3, CountIs

\* What is counted of a user only grows.
LEMMA UserCountGrows ==
  ASSUME EventsInv, EventsInv', BagToSet(events) \subseteq BagToSet(events'),
         \A e \in BagToSet(events) : events[e] <= events'[e], NEW t, NEW u
  PROVE  /\ Count(UserEvents(t, u)) \in Nat /\ Count(UserEvents(t, u))' \in Nat
         /\ Count(UserEvents(t, u)) <= Count(UserEvents(t, u))'
  <1>1. PICK S : S = UserEvents(t, u)
    OBVIOUS
  <1>2. PICK T : T = UserEvents(t, u)'
    OBVIOUS
  <1>3. S \in SUBSET BagToSet(events) /\ T \in SUBSET BagToSet(events') /\ S \in SUBSET T
    BY <1>1, <1>2 DEF UserEvents, Of
  <1>4. /\ IsFiniteSet(S) /\ (\A e \in S : events[e] \in Nat)
        /\ IsFiniteSet(T) /\ (\A e \in T : events'[e] \in Nat)
    BY <1>3, FS_Subset DEF EventsInv, IsABag, BagToSet
  <1>5. SumOver(events, S) <= SumOver(events', S)
    BY <1>3, <1>4, SumAtMost
  <1>6. SumOver(events', S) <= SumOver(events', T) /\ SumOver(events', S) \in Nat
    BY <1>3, <1>4, SumOfPart
  <1>7. SumOver(events, S) \in Nat /\ SumOver(events', T) \in Nat
    BY <1>4, SumOfPart, S \in SUBSET S, T \in SUBSET T
  <1>8. Count(UserEvents(t, u)) = SumOver(events, S) /\ Count(UserEvents(t, u))' = SumOver(events', T)
    BY <1>1, <1>2, CountIs, UserCountLater
  <1>9. QED BY <1>5, <1>6, <1>7, <1>8

\* Every step keeps what a request has counted between before and now.
LEMMA VisitStep == EventsInv /\ VisitInv /\ [AnalyticsNext]_analyticsVars => VisitInv'
  <1> SUFFICES ASSUME EventsInv, VisitInv, [AnalyticsNext]_analyticsVars PROVE VisitInv'
    OBVIOUS
  <1>0. /\ EventsInv' /\ BagToSet(events) \subseteq BagToSet(events')
        /\ \A e \in BagToSet(events) : events[e] <= events'[e]
        /\ events' = events \/ visit' = visit
    BY EventsStep
  <1>00. \A t, u : /\ Count(UserEvents(t, u)) \in Nat /\ Count(UserEvents(t, u))' \in Nat
                   /\ Count(UserEvents(t, u)) <= Count(UserEvents(t, u))'
    BY <1>0, UserCountGrows
  <1>000. events' = events => \A t, u : Count(UserEvents(t, u))' = Count(UserEvents(t, u))
    <2> SUFFICES ASSUME events' = events, NEW t, NEW u
                 PROVE  Count(UserEvents(t, u))' = Count(UserEvents(t, u))
      OBVIOUS
    <2>1. UserEvents(t, u)' = UserEvents(t, u)
      BY DEF UserEvents, Of
    <2>2. QED BY <2>1, CountIs, UserCountLater
  <1>1. CASE UNCHANGED visit
    <2>1. CASE visit.pc = "activity"
      <3>1. PICK v : v = visit
        OBVIOUS
      <3>2. PICK m : m = Count(UserEvents(v.tenant, v.user))
        OBVIOUS
      <3>3. PICK n : n = Count(UserEvents(v.tenant, v.user))'
        OBVIOUS
      <3>4. visit' = v /\ m \in Nat /\ n \in Nat /\ m <= n
        BY <1>1, <1>00, <3>1, <3>2, <3>3
      <3>5. /\ v.before \in Int /\ v.before <= m
            /\ v.total # -1 => v.total \in Int /\ v.before <= v.total /\ v.total <= m
            /\ v.kinds # -1 => v.kinds \in Int /\ v.before <= v.kinds /\ v.kinds <= m
            /\ v = [pc |-> "activity", tenant |-> v.tenant, user |-> v.user, before |-> v.before,
                    total |-> v.total, kinds |-> v.kinds]
        BY <2>1, <3>1, <3>2 DEF VisitInv, Between
      <3>6. /\ v.before <= n
            /\ v.total # -1 => v.total \in Int /\ v.before <= v.total /\ v.total <= n
            /\ v.kinds # -1 => v.kinds \in Int /\ v.before <= v.kinds /\ v.kinds <= n
        BY <3>4, <3>5
      <3>7. n = Count(UserEvents(visit.tenant, visit.user))'
        <4>1. visit'.tenant = v.tenant /\ visit'.user = v.user
          BY <3>4
        <4>2. n = SumOver(events', UserEvents(v.tenant, v.user)')
          BY <3>3, UserCountLater
        <4>3. UserEvents(v.tenant, v.user)' = {e \in BagToSet(events') : e.tenant = v.tenant /\ e.user = v.user}
          BY DEF UserEvents, Of
        <4>4. QED BY <4>1, <4>2, <4>3, VisitCount
      <3>8. Between(visit.total)' /\ Between(visit.kinds)'
        BY <3>4, <3>6, <3>7 DEF Between
      <3>9. QED BY <2>1, <3>1, <3>4, <3>5, <3>6, <3>7, <3>8 DEF VisitInv
    <2>2. CASE visit.pc # "activity"
      BY <1>1, <2>2 DEF VisitInv
    <2>3. QED BY <2>1, <2>2
  <1>2. ASSUME NEW t \in Companies, StartActivity(t) PROVE VisitInv'
    <2>1. PICK u \in Users : visit' = [pc |-> "activity", tenant |-> t, user |-> u, before |-> Count(UserEvents(t, u)),
                                       total |-> -1, kinds |-> -1]
      BY <1>2 DEF StartActivity
    <2>2. UNCHANGED events
      BY <1>2 DEF StartActivity
    <2>3. PICK n \in Nat : n = Count(UserEvents(t, u))
      BY <1>00
    <2>4. Count(UserEvents(visit.tenant, visit.user))' = n
      <3>1. visit'.tenant = t /\ visit'.user = u
        BY <2>1
      <3>2. QED BY <2>2, <2>3, <3>1, VisitCount
    <2>5. visit' = [pc |-> "activity", tenant |-> t, user |-> u, before |-> n, total |-> -1, kinds |-> -1]
      BY <2>1, <2>3
    <2>6. Between(visit.total)' /\ Between(visit.kinds)'
      BY <2>5 DEF Between
    <2>7. QED BY <2>3, <2>4, <2>5, <2>6 DEF VisitInv
  <1>3. ASSUME NEW f \in {"total", "kinds"}, NEW n, UNCHANGED events, visit.pc = "activity",
               n = Count(UserEvents(visit.tenant, visit.user)), visit' = [visit EXCEPT ![f] = n]
        PROVE  VisitInv'
    <2>1. PICK v : v = visit
      OBVIOUS
    <2>2. PICK w : w = [v EXCEPT ![f] = n]
      OBVIOUS
    <2>3. /\ v = [pc |-> "activity", tenant |-> v.tenant, user |-> v.user, before |-> v.before,
                  total |-> v.total, kinds |-> v.kinds]
          /\ v.before \in Int /\ v.before <= n /\ n \in Nat
          /\ v.total # -1 => v.total \in Int /\ v.before <= v.total /\ v.total <= n
          /\ v.kinds # -1 => v.kinds \in Int /\ v.before <= v.kinds /\ v.kinds <= n
      BY <1>00, <1>3, <2>1 DEF VisitInv, Between
    <2>4. /\ w = [pc |-> "activity", tenant |-> v.tenant, user |-> v.user, before |-> v.before,
                  total |-> w.total, kinds |-> w.kinds]
          /\ w.total \in {v.total, n} /\ w.kinds \in {v.kinds, n}
      <3>1. CASE f = "total"
        <4>1. w = [v EXCEPT !.total = n]
          BY <2>2, <3>1
        <4>2. w = [pc |-> "activity", tenant |-> v.tenant, user |-> v.user, before |-> v.before,
                   total |-> n, kinds |-> v.kinds]
          BY <2>3, <4>1
        <4>3. QED BY <4>2
      <3>2. CASE f = "kinds"
        <4>1. w = [v EXCEPT !.kinds = n]
          BY <2>2, <3>2
        <4>2. w = [pc |-> "activity", tenant |-> v.tenant, user |-> v.user, before |-> v.before,
                   total |-> v.total, kinds |-> n]
          BY <2>3, <4>1
        <4>3. QED BY <4>2
      <3>3. QED BY <3>1, <3>2
    <2>5. /\ w.pc = "activity" /\ w.tenant = v.tenant /\ w.user = v.user /\ w.before = v.before
          /\ w = [pc |-> "activity", tenant |-> w.tenant, user |-> w.user, before |-> w.before,
                  total |-> w.total, kinds |-> w.kinds]
      BY <2>4
    <2>6. /\ w.before \in Int /\ w.before <= n
          /\ w.total # -1 => w.total \in Int /\ w.before <= w.total /\ w.total <= n
          /\ w.kinds # -1 => w.kinds \in Int /\ w.before <= w.kinds /\ w.kinds <= n
      BY <2>3, <2>4, <2>5
    <2>7. visit' = w /\ Count(UserEvents(visit.tenant, visit.user))' = n
      <3>1. visit' = w
        BY <1>3, <2>1, <2>2
      <3>2. Count(UserEvents(w.tenant, w.user)) = n
        BY <1>3, <2>1, <2>5
      <3>3. Count(UserEvents(visit.tenant, visit.user))' = Count(UserEvents(w.tenant, w.user))
        <4>1. visit'.tenant = w.tenant /\ visit'.user = w.user
          BY <3>1
        <4>2. BagToSet(events') = BagToSet(events) /\ events' = events
          BY <1>3
        <4>3. {e \in BagToSet(events') : e.tenant = visit'.tenant /\ e.user = visit'.user}
                = {e \in BagToSet(events) : e.tenant = w.tenant /\ e.user = w.user}
          BY <4>1, <4>2
        <4>4. QED BY <4>2, <4>3, VisitCount
      <3>4. QED BY <3>1, <3>2, <3>3
    <2>8. Between(visit.total)' /\ Between(visit.kinds)'
      BY <2>6, <2>7 DEF Between
    <2>9. QED BY <2>5, <2>6, <2>7, <2>8 DEF VisitInv
  <1>4. CASE Summarize
    <2>1. Summary(visit.tenant, visit.user) = Count(UserEvents(visit.tenant, visit.user))
      BY DEF Summary
    <2>2. QED BY <1>3, <1>4, <2>1 DEF Summarize
  <1>5. CASE CountKinds
    <2>1. UserEvents(visit.tenant, visit.user) \in SUBSET BagToSet(events)
      BY DEF UserEvents, Of
    <2>2. Total(Distribution(UserEvents(visit.tenant, visit.user))) = Count(UserEvents(visit.tenant, visit.user))
      BY <2>1, DistributionAdds
    <2>3. QED BY <1>3, <1>5, <2>2 DEF CountKinds
  <1>6. ASSUME visit'.pc \in {"idle", "funnel"} PROVE VisitInv'
    BY <1>6 DEF VisitInv
  <1>7. ASSUME NEW t \in Companies, StartFunnel(t) PROVE VisitInv'
    BY <1>6, <1>7 DEF StartFunnel
  <1>8. CASE FunnelStep
    <2>1. visit.pc = "funnel" /\ \E r : visit' = [visit EXCEPT !.rate = r]
      BY <1>8 DEF FunnelStep
    <2>2. visit'.pc = "funnel"
      BY <2>1
    <2>3. QED BY <1>6, <2>2
  <1>9. CASE EndVisit
    BY <1>6, <1>9 DEF EndVisit, Still
  <1>10. QED
    BY <1>1, <1>2, <1>4, <1>5, <1>7, <1>8, <1>9 DEF AnalyticsNext, analyticsVars, Capture, CaptureBatch, InternalTrack

\* The day of an event is a day.
LEMMA DaysOfEvents ==
  ASSUME EventsInv, NEW e \in BagToSet(events)
  PROVE  e.day \in Days /\ e.day \in Int
  BY AnalyticsAssumption DEF EventsInv, Event

\* The days of some time that have events, and what they have.
LEMMA PerDay ==
  ASSUME EventsInv, NEW t, NEW from \in Int, NEW to \in Int
  PROVE  /\ Within(Of(t), from, to) \in SUBSET BagToSet(events)
         /\ Total(EventsPerDay(t, from, to)) = Count(Within(Of(t), from, to))
         /\ DOMAIN EventsPerDay(t, from, to) \subseteq from..to
         /\ \A d \in DOMAIN EventsPerDay(t, from, to) : EventsPerDay(t, from, to)[d] \in Int
  <1> DEFINE S == Within(Of(t), from, to)
             days == [e \in S |-> e.day]
  <1>1. S \in SUBSET BagToSet(events)
    BY DEF Within, Of
  <1>2. PICK w : w = EventsPerDay(t, from, to)
    OBVIOUS
  <1>3. DOMAIN w = {days[e] : e \in S} /\ \A d \in DOMAIN w : w[d] = Count({e \in S : days[e] = d})
    <2>1. {e.day : e \in S} = {days[e] : e \in S} /\ \A d : {e \in S : e.day = d} = {e \in S : days[e] = d}
      OBVIOUS
    <2>2. QED BY <1>2, <2>1 DEF EventsPerDay
  <1>4. DOMAIN w \subseteq from..to
    <2>1. \A e \in S : from <= e.day /\ e.day <= to /\ e.day \in Int
      BY <1>1, DaysOfEvents DEF Within
    <2>2. \A e \in S : e.day \in from..to
      BY <2>1
    <2>3. QED BY <1>3, <2>2
  <1> HIDE DEF days, S
  <1>5. Total(w) = Count(S) /\ \A d \in DOMAIN w : w[d] \in Int
    BY <1>1, <1>3, KeysAdd
  <1>6. QED BY <1>1, <1>2, <1>4, <1>5 DEF S

\* Days without events add nothing.
LEMMA GapsFilled ==
  ASSUME NEW from \in Int, NEW to \in Int, NEW w, DOMAIN w \subseteq from..to, \A d \in DOMAIN w : w[d] \in Int
  PROVE  Total(Filled(w, from..to)) = Total(w)
  <1>1. PICK I : I = from..to
    OBVIOUS
  <1>2. IsFiniteSet(I)
    BY <1>1, FS_Interval
  <1>3. PICK h : h = Filled(w, I)
    OBVIOUS
  <1>4. DOMAIN h = I /\ \A d \in I : h[d] = IF d \in DOMAIN w THEN w[d] ELSE 0
    BY <1>3 DEF Filled
  <1>5. SumOver(h, I) = SumOver(w, DOMAIN w)
    <2>1. PICK T \in SUBSET I : T = DOMAIN w
      BY <1>1
    <2>2. QED BY <1>2, <1>4, <2>1, SumFilled
  <1>6. QED BY <1>1, <1>3, <1>4, <1>5, TotalIs

\* Nobody is active without an event, and who has an event is active on its day.
LEMMA ActiveUsers ==
  ASSUME EventsInv, NEW t, NEW from \in Int, NEW to \in Int
  PROVE  /\ Total(ActivePerDay(t, from, to)) <= Count(Known(Within(Of(t), from, to)))
         /\ Cardinality(UsersOf(Within(Of(t), from, to))) <= Total(ActivePerDay(t, from, to))
  <1> DEFINE all == Within(Of(t), from, to)
             S == Known(all)
             days == [e \in S |-> e.day]
             users == [e \in S |-> e.user]
             D == {days[e] : e \in S}
             OnDay(d) == {e \in S : days[e] = d}
             U == [d \in D |-> {users[e] : e \in OnDay(d)}]
             c == [d \in D |-> Count(OnDay(d))]
  <1>1. S \in SUBSET BagToSet(events) /\ all \in SUBSET BagToSet(events)
    BY DEF Within, Of, Known
  <1>2. PICK a : a = ActivePerDay(t, from, to)
    OBVIOUS
  <1>3. DOMAIN a = D /\ \A d \in D : a[d] = Cardinality(U[d])
    <2>1. {e.day : e \in S} = D
      OBVIOUS
    <2>2. \A d \in D : UsersOf({e \in all : e.day = d}) = U[d]
      BY DEF UsersOf, Known
    <2>3. QED BY <1>2, <2>1, <2>2 DEF ActivePerDay
  <1>4. IsFiniteSet(S) /\ IsFiniteSet(D)
    <2>1. IsFiniteSet(S)
      BY <1>1, CountOfSome
    <2> HIDE DEF S, days
    <2>2. QED BY <2>1, ImageFinite
  <1>5. \A d \in D : OnDay(d) \in SUBSET BagToSet(events)
    BY <1>1
  <1>6. UNION {U[d] : d \in D} = UsersOf(all)
    <2>1. UsersOf(all) = {users[e] : e \in S}
      BY DEF UsersOf
    <2>2. ASSUME NEW u \in {users[e] : e \in S} PROVE \E d \in D : u \in U[d]
      <3>1. PICK e \in S : u = users[e]
        BY <2>2
      <3>2. days[e] \in D /\ e \in OnDay(days[e])
        OBVIOUS
      <3>3. QED BY <3>1, <3>2
    <2>3. ASSUME NEW d \in D, NEW u \in U[d] PROVE u \in {users[e] : e \in S}
      OBVIOUS
    <2>4. UNION {U[d] : d \in D} = {users[e] : e \in S}
      <3> HIDE DEF U, D, users
      <3>1. QED BY <2>2, <2>3
    <2>5. QED BY <2>1, <2>4
  <1> HIDE DEF all, S
  <1>7. ASSUME NEW d \in D
        PROVE  /\ IsFiniteSet(U[d]) /\ a[d] \in Int /\ c[d] \in Int /\ a[d] <= c[d]
               /\ c[d] = Count({e \in S : days[e] = d})
    <2>1. PICK T \in SUBSET BagToSet(events) : T = OnDay(d)
      BY <1>5
    <2>2. IsFiniteSet(T) /\ (\A e \in T : events[e] \in Int /\ events[e] >= 1) /\ Count(T) \in Nat
      BY CountOfSome
    <2>3. U[d] = {users[e] : e \in T} /\ c[d] = Count(T) /\ a[d] = Cardinality(U[d])
      BY <1>3, <2>1
    <2> HIDE DEF U, c, users, D
    <2>4. IsFiniteSet(U[d]) /\ Cardinality(U[d]) <= Cardinality(T)
      BY <2>2, <2>3, ImageFinite
    <2>5. Cardinality(T) <= Count(T)
      BY <2>2, SumOfOnes, CountIs
    <2>6. Cardinality(U[d]) \in Nat /\ Cardinality(T) \in Nat
      BY <2>2, <2>4, FS_CardinalityType
    <2>7. a[d] <= c[d] /\ a[d] \in Int /\ c[d] \in Int
      BY <2>2, <2>3, <2>4, <2>5, <2>6
    <2>8. QED BY <2>1, <2>3, <2>4, <2>7
  <1>8. DOMAIN c = D
    OBVIOUS
  <1> HIDE DEF c, U, OnDay, users
  <1>9. Total(c) = Count(S)
    <2>1. DOMAIN c = {days[e] : e \in S}
      BY <1>8
    <2> HIDE DEF days, D
    <2>2. \A k \in DOMAIN c : c[k] = Count({e \in S : days[e] = k})
      BY <1>7, <1>8
    <2>3. QED BY <1>1, <2>1, <2>2, KeysAdd
  <1> HIDE DEF D, days
  <1>10. SumOver(a, D) <= SumOver(c, D)
    BY <1>4, <1>7, SumAtMost
  <1>11. Cardinality(UNION {U[d] : d \in D}) <= SumOver(a, D)
    BY <1>3, <1>4, <1>7, SizeOfUnion
  <1>12. QED BY <1>2, <1>3, <1>6, <1>8, <1>9, <1>10, <1>11, TotalIs DEF S, all

\* A finite set of integers that is not empty has a greatest.
LEMMA GreatestThere ==
  ASSUME NEW S, IsFiniteSet(S), S \subseteq Int, S # {}
  PROVE  \E x \in S : \A y \in S : x >= y
  <1> DEFINE Q == {T \in SUBSET S : T # {} => \E x \in T : \A y \in T : x >= y}
  <1>1. {} \in Q
    OBVIOUS
  <1>2. \A T \in SUBSET S : \A x \in S \ T : T \in Q => T \union {x} \in Q
    <2> SUFFICES ASSUME NEW T \in SUBSET S, NEW x \in S \ T, T \in Q
                 PROVE  \E z \in T \union {x} : \A y \in T \union {x} : z >= y
      OBVIOUS
    <2>0. x \in Int /\ \A y \in T : y \in Int
      OBVIOUS
    <2>1. CASE T = {}
      <3>1. x \in T \union {x} /\ \A y \in T \union {x} : x >= y
        BY <2>0, <2>1
      <3>2. QED BY <3>1
    <2>2. CASE T # {}
      <3>1. PICK z \in T : \A y \in T : z >= y
        BY <2>2
      <3>2. CASE z >= x
        <4>1. z \in T \union {x} /\ \A y \in T \union {x} : z >= y
          BY <3>1, <3>2
        <4>2. QED BY <4>1
      <3>3. CASE x > z
        <4>1. x \in T \union {x} /\ \A y \in T \union {x} : x >= y
          BY <2>0, <3>1, <3>3
        <4>2. QED BY <4>1
      <3>4. QED BY <2>0, <3>2, <3>3
    <2>3. QED BY <2>1, <2>2
  <1> HIDE DEF Q
  <1>3. S \in Q
    BY <1>1, <1>2, SetsAll
  <1>4. QED BY <1>3 DEF Q

\* What is recent is what the days since then have.
LEMMA RecentDays ==
  ASSUME EventsInv, NEW t, NEW from \in Days
  PROVE  Realtime(t, from) = Total(EventsPerDay(t, from, Max(Days)))
  <1>1. PICK last \in Days : last = Max(Days) /\ \A d \in Days : d <= last
    <2>1. IsFiniteSet(Days) /\ Days \subseteq Int /\ Days # {}
      BY AnalyticsAssumption
    <2>2. \E x \in Days : \A y \in Days : x >= y
      BY <2>1, GreatestThere
    <2>3. Max(Days) \in Days /\ \A y \in Days : Max(Days) >= y
      BY <2>2 DEF Max
    <2>4. QED BY <2>1, <2>3
  <1>2. from \in Int /\ last \in Int
    BY AnalyticsAssumption
  <1>3. {e \in Of(t) : from <= e.day} = Within(Of(t), from, last)
    <2>1. \A e \in Of(t) : e.day \in Days
      BY DaysOfEvents DEF Of
    <2>2. QED BY <1>1, <2>1 DEF Within
  <1>4. Realtime(t, from) = Count(Within(Of(t), from, last))
    BY <1>3 DEF Realtime
  <1>5. QED BY <1>1, <1>2, <1>4, PerDay

\* What a list of top resources leaves out.
LEMMA TopLeavesOut ==
  ASSUME EventsInv, NEW S \in SUBSET BagToSet(events), NEW limit \in Int, NEW top \in TopResources(S, limit)
  PROVE  LET rest == Count(S) - Total([x \in top |-> CountOf(S, x)])
         IN rest >= CountOf(S, Nobody) /\ (Cardinality(top) < limit => rest = CountOf(S, Nobody))
  <1> DEFINE things == [e \in S |-> e.thing]
             named == {e.thing : e \in S} \ {Nobody}
             InTop == {e \in S : things[e] \in top}
             LeftOut == {e \in S : things[e] \notin top}
             Unnamed == {e \in S : things[e] = Nobody}
  <1>1. /\ IsFiniteSet(S) /\ (\A e \in S : events[e] \in Nat)
        /\ \A e \in S : events[e] \in Int
    BY CountOfSome
  <1>2. top \in SUBSET named /\ Cardinality(top) = Min({limit, Cardinality(named)})
    BY DEF TopResources
  <1>3. IsFiniteSet(named) /\ IsFiniteSet(top) /\ Cardinality(named) \in Nat
    <2>1. {e.thing : e \in S} = {things[e] : e \in S}
      OBVIOUS
    <2>2. PICK N : N = {things[e] : e \in S}
      OBVIOUS
    <2>3. IsFiniteSet(N)
      <3> HIDE DEF things
      <3>1. QED BY <1>1, <2>2, ImageFinite
    <2>4. named \subseteq N
      BY <2>1, <2>2
    <2> HIDE DEF named
    <2>5. QED BY <1>2, <2>3, <2>4, FS_Subset, FS_CardinalityType
  <1>4. PICK w : w = [x \in top |-> CountOf(S, x)]
    OBVIOUS
  <1>5. DOMAIN w = top /\ \A x \in top : w[x] = SumOver(events, {e \in S : things[e] = x})
    <2>1. \A x : {e \in S : e.thing = x} = {e \in S : things[e] = x}
      OBVIOUS
    <2>2. QED BY <1>4, <2>1, CountIs DEF CountOf
  <1>6. CountOf(S, Nobody) = SumOver(events, Unnamed)
    <2>1. {e \in S : e.thing = Nobody} = Unnamed
      OBVIOUS
    <2>2. QED BY <2>1, CountIs DEF CountOf
  <1>7. S = InTop \union LeftOut /\ InTop \intersect LeftOut = {} /\ Unnamed \in SUBSET LeftOut /\ InTop \in SUBSET S /\ LeftOut \in SUBSET S
    BY <1>2
  <1>8. Cardinality(top) < limit => LeftOut = Unnamed
    <2> SUFFICES ASSUME Cardinality(top) < limit PROVE LeftOut = Unnamed
      OBVIOUS
    <2>1. Cardinality(top) = Cardinality(named)
      <3> HIDE DEF named
      <3>1. QED BY <1>2, <1>3, OfTwo
    <2>2. top = named
      <3> HIDE DEF named
      <3>1. QED BY <1>2, <1>3, <2>1, FS_Subset
    <2>3. QED BY <2>2
  <1> HIDE DEF things, named
  <1>9. SumOver(w, top) = SumOver(events, InTop)
    BY <1>1, <1>3, <1>5, SumByKey
  <1> HIDE DEF InTop, LeftOut, Unnamed
  <1>10. IsFiniteSet(InTop) /\ IsFiniteSet(LeftOut)
    BY <1>1, <1>7, FS_Subset
  <1>11. SumOver(events, S) = SumOver(events, InTop) + SumOver(events, LeftOut)
    BY <1>1, <1>7, <1>10, SumOfBoth
  <1>12. SumOver(events, Unnamed) <= SumOver(events, LeftOut) /\ SumOver(events, Unnamed) \in Nat
    BY <1>1, <1>7, <1>10, SumOfPart
  <1>13. SumOver(events, InTop) \in Int /\ SumOver(events, LeftOut) \in Int
    BY <1>1, <1>7, <1>10, SumInt
  <1>14. Total(w) = SumOver(events, InTop) /\ Count(S) = SumOver(events, S)
    BY <1>5, <1>9, TotalIs, CountIs
  <1>15. Count(S) - Total(w) = SumOver(events, LeftOut)
    BY <1>11, <1>13, <1>14
  <1>16. Count(S) - Total(w) >= CountOf(S, Nobody)
         /\ (Cardinality(top) < limit => Count(S) - Total(w) = CountOf(S, Nobody))
    BY <1>6, <1>8, <1>12, <1>13, <1>15
  <1>17. QED BY <1>4, <1>16

\* The limit of the top resources is a number, whatever a client sends.
LEMMA TopLimitIs ==
  ASSUME NEW n \in Int
  PROVE  TopLimit(n) \in Int
  <1>1. Max({n, 1}) \in Int
    BY OfTwo, 1 \in Int
  <1>2. Min({Max({n, 1}), 100}) \in Int
    BY <1>1, OfTwo, 100 \in Int
  <1>3. QED BY <1>2 DEF TopLimit

\* The statistics of one moment add up to the same events.
LEMMA SumsAgreeThen == EventsInv => SumsAgree
  <1> SUFFICES ASSUME EventsInv, NEW t \in Companies, NEW from \in Days, NEW to \in Days
      PROVE  LET all == Within(Of(t), from, to)
             IN /\ Total(EventsPerDay(t, from, to)) = Count(all)
                /\ Total(Filled(EventsPerDay(t, from, to), from..to)) = Total(Distribution(all))
                /\ Total(ActivePerDay(t, from, to)) <= Count(Known(all))
                /\ Cardinality(UsersOf(all)) <= Total(ActivePerDay(t, from, to))
                /\ Realtime(t, from) = Total(EventsPerDay(t, from, Max(Days)))
                /\ \A n \in Limits : \A top \in TopResources(all, TopLimit(n)) :
                     LET rest == Count(all) - Total([x \in top |-> CountOf(all, x)])
                     IN rest >= CountOf(all, Nobody)
                        /\ (Cardinality(top) < TopLimit(n) => rest = CountOf(all, Nobody))
    BY DEF SumsAgree
  <1>1. from \in Int /\ to \in Int
    BY AnalyticsAssumption
  <1>2. PICK all : all = Within(Of(t), from, to)
    OBVIOUS
  <1>3. /\ all \in SUBSET BagToSet(events) /\ Total(EventsPerDay(t, from, to)) = Count(all)
        /\ Total(Filled(EventsPerDay(t, from, to), from..to)) = Count(all)
    BY <1>1, <1>2, PerDay, GapsFilled
  <1>4. Total(Distribution(all)) = Count(all)
    BY <1>3, DistributionAdds
  <1>5. /\ Total(ActivePerDay(t, from, to)) <= Count(Known(all))
        /\ Cardinality(UsersOf(all)) <= Total(ActivePerDay(t, from, to))
    BY <1>1, <1>2, ActiveUsers
  <1>6. Realtime(t, from) = Total(EventsPerDay(t, from, Max(Days)))
    BY RecentDays
  <1>7. ASSUME NEW n \in Limits, NEW top \in TopResources(all, TopLimit(n))
        PROVE  LET rest == Count(all) - Total([x \in top |-> CountOf(all, x)])
               IN rest >= CountOf(all, Nobody) /\ (Cardinality(top) < TopLimit(n) => rest = CountOf(all, Nobody))
    <2>1. TopLimit(n) \in Int
      BY AnalyticsAssumption, TopLimitIs
    <2>2. QED BY <1>3, <2>1, TopLeavesOut
  <1>8. QED BY <1>2, <1>3, <1>4, <1>5, <1>6, <1>7

\* AnalyticsAnswers: what analytics.service.ts answers about events, each of the
\* tenant that sent it: sums that agree, and numbers about a user that lie between
\* what was stored when the request came and what is stored now.
THEOREM AnalyticsAnswersCorrect == AnalyticsSpec => []AnalyticsAnswers
  <1>1. AnalyticsInit => EventsInv /\ VisitInv
    <2>1. AnalyticsInit => EventsInv
      BY BagOfNone, AnalyticsAssumption DEF AnalyticsInit, EventsInv, EventsOwned
    <2>2. AnalyticsInit => VisitInv
      BY DEF AnalyticsInit, VisitInv, Still
    <2>3. QED BY <2>1, <2>2
  <1>2. EventsInv /\ VisitInv => AnalyticsAnswers
    <2>1. EventsInv => EventsOwned /\ SumsAgree
      BY SumsAgreeThen DEF EventsInv
    <2>2. VisitInv => ActivityBetween
      BY DEF VisitInv, Between, ActivityBetween
    <2>3. QED BY <2>1, <2>2 DEF AnalyticsAnswers
  <1>3. EventsInv /\ [AnalyticsNext]_analyticsVars => EventsInv'
    BY EventsStep
  <1>4. QED BY <1>1, <1>2, <1>3, VisitStep, PTL DEF AnalyticsSpec

\* The table of events is a finite bag of them, within its bound.
THEOREM AnalyticsTypeCorrect == AnalyticsSpec => []AnalyticsTypeOK
  <1>1. AnalyticsInit => EventsInv /\ VisitInv
    <2>1. AnalyticsInit => EventsInv
      BY BagOfNone, AnalyticsAssumption DEF AnalyticsInit, EventsInv, EventsOwned
    <2>2. AnalyticsInit => VisitInv
      BY DEF AnalyticsInit, VisitInv, Still
    <2>3. QED BY <2>1, <2>2
  <1>2. EventsInv /\ VisitInv => AnalyticsTypeOK
    BY DEF EventsInv, VisitInv, AnalyticsTypeOK
  <1>3. EventsInv /\ [AnalyticsNext]_analyticsVars => EventsInv'
    BY EventsStep
  <1>4. QED BY <1>1, <1>2, <1>3, VisitStep, PTL DEF AnalyticsSpec

-----------------------------------------------------------------------------
(* The list of projects: places *)

\* The place of x in S from its greatest number down, and the number at a place.
PlaceIn(S, x) == Cardinality({y \in S : y >= x})
AtPlace(S, k) == CHOOSE x \in S : PlaceIn(S, x) = k

\* Each place of a finite set has one number.
LEMMA PlaceOf ==
  ASSUME NEW S \in SUBSET Nat, IsFiniteSet(S), NEW k \in 1..Cardinality(S)
  PROVE  /\ AtPlace(S, k) \in S /\ PlaceIn(S, AtPlace(S, k)) = k
         /\ \A x \in S : PlaceIn(S, x) = k => x = AtPlace(S, k)
  <1>1. AtPlace(S, k) \in S /\ PlaceIn(S, AtPlace(S, k)) = k
    BY PlacesTaken DEF PlaceIn, AtPlace
  <1>2. ASSUME NEW x \in S, NEW y \in S, x < y PROVE PlaceIn(S, x) # PlaceIn(S, y)
    <2> DEFINE X == {z \in S : z >= x}
               Y == {z \in S : z >= y}
    <2>1. IsFiniteSet(X)
      BY FS_Subset
    <2>2. Y \in SUBSET X /\ x \in X /\ x \notin Y
      <3>1. x \in Int /\ y \in Int /\ \A z \in S : z \in Int
        OBVIOUS
      <3>2. x >= x /\ ~(x >= y) /\ \A z \in S : z >= y => z >= x
        BY <1>2, <3>1
      <3>3. QED BY <3>2
    <2>3. Cardinality(X) # Cardinality(Y)
      BY <2>1, <2>2, FS_Subset
    <2>4. QED BY <2>3 DEF PlaceIn
  <1>3. ASSUME NEW x \in S, PlaceIn(S, x) = k PROVE x = AtPlace(S, k)
    <2>1. x \in Nat /\ AtPlace(S, k) \in Nat
      BY <1>1
    <2>2. ~(x < AtPlace(S, k)) /\ ~(AtPlace(S, k) < x)
      BY <1>1, <1>2, <1>3
    <2>3. QED BY <2>1, <2>2
  <1>4. QED BY <1>1, <1>3

\* A number above all of S comes first, and the others one place later.
LEMMA PlaceAbove ==
  ASSUME NEW S \in SUBSET Nat, IsFiniteSet(S), NEW m \in Nat, \A x \in S : x < m
  PROVE  /\ Cardinality(S \union {m}) = Cardinality(S) + 1 /\ Cardinality(S) \in Nat
         /\ AtPlace(S \union {m}, 1) = m
         /\ \A k \in 1..Cardinality(S) : AtPlace(S \union {m}, k + 1) = AtPlace(S, k)
  <1> DEFINE T == S \union {m}
  <1>1. m \notin S
    OBVIOUS
  <1>2. IsFiniteSet(T) /\ Cardinality(T) = Cardinality(S) + 1 /\ Cardinality(S) \in Nat
    BY <1>1, FS_AddElement, FS_CardinalityType
  <1>3. T \in SUBSET Nat
    OBVIOUS
  <1>4. PlaceIn(T, m) = 1
    <2>1. \A y \in S : y \in Int /\ m \in Int /\ y < m
      OBVIOUS
    <2>2. m >= m /\ \A y \in S : ~(y >= m)
      BY <2>1
    <2>3. {y \in T : y >= m} = {m}
      BY <2>2
    <2>4. QED BY <2>3, FS_Singleton DEF PlaceIn
  <1>5. ASSUME NEW x \in S PROVE PlaceIn(T, x) = PlaceIn(S, x) + 1
    <2> DEFINE X == {y \in S : y >= x}
    <2>1. IsFiniteSet(X) /\ m \notin X
      BY <1>1, FS_Subset
    <2>2. m >= x
      OBVIOUS
    <2>3. {y \in T : y >= x} = X \union {m}
      BY <2>2
    <2> HIDE DEF X
    <2>4. Cardinality(X \union {m}) = Cardinality(X) + 1
      BY <2>1, FS_AddElement
    <2>5. QED BY <2>3, <2>4 DEF PlaceIn, X
  <1> HIDE DEF T
  <1>6. AtPlace(T, 1) = m
    <2>1. 1 \in 1..Cardinality(T) /\ m \in T
      BY <1>2 DEF T
    <2>2. QED BY <1>2, <1>3, <1>4, <2>1, PlaceOf
  <1>7. ASSUME NEW k \in 1..Cardinality(S) PROVE AtPlace(T, k + 1) = AtPlace(S, k)
    <2>1. AtPlace(S, k) \in S /\ PlaceIn(S, AtPlace(S, k)) = k
      BY PlaceOf
    <2>2. PlaceIn(T, AtPlace(S, k)) = k + 1 /\ AtPlace(S, k) \in T
      BY <1>5, <2>1 DEF T
    <2>3. PICK n \in 1..Cardinality(T) : n = k + 1
      BY <1>2
    <2>4. \A x \in T : PlaceIn(T, x) = n => x = AtPlace(T, n)
      BY <1>2, <1>3, PlaceOf
    <2>5. AtPlace(S, k) = AtPlace(T, n)
      BY <2>2, <2>3, <2>4
    <2>6. QED BY <2>3, <2>5
  <1>8. QED BY <1>2, <1>6, <1>7 DEF T

-----------------------------------------------------------------------------
(* The list of projects *)

ProjectRows == [firm : Firms, by : Firms, entry : 0..MaxEntries, stage : Stages \union {"gone"}]
Cards == [id : Nat, stage : Stages \union {"gone"}]
Boards == [view : {"away", "loading", "open"}, rows : Seq(Cards), form : 0..MaxEntries, submitting : BOOLEAN]
Creations ==
  [pc : {"free", "sent", "refused"}, mine : BOOLEAN, entry : 0..MaxEntries]
    \union [pc : {"ok", "refused"}, mine : BOOLEAN, entry : 0..MaxEntries, card : Cards]

\* Rows of tenants, each made by the tenant it belongs to; and what a client that
\* looked at a row knows of it.
RowsInv ==
  /\ project \in Seq(ProjectRows) /\ Len(project) <= MaxProjects
  /\ \A x \in DOMAIN project : project[x].firm = project[x].by /\ project[x].entry <= typed
  /\ editing.pc \in {"idle", "found"}
  /\ editing # NotEditing =>
       /\ editing.id \in DOMAIN project /\ editing.firm \in Firms
       /\ project[editing.id] # Missing => project[editing.id].firm = editing.firm

\* The page awaits one creation at a time, and then its button is disabled.
PageInv ==
  /\ board \in Boards /\ creation \in [ListCalls -> Creations]
  /\ typed \in 0..MaxEntries /\ board.form <= typed /\ unseen \in BOOLEAN
  /\ \A c \in InFlight : creation[c].entry # 0 /\ creation[c].entry <= typed
  /\ \A c \in Expected : board.submitting /\ board.view = "open" /\ \A d \in Expected : d = c

\* A row for n, and a call that may yet make one.
Has(x, n) == project[x].entry = n
AsksFor(c, n) == creation[c].pc = "sent" /\ creation[c].entry = n

\* An entry is stored once or under way once; and while it is in the form, the
\* call that stored it or will store it is awaited.
EntryInv ==
  \A n \in 1..typed : n \notin lost =>
    /\ \A x, y \in DOMAIN project : Has(x, n) /\ Has(y, n) => x = y
    /\ \A c \in ListCalls : AsksFor(c, n) =>
         (\A x \in DOMAIN project : ~Has(x, n)) /\ (\A d \in ListCalls : AsksFor(d, n) => d = c)
    /\ board.form = n =>
         /\ (\E x \in DOMAIN project : Has(x, n)) =>
              \E c \in Expected : creation[c].pc = "ok" /\ creation[c].entry = n
         /\ \A c \in ListCalls : AsksFor(c, n) => c \in Expected

\* The page lists what there is; an answer under way has what is missing.
FreshInv ==
  board.view = "open" /\ ~unseen =>
    /\ (\A c \in Expected : creation[c].pc # "ok") => board.rows = ListProjects(Home)
    /\ \A c \in Expected : creation[c].pc = "ok" => ListProjects(Home) = <<creation[c].card>> \o board.rows

BoardInv == RowsInv /\ PageInv /\ EntryInv /\ FreshInv

\* What the page reads.
LEMMA ExistingFinite ==
  ASSUME RowsInv
  PROVE  Existing(Home) \in SUBSET Nat /\ IsFiniteSet(Existing(Home)) /\ Cardinality(Existing(Home)) \in Nat
  <1>1. DOMAIN project = 1..Len(project) /\ Len(project) \in Nat
    BY DEF RowsInv
  <1>2. IsFiniteSet(1..Len(project)) /\ Existing(Home) \in SUBSET (1..Len(project))
    BY <1>1, FS_Interval DEF Existing
  <1>3. QED BY <1>2, FS_Subset, FS_CardinalityType

\* What the service lists, place by place.
LEMMA ListIs ==
  ASSUME RowsInv
  PROVE  /\ ListProjects(Home) = [k \in 1..Cardinality(Existing(Home)) |-> Card(AtPlace(Existing(Home), k))]
         /\ ListProjects(Home) \in Seq(Cards)
  <1>1. ListProjects(Home) = [k \in 1..Cardinality(Existing(Home)) |-> Card(AtPlace(Existing(Home), k))]
    BY DEF ListProjects, AtPlace, PlaceIn
  <1>2. ASSUME NEW k \in 1..Cardinality(Existing(Home)) PROVE Card(AtPlace(Existing(Home), k)) \in Cards
    <2>1. AtPlace(Existing(Home), k) \in Existing(Home)
      BY ExistingFinite, PlaceOf
    <2>2. AtPlace(Existing(Home), k) \in DOMAIN project /\ AtPlace(Existing(Home), k) \in Nat
      BY <2>1, ExistingFinite DEF Existing
    <2>3. project[AtPlace(Existing(Home), k)] \in ProjectRows
      BY <2>2 DEF RowsInv
    <2>4. QED BY <2>2, <2>3 DEF Card, Cards, ProjectRows
  <1>3. QED BY <1>1, <1>2, ExistingFinite, IsASeq

\* A row more leaves the others where they are.
LEMMA RowAdded ==
  ASSUME RowsInv, NEW r, project' = Append(project, r)
  PROVE  /\ Len(project) \in Nat /\ DOMAIN project = 1..Len(project) /\ DOMAIN project' = 1..(Len(project) + 1)
         /\ project'[Len(project) + 1] = r /\ \A x \in DOMAIN project : project'[x] = project[x]
         /\ \A x \in DOMAIN project' : x \in DOMAIN project \/ x = Len(project) + 1
  BY AppendProperties DEF RowsInv

\* Every step keeps the rows with their tenants.
LEMMA RowsStep ==
  ASSUME RowsInv, PageInv, [ListNext]_listVars
  PROVE  RowsInv'
  <1>1. ASSUME UNCHANGED <<project, editing>>, typed' \in Nat, typed <= typed' PROVE RowsInv'
    <2>1. ASSUME NEW x \in DOMAIN project PROVE project[x].entry <= typed'
      <3>1. project[x].entry \in Int /\ typed \in Int /\ project[x].entry <= typed
        <4>1. project[x] \in ProjectRows
          BY DEF RowsInv
        <4>2. project[x].entry \in 0..MaxEntries /\ typed \in 0..MaxEntries /\ MaxEntries \in Nat
          BY <4>1, ListAssumption DEF PageInv, ProjectRows
        <4>3. QED BY <4>2 DEF RowsInv
      <3>2. QED BY <1>1, <3>1
    <2>2. QED BY <1>1, <2>1 DEF RowsInv
  <1>2. typed \in Nat
    BY ListAssumption DEF PageInv
  <1>3. ASSUME NEW r \in ProjectRows, r.firm = r.by, r.entry <= typed, Len(project) < MaxProjects,
               project' = Append(project, r), UNCHANGED <<editing, typed>>
        PROVE  RowsInv'
    <2>1. project' \in Seq(ProjectRows) /\ Len(project') = Len(project) + 1 /\ Len(project) \in Nat
      BY <1>3, AppendProperties DEF RowsInv
    <2>2. Len(project') <= MaxProjects
      BY <1>3, <2>1, ListAssumption
    <2>3. \A x \in DOMAIN project' : project'[x].firm = project'[x].by /\ project'[x].entry <= typed
      BY <1>3, RowAdded DEF RowsInv
    <2>4. \A x \in DOMAIN project : x \in DOMAIN project' /\ project'[x] = project[x]
      BY <1>3, <2>1, RowAdded
    <2>5. QED BY <1>3, <2>1, <2>2, <2>3, <2>4 DEF RowsInv
  <1>4. ASSUME NEW t \in Firms, NEW stage \in Stages, CreateProject(t, 0, stage), UNCHANGED <<editing, typed>>
        PROVE  RowsInv'
    <2>1. [firm |-> t, by |-> t, entry |-> 0, stage |-> stage] \in ProjectRows
      BY ListAssumption DEF ProjectRows
    <2>2. QED BY <1>2, <1>3, <1>4, <2>1 DEF CreateProject
  <1>5. ASSUME NEW t \in Firms, NEW x \in DOMAIN project, FindProject(t, x), UNCHANGED typed PROVE RowsInv'
    BY <1>5 DEF FindProject, RowsInv, Existing
  <1>6. ASSUME NEW r \in ProjectRows, NEW x \in DOMAIN project, r.firm = r.by, r.entry <= typed,
               project' = [project EXCEPT ![x] = r], editing' = NotEditing, UNCHANGED typed
        PROVE  RowsInv'
    <2>1. project' \in Seq(ProjectRows) /\ Len(project') = Len(project) /\ DOMAIN project' = DOMAIN project
      BY <1>6, ExceptSeq DEF RowsInv
    <2>2. \A y \in DOMAIN project : project'[y] = IF y = x THEN r ELSE project[y]
      BY <1>6 DEF RowsInv
    <2>3. QED BY <1>6, <2>1, <2>2 DEF RowsInv, NotEditing
  <1>7. ASSUME UpdateProject, UNCHANGED typed PROVE RowsInv'
    <2>1. editing.id \in DOMAIN project /\ editing' = NotEditing
      BY <1>7 DEF UpdateProject, RowsInv
    <2>2. CASE UNCHANGED project
      BY <1>7, <2>1, <2>2 DEF RowsInv, NotEditing
    <2>3. CASE ~UNCHANGED project
      <3>1. PICK stage \in Stages : project' = [project EXCEPT ![editing.id] = [project[editing.id] EXCEPT !.stage = stage]]
        BY <1>7, <2>1, <2>3 DEF UpdateProject, Picked
      <3>2. project[editing.id] \in ProjectRows /\ project[editing.id].firm = project[editing.id].by
            /\ project[editing.id].entry <= typed
        BY <2>1 DEF RowsInv
      <3>3. PICK r : r = [project[editing.id] EXCEPT !.stage = stage]
        OBVIOUS
      <3>4. r \in ProjectRows /\ r.firm = r.by /\ r.entry <= typed
        BY <3>2, <3>3 DEF ProjectRows
      <3>5. QED BY <1>6, <1>7, <2>1, <3>1, <3>3, <3>4
    <2>4. QED BY <2>2, <2>3
  <1>8. ASSUME DeleteProject, UNCHANGED typed PROVE RowsInv'
    <2>1. Missing \in ProjectRows /\ Missing.firm = Missing.by /\ Missing.entry <= typed
      BY <1>2, ListAssumption DEF Missing, ProjectRows
    <2>2. editing.id \in DOMAIN project /\ editing' = NotEditing /\ project' = [project EXCEPT ![editing.id] = Missing]
      BY <1>8 DEF DeleteProject, RowsInv
    <2>3. QED BY <1>6, <1>8, <2>1, <2>2
  <1>9. ASSUME NEW c \in ListCalls, ServeCreation(c) PROVE RowsInv'
    <2>1. c \in InFlight /\ creation[c].entry \in 0..MaxEntries /\ creation[c].entry <= typed
      BY <1>9 DEF ServeCreation, InFlight, PageInv, Creations, NoCreation
    <2>2. PICK stage \in Stages : CreateProject(Home, creation[c].entry, stage)
      BY <1>9 DEF ServeCreation
    <2>3. [firm |-> Home, by |-> Home, entry |-> creation[c].entry, stage |-> stage] \in ProjectRows
      BY <2>1, ListAssumption DEF ProjectRows
    <2>4. UNCHANGED <<editing, typed>>
      BY <1>9 DEF ServeCreation
    <2>5. QED BY <1>3, <2>1, <2>2, <2>3, <2>4 DEF CreateProject
  <1>10. CASE ProjectRequests
    BY <1>4, <1>5, <1>7, <1>8, <1>10 DEF ProjectRequests
  <1>11. CASE TypeName
    BY <1>1, <1>2, <1>11 DEF TypeName
  <1>12. CASE UNCHANGED <<project, editing, typed>>
    BY <1>1, <1>2, <1>12
  <1>13. QED
    BY <1>9, <1>10, <1>11, <1>12
    DEF ListNext, ListPage, OpenList, Loaded, SubmitProject, FailCreation, ReceiveCreated, listVars

\* The answer to a call that is awaited is the only one; others change no page.
LEMMA PageInvStep ==
  ASSUME RowsInv, PageInv, [ListNext]_listVars
  PROVE  PageInv'
  <1>0. /\ MaxEntries \in Nat /\ typed \in Nat /\ typed <= MaxEntries /\ board.form \in Nat
        /\ \A c \in InFlight : creation[c].entry \in Nat
    <2>1. board.form \in 0..MaxEntries /\ typed \in 0..MaxEntries /\ MaxEntries \in Nat
      BY ListAssumption DEF PageInv, Boards
    <2>2. \A c \in InFlight : creation[c].entry \in 0..MaxEntries
      BY DEF PageInv, InFlight, Creations, NoCreation
    <2>3. QED BY <2>1, <2>2
  <1>1. CASE UNCHANGED <<board, creation, typed, unseen>>
    BY <1>1 DEF PageInv, InFlight, Expected
  <1>2. CASE UNCHANGED <<board, creation, typed>> /\ unseen' \in BOOLEAN
    BY <1>2 DEF PageInv, InFlight, Expected
  <1>3. CASE ProjectRequests
    <2>1. UNCHANGED <<board, creation, typed>>
      BY <1>3 DEF ProjectRequests
    <2>2. unseen' \in BOOLEAN
      BY <1>3 DEF ProjectRequests, FindProject, UpdateProject, DeleteProject, PageInv
    <2>3. QED BY <1>2, <2>1, <2>2
  <1>4. CASE OpenList
    <2>1. board' = [view |-> "loading", rows |-> <<>>, form |-> 0, submitting |-> FALSE] /\ UNCHANGED <<typed, unseen>>
          /\ creation' = [c \in ListCalls |-> [creation[c] EXCEPT !.mine = FALSE]]
      BY <1>4 DEF OpenList
    <2>2. board' \in Boards /\ board'.form = 0
      BY <1>0, <2>1 DEF Boards
    <2>3. ASSUME NEW c \in ListCalls
          PROVE  /\ creation'[c] \in Creations /\ ~creation'[c].mine
                 /\ creation'[c].pc = creation[c].pc /\ creation'[c].entry = creation[c].entry
      <3>1. creation'[c] = [creation[c] EXCEPT !.mine = FALSE]
        BY <2>1
      <3>3. CASE creation[c] \in [pc : {"free", "sent", "refused"}, mine : BOOLEAN, entry : 0..MaxEntries]
        BY <3>1, <3>3 DEF Creations
      <3>4. CASE creation[c] \in [pc : {"ok", "refused"}, mine : BOOLEAN, entry : 0..MaxEntries, card : Cards]
        BY <3>1, <3>4 DEF Creations
      <3>5. creation[c] \in Creations
        BY DEF PageInv
      <3>6. QED BY <3>3, <3>4, <3>5 DEF Creations
    <2>4. creation' \in [ListCalls -> Creations] /\ InFlight' = InFlight /\ Expected' = {}
      BY <2>1, <2>3 DEF InFlight, Expected
    <2>5. \A c \in InFlight' : creation'[c].entry # 0 /\ creation'[c].entry <= typed'
      BY <2>1, <2>3, <2>4 DEF InFlight, PageInv
    <2>6. QED BY <1>0, <2>1, <2>2, <2>4, <2>5 DEF PageInv
  <1>5. CASE Loaded
    <2>1. ListProjects(Home) \in Seq(Cards)
      BY ListIs
    <2>2. board' \in Boards /\ board'.form = board.form /\ board'.submitting = board.submitting /\ board'.view = "open"
          /\ board.view = "loading"
      BY <1>5, <2>1 DEF Loaded, PageInv, Boards
    <2>3. UNCHANGED <<creation, typed>> /\ unseen' \in BOOLEAN
      BY <1>5 DEF Loaded
    <2>4. QED BY <2>2, <2>3 DEF PageInv, InFlight, Expected
  <1>6. CASE TypeName
    <2>1. board.view = "open" /\ typed < MaxEntries /\ typed' = typed + 1 /\ board' = [board EXCEPT !.form = typed + 1]
          /\ UNCHANGED <<creation, unseen>>
      BY <1>6 DEF TypeName
    <2>2. typed + 1 \in 0..MaxEntries /\ typed <= typed + 1
      BY <1>0, <2>1
    <2>3. board' \in Boards /\ board'.form = typed + 1 /\ board'.submitting = board.submitting /\ board'.view = board.view
      BY <2>1, <2>2 DEF PageInv, Boards
    <2>4. \A c \in InFlight : creation[c].entry # 0 /\ creation[c].entry <= typed + 1
      BY <1>0 DEF PageInv
    <2>5. QED BY <2>1, <2>2, <2>3, <2>4 DEF PageInv, InFlight, Expected
  <1>7. ASSUME NEW c \in ListCalls, SubmitProject(c) PROVE PageInv'
    <2>1. /\ board.view = "open" /\ board.form # 0 /\ ~board.submitting /\ creation[c].pc = "free"
          /\ creation' = [creation EXCEPT ![c] = [pc |-> "sent", mine |-> TRUE, entry |-> board.form]]
          /\ board' = [board EXCEPT !.submitting = TRUE] /\ UNCHANGED <<typed, unseen>>
      BY <1>7 DEF SubmitProject
    <2>2. board.form \in 1..MaxEntries /\ board.form <= typed
      BY <1>0, <2>1 DEF PageInv
    <2>3. [pc |-> "sent", mine |-> TRUE, entry |-> board.form] \in Creations
      BY <2>2 DEF Creations
    <2>4. board' \in Boards /\ board'.form = board.form /\ board'.submitting /\ board'.view = "open"
      BY <2>1 DEF PageInv, Boards
    <2>5. Expected = {} /\ creation' \in [ListCalls -> Creations]
      BY <2>1, <2>3 DEF PageInv
    <2>6. Expected' = {c} /\ InFlight' = InFlight \union {c}
      BY <2>1, <2>5 DEF PageInv, Expected, InFlight
    <2>7. \A d \in InFlight' : creation'[d].entry # 0 /\ creation'[d].entry <= typed
      BY <2>1, <2>2 DEF PageInv, InFlight
    <2>8. QED BY <2>1, <2>2, <2>4, <2>5, <2>6, <2>7 DEF PageInv
  <1>8. ASSUME NEW c \in InFlight, NEW v \in Creations, v.pc # "free", creation' = [creation EXCEPT ![c] = v],
               v.mine = creation[c].mine, v.entry = creation[c].entry, UNCHANGED <<board, typed>>, unseen' \in BOOLEAN
        PROVE  PageInv'
    <2>1. creation' \in [ListCalls -> Creations] /\ v.pc # "free"
      BY <1>8 DEF PageInv
    <2>2. InFlight' = InFlight /\ Expected' = Expected
      BY <1>8, <2>1 DEF PageInv, InFlight, Expected
    <2>3. \A d \in InFlight : creation'[d].entry # 0 /\ creation'[d].entry <= typed
      BY <1>8 DEF PageInv, InFlight
    <2>4. QED BY <1>8, <2>1, <2>2, <2>3 DEF PageInv
  <1>9. ASSUME NEW c \in ListCalls, ServeCreation(c) PROVE PageInv'
    <2>1. PICK stage \in Stages :
            creation' = [creation EXCEPT ![c] = [pc |-> "ok", mine |-> creation[c].mine, entry |-> creation[c].entry,
                                                 card |-> [id |-> Len(project) + 1, stage |-> stage]]]
      BY <1>9 DEF ServeCreation, PageInv
    <2>2. PICK v : v = [pc |-> "ok", mine |-> creation[c].mine, entry |-> creation[c].entry,
                        card |-> [id |-> Len(project) + 1, stage |-> stage]]
      OBVIOUS
    <2>3. creation[c].pc = "sent" /\ UNCHANGED <<board, typed>> /\ unseen' = (unseen \/ ~creation[c].mine)
      BY <1>9 DEF ServeCreation
    <2>4. c \in InFlight /\ creation[c].mine \in BOOLEAN /\ creation[c].entry \in 0..MaxEntries
      BY <2>3 DEF PageInv, InFlight, Creations, NoCreation
    <2>5. Len(project) + 1 \in Nat
      BY DEF RowsInv
    <2>6. v \in Creations /\ v.pc # "free" /\ v.mine = creation[c].mine /\ v.entry = creation[c].entry
      BY <2>2, <2>4, <2>5 DEF Creations, Cards, NoCreation
    <2>7. unseen' \in BOOLEAN
      BY <2>3, <2>4 DEF PageInv
    <2>8. creation' = [creation EXCEPT ![c] = v]
      BY <2>1, <2>2
    <2>9. QED BY <1>8, <2>3, <2>4, <2>6, <2>7, <2>8
  <1>10. ASSUME NEW c \in ListCalls, FailCreation(c) PROVE PageInv'
    <2>1. PICK v : v = [creation[c] EXCEPT !.pc = "refused"]
      OBVIOUS
    <2>2. creation' = [creation EXCEPT ![c] = v] /\ creation[c].pc \in {"sent", "ok"} /\ UNCHANGED <<board, typed>>
          /\ unseen' \in BOOLEAN
      BY <1>10, <2>1 DEF FailCreation, PageInv
    <2>3. c \in InFlight
      BY <2>2 DEF InFlight
    <2>4. v \in Creations /\ v.pc # "free" /\ v.mine = creation[c].mine /\ v.entry = creation[c].entry
      <3>1. CASE creation[c] \in [pc : {"free", "sent", "refused"}, mine : BOOLEAN, entry : 0..MaxEntries]
        BY <2>1, <3>1 DEF Creations, NoCreation
      <3>2. CASE creation[c] \in [pc : {"ok", "refused"}, mine : BOOLEAN, entry : 0..MaxEntries, card : Cards]
        BY <2>1, <3>2 DEF Creations, NoCreation
      <3>3. QED BY <2>2, <3>1, <3>2 DEF PageInv, Creations, NoCreation
    <2>5. QED BY <1>8, <2>2, <2>3, <2>4
  <1>11. ASSUME NEW c \in ListCalls, ReceiveCreated(c) PROVE PageInv'
    <2>1. creation' = [creation EXCEPT ![c] = NoCreation] /\ UNCHANGED <<typed, unseen>> /\ c \in InFlight
      BY <1>11 DEF ReceiveCreated, InFlight
    <2>0. NoCreation \in Creations /\ NoCreation.pc = "free"
      BY <1>0 DEF Creations, NoCreation
    <2>2. creation' \in [ListCalls -> Creations] /\ InFlight' = InFlight \ {c} /\ Expected' = Expected \ {c}
      BY <2>0, <2>1 DEF PageInv, InFlight, Expected
    <2>3. \A d \in InFlight' : creation'[d].entry # 0 /\ creation'[d].entry <= typed
      BY <2>1, <2>2 DEF PageInv, InFlight
    <2>4. CASE ~creation[c].mine
      BY <1>11, <2>1, <2>2, <2>3, <2>4 DEF PageInv, ReceiveCreated, Expected
    <2>5. CASE creation[c].mine
      <3>1. c \in Expected
        BY <2>1, <2>5 DEF Expected
      <3>2. Expected' = {}
        BY <2>2, <3>1 DEF PageInv
      <3>3. CASE creation[c].pc = "ok"
        <4>1. board' = [board EXCEPT !.submitting = FALSE, !.form = Emptied, !.rows = <<creation[c].card>> \o @]
          BY <1>11, <2>5, <3>3 DEF ReceiveCreated
        <4>2. creation[c].card \in Cards
          BY <3>3, <2>1 DEF PageInv, Creations, NoCreation
        <4>3. <<creation[c].card>> \o board.rows \in Seq(Cards)
          BY <4>2, ConcatProperties DEF PageInv, Boards
        <4>4. board' \in Boards /\ board'.form = 0
          <5>1. PICK rows \in Seq(Cards) : rows = <<creation[c].card>> \o board.rows
            BY <4>3
          <5>2. board \in Boards /\ board' = [board EXCEPT !.submitting = FALSE, !.form = 0, !.rows = rows]
            BY <4>1, <5>1 DEF PageInv, Emptied, Boards
          <5>3. 0 \in 0..MaxEntries
            BY <1>0
          <5>4. QED BY <5>2, <5>3 DEF Boards
        <4>5. QED BY <1>0, <2>1, <2>2, <2>3, <3>2, <4>4 DEF PageInv
      <3>4. CASE creation[c].pc # "ok"
        <4>1. board' = [board EXCEPT !.submitting = FALSE]
          BY <1>11, <2>5, <3>4 DEF ReceiveCreated
        <4>2. board' \in Boards /\ board'.form = board.form
          BY <4>1 DEF PageInv, Boards
        <4>3. QED BY <2>1, <2>2, <2>3, <3>2, <4>2 DEF PageInv
      <3>5. QED BY <3>3, <3>4
    <2>6. QED BY <2>4, <2>5
  <1>12. QED
    BY <1>1, <1>3, <1>4, <1>5, <1>6, <1>7, <1>9, <1>10, <1>11 DEF ListNext, ListPage, listVars

\* An entry gets its row from the one call that asks for it.
LEMMA StoredOnceStep ==
  ASSUME RowsInv, PageInv, EntryInv, [ListNext]_listVars
  PROVE  EntryInv'
  <1>0. typed \in Nat /\ DOMAIN project = 1..Len(project) /\ Len(project) \in Nat
        /\ \A x \in DOMAIN project : project[x].entry \in Nat /\ project[x].entry <= typed
    <2>1. \A x \in DOMAIN project : project[x] \in ProjectRows
      BY DEF RowsInv
    <2>2. QED BY <2>1, ListAssumption DEF RowsInv, PageInv, ProjectRows
  <1>1. ASSUME \A n \in 1..typed : \A x \in DOMAIN project' : Has(x, n)' => x \in DOMAIN project /\ Has(x, n),
               UNCHANGED <<creation, typed, lost>>, board'.form = board.form
        PROVE  EntryInv'
    BY <1>1 DEF EntryInv, AsksFor, Expected, InFlight
  <1>2. CASE UNCHANGED <<project, creation, typed, lost>> /\ board'.form = board.form
    BY <1>1, <1>2 DEF Has
  <1>3. ASSUME NEW t \in Firms, NEW stage \in Stages, CreateProject(t, 0, stage), UNCHANGED <<board, creation, typed, lost>>
        PROVE  EntryInv'
    <2>1. PICK r : r = [firm |-> t, by |-> t, entry |-> 0, stage |-> stage]
      OBVIOUS
    <2>2. project' = Append(project, r) /\ r.entry = 0
      BY <1>3, <2>1 DEF CreateProject
    <2>3. \A x \in DOMAIN project' : (x \in DOMAIN project /\ project'[x] = project[x]) \/ project'[x].entry = 0
      BY <2>2, RowAdded
    <2>4. QED BY <1>1, <1>3, <2>3 DEF Has
  <1>4. CASE ProjectRequests
    <2>1. UNCHANGED <<board, creation, typed, lost>>
      BY <1>4 DEF ProjectRequests
    <2>2. ASSUME NEW t \in Firms, NEW x \in DOMAIN project, FindProject(t, x) PROVE EntryInv'
      BY <1>2, <2>1, <2>2 DEF FindProject
    <2>3. CASE UpdateProject
      <3>1. DOMAIN project' = DOMAIN project
        BY <2>3 DEF UpdateProject
      <3>2. \A x \in DOMAIN project : project'[x].entry = project[x].entry
        <4>1. PICK stage \in Stages, claimed \in Firms :
                project' = IF project[editing.id] = Missing THEN project
                           ELSE [project EXCEPT ![editing.id] = [project[editing.id] EXCEPT !.stage = stage]]
          BY <2>3 DEF UpdateProject, Picked
        <4>2. [project[editing.id] EXCEPT !.stage = stage].entry = project[editing.id].entry
          <5>1. editing.id \in DOMAIN project
            BY <2>3 DEF UpdateProject, RowsInv
          <5>2. project[editing.id] \in ProjectRows
            BY <5>1 DEF RowsInv
          <5>3. QED BY <5>2 DEF ProjectRows
        <4>3. QED BY <4>1, <4>2
      <3>3. QED BY <1>1, <2>1, <3>1, <3>2 DEF Has
    <2>4. CASE DeleteProject
      <3>1. DOMAIN project' = DOMAIN project /\ \A x \in DOMAIN project : project'[x] = project[x] \/ project'[x].entry = 0
        BY <2>4 DEF DeleteProject, Missing
      <3>2. QED BY <1>1, <2>1, <3>1 DEF Has
    <2>5. QED BY <1>3, <1>4, <2>1, <2>2, <2>3, <2>4 DEF ProjectRequests
  <1>5. CASE OpenList
    <2>1. board'.form = 0 /\ UNCHANGED <<project, typed, lost>>
          /\ \A c \in ListCalls : creation'[c].pc = creation[c].pc /\ creation'[c].entry = creation[c].entry
      <3>1. \A c \in ListCalls : creation[c] \in Creations
        BY DEF PageInv
      <3>2. \A r \in Creations : [r EXCEPT !.mine = FALSE].pc = r.pc /\ [r EXCEPT !.mine = FALSE].entry = r.entry
        BY DEF Creations
      <3>3. \A c \in ListCalls : creation'[c] = [creation[c] EXCEPT !.mine = FALSE]
        BY <1>5 DEF OpenList
      <3>4. QED BY <1>5, <3>1, <3>2, <3>3 DEF OpenList
    <2>2. \A n \in 1..typed : n # 0
      BY <1>0
    <2>3. QED BY <2>1, <2>2 DEF EntryInv, Has, AsksFor
  <1>6. CASE TypeName
    <2>1. typed' = typed + 1 /\ board'.form = typed + 1 /\ UNCHANGED <<project, creation, lost>>
      BY <1>6 DEF TypeName, PageInv, Boards
    <2>2. \A c \in ListCalls : creation[c].pc = "sent" => creation[c].entry \in Nat /\ creation[c].entry <= typed
      <3>1. \A c \in ListCalls : creation[c].pc = "sent" => creation[c].entry \in 0..MaxEntries
        BY DEF PageInv, Creations
      <3>2. QED BY <3>1, ListAssumption DEF PageInv, InFlight
    <2>3. \A n \in 1..(typed + 1) : n # typed + 1 => n \in 1..typed
      BY <1>0
    <2>4. ~(typed + 1 <= typed)
      BY <1>0
    <2>5. /\ \A x \in DOMAIN project : ~Has(x, typed + 1)
          /\ \A c \in ListCalls : ~AsksFor(c, typed + 1)
      BY <1>0, <2>2, <2>4 DEF Has, AsksFor
    <2>6. ASSUME NEW n \in 1..(typed + 1), n \notin lost
          PROVE  /\ \A x, y \in DOMAIN project : Has(x, n) /\ Has(y, n) => x = y
                 /\ \A c \in ListCalls : AsksFor(c, n) =>
                      (\A x \in DOMAIN project : ~Has(x, n)) /\ (\A d \in ListCalls : AsksFor(d, n) => d = c)
                 /\ board'.form = n =>
                      /\ (\E x \in DOMAIN project : Has(x, n)) =>
                           \E c \in Expected : creation[c].pc = "ok" /\ creation[c].entry = n
                      /\ \A c \in ListCalls : AsksFor(c, n) => c \in Expected
      <3>1. CASE n = typed + 1
        BY <2>5, <3>1
      <3>2. CASE n # typed + 1
        BY <2>1, <2>3, <2>6, <3>2 DEF EntryInv
      <3>3. QED BY <3>1, <3>2
    <2>7. QED BY <2>1, <2>6 DEF EntryInv, Has, AsksFor, Expected, InFlight
  <1>7. ASSUME NEW c \in ListCalls, SubmitProject(c) PROVE EntryInv'
    <2>1. /\ board.form # 0 /\ ~board.submitting /\ creation[c].pc = "free" /\ board'.form = board.form
          /\ creation' = [creation EXCEPT ![c] = [pc |-> "sent", mine |-> TRUE, entry |-> board.form]]
          /\ UNCHANGED <<project, typed, lost>>
      BY <1>7 DEF SubmitProject, PageInv, Boards
    <2>2. Expected = {}
      BY <2>1 DEF PageInv
    <2>3. \A d \in ListCalls : creation'[d] = IF d = c THEN [pc |-> "sent", mine |-> TRUE, entry |-> board.form] ELSE creation[d]
      BY <2>1 DEF PageInv
    <2>4. \A n \in 1..typed : n \notin lost /\ board.form = n =>
            /\ \A x \in DOMAIN project : ~Has(x, n)
            /\ \A d \in ListCalls : ~AsksFor(d, n)
      BY <2>2 DEF EntryInv
    <2>5. \A n, d : d \in ListCalls => (AsksFor(d, n)' <=> IF d = c THEN n = board.form ELSE AsksFor(d, n))
      BY <2>3 DEF AsksFor
    <2>6. c \in Expected'
      BY <2>3 DEF Expected, InFlight
    <2>7. ASSUME NEW n \in 1..typed, n \notin lost, board.form = n PROVE
            /\ \A d \in ListCalls : AsksFor(d, n)' <=> d = c
            /\ \A x \in DOMAIN project : ~Has(x, n)
      BY <2>4, <2>5, <2>7
    <2>8. ASSUME NEW n \in 1..typed, n \notin lost, board.form # n PROVE
            \A d \in ListCalls : AsksFor(d, n)' => AsksFor(d, n)
      BY <2>5, <2>8
    <2>9. QED BY <2>1, <2>6, <2>7, <2>8 DEF EntryInv, Has
  <1>8. ASSUME NEW c \in ListCalls, ServeCreation(c) PROVE EntryInv'
    <2>1. PICK stage \in Stages :
            /\ CreateProject(Home, creation[c].entry, stage)
            /\ creation' = [creation EXCEPT ![c] = [pc |-> "ok", mine |-> creation[c].mine, entry |-> creation[c].entry,
                                                 card |-> [id |-> Len(project) + 1, stage |-> stage]]]
      BY <1>8 DEF ServeCreation, PageInv
    <2>2. creation[c].pc = "sent" /\ UNCHANGED <<board, typed, lost>>
      BY <1>8 DEF ServeCreation
    <2>3. PICK r : r = [firm |-> Home, by |-> Home, entry |-> creation[c].entry, stage |-> stage]
      OBVIOUS
    <2>4. project' = Append(project, r) /\ r.entry = creation[c].entry
      BY <2>1, <2>3 DEF CreateProject
    <2>5. /\ \A x \in DOMAIN project' : x \in DOMAIN project \/ x = Len(project) + 1
          /\ \A x \in DOMAIN project : project'[x] = project[x]
          /\ project'[Len(project) + 1].entry = creation[c].entry
      BY <2>4, RowAdded
    <2>6. /\ creation'[c].pc = "ok" /\ creation'[c].mine = creation[c].mine /\ creation'[c].entry = creation[c].entry
          /\ \A d \in ListCalls : d # c => creation'[d] = creation[d]
      BY <2>1 DEF PageInv
    <2>7. Expected' = Expected
      BY <2>2, <2>6 DEF Expected, InFlight
    <2>8. \A n : \A d \in ListCalls : AsksFor(d, n)' <=> d # c /\ AsksFor(d, n)
      BY <2>6 DEF AsksFor
    <2>9. \A n : \A x \in DOMAIN project' :
            Has(x, n)' <=> IF x \in DOMAIN project THEN Has(x, n) ELSE x = Len(project) + 1 /\ n = creation[c].entry
      BY <2>5 DEF Has
    <2>10. \A n \in 1..typed : n = creation[c].entry => AsksFor(c, n)
      BY <2>2 DEF AsksFor
    <2>11. ASSUME NEW n \in 1..typed, n \notin lost, n = creation[c].entry
           PROVE  /\ \A x, y \in DOMAIN project' : Has(x, n)' /\ Has(y, n)' => x = y
                  /\ \A d \in ListCalls : ~AsksFor(d, n)'
                  /\ board.form = n => c \in Expected
      BY <2>8, <2>9, <2>10, <2>11 DEF EntryInv
    <2>12. ASSUME NEW n \in 1..typed, n \notin lost, n # creation[c].entry
           PROVE  /\ \A x \in DOMAIN project' : Has(x, n)' => x \in DOMAIN project /\ Has(x, n)
                  /\ \A d \in ListCalls : AsksFor(d, n)' => AsksFor(d, n)
                  /\ \A d \in Expected : creation[d].entry = n => d # c
      BY <2>8, <2>9, <2>12
    <2>13. QED BY <2>2, <2>6, <2>7, <2>11, <2>12 DEF EntryInv, Expected, InFlight
  <1>9. ASSUME NEW c \in ListCalls, FailCreation(c) PROVE EntryInv'
    <2>1. /\ creation[c].pc \in {"sent", "ok"} /\ UNCHANGED <<project, board, typed>>
          /\ creation' = [creation EXCEPT ![c].pc = "refused"]
          /\ \A n : n \notin lost' => n \notin lost /\ (creation[c].pc = "ok" => n # creation[c].entry)
      BY <1>9 DEF FailCreation
    <2>2. /\ creation'[c].pc = "refused" /\ creation'[c].mine = creation[c].mine
          /\ \A d \in ListCalls : d # c => creation'[d] = creation[d]
      BY <2>1 DEF PageInv, Creations
    <2>3. Expected' = Expected
      BY <2>1, <2>2 DEF Expected, InFlight
    <2>4. \A n : \A d \in ListCalls : AsksFor(d, n)' => AsksFor(d, n)
      BY <2>2 DEF AsksFor
    <2>5. ASSUME NEW n \in 1..typed, n \notin lost', NEW d \in Expected, creation[d].pc = "ok", creation[d].entry = n
          PROVE  creation'[d].pc = "ok" /\ creation'[d].entry = n
      BY <2>1, <2>2, <2>5 DEF Expected, InFlight
    <2>6. QED BY <2>1, <2>3, <2>4, <2>5 DEF EntryInv, Has
  <1>10. ASSUME NEW c \in ListCalls, ReceiveCreated(c) PROVE EntryInv'
    <2>1. /\ creation[c].pc \in {"ok", "refused"} /\ UNCHANGED <<project, typed, lost>>
          /\ \A d \in ListCalls : creation'[d] = IF d = c THEN NoCreation ELSE creation[d]
      BY <1>10 DEF ReceiveCreated, PageInv
    <2>2. board'.form = 0 \/ (board'.form = board.form /\ (creation[c].mine => creation[c].pc # "ok"))
      BY <1>10 DEF ReceiveCreated, Emptied, PageInv, Boards
    <2>3. \A n : \A d \in ListCalls : AsksFor(d, n)' <=> AsksFor(d, n)
      BY <2>1 DEF AsksFor, NoCreation
    <2>4. \A n : \A d \in ListCalls : AsksFor(d, n) => d # c
      BY <2>1 DEF AsksFor
    <2>5. Expected' = Expected \ {c}
      BY <2>1 DEF Expected, InFlight, NoCreation
    <2>6. ASSUME board'.form = board.form, creation[c].mine => creation[c].pc # "ok", NEW d \in Expected, creation[d].pc = "ok"
          PROVE  d \in Expected' /\ creation'[d] = creation[d]
      BY <2>1, <2>5, <2>6 DEF Expected, InFlight
    <2>7. \A n \in 1..typed : n # 0
      BY <1>0
    <2>8. ASSUME NEW n \in 1..typed, n \notin lost, board'.form = n
          PROVE  /\ (\E x \in DOMAIN project : Has(x, n)) =>
                      \E d \in Expected' : creation'[d].pc = "ok" /\ creation'[d].entry = n
                 /\ \A d \in ListCalls : AsksFor(d, n)' => d \in Expected'
      <3>1. board.form = n /\ board'.form = board.form /\ (creation[c].mine => creation[c].pc # "ok")
        BY <2>2, <2>7, <2>8
      <3>2. QED BY <2>3, <2>4, <2>5, <2>6, <2>8, <3>1 DEF EntryInv
    <2>9. QED BY <2>1, <2>3, <2>8 DEF EntryInv, Has
  <1>11. CASE Loaded
    BY <1>2, <1>11 DEF Loaded, PageInv, Boards
  <1>12. QED
    BY <1>2, <1>4, <1>5, <1>6, <1>7, <1>8, <1>9, <1>10, <1>11 DEF ListNext, ListPage, listVars

\* The list follows from the rows of the tenant.
LEMMA ListSame ==
  ASSUME RowsInv, Existing(Home)' = Existing(Home), \A x \in Existing(Home) : project'[x].stage = project[x].stage
  PROVE  ListProjects(Home)' = ListProjects(Home)
  <1> DEFINE E == Existing(Home)
  <1>1. ListProjects(Home)' = [k \in 1..Cardinality(E) |-> Card(AtPlace(E, k))']
    BY DEF ListProjects, AtPlace, PlaceIn
  <1>2. ASSUME NEW k \in 1..Cardinality(E) PROVE Card(AtPlace(E, k))' = Card(AtPlace(E, k))
    <2>1. AtPlace(E, k) \in E
      BY ExistingFinite, PlaceOf
    <2>2. QED BY <2>1 DEF Card
  <1>3. ListProjects(Home) = [k \in 1..Cardinality(E) |-> Card(AtPlace(E, k))]
    BY ListIs
  <1> HIDE DEF E
  <1>4. QED BY <1>1, <1>2, <1>3

\* A row more of the tenant comes first.
LEMMA ListLonger ==
  ASSUME RowsInv, NEW r, project' = Append(project, r), r.firm = Home, r # Missing
  PROVE  ListProjects(Home)' = <<[id |-> Len(project) + 1, stage |-> r.stage]>> \o ListProjects(Home)
  <1> DEFINE E == Existing(Home)
             m == Len(project) + 1
             New(x) == [id |-> x, stage |-> project'[x].stage]
             L == [k \in 1..Cardinality(E) |-> Card(AtPlace(E, k))]
  <1>1. E \in SUBSET Nat /\ IsFiniteSet(E) /\ Cardinality(E) \in Nat /\ m \in Nat /\ \A x \in E : x < m
    BY ExistingFinite DEF RowsInv, Existing
  <1>2. Existing(Home)' = E \union {m}
    BY RowAdded DEF Existing
  <1>3. /\ Cardinality(E \union {m}) = Cardinality(E) + 1
        /\ AtPlace(E \union {m}, 1) = m
        /\ \A k \in 1..Cardinality(E) : AtPlace(E \union {m}, k + 1) = AtPlace(E, k)
    <2> HIDE DEF E, m
    <2>1. QED BY <1>1, PlaceAbove
  <1>4. ListProjects(Home)' = [k \in 1..Cardinality(E \union {m}) |-> New(AtPlace(E \union {m}, k))]
    BY <1>2 DEF ListProjects, AtPlace, PlaceIn, Card
  <1>5. ListProjects(Home) = L /\ L \in Seq(Cards)
    BY ListIs
  <1>6. New(m) = [id |-> m, stage |-> r.stage]
    BY RowAdded
  <1>7. ASSUME NEW k \in 1..Cardinality(E) PROVE New(AtPlace(E, k)) = Card(AtPlace(E, k))
    <2>1. AtPlace(E, k) \in E
      BY <1>1, PlaceOf
    <2>2. project'[AtPlace(E, k)] = project[AtPlace(E, k)]
      BY <2>1, RowAdded DEF Existing
    <2>3. QED BY <2>2 DEF Card
  <1> DEFINE M == <<[id |-> m, stage |-> r.stage]>> \o L
  <1>8. /\ M = [k \in 1..(Cardinality(E) + 1) |-> IF k <= 1 THEN <<[id |-> m, stage |-> r.stage]>>[k] ELSE L[k - 1]]
    <2>1. Len(L) = Cardinality(E)
      BY <1>1
    <2>2. QED BY <1>1, <2>1
  <1>9. ASSUME NEW k \in 1..(Cardinality(E) + 1)
        PROVE  New(AtPlace(E \union {m}, k)) = IF k <= 1 THEN <<[id |-> m, stage |-> r.stage]>>[k] ELSE L[k - 1]
    <2>1. CASE k = 1
      BY <1>3, <1>6, <2>1
    <2>2. CASE k # 1
      <3>1. PICK j \in 1..Cardinality(E) : k = j + 1 /\ k - 1 = j /\ ~(k <= 1)
        BY <1>1, <2>2
      <3>2. QED BY <1>3, <1>7, <3>1
    <2>3. QED BY <2>1, <2>2
  <1> HIDE DEF E, m, L, M, New
  <1>10. ListProjects(Home)' = M
    BY <1>3, <1>4, <1>8, <1>9
  <1>11. QED BY <1>5, <1>10 DEF M, m

\* What the page has not been told of is marked.
LEMMA BoardFreshStep ==
  ASSUME RowsInv, PageInv, FreshInv, [ListNext]_listVars
  PROVE  FreshInv'
  <1>1. ASSUME Existing(Home)' = Existing(Home), \A x \in Existing(Home) : project'[x].stage = project[x].stage,
               UNCHANGED <<board, creation, unseen>>
        PROVE  FreshInv'
    BY <1>1, ListSame DEF FreshInv, Expected, InFlight
  <1>2. CASE unseen'
    BY <1>2 DEF FreshInv
  <1>3. CASE board'.view # "open"
    BY <1>3 DEF FreshInv
  <1>4. UNCHANGED project => ListProjects(Home)' = ListProjects(Home)
    BY DEF ListProjects, Existing, Card
  <1>5. ASSUME UNCHANGED <<project, creation, unseen>>, board'.rows = board.rows, board'.view = board.view PROVE FreshInv'
    BY <1>4, <1>5 DEF FreshInv, Expected, InFlight
  <1>6. CASE ProjectRequests
    <2>1. UNCHANGED <<board, creation>>
      BY <1>6 DEF ProjectRequests
    <2>2. ASSUME NEW t \in Firms, NEW stage \in Stages, CreateProject(t, 0, stage), unseen' = (unseen \/ t = Home)
          PROVE  FreshInv'
      <3>1. CASE t = Home
        BY <1>2, <2>2, <3>1
      <3>2. CASE t # Home
        <4>1. PICK r : r = [firm |-> t, by |-> t, entry |-> 0, stage |-> stage]
          OBVIOUS
        <4>2. project' = Append(project, r) /\ r.firm # Home
          BY <2>2, <3>2, <4>1 DEF CreateProject
        <4>3. Existing(Home)' = Existing(Home) /\ \A x \in Existing(Home) : project'[x].stage = project[x].stage
          BY <4>2, RowAdded DEF Existing
        <4>4. unseen' = unseen
          BY <2>2, <3>2 DEF PageInv
        <4>5. QED BY <1>1, <2>1, <4>3, <4>4
      <3>3. QED BY <3>1, <3>2
    <2>3. ASSUME NEW t \in Firms, NEW x \in DOMAIN project, FindProject(t, x) PROVE FreshInv'
      BY <1>5, <2>1, <2>3 DEF FindProject
    <2>4. CASE UpdateProject
      <3>1. CASE editing.firm = Home
        BY <1>2, <2>4, <3>1 DEF UpdateProject
      <3>2. CASE editing.firm # Home
        <4>1. editing.id \in DOMAIN project /\ (project[editing.id] # Missing => project[editing.id].firm # Home)
              /\ unseen' = unseen
          BY <2>4, <3>2 DEF UpdateProject, RowsInv, PageInv
        <4>2. \A x \in DOMAIN project : x # editing.id => project'[x] = project[x]
          BY <2>4 DEF UpdateProject
        <4>3. DOMAIN project' = DOMAIN project /\ (project'[editing.id] = Missing \/ project'[editing.id].firm # Home)
          <5>1. PICK stage \in Stages, claimed \in Firms :
                  project' = IF project[editing.id] = Missing THEN project
                             ELSE [project EXCEPT ![editing.id] = [project[editing.id] EXCEPT !.stage = stage]]
            BY <2>4 DEF UpdateProject, Picked
          <5>2. [project[editing.id] EXCEPT !.stage = stage].firm = project[editing.id].firm
            <6>1. project[editing.id] \in ProjectRows
              BY <4>1 DEF RowsInv
            <6>2. QED BY <6>1 DEF ProjectRows
          <5>3. QED BY <4>1, <5>1, <5>2
        <4>4. Existing(Home)' = Existing(Home) /\ \A x \in Existing(Home) : project'[x].stage = project[x].stage
          BY <4>1, <4>2, <4>3 DEF Existing
        <4>5. QED BY <1>1, <2>1, <4>1, <4>4
      <3>3. QED BY <3>1, <3>2
    <2>5. CASE DeleteProject
      <3>1. CASE editing.firm = Home
        BY <1>2, <2>5, <3>1 DEF DeleteProject
      <3>2. CASE editing.firm # Home
        <4>1. editing.id \in DOMAIN project /\ (project[editing.id] # Missing => project[editing.id].firm # Home)
              /\ unseen' = unseen
          BY <2>5, <3>2 DEF DeleteProject, RowsInv, PageInv
        <4>2. /\ \A x \in DOMAIN project : x # editing.id => project'[x] = project[x]
              /\ DOMAIN project' = DOMAIN project /\ project'[editing.id] = Missing
          BY <2>5, <4>1 DEF DeleteProject
        <4>3. Existing(Home)' = Existing(Home) /\ \A x \in Existing(Home) : project'[x].stage = project[x].stage
          BY <4>1, <4>2 DEF Existing
        <4>4. QED BY <1>1, <2>1, <4>1, <4>3
      <3>3. QED BY <3>1, <3>2
    <2>6. QED BY <1>6, <2>2, <2>3, <2>4, <2>5 DEF ProjectRequests
  <1>7. CASE OpenList
    BY <1>3, <1>7 DEF OpenList
  <1>8. CASE Loaded
    <2>1. Expected = {} /\ UNCHANGED <<creation, project>>
      BY <1>8 DEF Loaded, PageInv
    <2>2. Expected' = {}
      BY <2>1 DEF Expected, InFlight
    <2>3. unseen' \/ board'.rows = ListProjects(Home)
      BY <1>8 DEF Loaded, PageInv, Boards
    <2>4. QED BY <1>4, <2>1, <2>2, <2>3 DEF FreshInv
  <1>9. CASE TypeName
    BY <1>5, <1>9 DEF TypeName, PageInv, Boards
  <1>10. ASSUME NEW c \in ListCalls, SubmitProject(c) PROVE FreshInv'
    <2>1. /\ ~board.submitting /\ board.view = "open" /\ board'.rows = board.rows /\ UNCHANGED <<project, unseen>>
          /\ creation' = [creation EXCEPT ![c] = [pc |-> "sent", mine |-> TRUE, entry |-> board.form]]
          /\ creation[c].pc = "free"
      BY <1>10 DEF SubmitProject, PageInv, Boards
    <2>2. Expected = {}
      BY <2>1 DEF PageInv
    <2>3. Expected' = {c} /\ creation'[c].pc = "sent"
      BY <2>1, <2>2 DEF PageInv, Expected, InFlight
    <2>4. QED BY <1>4, <2>1, <2>2, <2>3 DEF FreshInv
  <1>11. ASSUME NEW c \in ListCalls, ServeCreation(c) PROVE FreshInv'
    <2>1. PICK stage \in Stages :
            /\ CreateProject(Home, creation[c].entry, stage)
            /\ creation' = [creation EXCEPT ![c] = [pc |-> "ok", mine |-> creation[c].mine, entry |-> creation[c].entry,
                                                 card |-> [id |-> Len(project) + 1, stage |-> stage]]]
      BY <1>11 DEF ServeCreation, PageInv
    <2>2. creation[c].pc = "sent" /\ UNCHANGED board /\ unseen' = (unseen \/ ~creation[c].mine)
      BY <1>11 DEF ServeCreation
    <2>3. CASE ~creation[c].mine
      BY <1>2, <2>2, <2>3
    <2>4. CASE unseen
      BY <1>2, <2>2, <2>4
    <2>5. CASE creation[c].mine /\ ~unseen
      <3>1. c \in Expected
        BY <2>2, <2>5 DEF Expected, InFlight
      <3>2. \A d \in Expected : d = c
        BY <3>1 DEF PageInv
      <3>3. board.view = "open" /\ board.rows = ListProjects(Home)
        BY <2>2, <2>5, <3>1, <3>2 DEF PageInv, FreshInv
      <3>4. PICK r : r = [firm |-> Home, by |-> Home, entry |-> creation[c].entry, stage |-> stage]
        OBVIOUS
      <3>5. creation[c].entry # 0
        BY <3>1 DEF PageInv, Expected
      <3>6. r # Missing
        BY <3>4, <3>5 DEF Missing
      <3>7. project' = Append(project, r) /\ r.firm = Home /\ r.stage = stage
        BY <2>1, <3>4 DEF CreateProject
      <3>8. ListProjects(Home)' = <<[id |-> Len(project) + 1, stage |-> stage]>> \o ListProjects(Home)
        BY <3>6, <3>7, ListLonger
      <3>9. creation'[c].pc = "ok" /\ creation'[c].card = [id |-> Len(project) + 1, stage |-> stage]
            /\ \A d \in ListCalls : d # c => creation'[d] = creation[d]
        BY <2>1 DEF PageInv
      <3>10. Expected' \in SUBSET {c}
        BY <2>2, <3>2, <3>9 DEF Expected, InFlight
      <3>11. c \in Expected'
        BY <2>1, <3>1 DEF PageInv, Expected, InFlight
      <3>12. QED BY <2>2, <3>3, <3>8, <3>9, <3>10, <3>11 DEF FreshInv
    <2>6. QED BY <2>2, <2>3, <2>4, <2>5 DEF PageInv
  <1>12. ASSUME NEW c \in ListCalls, FailCreation(c) PROVE FreshInv'
    <2>1. CASE creation[c].pc = "ok"
      BY <1>2, <1>12, <2>1 DEF FailCreation
    <2>2. CASE creation[c].pc # "ok"
      <3>1. UNCHANGED <<project, board, unseen>> /\ creation[c].pc = "sent"
            /\ creation' = [creation EXCEPT ![c].pc = "refused"]
        BY <1>12, <2>2 DEF FailCreation
      <3>2. /\ creation'[c].pc = "refused" /\ creation'[c].mine = creation[c].mine
            /\ \A d \in ListCalls : d # c => creation'[d] = creation[d]
        BY <3>1 DEF PageInv, Creations
      <3>3. Expected' = Expected
        BY <3>1, <3>2 DEF Expected, InFlight
      <3>4. \A d \in Expected : (creation'[d].pc = "ok" <=> creation[d].pc = "ok") /\ (d # c => creation'[d] = creation[d])
        BY <3>1, <3>2 DEF Expected, InFlight
      <3>5. \A d \in Expected : creation[d].pc = "ok" => d # c
        BY <3>1
      <3>6. QED BY <1>4, <3>1, <3>3, <3>4, <3>5 DEF FreshInv
    <2>3. QED BY <2>1, <2>2
  <1>13. ASSUME NEW c \in ListCalls, ReceiveCreated(c) PROVE FreshInv'
    <2>1. /\ creation[c].pc \in {"ok", "refused"} /\ UNCHANGED <<project, unseen>> /\ board'.view = board.view
          /\ \A d \in ListCalls : creation'[d] = IF d = c THEN NoCreation ELSE creation[d]
      BY <1>13 DEF ReceiveCreated, PageInv, Boards
    <2>2. Expected' = Expected \ {c}
      BY <2>1 DEF Expected, InFlight, NoCreation
    <2>3. CASE ~creation[c].mine
      <3>1. UNCHANGED board
        BY <1>13, <2>3 DEF ReceiveCreated
      <3>2. Expected' = Expected /\ \A d \in Expected : creation'[d] = creation[d]
        BY <2>1, <2>2, <2>3 DEF Expected, InFlight
      <3>3. QED BY <1>4, <2>1, <3>1, <3>2 DEF FreshInv
    <2>4. CASE creation[c].mine
      <3>1. c \in Expected
        BY <2>1, <2>4 DEF Expected, InFlight
      <3>2. Expected' = {} /\ (\A d \in Expected : d = c) /\ board.view = "open"
        BY <2>2, <3>1 DEF PageInv
      <3>3. CASE creation[c].pc = "ok"
        <4>1. board'.rows = <<creation[c].card>> \o board.rows
          BY <1>13, <2>4, <3>3 DEF ReceiveCreated, PageInv, Boards
        <4>2. ~unseen => ListProjects(Home) = <<creation[c].card>> \o board.rows
          BY <3>1, <3>2, <3>3 DEF FreshInv
        <4>3. QED BY <1>4, <2>1, <3>2, <4>1, <4>2 DEF FreshInv
      <3>4. CASE creation[c].pc # "ok"
        <4>1. board'.rows = board.rows
          BY <1>13, <2>4, <3>4 DEF ReceiveCreated, PageInv, Boards
        <4>2. ~unseen => board.rows = ListProjects(Home)
          BY <3>2, <3>4 DEF FreshInv
        <4>3. QED BY <1>4, <2>1, <3>2, <4>1, <4>2 DEF FreshInv
      <3>5. QED BY <3>3, <3>4
    <2>5. QED BY <2>3, <2>4
  <1>14. QED
    BY <1>5, <1>6, <1>7, <1>8, <1>9, <1>10, <1>11, <1>12, <1>13 DEF ListNext, ListPage, listVars

\* Each entry has one row at most.
LEMMA OncePerEntry ==
  ASSUME RowsInv, EntryInv
  PROVE  StoredOnce
  <1> SUFFICES ASSUME NEW n \in 1..typed, n \notin lost
               PROVE  Cardinality({x \in DOMAIN project : project[x].entry = n}) <= 1
    BY DEF StoredOnce
  <1> DEFINE S == {x \in DOMAIN project : project[x].entry = n}
  <1>1. \A x, y \in S : x = y
    BY DEF EntryInv, Has
  <1>2. S = {} \/ \E x : S = {x}
    BY <1>1
  <1> HIDE DEF S
  <1>3. Cardinality(S) \in {0, 1}
    BY <1>2, FS_EmptySet, FS_Singleton
  <1>4. Cardinality(S) <= 1
    BY <1>3
  <1>5. QED BY <1>4 DEF S

\* The rows and the page of a list of projects keep what they promise.
LEMMA BoardCorrect == ListSpec => []BoardInv
  <1>1. ListInit => BoardInv
    <2> SUFFICES ASSUME ListInit PROVE BoardInv
      OBVIOUS
    <2>1. project = <<>> /\ project \in Seq(ProjectRows) /\ Len(project) = 0 /\ DOMAIN project = {}
      BY DEF ListInit
    <2>2. RowsInv
      BY <2>1, ListAssumption DEF ListInit, RowsInv, NotEditing
    <2>3. board \in Boards /\ 0 \in 0..MaxEntries /\ board.form = 0 /\ 0 <= 0
      BY ListAssumption DEF ListInit, Boards
    <2>4. creation \in [ListCalls -> Creations] /\ InFlight = {} /\ Expected = {}
      BY ListAssumption DEF ListInit, Creations, NoCreation, InFlight, Expected
    <2>5. PageInv
      <3>1. typed = 0 /\ unseen = FALSE
        BY DEF ListInit
      <3>2. QED BY <2>3, <2>4, <3>1 DEF PageInv
    <2>6. EntryInv /\ FreshInv
      <3>1. 1..typed = {} /\ board.view # "open"
        BY DEF ListInit
      <3>2. QED BY <3>1 DEF EntryInv, FreshInv
    <2>7. QED BY <2>2, <2>5, <2>6 DEF BoardInv
  <1>2. BoardInv /\ [ListNext]_listVars => BoardInv'
    BY RowsStep, PageInvStep, StoredOnceStep, BoardFreshStep DEF BoardInv
  <1>3. QED BY <1>1, <1>2, PTL DEF ListSpec

\* ListKept: what a user typed once is stored once, a page that awaits nothing
\* lists what there is, and no row changes its tenant (ProjectsList.tsx).
THEOREM ListKeptCorrect == ListSpec => []ListKept
  <1>1. BoardInv => ListKept
    <2> SUFFICES ASSUME BoardInv PROVE ListKept
      OBVIOUS
    <2>1. board.view = "open" /\ Expected = {} /\ ~unseen => board.rows = ListProjects(Home)
      BY DEF BoardInv, FreshInv
    <2>2. QED BY <2>1, OncePerEntry DEF BoardInv, RowsInv, ListKept, ProjectsListed
  <1>2. QED BY <1>1, BoardCorrect, PTL

-----------------------------------------------------------------------------
(* Templates *)

\* An order of a finite set lists each element once.
LEMMA OrderLists ==
  ASSUME NEW S, IsFiniteSet(S), NEW order \in SetToSeqs(S)
  PROVE  /\ order \in Seq(S) /\ Len(order) = Cardinality(S) /\ ToSet(order) = S
         /\ DOMAIN order = 1..Len(order) /\ \A i, j \in DOMAIN order : i # j => order[i] # order[j]
  <1> DEFINE D == 1..Cardinality(S)
  <1>1. Cardinality(S) \in Nat
    BY FS_CardinalityType
  <1>2. order \in [D -> S] /\ \A i, j \in D : i # j => order[i] # order[j]
    BY DEF SetToSeqs
  <1>3. IsFiniteSet(D) /\ Cardinality(D) = Cardinality(S)
    BY <1>1, FS_Interval
  <1> HIDE DEF D
  <1>4. order \in Injection(D, S)
    BY <1>2 DEF Injection, IsInjective
  <1>5. order \in Surjection(D, S)
    BY <1>3, <1>4, FS_Injection
  <1>6. \A x \in S : \E i \in D : order[i] = x
    BY <1>5 DEF Surjection
  <1>7. DOMAIN order = D /\ \A i \in D : order[i] \in S
    BY <1>2
  <1>8. ToSet(order) = S
    BY <1>6, <1>7 DEF ToSet
  <1>9. order \in Seq(S) /\ Len(order) = Cardinality(S)
    BY <1>1, <1>2 DEF D
  <1>10. QED BY <1>1, <1>2, <1>7, <1>8, <1>9 DEF D

\* The elements of a list with one more in front.
LEMMA InFront ==
  ASSUME NEW T, NEW list \in Seq(T), NEW x \in T
  PROVE  /\ <<x>> \o list \in Seq(T) /\ Len(<<x>> \o list) = Len(list) + 1
         /\ ToSet(<<x>> \o list) = ToSet(list) \union {x}
  <1> DEFINE M == <<x>> \o list
  <1>1. M \in Seq(T) /\ Len(M) = Len(list) + 1 /\ Len(list) \in Nat /\ DOMAIN M = 1..(Len(list) + 1)
        /\ DOMAIN list = 1..Len(list)
    BY ConcatProperties
  <1>2. M[1] = x /\ \A i \in 1..Len(list) : M[i + 1] = list[i]
    OBVIOUS
  <1> HIDE DEF M
  <1>3. ToSet(M) \subseteq ToSet(list) \union {x}
    <2> SUFFICES ASSUME NEW i \in 1..(Len(list) + 1) PROVE M[i] \in ToSet(list) \union {x}
      BY <1>1 DEF ToSet
    <2>1. CASE i = 1
      BY <1>2, <2>1
    <2>2. CASE i # 1
      <3>1. PICK j \in 1..Len(list) : i = j + 1
        BY <1>1, <2>2
      <3>2. QED BY <1>1, <1>2, <3>1 DEF ToSet
    <2>3. QED BY <2>1, <2>2
  <1>4. ToSet(list) \union {x} \subseteq ToSet(M)
    <2>1. 1 \in DOMAIN M /\ \A i \in DOMAIN list : i + 1 \in DOMAIN M
      BY <1>1
    <2>2. QED BY <1>1, <1>2, <2>1 DEF ToSet
  <1>5. QED BY <1>1, <1>3, <1>4 DEF M

BodyRows == TemplateRows \union {NoTemplate}
Fillings == UNION {[N -> Values] : N \in SUBSET Names}
Shelves ==
  {Away} \union [pc : {"open"}, list : Seq(Templates), stale : BOOLEAN]
    \union [pc : {"creating"}, new : Templates, list : Seq(Templates), stale : BOOLEAN]
Desks ==
  {Away} \union [pc : {"open", "rendering"}, of : Templates, row : TemplateRows, stale : BOOLEAN,
                 values : Fillings, sent : Fillings, preview : [body : Seq(Pieces), values : Fillings]]

\* One page at a time; the other is away.
ViewInv ==
  /\ template \in [Templates -> BodyRows] /\ IsFiniteSet(Present)
  /\ lookup = NoLookup \/ lookup \in [pc : {"found"}, of : Templates, row : BodyRows]
  /\ shelf \in Shelves /\ desk \in Desks
  /\ shelf # Away => desk = Away

\* The list has each template there is, but for one that is being created.
ShelfInv ==
  shelf # Away /\ ~shelf.stale =>
    /\ Cardinality(ToSet(shelf.list)) = Len(shelf.list)
    /\ shelf.pc = "open" => ToSet(shelf.list) = Present
    /\ shelf.pc = "creating" => shelf.new \notin ToSet(shelf.list) /\ ToSet(shelf.list) \union {shelf.new} = Present

\* The page has the row as it is, and has rendered nothing but its body.
DeskInv ==
  desk # Away /\ ~desk.stale =>
    /\ template[desk.of] = desk.row
    /\ desk.preview.body \in {<<>>, desk.row.body}

TemplatesInv == ViewInv /\ ShelfInv /\ DeskInv

\* A row of a template has its body.
LEMMA RowsKnown ==
  /\ NoTemplate \notin TemplateRows
  /\ \A r \in TemplateRows : r.body \in Seq(Pieces)
  <1>1. NoTemplate \notin [body : Seq(Pieces), declared : SUBSET Names]
    <2>1. \A r \in [body : Seq(Pieces), declared : SUBSET Names] : DOMAIN r = {"body", "declared"}
      OBVIOUS
    <2>2. "absent" \in DOMAIN NoTemplate
      BY DEF NoTemplate
    <2>3. QED BY <2>1, <2>2
  <1>2. QED BY <1>1, TemplateAssumption

\* The list page by what it is doing.
LEMMA ShelfKinds ==
  ASSUME shelf \in Shelves
  PROVE  /\ shelf # Away => shelf.pc \in {"open", "creating"}
         /\ shelf.pc = "open" => shelf \in [pc : {"open"}, list : Seq(Templates), stale : BOOLEAN]
         /\ shelf.pc = "creating" =>
              shelf \in [pc : {"creating"}, new : Templates, list : Seq(Templates), stale : BOOLEAN]
  BY DEF Shelves, Away

\* The page of a template once it is open.
LEMMA DeskKinds ==
  ASSUME desk \in Desks, desk # Away
  PROVE  desk \in [pc : {"open", "rendering"}, of : Templates, row : TemplateRows, stale : BOOLEAN,
                   values : Fillings, sent : Fillings, preview : [body : Seq(Pieces), values : Fillings]]
  BY DEF Desks

\* A change by another client.
LEMMA ChangeViews ==
  ASSUME TemplatesInv, ChangeTemplate
  PROVE  TemplatesInv'
  <1>1. lookup \in [pc : {"found"}, of : Templates, row : BodyRows]
    BY DEF TemplatesInv, ViewInv, ChangeTemplate
  <1>2. template' \in [Templates -> BodyRows] /\ lookup' = NoLookup
    BY <1>1 DEF TemplatesInv, ViewInv, ChangeTemplate
  <1>3. Present' \subseteq Present
    BY <1>1, <1>2 DEF TemplatesInv, ViewInv, ChangeTemplate, Present
  <1>4. IsFiniteSet(Present')
    BY <1>3, FS_Subset DEF TemplatesInv, ViewInv
  <1>5. shelf' \in Shelves /\ (shelf' # Away => shelf # Away /\ shelf'.stale)
    <2>1. CASE shelf = Away
      BY <2>1 DEF ChangeTemplate, TemplatesInv, ViewInv
    <2>2. CASE shelf # Away
      <3>1. shelf' = [shelf EXCEPT !.stale = TRUE]
        BY <2>2 DEF ChangeTemplate
      <3>2. CASE shelf.pc = "open"
        BY <2>2, <3>1, <3>2, ShelfKinds DEF Shelves, TemplatesInv, ViewInv
      <3>3. CASE shelf.pc = "creating"
        BY <2>2, <3>1, <3>3, ShelfKinds DEF Shelves, TemplatesInv, ViewInv
      <3>4. QED BY <2>2, <3>2, <3>3, ShelfKinds DEF TemplatesInv, ViewInv
    <2>3. QED BY <2>1, <2>2
  <1>6. desk' \in Desks /\ (desk' # Away => desk # Away)
    <2>1. CASE desk' = desk
      BY <2>1 DEF TemplatesInv, ViewInv
    <2>2. CASE desk' # desk
      <3>1. desk # Away /\ desk' = [desk EXCEPT !.stale = TRUE]
        BY <2>2 DEF ChangeTemplate
      <3>2. QED BY <3>1, DeskKinds DEF Desks, TemplatesInv, ViewInv
    <2>3. QED BY <2>1, <2>2
  <1>7. DeskInv'
    <2> SUFFICES ASSUME desk' # Away, ~desk'.stale
                 PROVE  template'[desk'.of] = desk'.row /\ desk'.preview.body \in {<<>>, desk'.row.body}
      BY DEF DeskInv
    <2>1. desk # Away /\ desk \in Desks
      BY <1>6 DEF TemplatesInv, ViewInv
    <2>2. desk' = desk
      <3>1. [desk EXCEPT !.stale = TRUE].stale = TRUE
        BY <2>1, DeskKinds
      <3>2. QED BY <3>1 DEF ChangeTemplate
    <2>3. desk.of # lookup.of
      <3>1. desk # [desk EXCEPT !.stale = TRUE]
        <4>1. [desk EXCEPT !.stale = TRUE].stale = TRUE
          BY <2>1, DeskKinds
        <4>2. QED BY <2>2, <4>1
      <3>2. QED BY <2>1, <2>2, <3>1 DEF ChangeTemplate
    <2>4. template'[desk.of] = template[desk.of]
      BY <1>1, <2>3 DEF ChangeTemplate
    <2>5. QED BY <2>1, <2>2, <2>4 DEF TemplatesInv, DeskInv
  <1>8. QED BY <1>2, <1>4, <1>5, <1>6, <1>7 DEF TemplatesInv, ViewInv, ShelfInv

\* The list page.
LEMMA ShelfViews ==
  ASSUME TemplatesInv, Shelf
  PROVE  TemplatesInv'
  <1>1. CASE OpenShelf
    <2>1. desk' = Away /\ UNCHANGED <<template, lookup>> /\ desk' \in Desks
      BY <1>1 DEF OpenShelf, Desks
    <2>2. shelf' \in Shelves /\ ShelfInv'
      <3>1. CASE shelf' = [pc |-> "open", list |-> <<>>, stale |-> TRUE]
        BY <3>1 DEF Shelves, ShelfInv
      <3>2. ASSUME NEW list \in SetToSeqs(Present), shelf' = [pc |-> "open", list |-> list, stale |-> FALSE]
            PROVE  shelf' \in Shelves /\ ShelfInv'
        <4>1. list \in Seq(Present) /\ Len(list) = Cardinality(Present) /\ ToSet(list) = Present
          BY OrderLists DEF TemplatesInv, ViewInv
        <4>2. list \in Seq(Templates) /\ Present' = Present
          BY <2>1, <4>1 DEF Present
        <4>3. shelf'.pc = "open" /\ shelf'.list = list
          BY <3>2
        <4>4. QED BY <3>2, <4>1, <4>2, <4>3 DEF Shelves, ShelfInv
      <3>3. QED BY <1>1, <3>1, <3>2 DEF OpenShelf
    <2>3. QED BY <2>1, <2>2 DEF TemplatesInv, ViewInv, DeskInv, Present
  <1>2. CASE Created
    <2>1. shelf \in [pc : {"creating"}, new : Templates, list : Seq(Templates), stale : BOOLEAN] /\ shelf # Away
      BY <1>2, ShelfKinds DEF Created, TemplatesInv, ViewInv, Away
    <2>2. shelf' = [pc |-> "open", list |-> <<shelf.new>> \o shelf.list, stale |-> shelf.stale]
          /\ UNCHANGED <<template, lookup, desk>> /\ desk = Away
      BY <1>2, <2>1 DEF Created, Prepended, TemplatesInv, ViewInv
    <2>3. shelf.list \in Seq(Templates) /\ shelf.new \in Templates
      BY <2>1
    <2>4. PICK list : list = <<shelf.new>> \o shelf.list
      OBVIOUS
    <2>5. list \in Seq(Templates) /\ Len(list) = Len(shelf.list) + 1 /\ ToSet(list) = ToSet(shelf.list) \union {shelf.new}
      BY <2>3, <2>4, InFront
    <2>6. shelf' = [pc |-> "open", list |-> list, stale |-> shelf.stale] /\ shelf' \in Shelves
      BY <2>1, <2>2, <2>4, <2>5 DEF Shelves
    <2>7. ASSUME ~shelf.stale PROVE Cardinality(ToSet(list)) = Len(list) /\ ToSet(list) = Present
      <3>1. /\ Cardinality(ToSet(shelf.list)) = Len(shelf.list) /\ shelf.new \notin ToSet(shelf.list)
            /\ ToSet(shelf.list) \union {shelf.new} = Present
        BY <2>1, <2>7 DEF TemplatesInv, ShelfInv
      <3>2. IsFiniteSet(ToSet(shelf.list))
        BY <3>1, FS_Subset DEF TemplatesInv, ViewInv
      <3>3. Cardinality(ToSet(shelf.list) \union {shelf.new}) = Cardinality(ToSet(shelf.list)) + 1
        BY <3>1, <3>2, FS_AddElement
      <3>4. QED BY <2>5, <3>1, <3>3
    <2>8. ShelfInv'
      <3>1. shelf'.pc = "open" /\ shelf'.list = list /\ shelf'.stale = shelf.stale /\ Present' = Present
        BY <2>2, <2>6 DEF Present
      <3>2. QED BY <2>7, <3>1 DEF ShelfInv
    <2>9. QED BY <2>2, <2>6, <2>8 DEF TemplatesInv, ViewInv, DeskInv, Present
  <1>3. ASSUME NEW x \in Templates, NEW r \in TemplateRows, HandleCreate(x, r) PROVE TemplatesInv'
    <2>1. shelf \in [pc : {"open"}, list : Seq(Templates), stale : BOOLEAN] /\ shelf # Away
      BY <1>3, ShelfKinds DEF HandleCreate, TemplatesInv, ViewInv, Away
    <2>2. desk = Away /\ UNCHANGED <<lookup, desk>>
      BY <1>3, <2>1 DEF HandleCreate, TemplatesInv, ViewInv
    <2>3. template' = [template EXCEPT ![x] = r] /\ x \notin Present /\ x \notin ToSet(shelf.list)
      BY <1>3 DEF HandleCreate
    <2>4. template' \in [Templates -> BodyRows] /\ Present' = Present \union {x}
      BY <2>3, RowsKnown DEF TemplatesInv, ViewInv, BodyRows, Present
    <2>5. IsFiniteSet(Present')
      BY <2>4, FS_AddElement DEF TemplatesInv, ViewInv
    <2>6. CASE shelf' = [pc |-> "creating", new |-> x, list |-> shelf.list, stale |-> shelf.stale]
      <3>1. shelf' \in Shelves
        BY <2>1, <2>6 DEF Shelves
      <3>2. ShelfInv'
        <4>1. shelf'.pc = "creating" /\ shelf'.new = x /\ shelf'.list = shelf.list /\ shelf'.stale = shelf.stale
          BY <2>6
        <4>2. ~shelf.stale => Cardinality(ToSet(shelf.list)) = Len(shelf.list) /\ ToSet(shelf.list) = Present
          BY <2>1 DEF ShelfInv, TemplatesInv
        <4>3. QED BY <2>3, <2>4, <4>1, <4>2 DEF ShelfInv
      <3>3. QED BY <2>2, <2>4, <2>5, <3>1, <3>2 DEF TemplatesInv, ViewInv, DeskInv
    <2>7. CASE shelf' = [shelf EXCEPT !.stale = TRUE]
      <3>1. shelf' \in Shelves /\ shelf'.stale
        BY <2>1, <2>7 DEF Shelves
      <3>2. QED BY <2>2, <2>4, <2>5, <3>1 DEF TemplatesInv, ViewInv, ShelfInv, DeskInv
    <2>8. QED BY <1>3, <2>6, <2>7 DEF HandleCreate
  <1>4. QED BY <1>1, <1>2, <1>3 DEF Shelf

\* The page of one template.
LEMMA DeskViews ==
  ASSUME TemplatesInv, Desk
  PROVE  TemplatesInv'
  <1>1. ASSUME desk # Away, desk' \in Desks, UNCHANGED <<template, lookup, shelf>>, desk'.stale = desk.stale,
               desk'.of = desk.of, desk'.row = desk.row,
               desk'.preview = desk.preview \/ desk'.preview.body = template[desk.of].body
        PROVE  TemplatesInv'
    <2>1. shelf = Away
      BY <1>1 DEF TemplatesInv, ViewInv
    <2>2. DeskInv'
      BY <1>1 DEF TemplatesInv, DeskInv
    <2>3. QED BY <1>1, <2>1, <2>2 DEF TemplatesInv, ViewInv, ShelfInv, Present
  <1> DEFINE OpenDesks == [pc : {"open", "rendering"}, of : Templates, row : TemplateRows, stale : BOOLEAN,
                         values : Fillings, sent : Fillings, preview : [body : Seq(Pieces), values : Fillings]]
  <1>2. desk # Away => desk \in OpenDesks
    BY DeskKinds DEF TemplatesInv, ViewInv
  <1>3. OpenDesks \subseteq Desks
    BY DEF Desks
  <1>4. Away.pc = "away" /\ (desk.pc \in {"open", "rendering"} => desk # Away)
    BY DEF Away
  <1>5. CASE HandleRender
    <2>1. desk \in OpenDesks /\ desk' = [desk EXCEPT !.pc = "rendering", !.sent = desk.values]
          /\ UNCHANGED <<template, lookup, shelf>> /\ desk # Away
      BY <1>2, <1>4, <1>5 DEF HandleRender
    <2>2. desk' \in OpenDesks /\ desk'.stale = desk.stale /\ desk'.of = desk.of /\ desk'.row = desk.row
          /\ desk'.preview = desk.preview
      BY <2>1
    <2>3. QED BY <1>1, <1>3, <2>1, <2>2
  <1>6. CASE Rendered
    <2>1. desk \in OpenDesks /\ UNCHANGED <<template, lookup, shelf>> /\ desk # Away
      BY <1>2, <1>4, <1>6 DEF Rendered
    <2>2. CASE desk' = [desk EXCEPT !.pc = "open"]
      <3>1. desk' \in OpenDesks /\ desk'.stale = desk.stale /\ desk'.of = desk.of /\ desk'.row = desk.row
            /\ desk'.preview = desk.preview
        BY <2>1, <2>2
      <3>2. QED BY <1>1, <1>3, <2>1, <3>1
    <2>3. CASE desk.of \in Present /\ desk' = [desk EXCEPT !.pc = "open",
                  !.preview = [body |-> template[desk.of].body, values |-> desk.sent]]
      <3>1. template[desk.of] \in TemplateRows
        BY <2>3 DEF TemplatesInv, ViewInv, BodyRows, Present
      <3>2. [body |-> template[desk.of].body, values |-> desk.sent] \in [body : Seq(Pieces), values : Fillings]
        BY <2>1, <3>1, RowsKnown
      <3>3. desk' \in OpenDesks /\ desk'.stale = desk.stale /\ desk'.of = desk.of /\ desk'.row = desk.row
            /\ desk'.preview = [body |-> template[desk.of].body, values |-> desk.sent]
        BY <2>1, <2>3, <3>2
      <3>4. desk'.preview.body = template[desk.of].body
        BY <3>3
      <3>5. QED BY <1>1, <1>3, <2>1, <3>3, <3>4
    <2>4. QED BY <1>6, <2>2, <2>3 DEF Rendered
  <1>7. ASSUME NEW x \in Templates, OpenDesk(x) PROVE TemplatesInv'
    <2>1. x \in Present /\ shelf' = Away /\ UNCHANGED <<template, lookup>>
      BY <1>7 DEF OpenDesk
    <2>2. template[x] \in TemplateRows
      BY <2>1 DEF TemplatesInv, ViewInv, BodyRows, Present
    <2>3. Unfilled \in Fillings
      <3>1. Unfilled \in [{} -> Values] /\ {} \in SUBSET Names
        BY DEF Unfilled
      <3>2. QED BY <3>1 DEF Fillings
    <2>4. desk' = [pc |-> "open", of |-> x, row |-> template[x], stale |-> FALSE, values |-> Unfilled,
                   sent |-> Unfilled, preview |-> [body |-> <<>>, values |-> Unfilled]]
      BY <1>7 DEF OpenDesk
    <2>5. desk' \in OpenDesks /\ desk'.of = x /\ desk'.row = template[x] /\ desk'.preview.body = <<>>
      BY <2>2, <2>3, <2>4
    <2>6. Away \in Shelves
      BY DEF Shelves
    <2>7. QED BY <1>3, <2>1, <2>5, <2>6 DEF TemplatesInv, ViewInv, ShelfInv, DeskInv, Present
  <1>8. ASSUME NEW n \in Names, NEW value \in Values, TypeValue(n, value) PROVE TemplatesInv'
    <2>1. desk \in OpenDesks /\ desk # Away /\ UNCHANGED <<template, lookup, shelf>>
      BY <1>2, <1>8 DEF TypeValue
    <2>2. PICK filled : filled = [m \in DOMAIN desk.values \union {n} |-> IF m = n THEN value ELSE desk.values[m]]
      OBVIOUS
    <2>3. filled \in Fillings
      <3>1. PICK N \in SUBSET Names : desk.values \in [N -> Values]
        BY <2>1 DEF Fillings
      <3>2. filled \in [N \union {n} -> Values]
        BY <2>2, <3>1
      <3>3. N \union {n} \in SUBSET Names
        BY <3>1
      <3>4. QED BY <3>2, <3>3 DEF Fillings
    <2>4. desk' = [desk EXCEPT !.values = filled]
      BY <1>8, <2>2 DEF TypeValue
    <2>5. desk' \in OpenDesks /\ desk'.stale = desk.stale /\ desk'.of = desk.of /\ desk'.row = desk.row
          /\ desk'.preview = desk.preview
      BY <2>1, <2>3, <2>4
    <2>6. QED BY <1>1, <1>3, <2>1, <2>5
  <1>9. QED BY <1>5, <1>6, <1>7, <1>8 DEF Desk

\* Every step keeps the invariant of the templates.
LEMMA TemplatesStep ==
  ASSUME TemplatesInv, [TemplateNext]_templateVars
  PROVE  TemplatesInv'
  <1>1. ASSUME NEW x \in Templates, NEW r \in BodyRows, FindTemplate(x, r) PROVE TemplatesInv'
    BY <1>1 DEF FindTemplate, TemplatesInv, ViewInv, ShelfInv, DeskInv, Present
  <1>2. CASE UNCHANGED templateVars
    BY <1>2 DEF templateVars, TemplatesInv, ViewInv, ShelfInv, DeskInv, Present
  <1>3. QED BY <1>1, <1>2, ChangeViews, ShelfViews, DeskViews DEF TemplateNext, OtherClients, BodyRows

\* A value stands unescaped only at a raw placeholder, and without what the server
\* matches unless it has odd markup, for any body and any values.
LEMMA RenderedSafe ==
  ASSUME NEW body, NEW values, NEW i \in DOMAIN body, body[i].form # "text",
         ~RenderTemplate(body, values)[i].escaped
  PROVE  /\ body[i].form = "raw"
         /\ "script" \in RenderTemplate(body, values)[i].shows => "odd" \in values[body[i].name]
  <1> DEFINE piece == RenderTemplate(body, values)[i]
             value == values[body[i].name]
  <1>1. piece = IF body[i].name \notin DOMAIN values THEN Nothing ELSE Inserted(body[i].form, value)
    BY DEF RenderTemplate
  <1>2. piece = Inserted(body[i].form, value)
    BY <1>1 DEF Nothing
  <1>3. body[i].form = "raw"
    BY <1>2 DEF Inserted
  <1>4. piece.shows = SanitizeRawHtml(value)
    BY <1>2, <1>3 DEF Inserted
  <1>5. QED BY <1>3, <1>4 DEF SanitizeRawHtml

\* The pages of templates keep what they promise.
LEMMA ShelvesCorrect == TemplateSpec => []TemplatesInv
  <1>1. TemplateInit => TemplatesInv
    <2> SUFFICES ASSUME TemplateInit PROVE TemplatesInv
      OBVIOUS
    <2>1. Present = {} /\ IsFiniteSet(Present)
      BY FS_EmptySet DEF TemplateInit, Present
    <2>2. Away \in Shelves /\ Away \in Desks /\ template \in [Templates -> BodyRows]
      BY DEF TemplateInit, Shelves, Desks, BodyRows
    <2>3. QED BY <2>1, <2>2 DEF TemplateInit, TemplatesInv, ViewInv, ShelfInv, DeskInv
  <1>2. QED BY <1>1, TemplatesStep, PTL DEF TemplateSpec

\* TemplatesTrue, for any templates, names and values: the list page lists each
\* template once; the preview is of the source that the page shows and had a field
\* for each placeholder, unless the template changed meanwhile; and a value stands
\* unescaped only at a raw placeholder (document-templates.service.ts:91-104).
THEOREM TemplatesTrueCorrect == TemplateSpec => []TemplatesTrue
  <1>1. TemplatesInv => TemplatesTrue
    <2> SUFFICES ASSUME TemplatesInv PROVE TemplatesTrue
      OBVIOUS
    <2>1. ShelfTrue
      <3>1. shelf.pc = "open" => shelf # Away
        BY DEF Away
      <3>2. QED BY <3>1 DEF TemplatesInv, ShelfInv, ShelfTrue
    <2>2. PreviewTrue
      <3> SUFFICES ASSUME desk # Away PROVE PreviewTrue
        BY DEF PreviewTrue
      <3> DEFINE body == desk.preview.body
                 values == desk.preview.values
                 html == RenderTemplate(body, values)
      <3>1. desk.stale \/ body \in {<<>>, desk.row.body}
        BY DEF TemplatesInv, DeskInv
      <3>2. ASSUME NEW i \in {j \in DOMAIN body : body[j].form # "text"}
            PROVE  /\ desk.stale \/ body[i].name \in DerivedVars(desk.row)
                   /\ ~html[i].escaped =>
                        /\ body[i].form = "raw"
                        /\ "script" \in html[i].shows => "odd" \in values[body[i].name]
        <4>1. desk.stale \/ body = desk.row.body
          BY <3>1, <3>2
        <4>2. desk.stale \/ body[i].name \in DerivedVars(desk.row)
          BY <3>2, <4>1 DEF DerivedVars
        <4>3. QED BY <3>2, <4>2, RenderedSafe
      <3>3. QED BY <3>1, <3>2 DEF PreviewTrue
    <2>3. QED BY <2>1, <2>2 DEF TemplatesTrue
  <1>2. QED BY <1>1, ShelvesCorrect, PTL

-----------------------------------------------------------------------------
(* The page of a project: lists *)

\* A list shows x once, with status s; or does not show it.
Lists(list, x, s) ==
  \E i \in DOMAIN list :
    list[i].id = x /\ list[i].status = s /\ \A j \in DOMAIN list : list[j].id = x => j = i
Lacks(list, x) == \A i \in DOMAIN list : list[i].id # x

TaskCards == [id : Tasks, status : Statuses]

\* A card in front.
LEMMA FrontCard ==
  ASSUME NEW list \in Seq(TaskCards), NEW x \in Tasks
  PROVE  LET longer == <<[id |-> x, status |-> First]>> \o list
         IN /\ longer \in Seq(TaskCards)
            /\ Lacks(list, x) => Lists(longer, x, First)
            /\ \A y : y # x => (Lacks(list, y) => Lacks(longer, y)) /\ \A s : Lists(list, y, s) => Lists(longer, y, s)
  <1> DEFINE card == [id |-> x, status |-> First]
             M == <<card>> \o list
  <1>1. card \in TaskCards
    BY ProjectAssumption DEF TaskCards
  <1>2. M \in Seq(TaskCards) /\ DOMAIN list = 1..Len(list) /\ Len(list) \in Nat /\ DOMAIN M = 1..(Len(list) + 1)
    BY <1>1, ConcatProperties
  <1>3. M[1] = card /\ \A i \in DOMAIN list : M[i + 1] = list[i] /\ i + 1 \in DOMAIN M /\ i + 1 # 1
    BY <1>1, <1>2
  <1>4. \A i \in DOMAIN M : i # 1 => \E j \in DOMAIN list : i = j + 1 /\ M[i] = list[j]
    <2> SUFFICES ASSUME NEW i \in DOMAIN M, i # 1 PROVE \E j \in DOMAIN list : i = j + 1 /\ M[i] = list[j]
      OBVIOUS
    <2> HIDE DEF M
    <2>1. i - 1 \in DOMAIN list /\ i = (i - 1) + 1
      BY <1>2
    <2>2. QED BY <1>3, <2>1
  <1>5. card.id = x /\ card.status = First
    OBVIOUS
  <1>6. 1 \in DOMAIN M
    BY <1>2
  <1> HIDE DEF M, card
  <1>7. Lacks(list, x) => Lists(M, x, First)
    <2> SUFFICES ASSUME Lacks(list, x) PROVE Lists(M, x, First)
      OBVIOUS
    <2>1. \A j \in DOMAIN M : M[j].id = x => j = 1
      BY <1>4 DEF Lacks
    <2>2. QED BY <1>3, <1>5, <1>6, <2>1 DEF Lists
  <1>8. ASSUME NEW y, y # x, Lacks(list, y) PROVE Lacks(M, y)
    BY <1>3, <1>4, <1>5, <1>8 DEF Lacks
  <1>9. ASSUME NEW y, y # x, NEW s, Lists(list, y, s) PROVE Lists(M, y, s)
    <2>1. PICK i \in DOMAIN list : list[i].id = y /\ list[i].status = s /\ \A j \in DOMAIN list : list[j].id = y => j = i
      BY <1>9 DEF Lists
    <2>2. \A j \in DOMAIN M : M[j].id = y => j = i + 1
      BY <1>3, <1>4, <1>5, <1>9, <2>1
    <2>3. QED BY <1>3, <2>1, <2>2 DEF Lists
  <1>10. QED BY <1>2, <1>7, <1>8, <1>9 DEF M, card

\* A card that shows another status.
LEMMA ShowingCard ==
  ASSUME NEW list \in Seq(TaskCards), NEW x \in Tasks, NEW s \in Statuses
  PROVE  /\ Showing(list, x, s) \in Seq(TaskCards)
         /\ \A b : Lists(list, x, b) => Lists(Showing(list, x, s), x, s)
         /\ \A y : y # x => /\ Lacks(list, y) => Lacks(Showing(list, x, s), y)
                            /\ \A b : Lists(list, y, b) => Lists(Showing(list, x, s), y, b)
  <1> DEFINE M == Showing(list, x, s)
  <1>1. DOMAIN list = 1..Len(list) /\ Len(list) \in Nat /\ \A i \in DOMAIN list : list[i] \in TaskCards
    OBVIOUS
  <1>2. DOMAIN M = DOMAIN list /\ \A i \in DOMAIN list : M[i] = IF list[i].id = x THEN [list[i] EXCEPT !.status = s] ELSE list[i]
    BY DEF Showing
  <1>3. ASSUME NEW i \in DOMAIN list
        PROVE  M[i] \in TaskCards /\ M[i].id = list[i].id /\ M[i].status = IF list[i].id = x THEN s ELSE list[i].status
    BY <1>1, <1>2 DEF TaskCards
  <1>4. M \in Seq(TaskCards)
    <2>1. M = [i \in 1..Len(list) |-> M[i]]
      BY <1>1 DEF Showing
    <2> HIDE DEF M
    <2>2. QED BY <1>1, <1>3, <2>1, IsASeq
  <1> HIDE DEF M
  <1>5. \A b : Lists(list, x, b) => Lists(M, x, s)
    BY <1>2, <1>3 DEF Lists
  <1>6. ASSUME NEW y, y # x PROVE (Lacks(list, y) => Lacks(M, y)) /\ \A b : Lists(list, y, b) => Lists(M, y, b)
    BY <1>2, <1>3, <1>6 DEF Lists, Lacks
  <1>7. QED BY <1>4, <1>5, <1>6 DEF M

\* A card taken out.
LEMMA WithoutCard ==
  ASSUME NEW list \in Seq(TaskCards), NEW x
  PROVE  /\ Without(list, x) \in Seq(TaskCards) /\ Lacks(Without(list, x), x)
         /\ \A y : y # x => /\ Lacks(list, y) => Lacks(Without(list, x), y)
                            /\ \A s : Lists(list, y, s) => Lists(Without(list, x), y, s)
  <1> DEFINE S == {i \in DOMAIN list : list[i].id # x}
             n == Cardinality(S)
             M == Without(list, x)
  <1>1. DOMAIN list = 1..Len(list) /\ Len(list) \in Nat /\ \A i \in DOMAIN list : list[i] \in TaskCards
    OBVIOUS
  <1>2. S \in SUBSET Nat /\ IsFiniteSet(S) /\ n \in Nat
    <2>1. IsFiniteSet(1..Len(list)) /\ S \in SUBSET (1..Len(list))
      BY <1>1, FS_Interval
    <2>2. QED BY <2>1, FS_Subset, FS_CardinalityType
  <1>3. M = [k \in 1..n |-> list[AtPlace(S, n + 1 - k)]]
    BY DEF Without, AtPlace, PlaceIn
  <1>4. \A i \in S : i \in DOMAIN list /\ list[i].id # x
    OBVIOUS
  <1>5. \A i \in DOMAIN list : list[i].id # x => i \in S
    OBVIOUS
  <1> HIDE DEF S, n, M
  <1>6. ASSUME NEW k \in 1..n
        PROVE  /\ n + 1 - k \in 1..n /\ AtPlace(S, n + 1 - k) \in S /\ PlaceIn(S, AtPlace(S, n + 1 - k)) = n + 1 - k
               /\ M[k] = list[AtPlace(S, n + 1 - k)]
    <2>1. n + 1 - k \in 1..n
      BY <1>2
    <2>2. QED BY <1>2, <1>3, <2>1, PlaceOf DEF n
  <1>7. ASSUME NEW i \in S PROVE \E k \in 1..n : i = AtPlace(S, n + 1 - k)
    <2>1. PlaceIn(S, i) \in 1..n
      <3>1. {j \in S : j >= i} \in SUBSET S /\ i \in {j \in S : j >= i}
        BY <1>2
      <3>2. IsFiniteSet({j \in S : j >= i}) /\ Cardinality({j \in S : j >= i}) <= n /\ Cardinality({j \in S : j >= i}) \in Nat
        BY <1>2, <3>1, FS_Subset, FS_CardinalityType DEF n
      <3>3. Cardinality({j \in S : j >= i}) # 0
        BY <3>1, <3>2, FS_EmptySet
      <3>4. QED BY <1>2, <3>2, <3>3 DEF PlaceIn
    <2>2. PICK k \in 1..n : PlaceIn(S, i) = n + 1 - k
      <3>1. n + 1 - PlaceIn(S, i) \in 1..n /\ PlaceIn(S, i) = n + 1 - (n + 1 - PlaceIn(S, i))
        BY <1>2, <2>1
      <3>2. QED BY <3>1
    <2>3. i = AtPlace(S, n + 1 - k)
      BY <1>2, <1>6, <2>2, PlaceOf DEF n
    <2>4. QED BY <2>3
  <1>8. \A k, l \in 1..n : AtPlace(S, n + 1 - k) = AtPlace(S, n + 1 - l) => k = l
    <2> SUFFICES ASSUME NEW k \in 1..n, NEW l \in 1..n, AtPlace(S, n + 1 - k) = AtPlace(S, n + 1 - l) PROVE k = l
      OBVIOUS
    <2>1. n + 1 - k = n + 1 - l
      BY <1>6
    <2>2. QED BY <1>2, <2>1
  <1>9. DOMAIN M = 1..n /\ M \in Seq(TaskCards)
    <2>1. \A k \in 1..n : list[AtPlace(S, n + 1 - k)] \in TaskCards
      BY <1>1, <1>4, <1>6
    <2>2. QED BY <1>2, <1>3, <2>1, IsASeq
  <1>10. Lacks(M, x)
    BY <1>4, <1>6, <1>9 DEF Lacks
  <1>11. ASSUME NEW y, y # x, Lacks(list, y) PROVE Lacks(M, y)
    BY <1>4, <1>6, <1>9, <1>11 DEF Lacks
  <1>12. ASSUME NEW y, y # x, NEW s, Lists(list, y, s) PROVE Lists(M, y, s)
    <2>1. PICK i \in DOMAIN list : list[i].id = y /\ list[i].status = s /\ \A j \in DOMAIN list : list[j].id = y => j = i
      BY <1>12 DEF Lists
    <2>2. PICK k \in 1..n : i = AtPlace(S, n + 1 - k)
      BY <1>5, <1>7, <1>12, <2>1
    <2>3. \A l \in 1..n : M[l].id = y => l = k
      <3> SUFFICES ASSUME NEW l \in 1..n, M[l].id = y PROVE l = k
        OBVIOUS
      <3>1. AtPlace(S, n + 1 - l) \in DOMAIN list /\ M[l] = list[AtPlace(S, n + 1 - l)]
        BY <1>4, <1>6
      <3>2. AtPlace(S, n + 1 - l) = i
        BY <2>1, <3>1
      <3>3. QED BY <1>8, <2>2, <3>2
    <2>4. QED BY <1>6, <1>9, <2>1, <2>2, <2>3 DEF Lists
  <1>13. QED BY <1>9, <1>10, <1>11, <1>12 DEF M

\* An order of the stored tasks lists each of them.
LEMMA OrderCards ==
  ASSUME NEW S, IsFiniteSet(S), S \subseteq Tasks, NEW order \in SetToSeqs(S),
         \A x \in S : task[x] \in Statuses
  PROVE  LET list == [i \in DOMAIN order |-> [id |-> order[i], status |-> task[order[i]]]]
         IN /\ list \in Seq(TaskCards)
            /\ \A x \in S : Lists(list, x, task[x])
            /\ \A x : x \notin S => Lacks(list, x)
  <1> DEFINE list == [i \in DOMAIN order |-> [id |-> order[i], status |-> task[order[i]]]]
  <1>1. /\ order \in Seq(S) /\ ToSet(order) = S /\ DOMAIN order = 1..Len(order) /\ Len(order) \in Nat
        /\ \A i, j \in DOMAIN order : i # j => order[i] # order[j]
    BY OrderLists
  <1>2. \A i \in DOMAIN order : order[i] \in S
    BY <1>1
  <1>3. \A i \in 1..Len(order) : [id |-> order[i], status |-> task[order[i]]] \in TaskCards
    BY <1>1, <1>2 DEF TaskCards
  <1>4. list \in Seq(TaskCards)
    BY <1>1, <1>3, IsASeq
  <1>5. DOMAIN list = DOMAIN order /\ \A i \in DOMAIN order : list[i].id = order[i] /\ list[i].status = task[order[i]]
    OBVIOUS
  <1> HIDE DEF list
  <1>6. ASSUME NEW x \in S PROVE Lists(list, x, task[x])
    <2>1. PICK i \in DOMAIN order : order[i] = x
      BY <1>1 DEF ToSet
    <2>2. \A j \in DOMAIN list : list[j].id = x => j = i
      BY <1>1, <1>5, <2>1
    <2>3. QED BY <1>5, <2>1, <2>2 DEF Lists
  <1>7. ASSUME NEW x, x \notin S PROVE Lacks(list, x)
    BY <1>2, <1>5, <1>7 DEF Lacks
  <1>8. QED BY <1>4, <1>6, <1>7 DEF list

-----------------------------------------------------------------------------
(* The page of a project *)

LoadCalls ==
  [pc : {"sent", "refused"}, op : {"load"}, mine : BOOLEAN]
    \union [pc : {"ok"}, op : {"load"}, mine : BOOLEAN, list : Seq(TaskCards)]
TaskCalls ==
  [pc : {"sent", "found", "ok", "refused"}, op : {"create", "status", "delete"}, task : Tasks,
   mine : BOOLEAN, next : Statuses, before : Statuses]

\* The list shows x with its status, if it is stored; here what of x is stored.
Agrees(list, x, status) == IF status \in Statuses THEN Lists(list, x, status) ELSE Lacks(list, x)

\* What a call about x that has nothing in its way knows of x, and the page shows.
Settles(k, list, x, status) ==
  /\ k.op = "create" => status = (IF k.pc = "ok" THEN First ELSE "new") /\ k.next = First /\ Lacks(list, x)
  /\ k.op = "status" => status = (IF k.pc = "ok" THEN k.next ELSE k.before) /\ Lists(list, x, k.next)
  /\ k.op = "delete" => IF k.pc = "ok" THEN status = "gone" ELSE Agrees(list, x, status)

Sendings == {Free} \union LoadCalls \union TaskCalls

PageStates == [view : {"closed", "loading", "ready", "failed"}, list : Seq(TaskCards)]

CallsInv ==
  /\ alive \in BOOLEAN /\ task \in [Tasks -> Statuses \union {"new", "gone"}] /\ IsFiniteSet(StoredTasks)
  /\ page \in PageStates
  /\ call \in [PageCalls -> Sendings]

\* One call at a time about a task that is not crossed, and none while loading.
LoneInv ==
  /\ \A x \in Tasks \ crossed : \A c \in About(x) : call[c].mine /\ \A d \in About(x) : d = c
  /\ \A c \in Mine : call[c].op = "load" => page.view = "loading" /\ \A d \in Mine : d = c

\* What the page will show of each task when its calls are answered.
WillShow(x) ==
  /\ \A c \in Mine : call[c].op = "load" /\ call[c].pc = "ok" => Agrees(call[c].list, x, task[x])
  /\ Ready /\ About(x) = {} => Agrees(page.list, x, task[x])
  /\ Ready => \A c \in About(x) : Settles(call[c], page.list, x, task[x])

ShowInv == \A x \in Tasks \ crossed : WillShow(x)

DetailInv == CallsInv /\ LoneInv /\ ShowInv

\* A call loads the page or is about one task.
LEMMA CallKinds ==
  ASSUME CallsInv, NEW c \in PageCalls
  PROVE  /\ call[c] \in Sendings
         /\ call[c] # Free => call[c] \in LoadCalls \union TaskCalls
         /\ c \in Flying => (call[c].op = "load" <=> call[c] \in LoadCalls)
         /\ c \in Flying => (call[c].op # "load" <=> call[c] \in TaskCalls)
         /\ \A k \in LoadCalls \union TaskCalls : k # Free
  <1>1. call[c] \in Sendings
    BY DEF CallsInv
  <1>2. \A k \in LoadCalls : k.op = "load" /\ k.pc # "free"
    BY DEF LoadCalls
  <1>3. \A k \in TaskCalls : k.op # "load" /\ k.pc # "free"
    BY DEF TaskCalls
  <1>4. Free.pc = "free"
    BY DEF Free
  <1>5. QED BY <1>1, <1>2, <1>3, <1>4 DEF Sendings, Flying

\* Where nothing about x changes, it will be shown as before.
LEMMA ShownAsBefore ==
  ASSUME NEW x, WillShow(x), task'[x] = task[x], About(x)' = About(x), \A c \in About(x) : call'[c] = call[c],
         Ready' => Ready,
         Ready => /\ Lacks(page.list, x) => Lacks(page'.list, x)
                  /\ \A s : Lists(page.list, x, s) => Lists(page'.list, x, s),
         \A c \in Mine' : call'[c].op = "load" /\ call'[c].pc = "ok" => c \in Mine /\ call'[c] = call[c]
  PROVE  WillShow(x)'
  <1>1. Ready => (Agrees(page.list, x, task[x]) => Agrees(page'.list, x, task[x]))
    BY DEF Agrees
  <1>2. ASSUME NEW k, Ready, Settles(k, page.list, x, task[x]) PROVE Settles(k, page'.list, x, task[x])
    BY <1>1, <1>2 DEF Settles
  <1>3. \A c \in Mine' : call'[c].op = "load" /\ call'[c].pc = "ok" => Agrees(call'[c].list, x, task'[x])
    BY DEF WillShow
  <1>4. Ready' /\ About(x)' = {} => Agrees(page'.list, x, task'[x])
    BY <1>1 DEF WillShow
  <1>5. Ready' => \A c \in About(x)' : Settles(call'[c], page'.list, x, task'[x])
    BY <1>2 DEF WillShow
  <1>6. QED BY <1>3, <1>4, <1>5 DEF WillShow

\* A call of the page about a task leaves no load under way.
LEMMA NothingLoads ==
  ASSUME LoneInv, NEW c \in Mine, call[c].op # "load"
  PROVE  \A d \in Mine : call[d].op # "load"
  BY DEF LoneInv

\* A call gets on, and is of the same page and about the same task.
LEMMA CallMoves ==
  ASSUME CallsInv, NEW c \in Flying, NEW pc, At(c, pc),
         (pc = "refused" /\ call[c].pc = "sent") \/ (call[c].op # "load" /\ pc \in {"found", "ok", "refused"})
  PROVE  /\ call' \in [PageCalls -> Sendings] /\ Flying' = Flying /\ Mine' = Mine /\ \A x : About(x)' = About(x)
         /\ \A d \in PageCalls : d # c => call'[d] = call[d]
         /\ call'[c].pc = pc /\ call'[c].op = call[c].op /\ call'[c].mine = call[c].mine
         /\ call[c].op # "load" => /\ call'[c].task = call[c].task /\ call'[c].next = call[c].next
                                   /\ call'[c].before = call[c].before
  <1>1. c \in PageCalls /\ call[c] # Free
    BY DEF Flying
  <1>2. call' = [call EXCEPT ![c] = [call[c] EXCEPT !.pc = pc]]
    BY DEF At
  <1>3. PICK k : k = [call[c] EXCEPT !.pc = pc]
    OBVIOUS
  <1>4. CASE call[c] \in TaskCalls
    <2>1. call[c].op # "load" /\ pc \in {"found", "ok", "refused"}
      BY <1>4 DEF TaskCalls
    <2>2. k \in TaskCalls /\ k.pc = pc /\ k.op = call[c].op /\ k.mine = call[c].mine /\ k.task = call[c].task
          /\ k.next = call[c].next /\ k.before = call[c].before
      BY <1>3, <1>4, <2>1 DEF TaskCalls
    <2>3. k # Free
      BY <1>1, <2>2, CallKinds
    <2>4. call'[c] = k /\ call' \in [PageCalls -> Sendings] /\ \A d \in PageCalls : d # c => call'[d] = call[d]
      BY <1>1, <1>2, <1>3, <2>2 DEF CallsInv, Sendings
    <2>5. Flying' = Flying /\ Mine' = Mine /\ \A x : About(x)' = About(x)
      BY <1>1, <2>2, <2>3, <2>4 DEF Flying, Mine, About
    <2>6. QED BY <2>2, <2>4, <2>5
  <1>5. CASE call[c] \in LoadCalls
    <2>1. call[c] \in [pc : {"sent", "refused"}, op : {"load"}, mine : BOOLEAN] /\ pc = "refused"
      BY <1>5 DEF LoadCalls
    <2>2. k \in LoadCalls /\ k.pc = pc /\ k.op = "load" /\ k.mine = call[c].mine /\ call[c].op = "load"
      BY <1>3, <2>1 DEF LoadCalls
    <2>3. k # Free
      BY <1>1, <2>2, CallKinds
    <2>4. call'[c] = k /\ call' \in [PageCalls -> Sendings] /\ \A d \in PageCalls : d # c => call'[d] = call[d]
      BY <1>1, <1>2, <1>3, <2>2 DEF CallsInv, Sendings
    <2>5. Flying' = Flying /\ Mine' = Mine /\ \A x : About(x)' = About(x)
      BY <1>1, <2>2, <2>3, <2>4 DEF Flying, Mine, About
    <2>6. QED BY <2>2, <2>4, <2>5
  <1>6. QED BY <1>1, <1>4, <1>5, CallKinds

\* Of a call, only whether it has succeeded matters.
LEMMA StillOpen ==
  ASSUME DetailInv, NEW c \in Flying, NEW pc, At(c, pc), call[c].pc # "ok", pc # "ok",
         (pc = "refused" /\ call[c].pc = "sent") \/ (call[c].op # "load" /\ pc \in {"found", "refused"}),
         UNCHANGED <<alive, task, page, crossed>>
  PROVE  DetailInv'
  <1>1. /\ call' \in [PageCalls -> Sendings] /\ Flying' = Flying /\ Mine' = Mine /\ \A x : About(x)' = About(x)
        /\ \A d \in PageCalls : d # c => call'[d] = call[d]
        /\ call'[c].pc = pc /\ call'[c].op = call[c].op /\ call'[c].mine = call[c].mine
        /\ call[c].op # "load" => /\ call'[c].task = call[c].task /\ call'[c].next = call[c].next
                                  /\ call'[c].before = call[c].before
    BY CallMoves DEF DetailInv
  <1>2. \A d \in Mine : d \in PageCalls
    BY DEF Mine, Flying
  <1>3. \A x : \A d \in About(x) : d \in PageCalls /\ call[d].op # "load"
    BY DEF About, Flying
  <1>4. CallsInv'
    BY <1>1 DEF DetailInv, CallsInv, StoredTasks
  <1>5. LoneInv'
    BY <1>1, <1>2, <1>3 DEF DetailInv, LoneInv
  <1>6. ASSUME NEW x, NEW d \in About(x), Settles(call[d], page.list, x, task[x])
        PROVE  Settles(call'[d], page.list, x, task[x])
    <2>1. CASE d = c
      BY <1>1, <1>3, <1>6, <2>1 DEF Settles
    <2>2. CASE d # c
      BY <1>1, <1>3, <1>6, <2>2
    <2>3. QED BY <2>1, <2>2
  <1>7. ASSUME NEW x, WillShow(x) PROVE WillShow(x)'
    <2>1. \A d \in Mine : call'[d].op = "load" /\ call'[d].pc = "ok" => Agrees(call'[d].list, x, task[x])
      BY <1>1, <1>2, <1>7 DEF WillShow
    <2>2. Ready => \A d \in About(x) : Settles(call'[d], page.list, x, task[x])
      BY <1>6, <1>7 DEF WillShow
    <2>3. Ready' = Ready
      BY DEF Ready
    <2>4. QED BY <1>1, <1>7, <2>1, <2>2, <2>3 DEF WillShow
  <1>8. QED BY <1>4, <1>5, <1>7 DEF DetailInv, ShowInv

\* Opening the page, and reading the project.
LEMMA OpenViews ==
  ASSUME DetailInv, NEW c \in PageCalls, Open(c)
  PROVE  DetailInv'
  <1>1. /\ call[c] = Free /\ page' = [view |-> "loading", list |-> <<>>] /\ UNCHANGED <<alive, task>>
        /\ call' = [d \in PageCalls |->
             IF d = c THEN [pc |-> "sent", op |-> "load", mine |-> TRUE]
             ELSE IF d \in Flying THEN [call[d] EXCEPT !.mine = FALSE] ELSE Free]
        /\ crossed' = {x \in Tasks : About(x) # {}}
    BY DEF Open
  <1>2. [pc |-> "sent", op |-> "load", mine |-> TRUE] \in LoadCalls
    BY DEF LoadCalls
  <1>3. c \notin Flying
    BY <1>1 DEF Flying
  <1>4. ASSUME NEW k \in LoadCalls \union TaskCalls
        PROVE  LET j == [k EXCEPT !.mine = FALSE]
               IN /\ j \in LoadCalls \union TaskCalls /\ j.op = k.op /\ j.mine = FALSE
                  /\ k.op # "load" => j.task = k.task
    <2>1. CASE k \in TaskCalls
      BY <2>1 DEF TaskCalls
    <2>2. CASE k \in [pc : {"sent", "refused"}, op : {"load"}, mine : BOOLEAN]
      BY <2>2 DEF LoadCalls
    <2>3. CASE k \in [pc : {"ok"}, op : {"load"}, mine : BOOLEAN, list : Seq(TaskCards)]
      BY <2>3 DEF LoadCalls
    <2>4. QED BY <2>1, <2>2, <2>3 DEF LoadCalls
  <1>5. ASSUME NEW d \in Flying
        PROVE  /\ d \in PageCalls /\ call'[d] \in LoadCalls \union TaskCalls /\ call'[d].op = call[d].op /\ ~call'[d].mine
               /\ call[d].op # "load" => call'[d].task = call[d].task
    <2>1. d \in PageCalls /\ call[d] \in LoadCalls \union TaskCalls /\ d # c
      BY <1>3, CallKinds DEF Flying, DetailInv
    <2>2. call'[d] = [call[d] EXCEPT !.mine = FALSE]
      BY <1>1, <2>1
    <2>3. QED BY <1>4, <2>1, <2>2
  <1>6. \A d \in PageCalls : d # c /\ d \notin Flying => call'[d] = Free
    BY <1>1
  <1>7. call'[c] = [pc |-> "sent", op |-> "load", mine |-> TRUE] /\ call'[c].op = "load" /\ call'[c].mine
        /\ call'[c].pc = "sent" /\ call'[c] # Free
    BY <1>1, <1>2, CallKinds DEF DetailInv
  <1>8. call' \in [PageCalls -> Sendings]
    BY <1>1, <1>2, <1>5, <1>6 DEF Sendings
  <1>9. \A d \in Flying : call'[d] # Free
    BY <1>5, CallKinds DEF DetailInv, Flying
  <1>10. Flying' = Flying \union {c}
    BY <1>5, <1>6, <1>7, <1>9 DEF Flying
  <1>11. Mine' = {c}
    BY <1>3, <1>5, <1>7, <1>10 DEF Mine
  <1>12. \A x : About(x)' = About(x)
    BY <1>3, <1>5, <1>7, <1>10 DEF About
  <1>13. page' \in PageStates /\ ~Ready'
         /\ page'.view = "loading"
    BY <1>1 DEF Ready, PageStates
  <1>14. CallsInv'
    BY <1>1, <1>8, <1>13 DEF DetailInv, CallsInv, StoredTasks
  <1>15. LoneInv'
    BY <1>1, <1>11, <1>12, <1>13 DEF LoneInv
  <1>16. ShowInv'
    BY <1>7, <1>11, <1>13 DEF ShowInv, WillShow
  <1>17. QED BY <1>14, <1>15, <1>16 DEF DetailInv

\* The service reads the tasks for a page that loads.
LEMMA GetViews ==
  ASSUME DetailInv, NEW c \in PageCalls, GetProject(c)
  PROVE  DetailInv'
  <1>1. c \in Flying /\ call[c].pc = "sent" /\ call[c].op = "load" /\ UNCHANGED <<alive, task, page, crossed>>
    BY DEF GetProject, Flying
  <1>2. CASE At(c, "refused")
    BY <1>1, <1>2, StillOpen
  <1>3. CASE ~At(c, "refused")
    <2>1. PICK order \in SetToSeqs(StoredTasks) :
            call' = [call EXCEPT ![c] = [pc |-> "ok", op |-> "load", mine |-> call[c].mine,
              list |-> [i \in DOMAIN order |-> [id |-> order[i], status |-> task[order[i]]]]]]
      BY <1>3 DEF GetProject
    <2>2. PICK list : list = [i \in DOMAIN order |-> [id |-> order[i], status |-> task[order[i]]]]
      OBVIOUS
    <2>3. list \in Seq(TaskCards) /\ (\A x \in StoredTasks : Lists(list, x, task[x]))
          /\ (\A x : x \notin StoredTasks => Lacks(list, x))
      <3>1. StoredTasks \subseteq Tasks /\ IsFiniteSet(StoredTasks) /\ \A x \in StoredTasks : task[x] \in Statuses
        BY DEF StoredTasks, DetailInv, CallsInv
      <3>2. QED BY <2>1, <2>2, <3>1, OrderCards
    <2>4. PICK k : k = [pc |-> "ok", op |-> "load", mine |-> call[c].mine, list |-> list]
      OBVIOUS
    <2>5. call[c] \in LoadCalls
      BY <1>1, CallKinds DEF DetailInv
    <2>6. k \in LoadCalls /\ k.op = "load" /\ k.mine = call[c].mine /\ k.list = list
      BY <2>3, <2>4, <2>5 DEF LoadCalls
    <2>7. k # Free
      BY <1>1, <2>6, CallKinds DEF DetailInv
    <2>8. call' = [call EXCEPT ![c] = k]
      BY <2>1, <2>2, <2>4
    <2>9. call' \in [PageCalls -> Sendings] /\ call'[c] = k /\ \A d \in PageCalls : d # c => call'[d] = call[d]
      BY <2>6, <2>8 DEF DetailInv, CallsInv, Sendings
    <2>10. Flying' = Flying /\ Mine' = Mine /\ (\A x : About(x)' = About(x)) /\ (\A x : c \notin About(x))
      BY <1>1, <2>6, <2>7, <2>9 DEF Flying, Mine, About
    <2>11. \A d \in Mine : d \in PageCalls
      BY DEF Mine, Flying
    <2>12. \A x : \A d \in About(x) : d \in PageCalls /\ d # c
      BY <2>10 DEF About, Flying
    <2>13. CallsInv'
      BY <1>1, <2>9 DEF DetailInv, CallsInv, StoredTasks
    <2>14. LoneInv'
      BY <1>1, <2>6, <2>9, <2>10, <2>11, <2>12 DEF DetailInv, LoneInv
    <2>15. ASSUME NEW x \in Tasks, WillShow(x) PROVE WillShow(x)'
      <3>1. Agrees(list, x, task[x])
        BY <2>3 DEF Agrees, StoredTasks
      <3>2. \A d \in Mine : call'[d].op = "load" /\ call'[d].pc = "ok" => Agrees(call'[d].list, x, task[x])
        BY <2>6, <2>9, <2>11, <2>15, <3>1 DEF WillShow
      <3>3. \A d \in About(x) : call'[d] = call[d]
        BY <2>9, <2>12
      <3>4. QED BY <1>1, <2>10, <2>15, <3>2, <3>3 DEF WillShow, Ready
    <2>16. QED BY <1>1, <2>13, <2>14, <2>15 DEF DetailInv, ShowInv
  <1>4. QED BY <1>2, <1>3

\* A call that changes its task, and the answer that gets lost.
LEMMA ChangeDetail ==
  ASSUME DetailInv, NEW c \in PageCalls, Change(c)
  PROVE  DetailInv'
  <1>1. c \in Flying /\ call[c].pc = "found" /\ UNCHANGED <<alive, page, crossed>>
    BY DEF Change, Flying
  <1>2. call[c] \in TaskCalls /\ call[c].op # "load"
    <2>1. call[c] \notin LoadCalls
      BY <1>1 DEF LoadCalls
    <2>2. QED BY <1>1, <2>1, CallKinds DEF DetailInv
  <1>3. CASE At(c, "refused") /\ UNCHANGED task
    BY <1>1, <1>2, <1>3, StillOpen
  <1>4. CASE At(c, "ok") /\ task' = [task EXCEPT ![call[c].task] = Changed(call[c])]
             /\ (call[c].op # "create" => call[c].task \in StoredTasks)
    <2> DEFINE y == call[c].task
    <2>1. /\ call' \in [PageCalls -> Sendings] /\ Flying' = Flying /\ Mine' = Mine /\ \A x : About(x)' = About(x)
          /\ \A d \in PageCalls : d # c => call'[d] = call[d]
          /\ call'[c].pc = "ok" /\ call'[c].op = call[c].op /\ call'[c].mine = call[c].mine
          /\ call'[c].task = call[c].task /\ call'[c].next = call[c].next /\ call'[c].before = call[c].before
      BY <1>1, <1>2, <1>4, CallMoves DEF DetailInv
    <2>2. y \in Tasks /\ call[c].next \in Statuses /\ Changed(call[c]) \in Statuses \union {"gone"}
      BY <1>2 DEF TaskCalls, Changed
    <2>3. task' \in [Tasks -> Statuses \union {"new", "gone"}] /\ task'[y] = Changed(call[c])
          /\ \A x \in Tasks : x # y => task'[x] = task[x]
      BY <1>4, <2>2 DEF DetailInv, CallsInv
    <2>4. IsFiniteSet(StoredTasks')
      <3>1. StoredTasks' \subseteq StoredTasks \union {y}
        BY <2>3 DEF StoredTasks
      <3>2. IsFiniteSet(StoredTasks \union {y})
        BY FS_AddElement DEF DetailInv, CallsInv
      <3>3. QED BY <3>1, <3>2, FS_Subset
    <2>5. CallsInv'
      BY <1>1, <2>1, <2>3, <2>4 DEF DetailInv, CallsInv
    <2>6. \A d \in Mine : d \in PageCalls
      BY DEF Mine, Flying
    <2>7. \A x : \A d \in About(x) : d \in PageCalls /\ call[d].op # "load" /\ call[d].task = x
      BY DEF About, Flying
    <2>8. LoneInv'
      BY <1>1, <2>1, <2>6, <2>7 DEF DetailInv, LoneInv
    <2>9. c \in About(y)
      BY <1>1, <1>2 DEF About
    <2>10. ASSUME NEW x \in Tasks \ crossed PROVE WillShow(x)'
      <3>1. CASE x # y
        <4>1. \A d \in About(x) : d # c
          BY <2>7, <3>1
        <4>2. \A d \in Mine' : call'[d].op = "load" => d # c
          BY <1>2, <2>1
        <4>3. WillShow(x)
          BY <2>10 DEF DetailInv, ShowInv
        <4>4. Ready' = Ready /\ page' = page
          BY <1>1 DEF Ready
        <4>5. \A d \in About(x) : call'[d] = call[d]
          BY <2>1, <2>7, <4>1
        <4>6. \A d \in Mine' : call'[d].op = "load" /\ call'[d].pc = "ok" => d \in Mine /\ call'[d] = call[d]
          BY <2>1, <2>6, <4>2
        <4>7. QED BY <2>1, <2>3, <2>10, <3>1, <4>3, <4>4, <4>5, <4>6, ShownAsBefore
      <3>2. CASE x = y
        <4>1. call[c].mine /\ About(x) = {c} /\ c \in Mine
          BY <1>1, <2>9, <2>10, <3>2 DEF DetailInv, LoneInv, Mine
        <4>2. \A d \in Mine : call[d].op # "load"
          BY <1>2, <4>1, NothingLoads DEF DetailInv
        <4>3. \A d \in Mine : call'[d].op # "load"
          BY <2>1, <2>6, <4>2
        <4>4. Ready => Settles(call[c], page.list, x, task[x])
          BY <2>10, <4>1 DEF DetailInv, ShowInv, WillShow
        <4>5. Ready => Settles(call'[c], page.list, x, task'[x])
          BY <1>1, <1>2, <2>1, <2>3, <3>2, <4>4 DEF Settles, Changed, TaskCalls
        <4>6. QED BY <1>1, <2>1, <4>1, <4>3, <4>5 DEF WillShow, Ready
      <3>3. QED BY <3>1, <3>2
    <2>11. QED BY <1>1, <2>5, <2>8, <2>10 DEF DetailInv, ShowInv
  <1>5. QED BY <1>3, <1>4 DEF Change

\* A call whose answer is lost crosses its task.
LEMMA LoseViews ==
  ASSUME DetailInv, NEW c \in PageCalls, LoseAnswer(c)
  PROVE  DetailInv'
  <1>1. c \in Flying /\ call[c].pc = "ok" /\ call[c].op # "load" /\ At(c, "refused") /\ UNCHANGED <<alive, task, page>>
        /\ crossed' = crossed \union {call[c].task}
    BY DEF LoseAnswer, Flying
  <1>2. /\ call' \in [PageCalls -> Sendings] /\ Flying' = Flying /\ Mine' = Mine /\ \A x : About(x)' = About(x)
        /\ \A d \in PageCalls : d # c => call'[d] = call[d]
        /\ call'[c].op = call[c].op /\ call'[c].mine = call[c].mine
    BY <1>1, CallMoves DEF DetailInv
  <1>3. \A d \in Mine : d \in PageCalls
    BY DEF Mine, Flying
  <1>4. \A x : \A d \in About(x) : d \in PageCalls /\ call[d].task = x
    BY DEF About, Flying
  <1>5. CallsInv'
    BY <1>1, <1>2 DEF DetailInv, CallsInv, StoredTasks
  <1>6. LoneInv'
    BY <1>1, <1>2, <1>3, <1>4 DEF DetailInv, LoneInv
  <1>7. ASSUME NEW x \in Tasks \ crossed' PROVE WillShow(x)'
    <2>1. WillShow(x) /\ x # call[c].task
      BY <1>1, <1>7 DEF DetailInv, ShowInv
    <2>2. \A d \in About(x) : call'[d] = call[d]
      BY <1>2, <1>4, <2>1
    <2>3. \A d \in Mine' : call'[d].op = "load" /\ call'[d].pc = "ok" => d \in Mine /\ call'[d] = call[d]
      BY <1>1, <1>2, <1>3
    <2>4. Ready' = Ready
      BY <1>1 DEF Ready
    <2>5. QED BY <1>1, <1>2, <2>1, <2>2, <2>3, <2>4, ShownAsBefore
  <1>8. QED BY <1>5, <1>6, <1>7 DEF DetailInv, ShowInv

\* A click: the page sends a call about y, and shows every other task as before.
LEMMA ClickViews ==
  ASSUME DetailInv, NEW c \in PageCalls, NEW y \in Tasks, NEW op \in {"create", "status", "delete"},
         NEW next \in Statuses, NEW before \in Statuses, Click(y), Send(c, op, y, next, before),
         page'.view = page.view, page' \in PageStates,
         \A x \in Tasks : x # y => /\ Lacks(page.list, x) => Lacks(page'.list, x)
                                  /\ \A s : Lists(page.list, x, s) => Lists(page'.list, x, s),
         y \notin crossed /\ Agrees(page.list, y, task[y]) =>
           Settles([pc |-> "sent", op |-> op, task |-> y, mine |-> TRUE, next |-> next, before |-> before],
                   page'.list, y, task[y])
  PROVE  DetailInv'
  <1> DEFINE k == [pc |-> "sent", op |-> op, task |-> y, mine |-> TRUE, next |-> next, before |-> before]
  <1>1. /\ call[c] = Free /\ call' = [call EXCEPT ![c] = k] /\ UNCHANGED <<alive, task>> /\ Ready
        /\ crossed' = crossed \union (IF About(y) = {} THEN {} ELSE {y})
    BY DEF Click, Send
  <1>2. k \in TaskCalls /\ k.op # "load" /\ k.mine /\ k.task = y
    BY DEF TaskCalls
  <1>3. k # Free
    BY <1>2, CallKinds DEF DetailInv
  <1> HIDE DEF k
  <1>4. call' \in [PageCalls -> Sendings] /\ call'[c] = k /\ \A d \in PageCalls : d # c => call'[d] = call[d]
    BY <1>1, <1>2 DEF DetailInv, CallsInv, Sendings
  <1>5. c \notin Flying /\ Flying' = Flying \union {c} /\ Mine' = Mine \union {c} /\ About(y)' = About(y) \union {c}
        /\ \A x : x # y => About(x)' = About(x)
    BY <1>1, <1>2, <1>3, <1>4 DEF Flying, Mine, About
  <1>6. \A d \in Flying : call'[d] = call[d] /\ d # c
    BY <1>4, <1>5 DEF Flying
  <1>7. \A d \in Mine : d \in Flying /\ call[d].op # "load"
    <2>1. page.view # "loading"
      BY <1>1 DEF Ready
    <2>2. QED BY <2>1 DEF DetailInv, LoneInv, Mine
  <1>8. \A x : \A d \in About(x) : d \in Flying
    BY DEF About
  <1>9. CallsInv'
    BY <1>1, <1>4 DEF DetailInv, CallsInv, StoredTasks
  <1>10. y \notin crossed' => About(y) = {} /\ y \notin crossed
    BY <1>1
  <1>11. \A d \in Mine' : call'[d].op # "load"
    BY <1>2, <1>4, <1>5, <1>6, <1>7
  <1>12. ASSUME NEW x \in Tasks \ crossed' PROVE \A d \in About(x)' : call'[d].mine /\ \A e \in About(x)' : e = d
    <2>1. CASE x = y
      BY <1>2, <1>4, <1>5, <1>10, <1>12, <2>1
    <2>2. CASE x # y
      BY <1>1, <1>5, <1>6, <1>8, <1>12, <2>2 DEF DetailInv, LoneInv
    <2>3. QED BY <2>1, <2>2
  <1>13. LoneInv'
    BY <1>11, <1>12 DEF LoneInv
  <1>14. ASSUME NEW x \in Tasks \ crossed' PROVE WillShow(x)'
    <2>1. WillShow(x)
      BY <1>1, <1>14 DEF DetailInv, ShowInv
    <2>2. CASE x = y
      <3>1. About(y) = {} /\ y \notin crossed /\ About(y)' = {c}
        BY <1>5, <1>10, <1>14, <2>2
      <3>2. Agrees(page.list, y, task[y])
        BY <1>1, <2>1, <2>2, <3>1 DEF WillShow
      <3>3. Settles(k, page'.list, y, task[y])
        BY <3>1, <3>2 DEF k
      <3>4. QED BY <1>1, <1>4, <1>11, <2>2, <3>1, <3>3 DEF WillShow
    <2>3. CASE x # y
      <3>1. About(x)' = About(x) /\ \A d \in About(x) : call'[d] = call[d]
        BY <1>5, <1>6, <1>8, <2>3
      <3>2. Ready' => Ready
        BY <1>1
      <3>3. QED BY <1>1, <1>11, <1>14, <2>1, <2>3, <3>1, <3>2, ShownAsBefore
    <2>4. QED BY <2>2, <2>3
  <1>15. QED BY <1>9, <1>13, <1>14 DEF DetailInv, ShowInv

\* What the user clicks is shown as it will be.
LEMMA ClicksView ==
  ASSUME DetailInv, NEW c \in PageCalls,
         \/ \E x \in Tasks : HandleCreateTask(c, x) \/ HandleDeleteTask(c, x)
         \/ \E i \in DOMAIN page.list, s \in Statuses : HandleStatusChange(c, i, s)
  PROVE  DetailInv'
  <1>1. page \in PageStates /\ First \in Statuses
    BY ProjectAssumption DEF DetailInv, CallsInv
  <1>2. ASSUME NEW x \in Tasks, HandleCreateTask(c, x) PROVE DetailInv'
    <2>1. Click(x) /\ Send(c, "create", x, First, First) /\ page' = page /\ task[x] = "new"
      BY <1>2 DEF HandleCreateTask
    <2>2. ASSUME Agrees(page.list, x, task[x])
          PROVE  Settles([pc |-> "sent", op |-> "create", task |-> x, mine |-> TRUE, next |-> First, before |-> First],
                         page.list, x, task[x])
      BY <2>1, <2>2, ProjectAssumption DEF Settles, Agrees
    <2>3. QED BY <1>1, <2>1, <2>2, ClickViews
  <1>3. ASSUME NEW x \in Tasks, HandleDeleteTask(c, x) PROVE DetailInv'
    <2>1. Click(x) /\ Send(c, "delete", x, First, First) /\ page' = page
      BY <1>3 DEF HandleDeleteTask
    <2>2. ASSUME Agrees(page.list, x, task[x])
          PROVE  Settles([pc |-> "sent", op |-> "delete", task |-> x, mine |-> TRUE, next |-> First, before |-> First],
                         page.list, x, task[x])
      BY <2>2 DEF Settles
    <2>3. QED BY <1>1, <2>1, <2>2, ClickViews
  <1>4. ASSUME NEW i \in DOMAIN page.list, NEW s \in Statuses, HandleStatusChange(c, i, s) PROVE DetailInv'
    <2> DEFINE x == page.list[i].id
               b == page.list[i].status
    <2>0. page.list \in Seq(TaskCards) /\ page.list[i] \in TaskCards
      BY <1>1, <1>4 DEF PageStates
    <2>1. x \in Tasks /\ b \in Statuses /\ page.list \in Seq(TaskCards)
      BY <2>0 DEF TaskCards
    <2>2. Click(x) /\ Send(c, "status", x, s, b) /\ page' = [page EXCEPT !.list = Showing(page.list, x, s)]
      BY <1>4 DEF HandleStatusChange
    <2>3. /\ Showing(page.list, x, s) \in Seq(TaskCards)
          /\ \A t : Lists(page.list, x, t) => Lists(Showing(page.list, x, s), x, s)
          /\ \A y : y # x => /\ Lacks(page.list, y) => Lacks(Showing(page.list, x, s), y)
                             /\ \A t : Lists(page.list, y, t) => Lists(Showing(page.list, x, s), y, t)
      BY <2>1, ShowingCard
    <2>4. page'.list = Showing(page.list, x, s) /\ page'.view = page.view
          /\ page' \in PageStates
      BY <1>1, <2>2, <2>3 DEF PageStates
    <2>5. ASSUME Agrees(page.list, x, task[x])
          PROVE  Settles([pc |-> "sent", op |-> "status", task |-> x, mine |-> TRUE, next |-> s, before |-> b],
                         page'.list, x, task[x])
      <3>1. ~Lacks(page.list, x)
        BY DEF Lacks
      <3>2. Lists(page.list, x, task[x])
        BY <2>5, <3>1 DEF Agrees
      <3>3. task[x] = b
        BY <3>2 DEF Lists
      <3>4. Lists(page'.list, x, s)
        BY <2>3, <2>4, <3>2
      <3>5. QED BY <3>3, <3>4 DEF Settles
    <2> HIDE DEF x, b
    <2>6. QED BY <2>1, <2>2, <2>3, <2>4, <2>5, ClickViews
  <1>5. QED BY <1>2, <1>3, <1>4

\* An answer: what the page shows of y when its only call is answered.
LEMMA AnswerShown ==
  ASSUME DetailInv, NEW c \in Flying, call[c].op # "load", call[c].pc \in {"ok", "refused"}
  PROVE  LET y == call[c].task
             next == AfterCall(call[c])
         IN /\ y \in Tasks /\ next \in PageStates
            /\ next.view = page.view
            /\ Settles(call[c], page.list, y, task[y]) => Agrees(next.list, y, task[y])
            /\ \A x : x # y => /\ Lacks(page.list, x) => Lacks(next.list, x)
                               /\ \A s : Lists(page.list, x, s) => Lists(next.list, x, s)
  <1> DEFINE y == call[c].task
             Outcome ==
               /\ AfterCall(call[c]) \in PageStates /\ AfterCall(call[c]).view = page.view
               /\ Settles(call[c], page.list, y, task[y]) => Agrees(AfterCall(call[c]).list, y, task[y])
               /\ \A x : x # y => /\ Lacks(page.list, x) => Lacks(AfterCall(call[c]).list, x)
                                  /\ \A s : Lists(page.list, x, s) => Lists(AfterCall(call[c]).list, x, s)
  <1>1. c \in PageCalls /\ call[c] \in TaskCalls
    BY CallKinds DEF DetailInv, Flying
  <1>2. call[c].task \in Tasks /\ call[c].next \in Statuses /\ call[c].before \in Statuses
        /\ call[c].op \in {"create", "status", "delete"}
    BY <1>1 DEF TaskCalls
  <1>3. page \in PageStates /\ page.list \in Seq(TaskCards)
    BY DEF DetailInv, CallsInv, PageStates
  <1>4. ASSUME NEW list \in Seq(TaskCards), AfterCall(call[c]) = [page EXCEPT !.list = list],
               Settles(call[c], page.list, y, task[y]) => Agrees(list, y, task[y]),
               \A x : x # y => /\ Lacks(page.list, x) => Lacks(list, x)
                              /\ \A s : Lists(page.list, x, s) => Lists(list, x, s)
        PROVE  Outcome
    <2>1. AfterCall(call[c]) \in PageStates /\ AfterCall(call[c]).view = page.view /\ AfterCall(call[c]).list = list
      BY <1>3, <1>4 DEF PageStates
    <2>2. QED BY <1>4, <2>1
  <1>5. ASSUME AfterCall(call[c]) = page, Settles(call[c], page.list, y, task[y]) => Agrees(page.list, y, task[y]) PROVE Outcome
    BY <1>3, <1>5
  <1>6. ASSUME call[c].op = "create" /\ call[c].pc = "ok" PROVE Outcome
    <2>1. AfterCall(call[c]) = [page EXCEPT !.list = <<[id |-> y, status |-> First]>> \o page.list]
      BY <1>6 DEF AfterCall
    <2>2. PICK list : list = <<[id |-> y, status |-> First]>> \o page.list
      OBVIOUS
    <2>3. /\ list \in Seq(TaskCards) /\ (Lacks(page.list, y) => Lists(list, y, First))
          /\ \A x : x # y => /\ Lacks(page.list, x) => Lacks(list, x)
                             /\ \A s : Lists(page.list, x, s) => Lists(list, x, s)
      BY <1>2, <1>3, <2>2, FrontCard
    <2>4. Settles(call[c], page.list, y, task[y]) => Agrees(list, y, task[y])
      BY <1>6, <2>3, ProjectAssumption DEF Settles, Agrees
    <2>5. QED BY <1>4, <2>1, <2>2, <2>3, <2>4
  <1>7. ASSUME call[c].op = "create" /\ call[c].pc = "refused" PROVE Outcome
    <2>1. AfterCall(call[c]) = page
      BY <1>7 DEF AfterCall
    <2>2. Settles(call[c], page.list, y, task[y]) => Agrees(page.list, y, task[y])
      BY <1>7, ProjectAssumption DEF Settles, Agrees
    <2>3. QED BY <1>5, <2>1, <2>2
  <1>8. ASSUME call[c].op = "status" /\ call[c].pc = "ok" PROVE Outcome
    <2>1. AfterCall(call[c]) = page
      BY <1>8 DEF AfterCall
    <2>2. Settles(call[c], page.list, y, task[y]) => Agrees(page.list, y, task[y])
      BY <1>2, <1>8 DEF Settles, Agrees
    <2>3. QED BY <1>5, <2>1, <2>2
  <1>9. ASSUME call[c].op = "status" /\ call[c].pc = "refused" PROVE Outcome
    <2>1. AfterCall(call[c]) = [page EXCEPT !.list = Showing(page.list, y, call[c].before)]
      BY <1>9 DEF AfterCall, Reverted
    <2>2. PICK list : list = Showing(page.list, y, call[c].before)
      OBVIOUS
    <2>3. /\ list \in Seq(TaskCards) /\ (\A s : Lists(page.list, y, s) => Lists(list, y, call[c].before))
          /\ \A x : x # y => /\ Lacks(page.list, x) => Lacks(list, x)
                             /\ \A s : Lists(page.list, x, s) => Lists(list, x, s)
      BY <1>2, <1>3, <2>2, ShowingCard
    <2>4. Settles(call[c], page.list, y, task[y]) => Agrees(list, y, task[y])
      BY <1>2, <1>9, <2>3 DEF Settles, Agrees
    <2>5. QED BY <1>4, <2>1, <2>2, <2>3, <2>4
  <1>10. ASSUME call[c].op = "delete" /\ call[c].pc = "ok" PROVE Outcome
    <2>1. AfterCall(call[c]) = [page EXCEPT !.list = Without(page.list, y)]
      BY <1>10 DEF AfterCall
    <2>2. PICK list : list = Without(page.list, y)
      OBVIOUS
    <2>3. /\ list \in Seq(TaskCards) /\ Lacks(list, y)
          /\ \A x : x # y => /\ Lacks(page.list, x) => Lacks(list, x)
                             /\ \A s : Lists(page.list, x, s) => Lists(list, x, s)
      BY <1>3, <2>2, WithoutCard
    <2>4. Settles(call[c], page.list, y, task[y]) => Agrees(list, y, task[y])
      BY <1>10, <2>3, ProjectAssumption DEF Settles, Agrees
    <2>5. QED BY <1>4, <2>1, <2>2, <2>3, <2>4
  <1>11. ASSUME call[c].op = "delete" /\ call[c].pc = "refused" PROVE Outcome
    <2>1. AfterCall(call[c]) = page
      BY <1>11 DEF AfterCall
    <2>2. Settles(call[c], page.list, y, task[y]) => Agrees(page.list, y, task[y])
      BY <1>11 DEF Settles
    <2>3. QED BY <1>5, <2>1, <2>2
  <1>12. Outcome
    <2> HIDE DEF Outcome, y
    <2>1. QED BY <1>1, <1>2, <1>6, <1>7, <1>8, <1>9, <1>10, <1>11
  <1>13. QED BY <1>2, <1>12

\* An answer makes the page show what the server has.
LEMMA ReceiveViews ==
  ASSUME DetailInv, NEW c \in PageCalls, Receive(c)
  PROVE  DetailInv'
  <1>1. /\ c \in Flying /\ call[c].pc \in {"ok", "refused"} /\ call' = [call EXCEPT ![c] = Free]
        /\ page' = (IF call[c].mine THEN AfterCall(call[c]) ELSE page) /\ UNCHANGED <<alive, task, crossed>>
    BY DEF Receive, Flying
  <1>2. call' \in [PageCalls -> Sendings] /\ call'[c] = Free /\ \A d \in PageCalls : d # c => call'[d] = call[d]
    BY <1>1 DEF DetailInv, CallsInv, Sendings
  <1>3. Flying' = Flying \ {c} /\ Mine' = Mine \ {c} /\ \A x : About(x)' = About(x) \ {c}
    BY <1>2 DEF Flying, Mine, About
  <1>4. \A d \in Flying \ {c} : call'[d] = call[d]
    BY <1>2 DEF Flying
  <1>5. (\A d \in Mine : d \in Flying) /\ \A x : \A d \in About(x) : d \in Flying /\ call[d].op # "load"
    BY DEF Mine, About
  <1>6. \A d \in Mine' : d \in Mine /\ call'[d] = call[d]
    BY <1>3, <1>4, <1>5
  <1>7. \A x : \A d \in About(x)' : d \in About(x) /\ call'[d] = call[d]
    BY <1>3, <1>4, <1>5
  <1>8. ASSUME page' \in PageStates PROVE CallsInv'
    BY <1>1, <1>2, <1>8 DEF DetailInv, CallsInv, StoredTasks
  <1>9. ASSUME page'.view = page.view \/ Mine' = {} PROVE LoneInv'
    BY <1>1, <1>6, <1>7, <1>9 DEF DetailInv, LoneInv
  <1>10. CASE ~call[c].mine
    <2>1. page' = page /\ Ready' = Ready
      BY <1>1, <1>10 DEF Ready
    <2>2. ASSUME NEW x \in Tasks \ crossed PROVE WillShow(x)'
      <3>1. About(x)' = About(x) /\ WillShow(x)
        BY <1>3, <1>10, <2>2 DEF DetailInv, LoneInv, ShowInv
      <3>2. QED BY <1>1, <1>6, <1>7, <2>1, <3>1, ShownAsBefore
    <2>3. CallsInv' /\ LoneInv'
      BY <1>8, <1>9, <2>1 DEF DetailInv, CallsInv
    <2>4. QED BY <1>1, <2>2, <2>3 DEF DetailInv, ShowInv
  <1>11. CASE call[c].mine /\ call[c].op = "load"
    <2>1. c \in Mine /\ \A d \in Mine : d = c
      BY <1>1, <1>11 DEF DetailInv, LoneInv, Mine
    <2>2. Mine' = {}
      BY <1>3, <2>1
    <2>3. call[c] \in LoadCalls /\ page' = AfterCall(call[c])
      BY <1>1, <1>11, CallKinds DEF DetailInv
    <2>4. ASSUME NEW x \in Tasks \ crossed PROVE About(x) = {} /\ About(x)' = {}
      <3>1. \A d \in About(x) : d \in Mine /\ d # c
        BY <1>5, <1>11, <2>4 DEF DetailInv, LoneInv, Mine
      <3>2. QED BY <1>3, <2>1, <3>1
    <2>5. CASE call[c].pc = "ok"
      <3>1. page' = [view |-> "ready", list |-> call[c].list] /\ call[c].list \in Seq(TaskCards)
        BY <1>11, <2>3, <2>5 DEF AfterCall, LoadCalls
      <3>2. ASSUME NEW x \in Tasks \ crossed PROVE WillShow(x)'
        <4>1. Agrees(call[c].list, x, task[x])
          BY <1>11, <2>1, <2>5, <3>2 DEF DetailInv, ShowInv, WillShow
        <4>2. Agrees(page'.list, x, task'[x])
          BY <1>1, <3>1, <4>1
        <4>3. QED BY <2>2, <2>4, <4>2 DEF WillShow
      <3>3. QED BY <1>1, <1>8, <1>9, <2>2, <3>1, <3>2 DEF DetailInv, ShowInv, PageStates
    <2>6. CASE call[c].pc = "refused"
      <3>1. page' = [page EXCEPT !.view = "failed"]
        BY <1>11, <2>3, <2>6 DEF AfterCall
      <3>2. page' \in PageStates /\ ~Ready'
        BY <3>1 DEF DetailInv, CallsInv, Ready, PageStates
      <3>3. QED BY <1>1, <1>8, <1>9, <2>2, <3>2 DEF DetailInv, ShowInv, WillShow
    <2>7. QED BY <1>1, <2>5, <2>6
  <1>12. CASE call[c].mine /\ call[c].op # "load"
    <2> DEFINE y == call[c].task
    <2>1. page' = AfterCall(call[c]) /\ c \in Mine
      BY <1>1, <1>12 DEF Mine
    <2>2. /\ y \in Tasks /\ page' \in PageStates
          /\ page'.view = page.view
          /\ Settles(call[c], page.list, y, task[y]) => Agrees(page'.list, y, task[y])
          /\ \A x : x # y => /\ Lacks(page.list, x) => Lacks(page'.list, x)
                             /\ \A s : Lists(page.list, x, s) => Lists(page'.list, x, s)
      BY <1>1, <1>12, <2>1, AnswerShown
    <2>3. \A d \in Mine' : call'[d].op # "load"
      BY <1>6, <1>12, <2>1, NothingLoads DEF DetailInv
    <2>4. Ready' = Ready
      BY <2>2 DEF Ready
    <2>5. ASSUME NEW x \in Tasks \ crossed PROVE WillShow(x)'
      <3>1. WillShow(x)
        BY <2>5 DEF DetailInv, ShowInv
      <3>2. CASE x = y
        <4>1. c \in About(y)
          BY <1>1, <1>12 DEF About
        <4>2. About(x) = {c} /\ About(x)' = {}
          <5>1. \A d \in About(x) : \A e \in About(x) : e = d
            BY <2>5 DEF DetailInv, LoneInv
          <5>2. About(x) = {c}
            BY <3>2, <4>1, <5>1
          <5>3. QED BY <1>3, <5>2
        <4>3. Ready => Agrees(page'.list, y, task[y])
          BY <2>2, <3>1, <3>2, <4>1 DEF WillShow
        <4>4. QED BY <1>1, <2>3, <2>4, <3>2, <4>2, <4>3 DEF WillShow
      <3>3. CASE x # y
        <4>1. About(x)' = About(x)
          BY <1>3, <3>3 DEF About
        <4>2. QED BY <1>1, <1>7, <2>2, <2>3, <2>4, <3>1, <3>3, <4>1, ShownAsBefore
      <3>4. QED BY <3>2, <3>3
    <2>6. QED BY <1>1, <1>8, <1>9, <2>2, <2>5 DEF DetailInv, ShowInv
  <1>13. QED BY <1>10, <1>11, <1>12

\* Other clients mark what they change.
LEMMA ElsewhereViews ==
  ASSUME DetailInv, Elsewhere
  PROVE  DetailInv'
  <1>1. UNCHANGED <<page, call>> /\ alive' \in BOOLEAN
    BY DEF Elsewhere, DetailInv, CallsInv
  <1>2. /\ task' \in [Tasks -> Statuses \union {"new", "gone"}] /\ StoredTasks' \subseteq StoredTasks
        /\ crossed \intersect Tasks \subseteq crossed' /\ \A x \in Tasks \ crossed' : task'[x] = task[x]
    <2>1. ASSUME NEW x \in StoredTasks, NEW s \in Statuses \union {"gone"}, task' = [task EXCEPT ![x] = s],
                 crossed' = crossed \union {x}
          PROVE  /\ task' \in [Tasks -> Statuses \union {"new", "gone"}] /\ StoredTasks' \subseteq StoredTasks
                 /\ crossed \intersect Tasks \subseteq crossed' /\ \A z \in Tasks \ crossed' : task'[z] = task[z]
      BY <2>1 DEF DetailInv, CallsInv, StoredTasks
    <2>2. ASSUME task' = [x \in Tasks |-> IF x \in StoredTasks THEN "gone" ELSE task[x]], crossed' = Tasks
          PROVE  /\ task' \in [Tasks -> Statuses \union {"new", "gone"}] /\ StoredTasks' \subseteq StoredTasks
                 /\ crossed \intersect Tasks \subseteq crossed' /\ \A z \in Tasks \ crossed' : task'[z] = task[z]
      BY <2>2, ProjectAssumption DEF DetailInv, CallsInv, StoredTasks
    <2>3. QED BY <2>1, <2>2 DEF Elsewhere
  <1>3. IsFiniteSet(StoredTasks')
    BY <1>2, FS_Subset DEF DetailInv, CallsInv
  <1>4. CallsInv'
    BY <1>1, <1>2, <1>3 DEF DetailInv, CallsInv
  <1>5. Flying' = Flying /\ Mine' = Mine /\ (\A x : About(x)' = About(x)) /\ Ready' = Ready
    BY <1>1 DEF Flying, Mine, About, Ready
  <1>6. LoneInv'
    BY <1>1, <1>2, <1>5 DEF DetailInv, LoneInv
  <1>7. ASSUME NEW x \in Tasks \ crossed' PROVE WillShow(x)'
    <2>1. WillShow(x) /\ task'[x] = task[x]
      BY <1>2, <1>7 DEF DetailInv, ShowInv
    <2>2. QED BY <1>1, <1>5, <2>1, ShownAsBefore
  <1>8. QED BY <1>4, <1>6, <1>7 DEF DetailInv, ShowInv

\* Every step keeps the invariant of the page of a project.
LEMMA DetailStep ==
  ASSUME DetailInv, [ProjectNext]_projectVars
  PROVE  DetailInv'
  <1>1. ASSUME NEW c \in PageCalls, Find(c) PROVE DetailInv'
    <2>1. c \in Flying /\ call[c].pc = "sent" /\ call[c].op # "load" /\ UNCHANGED <<alive, task, page, crossed>>
          /\ (At(c, "found") \/ At(c, "refused"))
      BY <1>1 DEF Find, Flying
    <2>2. QED BY <2>1, StillOpen
  <1>2. ASSUME NEW c \in PageCalls, Refuse(c) PROVE DetailInv'
    <2>1. c \in Flying /\ call[c].pc \in {"sent", "found"} /\ UNCHANGED <<alive, task, page, crossed>> /\ At(c, "refused")
      BY <1>2 DEF Refuse, Flying
    <2>2. call[c].pc = "found" => call[c].op # "load"
      <3>1. \A k \in LoadCalls : k.pc # "found"
        BY DEF LoadCalls
      <3>2. QED BY <2>1, <3>1, CallKinds DEF DetailInv
    <2>3. QED BY <2>1, <2>2, StillOpen
  <1>3. CASE UNCHANGED projectVars
    <2>1. UNCHANGED <<alive, task, page, call, crossed>>
      BY <1>3 DEF projectVars
    <2>2. Flying' = Flying /\ Mine' = Mine /\ (\A x : About(x)' = About(x)) /\ Ready' = Ready /\ StoredTasks' = StoredTasks
      BY <2>1 DEF Flying, Mine, About, Ready, StoredTasks
    <2>3. CallsInv' /\ LoneInv' /\ \A x : WillShow(x) => WillShow(x)'
      BY <2>1, <2>2 DEF DetailInv, CallsInv, LoneInv, WillShow
    <2>4. QED BY <2>1, <2>3 DEF DetailInv, ShowInv
  <1>4. QED
    BY <1>1, <1>2, <1>3, OpenViews, GetViews, ChangeDetail, LoseViews, ReceiveViews, ClicksView, ElsewhereViews
    DEF ProjectNext

\* The page of a project keeps what it promises.
LEMMA DetailCorrect == ProjectSpec => []DetailInv
  <1>1. ProjectInit => DetailInv
    <2> SUFFICES ASSUME ProjectInit PROVE DetailInv
      OBVIOUS
    <2>1. Flying = {} /\ Mine = {} /\ StoredTasks = {} /\ IsFiniteSet({})
      BY ProjectAssumption, FS_EmptySet DEF ProjectInit, Flying, Mine, StoredTasks, Free
    <2>2. \A x : About(x) = {}
      BY <2>1 DEF About
    <2>3. CallsInv
      BY <2>1 DEF ProjectInit, CallsInv, Sendings, PageStates
    <2>4. ~Ready
      BY DEF ProjectInit, Ready
    <2>5. QED BY <2>1, <2>2, <2>3, <2>4 DEF DetailInv, LoneInv, ShowInv, WillShow
  <1>2. QED BY <1>1, DetailStep, PTL DEF ProjectSpec

\* SerialPage, for any tasks, statuses and calls: once its calls are answered, the
\* page shows each task as the server has it, whichever calls were refused, unless
\* calls about the task overlapped or others changed it (ProjectDetail.tsx).
THEOREM SerialPageCorrect == ProjectSpec => []SerialPage
  <1>1. DetailInv => SerialPage
    <2> SUFFICES ASSUME DetailInv, Ready, Mine = {}, NEW x \in Tasks \ crossed
                 PROVE  /\ x \in StoredTasks <=> Shows(x) # {}
                        /\ \A i, j \in Shows(x) : i = j /\ page.list[i].status = task[x]
      BY DEF SerialPage
    <2>1. About(x) = {}
      BY DEF DetailInv, LoneInv, Mine, About
    <2>2. Agrees(page.list, x, task[x])
      BY <2>1 DEF DetailInv, ShowInv, WillShow
    <2>3. CASE task[x] \in Statuses
      <3>1. Lists(page.list, x, task[x])
        BY <2>2, <2>3 DEF Agrees
      <3>2. QED BY <2>3, <3>1 DEF Lists, Shows, StoredTasks
    <2>4. CASE task[x] \notin Statuses
      <3>1. Lacks(page.list, x)
        BY <2>2, <2>4 DEF Agrees
      <3>2. QED BY <2>4, <3>1 DEF Lacks, Shows, StoredTasks
    <2>5. QED BY <2>3, <2>4
  <1>2. QED BY <1>1, DetailCorrect, PTL

-----------------------------------------------------------------------------
(* Types of the pages *)

\* Rows, the page and its calls have their forms: ProjectsService, ProjectsList.tsx.
THEOREM ListTypeCorrect == ListSpec => []ListTypeOK
  <1>1. BoardInv => ListTypeOK
    <2> SUFFICES ASSUME BoardInv PROVE ListTypeOK
      OBVIOUS
    <2>1. board.view \in {"away", "loading", "open"} /\ board.form \in 0..typed
      <3>1. board \in Boards /\ board.form <= typed /\ typed \in 0..MaxEntries
        BY DEF BoardInv, PageInv
      <3>2. QED BY <3>1 DEF Boards
    <2>2. \A c \in ListCalls : creation[c].pc \in {"free", "sent", "ok", "refused"}
      <3> TAKE c \in ListCalls
      <3>1. creation[c] \in Creations
        BY DEF BoardInv, PageInv
      <3>2. QED BY <3>1 DEF Creations
    <2>3. QED BY <2>1, <2>2 DEF ListTypeOK, BoardInv, RowsInv, ProjectRows
  <1>2. QED BY <1>1, BoardCorrect, PTL

\* Templates and the pages of them have their forms: document-templates.service.ts.
THEOREM TemplateTypeCorrect == TemplateSpec => []TemplateTypeOK
  <1>1. TemplatesInv => TemplateTypeOK
    <2> SUFFICES ASSUME TemplatesInv PROVE TemplateTypeOK
      OBVIOUS
    <2>1. lookup.pc \in {"idle", "found"}
      BY DEF TemplatesInv, ViewInv, NoLookup
    <2>2. shelf.pc \in {"away", "open", "creating"}
      BY DEF TemplatesInv, ViewInv, Shelves, Away
    <2>3. desk.pc \in {"away", "open", "rendering"}
      BY DEF TemplatesInv, ViewInv, Desks, Away
    <2>4. QED BY <2>1, <2>2, <2>3 DEF TemplatesInv, ViewInv, BodyRows, TemplateTypeOK
  <1>2. QED BY <1>1, ShelvesCorrect, PTL

\* Tasks, the page and what is crossed have their forms: ProjectDetail.tsx.
THEOREM ProjectTypeCorrect == ProjectSpec => []ProjectTypeOK
  <1> DEFINE InTasks == crossed \subseteq Tasks
  <1>1. ProjectInit => InTasks
    BY DEF ProjectInit
  <1>2. DetailInv /\ InTasks /\ [ProjectNext]_projectVars => InTasks'
    <2> SUFFICES ASSUME DetailInv, InTasks, [ProjectNext]_projectVars PROVE InTasks'
      OBVIOUS
    <2>1. \A c \in PageCalls : call[c] # Free /\ call[c].op # "load" => call[c].task \in Tasks
      <3> SUFFICES ASSUME NEW c \in PageCalls, call[c] # Free, call[c].op # "load" PROVE call[c].task \in Tasks
        OBVIOUS
      <3>1. call[c] \in TaskCalls
        BY DEF DetailInv, CallsInv, Sendings, LoadCalls
      <3>2. QED BY <3>1 DEF TaskCalls
    <2>2. ASSUME NEW x \in Tasks, Click(x) PROVE InTasks'
      BY <2>2 DEF Click
    <2>3. \A i \in DOMAIN page.list : page.list[i].id \in Tasks
      <3>1. page.list \in Seq(TaskCards)
        BY DEF DetailInv, CallsInv, PageStates
      <3>2. \A list \in Seq(TaskCards) : \A i \in DOMAIN list : list[i] \in TaskCards
        OBVIOUS
      <3>3. QED BY <3>1, <3>2 DEF TaskCards
    <2>4. ASSUME NEW c \in PageCalls, LoseAnswer(c) PROVE InTasks'
      BY <2>1, <2>4 DEF LoseAnswer
    <2>5. CASE Elsewhere
      BY <2>5 DEF Elsewhere, StoredTasks
    <2>6. CASE UNCHANGED crossed
      BY <2>6
    <2>7. ASSUME NEW c \in PageCalls, Open(c) PROVE InTasks'
      BY <2>7 DEF Open
    <2>8. QED BY <2>2, <2>3, <2>4, <2>5, <2>6, <2>7
              DEF ProjectNext, GetProject, Find, Change, Refuse, Receive, HandleCreateTask, HandleDeleteTask,
                  HandleStatusChange, projectVars
  <1>3. DetailInv /\ InTasks => ProjectTypeOK
    BY DEF DetailInv, CallsInv, PageStates, TaskCards, ProjectTypeOK
  <1>4. QED BY <1>1, <1>2, <1>3, DetailCorrect, PTL DEF ProjectSpec

-----------------------------------------------------------------------------
(* The whole *)

\* A step of the whole is a step of each part or leaves it as it was.
LEMMA FrontPart ==
  ASSUME [Next]_<<officeVars, part>>
  PROVE  /\ [SearchNext]_searchVars /\ [AnalyticsNext]_analyticsVars /\ [ProjectNext]_projectVars
         /\ [ListNext]_listVars /\ [TemplateNext]_templateVars /\ [PayrollNext]_payrollVars
  <1>1. CASE UNCHANGED <<officeVars, part>>
    BY <1>1 DEF officeVars
  <1>2. CASE FrontWorks
    BY <1>2 DEF FrontWorks
  <1>3. CASE FrontAtRest
    BY <1>3 DEF FrontAtRest
  <1>4. QED BY <1>1, <1>2, <1>3 DEF Next

\* The same of the parts behind the pages.
LEMMA BackPart ==
  ASSUME [Next]_<<officeVars, part>>
  PROVE  /\ [WorkplaceNext]_workplaceVars /\ [LedgerNext]_ledgerVars /\ [SignInNext]_signInVars
         /\ [AuditNext]_auditVars /\ [TimersNext]_timersVars /\ [InboxNext]_inboxVars /\ [BarNext]_barVars
  <1>1. CASE UNCHANGED <<officeVars, part>>
    BY <1>1 DEF officeVars
  <1>2. CASE BackWorks
    BY <1>2 DEF BackWorks, WorkplaceNext, LedgerNext, TimersNext
  <1>3. CASE BackAtRest
    BY <1>3 DEF BackAtRest
  <1>4. QED BY <1>1, <1>2, <1>3 DEF Next

\* The composition implements each part: search, statistics, the pages of
\* projects and templates, payroll, attendance and departments, the ledger,
\* sign-in, the audit trail, the timers, the inbox and the bar.
THEOREM PartsImplemented ==
  Spec => /\ SearchSpec /\ AnalyticsSpec /\ ProjectSpec /\ ListSpec /\ TemplateSpec
          /\ PayrollSpec /\ WorkplaceSpec /\ LedgerSpec /\ SignInSpec
          /\ AuditSpec /\ TimersSpec /\ InboxSpec /\ BarSpec
  <1>1. Init => /\ SearchInit /\ AnalyticsInit /\ ProjectInit /\ ListInit /\ TemplateInit
                /\ PayrollInit /\ WorkplaceInit /\ LedgerInit /\ SignInInit
                /\ AuditInit /\ TimersInit /\ InboxInit /\ BarInit
    BY DEF Init
  <1>2. [Next]_<<officeVars, part>> =>
          /\ [SearchNext]_searchVars /\ [AnalyticsNext]_analyticsVars /\ [ProjectNext]_projectVars
          /\ [ListNext]_listVars /\ [TemplateNext]_templateVars
          /\ [PayrollNext]_payrollVars /\ [WorkplaceNext]_workplaceVars /\ [LedgerNext]_ledgerVars
          /\ [SignInNext]_signInVars /\ [AuditNext]_auditVars /\ [TimersNext]_timersVars
          /\ [InboxNext]_inboxVars /\ [BarNext]_barVars
    BY FrontPart, BackPart
  <1>3. QED
    BY <1>1, <1>2, PTL DEF Spec, SearchSpec, AnalyticsSpec, ProjectSpec, ListSpec, TemplateSpec, PayrollSpec,
       WorkplaceSpec, LedgerSpec, SignInSpec, AuditSpec, TimersSpec, InboxSpec, BarSpec

\* AnswersTrue, for any documents, events, messages and numbers of calls: pages
\* of the search index, statistics of events and folders of an inbox.
THEOREM AnswersTrueCorrect == Spec => []AnswersTrue
  <1>1. SearchAnswers /\ AnalyticsAnswers /\ InboxTrue => AnswersTrue
    BY DEF AnswersTrue, In
  <1>2. QED BY <1>1, PartsImplemented, SearchAnswersCorrect, AnalyticsAnswersCorrect, InboxTrueCorrect, PTL

\* PagesTrue, for any projects, tasks, templates and numbers of calls: the page
\* of a project, the list of projects, the pages of templates and the bar show
\* what is stored once their calls are answered.
THEOREM PagesTrueCorrect == Spec => []PagesTrue
  <1>1. SerialPage /\ ListKept /\ TemplatesTrue /\ BarAgrees => PagesTrue
    BY DEF PagesTrue, In
  <1>2. QED
    BY <1>1, PartsImplemented, SerialPageCorrect, ListKeptCorrect, TemplatesTrueCorrect, BarAgreesCorrect, PTL

\* WorkplaceTrue, for any number of workers, departments and instants: only
\* departments on a cycle are left out of the tree (departments.service.ts), and the
\* hours of a record are those between its own clock-in and clock-out, as near as
\* the column keeps them (attendance.service.ts).
THEOREM WorkplaceTrueCorrect == Spec => []WorkplaceTrue
  <1>1. TreeComplete /\ HoursTrue => WorkplaceTrue
    BY DEF WorkplaceTrue, In
  <1>2. QED BY <1>1, PartsImplemented, TreeCompleteCorrect, HoursTrueCorrect, PTL

\* BooksAdd, for any codes, dates and amounts: the seeds are whole, the trial
\* balance is that of the entries, and the figures of a bill add up.
THEOREM BooksAddCorrect == Spec => []BooksAdd
  <1>1. SeedsAdd /\ TrialBalanceAdds /\ FiguresAdd => BooksAdd
    BY DEF BooksAdd, In
  <1>2. QED BY <1>1, PartsImplemented, SeedsAddCorrect, TrialBalanceAddsCorrect, FiguresAddCorrect, PTL

\* TimersTrue, for any window, any number of attempts and any instants: what the
\* guard lets through, how far reports are apart, and one mail client at a time.
THEOREM TimersTrueCorrect == Spec => []TimersTrue
  <1>1. TwiceAtMost /\ HourApart /\ NeverAlone => TimersTrue
    BY DEF TimersTrue, In
  <1>2. QED BY <1>1, PartsImplemented, TwiceAtMostCorrect, HourApartCorrect, NeverAloneCorrect, PTL

\* Each part has the states that its variables allow, in the composition.
THEOREM TypeOKCorrect == Spec => []TypeOK
  <1>1. ASSUME SearchTypeOK, AnalyticsTypeOK, ProjectTypeOK, ListTypeOK, TemplateTypeOK, PayrollTypeOK,
               WorkplaceTypeOK, LedgerTypeOK, SignInTypeOK, AuditTypeOK, TimersTypeOK, InboxTypeOK, BarTypeOK
        PROVE  TypeOK
    BY <1>1 DEF TypeOK, In
  <1>2. QED BY <1>1, PartsImplemented, SearchTypeCorrect, AnalyticsTypeCorrect, ProjectTypeCorrect,
               ListTypeCorrect, TemplateTypeCorrect, PayrollTypeCorrect, WorkplaceTypeCorrect,
               LedgerTypeCorrect, SignInTypeCorrect, AuditTypeCorrect, TimersTypeCorrect,
               InboxTypeCorrect, BarTypeCorrect, PTL

\* The properties of a single part, in the composition: payroll lines, what the
\* sign-in pages know, and the audit trail.
THEOREM SinglePartsCorrect == Spec => [](PaidOnce /\ SignInAgrees /\ AuditTrail)
  BY PartsImplemented, PaidOnceCorrect, SignInAgreesCorrect, AuditTrailCorrect, PTL
=============================================================================
