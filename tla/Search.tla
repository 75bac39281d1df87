------------------------------- MODULE Search -------------------------------
(***************************************************************************)
(* The full-text index, apps/api/src/search, over the table SearchIndex    *)
(* and the trigger of migration 0007.  A document has the words of its     *)
(* title, those of the metadata fields that the trigger reads, and those   *)
(* of its content.  A query is a set of words.  The queries of a request   *)
(* are separate statements: the index may change between them.             *)
(***************************************************************************)
EXTENDS Integers, FiniteSets, FiniteSetsExt, Sequences

CONSTANTS Tenants, Words,
          Resources, TypeOf,   \* what can be indexed, and the type of each
          Documents,           \* what clients ask to index
          Asked,               \* limits and offsets that clients write
          DefaultLimit, MaxLimit

Types == {TypeOf[x] : x \in Resources}

ASSUME SearchAssumption ==
  /\ Documents \subseteq [title : SUBSET Words, fields : SUBSET Words, content : SUBSET Words]
  /\ Asked \subseteq Int
  /\ DefaultLimit \in 1..MaxLimit /\ MaxLimit \in Nat

VARIABLES index,    \* index[t][x], the row of tenant t about x, or Absent
          search    \* a request: where it is and what it has read

searchVars == <<index, search>>

Absent == [title |-> {}, vector |-> {}, by |-> "nobody"]
Idle == [pc |-> "idle"]

Listed(t) == {x \in Resources : index[t][x] # Absent}

SearchInit ==
  /\ index = [t \in Tenants |-> [x \in Resources |-> Absent]]
  /\ search = Idle

-----------------------------------------------------------------------------
(* Writing *)

\* The trigger makes the vector anew, of the title and some of the metadata:
\* the content that the statement names is searched by nobody.
Vector(doc) == doc.title \union doc.fields

\* Mutant of Tagged: the metadata go over the request's tenant.
Claimed(t, claimed) == claimed

\* The controller puts the request's tenant over one that the metadata claim.
Tagged(t, claimed) == t

\* INSERT ... ON CONFLICT DO UPDATE: the row is this one, whatever it was.
\* by is history: whose request it was.
Upsert(t, claimed, x, doc) ==
  index' = [index EXCEPT ![Tagged(t, claimed)][x] =
              [title |-> doc.title, vector |-> Vector(doc), by |-> t]]

Index(t) ==
  /\ \E claimed \in Tenants, x \in Resources, doc \in Documents : Upsert(t, claimed, x, doc)
  /\ UNCHANGED search

\* One statement after the other, without a transaction.
BulkIndex(t) ==
  /\ search.pc = "idle"
  /\ \E x, y \in Resources, d, e \in Documents :
       /\ Upsert(t, t, x, d)
       /\ search' = [pc |-> "bulk", tenant |-> t, next |-> y, doc |-> e]

BulkNext ==
  /\ search.pc = "bulk"
  /\ Upsert(search.tenant, search.tenant, search.next, search.doc)
  /\ search' = Idle

Delete(t) ==
  /\ \E x \in Resources : index' = [index EXCEPT ![t][x] = Absent]
  /\ UNCHANGED search

-----------------------------------------------------------------------------
(* Searching *)

LimitOf(n) == Min({Max({IF n = 0 THEN DefaultLimit ELSE n, 1}), MaxLimit})
OffsetOf(n) == Max({n, 0})

InTypes(t, types) == {x \in Listed(t) : types = {} \/ TypeOf[x] \in types}

Exact(t, words, types) == {x \in InTypes(t, types) : words \subseteq index[t][x].vector}

\* similarity(title, query) above the threshold: the title shares words.
Fuzzy(t, words, types) == {x \in InTypes(t, types) : index[t][x].title \intersect words # {}}

\* A page of the matches. Ties in the rank make any of them possible.
Pages(matches, limit, offset) ==
  {page \in SUBSET matches :
     Cardinality(page) = Min({limit, Max({Cardinality(matches) - offset, 0})})}

\* What an answer is made of. foreign is history: what is shown although
\* another tenant's request wrote it.
Answer(limit, exact, fuzzy, foreign) ==
  [pc |-> "done", limit |-> limit, exact |-> exact, fuzzy |-> fuzzy, foreign |-> foreign]

Foreign(t, page) == {x \in page : index[t][x].by # t}

\* GET /search without fuzzy, and GET /search/fuzzy. An empty query finds nothing.
SimpleSearch(t) ==
  /\ search.pc = "idle"
  /\ \E words \in SUBSET Words, types \in SUBSET Types, n, m \in Asked :
       LET Found(matches) == IF words = {} THEN {{}} ELSE Pages(matches, LimitOf(n), OffsetOf(m))
       IN \/ \E page \in Found(Exact(t, words, types)) :
               search' = Answer(LimitOf(n), page, {}, Foreign(t, page))
          \/ \E page \in Found(Fuzzy(t, words, types)) :
               search' = Answer(LimitOf(n), {}, page, Foreign(t, page))
  /\ UNCHANGED index

\* GET /search with fuzzy: the exact query, and a second one when that page
\* is not full.
CombinedSearch(t) ==
  /\ search.pc = "idle"
  /\ \E words \in SUBSET Words \ {{}}, types \in SUBSET Types, n, m \in Asked :
       \E page \in Pages(Exact(t, words, types), LimitOf(n), OffsetOf(m)) :
         search' = IF Cardinality(page) >= LimitOf(n) THEN Answer(LimitOf(n), page, {}, Foreign(t, page))
                   ELSE [pc |-> "fuzzy", tenant |-> t, words |-> words, types |-> types,
                         limit |-> LimitOf(n), offset |-> OffsetOf(m), exact |-> page, foreign |-> Foreign(t, page)]
  /\ UNCHANGED index

\* Mutant of Supplement: what both queries found is shown twice.
Undeduplicated(page, exact) == page

\* The rest of the page, without what the exact query has found.
Supplement(page, exact) == page \ exact

FuzzyRest ==
  /\ search.pc = "fuzzy"
  /\ \E page \in Pages(Fuzzy(search.tenant, search.words, search.types),
                       search.limit - Cardinality(search.exact), search.offset) :
       search' = Answer(search.limit, search.exact, Supplement(page, search.exact),
                        search.foreign \union Foreign(search.tenant, page))
  /\ UNCHANGED index

\* Two counts at once, which the index may change between.
StartStats(t) ==
  /\ search.pc = "idle"
  /\ search' = [pc |-> "stats", tenant |-> t, total |-> Cardinality(Listed(t)), at |-> Listed(t)]
  /\ UNCHANGED index

\* GROUP BY: a count for each type that occurs.
ByType(t) == [k \in {TypeOf[x] : x \in Listed(t)} |-> Cardinality(InTypes(t, {k}))]

FinishStats ==
  /\ search.pc = "stats"
  /\ search' = [pc |-> "counted", total |-> search.total,
                steady |-> search.at = Listed(search.tenant),
                byType |-> ByType(search.tenant)]
  /\ UNCHANGED index

\* The answer is sent, or the request breaks off where it is.
End ==
  /\ search # Idle
  /\ search' = Idle
  /\ UNCHANGED index

SearchNext ==
  \/ \E t \in Tenants : \/ Index(t) \/ BulkIndex(t) \/ Delete(t)
                        \/ SimpleSearch(t) \/ CombinedSearch(t) \/ StartStats(t)
  \/ BulkNext \/ FuzzyRest \/ FinishStats \/ End

SearchSpec == SearchInit /\ [][SearchNext]_searchVars

-----------------------------------------------------------------------------
(* Properties *)

Rows == [title : SUBSET Words, vector : SUBSET Words, by : Tenants] \union {Absent}

SearchTypeOK ==
  /\ index \in [Tenants -> [Resources -> Rows]]
  /\ search.pc \in {"idle", "bulk", "fuzzy", "done", "stats", "counted"}
  /\ search.pc \in {"bulk", "fuzzy", "stats"} => search.tenant \in Tenants

\* What the counts of the types come to.
Together(counts) == MapThenSumSet(LAMBDA k : counts[k], DOMAIN counts)

\* The two counts of the statistics agree when nothing came or went in between.
StatsAgree == search.pc = "counted" /\ search.steady => Together(search.byType) = search.total

\* An answer is a page: no more entries than asked for and none twice, although
\* it is put together from two queries of an index that changes (a resource may
\* be indexed again in between); every entry was indexed by the tenant that
\* asks, whatever tenant the metadata of a document claim; and counts agree.
SearchAnswers ==
  /\ StatsAgree
  /\ search.pc = "done" =>
       /\ Cardinality(search.exact) + Cardinality(search.fuzzy) <= search.limit
       /\ search.exact \intersect search.fuzzy = {}
       /\ search.foreign = {}
=============================================================================
