--------------------------- MODULE ContextReadsProofs ---------------------------
(***************************************************************************)
(* No read tool's answer depends on rows outside the caller's scopes,       *)
(* facts are shown with their sources and never beside their successors,    *)
(* and a known display name keeps its people, for every seed, every set of  *)
(* approvals and every call: ContextReads' invariants as theorems of Spec.  *)
(***************************************************************************)
EXTENDS ContextReads, KnowledgeBaseProofs, FiniteSetTheorems

-----------------------------------------------------------------------------
(* The tables *)

ScopesFit(d) ==
    \A t \in TargetTypes : \A i \in DOMAIN d[t] :
        IF t \in IdentityTypes THEN d[t][i].scope = Shared ELSE d[t][i].scope \in Scopes

FactsHang(d) ==
    \A i \in DOMAIN d["fact"] : d["fact"][i].parent.type \in ParentTypes["fact"]

DbInv(d) == d \in Database /\ Linear(d) /\ LinksContained(d) /\ ScopesFit(d) /\ FactsHang(d)

\* What an approval leaves of the rows there were: their scopes, what facts and refs
\* hang from, and the successor of a fact, unless it is a row that was not there.
Grows(d, e) ==
    /\ Extends(d, e)
    /\ \A t \in {"fact", "ref"} : \A i \in DOMAIN d[t] : e[t][i].parent = d[t][i].parent
    /\ \A i \in DOMAIN d["fact"] :
          \/ e["fact"][i].superseded_by = d["fact"][i].superseded_by
          \/ e["fact"][i].superseded_by \notin DOMAIN d["fact"]

Named == aliases \in Seq(SUBSET Texts) /\ DOMAIN aliases = DOMAIN db["person"]

-----------------------------------------------------------------------------
(* The call in progress *)

Shape(c) ==
    c = [ask |-> c.ask, subject |-> c.subject, scopes |-> c.scopes, todo |-> c.todo,
         answer |-> c.answer, outcome |-> c.outcome, known |-> c.known]

HitParts == {"person_hits", "hits", "headline"}

HitType == TargetTypes \ {"fact"}

Queries ==
    [part : {"find", "scopes", "organization", "engagements", "people", "facts", "refs",
             "interactions", "glossary", "speaker", "person_hits", "fact_hits", "hits",
             "headline", "collect"},
     about : Link]

Pending(c, q) == \E i \in DOMAIN c.todo : c.todo[i] = q

\* What the queries still to come may rely on.
QueryFits(c, q) ==
    /\ q.part = "scopes" => c.scopes = {}
    /\ q.part = "hits" => q.about.type \in HitType
    /\ q.part = "headline" => q.about.type \in HitType
    /\ q.part = "find" => c.ask.tool # "search_context" /\ c.answer = {}
    /\ q.part = "organization" =>
          (\E e \in c.answer : e.part = "find") \/ Pending(c, Query("find", NoLink))
    /\ q.part = "facts" =>
          /\ IF c.ask.tool = "search_context" THEN q.about.type \in HitType
                                              ELSE q.about = NoLink
          /\ \A e \in FactsShown(c) : e.about # q.about
    /\ q.part = "collect" => c.ask.tool = "search_context" /\ FactsShown(c) = {}

\* In which order they come.
OrderFits(todo) ==
    /\ \A i, j \in DOMAIN todo :
          i # j =>
            /\ todo[i].part = "scopes" => todo[j].part # "scopes"
            /\ todo[i].part = "find" /\ j < i => todo[j].part = "scopes"
            /\ todo[i].part = "facts" /\ todo[j].part = "facts" => todo[i].about # todo[j].about
            /\ todo[i].part = "collect" => todo[j].part \notin {"facts", "collect"}
    /\ \A i \in DOMAIN todo :
          todo[i] = Query("facts", NoLink) =>
            \E j \in DOMAIN todo : i < j /\ todo[j] = Query("refs", NoLink)

ToDoFits(c) ==
    /\ c.todo \in Seq(Queries)
    /\ \A i \in DOMAIN c.todo : QueryFits(c, c.todo[i])
    /\ OrderFits(c.todo)

EntryFits(d, c, e) ==
    /\ e.part \in HitParts => e.type \in HitType /\ e.id \in Nat
    /\ e.part = "find" =>
          e.row \in Row /\ LinksOf(d, e.row) /\ e.row.scope \in c.scopes \cup {Shared}

Target(c, about) == IF about = NoLink THEN c.subject ELSE about

RefsFollow(c, e, r) ==
    \/ \E s \in c.answer : s.part = "refs" /\ s.id = r
    \/ Pending(c, Query("refs", e.about))
    \/ Pending(c, Query("refs", LinkOf(e)))

FactFits(d, c, e) ==
    /\ e.type = "fact" /\ e.id \in DOMAIN d["fact"]
    /\ d["fact"][e.id].scope \in c.scopes \cup {Shared}
    /\ IF c.ask.tool = "search_context" THEN e.about.type \in HitType ELSE e.about = NoLink
    /\ d["fact"][e.id].parent = Target(c, e.about)
    /\ e.refs \in Nat /\ e.refs <= Len(d["ref"])
    /\ \A r \in 1 .. e.refs : d["ref"][r].parent = LinkOf(e) => RefsFollow(c, e, r)
    /\ \A f \in FactsShown(c) : d["fact"][e.id].superseded_by # f.id

OpenFits(d, c) ==
    /\ ToDoFits(c)
    /\ IsFiniteSet(c.answer)
    /\ \A e \in c.answer : EntryFits(d, c, e)
    /\ \A e \in FactsShown(c) : FactFits(d, c, e)

CallInv(d, names, c) ==
    /\ Shape(c) /\ c.ask \in Ask
    /\ c.todo # <<>> => c.outcome = "ok"
    /\ \A p \in c.known : p \in DOMAIN names /\ Normal[c.ask.name] \in names[p]
    /\ c.outcome = "ok" => OpenFits(d, c)

Inv ==
    /\ DbInv(db)
    /\ Named
    /\ call # None => CallInv(db, aliases, call)
    /\ KnownNamesKeepTheirPeople

-----------------------------------------------------------------------------
(* Finite sets and the sequences made of them *)

\* The image of a finite set is finite.
LEMMA ImageFinite ==
  ASSUME NEW f, IsFiniteSet(DOMAIN f)
  PROVE  IsFiniteSet({f[x] : x \in DOMAIN f})
<1> DEFINE T == {f[x] : x \in DOMAIN f}
<1>1. PICK g : g = [x \in DOMAIN f |-> f[x]]
  OBVIOUS
<1>2. g \in Surjection(DOMAIN f, T)
  BY <1>1 DEF Surjection
<1> QED BY <1>2, FS_Surjection

\* SetToSeq lists every member of a finite set, and each once.
LEMMA SetToSeqLists ==
  ASSUME NEW S, IsFiniteSet(S)
  PROVE  /\ SetToSeq(S) \in Seq(S)
         /\ \A x \in S : \E i \in DOMAIN SetToSeq(S) : SetToSeq(S)[i] = x
         /\ \A i, j \in DOMAIN SetToSeq(S) : SetToSeq(S)[i] = SetToSeq(S)[j] => i = j
<1> DEFINE n == Cardinality(S)
           s == SetToSeq(S)
<1>1. n \in Nat /\ Bijection(1..n, S) # {}
  BY FS_CardinalityType DEF ExistsBijection
<1>2. PICK f : f \in Bijection(1..n, S)
  BY <1>1
<1>3. f \in [1..n -> S] /\ IsInjective(f)
  BY <1>2 DEF Bijection, Injection
<1>4. s \in [1..n -> S] /\ IsInjective(s)
  BY <1>3 DEF SetToSeq
<1>5. s \in Injection(1..n, S)
  BY <1>4 DEF Injection
<1>6. IsFiniteSet(1..n) /\ Cardinality(1..n) = n
  BY <1>1, FS_Interval
<1>7. s \in Surjection(1..n, S)
  BY <1>5, <1>6, FS_Injection
<1>8. \A x \in S : \E i \in 1..n : s[i] = x
  BY <1>7 DEF Surjection
<1>9. s \in Seq(S) /\ DOMAIN s = 1..n
  BY <1>1, <1>4
<1> QED BY <1>4, <1>8, <1>9 DEF IsInjective

\* An answer is finite because the tables are.
LEMMA TargetTypesFinite == IsFiniteSet(TargetTypes)
<1>1. IsFiniteSet(1..8)
  <2>1. 1 \in Int /\ 8 \in Int
    OBVIOUS
  <2> QED BY <2>1, FS_Interval, Zenon
<1> DEFINE f == [i \in 1..8 |-> <<"person", "organization", "entity", "engagement",
                                  "interaction", "fact", "ref", "glossary">>[i]]
<1>2. IsFiniteSet({f[i] : i \in DOMAIN f})
  <2>1. DOMAIN f = 1..8
    OBVIOUS
  <2> HIDE DEF f
  <2> QED BY <1>1, <2>1, ImageFinite
<1>3. TargetTypes \subseteq {f[i] : i \in DOMAIN f}
  <2>1. /\ f[1] = "person" /\ f[2] = "organization" /\ f[3] = "entity" /\ f[4] = "engagement"
        /\ f[5] = "interaction" /\ f[6] = "fact" /\ f[7] = "ref" /\ f[8] = "glossary"
    OBVIOUS
  <2>2. DOMAIN f = 1..8
    OBVIOUS
  <2> HIDE DEF f
  <2>3. {1, 2, 3, 4, 5, 6, 7, 8} \subseteq DOMAIN f
    BY <2>2
  <2> QED BY <2>1, <2>3 DEF TargetTypes, IdentityTypes, ContentTypes
<1> QED BY <1>2, <1>3, FS_Subset

\* All rows of the tables, as links.
AllRows(d) == UNION {Rows(t, DOMAIN d[t]) : t \in TargetTypes}

LEMMA AllRowsFinite ==
  ASSUME NEW d \in Database
  PROVE  IsFiniteSet(AllRows(d))
<1>1. \A t \in TargetTypes : IsFiniteSet(Rows(t, DOMAIN d[t]))
  <2> SUFFICES ASSUME NEW t \in TargetTypes PROVE IsFiniteSet(Rows(t, DOMAIN d[t]))
    OBVIOUS
  <2>1. DOMAIN d[t] = 1..Len(d[t]) /\ Len(d[t]) \in Nat
    BY DEF Database
  <2>2. PICK f : f = [i \in DOMAIN d[t] |-> [type |-> t, id |-> i]]
    OBVIOUS
  <2>3. IsFiniteSet(DOMAIN f)
    BY <2>1, <2>2, FS_Interval
  <2>4. ASSUME NEW l
        PROVE  l \in Rows(t, DOMAIN d[t]) <=> \E i \in DOMAIN d[t] : l = [type |-> t, id |-> i]
    <3>1. ASSUME l \in Rows(t, DOMAIN d[t]) PROVE l = [type |-> t, id |-> l.id] /\ l.id \in DOMAIN d[t]
      BY <3>1 DEF Rows
    <3> QED BY <3>1 DEF Rows
  <2>5. {f[i] : i \in DOMAIN f} = {[type |-> t, id |-> i] : i \in DOMAIN d[t]}
    BY <2>2
  <2> QED BY <2>3, <2>4, <2>5, ImageFinite
<1>2. PICK g : g = [t \in TargetTypes |-> Rows(t, DOMAIN d[t])]
  OBVIOUS
<1>3. IsFiniteSet({g[t] : t \in DOMAIN g})
  BY <1>2, TargetTypesFinite, ImageFinite
<1>4. {g[t] : t \in DOMAIN g} = {Rows(t, DOMAIN d[t]) : t \in TargetTypes}
  BY <1>2
<1>5. IsFiniteSet({Rows(t, DOMAIN d[t]) : t \in TargetTypes})
  BY <1>3, <1>4
<1> QED BY <1>1, <1>5, FS_UNION DEF AllRows

-----------------------------------------------------------------------------
(* What a query selects *)

\* A row open to a caller with the scopes S.
SeenRow(d, S, l) == l \in [type : TargetTypes, id : Nat] /\ l.id \in Seen(d, l.type, S)

\* The rows taken from a table are of its type, and in sight if they were chosen so.
LEMMA RowsType ==
  ASSUME NEW t, NEW ids
  PROVE  \A l \in Rows(t, ids) : l.type = t
  BY DEF Rows

LEMMA RowsSeen ==
  ASSUME NEW d \in Database, NEW t \in TargetTypes, NEW S,
         NEW ids, ids \subseteq Seen(d, t, S)
  PROVE  \A l \in Rows(t, ids) : SeenRow(d, S, l)
<1> SUFFICES ASSUME NEW l \in Rows(t, ids) PROVE SeenRow(d, S, l)
  OBVIOUS
<1>1. l = [type |-> t, id |-> l.id] /\ l.type = t /\ l.id \in Seen(d, t, S)
  BY DEF Rows
<1>2. l.id \in Nat
  <2>1. DOMAIN d[t] = 1..Len(d[t]) /\ Len(d[t]) \in Nat
    BY DEF Database
  <2> QED BY <1>1, <2>1 DEF Seen
<1> QED BY <1>1, <1>2 DEF SeenRow

\* The people are shared: every caller sees all of them.
LEMMA PeopleSeen ==
  ASSUME NEW d, ScopesFit(d), NEW S
  PROVE  DOMAIN d["person"] \subseteq Seen(d, "person", S)
  BY DEF ScopesFit, Seen, TargetTypes, IdentityTypes

\* The parent of a row that a caller sees is a row that caller sees.
LEMMA ParentSeen ==
  ASSUME NEW d \in Database, ScopesFit(d), NEW S, NEW row \in Row, LinksOf(d, row),
         row.scope \in S \cup {Shared}, row.parent # NoLink
  PROVE  SeenRow(d, S, row.parent)
<1> DEFINE l == row.parent
<1>1. l \in [type : TargetTypes, id : Nat]
  BY DEF Row, Link
<1>2. l.id \in DOMAIN d[l.type] /\ (l.type \in ContentTypes => d[l.type][l.id].scope = row.scope)
  BY DEF LinksOf, RowVisible
<1>3. l.type \in IdentityTypes => d[l.type][l.id].scope = Shared
  BY <1>1, <1>2 DEF ScopesFit
<1>4. l.type \in IdentityTypes \/ l.type \in ContentTypes
  BY <1>1 DEF TargetTypes
<1>5. d[l.type][l.id].scope \in S \cup {Shared}
  BY <1>2, <1>3, <1>4
<1> QED BY <1>1, <1>2, <1>5 DEF SeenRow, Seen

\* A name leads to people that are there.
LEMMA CalledSeen ==
  ASSUME Named, ScopesFit(db), NEW S, NEW name
  PROVE  CalledBy(name) \subseteq Seen(db, "person", S)
<1>1. CalledBy(name) \subseteq DOMAIN aliases
  BY DEF CalledBy, Carriers
<1> QED BY <1>1, PeopleSeen DEF Named

\* The head of the list of queries, and what its place there says about it.
LEMMA HeadFits ==
  ASSUME NEW c, ToDoFits(c), c.todo # <<>>
  PROVE  /\ 1 \in DOMAIN c.todo /\ Head(c.todo) = c.todo[1]
         /\ Head(c.todo) \in Queries
         /\ QueryFits(c, Head(c.todo))
         /\ Head(c.todo).part # "scopes" =>
               \A i \in DOMAIN c.todo : c.todo[i].part = "find" => i = 1
<1>1. 1 \in DOMAIN c.todo /\ Head(c.todo) = c.todo[1] /\ DOMAIN c.todo \subseteq Nat \ {0}
  BY DEF ToDoFits
<1>2. Head(c.todo) \in Queries
  BY <1>1 DEF ToDoFits
<1>3. \A i \in DOMAIN c.todo : c.todo[i].part = "find" /\ i # 1 => c.todo[1].part = "scopes"
  BY <1>1 DEF ToDoFits, OrderFits
<1> QED BY <1>1, <1>2, <1>3 DEF ToDoFits

\* An entry was found before its organization is looked up.
LEMMA SubjectFound ==
  ASSUME NEW d, NEW c, OpenFits(d, c), c.todo # <<>>, Head(c.todo).part = "organization"
  PROVE  /\ SubjectRow(c) \in Row /\ LinksOf(d, SubjectRow(c))
         /\ SubjectRow(c).scope \in c.scopes \cup {Shared}
<1>1. ~ Pending(c, Query("find", NoLink))
  <2> SUFFICES ASSUME NEW i \in DOMAIN c.todo, c.todo[i] = Query("find", NoLink) PROVE FALSE
    BY DEF Pending
  <2>1. c.todo[i].part = "find"
    BY DEF Query
  <2> QED BY <2>1, HeadFits DEF OpenFits
<1>2. \E e \in c.answer : e.part = "find"
  BY <1>1, HeadFits DEF OpenFits, QueryFits
<1>3. (CHOOSE e \in c.answer : e.part = "find") \in {e \in c.answer : e.part = "find"}
  BY <1>2
<1> QED BY <1>3 DEF SubjectRow, OpenFits, EntryFits

\* Every row a query selects is open to the caller.
LEMMA SelectedSeen ==
  ASSUME DbInv(db), Named, NEW c, c.ask \in Ask, OpenFits(db, c), c.todo # <<>>
  PROVE  \A l \in Selected(db, Head(c.todo), c) : SeenRow(db, c.scopes, l)
<1> DEFINE q == Head(c.todo)
           S == c.scopes
           about == IF q.about = NoLink THEN c.subject ELSE q.about
<1>1. /\ db \in Database /\ ScopesFit(db) /\ LinksContained(db)
      /\ q \in Queries /\ q.about \in Link /\ QueryFits(c, q)
  BY HeadFits DEF DbInv, OpenFits, Queries
<1>types. {"person", "organization", "engagement", "interaction", "fact", "ref", "glossary"}
             \subseteq TargetTypes
  BY DEF TargetTypes, IdentityTypes, ContentTypes
<1>2. CASE q.part = "find"
  <2> DEFINE t == SubjectType[c.ask.tool]
  <2>1. c.ask.tool \in Tools /\ c.ask.tool # "search_context"
    BY <1>1, <1>2 DEF QueryFits, Ask
  <2>2. t \in TargetTypes
    BY <2>1, <1>types DEF SubjectType, Tools
  <2>3. Found(db, c) \subseteq Seen(db, t, S)
    <3>1. {c.ask.id} \cap Seen(db, t, S) \subseteq Seen(db, t, S)
      OBVIOUS
    <3>2. t = "person" => CalledBy(c.ask.name) \subseteq Seen(db, t, S)
      BY <1>1, CalledSeen
    <3>3. Matching(db, t, c.ask.name, S) \subseteq Seen(db, t, S)
      BY DEF Matching
    <3> QED BY <3>1, <3>2, <3>3 DEF Found
  <2>4. Selected(db, q, c) = Rows(t, Found(db, c))
    BY <1>2 DEF Selected
  <2> QED BY <1>1, <2>2, <2>3, <2>4, RowsSeen
<1>3. CASE q.part = "organization"
  <2>1. Selected(db, q, c) = {SubjectRow(c).parent} \ {NoLink}
    BY <1>3 DEF Selected
  <2>2. /\ SubjectRow(c) \in Row /\ LinksOf(db, SubjectRow(c))
        /\ SubjectRow(c).scope \in S \cup {Shared}
    BY <1>3, SubjectFound
  <2>3. SubjectRow(c).parent # NoLink => SeenRow(db, S, SubjectRow(c).parent)
    BY <1>1, <2>2, ParentSeen
  <2> QED BY <2>1, <2>3
<1>4. CASE q.part = "engagements"
  <2>1. EngagementsOf(db, about, S) \subseteq Seen(db, "engagement", S)
    BY DEF EngagementsOf, Joining, Hanging
  <2>2. Selected(db, q, c) = Rows("engagement", EngagementsOf(db, about, S))
    BY <1>4 DEF Selected
  <2> QED BY <1>1, <1>types, <2>1, <2>2, RowsSeen
<1>5. CASE q.part = "people"
  <2>1. PeopleOf(db, about, S) \subseteq Seen(db, "person", S)
    <3>1. \A i \in DOMAIN db["engagement"] :
             db["engagement"][i].people \subseteq DOMAIN db["person"]
      BY <1>1, <1>types DEF LinksContained, LinksOf
    <3>2. UNION {db["engagement"][i].people : i \in {about.id} \cap Seen(db, "engagement", S)}
             \subseteq DOMAIN db["person"]
      BY <3>1 DEF Seen
    <3>3. DOMAIN db["person"] \subseteq Seen(db, "person", S)
      BY <1>1, PeopleSeen
    <3> QED BY <3>2, <3>3 DEF PeopleOf, Hanging
  <2>2. Selected(db, q, c) = Rows("person", PeopleOf(db, about, S))
    BY <1>5 DEF Selected
  <2> QED BY <1>1, <1>types, <2>1, <2>2, RowsSeen
<1>6. CASE q.part = "facts"
  <2>1. FactsAbout(db, about, S) \subseteq Seen(db, "fact", S)
    BY DEF FactsAbout, Newest, Hanging
  <2>2. Selected(db, q, c) = Rows("fact", FactsAbout(db, about, S))
    BY <1>6 DEF Selected
  <2> QED BY <1>1, <1>types, <2>1, <2>2, RowsSeen
<1>7. CASE q.part = "refs"
  <2>1. Hanging(db, "ref", about, S) \subseteq Seen(db, "ref", S)
    BY DEF Hanging
  <2>2. Selected(db, q, c) = Rows("ref", Hanging(db, "ref", about, S))
    BY <1>7 DEF Selected
  <2> QED BY <1>1, <1>types, <2>1, <2>2, RowsSeen
<1>8. CASE q.part = "interactions"
  <2>1. InteractionsOf(db, about, S) \subseteq Seen(db, "interaction", S)
    BY DEF InteractionsOf, Joining, Hanging
  <2>2. Selected(db, q, c) = Rows("interaction", InteractionsOf(db, about, S))
    BY <1>8 DEF Selected
  <2> QED BY <1>1, <1>types, <2>1, <2>2, RowsSeen
<1>9. CASE q.part = "glossary"
  <2>1. TermsOf(db, about, S) \subseteq Seen(db, "glossary", S)
    BY DEF TermsOf, Hanging
  <2>2. Selected(db, q, c) = Rows("glossary", TermsOf(db, about, S))
    BY <1>9 DEF Selected
  <2> QED BY <1>1, <1>types, <2>1, <2>2, RowsSeen
<1>10. CASE q.part = "person_hits"
  <2>1. Selected(db, q, c) = Rows("person", CalledBy(c.ask.name))
    BY <1>10 DEF Selected
  <2> QED BY <1>1, <1>types, <2>1, CalledSeen, RowsSeen
<1>11. CASE q.part = "fact_hits"
  <2>1. Matching(db, "fact", c.ask.name, S) \subseteq Seen(db, "fact", S)
    BY DEF Matching
  <2>2. Selected(db, q, c) = Rows("fact", Matching(db, "fact", c.ask.name, S))
    BY <1>11 DEF Selected
  <2> QED BY <1>1, <1>types, <2>1, <2>2, RowsSeen
<1>12. CASE q.part = "hits"
  <2>1. q.about.type \in TargetTypes /\ about = q.about
    BY <1>1, <1>12 DEF QueryFits, HitType, NoLink, TargetTypes, IdentityTypes, ContentTypes
  <2>2. Matching(db, about.type, c.ask.name, S) \subseteq Seen(db, about.type, S)
    BY DEF Matching
  <2>3. Selected(db, q, c) = Rows(about.type, Matching(db, about.type, c.ask.name, S))
    BY <1>12 DEF Selected
  <2> QED BY <1>1, <2>1, <2>2, <2>3, RowsSeen
<1>13. CASE q.part = "headline"
  <2>1. q.about \in [type : TargetTypes, id : Nat]
    BY <1>1, <1>13 DEF QueryFits, HitType, Link, NoLink, TargetTypes, IdentityTypes, ContentTypes
  <2>2. Selected(db, q, c) = {l \in {q.about} : l.id \in Seen(db, l.type, S)}
    BY <1>13 DEF Selected
  <2> QED BY <2>1, <2>2 DEF SeenRow
<1>14. CASE q.part \notin {"find", "organization", "engagements", "people", "facts", "refs",
                           "interactions", "glossary", "person_hits", "fact_hits", "hits",
                           "headline"}
  <2>1. Selected(db, q, c) = {}
    BY <1>14 DEF Selected
  <2> QED BY <2>1
<1> QED BY <1>2, <1>3, <1>4, <1>5, <1>6, <1>7, <1>8, <1>9, <1>10, <1>11, <1>12, <1>13, <1>14

-----------------------------------------------------------------------------
(* Rows of other scopes *)

\* Emptying the rows of other scopes leaves which rows a caller sees, and those rows.
LEMMA WithoutSeen ==
  ASSUME NEW d \in Database, ScopesFit(d), NEW S, NEW t \in TargetTypes
  PROVE  /\ Without(d, S)[t] \in Seq(Row) /\ Len(Without(d, S)[t]) = Len(d[t])
         /\ Seen(Without(d, S), t, S) = Seen(d, t, S)
         /\ \A i \in Seen(d, t, S) : Without(d, S)[t][i] = d[t][i]
<1> DEFINE w == Without(d, S)[t]
           empty(i) == [NewRow(t, EmptyPatch, d[t][i].scope) EXCEPT !.superseded_by = 0]
<1>1. d[t] \in Seq(Row) /\ DOMAIN d[t] = 1..Len(d[t]) /\ Len(d[t]) \in Nat
  BY DEF Database
<1>2. w = [i \in DOMAIN d[t] |-> IF i \in Seen(d, t, S) THEN d[t][i] ELSE empty(i)]
  BY DEF Without
<1>3. ASSUME NEW i \in DOMAIN d[t], i \notin Seen(d, t, S)
      PROVE  empty(i) \in Row /\ empty(i).scope = d[t][i].scope
  <2>1. d[t][i] \in Row /\ d[t][i].scope \notin S \cup {Shared}
    BY <1>1, <1>3 DEF Seen
  <2>2. t \in ContentTypes /\ d[t][i].scope \in Scopes
    BY <2>1 DEF ScopesFit, TargetTypes
  <2>3. EmptyPatch \in Patch
    BY DEF EmptyPatch, Patch, Link
  <2>4. PICK r : r = NewRow(t, EmptyPatch, d[t][i].scope)
    OBVIOUS
  <2>5. r \in Row
    BY <2>2, <2>3, <2>4, NewRowType
  <2>6. r.scope = d[t][i].scope
    BY <2>2, <2>4 DEF NewRow
  <2>7. [r EXCEPT !.superseded_by = 0] \in Row
    BY <2>5 DEF Row
  <2>8. [r EXCEPT !.superseded_by = 0].scope = r.scope
    BY <2>5 DEF Row
  <2> QED BY <2>4, <2>6, <2>7, <2>8
<1>4. DOMAIN w = 1..Len(d[t])
  BY <1>1, <1>2
<1>5. \A i \in 1..Len(d[t]) : w[i] \in Row /\ w[i].scope = d[t][i].scope
  <2> SUFFICES ASSUME NEW i \in 1..Len(d[t])
               PROVE  w[i] \in Row /\ w[i].scope = d[t][i].scope
    OBVIOUS
  <2>1. CASE i \in Seen(d, t, S)
    <3>1. w[i] = d[t][i]
      BY <1>1, <1>2, <2>1
    <3> QED BY <1>1, <3>1
  <2>2. CASE i \notin Seen(d, t, S)
    <3>1. w[i] = empty(i)
      BY <1>1, <1>2, <2>2
    <3> QED BY <1>1, <1>3, <2>2, <3>1
  <2> QED BY <2>1, <2>2
<1>6. w \in Seq(Row) /\ Len(w) = Len(d[t])
  <2>1. w = [i \in 1..Len(d[t]) |-> w[i]]
    BY <1>1, <1>2
  <2> HIDE DEF w
  <2>2. w \in [1..Len(d[t]) -> Row]
    BY <1>5, <2>1
  <2> QED BY <1>1, <1>4, <2>2
<1>7. \A i \in DOMAIN d[t] : i \in Seen(d, t, S) => w[i] = d[t][i]
  BY <1>2
<1>8. Seen(Without(d, S), t, S) = Seen(d, t, S)
  BY <1>1, <1>4, <1>5 DEF Seen
<1> QED BY <1>6, <1>7, <1>8 DEF Seen

\* What hangs from a row, or has someone among its people, as the caller sees it.
LEMMA WithoutHanging ==
  ASSUME NEW d \in Database, ScopesFit(d), NEW S, NEW t \in TargetTypes, NEW x
  PROVE  /\ Hanging(Without(d, S), t, x, S) = Hanging(d, t, x, S)
         /\ Joining(Without(d, S), t, x, S) = Joining(d, t, x, S)
         /\ Matching(Without(d, S), t, x, S) = Matching(d, t, x, S)
<1>1. Seen(Without(d, S), t, S) = Seen(d, t, S)
  BY WithoutSeen
<1>2. \A i \in Seen(d, t, S) : Without(d, S)[t][i] = d[t][i]
  BY WithoutSeen
<1>3. Hanging(Without(d, S), t, x, S) = Hanging(d, t, x, S)
  BY <1>1, <1>2 DEF Hanging
<1>4. Joining(Without(d, S), t, x, S) = Joining(d, t, x, S)
  BY <1>1, <1>2 DEF Joining
<1>5. Matching(Without(d, S), t, x, S) = Matching(d, t, x, S)
  BY <1>1, <1>2 DEF Matching
<1> QED BY <1>3, <1>4, <1>5

\* A query selects the same rows when the rows of other scopes are empty.
LEMMA SelectedAlike ==
  ASSUME DbInv(db), NEW c, c.ask \in Ask, OpenFits(db, c), c.todo # <<>>
  PROVE  Selected(Without(db, c.scopes), Head(c.todo), c) = Selected(db, Head(c.todo), c)
<1> DEFINE q == Head(c.todo)
           S == c.scopes
           w == Without(db, S)
           about == Target(c, q.about)
<1>1. db \in Database /\ ScopesFit(db) /\ QueryFits(c, q) /\ q.about \in Link
  BY HeadFits DEF DbInv, OpenFits, Queries
<1>types. {"person", "organization", "engagement", "interaction", "fact", "ref", "glossary"}
             \subseteq TargetTypes
  BY DEF TargetTypes, IdentityTypes, ContentTypes
<1>seen. \A t \in TargetTypes : /\ Seen(w, t, S) = Seen(db, t, S)
                               /\ \A i \in Seen(db, t, S) : w[t][i] = db[t][i]
  BY <1>1, WithoutSeen
<1>hang. \A t \in TargetTypes : \A x : /\ Hanging(w, t, x, S) = Hanging(db, t, x, S)
                                      /\ Joining(w, t, x, S) = Joining(db, t, x, S)
                                      /\ Matching(w, t, x, S) = Matching(db, t, x, S)
  BY <1>1, WithoutHanging
<1> SUFFICES Selected(w, q, c) = Selected(db, q, c)
  OBVIOUS
<1> HIDE DEF w
<1>2. CASE q.part = "find"
  <2> DEFINE t == SubjectType[c.ask.tool]
  <2>1. c.ask.tool \in Tools /\ c.ask.tool # "search_context"
    BY <1>1, <1>2 DEF QueryFits, Ask
  <2>2. t \in TargetTypes
    BY <2>1, <1>types DEF SubjectType, Tools
  <2>3. Found(w, c) = Found(db, c)
    <3>1. Seen(w, t, S) = Seen(db, t, S)
      BY <1>seen, <2>2
    <3>2. Matching(w, t, c.ask.name, S) = Matching(db, t, c.ask.name, S)
      BY <1>hang, <2>2
    <3> QED BY <3>1, <3>2 DEF Found
  <2> QED BY <1>2, <2>3 DEF Selected, Target
<1>3. CASE q.part = "engagements"
  <2>1. EngagementsOf(w, about, S) = EngagementsOf(db, about, S)
    BY <1>hang, <1>types DEF EngagementsOf
  <2> QED BY <1>3, <2>1 DEF Selected, Target
<1>4. CASE q.part = "people"
  <2>1. Hanging(w, "person", about, S) = Hanging(db, "person", about, S)
    BY <1>hang, <1>types
  <2>2. /\ Seen(w, "engagement", S) = Seen(db, "engagement", S)
        /\ \A i \in Seen(db, "engagement", S) : w["engagement"][i] = db["engagement"][i]
    BY <1>seen, <1>types
  <2>3. {w["engagement"][i].people : i \in {about.id} \cap Seen(w, "engagement", S)}
          = {db["engagement"][i].people : i \in {about.id} \cap Seen(db, "engagement", S)}
    BY <2>2
  <2>4. PeopleOf(w, about, S) = PeopleOf(db, about, S)
    BY <2>1, <2>3 DEF PeopleOf
  <2> QED BY <1>4, <2>4 DEF Selected, Target
<1>5. CASE q.part = "facts"
  <2>1. Hanging(w, "fact", about, S) = Hanging(db, "fact", about, S)
    BY <1>hang, <1>types
  <2>2. \A i \in Hanging(db, "fact", about, S) : w["fact"][i] = db["fact"][i]
    BY <1>seen, <1>types DEF Hanging
  <2>3. {i \in Hanging(w, "fact", about, S) : w["fact"][i].superseded_by = 0}
          = {i \in Hanging(db, "fact", about, S) : db["fact"][i].superseded_by = 0}
    BY <2>1, <2>2
  <2>4. FactsAbout(w, about, S) = FactsAbout(db, about, S)
    BY <2>3 DEF FactsAbout
  <2> QED BY <1>5, <2>4 DEF Selected, Target
<1>6. CASE q.part = "refs"
  <2>1. Hanging(w, "ref", about, S) = Hanging(db, "ref", about, S)
    BY <1>hang, <1>types
  <2> QED BY <1>6, <2>1 DEF Selected, Target
<1>7. CASE q.part = "interactions"
  <2>1. /\ Hanging(w, "interaction", about, S) = Hanging(db, "interaction", about, S)
        /\ Joining(w, "interaction", about.id, S) = Joining(db, "interaction", about.id, S)
    BY <1>hang, <1>types
  <2>2. \A i \in Hanging(db, "interaction", about, S) : w["interaction"][i] = db["interaction"][i]
    BY <1>seen, <1>types DEF Hanging
  <2>3. /\ Seen(w, "engagement", S) = Seen(db, "engagement", S)
        /\ \A i \in Seen(db, "engagement", S) : w["engagement"][i] = db["engagement"][i]
    BY <1>seen, <1>types
  <2>4. {i \in Hanging(w, "interaction", about, S) :
              /\ about.id \in Seen(w, "engagement", S)
              /\ w["interaction"][i].scope = w["engagement"][about.id].scope}
          = {i \in Hanging(db, "interaction", about, S) :
              /\ about.id \in Seen(db, "engagement", S)
              /\ db["interaction"][i].scope = db["engagement"][about.id].scope}
    BY <2>1, <2>2, <2>3
  <2>5. InteractionsOf(w, about, S) = InteractionsOf(db, about, S)
    BY <2>1, <2>4 DEF InteractionsOf
  <2> QED BY <1>7, <2>5 DEF Selected, Target
<1>8. CASE q.part = "glossary"
  <2>1. TermsOf(w, about, S) = TermsOf(db, about, S)
    BY <1>seen, <1>hang, <1>types DEF TermsOf
  <2> QED BY <1>8, <2>1 DEF Selected, Target
<1>9. CASE q.part = "fact_hits"
  <2>1. Matching(w, "fact", c.ask.name, S) = Matching(db, "fact", c.ask.name, S)
    BY <1>hang, <1>types
  <2> QED BY <1>9, <2>1 DEF Selected, Target
<1>10. CASE q.part = "hits"
  <2>1. q.about.type \in TargetTypes /\ about = q.about
    BY <1>1, <1>10 DEF QueryFits, HitType, Target, NoLink, TargetTypes, IdentityTypes, ContentTypes
  <2>2. Matching(w, about.type, c.ask.name, S) = Matching(db, about.type, c.ask.name, S)
    BY <1>hang, <2>1
  <2> QED BY <1>10, <2>2 DEF Selected, Target
<1>11. CASE q.part = "headline"
  <2>1. q.about.type \in TargetTypes
    BY <1>1, <1>11 DEF QueryFits, HitType
  <2>2. Seen(w, q.about.type, S) = Seen(db, q.about.type, S)
    BY <1>seen, <2>1
  <2>3. {l \in {q.about} : l.id \in Seen(w, l.type, S)} = {l \in {q.about} : l.id \in Seen(db, l.type, S)}
    BY <2>2
  <2> QED BY <1>11, <2>3 DEF Selected, Target
<1>12. CASE q.part \notin {"find", "engagements", "people", "facts", "refs", "interactions",
                           "glossary", "fact_hits", "hits", "headline"}
  BY <1>12 DEF Selected
<1> QED BY <1>2, <1>3, <1>4, <1>5, <1>6, <1>7, <1>8, <1>9, <1>10, <1>11, <1>12

\* So a query returns the same entries.
LEMMA TakenAlike ==
  ASSUME DbInv(db), Named, NEW c, c.ask \in Ask, OpenFits(db, c), c.todo # <<>>
  PROVE  Taken(db, Head(c.todo), c) = Taken(Without(db, c.scopes), Head(c.todo), c)
<1> DEFINE q == Head(c.todo)
           w == Without(db, c.scopes)
<1>1. db \in Database /\ ScopesFit(db)
  BY DEF DbInv
<1>2. Len(w["ref"]) = Len(db["ref"])
  BY <1>1, WithoutSeen DEF TargetTypes, ContentTypes
<1>3. \A l \in Selected(db, q, c) : w[l.type][l.id] = db[l.type][l.id]
  BY <1>1, SelectedSeen, WithoutSeen DEF SeenRow
<1>4. \A l \in Selected(db, q, c) : Entry(w, q, l) = Entry(db, q, l)
  BY <1>2, <1>3 DEF Entry
<1>5. Selected(w, q, c) = Selected(db, q, c)
  BY SelectedAlike
<1> HIDE DEF q, w
<1> QED BY <1>4, <1>5 DEF Taken, q, w

-----------------------------------------------------------------------------
(* Approvals *)

\* What a patch must be for a row of the table t.
PatchFits(t, patch) ==
    /\ patch \in Patch /\ WellShaped(t, patch)

\* People, organizations and terms are shared; everything else is of the scope it came from.
LEMMA ScopeOfNewRow ==
  ASSUME NEW t \in TargetTypes, NEW patch, NEW scope \in Scopes
  PROVE  IF t \in IdentityTypes THEN NewRow(t, patch, scope).scope = Shared
                                 ELSE NewRow(t, patch, scope).scope \in Scopes
  BY DEF NewRow, TargetTypes, IdentityTypes, ContentTypes

\* What each storage call of an approval leaves of the tables.
LEMMA InsertGrows ==
  ASSUME NEW d, DbInv(d), NEW t \in TargetTypes, NEW patch, PatchFits(t, patch),
         NEW scope \in Scopes, LinksExist(d, patch, scope),
         t = "fact" => patch.parent # NoLink
  PROVE  LET e == Insert(d, t, patch, scope)
         IN  DbInv(e) /\ Grows(d, e) /\ Len(d[t]) + 1 \in DOMAIN e[t]
                /\ (t \in ContentTypes => e[t][Len(d[t]) + 1].scope = scope)
<1> DEFINE e == Insert(d, t, patch, scope)
           n == Len(d[t]) + 1
<1>1. /\ d \in Database /\ Linear(d) /\ LinksContained(d) /\ ScopesFit(d) /\ FactsHang(d)
      /\ patch \in Patch /\ WellShaped(t, patch)
  BY DEF DbInv, PatchFits
<1>2. /\ e \in Database
      /\ \A u \in TargetTypes : u # t => e[u] = d[u]
      /\ Len(e[t]) = n
      /\ \A i \in DOMAIN d[t] : e[t][i] = d[t][i]
      /\ e[t][n] = NewRow(t, patch, scope)
  BY <1>1, InsertEffect
<1>3. Linear(e) /\ LinksContained(e)
  BY <1>1, InsertKeepsLinear, InsertKeepsLinks
<1> HIDE DEF e
<1>4. /\ DOMAIN d[t] = 1..Len(d[t]) /\ Len(d[t]) \in Nat
      /\ DOMAIN e[t] = 1..n
  <2>1. d[t] \in Seq(Row) /\ e[t] \in Seq(Row)
    BY <1>1, <1>2 DEF Database
  <2> QED BY <1>2, <2>1
<1>5. n \in DOMAIN e[t] /\ n \notin DOMAIN d[t] /\ \A i \in DOMAIN e[t] : i # n => i \in DOMAIN d[t]
  BY <1>4
<1>6. ScopesFit(e)
  <2> SUFFICES ASSUME NEW u \in TargetTypes, NEW i \in DOMAIN e[u]
               PROVE  IF u \in IdentityTypes THEN e[u][i].scope = Shared
                                              ELSE e[u][i].scope \in Scopes
    BY DEF ScopesFit
  <2>1. CASE u # t
    BY <1>1, <1>2, <2>1 DEF ScopesFit
  <2>2. CASE u = t /\ i = n
    BY <1>2, <2>2, ScopeOfNewRow
  <2>3. CASE u = t /\ i # n
    BY <1>1, <1>2, <1>5, <2>3 DEF ScopesFit
  <2> QED BY <2>1, <2>2, <2>3
<1>7. FactsHang(e)
  <2> SUFFICES ASSUME NEW i \in DOMAIN e["fact"]
               PROVE  e["fact"][i].parent.type \in ParentTypes["fact"]
    BY DEF FactsHang
  <2>1. CASE t # "fact"
    BY <1>1, <1>2, <2>1, FactTable DEF FactsHang
  <2>2. CASE t = "fact" /\ i = n
    <3>1. e["fact"][i].parent = patch.parent
      BY <1>2, <2>2 DEF NewRow
    <3> QED BY <1>1, <2>2, <3>1 DEF WellShaped
  <2>3. CASE t = "fact" /\ i # n
    BY <1>1, <1>2, <1>5, <2>3 DEF FactsHang
  <2> QED BY <2>1, <2>2, <2>3
<1>8. ASSUME NEW u \in TargetTypes, NEW i \in DOMAIN d[u]
      PROVE  i \in DOMAIN e[u] /\ e[u][i] = d[u][i]
  <2>1. CASE u # t
    BY <1>2, <2>1
  <2>2. CASE u = t
    BY <1>2, <1>4, <2>2
  <2> QED BY <2>1, <2>2
<1>9. Grows(d, e)
  BY <1>8 DEF Grows, Extends, TargetTypes, ContentTypes
<1>10. t \in ContentTypes => e[t][n].scope = scope
  BY <1>2 DEF NewRow
<1> QED BY <1>2, <1>3, <1>5, <1>6, <1>7, <1>9, <1>10 DEF DbInv, e

LEMMA UpdateGrows ==
  ASSUME NEW d, DbInv(d), NEW t \in TargetTypes, NEW patch, PatchFits(t, patch),
         NEW scope, NEW id, CanUpdate(d, t, id, patch, scope)
  PROVE  LET e == Update(d, t, id, patch)
         IN  DbInv(e) /\ Grows(d, e) /\ id \in DOMAIN e[t]
                /\ (t \in ContentTypes => e[t][id].scope = scope)
<1> DEFINE e == Update(d, t, id, patch)
<1>1. /\ d \in Database /\ Linear(d) /\ LinksContained(d) /\ ScopesFit(d) /\ FactsHang(d)
      /\ patch \in Patch /\ WellShaped(t, patch)
  BY DEF DbInv, PatchFits
<1>2. /\ id \in DOMAIN d[t] /\ (t \in ContentTypes => d[t][id].scope = scope)
      /\ (t \in {"fact", "ref"} => patch.parent = NoLink)
  BY DEF CanUpdate, RowVisible
<1>3. /\ e \in Database
      /\ \A u \in TargetTypes : u # t => e[u] = d[u]
      /\ DOMAIN e[t] = DOMAIN d[t]
      /\ \A i \in DOMAIN d[t] : i # id => e[t][i] = d[t][i]
      /\ e[t][id] = Merged(d[t][id], patch)
  BY <1>1, <1>2, UpdateEffect
<1>4. Linear(e) /\ LinksContained(e)
  BY <1>1, UpdateKeepsLinear, UpdateKeepsLinks
<1> HIDE DEF e
<1>5. /\ e[t][id].scope = d[t][id].scope /\ e[t][id].superseded_by = d[t][id].superseded_by
      /\ (t \in {"fact", "ref"} => e[t][id].parent = d[t][id].parent)
  BY <1>2, <1>3 DEF Merged, Coalesce
<1>6. ASSUME NEW u \in TargetTypes, NEW i \in DOMAIN d[u]
      PROVE  /\ i \in DOMAIN e[u] /\ e[u][i].scope = d[u][i].scope
             /\ e[u][i].superseded_by = d[u][i].superseded_by
             /\ (u \in {"fact", "ref"} => e[u][i].parent = d[u][i].parent)
  <2>1. CASE u # t
    BY <1>3, <2>1
  <2>2. CASE u = t /\ i = id
    BY <1>3, <1>5, <2>2
  <2>3. CASE u = t /\ i # id
    BY <1>3, <2>3
  <2> QED BY <2>1, <2>2, <2>3
<1>7. \A u \in TargetTypes : DOMAIN e[u] = DOMAIN d[u]
  BY <1>3
<1>8. ScopesFit(e)
  <2> SUFFICES ASSUME NEW u \in TargetTypes, NEW i \in DOMAIN e[u]
               PROVE  IF u \in IdentityTypes THEN e[u][i].scope = Shared
                                              ELSE e[u][i].scope \in Scopes
    BY DEF ScopesFit
  <2>1. e[u][i].scope = d[u][i].scope /\ i \in DOMAIN d[u]
    BY <1>6, <1>7
  <2> QED BY <1>1, <2>1 DEF ScopesFit
<1>9. FactsHang(e)
  <2> SUFFICES ASSUME NEW i \in DOMAIN e["fact"]
               PROVE  e["fact"][i].parent.type \in ParentTypes["fact"]
    BY DEF FactsHang
  <2>1. e["fact"][i].parent = d["fact"][i].parent /\ i \in DOMAIN d["fact"]
    BY <1>1, <1>6, <1>7, FactTable
  <2> QED BY <1>1, <2>1 DEF FactsHang
<1>10. Grows(d, e)
  BY <1>6 DEF Grows, Extends, TargetTypes, ContentTypes
<1> QED BY <1>2, <1>3, <1>4, <1>5, <1>8, <1>9, <1>10 DEF DbInv, e

LEMMA SupersedeGrows ==
  ASSUME NEW d, DbInv(d), NEW patch, PatchFits("fact", patch),
         NEW scope \in Scopes, NEW id, CanSupersede(d, id, patch, scope), patch.parent # NoLink
  PROVE  LET e == Supersede(d, id, patch, scope)
         IN  DbInv(e) /\ Grows(d, e) /\ Len(d["fact"]) + 1 \in DOMAIN e["fact"]
                /\ e["fact"][Len(d["fact"]) + 1].scope = scope
<1> DEFINE e == Supersede(d, id, patch, scope)
           n == Len(d["fact"]) + 1
<1>1. /\ d \in Database /\ Linear(d) /\ LinksContained(d) /\ ScopesFit(d) /\ FactsHang(d)
      /\ patch \in Patch /\ WellShaped("fact", patch)
  BY DEF DbInv, PatchFits
<1>2. id \in DOMAIN d["fact"]
  BY DEF CanSupersede, RowVisible
<1>3. /\ e \in Database
      /\ \A u \in TargetTypes : u # "fact" => e[u] = d[u]
      /\ Len(e["fact"]) = n
      /\ \A i \in DOMAIN d["fact"] : i # id => e["fact"][i] = d["fact"][i]
      /\ e["fact"][id] = [d["fact"][id] EXCEPT !.superseded_by = n]
      /\ e["fact"][n] = NewRow("fact", patch, scope)
  BY <1>1, <1>2, SupersedeEffect
<1>4. Linear(e) /\ LinksContained(e)
  BY <1>1, SupersedeKeepsLinear, SupersedeKeepsLinks
<1> HIDE DEF e
<1>5. /\ DOMAIN d["fact"] = 1..Len(d["fact"]) /\ Len(d["fact"]) \in Nat
      /\ DOMAIN e["fact"] = 1..n /\ "fact" \in TargetTypes
      /\ d["fact"][id] \in Row
  BY <1>1, <1>2, <1>3, FactTable
<1>6. n \in DOMAIN e["fact"] /\ n \notin DOMAIN d["fact"]
      /\ \A i \in DOMAIN e["fact"] : i # n => i \in DOMAIN d["fact"]
  BY <1>5
<1>7. /\ e["fact"][id].scope = d["fact"][id].scope /\ e["fact"][id].parent = d["fact"][id].parent
      /\ e["fact"][id].superseded_by = n
  BY <1>3, <1>5 DEF Row
<1>8. \A i \in DOMAIN d["fact"] :
         /\ i \in DOMAIN e["fact"] /\ e["fact"][i].scope = d["fact"][i].scope
         /\ e["fact"][i].parent = d["fact"][i].parent
         /\ \/ e["fact"][i].superseded_by = d["fact"][i].superseded_by
            \/ e["fact"][i].superseded_by = n
  <2> SUFFICES ASSUME NEW i \in DOMAIN d["fact"]
               PROVE  /\ i \in DOMAIN e["fact"] /\ e["fact"][i].scope = d["fact"][i].scope
                      /\ e["fact"][i].parent = d["fact"][i].parent
                      /\ \/ e["fact"][i].superseded_by = d["fact"][i].superseded_by
                         \/ e["fact"][i].superseded_by = n
    OBVIOUS
  <2>1. i \in DOMAIN e["fact"]
    BY <1>5
  <2>2. CASE i = id
    BY <1>7, <2>1, <2>2
  <2>3. CASE i # id
    BY <1>3, <2>1, <2>3
  <2> QED BY <2>2, <2>3
<1>9. /\ e["fact"][n].scope = scope /\ e["fact"][n].parent.type \in ParentTypes["fact"]
  BY <1>1, <1>3 DEF NewRow, WellShaped, ContentTypes
<1>10. ScopesFit(e)
  <2> SUFFICES ASSUME NEW u \in TargetTypes, NEW i \in DOMAIN e[u]
               PROVE  IF u \in IdentityTypes THEN e[u][i].scope = Shared
                                              ELSE e[u][i].scope \in Scopes
    BY DEF ScopesFit
  <2>1. CASE u # "fact"
    BY <1>1, <1>3, <2>1 DEF ScopesFit
  <2>2. CASE u = "fact" /\ i = n
    BY <1>9, <2>2 DEF IdentityTypes
  <2>3. CASE u = "fact" /\ i # n
    BY <1>1, <1>6, <1>8, <2>3 DEF ScopesFit
  <2> QED BY <2>1, <2>2, <2>3
<1>11. FactsHang(e)
  BY <1>1, <1>6, <1>8, <1>9 DEF FactsHang
<1>12. Extends(d, e)
  BY <1>3, <1>8 DEF Extends
<1>13. Grows(d, e)
  <2>1. \A i \in DOMAIN d["ref"] : e["ref"][i].parent = d["ref"][i].parent
    BY <1>3 DEF TargetTypes, ContentTypes
  <2> QED BY <1>6, <1>8, <1>12, <2>1 DEF Grows
<1> QED BY <1>3, <1>4, <1>6, <1>9, <1>10, <1>11, <1>13 DEF DbInv, e

\* An approval may write twice: the target and the ref of its source.
LEMMA GrowsTwice ==
  ASSUME NEW d, NEW e, NEW f, Grows(d, e), Grows(e, f)
  PROVE  Grows(d, f)
<1>1. Extends(d, f)
  BY DEF Grows, Extends
<1>2. ASSUME NEW t \in {"fact", "ref"}, NEW i \in DOMAIN d[t]
      PROVE  i \in DOMAIN e[t] /\ f[t][i].parent = d[t][i].parent
  BY DEF Grows, Extends, TargetTypes, ContentTypes
<1>3. DOMAIN d["fact"] \subseteq DOMAIN e["fact"]
  BY <1>2
<1>4. \A i \in DOMAIN d["fact"] :
         \/ f["fact"][i].superseded_by = d["fact"][i].superseded_by
         \/ f["fact"][i].superseded_by \notin DOMAIN d["fact"]
  BY <1>3 DEF Grows
<1> QED BY <1>1, <1>2, <1>4 DEF Grows

\* The people there are after each kind of write.
LEMMA InsertPersons ==
  ASSUME NEW d \in Database, NEW t \in TargetTypes, NEW patch \in Patch, NEW scope \in Scopes
  PROVE  DOMAIN Insert(d, t, patch, scope)["person"] =
            IF t = "person" THEN 1 .. (Len(d["person"]) + 1) ELSE DOMAIN d["person"]
<1>1. PICK e : e = Insert(d, t, patch, scope)
  OBVIOUS
<1>2. "person" \in TargetTypes
  BY DEF TargetTypes, IdentityTypes
<1>3. /\ e \in Database /\ (t # "person" => e["person"] = d["person"])
      /\ Len(e[t]) = Len(d[t]) + 1
  BY <1>1, <1>2, InsertEffect
<1>4. DOMAIN e["person"] = 1 .. Len(e["person"])
  BY <1>2, <1>3 DEF Database
<1> QED BY <1>1, <1>3, <1>4

\* No update and no supersede makes or removes a person, and so aliases stay in step.
LEMMA UpdatePersons ==
  ASSUME NEW d \in Database, NEW t \in TargetTypes, NEW id \in DOMAIN d[t], NEW patch \in Patch
  PROVE  DOMAIN Update(d, t, id, patch)["person"] = DOMAIN d["person"]
<1>1. "person" \in TargetTypes
  BY DEF TargetTypes, IdentityTypes
<1> QED BY <1>1, UpdateEffect

LEMMA SupersedePersons ==
  ASSUME NEW d \in Database, NEW id \in DOMAIN d["fact"], NEW patch \in Patch,
         NEW scope \in Scopes
  PROVE  DOMAIN Supersede(d, id, patch, scope)["person"] = DOMAIN d["person"]
<1>1. "person" \in TargetTypes
  BY DEF TargetTypes, IdentityTypes
<1> DEFINE e == Supersede(d, id, patch, scope)
           n == Len(d["fact"]) + 1
<1>2. /\ e \in Database
      /\ \A u \in TargetTypes : u # "fact" => e[u] = d[u]
      /\ Len(e["fact"]) = n
      /\ \A i \in DOMAIN d["fact"] : i # id => e["fact"][i] = d["fact"][i]
      /\ e["fact"][id] = [d["fact"][id] EXCEPT !.superseded_by = n]
      /\ e["fact"][n] = NewRow("fact", patch, scope)
  BY SupersedeEffect
<1> QED BY <1>1, <1>2

\* The names an approval adds are texts.
LEMMA FormsType ==
  ASSUME NEW names \in SUBSET Texts
  PROVE  Forms(names) \in SUBSET Texts
  BY AsksAssumption DEF Forms

\* person_aliases only grow, and follow the table of people.
LEMMA AliasesGrow ==
  ASSUME Named, db \in Database, NEW a \in Approvals, a.target_type = "person", NEW id,
         id \in DOMAIN aliases \/ id = Len(db["person"]) + 1
  PROVE  /\ AliasesAfter(a, id) \in Seq(SUBSET Texts)
         /\ DOMAIN AliasesAfter(a, id) = DOMAIN aliases \cup {id}
         /\ \A p \in DOMAIN aliases : aliases[p] \subseteq AliasesAfter(a, id)[p]
<1> DEFINE given == Forms(a.aliases \cup ({a.patch.text} \ {None}))
           n == Len(aliases)
<1>1. given \in SUBSET Texts
  <2>1. a.aliases \in SUBSET Texts /\ a.patch.text \in Texts \cup {None, Blank} /\ a.patch.text # Blank
    BY ApprovalsAssumption DEF Approval, Patch
  <2> QED BY <2>1, FormsType
<1>2. aliases \in Seq(SUBSET Texts) /\ DOMAIN aliases = 1..n /\ n \in Nat
  BY DEF Named
<1>3. n = Len(db["person"])
  <2>1. db["person"] \in Seq(Row)
    BY DEF Database, TargetTypes, IdentityTypes
  <2>2. Len(db["person"]) \in Nat /\ DOMAIN db["person"] = 1 .. Len(db["person"])
        /\ DOMAIN aliases = DOMAIN db["person"]
    BY <2>1 DEF Named
  <2>3. ~ (n < Len(db["person"])) /\ ~ (Len(db["person"]) < n)
    BY <1>2, <2>2
  <2> QED BY <1>2, <2>2, <2>3
<1> HIDE DEF given
<1>4. CASE id \in DOMAIN aliases
  <2>1. AliasesAfter(a, id) = [aliases EXCEPT ![id] = @ \cup given]
    BY <1>4 DEF AliasesAfter, given
  <2>2. [aliases EXCEPT ![id] = @ \cup given] \in [1..n -> SUBSET Texts]
    BY <1>1, <1>2, <1>4
  <2> QED BY <1>2, <1>4, <2>1, <2>2
<1>5. CASE id \notin DOMAIN aliases
  <2>1. id = n + 1
    BY <1>3, <1>5
  <2>2. AliasesAfter(a, id) = Append(aliases, given)
    BY <1>5 DEF AliasesAfter, given
  <2>3. DOMAIN Append(aliases, given) = 1 .. (n + 1)
    BY <1>1, <1>2
  <2>4. 1 .. (n + 1) = 1 .. n \cup {n + 1}
    BY <1>2
  <2>5. \A p \in 1 .. n : Append(aliases, given)[p] = aliases[p]
    BY <1>1, <1>2
  <2>6. Append(aliases, given) \in Seq(SUBSET Texts)
    BY <1>1, <1>2
  <2> QED BY <1>2, <2>1, <2>2, <2>3, <2>4, <2>5, <2>6
<1> QED BY <1>4, <1>5

\* The ref a source becomes hangs from the row of the approval, in its scope.
LEMMA SourceGrows ==
  ASSUME NEW d, DbInv(d), NEW a \in Approvals, NEW id, id \in DOMAIN d[a.target_type],
         a.target_type \in ContentTypes => d[a.target_type][id].scope = a.scope
  PROVE  /\ DbInv(WithSource(d, a, id)) /\ Grows(d, WithSource(d, a, id))
         /\ DOMAIN WithSource(d, a, id)["person"] = DOMAIN d["person"]
<1>1. CASE a.source = None
  <2>1. WithSource(d, a, id) = d
    BY <1>1 DEF WithSource
  <2> QED BY <2>1 DEF Grows, Extends
<1>2. CASE a.source # None
  <2>link. PICK link : link = [type |-> a.target_type, id |-> id]
    OBVIOUS
  <2> DEFINE patch == [EmptyPatch EXCEPT !.parent = link, !.text = a.source]
  <2>1. /\ a.source \in Texts /\ a.scope \in Scopes /\ a.target_type \in TargetTypes
        /\ a.target_type \notin {"ref", "glossary"}
    BY <1>2, ApprovalsAssumption DEF Approval
  <2>2. id \in Nat
    BY <2>1 DEF DbInv, Database
  <2>3. EmptyPatch \in Patch /\ EmptyPatch.people = {} /\ EmptyPatch.predicate = None
        /\ EmptyPatch.value = None
    BY DEF EmptyPatch, Patch, Link
  <2>4. link \in Link /\ link # NoLink /\ link.type \in ParentTypes["ref"]
    BY <2>link, <2>1, <2>2 DEF Link, NoLink, ParentTypes, TargetTypes, IdentityTypes, ContentTypes
  <2>5. /\ patch \in Patch /\ patch.parent = link /\ patch.people = {}
        /\ patch.predicate = None /\ patch.value = None
    BY <2>1, <2>3, <2>4 DEF Patch
  <2> HIDE DEF patch
  <2>6. PatchFits("ref", patch) /\ LinksExist(d, patch, a.scope)
    BY <2>link, <2>1, <2>4, <2>5 DEF PatchFits, WellShaped, LinksExist, RowVisible
  <2>7. WithSource(d, a, id) = Insert(d, "ref", patch, a.scope)
    BY <1>2, <2>link DEF WithSource, patch
  <2>8. "ref" \in TargetTypes /\ d \in Database /\ patch \in Patch
    BY <2>5 DEF TargetTypes, ContentTypes, DbInv
  <2>9. DbInv(Insert(d, "ref", patch, a.scope)) /\ Grows(d, Insert(d, "ref", patch, a.scope))
    BY <2>1, <2>6, <2>8, InsertGrows
  <2>10. DOMAIN Insert(d, "ref", patch, a.scope)["person"] = DOMAIN d["person"]
    BY <2>1, <2>8, InsertPersons
  <2> QED BY <2>7, <2>9, <2>10
<1> QED BY <1>1, <1>2

\* What every approval keeps of the tables and of the names.
LEMMA ApproveGrows ==
  ASSUME DbInv(db), Named, NEW a \in Approvals, Approve(a)
  PROVE  /\ DbInv(db)' /\ Grows(db, db') /\ Named'
         /\ \A p \in DOMAIN aliases : p \in DOMAIN aliases' /\ aliases[p] \subseteq aliases'[p]
         /\ call' = call
<1> DEFINE t == a.target_type
           Enters(e, id) ==
             /\ DbInv(e) /\ Grows(db, e) /\ id \in DOMAIN e[t]
             /\ t \in ContentTypes => e[t][id].scope = a.scope
             /\ IF t = "person"
                THEN /\ DOMAIN e["person"] = DOMAIN db["person"] \cup {id}
                     /\ id \in DOMAIN db["person"] \/ id = Len(db["person"]) + 1
                ELSE DOMAIN e["person"] = DOMAIN db["person"]
<1>1. /\ t \in TargetTypes /\ a.scope \in Scopes /\ a.patch \in Patch
      /\ PatchFits(t, a.patch) /\ (a.action = "supersede" => t = "fact")
      /\ (t = "fact" /\ a.action # "update" => a.patch.parent # NoLink)
  BY ApprovalsAssumption DEF Approval, PatchFits
<1>2. db \in Database /\ "person" \in TargetTypes /\ Len(db["person"]) \in Nat
      /\ DOMAIN db["person"] = 1..Len(db["person"])
  BY DEF DbInv, Database, TargetTypes, IdentityTypes
<1>3. ASSUME NEW e, NEW id, Enters(e, id), Commit(e, a, id)
      PROVE  /\ DbInv(db)' /\ Grows(db, db') /\ Named'
             /\ \A p \in DOMAIN aliases : p \in DOMAIN aliases' /\ aliases[p] \subseteq aliases'[p]
             /\ call' = call
  <2>1. /\ db' = WithSource(e, a, id) /\ call' = call
        /\ aliases' = IF t = "person" THEN AliasesAfter(a, id) ELSE aliases
    BY <1>3 DEF Commit
  <2>2. DbInv(WithSource(e, a, id)) /\ Grows(e, WithSource(e, a, id))
        /\ DOMAIN WithSource(e, a, id)["person"] = DOMAIN e["person"]
    BY <1>3, SourceGrows
  <2>3. DbInv(db)' /\ Grows(db, db') /\ DOMAIN db'["person"] = DOMAIN e["person"]
    BY <1>3, <2>1, <2>2, GrowsTwice
  <2>4. CASE t = "person"
    <3>1. /\ aliases' \in Seq(SUBSET Texts)
          /\ DOMAIN aliases' = DOMAIN aliases \cup {id}
          /\ \A p \in DOMAIN aliases : aliases[p] \subseteq aliases'[p]
      BY <1>2, <1>3, <2>1, <2>4, AliasesGrow DEF Named
    <3> QED BY <1>3, <2>1, <2>3, <2>4, <3>1 DEF Named
  <2>5. CASE t # "person"
    BY <1>3, <2>1, <2>3, <2>5 DEF Named
  <2> QED BY <2>4, <2>5
<1>4. CASE /\ a.action = "insert" /\ CanInsert(db, t, a.patch, a.scope)
           /\ Commit(Insert(db, t, a.patch, a.scope), a, Len(db[t]) + 1)
  <2>1. LinksExist(db, a.patch, a.scope) /\ (t = "fact" => a.patch.parent # NoLink)
    BY <1>1, <1>4 DEF CanInsert
  <2>2. PICK e : e = Insert(db, t, a.patch, a.scope)
    OBVIOUS
  <2>3. /\ DbInv(e) /\ Grows(db, e) /\ Len(db[t]) + 1 \in DOMAIN e[t]
        /\ t \in ContentTypes => e[t][Len(db[t]) + 1].scope = a.scope
    BY <1>1, <2>1, <2>2, InsertGrows
  <2>4. DOMAIN e["person"] = IF t = "person" THEN 1 .. (Len(db["person"]) + 1)
                                             ELSE DOMAIN db["person"]
    BY <1>1, <1>2, <2>2, InsertPersons
  <2>5. 1 .. (Len(db["person"]) + 1) = DOMAIN db["person"] \cup {Len(db["person"]) + 1}
    BY <1>2
  <2>6. Enters(e, Len(db[t]) + 1)
    BY <2>3, <2>4, <2>5
  <2> QED BY <1>3, <1>4, <2>2, <2>6
<1>5. CASE /\ a.action = "update" /\ CanUpdate(db, t, a.target_id, a.patch, a.scope)
           /\ Commit(Update(db, t, a.target_id, a.patch), a, a.target_id)
  <2>1. PICK e : e = Update(db, t, a.target_id, a.patch)
    OBVIOUS
  <2>2. a.target_id \in DOMAIN db[t]
    BY <1>5 DEF CanUpdate, RowVisible
  <2>3. /\ DbInv(e) /\ Grows(db, e) /\ a.target_id \in DOMAIN e[t]
        /\ t \in ContentTypes => e[t][a.target_id].scope = a.scope
    BY <1>1, <1>5, <2>1, UpdateGrows
  <2>4. DOMAIN e["person"] = DOMAIN db["person"]
    BY <1>1, <1>2, <2>1, <2>2, UpdatePersons
  <2>5. Enters(e, a.target_id)
    BY <2>2, <2>3, <2>4
  <2> QED BY <1>3, <1>5, <2>1, <2>5
<1>6. CASE /\ a.action = "supersede" /\ CanSupersede(db, a.target_id, a.patch, a.scope)
           /\ Commit(Supersede(db, a.target_id, a.patch, a.scope), a, Len(db["fact"]) + 1)
  <2>1. PICK e : e = Supersede(db, a.target_id, a.patch, a.scope)
    OBVIOUS
  <2>2. a.target_id \in DOMAIN db["fact"] /\ t = "fact" /\ a.patch.parent # NoLink
    BY <1>1, <1>6 DEF CanSupersede, RowVisible
  <2>3. /\ DbInv(e) /\ Grows(db, e) /\ Len(db["fact"]) + 1 \in DOMAIN e["fact"]
        /\ e["fact"][Len(db["fact"]) + 1].scope = a.scope
    BY <1>1, <1>6, <2>1, <2>2, SupersedeGrows
  <2>4. DOMAIN e["person"] = DOMAIN db["person"]
    BY <1>1, <1>2, <2>1, <2>2, SupersedePersons
  <2>5. Enters(e, Len(db["fact"]) + 1)
    BY <2>2, <2>3, <2>4
  <2> QED BY <1>3, <1>6, <2>1, <2>5
<1> HIDE DEF Enters
<1> QED BY <1>4, <1>5, <1>6 DEF Approve

\* Whatever is approved meanwhile, what a call relies on stays true.
LEMMA CallKept ==
  ASSUME NEW d, NEW e, DbInv(d), DbInv(e), Grows(d, e), NEW names, NEW others, NEW c,
         CallInv(d, names, c),
         \A p \in DOMAIN names : p \in DOMAIN others /\ names[p] \subseteq others[p]
  PROVE  CallInv(e, others, c)
<1>1. \A p \in c.known : p \in DOMAIN others /\ Normal[c.ask.name] \in others[p]
  BY DEF CallInv
<1> SUFFICES ASSUME OpenFits(d, c) PROVE OpenFits(e, c)
  BY <1>1 DEF CallInv
<1>2. \A x \in c.answer : EntryFits(e, c, x)
  <2> SUFFICES ASSUME NEW x \in c.answer, x.part = "find", x.row \in Row, LinksOf(d, x.row)
               PROVE  LinksOf(e, x.row)
    BY DEF OpenFits, EntryFits
  <2> QED BY LinksMonotone DEF Grows
<1>3. ASSUME NEW x \in FactsShown(c)
      PROVE  FactFits(e, c, x)
  <2>1. FactFits(d, c, x)
    BY DEF OpenFits
  <2>2. /\ x.id \in DOMAIN d["fact"] /\ x.id \in DOMAIN e["fact"]
        /\ e["fact"][x.id].scope = d["fact"][x.id].scope
        /\ e["fact"][x.id].parent = d["fact"][x.id].parent
        /\ \/ e["fact"][x.id].superseded_by = d["fact"][x.id].superseded_by
           \/ e["fact"][x.id].superseded_by \notin DOMAIN d["fact"]
    BY <2>1 DEF FactFits, Grows, Extends, TargetTypes, ContentTypes
  <2>3. /\ DOMAIN d["ref"] = 1..Len(d["ref"]) /\ Len(d["ref"]) \in Nat
        /\ DOMAIN e["ref"] = 1..Len(e["ref"]) /\ Len(e["ref"]) \in Nat
        /\ DOMAIN d["ref"] \subseteq DOMAIN e["ref"]
        /\ \A r \in DOMAIN d["ref"] : e["ref"][r].parent = d["ref"][r].parent
    <3>1. "ref" \in TargetTypes
      BY DEF TargetTypes, ContentTypes
    <3>2. d["ref"] \in Seq(Row) /\ e["ref"] \in Seq(Row)
      BY <3>1 DEF DbInv, Database
    <3> QED BY <3>1, <3>2 DEF Grows, Extends
  <2>4. x.refs \in Nat /\ x.refs <= Len(d["ref"]) /\ x.refs <= Len(e["ref"])
    <3>1. x.refs \in Nat /\ x.refs <= Len(d["ref"])
      BY <2>1 DEF FactFits
    <3>2. Len(d["ref"]) = 0 \/ Len(d["ref"]) \in DOMAIN d["ref"]
      BY <2>3
    <3>3. Len(d["ref"]) <= Len(e["ref"])
      BY <2>3, <3>2
    <3> QED BY <2>3, <3>1, <3>3
  <2>5. \A r \in 1 .. x.refs : e["ref"][r].parent = d["ref"][r].parent
    BY <2>3, <2>4
  <2>6. \A f \in FactsShown(c) : e["fact"][x.id].superseded_by # f.id
    <3> SUFFICES ASSUME NEW f \in FactsShown(c) PROVE e["fact"][x.id].superseded_by # f.id
      OBVIOUS
    <3>1. f.id \in DOMAIN d["fact"] /\ d["fact"][x.id].superseded_by # f.id
      BY <2>1 DEF OpenFits, FactFits
    <3> QED BY <2>2, <3>1
  <2> QED BY <2>1, <2>2, <2>4, <2>5, <2>6 DEF FactFits
<1> QED BY <1>2, <1>3 DEF OpenFits

-----------------------------------------------------------------------------
(* The list of queries *)

\* Taking the first query off the list.
LEMMA TailOf ==
  ASSUME NEW todo \in Seq(Queries), todo # <<>>
  PROVE  /\ Tail(todo) \in Seq(Queries)
         /\ \A k \in DOMAIN Tail(todo) : k + 1 \in DOMAIN todo /\ Tail(todo)[k] = todo[k + 1]
         /\ \A i \in DOMAIN todo : i # 1 => i - 1 \in DOMAIN Tail(todo) /\ Tail(todo)[i - 1] = todo[i]
  OBVIOUS

\* The order of the queries stays one as they are taken and as others are put before them.
LEMMA OrderOfTail ==
  ASSUME NEW todo \in Seq(Queries), todo # <<>>, OrderFits(todo)
  PROVE  OrderFits(Tail(todo))
<1> DEFINE rest == Tail(todo)
<1>1. /\ \A k \in DOMAIN rest : k + 1 \in DOMAIN todo /\ rest[k] = todo[k + 1]
      /\ \A i \in DOMAIN todo : i # 1 => i - 1 \in DOMAIN rest /\ rest[i - 1] = todo[i]
      /\ DOMAIN rest \subseteq Nat \ {0} /\ DOMAIN todo \subseteq Nat \ {0}
  BY TailOf
<1> HIDE DEF rest
<1>2. \A i, j \in DOMAIN rest :
         i # j =>
            /\ rest[i].part = "scopes" => rest[j].part # "scopes"
            /\ rest[i].part = "find" /\ j < i => rest[j].part = "scopes"
            /\ rest[i].part = "facts" /\ rest[j].part = "facts" => rest[i].about # rest[j].about
            /\ rest[i].part = "collect" => rest[j].part \notin {"facts", "collect"}
  <2> SUFFICES ASSUME NEW i \in DOMAIN rest, NEW j \in DOMAIN rest, i # j
               PROVE  /\ rest[i].part = "scopes" => rest[j].part # "scopes"
                      /\ rest[i].part = "find" /\ j < i => rest[j].part = "scopes"
                      /\ rest[i].part = "facts" /\ rest[j].part = "facts" => rest[i].about # rest[j].about
                      /\ rest[i].part = "collect" => rest[j].part \notin {"facts", "collect"}
    OBVIOUS
  <2>1. /\ i + 1 \in DOMAIN todo /\ rest[i] = todo[i + 1] /\ j + 1 \in DOMAIN todo
        /\ rest[j] = todo[j + 1] /\ i + 1 # j + 1 /\ (j < i => j + 1 < i + 1)
    BY <1>1
  <2> QED BY <2>1 DEF OrderFits
<1>3. ASSUME NEW i \in DOMAIN rest, rest[i] = Query("facts", NoLink)
      PROVE  \E j \in DOMAIN rest : i < j /\ rest[j] = Query("refs", NoLink)
  <2>1. i + 1 \in DOMAIN todo /\ todo[i + 1] = Query("facts", NoLink)
    BY <1>1, <1>3
  <2>2. PICK j \in DOMAIN todo : i + 1 < j /\ todo[j] = Query("refs", NoLink)
    BY <2>1 DEF OrderFits
  <2>3. j # 1 /\ i < j - 1
    BY <1>1, <2>2
  <2> QED BY <1>1, <2>2, <2>3
<1> QED BY <1>2, <1>3 DEF OrderFits, rest

\* Putting new queries before the others.
LEMMA Prepended ==
  ASSUME NEW more \in Seq(Queries), NEW rest \in Seq(Queries)
  PROVE  LET all == more \o rest
             n == Len(more)
         IN  /\ all \in Seq(Queries) /\ n \in Nat
             /\ \A k \in DOMAIN all :
                   \/ k \in DOMAIN more /\ all[k] = more[k]
                   \/ n < k /\ k - n \in DOMAIN rest /\ all[k] = rest[k - n]
             /\ \A i \in DOMAIN more : i \in DOMAIN all /\ all[i] = more[i] /\ i <= n
             /\ \A i \in DOMAIN rest : n + i \in DOMAIN all /\ all[n + i] = rest[i]
             /\ DOMAIN more \subseteq Nat \ {0} /\ DOMAIN rest \subseteq Nat \ {0}
             /\ DOMAIN all \subseteq Nat \ {0}
  OBVIOUS

LEMMA OrderOfMore ==
  ASSUME NEW more \in Seq(Queries), NEW rest \in Seq(Queries), OrderFits(rest),
         \A i \in DOMAIN rest : rest[i].part # "find",
         \A i \in DOMAIN more : more[i].part \in {"headline", "facts", "refs"},
         \A i, j \in DOMAIN more :
            i # j /\ more[i].part = "facts" /\ more[j].part = "facts" => more[i].about # more[j].about,
         \A i \in DOMAIN more : more[i].part = "facts" => more[i].about # NoLink,
         (\E i \in DOMAIN more : more[i].part = "facts") =>
            \A i \in DOMAIN rest : rest[i].part \notin {"facts", "collect"}
  PROVE  OrderFits(more \o rest)
<1> DEFINE all == more \o rest
           n == Len(more)
<1>1. /\ n \in Nat
      /\ \A k \in DOMAIN all :
            \/ k \in DOMAIN more /\ all[k] = more[k]
            \/ n < k /\ k - n \in DOMAIN rest /\ all[k] = rest[k - n]
      /\ \A i \in DOMAIN rest : n + i \in DOMAIN all /\ all[n + i] = rest[i]
      /\ DOMAIN more \subseteq Nat \ {0} /\ DOMAIN rest \subseteq Nat \ {0}
      /\ DOMAIN all \subseteq Nat \ {0}
  BY Prepended
<1> HIDE DEF all, n
<1>2. ASSUME NEW i \in DOMAIN all, NEW j \in DOMAIN all, i # j
      PROVE  /\ all[i].part = "scopes" => all[j].part # "scopes"
             /\ all[i].part = "find" /\ j < i => all[j].part = "scopes"
             /\ all[i].part = "facts" /\ all[j].part = "facts" => all[i].about # all[j].about
             /\ all[i].part = "collect" => all[j].part \notin {"facts", "collect"}
  <2>1. CASE i \in DOMAIN more /\ all[i] = more[i] /\ j \in DOMAIN more /\ all[j] = more[j]
    BY <1>2, <2>1
  <2>2. CASE i \in DOMAIN more /\ all[i] = more[i] /\ j - n \in DOMAIN rest /\ all[j] = rest[j - n]
    BY <2>2
  <2>3. CASE i - n \in DOMAIN rest /\ all[i] = rest[i - n] /\ j \in DOMAIN more /\ all[j] = more[j]
    BY <2>3
  <2>4. CASE i - n \in DOMAIN rest /\ all[i] = rest[i - n] /\ j - n \in DOMAIN rest /\ all[j] = rest[j - n]
    <3>1. i - n # j - n /\ (j < i => j - n < i - n)
      BY <1>1, <1>2
    <3> QED BY <2>4, <3>1 DEF OrderFits
  <2> QED BY <1>1, <2>1, <2>2, <2>3, <2>4
<1>3. ASSUME NEW i \in DOMAIN all, all[i] = Query("facts", NoLink)
      PROVE  \E j \in DOMAIN all : i < j /\ all[j] = Query("refs", NoLink)
  <2>1. all[i].part = "facts" /\ all[i].about = NoLink
    BY <1>3 DEF Query
  <2>2. n < i /\ i - n \in DOMAIN rest /\ rest[i - n] = Query("facts", NoLink)
    BY <1>1, <1>3, <2>1
  <2>3. PICK j \in DOMAIN rest : i - n < j /\ rest[j] = Query("refs", NoLink)
    BY <2>2 DEF OrderFits
  <2>4. i < n + j
    BY <1>1, <2>2, <2>3
  <2> QED BY <1>1, <2>3, <2>4
<1> QED BY <1>2, <1>3 DEF OrderFits, all

-----------------------------------------------------------------------------
(* What a query adds to the answer *)

\* What a query takes: rows in sight, with the part and the subject of the query.
LEMMA TakenFits ==
  ASSUME DbInv(db), Named, NEW c, c.ask \in Ask, OpenFits(db, c), c.todo # <<>>
  PROVE  LET q == Head(c.todo)
         IN  /\ IsFiniteSet(Taken(db, q, c))
             /\ \A e \in Taken(db, q, c) :
                   /\ e.part = q.part /\ e.about = q.about
                   /\ e.type \in TargetTypes /\ e.id \in Nat /\ e.id \in Seen(db, e.type, c.scopes)
                   /\ e.row = db[e.type][e.id] /\ e.refs = Len(db["ref"])
                   /\ LinkOf(e) \in Selected(db, q, c)
                   /\ e.part \in HitParts => e.type \in HitType
                   /\ e.part \in {"facts", "fact_hits"} => e.type = "fact"
<1> DEFINE q == Head(c.todo)
           sel == Selected(db, q, c)
           taken == Taken(db, q, c)
<1>1. \A l \in sel : /\ l \in [type : TargetTypes, id : Nat]
                     /\ l.id \in Seen(db, l.type, c.scopes)
  BY SelectedSeen DEF SeenRow
<1>2. QueryFits(c, q)
  BY HeadFits DEF OpenFits
<1>3. q.part \in {"facts", "fact_hits"} => \A l \in sel : l.type = "fact"
  <2>1. q.part = "facts" => \A l \in sel : l.type = "fact"
    BY RowsType DEF Selected
  <2>2. q.part = "fact_hits" => \A l \in sel : l.type = "fact"
    BY RowsType DEF Selected
  <2> QED BY <2>1, <2>2
<1>4. q.part \in HitParts => \A l \in sel : l.type \in HitType
  <2>1. q.part = "person_hits" => \A l \in sel : l.type = "person"
    BY RowsType DEF Selected
  <2>2. q.part = "hits" => q.about # NoLink
    BY <1>2 DEF QueryFits, HitType, NoLink, TargetTypes, IdentityTypes, ContentTypes
  <2>3. q.part = "hits" => \A l \in sel : l.type = q.about.type
    BY <2>2, RowsType DEF Selected
  <2>4. q.part = "headline" => sel \subseteq {q.about}
    BY DEF Selected
  <2>5. q.part \in {"hits", "headline"} => q.about.type \in HitType
    BY <1>2 DEF QueryFits
  <2>6. "person" \in HitType
    BY DEF HitType, TargetTypes, IdentityTypes
  <2> QED BY <2>1, <2>3, <2>4, <2>5, <2>6 DEF HitParts
<1>5. ASSUME NEW e \in taken
      PROVE  /\ e.part = q.part /\ e.about = q.about
             /\ e.row = db[e.type][e.id] /\ e.refs = Len(db["ref"])
             /\ LinkOf(e) \in sel /\ e.type = LinkOf(e).type /\ e.id = LinkOf(e).id
  <2>1. PICK l \in sel : e = Entry(db, q, l)
    BY DEF Taken
  <2>2. /\ e.part = q.part /\ e.about = q.about /\ e.type = l.type /\ e.id = l.id
        /\ e.row = db[l.type][l.id] /\ e.refs = Len(db["ref"])
    BY <2>1 DEF Entry
  <2>3. l = [type |-> l.type, id |-> l.id]
    BY <1>1
  <2>4. LinkOf(e) = l
    BY <2>2, <2>3 DEF LinkOf
  <2> QED BY <2>2, <2>4
<1>6. IsFiniteSet(taken)
  <2>1. sel \subseteq AllRows(db)
    <3> SUFFICES ASSUME NEW l \in sel PROVE l \in AllRows(db)
      OBVIOUS
    <3>1. l.type \in TargetTypes /\ l = [type |-> l.type, id |-> l.id] /\ l.id \in DOMAIN db[l.type]
      BY <1>1 DEF Seen
    <3>2. l \in Rows(l.type, DOMAIN db[l.type])
      BY <3>1 DEF Rows
    <3> QED BY <3>1, <3>2 DEF AllRows
  <2>2. IsFiniteSet(sel)
    BY <2>1, AllRowsFinite, FS_Subset DEF DbInv
  <2>3. PICK f : f = [l \in sel |-> Entry(db, q, l)]
    OBVIOUS
  <2>4. DOMAIN f = sel
    BY <2>3
  <2>5. IsFiniteSet({f[l] : l \in DOMAIN f})
    BY <2>2, <2>4, ImageFinite
  <2>6. {f[l] : l \in DOMAIN f} = taken
    BY <2>3 DEF Taken
  <2> QED BY <2>5, <2>6
<1> HIDE DEF sel
<1>7. ASSUME NEW e \in taken
      PROVE  /\ e.type \in TargetTypes /\ e.id \in Nat /\ e.id \in Seen(db, e.type, c.scopes)
             /\ e.part \in HitParts => e.type \in HitType
             /\ e.part \in {"facts", "fact_hits"} => e.type = "fact"
  <2>1. /\ e.part = q.part
        /\ LinkOf(e) \in sel /\ e.type = LinkOf(e).type /\ e.id = LinkOf(e).id
    BY <1>5
  <2> QED BY <1>1, <1>3, <1>4, <2>1
<1> QED BY <1>5, <1>6, <1>7 DEF sel

\* A finite set of queries as a list of them.
LEMMA ListedQueries ==
  ASSUME NEW S, IsFiniteSet(S), S \subseteq Queries
  PROVE  LET more == SetToSeq(S)
         IN  /\ more \in Seq(Queries)
             /\ \A i \in DOMAIN more : more[i] \in S
             /\ \A x \in S : \E i \in DOMAIN more : more[i] = x
             /\ \A i, j \in DOMAIN more : more[i] = more[j] => i = j
<1>1. PICK more : more = SetToSeq(S)
  OBVIOUS
<1>2. /\ more \in Seq(S)
      /\ \A x \in S : \E i \in DOMAIN more : more[i] = x
      /\ \A i, j \in DOMAIN more : more[i] = more[j] => i = j
  BY <1>1, SetToSeqLists
<1>3. more \in Seq(Queries) /\ \A i \in DOMAIN more : more[i] \in S
  BY <1>2
<1> QED BY <1>1, <1>2, <1>3

Asked(more, q) == \E i \in DOMAIN more : more[i] = q

\* What a query of search_context or of facts puts before the rest of the list.
LEMMA FollowUpsFit ==
  ASSUME DbInv(db), Named, NEW c, c.ask \in Ask, OpenFits(db, c), c.todo # <<>>
  PROVE  LET q == Head(c.todo)
             more == FollowUps(q, c, Taken(db, q, c))
         IN  /\ more \in Seq(Queries)
             /\ \A i \in DOMAIN more :
                   /\ more[i].part \in {"headline", "facts", "refs"}
                   /\ more[i].part = "headline" => more[i].about.type \in HitType
                   /\ more[i].part = "facts" => q.part = "collect" /\ more[i].about.type \in HitType
             /\ \A i, j \in DOMAIN more :
                   i # j /\ more[i].part = "facts" /\ more[j].part = "facts" =>
                      more[i].about # more[j].about
             /\ q.part = "facts" /\ q.about # NoLink => Asked(more, Query("refs", q.about))
             /\ q.part = "refs" /\ q.about.type # "fact" =>
                   \A e \in FactsShown(c) :
                      e.about = q.about => Asked(more, Query("refs", LinkOf(e)))
<1> DEFINE q == Head(c.todo)
           taken == Taken(db, q, c)
           more == FollowUps(q, c, taken)
           hitEntries == {h \in c.answer : h.part \in {"person_hits", "hits", "headline"}}
           hits == {LinkOf(e) : e \in hitEntries}
           same == {f \in FactsShown(c) : f.about = q.about}
<1>1. IsFiniteSet(c.answer) /\ \A e \in c.answer : EntryFits(db, c, e)
  BY DEF OpenFits
<1>2. q \in Queries
  BY HeadFits DEF OpenFits, Queries
<1>3. \A l \in Link : \A p \in {"facts", "headline", "refs"} : Query(p, l) \in Queries
  BY DEF Query, Queries
<1>4. CASE q.part = "fact_hits"
  <2>1. \A e \in taken : e.row.parent \in Link /\ e.row.parent.type \in HitType
    <3> SUFFICES ASSUME NEW e \in taken
                 PROVE  e.row.parent \in Link /\ e.row.parent.type \in HitType
      OBVIOUS
    <3>1. e.type = "fact" /\ e.id \in Seen(db, "fact", c.scopes) /\ e.row = db["fact"][e.id]
      BY <1>4, TakenFits
    <3>2. e.row \in Row /\ e.row.parent.type \in ParentTypes["fact"]
      BY <3>1, FactTable DEF Seen, DbInv, FactsHang
    <3>3. ParentTypes["fact"] \subseteq HitType
      BY DEF ParentTypes, HitType, TargetTypes, IdentityTypes, ContentTypes
    <3> QED BY <3>2, <3>3 DEF Row
  <2> DEFINE S == {Query("headline", e.row.parent) : e \in taken}
  <2>2. IsFiniteSet(S)
    <3>1. PICK f : f = [e \in taken |-> Query("headline", e.row.parent)]
      OBVIOUS
    <3>2. DOMAIN f = taken /\ S = {f[e] : e \in DOMAIN f}
      BY <3>1
    <3>3. IsFiniteSet(taken)
      BY TakenFits
    <3> QED BY <3>2, <3>3, ImageFinite
  <2>3. S \subseteq Queries
    BY <1>3, <2>1
  <2>4. \A x \in S : x.part = "headline" /\ x.about.type \in HitType
    BY <2>1 DEF Query
  <2>5. more = SetToSeq(S)
    BY <1>4 DEF FollowUps
  <2> HIDE DEF taken, more, S
  <2>7. more \in Seq(Queries) /\ \A i \in DOMAIN more : more[i] \in S
    BY <2>2, <2>3, <2>5, ListedQueries
  <2>8. \A i \in DOMAIN more : more[i].part = "headline" /\ more[i].about.type \in HitType
    BY <2>4, <2>7
  <2> QED BY <1>4, <2>7, <2>8 DEF more, taken
<1>5. CASE q.part = "collect"
  <2>1. \A h \in hits : h \in Link /\ h.type \in HitType
    <3> SUFFICES ASSUME NEW e \in hitEntries PROVE LinkOf(e) \in Link /\ LinkOf(e).type \in HitType
      OBVIOUS
    <3>1. e.type \in HitType /\ e.id \in Nat
      BY <1>1 DEF EntryFits, HitParts
    <3> QED BY <3>1 DEF LinkOf, Link, HitType
  <2>2. IsFiniteSet(hits)
    <3>1. IsFiniteSet(hitEntries)
      BY <1>1, FS_Subset
    <3>2. PICK g : g = [e \in hitEntries |-> LinkOf(e)]
      OBVIOUS
    <3>3. IsFiniteSet({g[e] : e \in DOMAIN g})
      BY <3>1, <3>2, ImageFinite
    <3>4. {g[e] : e \in DOMAIN g} = hits
      BY <3>2
    <3> QED BY <3>3, <3>4
  <2> DEFINE S == {Query("facts", h) : h \in hits}
  <2>3. IsFiniteSet(S)
    <3> HIDE DEF hits
    <3>1. PICK f : f = [h \in hits |-> Query("facts", h)]
      OBVIOUS
    <3>2. DOMAIN f = hits /\ S = {f[h] : h \in DOMAIN f}
      BY <3>1
    <3> QED BY <2>2, <3>2, ImageFinite
  <2>4. more = SetToSeq(S)
    BY <1>5 DEF FollowUps
  <2> HIDE DEF taken, more, hits
  <2>5. S \subseteq Queries
    BY <1>3, <2>1
  <2>6. \A x \in S : x.part = "facts" /\ x.about.type \in HitType /\ x = Query("facts", x.about)
    BY <2>1 DEF Query
  <2> HIDE DEF S
  <2>7. /\ more \in Seq(Queries) /\ \A i \in DOMAIN more : more[i] \in S
        /\ \A i, j \in DOMAIN more : more[i] = more[j] => i = j
    BY <2>3, <2>4, <2>5, ListedQueries
  <2>8. \A i \in DOMAIN more : /\ more[i].part = "facts" /\ more[i].about.type \in HitType
                              /\ more[i] = Query("facts", more[i].about)
    BY <2>6, <2>7
  <2>9. \A i, j \in DOMAIN more : i # j => more[i].about # more[j].about
    BY <2>7, <2>8
  <2> QED BY <1>5, <2>7, <2>8, <2>9 DEF more, taken
<1>6. CASE q.part = "facts" /\ q.about # NoLink
  <2>1. more = <<Query("refs", q.about)>>
    BY <1>6 DEF FollowUps
  <2>2. Query("refs", q.about) \in Queries
    BY <1>2, <1>3 DEF Queries
  <2>3. /\ more \in Seq(Queries) /\ DOMAIN more = {1} /\ more[1] = Query("refs", q.about)
    <3>1. PICK x : x = Query("refs", q.about)
      OBVIOUS
    <3>2. more = <<x>> /\ x \in Queries
      BY <2>1, <2>2, <3>1
    <3> HIDE DEF more
    <3>3. more \in Seq(Queries) /\ DOMAIN more = {1} /\ more[1] = x
      BY <3>2
    <3> QED BY <3>1, <3>3
  <2>4. Query("refs", q.about).part = "refs"
    BY DEF Query
  <2> HIDE DEF more, taken
  <2> QED BY <1>6, <2>3, <2>4 DEF more, taken, Asked
<1>7. CASE q.part = "refs" /\ q.about.type # "fact"
  <2>1. \A e \in same : LinkOf(e) \in Link
    <3> SUFFICES ASSUME NEW e \in same PROVE LinkOf(e) \in Link
      OBVIOUS
    <3>1. e.type = "fact" /\ e.id \in DOMAIN db["fact"]
      BY DEF OpenFits, FactFits
    <3>2. e.id \in Nat /\ "fact" \in TargetTypes
      BY <3>1, FactTable DEF DbInv
    <3> QED BY <3>1, <3>2 DEF LinkOf, Link
  <2>2. IsFiniteSet(same)
    <3>1. same \subseteq c.answer
      BY DEF FactsShown
    <3> QED BY <1>1, <3>1, FS_Subset
  <2> DEFINE S == {Query("refs", LinkOf(e)) : e \in same}
  <2>3. IsFiniteSet(S)
    <3>1. PICK f : f = [e \in same |-> Query("refs", LinkOf(e))]
      OBVIOUS
    <3>2. DOMAIN f = same /\ S = {f[e] : e \in DOMAIN f}
      BY <3>1
    <3> QED BY <2>2, <3>2, ImageFinite
  <2>4. more = SetToSeq(S)
    BY <1>7 DEF FollowUps
  <2> HIDE DEF taken, more
  <2>5. S \subseteq Queries
    BY <1>3, <2>1
  <2>6. \A x \in S : x.part = "refs"
    BY DEF Query
  <2>10. \A e \in FactsShown(c) : e.about = q.about => Query("refs", LinkOf(e)) \in S
    OBVIOUS
  <2> HIDE DEF S
  <2>7. /\ more \in Seq(Queries) /\ \A i \in DOMAIN more : more[i] \in S
        /\ \A x \in S : \E i \in DOMAIN more : more[i] = x
    BY <2>3, <2>4, <2>5, ListedQueries
  <2>8. \A i \in DOMAIN more : more[i].part = "refs"
    BY <2>6, <2>7
  <2>9. \A e \in FactsShown(c) : e.about = q.about => Asked(more, Query("refs", LinkOf(e)))
    BY <2>7, <2>10 DEF Asked
  <2> QED BY <1>7, <2>7, <2>8, <2>9 DEF more, taken
<1>8. CASE /\ q.part \notin {"fact_hits", "collect"}
           /\ ~ (q.part = "facts" /\ q.about # NoLink)
           /\ ~ (q.part = "refs" /\ q.about.type # "fact")
  <2>1. more = <<>>
    BY <1>8 DEF FollowUps
  <2> HIDE DEF more, taken
  <2>2. more \in Seq(Queries) /\ DOMAIN more = {}
    BY <2>1
  <2> QED BY <1>8, <2>2 DEF more, taken
<1> QED BY <1>4, <1>5, <1>6, <1>7, <1>8

-----------------------------------------------------------------------------
(* One query *)

\* A fact read now has the parent asked about, and no successor yet.
LEMMA FactsTaken ==
  ASSUME DbInv(db), Named, NEW c, c.ask \in Ask, OpenFits(db, c), c.todo # <<>>,
         Head(c.todo).part = "facts", NEW e \in Taken(db, Head(c.todo), c)
  PROVE  /\ e.part = "facts" /\ e.about = Head(c.todo).about
         /\ e.type = "fact" /\ e.id \in DOMAIN db["fact"]
         /\ db["fact"][e.id].scope \in c.scopes \cup {Shared}
         /\ db["fact"][e.id].parent = Target(c, e.about)
         /\ db["fact"][e.id].superseded_by = 0
         /\ e.refs = Len(db["ref"]) /\ Len(db["ref"]) \in Nat
<1> DEFINE q == Head(c.todo)
<1>1. /\ e.part = q.part /\ e.about = q.about /\ e.type = "fact"
      /\ e.id \in Seen(db, "fact", c.scopes) /\ e.refs = Len(db["ref"])
      /\ LinkOf(e) \in Selected(db, q, c)
  BY TakenFits
<1>2. Selected(db, q, c) = Rows("fact", FactsAbout(db, Target(c, q.about), c.scopes))
  BY DEF Selected, Target
<1>3. e.id \in FactsAbout(db, Target(c, q.about), c.scopes)
  BY <1>1, <1>2 DEF Rows, LinkOf
<1>4. /\ db["fact"][e.id].parent = Target(c, q.about)
      /\ db["fact"][e.id].superseded_by = 0
  BY <1>3 DEF FactsAbout, Newest, Hanging
<1>5. Len(db["ref"]) \in Nat
  BY DEF DbInv, Database, TargetTypes, ContentTypes
<1> QED BY <1>1, <1>4, <1>5 DEF Seen

\* A query about a fact's target is asked once, so two facts about one entity were read
\* together, and neither had replaced the other.
LEMMA NoSuccessorShown ==
  ASSUME DbInv(db), Named, NEW c, c.ask \in Ask, OpenFits(db, c), c.todo # <<>>,
         Head(c.todo).part = "facts",
         NEW e \in FactsShown(c), NEW f \in Taken(db, Head(c.todo), c)
  PROVE  db["fact"][e.id].superseded_by # f.id
<1> SUFFICES ASSUME db["fact"][e.id].superseded_by = f.id PROVE FALSE
  OBVIOUS
<1>1. FactFits(db, c, e)
  BY DEF OpenFits
<1>2. /\ f.id \in DOMAIN db["fact"] /\ f.about = Head(c.todo).about
      /\ db["fact"][f.id].parent = Target(c, f.about)
  BY FactsTaken
<1>3. f.id # 0
  BY <1>2, FactTable DEF DbInv
<1>4. db["fact"][f.id].parent = db["fact"][e.id].parent
  BY <1>1, <1>3 DEF FactFits, DbInv, Linear
<1>5. Target(c, f.about) = Target(c, e.about)
  BY <1>1, <1>2, <1>4 DEF FactFits
<1>6. QueryFits(c, Head(c.todo))
  BY HeadFits DEF OpenFits
<1>7. IF c.ask.tool = "search_context" THEN f.about.type \in HitType /\ e.about.type \in HitType
                                       ELSE f.about = NoLink /\ e.about = NoLink
  BY <1>1, <1>2, <1>6 DEF QueryFits, FactFits
<1>8. NoLink.type \notin HitType
  BY DEF NoLink, HitType, TargetTypes, IdentityTypes, ContentTypes
<1>9. f.about = e.about
  BY <1>5, <1>7, <1>8 DEF Target
<1> QED BY <1>2, <1>6, <1>9 DEF QueryFits

\* A query was taken: its rows are shown, its follow-ups stand before the rest.
LEMMA ReadKeeps ==
  ASSUME DbInv(db), Named, NEW c, c.ask \in Ask, OpenFits(db, c), c.todo # <<>>,
         Head(c.todo).part \notin {"scopes", "find"},
         NEW c2, c2.ask = c.ask, c2.subject = c.subject, c2.scopes = c.scopes,
         c2.answer = c.answer \cup Taken(db, Head(c.todo), c),
         c2.todo = FollowUps(Head(c.todo), c, Taken(db, Head(c.todo), c)) \o Tail(c.todo)
  PROVE  OpenFits(db, c2)
<1> DEFINE q == Head(c.todo)
           taken == Taken(db, q, c)
           more == FollowUps(q, c, taken)
           rest == Tail(c.todo)
<1>1. /\ c.todo \in Seq(Queries) /\ OrderFits(c.todo)
      /\ \A i \in DOMAIN c.todo : QueryFits(c, c.todo[i])
  BY DEF OpenFits, ToDoFits
<1>2. /\ 1 \in DOMAIN c.todo /\ q = c.todo[1] /\ QueryFits(c, q) /\ q \in Queries
      /\ \A i \in DOMAIN c.todo : c.todo[i].part # "find"
  BY HeadFits DEF OpenFits
<1>more. /\ more \in Seq(Queries)
         /\ \A i \in DOMAIN more :
               /\ more[i].part \in {"headline", "facts", "refs"}
               /\ more[i].part = "headline" => more[i].about.type \in HitType
               /\ more[i].part = "facts" => q.part = "collect" /\ more[i].about.type \in HitType
         /\ \A i, j \in DOMAIN more :
               i # j /\ more[i].part = "facts" /\ more[j].part = "facts" =>
                  more[i].about # more[j].about
         /\ q.part = "facts" /\ q.about # NoLink => Asked(more, Query("refs", q.about))
         /\ q.part = "refs" /\ q.about.type # "fact" =>
               \A e \in FactsShown(c) :
                  e.about = q.about => Asked(more, Query("refs", LinkOf(e)))
  BY FollowUpsFit
<1>taken. /\ IsFiniteSet(taken)
          /\ \A e \in taken :
                /\ e.part = q.part /\ e.about = q.about /\ e.id \in Nat
                /\ e.part \in HitParts => e.type \in HitType
  BY TakenFits
<1>facts. q.part = "facts" =>
            \A e \in taken :
               /\ e.type = "fact" /\ e.id \in DOMAIN db["fact"]
               /\ db["fact"][e.id].scope \in c.scopes \cup {Shared}
               /\ db["fact"][e.id].parent = Target(c, e.about)
               /\ db["fact"][e.id].superseded_by = 0
               /\ e.refs = Len(db["ref"]) /\ Len(db["ref"]) \in Nat
  BY FactsTaken
<1>refs. q.part = "refs" =>
            \A r \in Hanging(db, "ref", Target(c, q.about), c.scopes) :
               \E s \in taken : s.part = "refs" /\ s.id = r
  <2> SUFFICES ASSUME q.part = "refs", NEW r \in Hanging(db, "ref", Target(c, q.about), c.scopes)
               PROVE  \E s \in taken : s.part = "refs" /\ s.id = r
    OBVIOUS
  <2>1. Selected(db, q, c) = Rows("ref", Hanging(db, "ref", Target(c, q.about), c.scopes))
    BY DEF Selected, Target
  <2>2. PICK l : l = [type |-> "ref", id |-> r]
    OBVIOUS
  <2>3. l \in Selected(db, q, c) /\ l.id = r
    BY <2>1, <2>2 DEF Rows
  <2>4. Entry(db, q, l) \in taken
    BY <2>3 DEF Taken
  <2>5. Entry(db, q, l).part = "refs" /\ Entry(db, q, l).id = r
    BY <2>3 DEF Entry
  <2> QED BY <2>4, <2>5
<1>late. \A e \in FactsShown(c) : db["fact"][e.id].superseded_by # 0 =>
            (q.part = "facts" => \A f \in taken : db["fact"][e.id].superseded_by # f.id)
  BY NoSuccessorShown
<1>zero. q.part = "facts" => \A f \in taken : f.id # 0
  BY <1>facts, FactTable DEF DbInv
<1>rest. /\ rest \in Seq(Queries) /\ OrderFits(rest)
         /\ \A k \in DOMAIN rest : k + 1 \in DOMAIN c.todo /\ rest[k] = c.todo[k + 1]
         /\ \A i \in DOMAIN c.todo : i # 1 => i - 1 \in DOMAIN rest /\ rest[i - 1] = c.todo[i]
  BY <1>1, TailOf, OrderOfTail
<1> HIDE DEF q, taken, more, rest
<1>all. /\ c2.todo = more \o rest /\ c2.answer = c.answer \cup taken
  BY DEF q, taken, more, rest
<1>3. /\ c2.todo \in Seq(Queries)
      /\ \A k \in DOMAIN c2.todo :
            \/ \E i \in DOMAIN more : c2.todo[k] = more[i]
            \/ \E i \in DOMAIN rest : c2.todo[k] = rest[i]
      /\ \A i \in DOMAIN more : \E k \in DOMAIN c2.todo : c2.todo[k] = more[i]
      /\ \A i \in DOMAIN rest : \E k \in DOMAIN c2.todo : c2.todo[k] = rest[i]
  <2> DEFINE all == more \o rest
             n == Len(more)
  <2>1. /\ all \in Seq(Queries) /\ n \in Nat
        /\ \A k \in DOMAIN all :
              \/ k \in DOMAIN more /\ all[k] = more[k]
              \/ n < k /\ k - n \in DOMAIN rest /\ all[k] = rest[k - n]
        /\ \A i \in DOMAIN more : i \in DOMAIN all /\ all[i] = more[i] /\ i <= n
        /\ \A i \in DOMAIN rest : n + i \in DOMAIN all /\ all[n + i] = rest[i]
    BY <1>more, <1>rest, Prepended
  <2> HIDE DEF all, n
  <2>2. c2.todo = all
    BY <1>all DEF all
  <2> QED BY <2>1, <2>2
<1>4. \A x : Asked(more, x) => Pending(c2, x)
  BY <1>3 DEF Asked, Pending
<1>5. \A x : Pending(c, x) /\ x # q => Pending(c2, x)
  <2> SUFFICES ASSUME NEW i \in DOMAIN c.todo, c.todo[i] # q
               PROVE  Pending(c2, c.todo[i])
    BY DEF Pending
  <2>1. i - 1 \in DOMAIN rest /\ rest[i - 1] = c.todo[i]
    BY <1>2, <1>rest
  <2>2. \E k \in DOMAIN c2.todo : c2.todo[k] = rest[i - 1]
    BY <1>3, <2>1
  <2> QED BY <2>1, <2>2 DEF Pending
<1>6. \A k \in DOMAIN rest : \E i \in DOMAIN c.todo : i # 1 /\ rest[k] = c.todo[i]
  <2> SUFFICES ASSUME NEW k \in DOMAIN rest
               PROVE  k + 1 \in DOMAIN c.todo /\ k + 1 # 1 /\ rest[k] = c.todo[k + 1]
    OBVIOUS
  <2>1. k \in Nat \ {0}
    BY <1>rest
  <2> QED BY <1>rest, <2>1
<1>7. \A k \in DOMAIN rest :
         /\ QueryFits(c, rest[k]) /\ rest[k].part # "find"
         /\ q.part = "facts" => rest[k].part # "collect"
         /\ q.part = "facts" /\ rest[k].part = "facts" => rest[k].about # q.about
         /\ q.part = "collect" => rest[k].part \notin {"facts", "collect"}
  <2> SUFFICES ASSUME NEW i \in DOMAIN c.todo, i # 1
               PROVE  /\ QueryFits(c, c.todo[i]) /\ c.todo[i].part # "find"
                      /\ q.part = "facts" => c.todo[i].part # "collect"
                      /\ q.part = "facts" /\ c.todo[i].part = "facts" => c.todo[i].about # q.about
                      /\ q.part = "collect" => c.todo[i].part \notin {"facts", "collect"}
    BY <1>6
  <2> QED BY <1>1, <1>2 DEF OrderFits
<1>8. OrderFits(c2.todo)
  <2>1. \A i \in DOMAIN more : more[i].part = "facts" => more[i].about # NoLink
    BY <1>more DEF NoLink, HitType, TargetTypes, IdentityTypes, ContentTypes
  <2> QED BY <1>all, <1>more, <1>rest, <1>7, <2>1, OrderOfMore
<1>shown. /\ q.part # "facts" => FactsShown(c2) = FactsShown(c)
          /\ q.part = "facts" => FactsShown(c2) = FactsShown(c) \cup taken
          /\ FactsShown(c) \subseteq FactsShown(c2)
  BY <1>all, <1>taken DEF FactsShown
<1>9. ASSUME NEW k \in DOMAIN rest PROVE QueryFits(c2, rest[k])
  <2>1. QueryFits(c, rest[k])
    BY <1>7
  <2>2. rest[k].part = "organization" => \E e \in c2.answer : e.part = "find"
    <3>1. ~ Pending(c, Query("find", NoLink))
      BY <1>2 DEF Pending, Query
    <3> QED BY <1>all, <2>1, <3>1 DEF QueryFits
  <2>3. rest[k].part = "facts" => \A e \in FactsShown(c2) : e.about # rest[k].about
    BY <1>7, <1>shown, <1>taken, <2>1 DEF QueryFits
  <2>4. rest[k].part = "collect" => FactsShown(c2) = {}
    BY <1>7, <1>shown, <2>1 DEF QueryFits
  <2> QED BY <1>7, <2>1, <2>2, <2>3, <2>4 DEF QueryFits
<1>10. ASSUME NEW i \in DOMAIN more PROVE QueryFits(c2, more[i])
  <2>1. more[i].part = "facts" => c.ask.tool = "search_context" /\ FactsShown(c2) = {}
    BY <1>2, <1>more, <1>shown DEF QueryFits
  <2> QED BY <1>more, <2>1 DEF QueryFits
<1>11. ToDoFits(c2)
  BY <1>3, <1>8, <1>9, <1>10 DEF ToDoFits
<1>12. IsFiniteSet(c2.answer)
  <2>1. IsFiniteSet(c.answer) /\ IsFiniteSet(taken)
    BY <1>taken DEF OpenFits
  <2> QED BY <1>all, <2>1, FS_Union
<1>13. \A e \in c2.answer : EntryFits(db, c2, e)
  <2>1. \A e \in c.answer : EntryFits(db, c2, e)
    BY DEF OpenFits, EntryFits
  <2>2. q.part # "find"
    BY <1>2
  <2>3. \A e \in taken : EntryFits(db, c2, e)
    BY <1>taken, <2>2 DEF EntryFits
  <2> QED BY <1>all, <2>1, <2>3
<1>14. ASSUME NEW e \in FactsShown(c) PROVE FactFits(db, c2, e)
  <2>1. FactFits(db, c, e)
    BY DEF OpenFits
  <2>2. \A r \in 1 .. e.refs : db["ref"][r].parent = LinkOf(e) => RefsFollow(c2, e, r)
    <3> SUFFICES ASSUME NEW r \in 1 .. e.refs, db["ref"][r].parent = LinkOf(e),
                        RefsFollow(c, e, r)
                 PROVE  RefsFollow(c2, e, r)
      BY <2>1 DEF FactFits
    <3>1. CASE \E s \in c.answer : s.part = "refs" /\ s.id = r
      BY <1>all, <3>1 DEF RefsFollow
    <3>2. CASE Pending(c, Query("refs", e.about)) /\ Query("refs", e.about) # q
      BY <1>5, <3>2 DEF RefsFollow
    <3>3. CASE Query("refs", e.about) = q
      <4>1. q.part = "refs" /\ q.about = e.about
        BY <3>3 DEF Query
      <4>2. e.about.type # "fact"
        BY <2>1 DEF FactFits, HitType, NoLink
      <4>3. Pending(c2, Query("refs", LinkOf(e)))
        BY <1>4, <1>more, <4>1, <4>2
      <4> QED BY <4>3 DEF RefsFollow
    <3>4. CASE Pending(c, Query("refs", LinkOf(e))) /\ Query("refs", LinkOf(e)) # q
      BY <1>5, <3>4 DEF RefsFollow
    <3>5. CASE Query("refs", LinkOf(e)) = q
      <4>1. q.part = "refs" /\ q.about = LinkOf(e)
        BY <3>5 DEF Query
      <4>2. e.type = "fact" /\ LinkOf(e).type = "fact" /\ LinkOf(e).id = e.id
        BY <2>1 DEF FactFits, LinkOf
      <4>3. LinkOf(e) # NoLink /\ Target(c, q.about) = LinkOf(e)
        BY <4>1, <4>2 DEF NoLink, Target
      <4>4. /\ r \in DOMAIN db["ref"] /\ "ref" \in TargetTypes
            /\ LinksOf(db, db["ref"][r])
        <5>1. db["ref"] \in Seq(Row) /\ "ref" \in TargetTypes
          BY DEF DbInv, Database, TargetTypes, ContentTypes
        <5>2. e.refs \in Nat /\ e.refs <= Len(db["ref"])
          BY <2>1 DEF FactFits
        <5>3. r \in DOMAIN db["ref"]
          BY <5>1, <5>2
        <5> QED BY <5>1, <5>3 DEF DbInv, LinksContained
      <4>5. db["ref"][r].scope = db["fact"][e.id].scope
        BY <4>2, <4>3, <4>4 DEF LinksOf, RowVisible, ContentTypes
      <4>6. r \in Hanging(db, "ref", Target(c, q.about), c.scopes)
        BY <2>1, <4>3, <4>4, <4>5 DEF Hanging, Seen, FactFits
      <4>7. \E s \in taken : s.part = "refs" /\ s.id = r
        BY <1>refs, <4>1, <4>6
      <4> QED BY <1>all, <4>7 DEF RefsFollow
    <3> QED BY <3>1, <3>2, <3>3, <3>4, <3>5 DEF RefsFollow
  <2>3. \A f \in FactsShown(c2) : db["fact"][e.id].superseded_by # f.id
    BY <1>shown, <1>late, <1>zero, <2>1 DEF FactFits
  <2> QED BY <2>1, <2>2, <2>3 DEF FactFits, Target
<1>15. ASSUME q.part = "facts", NEW e \in taken PROVE FactFits(db, c2, e)
  <2>1. /\ e.type = "fact" /\ e.id \in DOMAIN db["fact"]
        /\ db["fact"][e.id].scope \in c.scopes \cup {Shared}
        /\ db["fact"][e.id].parent = Target(c, e.about)
        /\ db["fact"][e.id].superseded_by = 0
        /\ e.refs = Len(db["ref"]) /\ Len(db["ref"]) \in Nat
        /\ e.about = q.about
    BY <1>15, <1>facts, <1>taken
  <2>2. IF c.ask.tool = "search_context" THEN e.about.type \in HitType ELSE e.about = NoLink
    BY <1>2, <1>15, <2>1 DEF QueryFits
  <2>3. Pending(c2, Query("refs", e.about))
    <3>1. CASE q.about # NoLink
      BY <1>4, <1>15, <1>more, <2>1, <3>1
    <3>2. CASE q.about = NoLink
      <4>1. q = Query("facts", NoLink)
        BY <1>1, <1>2, <1>15, <3>2 DEF Query, Queries
      <4>2. PICK j \in DOMAIN c.todo : 1 < j /\ c.todo[j] = Query("refs", NoLink)
        BY <1>1, <1>2, <4>1 DEF OrderFits
      <4>3. Query("refs", NoLink) # q
        BY <1>15 DEF Query
      <4> QED BY <1>5, <2>1, <3>2, <4>2, <4>3 DEF Pending
    <3> QED BY <3>1, <3>2
  <2>4. \A f \in FactsShown(c2) : f.id # 0
    BY <1>15, <1>shown, <1>zero, FactTable DEF OpenFits, FactFits, DbInv
  <2> QED BY <2>1, <2>2, <2>3, <2>4 DEF FactFits, RefsFollow, Target
<1>16. \A e \in FactsShown(c2) : FactFits(db, c2, e)
  BY <1>14, <1>15, <1>shown
<1> QED BY <1>11, <1>12, <1>13, <1>16 DEF OpenFits

\* A query that only moves on to the next one.
LEMMA NothingMore ==
  ASSUME NEW c, ToDoFits(c), c.todo # <<>>
  PROVE  LET rest == <<>> \o Tail(c.todo)
         IN  /\ rest \in Seq(Queries) /\ OrderFits(rest)
             /\ \A k \in DOMAIN rest : \E i \in DOMAIN c.todo : i # 1 /\ rest[k] = c.todo[i]
             /\ \A i \in DOMAIN c.todo : i # 1 => \E k \in DOMAIN rest : rest[k] = c.todo[i]
<1>1. c.todo \in Seq(Queries) /\ OrderFits(c.todo)
  BY DEF ToDoFits
<1>2. PICK rest : rest = Tail(c.todo)
  OBVIOUS
<1>3. /\ rest \in Seq(Queries) /\ OrderFits(rest)
      /\ \A k \in DOMAIN rest : k + 1 \in DOMAIN c.todo /\ rest[k] = c.todo[k + 1]
      /\ \A i \in DOMAIN c.todo : i # 1 => i - 1 \in DOMAIN rest /\ rest[i - 1] = c.todo[i]
  BY <1>1, <1>2, TailOf, OrderOfTail
<1>4. <<>> \o rest = rest
  BY <1>3, ConcatEmptySeq
<1>5. \A k \in DOMAIN rest : k + 1 # 1
  <2>1. DOMAIN rest \subseteq Nat \ {0}
    BY <1>3
  <2> QED BY <2>1
<1>6. \A k \in DOMAIN rest : \E i \in DOMAIN c.todo : i # 1 /\ rest[k] = c.todo[i]
  BY <1>3, <1>5
<1>7. \A i \in DOMAIN c.todo : i # 1 => \E k \in DOMAIN rest : rest[k] = c.todo[i]
  BY <1>3
<1>8. <<>> \o Tail(c.todo) = rest
  BY <1>2, <1>4
<1> QED BY <1>3, <1>6, <1>7, <1>8

\* The row asked for was found, and the rest of the call is about it.
LEMMA FindKeeps ==
  ASSUME DbInv(db), Named, NEW c, c.ask \in Ask, OpenFits(db, c), c.todo # <<>>,
         Head(c.todo).part = "find", NEW e, Taken(db, Head(c.todo), c) = {e},
         NEW c2, c2.ask = c.ask, c2.scopes = c.scopes,
         c2.answer = c.answer \cup {e}, c2.todo = <<>> \o Tail(c.todo)
  PROVE  OpenFits(db, c2)
<1>1. /\ 1 \in DOMAIN c.todo /\ Head(c.todo) = c.todo[1] /\ QueryFits(c, Head(c.todo))
      /\ \A i \in DOMAIN c.todo : c.todo[i].part = "find" => i = 1
  BY HeadFits DEF OpenFits
<1>2. ToDoFits(c) /\ \A i \in DOMAIN c.todo : QueryFits(c, c.todo[i])
  BY DEF OpenFits, ToDoFits
<1>3. c2.answer = {e}
  BY <1>1 DEF QueryFits
<1>4. /\ e.part = "find" /\ e.type \in TargetTypes /\ e.id \in Seen(db, e.type, c.scopes)
      /\ e.row = db[e.type][e.id]
  BY TakenFits
<1>5. FactsShown(c2) = {}
  BY <1>3, <1>4 DEF FactsShown
<1>6. e.row \in Row /\ LinksOf(db, e.row) /\ e.row.scope \in c.scopes \cup {Shared}
  <2>1. e.id \in DOMAIN db[e.type] /\ db[e.type] \in Seq(Row)
    BY <1>4 DEF Seen, DbInv, Database
  <2>2. db[e.type][e.id] \in Row
    BY <2>1
  <2> QED BY <1>4, <2>1, <2>2 DEF Seen, DbInv, LinksContained
<1>7. EntryFits(db, c2, e)
  BY <1>4, <1>6 DEF EntryFits, HitParts
<1>8. /\ c2.todo \in Seq(Queries) /\ OrderFits(c2.todo)
      /\ \A k \in DOMAIN c2.todo : \E i \in DOMAIN c.todo : i # 1 /\ c2.todo[k] = c.todo[i]
  BY <1>2, NothingMore
<1>9. \A k \in DOMAIN c2.todo : QueryFits(c, c2.todo[k]) /\ c2.todo[k].part # "find"
  BY <1>1, <1>2, <1>8
<1>10. \A k \in DOMAIN c2.todo : QueryFits(c2, c2.todo[k])
  BY <1>3, <1>4, <1>5, <1>9 DEF QueryFits
<1>11. IsFiniteSet(c2.answer)
  <2>1. IsFiniteSet({e})
    BY FS_Singleton, Zenon
  <2> QED BY <1>3, <2>1
<1>12. ToDoFits(c2)
  BY <1>8, <1>10 DEF ToDoFits
<1>13. \A x \in c2.answer : EntryFits(db, c2, x)
  BY <1>3, <1>7
<1> QED BY <1>5, <1>11, <1>12, <1>13 DEF OpenFits

\* The scopes of the call are known.
LEMMA ScopesKeep ==
  ASSUME NEW c, OpenFits(db, c), c.todo # <<>>, Head(c.todo).part = "scopes",
         NEW c2, c2.ask = c.ask, c2.subject = c.subject,
         c2.answer = c.answer, c2.todo = <<>> \o Tail(c.todo)
  PROVE  OpenFits(db, c2)
<1>1. /\ 1 \in DOMAIN c.todo /\ Head(c.todo) = c.todo[1] /\ QueryFits(c, Head(c.todo))
  BY HeadFits DEF OpenFits
<1>2. ToDoFits(c) /\ OrderFits(c.todo) /\ \A i \in DOMAIN c.todo : QueryFits(c, c.todo[i])
  BY DEF OpenFits, ToDoFits
<1>3. c.scopes = {}
  BY <1>1 DEF QueryFits
<1>4. /\ c2.todo \in Seq(Queries) /\ OrderFits(c2.todo)
      /\ \A k \in DOMAIN c2.todo : \E i \in DOMAIN c.todo : i # 1 /\ c2.todo[k] = c.todo[i]
      /\ \A i \in DOMAIN c.todo : i # 1 => \E k \in DOMAIN c2.todo : c2.todo[k] = c.todo[i]
  BY <1>2, NothingMore
<1>5. \A x : Pending(c, x) /\ x.part # "scopes" => Pending(c2, x)
  BY <1>1, <1>4 DEF Pending
<1>6. \A k \in DOMAIN c2.todo : QueryFits(c, c2.todo[k]) /\ c2.todo[k].part # "scopes"
  BY <1>1, <1>2, <1>4 DEF OrderFits
<1>7. FactsShown(c2) = FactsShown(c)
  BY DEF FactsShown
<1>8. Query("find", NoLink).part = "find" /\ \A l : Query("refs", l).part = "refs"
  BY DEF Query
<1>9. \A k \in DOMAIN c2.todo : QueryFits(c2, c2.todo[k])
  BY <1>5, <1>6, <1>7, <1>8 DEF QueryFits
<1>10. \A e \in c.answer : EntryFits(db, c2, e)
  BY <1>3 DEF OpenFits, EntryFits
<1>11. ASSUME NEW e \in FactsShown(c) PROVE FactFits(db, c2, e)
  <2>1. FactFits(db, c, e)
    BY DEF OpenFits
  <2>2. \A r : RefsFollow(c, e, r) => RefsFollow(c2, e, r)
    BY <1>5, <1>8 DEF RefsFollow
  <2> QED BY <1>3, <1>7, <2>1, <2>2 DEF FactFits, Target
<1> QED BY <1>4, <1>7, <1>9, <1>10, <1>11 DEF OpenFits, ToDoFits

-----------------------------------------------------------------------------
(* The lists the handlers start with *)

QueryParts ==
    {"find", "scopes", "organization", "engagements", "people", "facts", "refs",
     "interactions", "glossary", "speaker", "person_hits", "fact_hits", "collect"}

\* The list of a handler is one of queries in their order, if its names are.
LEMMA PartsFit ==
  ASSUME NEW names \in Seq(QueryParts),
         \A i, j \in DOMAIN names :
            /\ names[i] = names[j] => i = j
            /\ names[i] = "find" /\ j < i => names[j] = "scopes"
            /\ names[i] = "facts" => names[j] # "collect",
         \A i \in DOMAIN names : names[i] = "facts" => \E j \in DOMAIN names : i < j /\ names[j] = "refs"
  PROVE  /\ Parts(names) \in Seq(Queries) /\ OrderFits(Parts(names))
         /\ DOMAIN Parts(names) = DOMAIN names
         /\ \A i \in DOMAIN names : Parts(names)[i] = Query(names[i], NoLink)
<1> DEFINE list == Parts(names)
<1>1. /\ DOMAIN list = DOMAIN names /\ \A i \in DOMAIN names : list[i] = Query(names[i], NoLink)
  BY DEF Parts
<1>2. /\ DOMAIN names = 1 .. Len(names) /\ Len(names) \in Nat
      /\ \A i \in DOMAIN names : names[i] \in QueryParts
  OBVIOUS
<1>3. \A i \in DOMAIN names : /\ Query(names[i], NoLink) \in Queries
                             /\ Query(names[i], NoLink).part = names[i]
                             /\ Query(names[i], NoLink).about = NoLink
  BY <1>2 DEF Query, Queries, QueryParts, Link
<1>4. list = [i \in 1 .. Len(names) |-> list[i]]
  BY <1>2 DEF Parts
<1> HIDE DEF list
<1>5. list \in Seq(Queries)
  BY <1>1, <1>2, <1>3, <1>4
<1>6. \A i \in DOMAIN list :
         list[i] = Query("facts", NoLink) =>
            \E j \in DOMAIN list : i < j /\ list[j] = Query("refs", NoLink)
  <2> SUFFICES ASSUME NEW i \in DOMAIN names, list[i] = Query("facts", NoLink)
               PROVE  \E j \in DOMAIN list : i < j /\ list[j] = Query("refs", NoLink)
    BY <1>1
  <2>1. names[i] = "facts"
    BY <1>1, <1>3 DEF Query
  <2> QED BY <1>1, <2>1
<1>7. \A i \in DOMAIN list : list[i].part = names[i]
  BY <1>1, <1>3
<1>8. OrderFits(list)
  BY <1>1, <1>6, <1>7 DEF OrderFits
<1> QED BY <1>1, <1>5, <1>8 DEF list

\* Lists that find nothing and show no facts, one after the other.
LEMMA Joined ==
  ASSUME NEW more \in Seq(Queries), NEW rest \in Seq(Queries), OrderFits(more), OrderFits(rest),
         \A i \in DOMAIN more : more[i].part \notin {"find", "facts"},
         \A i \in DOMAIN rest : rest[i].part \notin {"find", "facts"},
         \A i \in DOMAIN more, j \in DOMAIN rest :
            more[i].part = rest[j].part => more[i].part \notin {"scopes", "collect"}
  PROVE  /\ more \o rest \in Seq(Queries) /\ OrderFits(more \o rest)
         /\ \A k \in DOMAIN (more \o rest) :
               \/ \E i \in DOMAIN more : (more \o rest)[k] = more[i]
               \/ \E i \in DOMAIN rest : (more \o rest)[k] = rest[i]
<1> DEFINE all == more \o rest
           n == Len(more)
<1>1. /\ all \in Seq(Queries) /\ n \in Nat
      /\ \A k \in DOMAIN all :
            \/ k \in DOMAIN more /\ all[k] = more[k]
            \/ n < k /\ k - n \in DOMAIN rest /\ all[k] = rest[k - n]
      /\ DOMAIN more \subseteq Nat \ {0} /\ DOMAIN rest \subseteq Nat \ {0}
      /\ DOMAIN all \subseteq Nat \ {0}
  BY Prepended
<1> HIDE DEF all, n
<1>2. \A k \in DOMAIN all : all[k].part \notin {"find", "facts"}
  BY <1>1
<1>3. ASSUME NEW i \in DOMAIN all, NEW j \in DOMAIN all, i # j
      PROVE  /\ all[i].part = "scopes" => all[j].part # "scopes"
             /\ all[i].part = "collect" => all[j].part # "collect"
  <2>1. CASE i \in DOMAIN more /\ all[i] = more[i] /\ j \in DOMAIN more /\ all[j] = more[j]
    BY <1>3, <2>1 DEF OrderFits
  <2>2. CASE i \in DOMAIN more /\ all[i] = more[i] /\ j - n \in DOMAIN rest /\ all[j] = rest[j - n]
    BY <2>2
  <2>3. CASE i - n \in DOMAIN rest /\ all[i] = rest[i - n] /\ j \in DOMAIN more /\ all[j] = more[j]
    BY <2>3
  <2>4. CASE i - n \in DOMAIN rest /\ all[i] = rest[i - n] /\ j - n \in DOMAIN rest /\ all[j] = rest[j - n]
    <3>1. i - n # j - n
      BY <1>1, <1>3
    <3> QED BY <2>4, <3>1 DEF OrderFits
  <2> QED BY <1>1, <2>1, <2>2, <2>3, <2>4
<1>4. \A k \in DOMAIN all : all[k] # Query("facts", NoLink)
  BY <1>2 DEF Query
<1>5. OrderFits(all)
  BY <1>2, <1>3, <1>4 DEF OrderFits
<1> QED BY <1>1, <1>5 DEF all

\* A list of names a handler may go through.
NamesFit(names) ==
    /\ names \in Seq(QueryParts)
    /\ \A i, j \in DOMAIN names :
          /\ names[i] = names[j] => i = j
          /\ names[i] = "find" /\ j < i => names[j] = "scopes"
          /\ names[i] = "facts" => names[j] # "collect"
    /\ \A i \in DOMAIN names : names[i] = "facts" => \E j \in DOMAIN names : i < j /\ names[j] = "refs"

\* The lists of the handlers, name by name.
LEMMA HandlerNames ==
  /\ NamesFit(<<"find", "scopes", "organization", "engagements", "facts", "refs", "interactions">>)
  /\ NamesFit(<<"find", "scopes", "people", "engagements", "facts", "refs">>)
  /\ NamesFit(<<"scopes", "find", "organization", "people", "facts", "refs", "glossary",
                "interactions">>)
  /\ NamesFit(<<"scopes", "glossary">>)
  /\ NamesFit(<<"scopes", "find", "glossary", "people">>)
  /\ NamesFit(<<"speaker">>)
  /\ NamesFit(<<"scopes", "find", "people", "speaker">>)
  /\ NamesFit(<<"scopes", "person_hits">>)
  /\ NamesFit(<<"fact_hits", "collect">>)
<1>1. NamesFit(<<"find", "scopes", "organization", "engagements", "facts", "refs", "interactions">>)
  BY DEF NamesFit, QueryParts
<1>2. NamesFit(<<"find", "scopes", "people", "engagements", "facts", "refs">>)
  BY DEF NamesFit, QueryParts
<1>3. NamesFit(<<"scopes", "find", "organization", "people", "facts", "refs", "glossary",
                 "interactions">>)
  BY DEF NamesFit, QueryParts
<1>4. NamesFit(<<"scopes", "glossary">>)
  BY DEF NamesFit, QueryParts
<1>5. NamesFit(<<"scopes", "find", "glossary", "people">>)
  BY DEF NamesFit, QueryParts
<1>6. NamesFit(<<"speaker">>)
  BY DEF NamesFit, QueryParts
<1>7. NamesFit(<<"scopes", "find", "people", "speaker">>)
  BY DEF NamesFit, QueryParts
<1>8. NamesFit(<<"scopes", "person_hits">>)
  BY DEF NamesFit, QueryParts
<1>9. NamesFit(<<"fact_hits", "collect">>)
  BY DEF NamesFit, QueryParts
<1> QED BY <1>1, <1>2, <1>3, <1>4, <1>5, <1>6, <1>7, <1>8, <1>9

\* The searches of the tables, one by one, then the hits of facts and their subjects.
LEMMA SearchesFit ==
  ASSUME NEW tables \in Seq(HitType)
  PROVE  /\ Searches(tables) \in Seq(Queries) /\ OrderFits(Searches(tables))
         /\ \A i \in DOMAIN Searches(tables) :
               Searches(tables)[i].part = "hits" /\ Searches(tables)[i].about.type \in HitType
<1> DEFINE list == Searches(tables)
<1>1. /\ DOMAIN tables = 1 .. Len(tables) /\ Len(tables) \in Nat
      /\ \A i \in DOMAIN tables : tables[i] \in HitType
  OBVIOUS
<1>2. /\ DOMAIN list = DOMAIN tables
      /\ \A i \in DOMAIN tables : list[i] = Query("hits", [type |-> tables[i], id |-> 0])
      /\ list = [i \in 1 .. Len(tables) |-> list[i]]
  BY <1>1 DEF Searches
<1>3. \A t \in HitType : [type |-> t, id |-> 0] \in Link
  BY DEF Link, HitType
<1>4. \A t \in HitType : LET q == Query("hits", [type |-> t, id |-> 0])
                         IN  q \in Queries /\ q.part = "hits" /\ q.about.type = t
  BY <1>3 DEF Query, Queries
<1> HIDE DEF list
<1>5. /\ list \in Seq(Queries)
      /\ \A i \in DOMAIN list : list[i].part = "hits" /\ list[i].about.type \in HitType
  <2>1. \A i \in DOMAIN tables :
           list[i] \in Queries /\ list[i].part = "hits" /\ list[i].about.type = tables[i]
    BY <1>1, <1>2, <1>4
  <2>2. list \in Seq(Queries)
    BY <1>1, <1>2, <2>1
  <2> QED BY <1>1, <1>2, <2>1, <2>2
<1>6. \A i \in DOMAIN list : list[i] # Query("facts", NoLink)
  BY <1>5 DEF Query
<1>7. OrderFits(list)
  BY <1>5, <1>6 DEF OrderFits
<1> QED BY <1>5, <1>7 DEF list

\* What search_context asks for before it knows what it found.
SearchQuery(q) ==
    /\ q.part \in {"scopes", "person_hits", "hits", "fact_hits", "collect"}
    /\ q.part = "hits" => q.about.type \in HitType

LEMMA SearchContextFits ==
  /\ SearchContext \in Seq(Queries) /\ OrderFits(SearchContext)
  /\ \A i \in DOMAIN SearchContext : SearchQuery(SearchContext[i])
<1> DEFINE a == Parts(<<"scopes", "person_hits">>)
           b == Searches(<<"organization", "engagement", "entity">>)
           p == Parts(<<"fact_hits", "collect">>)
           s == Searches(<<"glossary", "interaction">>)
<1>a. /\ a \in Seq(Queries) /\ OrderFits(a)
      /\ \A i \in DOMAIN a : SearchQuery(a[i]) /\ a[i].part \in {"scopes", "person_hits"}
  <2> DEFINE names == <<"scopes", "person_hits">>
  <2>1. NamesFit(names) /\ \A i \in DOMAIN names : names[i] \in {"scopes", "person_hits"}
    BY HandlerNames
  <2> HIDE DEF names
  <2>2. /\ Parts(names) \in Seq(Queries) /\ OrderFits(Parts(names)) /\ DOMAIN Parts(names) = DOMAIN names
        /\ \A i \in DOMAIN names : Parts(names)[i] = Query(names[i], NoLink)
    BY <2>1, PartsFit DEF NamesFit
  <2>3. \A i \in DOMAIN names : Parts(names)[i].part = names[i]
    BY <2>2 DEF Query
  <2> QED BY <2>1, <2>2, <2>3 DEF SearchQuery, names
<1>b. /\ b \in Seq(Queries) /\ OrderFits(b)
      /\ \A i \in DOMAIN b : SearchQuery(b[i]) /\ b[i].part = "hits"
  <2> DEFINE tables == <<"organization", "engagement", "entity">>
  <2>1. tables \in Seq(HitType)
    BY DEF HitType, TargetTypes, IdentityTypes, ContentTypes
  <2> HIDE DEF tables
  <2> QED BY <2>1, SearchesFit DEF SearchQuery, tables
<1>p. /\ p \in Seq(Queries) /\ OrderFits(p)
      /\ \A i \in DOMAIN p : SearchQuery(p[i]) /\ p[i].part \in {"fact_hits", "collect"}
  <2> DEFINE names == <<"fact_hits", "collect">>
  <2>1. NamesFit(names) /\ \A i \in DOMAIN names : names[i] \in {"fact_hits", "collect"}
    BY HandlerNames
  <2> HIDE DEF names
  <2>2. /\ Parts(names) \in Seq(Queries) /\ OrderFits(Parts(names)) /\ DOMAIN Parts(names) = DOMAIN names
        /\ \A i \in DOMAIN names : Parts(names)[i] = Query(names[i], NoLink)
    BY <2>1, PartsFit DEF NamesFit
  <2>3. \A i \in DOMAIN names : Parts(names)[i].part = names[i]
    BY <2>2 DEF Query
  <2> QED BY <2>1, <2>2, <2>3 DEF SearchQuery, names
<1>s. /\ s \in Seq(Queries) /\ OrderFits(s)
      /\ \A i \in DOMAIN s : SearchQuery(s[i]) /\ s[i].part = "hits"
  <2> DEFINE tables == <<"glossary", "interaction">>
  <2>1. tables \in Seq(HitType)
    BY DEF HitType, TargetTypes, IdentityTypes, ContentTypes
  <2> HIDE DEF tables
  <2> QED BY <2>1, SearchesFit DEF SearchQuery, tables
<1>all. SearchContext = ((a \o b) \o p) \o s
  BY DEF SearchContext
<1> HIDE DEF a, b, p, s
<1> DEFINE ab == a \o b
           abp == ab \o p
           abps == abp \o s
<1>1. /\ ab \in Seq(Queries) /\ OrderFits(ab)
      /\ \A k \in DOMAIN ab : \/ \E i \in DOMAIN a : ab[k] = a[i]
                              \/ \E i \in DOMAIN b : ab[k] = b[i]
  <2>1. /\ \A i \in DOMAIN a : a[i].part \notin {"find", "facts"}
        /\ \A i \in DOMAIN b : b[i].part \notin {"find", "facts"}
        /\ \A i \in DOMAIN a, j \in DOMAIN b :
              a[i].part = b[j].part => a[i].part \notin {"scopes", "collect"}
    BY <1>a, <1>b
  <2> QED BY <2>1, <1>a, <1>b, Joined
<1>2. \A k \in DOMAIN ab : SearchQuery(ab[k]) /\ ab[k].part \in {"scopes", "person_hits", "hits"}
  BY <1>1, <1>a, <1>b
<1> HIDE DEF ab
<1>3. /\ abp \in Seq(Queries) /\ OrderFits(abp)
      /\ \A k \in DOMAIN abp : \/ \E i \in DOMAIN ab : abp[k] = ab[i]
                               \/ \E i \in DOMAIN p : abp[k] = p[i]
  <2>1. /\ \A i \in DOMAIN ab : ab[i].part \notin {"find", "facts"}
        /\ \A i \in DOMAIN p : p[i].part \notin {"find", "facts"}
        /\ \A i \in DOMAIN ab, j \in DOMAIN p :
              ab[i].part = p[j].part => ab[i].part \notin {"scopes", "collect"}
    BY <1>2, <1>p
  <2> QED BY <2>1, <1>1, <1>p, Joined
<1>4. \A k \in DOMAIN abp : /\ SearchQuery(abp[k])
                            /\ abp[k].part \in {"scopes", "person_hits", "hits", "fact_hits", "collect"}
  BY <1>3, <1>2, <1>p
<1> HIDE DEF abp
<1>5. /\ abps \in Seq(Queries) /\ OrderFits(abps)
      /\ \A k \in DOMAIN abps : \/ \E i \in DOMAIN abp : abps[k] = abp[i]
                                \/ \E i \in DOMAIN s : abps[k] = s[i]
  <2>1. /\ \A i \in DOMAIN abp : abp[i].part \notin {"find", "facts"}
        /\ \A i \in DOMAIN s : s[i].part \notin {"find", "facts"}
        /\ \A i \in DOMAIN abp, j \in DOMAIN s :
              abp[i].part = s[j].part => abp[i].part \notin {"scopes", "collect"}
    BY <1>4, <1>s
  <2> QED BY <2>1, <1>3, <1>s, Joined
<1>6. \A k \in DOMAIN abps : SearchQuery(abps[k])
  BY <1>5, <1>4, <1>s
<1>7. SearchContext = abps
  BY <1>all DEF ab, abp
<1> QED BY <1>5, <1>6, <1>7

\* A tool that goes through such a list of names may begin.
LEMMA HandlerFits ==
  ASSUME NEW d, NEW names, NamesFit(names),
         \A i \in DOMAIN names : names[i] # "collect",
         (\E i \in DOMAIN names : names[i] = "organization") =>
            \E i \in DOMAIN names : names[i] = "find",
         NEW c, c.todo = Parts(names), c.answer = {}, c.scopes = {},
         c.ask.tool # "search_context"
  PROVE  OpenFits(d, c)
<1>1. /\ c.todo \in Seq(Queries) /\ OrderFits(c.todo) /\ DOMAIN c.todo = DOMAIN names
      /\ \A i \in DOMAIN names : c.todo[i] = Query(names[i], NoLink) /\ names[i] \in QueryParts
  BY PartsFit DEF NamesFit
<1>2. FactsShown(c) = {}
  BY DEF FactsShown
<1>3. ASSUME NEW i \in DOMAIN names PROVE QueryFits(c, c.todo[i])
  <2>1. c.todo[i].part = names[i] /\ c.todo[i].about = NoLink
        /\ names[i] \notin {"hits", "headline", "collect"}
    BY <1>1 DEF Query, QueryParts
  <2>2. ASSUME names[i] = "organization" PROVE Pending(c, Query("find", NoLink))
    BY <1>1, <2>2 DEF Pending
  <2> QED BY <1>2, <2>1, <2>2 DEF QueryFits
<1>4. ToDoFits(c)
  BY <1>1, <1>3 DEF ToDoFits
<1>5. IsFiniteSet(c.answer)
  BY FS_EmptySet
<1> QED BY <1>2, <1>4, <1>5 DEF OpenFits

\* Every call begins with a list of queries it may go through.
LEMMA PlanFits ==
  ASSUME NEW d, NEW c, c.ask \in Ask, c.todo = Plan(c.ask), c.answer = {}, c.scopes = {}
  PROVE  OpenFits(d, c)
<1> DEFINE tool == c.ask.tool
           id == c.ask.id
<1>1. tool \in Tools
  BY DEF Ask
<1>plan. /\ tool = "get_person" => c.todo = GetPerson
         /\ tool = "get_organization" => c.todo = GetOrganization
         /\ tool = "get_engagement" => c.todo = GetEngagement
         /\ tool = "get_glossary" => c.todo = GetGlossary(id)
         /\ tool = "resolve_speakers" => c.todo = ResolveSpeakers(id)
         /\ tool = "search_context" => c.todo = SearchContext
  BY DEF Plan
<1>2. CASE tool = "get_person"
  <2> DEFINE names == <<"find", "scopes", "organization", "engagements", "facts", "refs",
                        "interactions">>
  <2>1. c.todo = Parts(names) /\ NamesFit(names) /\ names[1] = "find" /\ 1 \in DOMAIN names
        /\ \A i \in DOMAIN names : names[i] # "collect"
    BY <1>2, <1>plan, HandlerNames DEF GetPerson
  <2> HIDE DEF names
  <2> QED BY <1>2, <2>1, HandlerFits
<1>3. CASE tool = "get_organization"
  <2> DEFINE names == <<"find", "scopes", "people", "engagements", "facts", "refs">>
  <2>1. c.todo = Parts(names) /\ NamesFit(names) /\ names[1] = "find" /\ 1 \in DOMAIN names
        /\ \A i \in DOMAIN names : names[i] # "collect"
    BY <1>3, <1>plan, HandlerNames DEF GetOrganization
  <2> HIDE DEF names
  <2> QED BY <1>3, <2>1, HandlerFits
<1>4. CASE tool = "get_engagement"
  <2> DEFINE names == <<"scopes", "find", "organization", "people", "facts", "refs", "glossary",
                        "interactions">>
  <2>1. c.todo = Parts(names) /\ NamesFit(names) /\ names[2] = "find" /\ 2 \in DOMAIN names
        /\ \A i \in DOMAIN names : names[i] # "collect"
    BY <1>4, <1>plan, HandlerNames DEF GetEngagement
  <2> HIDE DEF names
  <2> QED BY <1>4, <2>1, HandlerFits
<1>5. CASE tool = "get_glossary" /\ id = 0
  <2> DEFINE names == <<"scopes", "glossary">>
  <2>1. c.todo = Parts(names) /\ NamesFit(names)
        /\ \A i \in DOMAIN names : names[i] \notin {"collect", "organization"}
    BY <1>5, <1>plan, HandlerNames DEF GetGlossary
  <2> HIDE DEF names
  <2> QED BY <1>5, <2>1, HandlerFits
<1>6. CASE tool = "get_glossary" /\ id # 0
  <2> DEFINE names == <<"scopes", "find", "glossary", "people">>
  <2>1. c.todo = Parts(names) /\ NamesFit(names)
        /\ \A i \in DOMAIN names : names[i] \notin {"collect", "organization"}
    BY <1>6, <1>plan, HandlerNames DEF GetGlossary
  <2> HIDE DEF names
  <2> QED BY <1>6, <2>1, HandlerFits
<1>7. CASE tool = "resolve_speakers" /\ id = 0
  <2> DEFINE names == <<"speaker">>
  <2>1. c.todo = Parts(names) /\ NamesFit(names)
        /\ \A i \in DOMAIN names : names[i] \notin {"collect", "organization"}
    BY <1>7, <1>plan, HandlerNames DEF ResolveSpeakers
  <2> HIDE DEF names
  <2> QED BY <1>7, <2>1, HandlerFits
<1>8. CASE tool = "resolve_speakers" /\ id # 0
  <2> DEFINE names == <<"scopes", "find", "people", "speaker">>
  <2>1. c.todo = Parts(names) /\ NamesFit(names)
        /\ \A i \in DOMAIN names : names[i] \notin {"collect", "organization"}
    BY <1>8, <1>plan, HandlerNames DEF ResolveSpeakers
  <2> HIDE DEF names
  <2> QED BY <1>8, <2>1, HandlerFits
<1>9. CASE tool = "search_context"
  <2>1. /\ c.todo \in Seq(Queries) /\ OrderFits(c.todo)
        /\ \A i \in DOMAIN c.todo : SearchQuery(c.todo[i])
    BY <1>9, <1>plan, SearchContextFits
  <2>2. FactsShown(c) = {}
    BY DEF FactsShown
  <2>3. \A i \in DOMAIN c.todo : QueryFits(c, c.todo[i])
    BY <1>9, <2>1, <2>2 DEF SearchQuery, QueryFits
  <2>4. IsFiniteSet(c.answer)
    BY FS_EmptySet
  <2> QED BY <2>1, <2>2, <2>3, <2>4 DEF OpenFits, ToDoFits
<1> QED BY <1>1, <1>2, <1>3, <1>4, <1>5, <1>6, <1>7, <1>8, <1>9 DEF Tools

-----------------------------------------------------------------------------
(* The steps of a call *)

\* A query that is answered leaves the rest of the call as it was.
LEMMA ShowsFields ==
  ASSUME Shape(call), NEW taken, NEW more, NEW c, c = Shows(taken, more)
  PROVE  /\ Shape(c) /\ c.ask = call.ask /\ c.subject = call.subject
         /\ c.scopes = call.scopes /\ c.outcome = call.outcome /\ c.known = call.known
         /\ c.answer = call.answer \cup taken /\ c.todo = more \o Tail(call.todo)
  BY DEF Shape, Shows

\* A call that ends keeps its question and the people it knew.
LEMMA EndsWithFields ==
  ASSUME Shape(call), NEW outcome, NEW shown, NEW c, c = EndsWith(outcome, shown)
  PROVE  /\ Shape(c) /\ c.ask = call.ask /\ c.known = call.known
         /\ c.answer = shown /\ c.todo = <<>> /\ c.outcome = outcome
  BY DEF Shape, EndsWith

\* A call that ended with an error promises nothing more.
LEMMA EndedFits ==
  ASSUME Inv, call # None, NEW outcome, outcome # "ok", NEW shown, NEW c,
         c = EndsWith(outcome, shown)
  PROVE  CallInv(db, aliases, c) /\ c.outcome = outcome
<1>1. CallInv(db, aliases, call) /\ Shape(call)
  BY DEF Inv, CallInv
<1>2. /\ Shape(c) /\ c.ask = call.ask /\ c.known = call.known
      /\ c.todo = <<>> /\ c.outcome = outcome
  BY <1>1, EndsWithFields
<1> QED BY <1>1, <1>2 DEF CallInv

\* A call in the middle of its queries has all it relies on.
LEMMA InCallFits ==
  ASSUME Inv, call # None, call.todo # <<>>
  PROVE  /\ DbInv(db) /\ Named /\ Shape(call) /\ call.ask \in Ask /\ call.outcome = "ok"
         /\ OpenFits(db, call)
  BY DEF Inv, CallInv

\* One lemma for each action of ContextReads.
LEMMA InitInv ==
  ASSUME Init
  PROVE  Inv
<1>1. DbInv(db)
  BY SeedAssumption DEF Init, DbInv, ScopesFit, FactsHang
<1>2. Named
  <2>1. Seed["person"] \in Seq(Row)
    BY SeedAssumption DEF Database, TargetTypes, IdentityTypes
  <2>2. PICK n \in Nat : DOMAIN Seed["person"] = 1 .. n
    BY <2>1
  <2>3. \A p \in DOMAIN Seed["person"] : Forms({Seed["person"][p].text}) \in SUBSET Texts
    <3> SUFFICES ASSUME NEW p \in DOMAIN Seed["person"]
                 PROVE  Forms({Seed["person"][p].text}) \in SUBSET Texts
      OBVIOUS
    <3>1. {Seed["person"][p].text} \subseteq Texts
      BY SeedAssumption
    <3> QED BY <3>1, FormsType
  <2>4. aliases = [p \in 1 .. n |-> Forms({Seed["person"][p].text})]
    BY <2>2 DEF Init
  <2>5. aliases \in [1 .. n -> SUBSET Texts]
    BY <2>2, <2>3, <2>4
  <2>6. aliases \in Seq(SUBSET Texts)
    BY <2>5
  <2> QED BY <2>2, <2>4, <2>6 DEF Named, Init
<1>3. call = None
  BY DEF Init
<1> QED BY <1>1, <1>2, <1>3 DEF Inv, KnownNamesKeepTheirPeople

\* While the tables and the names stay as they are.
LEMMA QuietStep ==
  ASSUME Inv, UNCHANGED <<db, aliases>>, call' # None => CallInv(db, aliases, call'),
         call' # None =>
            call'.outcome \notin {"matched", "narrowed", "ambiguous", "unmatched"}
  PROVE  Inv'
<1>1. DbInv(db)' /\ Named'
  BY DEF Inv, Named
<1>2. (call # None => CallInv(db, aliases, call))'
  OBVIOUS
<1>3. KnownNamesKeepTheirPeople'
  BY DEF KnownNamesKeepTheirPeople
<1> QED BY <1>1, <1>2, <1>3 DEF Inv

LEMMA BeginKeeps ==
  ASSUME Inv, NEW ask \in Asks, Begin(ask)
  PROVE  Inv'
<1>1. PICK c : c = [ask |-> ask, subject |-> NoLink, scopes |-> {}, todo |-> Plan(ask),
                    answer |-> {}, outcome |-> "ok",
                    known |-> IF ask.tool = "resolve_speakers"
                              THEN Carriers(Normal[ask.name]) ELSE {}]
  OBVIOUS
<1>2. call' = c
  BY <1>1 DEF Begin
<1>3. /\ Shape(c) /\ c.ask = ask /\ c.todo = Plan(ask) /\ c.answer = {} /\ c.scopes = {}
      /\ c.outcome = "ok" /\ c.known \subseteq Carriers(Normal[ask.name])
  BY <1>1 DEF Shape
<1>4. ask \in Ask
  BY AsksAssumption
<1>5. OpenFits(db, c)
  BY <1>3, <1>4, PlanFits
<1>6. \A p \in c.known : p \in DOMAIN aliases /\ Normal[c.ask.name] \in aliases[p]
  BY <1>3 DEF Carriers
<1>7. CallInv(db, aliases, c)
  BY <1>3, <1>4, <1>5, <1>6 DEF CallInv
<1>8. UNCHANGED <<db, aliases>>
  BY DEF Begin
<1> QED BY <1>2, <1>3, <1>7, <1>8, QuietStep

LEMMA ResolveScopesKeeps ==
  ASSUME Inv, ResolveScopes
  PROVE  Inv'
<1>1. /\ call # None /\ call.todo # <<>> /\ Head(call.todo).part = "scopes"
      /\ UNCHANGED <<db, aliases>>
  BY DEF ResolveScopes, InCall
<1>2. /\ Shape(call) /\ call.ask \in Ask /\ call.outcome = "ok" /\ OpenFits(db, call)
      /\ CallInv(db, aliases, call)
  BY <1>1, InCallFits DEF Inv
<1>3. ASSUME NEW outcome \in {"scope_denied", "not_found"}, call' = EndsWith(outcome, {})
      PROVE  Inv'
  <2>1. CallInv(db, aliases, call') /\ call'.outcome = outcome
    BY <1>1, <1>3, EndedFits
  <2> QED BY <1>1, <2>1, QuietStep
<1>4. ASSUME call' = [Shows({}, <<>>) EXCEPT !.scopes = Resolved]
      PROVE  Inv'
  <2>1. PICK s : s = Shows({}, <<>>)
    OBVIOUS
  <2>2. /\ Shape(s) /\ s.ask = call.ask /\ s.subject = call.subject
        /\ s.outcome = "ok" /\ s.known = call.known
        /\ s.answer = call.answer \cup {} /\ s.todo = <<>> \o Tail(call.todo)
    <3>1. PICK more : more = <<>>
      OBVIOUS
    <3>2. PICK taken : taken = {}
      OBVIOUS
    <3>3. s = Shows(taken, more)
      BY <2>1, <3>1, <3>2
    <3>4. /\ Shape(s) /\ s.ask = call.ask /\ s.subject = call.subject
          /\ s.outcome = call.outcome /\ s.known = call.known
          /\ s.answer = call.answer \cup taken /\ s.todo = more \o Tail(call.todo)
      BY <1>2, <3>3, ShowsFields
    <3> QED BY <1>2, <3>1, <3>2, <3>4
  <2>3. PICK c : c = [s EXCEPT !.scopes = Resolved]
    OBVIOUS
  <2>4. /\ Shape(c) /\ c.ask = call.ask /\ c.subject = call.subject
        /\ c.outcome = "ok" /\ c.known = call.known
        /\ c.answer = call.answer /\ c.todo = <<>> \o Tail(call.todo)
    BY <2>2, <2>3 DEF Shape
  <2>5. OpenFits(db, c)
    BY <1>1, <1>2, <2>4, ScopesKeep
  <2>6. CallInv(db, aliases, c)
    BY <1>2, <2>4, <2>5 DEF CallInv
  <2>7. call' = c
    BY <1>4, <2>1, <2>3
  <2> QED BY <1>1, <2>4, <2>6, <2>7, QuietStep
<1> QED BY <1>3, <1>4 DEF ResolveScopes

LEMMA FindKeepsInv ==
  ASSUME Inv, Find
  PROVE  Inv'
<1> DEFINE taken == Taken(db, Head(call.todo), call)
<1>1. /\ call # None /\ call.todo # <<>> /\ Head(call.todo).part = "find"
      /\ UNCHANGED <<db, aliases>>
  BY DEF Find, InCall
<1>2. /\ DbInv(db) /\ Named
      /\ Shape(call) /\ call.ask \in Ask /\ call.outcome = "ok" /\ OpenFits(db, call)
      /\ CallInv(db, aliases, call)
  BY <1>1, InCallFits DEF Inv
<1>3. \/ call' = EndsWith("not_found", {})
      \/ \E e \in taken : taken = {e} /\ call' = [Shows(taken, <<>>) EXCEPT !.subject = LinkOf(e)]
      \/ call' = EndsWith("conflict", taken)
  BY DEF Find
<1>4. ASSUME NEW outcome \in {"conflict", "not_found"}, NEW shown, call' = EndsWith(outcome, shown)
      PROVE  Inv'
  <2>1. CallInv(db, aliases, call') /\ call'.outcome = outcome
    BY <1>1, <1>4, EndedFits
  <2> QED BY <1>1, <2>1, QuietStep
<1>5. ASSUME NEW e, taken = {e}, call' = [Shows(taken, <<>>) EXCEPT !.subject = LinkOf(e)]
      PROVE  Inv'
  <2>1. PICK s : s = Shows(taken, <<>>)
    OBVIOUS
  <2>2. /\ Shape(s) /\ s.ask = call.ask /\ s.scopes = call.scopes
        /\ s.outcome = "ok" /\ s.known = call.known
        /\ s.answer = call.answer \cup taken /\ s.todo = <<>> \o Tail(call.todo)
    <3> HIDE DEF taken
    <3>1. PICK more : more = <<>>
      OBVIOUS
    <3>2. s = Shows(taken, more)
      BY <2>1, <3>1
    <3>3. /\ Shape(s) /\ s.ask = call.ask /\ s.scopes = call.scopes
          /\ s.outcome = call.outcome /\ s.known = call.known
          /\ s.answer = call.answer \cup taken /\ s.todo = more \o Tail(call.todo)
      BY <1>2, <3>2, ShowsFields
    <3> QED BY <1>2, <3>1, <3>3
  <2>3. PICK c : c = [s EXCEPT !.subject = LinkOf(e)]
    OBVIOUS
  <2>4. /\ Shape(c) /\ c.ask = call.ask /\ c.scopes = call.scopes
        /\ c.outcome = "ok" /\ c.known = call.known
        /\ c.answer = call.answer \cup {e} /\ c.todo = <<>> \o Tail(call.todo)
    <3> HIDE DEF taken
    <3> QED BY <1>5, <2>2, <2>3 DEF Shape
  <2>5. OpenFits(db, c)
    BY <1>1, <1>2, <1>5, <2>4, FindKeeps
  <2>6. CallInv(db, aliases, c)
    BY <1>2, <2>4, <2>5 DEF CallInv
  <2>7. call' = c
    <3> HIDE DEF taken
    <3> QED BY <1>5, <2>1, <2>3
  <2> QED BY <1>1, <2>4, <2>6, <2>7, QuietStep
<1> HIDE DEF taken
<1> QED BY <1>3, <1>4, <1>5

LEMMA ReadKeepsInv ==
  ASSUME Inv, Read
  PROVE  Inv'
<1> DEFINE q == Head(call.todo)
           taken == Taken(db, q, call)
           more == FollowUps(q, call, taken)
<1>1. /\ call # None /\ call.todo # <<>> /\ Head(call.todo).part \notin {"scopes", "find"}
      /\ UNCHANGED <<db, aliases>> /\ call' = Shows(taken, more)
  BY DEF Read
<1>2. /\ DbInv(db) /\ Named
      /\ Shape(call) /\ call.ask \in Ask /\ call.outcome = "ok" /\ OpenFits(db, call)
      /\ CallInv(db, aliases, call)
  BY <1>1, InCallFits DEF Inv
<1>3. PICK c : c = Shows(taken, more)
  OBVIOUS
<1>4. /\ Shape(c) /\ c.ask = call.ask /\ c.subject = call.subject
      /\ c.scopes = call.scopes /\ c.outcome = "ok" /\ c.known = call.known
      /\ c.answer = call.answer \cup taken /\ c.todo = more \o Tail(call.todo)
  <2> HIDE DEF taken, more
  <2> QED BY <1>2, <1>3, ShowsFields
<1>5. OpenFits(db, c)
  BY <1>1, <1>2, <1>4, ReadKeeps
<1>6. CallInv(db, aliases, c)
  BY <1>2, <1>4, <1>5 DEF CallInv
<1>7. call' = c
  BY <1>1, <1>3
<1> HIDE DEF taken, more
<1> QED BY <1>1, <1>4, <1>6, <1>7, QuietStep

\* The only step that answers with people.
LEMMA SpeakerKeeps ==
  ASSUME Inv, Speaker
  PROVE  Inv'
<1> DEFINE carriers == Carriers(Normal[call.ask.name])
           members  == {e.id : e \in {x \in call.answer : x.part = "people"}}
           narrowed == carriers \cap members
           shown    == IF Cardinality(carriers) > 1 /\ Cardinality(narrowed) = 1
                       THEN narrowed ELSE carriers
           outcome  == CASE carriers = {}             -> "unmatched"
                         [] Cardinality(shown) > 1    -> "ambiguous"
                         [] shown # carriers          -> "narrowed"
                         [] OTHER                     -> "matched"
           people == {Entry(db, Head(call.todo), l) : l \in Rows("person", shown)}
<1>1. /\ call # None /\ call.todo # <<>> /\ Head(call.todo).part = "speaker"
      /\ UNCHANGED <<db, aliases>>
      /\ call' = EndsWith(outcome, call.answer \cup people)
  BY DEF Speaker, InCall
<1>2. Shape(call) /\ CallInv(db, aliases, call)
  BY <1>1, InCallFits DEF Inv
<1>3. call.known \subseteq carriers
  BY <1>2 DEF CallInv, Carriers
<1>4. \A e \in people : e.part = "speaker"
  BY <1>1 DEF Entry
<1>5. \A p \in shown : \E e \in people : e.id = p /\ e.part = "speaker"
  <2> SUFFICES ASSUME NEW p \in shown PROVE \E e \in people : e.id = p /\ e.part = "speaker"
    OBVIOUS
  <2>1. PICK l : l = [type |-> "person", id |-> p]
    OBVIOUS
  <2>2. l \in Rows("person", shown) /\ l.id = p
    BY <2>1 DEF Rows
  <2>3. Entry(db, Head(call.todo), l).id = p
    BY <2>2 DEF Entry
  <2> HIDE DEF shown
  <2> QED BY <1>4, <2>2, <2>3
<1>6. /\ outcome = "unmatched" => carriers = {}
      /\ outcome \in {"ambiguous", "matched"} => shown = carriers
      /\ outcome = "narrowed" => shown = narrowed
      /\ outcome \in {"matched", "narrowed", "ambiguous", "unmatched"}
  <2>1. shown = carriers \/ (shown = narrowed /\ Cardinality(shown) = 1)
    OBVIOUS
  <2>2. shown = narrowed \/ shown = carriers
    BY <2>1
  <2>3. Cardinality(shown) > 1 => shown = carriers
    BY <2>1
  <2> HIDE DEF shown, carriers, narrowed
  <2>4. CASE carriers = {}
    BY <2>2, <2>4
  <2>5. CASE carriers # {} /\ Cardinality(shown) > 1
    BY <2>3, <2>5
  <2>6. CASE carriers # {} /\ ~ (Cardinality(shown) > 1) /\ shown # carriers
    BY <2>2, <2>6
  <2>7. CASE carriers # {} /\ ~ (Cardinality(shown) > 1) /\ shown = carriers
    BY <2>7
  <2> QED BY <2>4, <2>5, <2>6, <2>7
<1> HIDE DEF people, outcome, shown
<1>7. PICK c : c = EndsWith(outcome, call.answer \cup people)
  OBVIOUS
<1>8. /\ call' = c /\ c.outcome = outcome /\ CallInv(db, aliases, c) /\ c.known = call.known
      /\ c.answer = call.answer \cup people
  <2>1. outcome # "ok"
    BY <1>6
  <2> QED BY <1>1, <1>2, <1>7, <2>1, EndedFits, EndsWithFields
<1> DEFINE of(part) == {e.id : e \in {x \in c.answer : x.part = part}}
<1>9. shown \subseteq of("speaker")
  BY <1>5, <1>8
<1>10. of("people") \subseteq members
  BY <1>4, <1>8
<1>11. IF c.outcome = "narrowed" THEN c.known \cap of("people") \subseteq of("speaker")
                                 ELSE c.known \subseteq of("speaker")
  <2> HIDE DEF of, members, carriers
  <2>1. CASE outcome = "narrowed"
    BY <1>3, <1>6, <1>8, <1>9, <1>10, <2>1
  <2>2. CASE outcome # "narrowed"
    BY <1>3, <1>6, <1>8, <1>9, <2>2
  <2> QED BY <2>1, <2>2
<1>12. KnownNamesKeepTheirPeople'
  BY <1>8, <1>11 DEF KnownNamesKeepTheirPeople
<1>13. DbInv(db)' /\ Named'
  BY <1>1 DEF Inv, Named
<1>14. (call # None => CallInv(db, aliases, call))'
  BY <1>1, <1>8
<1> QED BY <1>12, <1>13, <1>14 DEF Inv

LEMMA ApproveKeeps ==
  ASSUME Inv, NEW a \in Approvals, Approve(a)
  PROVE  Inv'
<1>1. /\ DbInv(db)' /\ Grows(db, db') /\ Named'
      /\ \A p \in DOMAIN aliases : p \in DOMAIN aliases' /\ aliases[p] \subseteq aliases'[p]
      /\ call' = call
  BY ApproveGrows DEF Inv
<1>2. DbInv(db) /\ DbInv(db')
  BY <1>1 DEF Inv
<1>3. (call # None => CallInv(db, aliases, call))'
  <2> SUFFICES ASSUME call # None PROVE CallInv(db', aliases', call)
    BY <1>1
  <2>1. CallInv(db, aliases, call)
    BY DEF Inv
  <2> QED BY <1>1, <1>2, <2>1, CallKept
<1>4. KnownNamesKeepTheirPeople'
  BY <1>1 DEF Inv, KnownNamesKeepTheirPeople
<1> QED BY <1>1, <1>3, <1>4 DEF Inv

LEMMA NextInv ==
  ASSUME Inv, [Next]_vars
  PROVE  Inv'
<1>1. CASE \E a \in Approvals : Approve(a)
  BY <1>1, ApproveKeeps
<1>2. CASE \E ask \in Asks : Begin(ask)
  BY <1>2, BeginKeeps
<1>3. CASE ResolveScopes
  BY <1>3, ResolveScopesKeeps
<1>4. CASE Find
  BY <1>4, FindKeepsInv
<1>5. CASE Read
  BY <1>5, ReadKeepsInv
<1>6. CASE Speaker
  BY <1>6, SpeakerKeeps
<1>7. CASE Answered
  <2>1. UNCHANGED <<db, aliases>> /\ call' = None
    BY <1>7 DEF Answered
  <2> QED BY <2>1, QuietStep
<1>8. CASE UNCHANGED vars
  <2>1. db' = db /\ aliases' = aliases /\ call' = call
    BY <1>8 DEF vars
  <2>2. DbInv(db)' /\ Named' /\ (call # None => CallInv(db, aliases, call))'
    BY <2>1 DEF Inv, Named
  <2>3. KnownNamesKeepTheirPeople'
    BY <2>1 DEF Inv, KnownNamesKeepTheirPeople
  <2> QED BY <2>2, <2>3 DEF Inv
<1> QED BY <1>1, <1>2, <1>3, <1>4, <1>5, <1>6, <1>7, <1>8 DEF Next

-----------------------------------------------------------------------------
(* Theorems *)

\* Whatever the tables hold at the start, whatever is asked and approved: the links and
\* scopes of the tables, the names of the people and the call in progress fit together.
THEOREM ReadsInvariant == Spec => []Inv
<1>1. Init => Inv
  BY InitInv
<1>2. Inv /\ [Next]_vars => Inv'
  BY NextInv
<1> QED BY <1>1, <1>2, PTL DEF Spec

\* No query of any tool depends on anything that rows outside the caller's scopes hold.
THEOREM AnswersIgnoreUnseen == Spec => []UnseenLeavesNoTrace
<1>1. Inv => UnseenLeavesNoTrace
  BY InCallFits, TakenAlike DEF UnseenLeavesNoTrace
<1> QED BY <1>1, ReadsInvariant, PTL

\* Every fact an answer shows comes with the refs it had when it was read, and never
\* beside the fact that replaced it.
THEOREM AnswersShowFactsWhole == Spec => []FactsAreShownWhole
<1>1. Inv => FactsAreShownWhole
  <2> SUFFICES ASSUME Inv, Finished, NEW e \in FactsShown(call)
               PROVE  /\ \A r \in 1 .. e.refs :
                            db["ref"][r].parent = LinkOf(e) =>
                                \E s \in call.answer : s.part = "refs" /\ s.id = r
                      /\ \A f \in FactsShown(call) : db["fact"][e.id].superseded_by # f.id
    BY DEF FactsAreShownWhole
  <2>1. call # None /\ call.todo = <<>> /\ call.outcome = "ok"
    BY DEF Finished
  <2>2. FactFits(db, call, e)
    BY <2>1 DEF Inv, CallInv, OpenFits
  <2>3. \A x : ~ Pending(call, x)
    BY <2>1 DEF Pending
  <2> QED BY <2>2, <2>3 DEF FactFits, RefsFollow
<1> QED BY <1>1, ReadsInvariant, PTL

\* The people a display name belonged to when the call began are in its answer.
THEOREM SpeakersAreKept == Spec => []KnownNamesKeepTheirPeople
<1>1. Inv => KnownNamesKeepTheirPeople
  BY DEF Inv
<1> QED BY <1>1, ReadsInvariant, PTL
=============================================================================
