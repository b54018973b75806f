---------------------------- MODULE KnowledgeBase ----------------------------
(***************************************************************************)
(* The tables of gaia-library's memory and what one storage call does to    *)
(* them.  A table is a sequence of rows: SQLite hands out the ids 1, 2, ... *)
(* and no statement of the program deletes a row of these tables, so the    *)
(* id of a row is its position.                                             *)
(*                                                                         *)
(* The eight tables share one row shape.  "parent" is the single row that a *)
(* row hangs from (a person's or an engagement's organization, an           *)
(* interaction's or a term's engagement, the entity of a fact, the target   *)
(* of a ref); "people" are the person links of an engagement or an          *)
(* interaction, which only ever accumulate; "text" stands for the required  *)
(* text columns of the table taken together (name; kind, occurred_at and    *)
(* summary; statement; system, uri and note; term) and for every optional   *)
(* column that is merged the same way.  The aliases of a person are not     *)
(* kept here.                                                               *)
(***************************************************************************)
EXTENDS Naturals, Sequences

CONSTANTS
    Scopes,             \* affiliation names: the confidentiality boundaries
    Shared,             \* the scope of identity rows, which have none
    Texts,              \* non-blank text content
    BadDates,           \* texts whose occurred_at is not a SQLite date
    Values,             \* non-blank predicate values
    KnownPredicates,    \* the predicate registry
    OtherPredicates,    \* any other predicate a caller may send
    None,               \* an absent optional field
    Blank               \* a field that is present and only white space

ASSUME VocabularyAssumption ==
    /\ Shared \notin Scopes
    /\ None # Blank
    /\ {None, Blank} \cap (Texts \cup Values) = {}
    /\ {None, Blank} \cap (KnownPredicates \cup OtherPredicates) = {}
    /\ KnownPredicates \cap OtherPredicates = {}
    /\ BadDates \subseteq Texts

IdentityTypes == {"person", "organization", "entity"}
ContentTypes  == {"engagement", "interaction", "fact", "ref", "glossary"}
TargetTypes   == IdentityTypes \cup ContentTypes

NoLink == [type |-> "none", id |-> 0]
Link   == {NoLink} \cup [type : TargetTypes, id : Nat]

\* The tables a row's parent may live in; the empty set: no such column.
ParentTypes ==
    [person       |-> {"organization"},
     organization |-> {},
     entity       |-> {},
     engagement   |-> {"organization"},
     interaction  |-> {"engagement"},
     fact         |-> IdentityTypes \cup {"engagement", "interaction"},
     ref          |-> IdentityTypes \cup {"engagement", "interaction", "fact"},
     glossary     |-> {"engagement"}]

PeopleTypes == {"engagement", "interaction"}

Predicates == KnownPredicates \cup OtherPredicates

Patch ==
    [parent    : Link,
     people    : SUBSET Nat,
     predicate : Predicates \cup {None},
     value     : Values \cup {None, Blank},
     text      : Texts \cup {None, Blank}]

EmptyPatch ==
    [parent |-> NoLink, people |-> {}, predicate |-> None, value |-> None, text |-> None]

\* The columns that exist in the patch of each table.
WellShaped(t, patch) ==
    /\ patch.parent # NoLink => patch.parent.type \in ParentTypes[t]
    /\ patch.people # {} => t \in PeopleTypes
    /\ (patch.predicate # None \/ patch.value # None) => t = "fact"

\* superseded_by is 0 in every row but a historical fact.
Row ==
    [scope         : Scopes \cup {Shared},
     parent        : Link,
     people        : SUBSET Nat,
     predicate     : Predicates \cup {None},
     value         : Values \cup {None, Blank},
     text          : Texts \cup {None, Blank},
     superseded_by : Nat]

Database == [TargetTypes -> Seq(Row)]

-----------------------------------------------------------------------------
(* Existence.  A content row of another scope does not exist for the caller. *)

RowVisible(d, t, id, scopes) ==
    /\ id \in DOMAIN d[t]
    /\ t \in ContentTypes => d[t][id].scope \in scopes

LinksExist_AnyScope(d, patch, scope) ==
    /\ patch.parent # NoLink => patch.parent.id \in DOMAIN d[patch.parent.type]
    /\ patch.people \subseteq DOMAIN d["person"]

LinksExist(d, patch, scope) ==
    /\ patch.parent # NoLink =>
           RowVisible(d, patch.parent.type, patch.parent.id, {scope})
    /\ \A p \in patch.people : RowVisible(d, "person", p, {scope})

DateParses(t, patch) == t = "interaction" => patch.text \notin BadDates

-----------------------------------------------------------------------------
(* The predicate registry. *)

\* What a fact may carry once it is in the table.
PairAllowed(predicate, value) ==
    IF predicate = None
    THEN value = None
    ELSE predicate \in KnownPredicates /\ value \notin {None, Blank}

\* What a partial update may carry before it meets the row it updates.
UpdatePairAllowed(predicate, value) ==
    /\ predicate \in KnownPredicates \cup {None}
    /\ value # Blank

-----------------------------------------------------------------------------
(* Inserting a row. *)

NewRow(t, patch, scope) ==
    [scope         |-> IF t \in ContentTypes THEN scope ELSE Shared,
     parent        |-> patch.parent,
     people        |-> patch.people,
     predicate     |-> patch.predicate,
     value         |-> patch.value,
     text          |-> patch.text,
     superseded_by |-> 0]

CanInsert(d, t, patch, scope) == LinksExist(d, patch, scope) /\ DateParses(t, patch)

Insert(d, t, patch, scope) == [d EXCEPT ![t] = Append(@, NewRow(t, patch, scope))]

-----------------------------------------------------------------------------
(* Updating a row: every column is COALESCE(patch, row), links accumulate. *)

Coalesce(new, old, absent) == IF new = absent THEN old ELSE new

Merged(row, patch) ==
    [scope         |-> row.scope,
     parent        |-> Coalesce(patch.parent, row.parent, NoLink),
     people        |-> row.people \cup patch.people,
     predicate     |-> Coalesce(patch.predicate, row.predicate, None),
     value         |-> Coalesce(patch.value, row.value, None),
     text          |-> Coalesce(patch.text, row.text, None),
     superseded_by |-> row.superseded_by]

CanUpdate_Historical(d, t, id, patch, scope) ==
    /\ RowVisible(d, t, id, {scope})
    /\ t \in {"fact", "ref"} => patch.parent = NoLink
    /\ LinksExist(d, patch, scope) /\ DateParses(t, patch)
    /\ t = "fact" => PairAllowed(Merged(d[t][id], patch).predicate,
                                 Merged(d[t][id], patch).value)

CanUpdate_PatchPairOnly(d, t, id, patch, scope) ==
    /\ RowVisible(d, t, id, {scope})
    /\ t \in {"fact", "ref"} => patch.parent = NoLink
    /\ LinksExist(d, patch, scope) /\ DateParses(t, patch)
    /\ t = "fact" => d[t][id].superseded_by = 0

CanUpdate(d, t, id, patch, scope) ==
    /\ RowVisible(d, t, id, {scope})
    /\ t \in {"fact", "ref"} => patch.parent = NoLink
    /\ LinksExist(d, patch, scope) /\ DateParses(t, patch)
    /\ t = "fact" => /\ d[t][id].superseded_by = 0
                     /\ PairAllowed(Merged(d[t][id], patch).predicate,
                                    Merged(d[t][id], patch).value)

Update(d, t, id, patch) == [d EXCEPT ![t][id] = Merged(@, patch)]

-----------------------------------------------------------------------------
(* Superseding a fact: the new row is inserted, then the old one linked to it. *)

CanSupersede_AnyEntity(d, id, patch, scope) ==
    /\ RowVisible(d, "fact", id, {scope})
    /\ d["fact"][id].superseded_by = 0
    /\ CanInsert(d, "fact", patch, scope)

CanSupersede(d, id, patch, scope) ==
    /\ RowVisible(d, "fact", id, {scope})
    /\ d["fact"][id].superseded_by = 0
    /\ patch.parent = d["fact"][id].parent
    /\ CanInsert(d, "fact", patch, scope)

Supersede(d, id, patch, scope) ==
    LET inserted == Insert(d, "fact", patch, scope)
    IN  [inserted EXCEPT !["fact"][id].superseded_by = Len(inserted["fact"])]

-----------------------------------------------------------------------------
(* What the tables must satisfy, as predicates on a database. *)

\* Each current fact carries a pair the registry allows.
PairsAllowed(d) ==
    \A i \in DOMAIN d["fact"] : PairAllowed(d["fact"][i].predicate, d["fact"][i].value)

\* A fact is replaced by a newer fact about the same entity in the same scope,
\* and no fact replaces two others: the versions of a statement form one line.
Linear(d) ==
    \A i \in DOMAIN d["fact"] :
        LET next == d["fact"][i].superseded_by
        IN  next # 0 =>
              /\ next \in DOMAIN d["fact"] /\ i < next
              /\ d["fact"][next].scope = d["fact"][i].scope
              /\ d["fact"][next].parent = d["fact"][i].parent
              /\ \A j \in DOMAIN d["fact"] : d["fact"][j].superseded_by = next => j = i

\* A superseded fact is never written again.
KeepsHistory(d, e) ==
    \A i \in DOMAIN d["fact"] :
        d["fact"][i].superseded_by # 0 =>
            i \in DOMAIN e["fact"] /\ e["fact"][i] = d["fact"][i]

LinksOf(d, row) ==
    /\ row.parent # NoLink => RowVisible(d, row.parent.type, row.parent.id, {row.scope})
    /\ \A p \in row.people : p \in DOMAIN d["person"]

\* Every link leads to a row that exists, and a content row links only to
\* shared rows and to content rows of its own scope.
LinksContained(d) == \A t \in TargetTypes : \A i \in DOMAIN d[t] : LinksOf(d, d[t][i])
=============================================================================
