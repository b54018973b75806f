------------------------------ MODULE ContextReads ------------------------------
(***************************************************************************)
(* The tools that read gaia-library's memory, while approvals change it.    *)
(*                                                                         *)
(* A read tool holds the connection of its own process for the whole call,  *)
(* but no transaction: each SELECT sees what is committed when it runs, and *)
(* approvals of other processes commit between two of them.  A call is      *)
(* therefore a list of queries, taken in the order of its handler, and the  *)
(* answer grows as they run.                                                *)
(*                                                                         *)
(* A SELECT that fills one list of the answer is one step, with the small   *)
(* selects that complete its rows (the people of an interaction, the        *)
(* aliases of a person).  A search matches a needle with equal texts;       *)
(* ranking, the `types` filter, the cut to `limit` entities and the         *)
(* partial matches that resolve_speakers offers for an unknown name are     *)
(* left out, so a modelled answer holds at least what the code's holds.     *)
(***************************************************************************)
EXTENDS KnowledgeBase, SequencesExt

CONSTANTS
    Affiliations,   \* the registered scopes
    DefaultScope,   \* the caller's: {} or one of Scopes
    Normal,         \* normalize_name: Texts -> Texts \cup {Blank}
    FactLimit,      \* the limit of facts::for_entity
    Seed,           \* the tables at the start
    Approvals,      \* what reviewers may approve meanwhile
    MaxApprovals,   \* bound: approvals in a behaviour
    Asks            \* the calls considered

Tools == {"get_person", "get_organization", "get_engagement", "get_glossary",
          "resolve_speakers", "search_context"}

\* One approved proposal; source: the text of its inline provenance, or None.
Approval ==
    [scope : Scopes, target_type : TargetTypes, action : {"insert", "update", "supersede"},
     target_id : Nat, patch : Patch, aliases : SUBSET Texts, source : Texts \cup {None}]

\* What a client asks: a row by id, or by name when id is 0; a display name; a needle.
Ask == [tool : Tools, id : Nat, name : Texts \cup {None}, requested : SUBSET Scopes]

\* Only what propose_update accepts comes to an approval (Valid and
\* ProvenanceAcceptable of ProposalQueue).
ASSUME ApprovalsAssumption ==
    /\ Approvals \subseteq Approval
    /\ \A a \in Approvals :
          /\ a.action = "supersede" => a.target_type = "fact"
          /\ WellShaped(a.target_type, a.patch) /\ a.patch.text # Blank
          /\ a.target_type \in {"fact", "ref"} /\ a.action # "update" =>
                a.patch.parent # NoLink
          /\ a.source # None => a.target_type \notin {"ref", "glossary"}

ASSUME SeedAssumption ==
    /\ Seed \in Database
    /\ Linear(Seed) /\ LinksContained(Seed)
    /\ \A t \in TargetTypes : \A i \in DOMAIN Seed[t] :
          IF t \in IdentityTypes THEN Seed[t][i].scope = Shared ELSE Seed[t][i].scope \in Scopes
    /\ \A i \in DOMAIN Seed["fact"] : Seed["fact"][i].parent.type \in ParentTypes["fact"]
    /\ \A i \in DOMAIN Seed["person"] : Seed["person"][i].text \in Texts

ASSUME AsksAssumption ==
    /\ Asks \subseteq Ask
    /\ DefaultScope \subseteq Scopes /\ FactLimit \in Nat
    /\ Normal \in [Texts -> Texts \cup {Blank}]

VARIABLES
    db,         \* the tables
    aliases,    \* person_aliases: for each person the names it is found under
    approved,   \* how many approvals have been committed
    audit,      \* cross_scope_read entries: tool and scopes
    call        \* the call in progress, None between calls

vars == <<db, aliases, approved, audit, call>>

Query(part, about) == [part |-> part, about |-> about]

-----------------------------------------------------------------------------
(* person_aliases *)

Forms(names) == names \cup ({Normal[n] : n \in names} \ {Blank})

\* The name and the aliases of a person's patch are added to those it had.
AliasesAfter_Replaced(a, id) ==
    LET given == Forms(a.aliases \cup ({a.patch.text} \ {None}))
    IN  IF id \in DOMAIN aliases THEN [aliases EXCEPT ![id] = given]
                                 ELSE Append(aliases, given)

AliasesAfter(a, id) ==
    LET given == Forms(a.aliases \cup ({a.patch.text} \ {None}))
    IN  IF id \in DOMAIN aliases THEN [aliases EXCEPT ![id] = @ \cup given]
                                 ELSE Append(aliases, given)

Carriers(name) == {p \in DOMAIN aliases : name \in aliases[p]}

\* find_by_name: the name as given, or its normalized form.
CalledBy(name) == Carriers(name) \cup Carriers(Normal[name])

Init ==
    /\ db = Seed
    /\ aliases = [p \in DOMAIN Seed["person"] |-> Forms({Seed["person"][p].text})]
    /\ approved = 0
    /\ audit = {}
    /\ call = None

-----------------------------------------------------------------------------
(* Approvals, each one transaction: the row, and the ref its source becomes. *)

WithSource(d, a, id) ==
    IF a.source = None THEN d
    ELSE Insert(d, "ref", [EmptyPatch EXCEPT !.parent = [type |-> a.target_type, id |-> id],
                                             !.text = a.source], a.scope)

Commit(d, a, id) ==
    /\ approved < MaxApprovals
    /\ approved' = approved + 1
    /\ db' = WithSource(d, a, id)
    /\ aliases' = IF a.target_type = "person" THEN AliasesAfter(a, id) ELSE aliases
    /\ UNCHANGED <<audit, call>>

Approve(a) ==
    \/ /\ a.action = "insert"
       /\ CanInsert(db, a.target_type, a.patch, a.scope)
       /\ Commit(Insert(db, a.target_type, a.patch, a.scope), a, Len(db[a.target_type]) + 1)
    \/ /\ a.action = "update"
       /\ CanUpdate(db, a.target_type, a.target_id, a.patch, a.scope)
       /\ Commit(Update(db, a.target_type, a.target_id, a.patch), a, a.target_id)
    \/ /\ a.action = "supersede"
       /\ CanSupersede(db, a.target_id, a.patch, a.scope)
       /\ Commit(Supersede(db, a.target_id, a.patch, a.scope), a, Len(db["fact"]) + 1)

-----------------------------------------------------------------------------
(* The SELECTs, as the rows they return from the tables d under the scopes S. *)

Rows(t, ids) == [type : {t}, id : ids]

\* scope IN (...): identity rows have no scope and are open to every caller.
Seen(d, t, S) == {i \in DOMAIN d[t] : d[t][i].scope \in S \cup {Shared}}

Hanging(d, t, about, S) == {i \in Seen(d, t, S) : d[t][i].parent = about}

Joining(d, t, person, S) == {i \in Seen(d, t, S) : person \in d[t][i].people}

Newest(ids, n) == {i \in ids : Cardinality({j \in ids : j > i}) < n}

FactsAbout_WithHistory(d, about, S) == Newest(Hanging(d, "fact", about, S), FactLimit)

\* for_entity: the current facts about an entity.
FactsAbout(d, about, S) ==
    Newest({i \in Hanging(d, "fact", about, S) : d["fact"][i].superseded_by = 0}, FactLimit)

\* for_person, for_org
EngagementsOf(d, about, S) ==
    IF about.type = "person" THEN Joining(d, "engagement", about.id, S)
                             ELSE Hanging(d, "engagement", about, S)

\* members, member_ids, list_by_org
PeopleOf(d, about, S) ==
    IF about.type = "engagement"
    THEN UNION {d["engagement"][i].people : i \in {about.id} \cap Seen(d, "engagement", S)}
    ELSE Hanging(d, "person", about, S)

InteractionsOf_OfEngagement(d, about, S) ==
    IF about.type = "person" THEN {i \in DOMAIN d["interaction"] : about.id \in d["interaction"][i].people}
    ELSE Hanging(d, "interaction", about, S)

\* recent_for_person, recent_for_engagement
InteractionsOf(d, about, S) ==
    IF about.type = "person" THEN Joining(d, "interaction", about.id, S)
    ELSE {i \in Hanging(d, "interaction", about, S) :
              /\ about.id \in Seen(d, "engagement", S)
              /\ d["interaction"][i].scope = d["engagement"][about.id].scope}

\* glossary::list, of an engagement or of everything in scope
TermsOf(d, about, S) ==
    IF about = NoLink THEN Seen(d, "glossary", S) ELSE Hanging(d, "glossary", about, S)

\* find_by_name, search_like and facts::search
Matching(d, t, needle, S) ==
    {i \in Seen(d, t, S) : d[t][i].text = needle /\ d[t][i].superseded_by = 0}

SubjectType ==
    [get_person |-> "person", get_organization |-> "organization",
     get_engagement |-> "engagement", get_glossary |-> "engagement",
     resolve_speakers |-> "engagement"]

Found(d, c) ==
    LET t == SubjectType[c.ask.tool]
    IN  CASE c.ask.id # 0   -> {c.ask.id} \cap Seen(d, t, c.scopes)
          [] t = "person"   -> CalledBy(c.ask.name)
          [] OTHER          -> Matching(d, t, c.ask.name, c.scopes)

SubjectRow(c) == (CHOOSE e \in c.answer : e.part = "find").row

Selected(d, q, c) ==
    LET about == IF q.about = NoLink THEN c.subject ELSE q.about
    IN  CASE q.part = "find"         -> Rows(SubjectType[c.ask.tool], Found(d, c))
          [] q.part = "organization" -> {SubjectRow(c).parent} \ {NoLink}
          [] q.part = "engagements"  -> Rows("engagement", EngagementsOf(d, about, c.scopes))
          [] q.part = "people"       -> Rows("person", PeopleOf(d, about, c.scopes))
          [] q.part = "facts"        -> Rows("fact", FactsAbout(d, about, c.scopes))
          [] q.part = "refs"         -> Rows("ref", Hanging(d, "ref", about, c.scopes))
          [] q.part = "interactions" -> Rows("interaction", InteractionsOf(d, about, c.scopes))
          [] q.part = "glossary"     -> Rows("glossary", TermsOf(d, about, c.scopes))
          [] q.part = "person_hits"  -> Rows("person", CalledBy(c.ask.name))
          [] q.part = "fact_hits"    -> Rows("fact", Matching(d, "fact", c.ask.name, c.scopes))
          [] q.part = "hits"         -> Rows(about.type,
                                             Matching(d, about.type, c.ask.name, c.scopes))
          [] q.part = "headline"     -> {l \in {q.about} : l.id \in Seen(d, l.type, c.scopes)}
          [] OTHER                   -> {}

\* A row of the answer; refs counts the refs there were when the row was read.
Entry(d, q, l) ==
    [part |-> q.part, about |-> q.about, type |-> l.type, id |-> l.id,
     row |-> d[l.type][l.id], refs |-> Len(d["ref"])]

Taken(d, q, c) == {Entry(d, q, l) : l \in Selected(d, q, c)}

-----------------------------------------------------------------------------
(* The handlers: the queries of each tool in the order of its code. *)

Parts(names) == [i \in DOMAIN names |-> Query(names[i], NoLink)]

Searches(tables) == [i \in DOMAIN tables |-> Query("hits", [type |-> tables[i], id |-> 0])]

GetPerson ==
    Parts(<<"find", "scopes", "organization", "engagements", "facts", "refs", "interactions">>)

GetOrganization == Parts(<<"find", "scopes", "people", "engagements", "facts", "refs">>)

GetEngagement ==
    Parts(<<"scopes", "find", "organization", "people", "facts", "refs", "glossary",
            "interactions">>)

\* Without an engagement there is none to find.
GetGlossary(id) ==
    IF id = 0 THEN Parts(<<"scopes", "glossary">>)
              ELSE Parts(<<"scopes", "find", "glossary", "people">>)

\* People are shared: only the members of an engagement need a scope.
ResolveSpeakers(id) ==
    IF id = 0 THEN Parts(<<"speaker">>) ELSE Parts(<<"scopes", "find", "people", "speaker">>)

SearchContext ==
    Parts(<<"scopes", "person_hits">>) \o Searches(<<"organization", "engagement", "entity">>)
        \o Parts(<<"fact_hits", "collect">>) \o Searches(<<"glossary", "interaction">>)

Plan(ask) ==
    [get_person |-> GetPerson, get_organization |-> GetOrganization,
     get_engagement |-> GetEngagement, get_glossary |-> GetGlossary(ask.id),
     resolve_speakers |-> ResolveSpeakers(ask.id), search_context |-> SearchContext][ask.tool]

LinkOf(e) == [type |-> e.type, id |-> e.id]

FactsShown(c) == {e \in c.answer : e.part = "facts"}

\* The queries a query gives rise to: the headline of the entity of each fact found; the
\* facts of each hit, then its refs; the refs of each fact listed, after its entity's own.
FollowUps(q, c, taken) ==
    LET hits == {LinkOf(e) : e \in {h \in c.answer : h.part \in {"person_hits", "hits", "headline"}}}
    IN  CASE q.part = "fact_hits" ->
               SetToSeq({Query("headline", e.row.parent) : e \in taken})
          [] q.part = "collect" -> SetToSeq({Query("facts", h) : h \in hits})
          [] q.part = "facts" /\ q.about # NoLink -> <<Query("refs", q.about)>>
          [] q.part = "refs" /\ q.about.type # "fact" ->
               SetToSeq({Query("refs", LinkOf(e)) : e \in {f \in FactsShown(c) : f.about = q.about}})
          [] OTHER -> <<>>

\* known: who carried the display name when the call began.
Begin(ask) ==
    /\ call = None
    /\ call' = [ask |-> ask, subject |-> NoLink, scopes |-> {}, todo |-> Plan(ask),
                answer |-> {}, outcome |-> "ok",
                known |-> IF ask.tool = "resolve_speakers"
                          THEN Carriers(Normal[ask.name]) ELSE {}]
    /\ UNCHANGED <<db, aliases, approved, audit>>

InCall(part) == call # None /\ call.todo # <<>> /\ Head(call.todo).part = part

\* The rows are added to the answer and the queries they give rise to come next.
Shows(taken, more) ==
    [call EXCEPT !.answer = @ \cup taken, !.todo = more \o Tail(@)]

EndsWith(outcome, shown) ==
    [call EXCEPT !.answer = shown, !.todo = <<>>, !.outcome = outcome]

Resolved == IF call.ask.requested = {} THEN DefaultScope ELSE call.ask.requested

\* ScopeSet::resolve and audit_cross_read, whose entry is committed before the next query.
ResolveScopes ==
    /\ InCall("scopes")
    /\ \/ /\ Resolved = {}
          /\ call' = EndsWith("scope_denied", {}) /\ UNCHANGED audit
       \/ /\ ~ (Resolved \subseteq Affiliations)
          /\ call' = EndsWith("not_found", {}) /\ UNCHANGED audit
       \/ /\ Resolved # {} /\ Resolved \subseteq Affiliations
          /\ call' = [Shows({}, <<>>) EXCEPT !.scopes = Resolved]
          /\ audit' = IF Cardinality(Resolved) > 1
                      THEN audit \cup {<<call.ask.tool, Resolved>>} ELSE audit
    /\ UNCHANGED <<db, aliases, approved>>

\* A name that several rows carry is answered with the rows to choose from.
Find ==
    /\ InCall("find")
    /\ LET taken == Taken(db, Head(call.todo), call)
       IN  \/ /\ taken = {}
              /\ call' = EndsWith("not_found", {})
           \/ \E e \in taken :
                 /\ taken = {e}
                 /\ call' = [Shows(taken, <<>>) EXCEPT !.subject = LinkOf(e)]
           \/ /\ Cardinality(taken) > 1
              /\ call' = EndsWith("conflict", taken)
    /\ UNCHANGED <<db, aliases, approved, audit>>

Read ==
    /\ call # None /\ call.todo # <<>>
    /\ Head(call.todo).part \notin {"scopes", "find", "speaker"}
    /\ LET q     == Head(call.todo)
           taken == Taken(db, q, call)
       IN  call' = Shows(taken, FollowUps(q, call, taken))
    /\ UNCHANGED <<db, aliases, approved, audit>>

\* resolve_one: the only carrier of the name; else the only one of them who is a member
\* of the engagement; else all of them to choose from.
Speaker ==
    /\ InCall("speaker")
    /\ LET carriers == Carriers(Normal[call.ask.name])
           members  == {e.id : e \in {x \in call.answer : x.part = "people"}}
           narrowed == carriers \cap members
           shown    == IF Cardinality(carriers) > 1 /\ Cardinality(narrowed) = 1
                       THEN narrowed ELSE carriers
       IN  call' = EndsWith(
                     CASE carriers = {}             -> "unmatched"
                       [] Cardinality(shown) > 1    -> "ambiguous"
                       [] shown # carriers          -> "narrowed"
                       [] OTHER                     -> "matched",
                     call.answer
                         \cup {Entry(db, Head(call.todo), l) : l \in Rows("person", shown)})
    /\ UNCHANGED <<db, aliases, approved, audit>>

Answered ==
    /\ call # None /\ call.todo = <<>>
    /\ call' = None
    /\ UNCHANGED <<db, aliases, approved, audit>>

Next ==
    \/ \E a \in Approvals : Approve(a)
    \/ \E ask \in Asks : Begin(ask)
    \/ ResolveScopes \/ Find \/ Read \/ Speaker \/ Answered

Spec == Init /\ [][Next]_vars

-----------------------------------------------------------------------------
(* Properties *)

\* Tables as they would be if the rows of other scopes held nothing.
Without(d, S) ==
    [t \in TargetTypes |-> [i \in DOMAIN d[t] |->
        IF i \in Seen(d, t, S) THEN d[t][i]
        ELSE [NewRow(t, EmptyPatch, d[t][i].scope) EXCEPT !.superseded_by = 0]]]

\* No query of any tool returns, counts against its limit, or fails on anything that
\* rows outside the caller's scopes hold: the answer is the one the caller would get if
\* those rows were empty (scope.rs: default deny; get_engagement: existence is not leaked).
UnseenLeavesNoTrace ==
    call # None /\ call.todo # <<>> =>
        LET q == Head(call.todo)
        IN  Taken(db, q, call) = Taken(Without(db, call.scopes), q, call)

Finished == call # None /\ call.todo = <<>> /\ call.outcome = "ok"

\* A fact is never shown without a source it had when it was read, nor beside the fact
\* that replaced it, whatever was approved between the queries (get_person,
\* get_organization, get_engagement, search_context).
FactsAreShownWhole ==
    Finished => \A e \in FactsShown(call) :
        /\ \A r \in 1 .. e.refs :
              db["ref"][r].parent = LinkOf(e) =>
                  \E s \in call.answer : s.part = "refs" /\ s.id = r
        /\ \A f \in FactsShown(call) : db["fact"][e.id].superseded_by # f.id

\* A display name that people carried when the call began is not answered as somebody
\* else's: each of them is shown, or left out for a carrier who is a member of the
\* engagement when they are not - even if one of them is renamed meanwhile
\* (resolve_speakers, people::update).
KnownNamesKeepTheirPeople ==
    LET shown(part) == {e.id : e \in {x \in call.answer : x.part = part}}
    IN  /\ call # None
        /\ call.outcome \in {"matched", "narrowed", "ambiguous", "unmatched"}
        => IF call.outcome = "narrowed"
           THEN call.known \cap shown("people") \subseteq shown("speaker")
           ELSE call.known \subseteq shown("speaker")
=============================================================================
