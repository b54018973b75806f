---------------------------- MODULE ProposalQueue ----------------------------
(***************************************************************************)
(* The proposal queue: agents and humans propose changes, humans approve or *)
(* reject them, and an approval applies the change to the tables.           *)
(*                                                                         *)
(* Each write runs in one BEGIN IMMEDIATE transaction that commits whole or *)
(* rolls back whole (Db::with_tx), so the body of a transaction is one      *)
(* action.  A decision takes two steps: decision_scopes resolves and audits *)
(* the requested scopes under the connection lock and lets the lock go, the *)
(* transaction comes later, and anything may happen in between.  A call     *)
(* whose reply is lost is the same call made again by the same client.      *)
(***************************************************************************)
EXTENDS KnowledgeBase, FiniteSets

CONSTANTS
    Clients,            \* names of the registered clients
    Humans,             \* the clients with role human
    DefaultScope,       \* client -> {} or the singleton of its default scope
    RequestIds,         \* well-formed request ids
    Submissions,        \* the proposal contents the clients send
    Oversized,          \* texts beyond the 1 MiB proposal limit
    Workers,            \* threads that serve decision calls
    MaxPending,         \* MAX_PENDING_PROPOSALS_PER_CLIENT_SCOPE
    FirstAffiliations,  \* affiliations registered at the start
    Seed                \* rows the library already holds at the start

\* ref_id 0: none.  inline: the system/uri/note group, None when it is absent and
\* Blank when a required one is missing or blank.
Provenance ==
    [given : BOOLEAN, ref_id : Nat, inline : Texts \cup {None, Blank}]

NoProvenance == [given |-> FALSE, ref_id |-> 0, inline |-> None]

Actions == {"insert", "update", "supersede"}

Submission ==
    [target_type : TargetTypes, action : Actions, target_id : Nat,
     patch : Patch, provenance : Provenance]

ASSUME QueueAssumption ==
    /\ Humans \subseteq Clients
    /\ DefaultScope \in [Clients -> SUBSET Scopes]
    /\ None \notin Clients
    /\ Submissions \subseteq Submission
    /\ MaxPending \in Nat
    /\ FirstAffiliations \subseteq Scopes
    /\ \A s \in Submissions : ~s.provenance.given => s.provenance = NoProvenance

ASSUME SeedAssumption ==
    /\ Seed \in Database
    /\ PairsAllowed(Seed) /\ Linear(Seed) /\ LinksContained(Seed)
    /\ \A t \in ContentTypes : \A i \in DOMAIN Seed[t] : Seed[t][i].scope \in Scopes

VARIABLES
    affiliations,   \* the registered scopes
    db,             \* the tables
    proposals,      \* the proposals table; position = id
    audit,          \* the audit log, as the set of its entries
    call,           \* worker -> the decision it carries between its two steps, or None
    sent            \* history: who sent each proposal and with what content

vars == <<affiliations, db, proposals, audit, call, sent>>

Statuses == {"pending", "approved", "rejected"}

Proposal ==
    [request_id : RequestIds, scope : Scopes, proposed_by : Clients,
     target_type : TargetTypes, action : Actions, target_id : Nat, patch : Patch,
     provenance : Provenance, provenance_id : Nat,
     status : Statuses, result_id : Nat, decided_by : Humans \cup {None}]

DecisionCall ==
    [tool : {"approve", "reject"}, client : Humans, id : Nat, scopes : SUBSET Scopes]

AuditActions ==
    {"propose", "propose_conflict", "approve", "reject", "cross_scope_read", "admin_write"}

\* subject: the proposal id of propose, approve and reject; 0 for the other entries.
AuditEntry == [actor : Clients, action : AuditActions, subject : Nat]

Sent == [client : Clients, scope : Scopes, content : Submission]

Init ==
    /\ affiliations = FirstAffiliations
    /\ db = Seed
    /\ proposals = <<>>
    /\ audit = {}
    /\ call = [w \in Workers |-> None]
    /\ sent = <<>>

Logged(actor, action, subject) ==
    audit \cup {[actor |-> actor, action |-> action, subject |-> subject]}

-----------------------------------------------------------------------------
(* Scope resolution: the argument, else the client's default scope. *)

Resolved(c, requested) == IF requested = {} THEN DefaultScope[c] ELSE requested

Resolves(c, requested) ==
    /\ Resolved(c, requested) # {}
    /\ Resolved(c, requested) \subseteq affiliations

-----------------------------------------------------------------------------
(* propose_update *)

InsertLike(s) == s.action # "update"

LinkColumnsAllowed(s) ==
    s.target_type \in {"fact", "ref"} => (InsertLike(s) <=> s.patch.parent # NoLink)

PredicatesAllowed(s) ==
    s.target_type = "fact" =>
        IF InsertLike(s)
        THEN PairAllowed(s.patch.predicate, s.patch.value)
        ELSE UpdatePairAllowed(s.patch.predicate, s.patch.value)

Valid(s) ==
    /\ s.action = "insert" <=> s.target_id = 0
    /\ s.action = "supersede" => s.target_type = "fact"
    /\ s.action = "update" => s.patch # EmptyPatch
    /\ WellShaped(s.target_type, s.patch)
    /\ s.patch.text # Blank
    /\ InsertLike(s) => s.patch.text # None
    /\ LinkColumnsAllowed(s)
    /\ PredicatesAllowed(s)

ProvenanceAcceptable(s, sc) ==
    s.provenance.given =>
        IF s.provenance.ref_id # 0
        THEN /\ s.provenance.inline = None
             /\ RowVisible(db, "ref", s.provenance.ref_id, {sc})
        ELSE /\ s.provenance.inline \notin {None, Blank}
             /\ s.target_type \notin {"ref", "glossary"}

\* A ref_id is kept as provenance_id, an inline source as provenance.
StoredProvenance(s) == IF s.provenance.ref_id # 0 THEN NoProvenance ELSE s.provenance

NewProposal(c, r, sc, s) ==
    [request_id |-> r, scope |-> sc, proposed_by |-> c,
     target_type |-> s.target_type, action |-> s.action, target_id |-> s.target_id,
     patch |-> s.patch,
     provenance |-> StoredProvenance(s), provenance_id |-> s.provenance.ref_id,
     status |-> "pending", result_id |-> 0, decided_by |-> None]

\* find_by_request_id: only the proposals of the caller's scope are searched.
FoundAt(r, sc) ==
    {i \in DOMAIN proposals : proposals[i].request_id = r /\ proposals[i].scope = sc}

SameProvenance_ById(p, given) ==
    IF given.ref_id # 0 THEN p.provenance_id = given.ref_id
                        ELSE p.provenance = given /\ p.provenance_id = 0

\* The id an approval gave to an inline source is not part of the comparison.
SameProvenance(p, given) ==
    IF p.provenance.given
    THEN p.provenance = given
    ELSE given.ref_id = p.provenance_id /\ given.inline = None

\* differing_submission_fields finds nothing.
SameContent(p, s) ==
    /\ p.target_type = s.target_type
    /\ p.action = s.action
    /\ p.target_id = s.target_id
    /\ p.patch = s.patch
    /\ SameProvenance(p, s.provenance)

PendingOf(c, sc) ==
    {i \in DOMAIN proposals : /\ proposals[i].proposed_by = c
                              /\ proposals[i].scope = sc
                              /\ proposals[i].status = "pending"}

HasRoom(c, sc) == Cardinality(PendingOf(c, sc)) < MaxPending

IsDuplicate(c, r, sc, s) ==
    \E i \in FoundAt(r, sc) :
        proposals[i].proposed_by = c /\ SameContent(proposals[i], s)

\* The checks between the search for the request id and the insertion.
PassesChecks(c, r, sc, s) ==
    /\ Valid(s)
    /\ s.patch.text \notin Oversized
    /\ ProvenanceAcceptable(s, sc)
    /\ HasRoom(c, sc)

IsRefused(c, r, sc, s) == FoundAt(r, sc) = {} /\ ~PassesChecks(c, r, sc, s)

\* The UNIQUE constraint on request_id spans all scopes.
Taken(r, sc) == \E i \in DOMAIN proposals : proposals[i].request_id = r

\* Nothing is written: the answer is the id and the present status.
ProposeDuplicate(c, r, sc, s) ==
    /\ IsDuplicate(c, r, sc, s)
    /\ UNCHANGED vars

\* Invalid content, an unknown provenance ref or a full queue: an error reply.
ProposeRefused(c, r, sc, s) ==
    /\ IsRefused(c, r, sc, s)
    /\ UNCHANGED vars

\* The id belongs to another client, to other content or to another scope: the
\* attempt is audited and committed, the proposal that holds the id is untouched.
ProposeConflict(c, r, sc, s) ==
    /\ \/ FoundAt(r, sc) # {} /\ ~IsDuplicate(c, r, sc, s)
       \/ FoundAt(r, sc) = {} /\ PassesChecks(c, r, sc, s) /\ Taken(r, sc)
    /\ audit' = Logged(c, "propose_conflict", 0)
    /\ UNCHANGED <<affiliations, db, proposals, call, sent>>

ProposeAccepted(c, r, sc, s) ==
    /\ FoundAt(r, sc) = {}
    /\ PassesChecks(c, r, sc, s)
    /\ ~Taken(r, sc)
    /\ proposals' = Append(proposals, NewProposal(c, r, sc, s))
    /\ audit' = Logged(c, "propose", Len(proposals) + 1)
    /\ sent' = Append(sent, [client |-> c, scope |-> sc, content |-> s])
    /\ UNCHANGED <<affiliations, db, call>>

ProposeUpdate(c, r, sc, s) ==
    \/ ProposeDuplicate(c, r, sc, s)
    \/ ProposeRefused(c, r, sc, s)
    \/ ProposeConflict(c, r, sc, s)
    \/ ProposeAccepted(c, r, sc, s)

-----------------------------------------------------------------------------
(* approve_proposal and reject_proposal *)

\* Both tools are open to humans only.  decision_scopes: a cross-scope request is
\* audited before the transaction.
BeginDecision(w, c, tool, id, requested) ==
    /\ call[w] = None
    /\ c \in Humans
    /\ Resolves(c, requested)
    /\ call' = [call EXCEPT ![w] = [tool |-> tool, client |-> c, id |-> id,
                                    scopes |-> Resolved(c, requested)]]
    /\ audit' = IF Cardinality(Resolved(c, requested)) > 1
                THEN Logged(c, "cross_scope_read", 0)
                ELSE audit
    /\ UNCHANGED <<affiliations, db, proposals, sent>>

Decidable(k) ==
    /\ k.id \in DOMAIN proposals
    /\ proposals[k.id].scope \in k.scopes
    /\ proposals[k.id].status = "pending"

\* materialize_provenance: the ref that an inline source becomes hangs from the row
\* the proposal was applied to.
SourcePatch(p, result) ==
    [EmptyPatch EXCEPT !.parent = [type |-> p.target_type, id |-> result],
                       !.text   = p.provenance.inline]

CanMaterialize(d, p, result) ==
    p.provenance.given =>
        /\ p.target_type \notin {"ref", "glossary"}
        /\ CanInsert(d, "ref", SourcePatch(p, result), p.scope)

Materialized_OnTarget(d, p, result) ==
    IF p.provenance.given
    THEN Insert(d, "ref", SourcePatch(p, p.target_id), p.scope)
    ELSE d

Materialized(d, p, result) ==
    IF p.provenance.given
    THEN Insert(d, "ref", SourcePatch(p, result), p.scope)
    ELSE d

SourceId(d, p) == IF p.provenance.given THEN Len(d["ref"]) + 1 ELSE p.provenance_id

Decided(p, status, by, result, source) ==
    [p EXCEPT !.status = status, !.decided_by = by, !.result_id = result,
              !.provenance_id = source]

\* The rest of approve_proposal once "apply" has produced the tables d and the row
\* "result": provenance, decision, audit, commit.
CommitApproval(w, d, result) ==
    LET k == call[w]
        p == proposals[k.id]
    IN  /\ CanMaterialize(d, p, result)
        /\ db' = Materialized(d, p, result)
        /\ proposals' = [proposals EXCEPT ![k.id] =
                            Decided(@, "approved", k.client, result, SourceId(d, p))]
        /\ audit' = Logged(k.client, "approve", k.id)
        /\ call' = [call EXCEPT ![w] = None]
        /\ UNCHANGED <<affiliations, sent>>

Approving(w, action) ==
    /\ call[w] # None
    /\ call[w].tool = "approve"
    /\ Decidable(call[w])
    /\ proposals[call[w].id].action = action
    /\ Valid(proposals[call[w].id])

ApproveInsert(w) ==
    /\ Approving(w, "insert")
    /\ LET p == proposals[call[w].id]
       IN  /\ CanInsert(db, p.target_type, p.patch, p.scope)
           /\ CommitApproval(w, Insert(db, p.target_type, p.patch, p.scope),
                             Len(db[p.target_type]) + 1)

ApproveUpdate(w) ==
    /\ Approving(w, "update")
    /\ LET p == proposals[call[w].id]
       IN  /\ CanUpdate(db, p.target_type, p.target_id, p.patch, p.scope)
           /\ CommitApproval(w, Update(db, p.target_type, p.target_id, p.patch), p.target_id)

ApproveSupersede_KeepsOldId(w) ==
    /\ Approving(w, "supersede")
    /\ LET p == proposals[call[w].id]
       IN  /\ CanSupersede(db, p.target_id, p.patch, p.scope)
           /\ CommitApproval(w, Supersede(db, p.target_id, p.patch, p.scope), p.target_id)

ApproveSupersede(w) ==
    /\ Approving(w, "supersede")
    /\ LET p == proposals[call[w].id]
       IN  /\ CanSupersede(db, p.target_id, p.patch, p.scope)
           /\ CommitApproval(w, Supersede(db, p.target_id, p.patch, p.scope),
                             Len(db["fact"]) + 1)

RejectProposal(w) ==
    /\ call[w] # None
    /\ call[w].tool = "reject"
    /\ Decidable(call[w])
    /\ proposals' = [proposals EXCEPT ![call[w].id] =
                        Decided(@, "rejected", call[w].client, 0, @.provenance_id)]
    /\ audit' = Logged(call[w].client, "reject", call[w].id)
    /\ call' = [call EXCEPT ![w] = None]
    /\ UNCHANGED <<affiliations, db, sent>>

\* The transaction ends in an error - the proposal is out of scope or already decided,
\* "apply" refuses, SQLite is busy or the disk is full - or the process dies before
\* the commit.  In each case nothing of it is kept.
DecisionRolledBack(w) ==
    /\ call[w] # None
    /\ call' = [call EXCEPT ![w] = None]
    /\ UNCHANGED <<affiliations, db, proposals, audit, sent>>

\* Registering an affiliation is the one write that needs no proposal.
AddAffiliation(c, s) ==
    /\ s \notin affiliations
    /\ affiliations' = affiliations \cup {s}
    /\ audit' = Logged(c, "admin_write", 0)
    /\ UNCHANGED <<db, proposals, call, sent>>

ClientProposes(c, r, requested, s) ==
    /\ Resolves(c, requested)
    /\ \E sc \in Resolved(c, requested) : ProposeUpdate(c, r, sc, s)

Next ==
    \/ \E c \in Clients, r \in RequestIds, s \in Submissions :
          \E requested \in {{}} \cup {{x} : x \in Scopes} : ClientProposes(c, r, requested, s)
    \/ \E w \in Workers, c \in Clients, tool \in {"approve", "reject"},
          id \in DOMAIN proposals, requested \in SUBSET Scopes :
              BeginDecision(w, c, tool, id, requested)
    \/ \E w \in Workers : \/ ApproveInsert(w)
                          \/ ApproveUpdate(w)
                          \/ ApproveSupersede(w)
                          \/ RejectProposal(w)
                          \/ DecisionRolledBack(w)
    \/ \E c \in Humans, s \in Scopes : AddAffiliation(c, s)

Spec == Init /\ [][Next]_vars

-----------------------------------------------------------------------------
(* Properties *)

\* Every variable stays in its type, and the history of what was sent runs in step
\* with the proposals table.
TypeOK ==
    /\ affiliations \subseteq Scopes
    /\ db \in Database
    /\ proposals \in Seq(Proposal)
    /\ audit \subseteq AuditEntry
    /\ call \in [Workers -> DecisionCall \cup {None}]
    /\ sent \in Seq(Sent)
    /\ Len(sent) = Len(proposals)

Normal(s) ==
    IF s.provenance.ref_id = 0 /\ s.provenance.inline = None
    THEN [s EXCEPT !.provenance = NoProvenance]
    ELSE s

\* A call is answered as a duplicate exactly when the same client sent the same content
\* in the same scope under that request id before - however far the proposal has come
\* since, and however full the queue is.  An empty provenance object counts as none.
\* (propose_update: a client that lost the reply repeats the call.)
RetrySemantics ==
    \A c \in Clients, r \in RequestIds, sc \in Scopes, s \in Submissions :
        IsDuplicate(c, r, sc, s) <=>
            \E i \in DOMAIN sent : /\ proposals[i].request_id = r
                                   /\ sent[i].client = c /\ sent[i].scope = sc
                                   /\ Normal(sent[i].content) = Normal(s)

\* No interleaving of submissions and decisions leaves a client with more undecided
\* proposals in a scope than the limit of propose_update.
PendingWithinQuota ==
    \A c \in Clients, sc \in Scopes : Cardinality(PendingOf(c, sc)) <= MaxPending

\* A client may send a call again as often as it likes, and nobody fills the queue by
\* doing so (propose_update).
SubmissionsHold == RetrySemantics /\ PendingWithinQuota

\* What a reviewer reads in a proposal is what an approval later applies: no step edits
\* the content of a proposal, and once decided nothing of it changes again, whichever
\* of several deciders comes second (approve_proposal and reject_proposal).
DecisionFinal ==
    [][\A i \in DOMAIN proposals :
          /\ i \in DOMAIN proposals'
          /\ \A f \in {"request_id", "scope", "proposed_by", "target_type", "action",
                       "target_id", "patch", "provenance"} :
                 proposals'[i][f] = proposals[i][f]
          /\ proposals[i].status # "pending" => proposals'[i] = proposals[i]]_vars

ApprovedWith(P(_)) == {i \in DOMAIN proposals : proposals[i].status = "approved" /\ P(proposals[i])}

InsertsInto(t) == ApprovedWith(LAMBDA p : p.target_type = t /\ InsertLike(p))

Sourced == ApprovedWith(LAMBDA p : p.provenance.given)

\* The tables hold exactly what approvals put there: each row beyond the seed is the
\* result of one approved insert or supersede, or the source of one approval, and no
\* two of them share a row.  An approval that were applied twice, or applied and then
\* rolled back in part, would break the count (approve_proposal).
EffectsExactlyOnce ==
    \A t \in TargetTypes :
        LET results == {proposals[i].result_id : i \in InsertsInto(t)}
            sources == IF t = "ref" THEN {proposals[i].provenance_id : i \in Sourced} ELSE {}
            added   == Len(Seed[t]) + 1 .. Len(db[t])
        IN  /\ results \cap sources = {}
            /\ results \cup sources = added
            /\ Cardinality(results) = Cardinality(InsertsInto(t))
            /\ t = "ref" => Cardinality(sources) = Cardinality(Sourced)

\* The versions of a fact form one line within its scope and entity (facts::supersede).
SupersessionLinear == Linear(db)

\* Of several proposals to supersede one fact, approved in any order, at most one takes
\* effect, and its result stays the successor of the fact it names.
SupersedesAgree ==
    \A i \in ApprovedWith(LAMBDA p : p.action = "supersede") :
        db["fact"][proposals[i].target_id].superseded_by = proposals[i].result_id

\* A superseded fact is history: no later approval changes a column of it, even one
\* proposed while the fact was current (facts::update, facts::supersede).
HistoryFrozen == [][KeepsHistory(db, db')]_vars

\* Partial updates proposed independently and approved in any order never leave a fact
\* with a value without predicate or a registry predicate without value
\* (predicates::check on the merged pair).
PairsWellFormed == PairsAllowed(db)

\* A proposal's source is a ref of its own scope, and the source an approval created
\* hangs from the row that approval produced (materialize_provenance).
SourcesAttached ==
    \A i \in DOMAIN proposals :
        LET p == proposals[i]
        IN  /\ p.provenance_id # 0 => RowVisible(db, "ref", p.provenance_id, {p.scope})
            /\ i \in Sourced =>
                  /\ p.provenance_id \in DOMAIN db["ref"]
                  /\ db["ref"][p.provenance_id].parent =
                        [type |-> p.target_type, id |-> p.result_id]

\* No sequence of approvals makes a content row point at another scope's content row
\* or at a row that does not exist (targets::ensure and the storage modules).
LinksInScope == LinksContained(db)

\* The log holds one verdict for each decided proposal, by the client the proposal
\* names as its decider, and none for an undecided one.
DecisionsAudited ==
    \A i \in DOMAIN proposals :
        {e \in audit : e.subject = i /\ e.action \in {"approve", "reject"}} =
            IF proposals[i].status = "pending" THEN {}
            ELSE {[actor   |-> proposals[i].decided_by,
                   action  |-> IF proposals[i].status = "approved" THEN "approve" ELSE "reject",
                   subject |-> i]}

\* A decision takes effect once, in the tables and in the log alike, however the
\* transactions of several deciders follow one another (approve_proposal).
DecisionsTakeEffectOnce == EffectsExactlyOnce /\ DecisionsAudited

\* The versions of a fact stay one line, and each approved supersede keeps its place in
\* it (facts::supersede).
VersionsAgree == SupersessionLinear /\ SupersedesAgree

-----------------------------------------------------------------------------
(* The promise this module keeps. *)

RequestsOf(S) == {proposals[i].request_id : i \in S}

HistoryOf(d) ==
    {<<i, d["fact"][i]>> : i \in {j \in DOMAIN d["fact"] : d["fact"][j].superseded_by # 0}}

Reviewed == INSTANCE ReviewedMemory WITH
    Requests  <- RequestIds,
    submitted <- RequestsOf(DOMAIN proposals),
    approved  <- RequestsOf({i \in DOMAIN proposals : proposals[i].status = "approved"}),
    rejected  <- RequestsOf({i \in DOMAIN proposals : proposals[i].status = "rejected"}),
    memory    <- db,
    history   <- HistoryOf(db)

\* The queue implements the promise: memory changes only in the approval of a request
\* that was submitted and not decided before, and superseded facts are kept as they are.
ImplementsReviewedMemory == Reviewed!Spec
=============================================================================
