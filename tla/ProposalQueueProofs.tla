-------------------------- MODULE ProposalQueueProofs --------------------------
(***************************************************************************)
(* Theorems of the proposal queue, for every set of clients, scopes,        *)
(* request ids, contents and workers, and every quota.                      *)
(***************************************************************************)
EXTENDS ProposalQueue, KnowledgeBaseProofs, FiniteSetTheorems

-----------------------------------------------------------------------------
(* Types of the records the actions build. *)

\* The proposals are a sequence of proposals with the ids 1 .. length.
LEMMA ProposalsTable ==
  ASSUME TypeOK
  PROVE  /\ Len(proposals) \in Nat
         /\ DOMAIN proposals = 1..Len(proposals)
         /\ \A i \in DOMAIN proposals : proposals[i] \in Proposal
  BY LenProperties, ElementOfSeq DEF TypeOK

\* A verdict leaves a proposal of the proposal type.
LEMMA DecidedType ==
  ASSUME NEW p \in Proposal, NEW st \in Statuses, NEW by \in Humans,
         NEW result \in Nat, NEW source \in Nat
  PROVE  Decided(p, st, by, result, source) \in Proposal
  BY DEF Decided, Proposal

\* A logged entry keeps the type of the log.
LEMMA LoggedType ==
  ASSUME audit \subseteq AuditEntry,
         NEW actor \in Clients, NEW action \in AuditActions, NEW subject \in Nat
  PROVE  Logged(actor, action, subject) \subseteq AuditEntry
  BY DEF Logged, AuditEntry

\* What propose_update inserts is a proposal.
LEMMA NewProposalType ==
  ASSUME NEW c \in Clients, NEW r \in RequestIds, NEW sc \in Scopes, NEW s \in Submission
  PROVE  NewProposal(c, r, sc, s) \in Proposal
<1>1. StoredProvenance(s) \in Provenance /\ s.provenance \in Provenance
  BY DEF StoredProvenance, NoProvenance, Provenance, Submission
<1>2. s.provenance.ref_id \in Nat
  BY <1>1 DEF Provenance
<1> QED
  BY <1>1, <1>2 DEF NewProposal, Proposal, Submission, Statuses

\* What materialize_provenance inserts is a patch of a ref.
LEMMA SourcePatchType ==
  ASSUME NEW p \in Proposal, NEW result \in Nat
  PROVE  SourcePatch(p, result) \in Patch
<1>1. EmptyPatch \in Patch
  BY DEF EmptyPatch, Patch, Link
<1>2. [type |-> p.target_type, id |-> result] \in Link
  BY DEF Proposal, Link
<1>3. p.provenance.inline \in Texts \cup {None, Blank}
  BY DEF Proposal, Provenance
<1> QED
  BY <1>1, <1>2, <1>3 DEF SourcePatch, Patch, EmptyPatch

-----------------------------------------------------------------------------
(* The tables across an approval. *)

Sound(d) == d \in Database /\ Linear(d) /\ PairsAllowed(d) /\ LinksContained(d)

\* A call under way carries a human client and a proposal id.
LEMMA CallsTable ==
  ASSUME TypeOK, NEW w \in Workers, call[w] # None
  PROVE  /\ call[w] \in DecisionCall
         /\ call[w].client \in Humans /\ call[w].client \in Clients
         /\ call[w].id \in Nat
  BY QueueAssumption DEF TypeOK, DecisionCall

\* Registering the source of an approval is one more insertion, into refs.
LEMMA MaterializeKeepsSound ==
  ASSUME NEW d, Sound(d), NEW p \in Proposal, NEW result \in Nat,
         CanMaterialize(d, p, result)
  PROVE  LET e == Materialized(d, p, result)
         IN  Sound(e) /\ KeepsHistory(d, e)
<1>1. CASE ~p.provenance.given
  BY <1>1 DEF Materialized, KeepsHistory
<1>2. CASE p.provenance.given
  <2> DEFINE patch == SourcePatch(p, result)
             e == Insert(d, "ref", patch, p.scope)
  <2>1. "ref" \in TargetTypes /\ "ref" # "fact"
    BY DEF TargetTypes, ContentTypes
  <2>2. patch \in Patch /\ p.scope \in Scopes /\ d \in Database
    BY SourcePatchType DEF Proposal, Sound
  <2>3. p.target_type \in ParentTypes["ref"]
    BY <1>2 DEF CanMaterialize, Proposal, ParentTypes, TargetTypes, IdentityTypes, ContentTypes
  <2>4. /\ patch.parent.type = p.target_type
        /\ patch.people = {} /\ patch.predicate = None /\ patch.value = None
    BY DEF SourcePatch, EmptyPatch
  <2>5. WellShaped("ref", patch)
    BY <2>3, <2>4 DEF WellShaped
  <2>6. LinksExist(d, patch, p.scope)
    BY <1>2 DEF CanMaterialize, CanInsert
  <2> HIDE DEF patch
  <2>7. e \in Database
    BY <2>1, <2>2, InsertEffect
  <2>8. Linear(e) /\ PairsAllowed(e)
    BY <2>1, <2>2, InsertKeepsLinear, InsertKeepsPairs DEF Sound
  <2>9. LinksContained(e) /\ KeepsHistory(d, e)
    BY <2>1, <2>2, <2>5, <2>6, InsertKeepsLinks, InsertKeepsHistory DEF Sound
  <2> QED
    BY <1>2, <2>7, <2>8, <2>9 DEF Sound, Materialized, patch
<1> QED
  BY <1>1, <1>2

\* Two writes that keep the history keep it together.
LEMMA HistoryTransitive ==
  ASSUME NEW d, NEW e, NEW g, KeepsHistory(d, e), KeepsHistory(e, g)
  PROVE  KeepsHistory(d, g)
  BY DEF KeepsHistory

\* The proposal an approval works on.
LEMMA ApprovedProposal ==
  ASSUME TypeOK, NEW w \in Workers, NEW action, Approving(w, action)
  PROVE  LET p == proposals[call[w].id]
         IN  /\ call[w].id \in DOMAIN proposals
             /\ p \in Proposal /\ p.status = "pending" /\ p.action = action
             /\ p.target_type \in TargetTypes /\ p.patch \in Patch
             /\ p.scope \in Scopes /\ p.target_id \in Nat
             /\ WellShaped(p.target_type, p.patch)
             /\ action = "supersede" => p.target_type = "fact"
             /\ (p.target_type = "fact" /\ action # "update") =>
                    PairAllowed(p.patch.predicate, p.patch.value)
<1>1. call[w].id \in DOMAIN proposals /\ proposals[call[w].id] \in Proposal
  BY ProposalsTable DEF Approving, Decidable
<1> QED
  BY <1>1 DEF Approving, Decidable, Valid, PredicatesAllowed, InsertLike, Proposal

ApproveProposal(w) == ApproveInsert(w) \/ ApproveUpdate(w) \/ ApproveSupersede(w)

\* Whatever an approval applies, it commits sound tables and the old history.
LEMMA ApprovalKeepsSound ==
  ASSUME TypeOK, Sound(db), NEW w \in Workers, ApproveProposal(w)
  PROVE  \E d \in Database, result \in Nat :
            /\ CommitApproval(w, d, result)
            /\ Approving(w, proposals[call[w].id].action)
            /\ Sound(d) /\ Sound(db')
            /\ KeepsHistory(db, db')
<1> DEFINE p == proposals[call[w].id]
<1>1. SUFFICES \E d \in Database, result \in Nat : /\ CommitApproval(w, d, result)
                                    /\ Approving(w, p.action)
                                    /\ Sound(d) /\ KeepsHistory(db, d)
  <2>1. PICK d \in Database, result \in Nat : /\ CommitApproval(w, d, result)
                                /\ Approving(w, p.action)
                                /\ Sound(d) /\ KeepsHistory(db, d)
    BY <1>1
  <2>2. p \in Proposal
    BY <2>1, ApprovedProposal
  <2>3. CanMaterialize(d, p, result) /\ db' = Materialized(d, p, result)
    BY <2>1 DEF CommitApproval
  <2> HIDE DEF p
  <2>4. Sound(db') /\ KeepsHistory(d, db')
    BY <2>1, <2>2, <2>3, MaterializeKeepsSound
  <2> QED
    BY <2>1, <2>4, HistoryTransitive DEF p
<1> DEFINE t == p.target_type
<1>2. CASE ApproveInsert(w)
  <2>1. Approving(w, "insert") /\ CanInsert(db, t, p.patch, p.scope)
    BY <1>2 DEF ApproveInsert
  <2>2. p.action = "insert"
    BY <2>1 DEF Approving
  <2>3. /\ t \in TargetTypes /\ p.patch \in Patch /\ p.scope \in Scopes
        /\ WellShaped(t, p.patch)
        /\ t = "fact" => PairAllowed(p.patch.predicate, p.patch.value)
    BY <2>1, ApprovedProposal
  <2> DEFINE d == Insert(db, t, p.patch, p.scope)
  <2>4. CommitApproval(w, d, Len(db[t]) + 1)
    BY <1>2 DEF ApproveInsert
  <2>5. LinksExist(db, p.patch, p.scope)
    BY <2>1 DEF CanInsert
  <2> HIDE DEF p, t
  <2>6. d \in Database /\ Linear(d) /\ PairsAllowed(d)
    BY <2>3, InsertEffect, InsertKeepsLinear, InsertKeepsPairs DEF Sound
  <2>7. LinksContained(d) /\ KeepsHistory(db, d)
    BY <2>3, <2>5, InsertKeepsLinks, InsertKeepsHistory DEF Sound
  <2>8. Len(db[t]) + 1 \in Nat
    BY <2>3, LenProperties DEF Sound, Database
  <2> QED
    BY <2>1, <2>2, <2>4, <2>6, <2>7, <2>8 DEF Sound
<1>3. CASE ApproveUpdate(w)
  <2>1. Approving(w, "update") /\ CanUpdate(db, t, p.target_id, p.patch, p.scope)
    BY <1>3 DEF ApproveUpdate
  <2>2. p.action = "update"
    BY <2>1 DEF Approving
  <2>3. /\ t \in TargetTypes /\ p.patch \in Patch /\ p.target_id \in Nat
        /\ WellShaped(t, p.patch)
    BY <2>1, ApprovedProposal
  <2> DEFINE d == Update(db, t, p.target_id, p.patch)
  <2>4. CommitApproval(w, d, p.target_id)
    BY <1>3 DEF ApproveUpdate
  <2>5. p.target_id \in DOMAIN db[t]
    BY <2>1 DEF CanUpdate, RowVisible
  <2> HIDE DEF p, t
  <2>6. d \in Database
    BY <2>3, <2>5, UpdateEffect DEF Sound
  <2>7. Linear(d) /\ PairsAllowed(d)
    BY <2>1, <2>3, UpdateKeepsLinear, UpdateKeepsPairs DEF Sound
  <2>8. LinksContained(d) /\ KeepsHistory(db, d)
    BY <2>1, <2>3, UpdateKeepsLinks, UpdateKeepsHistory DEF Sound
  <2> QED
    BY <2>1, <2>2, <2>3, <2>4, <2>6, <2>7, <2>8 DEF Sound
<1>4. CASE ApproveSupersede(w)
  <2>1. Approving(w, "supersede") /\ CanSupersede(db, p.target_id, p.patch, p.scope)
    BY <1>4 DEF ApproveSupersede
  <2>2. p.action = "supersede"
    BY <2>1 DEF Approving
  <2>3. /\ p.patch \in Patch /\ p.scope \in Scopes
        /\ WellShaped("fact", p.patch)
        /\ PairAllowed(p.patch.predicate, p.patch.value)
    BY <2>1, ApprovedProposal
  <2> DEFINE d == Supersede(db, p.target_id, p.patch, p.scope)
  <2>4. CommitApproval(w, d, Len(db["fact"]) + 1)
    BY <1>4 DEF ApproveSupersede
  <2>5. p.target_id \in DOMAIN db["fact"]
    BY <2>1 DEF CanSupersede, RowVisible
  <2> HIDE DEF p, t
  <2>6. d \in Database
    BY <2>3, <2>5, SupersedeEffect DEF Sound
  <2>7. Linear(d) /\ PairsAllowed(d)
    BY <2>1, <2>3, SupersedeKeepsLinear, SupersedeKeepsPairs DEF Sound
  <2>8. LinksContained(d) /\ KeepsHistory(db, d)
    BY <2>1, <2>3, SupersedeKeepsLinks, SupersedeKeepsHistory DEF Sound
  <2>9. Len(db["fact"]) + 1 \in Nat
    BY FactTable DEF Sound
  <2> QED
    BY <2>1, <2>2, <2>4, <2>6, <2>7, <2>8, <2>9 DEF Sound
<1> QED
  BY <1>2, <1>3, <1>4 DEF ApproveProposal
-----------------------------------------------------------------------------
(* The inductive invariant.  Sound is what an approval needs of the tables   *)
(* to leave them sound; UniqueRequests is what makes a proposal stand for a  *)
(* request, which the refinement needs.                                      *)

UniqueRequests ==
    \A i, j \in DOMAIN proposals : proposals[i].request_id = proposals[j].request_id => i = j

IInv == TypeOK /\ Sound(db) /\ UniqueRequests

\* The initial tables are the seed, and the queue is empty.
LEMMA InitEstablishes == Init => IInv
<1> SUFFICES ASSUME Init PROVE IInv
  OBVIOUS
<1>1. TypeOK
  BY QueueAssumption, SeedAssumption DEF Init, TypeOK, AuditEntry
<1>2. Sound(db)
  BY SeedAssumption DEF Init, Sound
<1>3. UniqueRequests
  BY DEF Init, UniqueRequests
<1> QED
  BY <1>1, <1>2, <1>3 DEF IInv

\* The table after an accepted proposal: the old rows and one new pending row.
LEMMA AcceptedTable ==
  ASSUME TypeOK, NEW c \in Clients, NEW r \in RequestIds, NEW sc \in Scopes,
         NEW s \in Submission, ProposeAccepted(c, r, sc, s)
  PROVE  /\ proposals' \in Seq(Proposal)
         /\ Len(proposals') = Len(proposals) + 1
         /\ DOMAIN proposals' = DOMAIN proposals \cup {Len(proposals) + 1}
         /\ \A i \in DOMAIN proposals :
                i # Len(proposals) + 1 /\ proposals'[i] = proposals[i]
         /\ proposals'[Len(proposals) + 1] = NewProposal(c, r, sc, s)
<1> DEFINE p == NewProposal(c, r, sc, s)
<1>1. p \in Proposal
  BY NewProposalType
<1>2. proposals \in Seq(Proposal) /\ proposals' = Append(proposals, p)
  BY DEF ProposeAccepted, TypeOK
<1> HIDE DEF p
<1>3. /\ proposals' \in Seq(Proposal)
      /\ Len(proposals') = Len(proposals) + 1
      /\ \A i \in 1..Len(proposals) : proposals'[i] = proposals[i]
      /\ proposals'[Len(proposals) + 1] = p
  BY <1>1, <1>2, AppendProperties
<1>4. /\ Len(proposals) \in Nat
      /\ DOMAIN proposals = 1..Len(proposals)
      /\ DOMAIN proposals' = 1..Len(proposals')
  BY <1>2, <1>3, LenProperties
<1> QED
  BY <1>3, <1>4 DEF p

\* The table after a decision: one row changes, in its verdict columns only.
LEMMA DecidedTable ==
  ASSUME TypeOK, NEW id \in DOMAIN proposals,
         NEW st \in Statuses, NEW by \in Humans, NEW result \in Nat, NEW source \in Nat,
         proposals' = [proposals EXCEPT ![id] = Decided(@, st, by, result, source)]
  PROVE  /\ proposals' \in Seq(Proposal)
         /\ Len(proposals') = Len(proposals)
         /\ DOMAIN proposals' = DOMAIN proposals
         /\ proposals'[id] = Decided(proposals[id], st, by, result, source)
         /\ \A i \in DOMAIN proposals : i # id => proposals'[i] = proposals[i]
<1> DEFINE p == Decided(proposals[id], st, by, result, source)
<1>1. p \in Proposal
  BY ProposalsTable, DecidedType
<1>2. proposals \in Seq(Proposal) /\ proposals' = [proposals EXCEPT ![id] = p]
  BY DEF TypeOK
<1> HIDE DEF p
<1>3. id \in 1..Len(proposals)
  BY ProposalsTable
<1>4. /\ proposals' \in Seq(Proposal)
      /\ Len(proposals') = Len(proposals)
      /\ \A i \in 1..Len(proposals) :
             proposals'[i] = IF i = id THEN p ELSE proposals[i]
  BY <1>1, <1>2, <1>3, ExceptSeq
<1> QED
  BY <1>3, <1>4, ProposalsTable, LenProperties DEF p

\* A decision gives a proposal its verdict and leaves the request it stands for.
LEMMA DecidedKeepsContent ==
  ASSUME NEW p \in Proposal, NEW st, NEW by, NEW result, NEW source
  PROVE  LET q == Decided(p, st, by, result, source)
         IN  /\ q.status = st
             /\ q.request_id = p.request_id
             /\ \A f \in {"request_id", "scope", "proposed_by", "target_type", "action",
                          "target_id", "patch", "provenance"} : q[f] = p[f]
  BY DEF Decided, Proposal
-----------------------------------------------------------------------------
(* One lemma per kind of step.  A step outside the first three kinds leaves  *)
(* the tables and the proposals alone.                                       *)

ProposeAcceptedStep ==
    \E c \in Clients, r \in RequestIds, sc \in Scopes, s \in Submissions :
        ProposeAccepted(c, r, sc, s)

Verdicts(log) == {e \in log : e.action \in {"approve", "reject"}}

QuietStep ==
    /\ UNCHANGED <<db, proposals, sent>>
    /\ Verdicts(audit') = Verdicts(audit)
    /\ TypeOK => affiliations' \subseteq Scopes /\ audit' \subseteq AuditEntry
                 /\ call' \in [Workers -> DecisionCall \cup {None}]

\* Entries of other actions add nothing to the verdicts in the log.
LEMMA OtherEntries ==
  ASSUME NEW actor, NEW action, action \notin {"approve", "reject"}, NEW subject
  PROVE  Verdicts(Logged(actor, action, subject)) = Verdicts(audit)
  BY DEF Verdicts, Logged

\* Clearing a worker's call keeps the type of the calls.
LEMMA ClearedCall ==
  ASSUME TypeOK, NEW w \in Workers
  PROVE  [call EXCEPT ![w] = None] \in [Workers -> DecisionCall \cup {None}]
  BY DEF TypeOK

\* A submission that is not accepted writes an audit entry at most.
LEMMA UnacceptedIsQuiet ==
  ASSUME NEW c \in Clients, NEW r, NEW sc, NEW s,
         \/ ProposeDuplicate(c, r, sc, s)
         \/ ProposeRefused(c, r, sc, s)
         \/ ProposeConflict(c, r, sc, s)
  PROVE  QuietStep
<1>1. CASE UNCHANGED vars
  BY <1>1 DEF vars, QuietStep, TypeOK
<1>2. CASE ProposeConflict(c, r, sc, s)
  <2>1. TypeOK => audit' \subseteq AuditEntry
    BY <1>2, LoggedType DEF ProposeConflict, TypeOK, AuditActions
  <2> QED
    BY <1>2, <2>1, OtherEntries DEF ProposeConflict, QuietStep, TypeOK
<1> QED
  BY <1>1, <1>2 DEF ProposeDuplicate, ProposeRefused

\* The first step of a decision fixes its client and scopes and changes no table.
LEMMA BeginIsQuiet ==
  ASSUME NEW w \in Workers, NEW c \in Clients, NEW tool \in {"approve", "reject"},
         NEW id \in DOMAIN proposals, NEW requested \in SUBSET Scopes,
         BeginDecision(w, c, tool, id, requested)
  PROVE  QuietStep
<1>1. SUFFICES ASSUME TypeOK
               PROVE  /\ audit' \subseteq AuditEntry
                      /\ call' \in [Workers -> DecisionCall \cup {None}]
  <2>1. Verdicts(audit') = Verdicts(audit)
    BY OtherEntries DEF BeginDecision
  <2> QED
    BY <2>1 DEF BeginDecision, QuietStep, TypeOK
<1> DEFINE k == [tool |-> tool, client |-> c, id |-> id,
                 scopes |-> Resolved(c, requested)]
<1>2. k \in DecisionCall
  BY <1>1, ProposalsTable DEF BeginDecision, Resolves, DecisionCall, TypeOK
<1>3. call' = [call EXCEPT ![w] = k]
  BY DEF BeginDecision
<1> HIDE DEF k
<1>4. call' \in [Workers -> DecisionCall \cup {None}]
  BY <1>1, <1>2, <1>3 DEF TypeOK
<1>5. audit' \subseteq AuditEntry
  BY <1>1, LoggedType DEF BeginDecision, TypeOK, AuditActions
<1> QED
  BY <1>4, <1>5

\* A step is an accepted submission, an approval, a rejection, or quiet.
LEMMA StepKinds ==
  ASSUME TypeOK, [Next]_vars
  PROVE  \/ ProposeAcceptedStep
         \/ \E w \in Workers : ApproveProposal(w) \/ RejectProposal(w)
         \/ QuietStep
<1>1. CASE UNCHANGED vars
  BY <1>1 DEF vars, QuietStep, TypeOK
<1>2. ASSUME NEW c \in Clients, NEW r \in RequestIds, NEW s \in Submissions,
             NEW requested, ClientProposes(c, r, requested, s)
      PROVE  ProposeAcceptedStep \/ QuietStep
  <2>1. PICK sc \in Resolved(c, requested) : ProposeUpdate(c, r, sc, s)
    BY <1>2 DEF ClientProposes
  <2>2. sc \in Scopes
    BY <1>2, <2>1 DEF ClientProposes, Resolves, TypeOK
  <2> QED
    BY <2>1, <2>2, UnacceptedIsQuiet DEF ProposeUpdate, ProposeAcceptedStep
<1>3. ASSUME NEW w \in Workers, DecisionRolledBack(w)
      PROVE  QuietStep
  BY <1>3, ClearedCall DEF DecisionRolledBack, QuietStep, TypeOK
<1>4. ASSUME NEW c \in Humans, NEW s \in Scopes, AddAffiliation(c, s)
      PROVE  QuietStep
  <2>1. c \in Clients
    BY QueueAssumption
  <2>2. audit' \subseteq AuditEntry
    BY <1>4, <2>1, LoggedType DEF AddAffiliation, TypeOK, AuditActions
  <2> QED
    BY <1>4, <2>2, OtherEntries DEF AddAffiliation, QuietStep, TypeOK
<1> QED
  BY <1>1, <1>2, <1>3, <1>4, BeginIsQuiet DEF Next, ApproveProposal

\* An accepted submission adds one row under a request id no row has yet.
LEMMA AcceptedKeepsIInv ==
  ASSUME IInv, ProposeAcceptedStep
  PROVE  IInv'
<1>1. PICK c \in Clients, r \in RequestIds, sc \in Scopes, s \in Submissions :
          ProposeAccepted(c, r, sc, s)
  BY DEF ProposeAcceptedStep
<1>2. s \in Submission /\ TypeOK /\ Len(proposals) \in Nat
  BY QueueAssumption, ProposalsTable DEF IInv
<1>3. /\ proposals' \in Seq(Proposal)
      /\ Len(proposals') = Len(proposals) + 1
      /\ DOMAIN proposals' = DOMAIN proposals \cup {Len(proposals) + 1}
      /\ \A i \in DOMAIN proposals :
             i # Len(proposals) + 1 /\ proposals'[i] = proposals[i]
      /\ proposals'[Len(proposals) + 1] = NewProposal(c, r, sc, s)
  BY <1>1, <1>2, AcceptedTable
<1>4. TypeOK'
  <2>1. audit' \subseteq AuditEntry
    BY <1>1, <1>2, LoggedType DEF ProposeAccepted, TypeOK, AuditActions
  <2> DEFINE m == [client |-> c, scope |-> sc, content |-> s]
  <2>2. m \in Sent /\ sent \in Seq(Sent) /\ sent' = Append(sent, m)
    BY <1>1, <1>2 DEF Sent, ProposeAccepted, TypeOK
  <2> HIDE DEF m
  <2>3. sent' \in Seq(Sent) /\ Len(sent') = Len(sent) + 1
    BY <2>2, AppendProperties
  <2> QED
    BY <1>1, <1>2, <1>3, <2>1, <2>3 DEF ProposeAccepted, TypeOK
<1>5. UniqueRequests'
  <2>1. NewProposal(c, r, sc, s).request_id = r
    BY DEF NewProposal
  <2>2. \A i \in DOMAIN proposals : proposals[i].request_id # r
    BY <1>1 DEF ProposeAccepted, Taken
  <2> QED
    BY <1>3, <2>1, <2>2 DEF UniqueRequests, IInv
<1>6. Sound(db)'
  BY <1>1 DEF ProposeAccepted, IInv, Sound, Linear, PairsAllowed, LinksContained
<1> QED
  BY <1>4, <1>5, <1>6 DEF IInv

\* The proposals after a verdict: the same rows, one of them, undecided before, decided.
Verdict(id, st) ==
    /\ id \in DOMAIN proposals /\ proposals[id].status = "pending"
    /\ DOMAIN proposals' = DOMAIN proposals
    /\ \E by, result, source :
           proposals'[id] = Decided(proposals[id], st, by, result, source)
    /\ \A i \in DOMAIN proposals : i # id => proposals'[i] = proposals[i]

\* A rejection decides its proposal and leaves the tables alone.
LEMMA RejectVerdict ==
  ASSUME TypeOK, NEW w \in Workers, RejectProposal(w)
  PROVE  Verdict(call[w].id, "rejected") /\ db' = db /\ TypeOK'
<1> DEFINE k == call[w]
<1>1. /\ k \in DecisionCall /\ k.client \in Humans
      /\ k.client \in Clients /\ k.id \in Nat
  BY CallsTable DEF RejectProposal
<1>2. k.id \in DOMAIN proposals /\ proposals[k.id].status = "pending"
  BY DEF RejectProposal, Decidable
<1>3. proposals[k.id].provenance_id \in Nat
  BY <1>2, ProposalsTable DEF Proposal
<1>4. proposals' = [proposals EXCEPT ![k.id] =
                       Decided(@, "rejected", k.client, 0, proposals[k.id].provenance_id)]
  BY DEF RejectProposal
<1>5. /\ audit' = Logged(k.client, "reject", k.id)
      /\ call' = [call EXCEPT ![w] = None]
      /\ affiliations' = affiliations /\ db' = db /\ sent' = sent
  BY DEF RejectProposal
<1> HIDE DEF k
<1>6. /\ proposals' \in Seq(Proposal)
      /\ Len(proposals') = Len(proposals)
      /\ DOMAIN proposals' = DOMAIN proposals
      /\ proposals'[k.id] = Decided(proposals[k.id], "rejected", k.client, 0,
                                    proposals[k.id].provenance_id)
      /\ \A i \in DOMAIN proposals : i # k.id => proposals'[i] = proposals[i]
  BY <1>1, <1>2, <1>3, <1>4, DecidedTable DEF Statuses
<1>7. Verdict(k.id, "rejected")
  BY <1>2, <1>6 DEF Verdict
<1>8. audit' \subseteq AuditEntry
  BY <1>1, <1>5, LoggedType DEF TypeOK, AuditActions
<1>9. TypeOK'
  BY <1>5, <1>6, <1>8, ClearedCall DEF TypeOK
<1> QED
  BY <1>5, <1>7, <1>9 DEF k

\* An approval decides its proposal, and the tables it commits are sound.
LEMMA ApproveVerdict ==
  ASSUME TypeOK, Sound(db), NEW w \in Workers, ApproveProposal(w)
  PROVE  /\ Verdict(call[w].id, "approved")
         /\ Sound(db') /\ KeepsHistory(db, db') /\ TypeOK'
<1> DEFINE k == call[w]
           p == proposals[k.id]
<1>1. PICK d \in Database, result \in Nat :
          /\ CommitApproval(w, d, result)
          /\ Approving(w, p.action)
          /\ Sound(d) /\ Sound(db')
          /\ KeepsHistory(db, db')
  BY ApprovalKeepsSound
<1>2. /\ k \in DecisionCall /\ k.client \in Humans
      /\ k.client \in Clients /\ k.id \in Nat
  BY <1>1, CallsTable DEF Approving
<1>3. k.id \in DOMAIN proposals /\ p.status = "pending"
  BY <1>1 DEF Approving, Decidable
<1> DEFINE source == SourceId(d, p)
<1>4. source \in Nat
  <2>1. p.provenance_id \in Nat
    BY <1>3, ProposalsTable DEF Proposal
  <2>2. Len(d["ref"]) \in Nat
    BY LenProperties DEF Database, TargetTypes, ContentTypes
  <2> HIDE DEF p
  <2> QED
    BY <2>1, <2>2 DEF SourceId
<1>5. /\ proposals' = [proposals EXCEPT ![k.id] =
                          Decided(@, "approved", k.client, result, source)]
      /\ audit' = Logged(k.client, "approve", k.id)
      /\ call' = [call EXCEPT ![w] = None]
      /\ affiliations' = affiliations /\ sent' = sent
  BY <1>1 DEF CommitApproval
<1> HIDE DEF source
<1>6. /\ proposals' \in Seq(Proposal)
      /\ Len(proposals') = Len(proposals)
      /\ DOMAIN proposals' = DOMAIN proposals
      /\ proposals'[k.id] = Decided(p, "approved", k.client, result, source)
      /\ \A i \in DOMAIN proposals : i # k.id => proposals'[i] = proposals[i]
  BY <1>2, <1>3, <1>4, <1>5, DecidedTable DEF Statuses
<1>7. Verdict(k.id, "approved")
  BY <1>3, <1>6 DEF Verdict
<1> HIDE DEF k
<1>8. audit' \subseteq AuditEntry
  BY <1>2, <1>5, LoggedType DEF TypeOK, AuditActions
<1>9. TypeOK'
  BY <1>1, <1>5, <1>6, <1>8, ClearedCall DEF TypeOK, Sound
<1> QED
  BY <1>1, <1>7, <1>9 DEF k

\* A verdict leaves each row the request it stands for.
LEMMA VerdictKeepsContent ==
  ASSUME TypeOK, NEW id, NEW st, Verdict(id, st)
  PROVE  /\ proposals'[id].status = st
         /\ \A i \in DOMAIN proposals :
               /\ proposals'[i].request_id = proposals[i].request_id
               /\ \A f \in {"request_id", "scope", "proposed_by", "target_type", "action",
                            "target_id", "patch", "provenance"} :
                      proposals'[i][f] = proposals[i][f]
<1>1. PICK by, result, source :
          proposals'[id] = Decided(proposals[id], st, by, result, source)
  BY DEF Verdict
<1>2. proposals[id] \in Proposal
  BY ProposalsTable DEF Verdict
<1> QED
  BY <1>1, <1>2, DecidedKeepsContent DEF Verdict

\* A verdict changes no request id.
LEMMA VerdictKeepsUnique ==
  ASSUME TypeOK, UniqueRequests, NEW id, NEW st, Verdict(id, st)
  PROVE  UniqueRequests'
  BY VerdictKeepsContent DEF UniqueRequests, Verdict

\* The inductive step.
LEMMA NextPreserves == IInv /\ [Next]_vars => IInv'
<1> SUFFICES ASSUME IInv, [Next]_vars PROVE IInv'
  OBVIOUS
<1>1. TypeOK /\ Sound(db) /\ UniqueRequests
  BY DEF IInv
<1>2. CASE ProposeAcceptedStep
  BY <1>2, AcceptedKeepsIInv
<1>3. ASSUME NEW w \in Workers, ApproveProposal(w)
      PROVE  IInv'
  BY <1>1, <1>3, ApproveVerdict, VerdictKeepsUnique DEF IInv, Sound
<1>4. ASSUME NEW w \in Workers, RejectProposal(w)
      PROVE  IInv'
  BY <1>1, <1>4, RejectVerdict, VerdictKeepsUnique DEF IInv
<1>5. CASE QuietStep
  BY <1>1, <1>5 DEF QuietStep, IInv, TypeOK, UniqueRequests
<1> QED
  BY <1>1, <1>2, <1>3, <1>4, <1>5, StepKinds

-----------------------------------------------------------------------------
(* The theorems. *)

\* The inductive invariant holds throughout.
THEOREM InductiveInvariant == Spec => []IInv
  BY InitEstablishes, NextPreserves, PTL DEF Spec

\* Types are kept, and the history of what was sent runs in step with the table.
THEOREM TypeCorrect == Spec => []TypeOK
<1>1. IInv => TypeOK
  BY DEF IInv
<1> QED
  BY <1>1, InductiveInvariant, PTL

\* However approvals interleave, the versions of a fact form one line
\* (facts::supersede).
THEOREM VersionsFormOneLine == Spec => []SupersessionLinear
<1>1. IInv => SupersessionLinear
  BY DEF IInv, Sound, SupersessionLinear
<1> QED
  BY <1>1, InductiveInvariant, PTL

\* However partial updates interleave, no fact holds half a predicate pair
\* (predicates::check on the merged pair).
THEOREM PairsStayWellFormed == Spec => []PairsWellFormed
<1>1. IInv => PairsWellFormed
  BY DEF IInv, Sound, PairsWellFormed
<1> QED
  BY <1>1, InductiveInvariant, PTL

\* No approval makes a content row reach another scope's content, or nothing at all
\* (targets::ensure).
THEOREM LinksStayInScope == Spec => []LinksInScope
<1>1. IInv => LinksInScope
  BY DEF IInv, Sound, LinksInScope
<1> QED
  BY <1>1, InductiveInvariant, PTL

\* A superseded fact is never written again, by an approval of any kind.
THEOREM HistoryStaysFrozen == Spec => HistoryFrozen
<1>1. IInv /\ [Next]_vars => KeepsHistory(db, db')
  <2> SUFFICES ASSUME IInv, [Next]_vars PROVE KeepsHistory(db, db')
    OBVIOUS
  <2>1. TypeOK /\ Sound(db)
    BY DEF IInv
  <2>2. CASE db' = db
    BY <2>2 DEF KeepsHistory
  <2>3. ProposeAcceptedStep \/ QuietStep => db' = db
    BY DEF ProposeAcceptedStep, ProposeAccepted, QuietStep
  <2> QED
    BY <2>1, <2>2, <2>3, StepKinds, ApproveVerdict, RejectVerdict
<1>2. IInv /\ [Next]_vars => [KeepsHistory(db, db')]_vars
  BY <1>1
<1> QED
  BY <1>2, InductiveInvariant, PTL DEF Spec, HistoryFrozen

\* No step changes the content of a proposal, and no step changes a decided one: of
\* several deciders only the first has an effect (approve_proposal, reject_proposal).
THEOREM DecisionsAreFinal == Spec => DecisionFinal
<1> DEFINE Final ==
        \A i \in DOMAIN proposals :
          /\ i \in DOMAIN proposals'
          /\ \A f \in {"request_id", "scope", "proposed_by", "target_type", "action",
                       "target_id", "patch", "provenance"} :
                 proposals'[i][f] = proposals[i][f]
          /\ proposals[i].status # "pending" => proposals'[i] = proposals[i]
<1>1. ASSUME IInv, [Next]_vars PROVE Final
  <2>1. TypeOK /\ Sound(db)
    BY <1>1 DEF IInv
  <2>2. CASE QuietStep
    BY <2>2 DEF QuietStep
  <2>3. CASE ProposeAcceptedStep
    BY <2>1, <2>3, AcceptedTable, QueueAssumption DEF ProposeAcceptedStep
  <2>4. ASSUME NEW id, NEW st, Verdict(id, st) PROVE Final
    BY <2>1, <2>4, VerdictKeepsContent DEF Verdict
  <2> QED
    BY <1>1, <2>1, <2>2, <2>3, <2>4, StepKinds, ApproveVerdict, RejectVerdict
<1>2. IInv /\ [Next]_vars => [Final]_vars
  BY <1>1
<1> QED
  BY <1>2, InductiveInvariant, PTL DEF Spec, DecisionFinal

-----------------------------------------------------------------------------
(* The quota. *)

\* What the client of an accepted submission has pending grows by the new row, what
\* anyone else has pending does not grow.
LEMMA AcceptedPending ==
  ASSUME TypeOK, NEW c \in Clients, NEW r \in RequestIds, NEW sc \in Scopes,
         NEW s \in Submission, ProposeAccepted(c, r, sc, s),
         NEW b \in Clients, NEW scope \in Scopes
  PROVE  PendingOf(b, scope)' \subseteq
            IF b = c /\ scope = sc THEN PendingOf(c, sc) \cup {Len(proposals) + 1}
                                   ELSE PendingOf(b, scope)
<1>1. /\ DOMAIN proposals' = DOMAIN proposals \cup {Len(proposals) + 1}
      /\ \A i \in DOMAIN proposals : proposals'[i] = proposals[i]
      /\ proposals'[Len(proposals) + 1] = NewProposal(c, r, sc, s)
  BY AcceptedTable
<1>2. NewProposal(c, r, sc, s).proposed_by = c /\ NewProposal(c, r, sc, s).scope = sc
  BY DEF NewProposal
<1> QED
  BY <1>1, <1>2 DEF PendingOf

\* A verdict adds to no client what it has pending.
LEMMA VerdictPending ==
  ASSUME TypeOK, NEW id, NEW st \in {"approved", "rejected"}, Verdict(id, st),
         NEW c, NEW sc
  PROVE  PendingOf(c, sc)' \subseteq PendingOf(c, sc)
  BY VerdictKeepsContent DEF PendingOf, Verdict

\* What a client has pending is a finite set, so that it can be counted.
LEMMA PendingFinite ==
  ASSUME TypeOK, NEW c, NEW sc
  PROVE  IsFiniteSet(PendingOf(c, sc)) /\ Cardinality(PendingOf(c, sc)) \in Nat
<1>1. IsFiniteSet(1..Len(proposals))
  BY ProposalsTable, FS_Interval
<1>2. PendingOf(c, sc) \subseteq 1..Len(proposals)
  BY ProposalsTable DEF PendingOf
<1> QED
  BY <1>1, <1>2, FS_Subset, FS_CardinalityType

\* However submissions, retries and decisions interleave, no client has more undecided
\* proposals in a scope than the limit (propose_update).
THEOREM QuotaRespected == Spec => []PendingWithinQuota
<1>1. Init => PendingWithinQuota
  <2> SUFFICES ASSUME Init, NEW c \in Clients, NEW sc \in Scopes
               PROVE  Cardinality(PendingOf(c, sc)) <= MaxPending
    BY DEF PendingWithinQuota
  <2>1. PendingOf(c, sc) = {}
    BY DEF Init, PendingOf
  <2> QED
    BY <2>1, FS_EmptySet, QueueAssumption
<1>2. IInv /\ IInv' /\ PendingWithinQuota /\ [Next]_vars => PendingWithinQuota'
  <2> SUFFICES ASSUME IInv, IInv', PendingWithinQuota, [Next]_vars,
                      NEW b \in Clients, NEW scope \in Scopes
               PROVE  Cardinality(PendingOf(b, scope)') <= MaxPending
    BY DEF PendingWithinQuota
  <2>1. TypeOK /\ TypeOK' /\ Sound(db) /\ MaxPending \in Nat
    BY QueueAssumption DEF IInv
  <2>2. /\ Cardinality(PendingOf(b, scope)) <= MaxPending
        /\ IsFiniteSet(PendingOf(b, scope))
        /\ Cardinality(PendingOf(b, scope)) \in Nat
    BY <2>1, PendingFinite DEF PendingWithinQuota
  <2>3. ASSUME PendingOf(b, scope)' \subseteq PendingOf(b, scope)
        PROVE  Cardinality(PendingOf(b, scope)') <= MaxPending
    <3>1. /\ Cardinality(PendingOf(b, scope)') <= Cardinality(PendingOf(b, scope))
          /\ Cardinality(PendingOf(b, scope)') \in Nat
      BY <2>2, <2>3, FS_Subset, FS_CardinalityType
    <3> QED
      BY <2>1, <2>2, <3>1
  <2>4. CASE QuietStep
    BY <2>3, <2>4 DEF QuietStep, PendingOf
  <2>5. ASSUME NEW id, NEW st \in {"approved", "rejected"}, Verdict(id, st)
        PROVE  Cardinality(PendingOf(b, scope)') <= MaxPending
    BY <2>1, <2>3, <2>5, VerdictPending
  <2>6. ASSUME NEW c \in Clients, NEW r \in RequestIds, NEW sc \in Scopes,
               NEW s \in Submissions, ProposeAccepted(c, r, sc, s)
        PROVE  Cardinality(PendingOf(b, scope)') <= MaxPending
    <3>1. s \in Submission
      BY QueueAssumption
    <3>2. CASE ~(b = c /\ scope = sc)
      BY <2>1, <2>3, <2>6, <3>1, <3>2, AcceptedPending
    <3>3. CASE b = c /\ scope = sc
      <4> DEFINE P == PendingOf(b, scope)
                 n == Len(proposals) + 1
      <4>1. PendingOf(b, scope)' \subseteq P \cup {n}
        BY <2>1, <2>6, <3>1, <3>3, AcceptedPending
      <4>2. Cardinality(P) < MaxPending
        BY <2>6, <3>3 DEF ProposeAccepted, PassesChecks, HasRoom
      <4>3. IsFiniteSet(P) /\ Cardinality(P) \in Nat
        BY <2>2
      <4> DEFINE Q == PendingOf(b, scope)'
      <4>4. Q \subseteq P \cup {n}
        BY <4>1
      <4> HIDE DEF P, Q, n
      <4>5. /\ IsFiniteSet(P \cup {n})
            /\ Cardinality(P \cup {n}) = IF n \in P THEN Cardinality(P)
                                                   ELSE Cardinality(P) + 1
        BY <4>3, FS_AddElement
      <4>6. Cardinality(P \cup {n}) <= Cardinality(P) + 1
        BY <4>3, <4>5
      <4>7. Cardinality(Q) <= Cardinality(P \cup {n}) /\ IsFiniteSet(Q)
        BY <4>4, <4>5, FS_Subset
      <4>8. Cardinality(Q) \in Nat /\ Cardinality(P \cup {n}) \in Nat
        BY <4>5, <4>7, FS_CardinalityType
      <4>9. Cardinality(Q) <= MaxPending
        BY <2>1, <4>2, <4>3, <4>6, <4>7, <4>8
      <4> QED
        BY <4>9 DEF Q
    <3> QED
      BY <3>2, <3>3
  <2> QED
    BY <2>1, <2>4, <2>5, <2>6, StepKinds, ApproveVerdict, RejectVerdict
       DEF ProposeAcceptedStep
<1> QED
  BY <1>1, <1>2, InductiveInvariant, PTL DEF Spec

-----------------------------------------------------------------------------
(* The refinement. *)

WithStatus(st) == RequestsOf({i \in DOMAIN proposals : proposals[i].status = st})

\* In the promise, a verdict moves one undecided request to the decided ones.
LEMMA VerdictRefines ==
  ASSUME TypeOK, UniqueRequests, NEW id, NEW st \in {"approved", "rejected"},
         Verdict(id, st)
  PROVE  LET r == proposals[id].request_id
         IN  /\ r \in RequestIds /\ r \in RequestsOf(DOMAIN proposals)
             /\ r \notin WithStatus("approved") /\ r \notin WithStatus("rejected")
             /\ RequestsOf(DOMAIN proposals)' = RequestsOf(DOMAIN proposals)
             /\ WithStatus(st)' = WithStatus(st) \cup {r}
             /\ \A other \in {"approved", "rejected"} \ {st} :
                    WithStatus(other)' = WithStatus(other)
<1> DEFINE r == proposals[id].request_id
<1>1. /\ id \in DOMAIN proposals /\ proposals[id].status = "pending"
      /\ DOMAIN proposals' = DOMAIN proposals
      /\ proposals'[id].status = st
      /\ \A i \in DOMAIN proposals : i # id => proposals'[i] = proposals[i]
      /\ \A i \in DOMAIN proposals : proposals'[i].request_id = proposals[i].request_id
  BY VerdictKeepsContent DEF Verdict
<1>2. proposals[id] \in Proposal
  BY <1>1, ProposalsTable
<1>3. r \in RequestIds /\ r \in RequestsOf(DOMAIN proposals)
  BY <1>1, <1>2 DEF Proposal, RequestsOf
<1>4. r \notin WithStatus("approved") /\ r \notin WithStatus("rejected")
  BY <1>1 DEF WithStatus, RequestsOf, UniqueRequests
<1>5. RequestsOf(DOMAIN proposals)' = RequestsOf(DOMAIN proposals)
  BY <1>1 DEF RequestsOf
<1>6. WithStatus(st)' = WithStatus(st) \cup {r}
  BY <1>1 DEF WithStatus, RequestsOf
<1>7. \A other \in {"approved", "rejected"} \ {st} : WithStatus(other)' = WithStatus(other)
  BY <1>1 DEF WithStatus, RequestsOf
<1> QED
  BY <1>3, <1>4, <1>5, <1>6, <1>7

\* Tables that keep the superseded facts keep the history of the promise.
LEMMA HistoryGrows ==
  ASSUME NEW d, NEW e, KeepsHistory(d, e)
  PROVE  HistoryOf(d) \subseteq HistoryOf(e)
  BY DEF KeepsHistory, HistoryOf

\* The queue keeps the promise of ReviewedMemory: every step submits one new request,
\* decides one undecided request, or is invisible.
THEOREM QueueImplementsPromise == Spec => ImplementsReviewedMemory
<1>1. Init => Reviewed!Init
  BY DEF Init, Reviewed!Init, RequestsOf
<1>2. IInv /\ [Next]_vars => [Reviewed!Next]_(Reviewed!vars)
  <2> SUFFICES ASSUME IInv, [Next]_vars
               PROVE  Reviewed!Next \/ UNCHANGED Reviewed!vars
    OBVIOUS
  <2>1. TypeOK /\ Sound(db) /\ UniqueRequests
    BY DEF IInv
  <2>2. CASE QuietStep
    BY <2>2 DEF QuietStep, Reviewed!vars, RequestsOf, HistoryOf
  <2>3. CASE ProposeAcceptedStep
    <3>1. PICK c \in Clients, r \in RequestIds, sc \in Scopes, s \in Submissions :
              ProposeAccepted(c, r, sc, s)
      BY <2>3 DEF ProposeAcceptedStep
    <3>2. s \in Submission
      BY QueueAssumption
    <3>3. /\ DOMAIN proposals' = DOMAIN proposals \cup {Len(proposals) + 1}
          /\ \A i \in DOMAIN proposals : proposals'[i] = proposals[i]
          /\ proposals'[Len(proposals) + 1] = NewProposal(c, r, sc, s)
      BY <2>1, <3>1, <3>2, AcceptedTable
    <3>4. /\ NewProposal(c, r, sc, s).request_id = r
          /\ NewProposal(c, r, sc, s).status = "pending"
      BY DEF NewProposal
    <3>5. /\ r \notin RequestsOf(DOMAIN proposals)
          /\ RequestsOf(DOMAIN proposals)' = RequestsOf(DOMAIN proposals) \cup {r}
      BY <3>1, <3>3, <3>4 DEF RequestsOf, ProposeAccepted, Taken
    <3>6. \A st \in {"approved", "rejected"} : WithStatus(st)' = WithStatus(st)
      BY <3>3, <3>4 DEF WithStatus, RequestsOf
    <3>7. db' = db
      BY <3>1 DEF ProposeAccepted
    <3>8. Reviewed!Submit(r)
      BY <3>5, <3>6, <3>7 DEF Reviewed!Submit, WithStatus, HistoryOf
    <3> QED
      BY <3>8 DEF Reviewed!Next
  <2>4. ASSUME NEW w \in Workers, ApproveProposal(w)
        PROVE  Reviewed!Next
    <3> DEFINE id == call[w].id
    <3>1. Verdict(id, "approved") /\ KeepsHistory(db, db')
      BY <2>1, <2>4, ApproveVerdict
    <3>2. HistoryOf(db) \subseteq HistoryOf(db')
      BY <3>1, HistoryGrows
    <3> HIDE DEF id
    <3>3. Reviewed!Approve(proposals[id].request_id)
      BY <2>1, <3>1, <3>2, VerdictRefines
         DEF Reviewed!Approve, Reviewed!Undecided, WithStatus, HistoryOf
    <3>4. proposals[id].request_id \in RequestIds
      BY <2>1, <3>1, VerdictRefines
    <3> QED
      BY <3>3, <3>4 DEF Reviewed!Next
  <2>5. ASSUME NEW w \in Workers, RejectProposal(w)
        PROVE  Reviewed!Next
    <3> DEFINE id == call[w].id
    <3>1. Verdict(id, "rejected") /\ db' = db
      BY <2>1, <2>5, RejectVerdict
    <3> HIDE DEF id
    <3>2. Reviewed!Reject(proposals[id].request_id)
      BY <2>1, <3>1, VerdictRefines
         DEF Reviewed!Reject, Reviewed!Undecided, WithStatus, HistoryOf
    <3>3. proposals[id].request_id \in RequestIds
      BY <2>1, <3>1, VerdictRefines
    <3> QED
      BY <3>2, <3>3 DEF Reviewed!Next
  <2> QED
    BY <2>1, <2>2, <2>3, <2>4, <2>5, StepKinds
<1> QED
  BY <1>1, <1>2, InductiveInvariant, PTL DEF Spec, ImplementsReviewedMemory, Reviewed!Spec
-----------------------------------------------------------------------------
(* What an approval leaves behind, in the tables d before and e after it.    *)

KeepsRefs(d, e) ==
    \A i \in DOMAIN d["ref"] :
        /\ i \in DOMAIN e["ref"]
        /\ e["ref"][i].scope = d["ref"][i].scope
        /\ e["ref"][i].parent = d["ref"][i].parent

Grows(p, t) == (t = p.target_type /\ InsertLike(p)) \/ (t = "ref" /\ p.provenance.given)

\* What "apply" does, before the source is registered.
AppliedRow(d, e, p, result) ==
    /\ \A t \in TargetTypes :
           Len(e[t]) = IF t = p.target_type /\ InsertLike(p) THEN Len(d[t]) + 1 ELSE Len(d[t])
    /\ InsertLike(p) => result = Len(d[p.target_type]) + 1
    /\ p.action = "supersede" =>
           /\ p.target_id \in DOMAIN d["fact"]
           /\ p.target_id \in DOMAIN e["fact"]
           /\ result # 0 /\ e["fact"][p.target_id].superseded_by = result
    /\ KeepsRefs(d, e)

Applied(d, e, p, result, source) ==
    /\ \A t \in TargetTypes : Len(e[t]) = IF Grows(p, t) THEN Len(d[t]) + 1 ELSE Len(d[t])
    /\ InsertLike(p) => result = Len(d[p.target_type]) + 1
    /\ p.action = "supersede" =>
           /\ p.target_id \in DOMAIN e["fact"]
           /\ result # 0 /\ e["fact"][p.target_id].superseded_by = result
    /\ KeepsRefs(d, e)
    /\ IF p.provenance.given
       THEN /\ p.target_type # "ref"
            /\ source = Len(d["ref"]) + 1
            /\ RowVisible(e, "ref", source, {p.scope})
            /\ e["ref"][source].parent = [type |-> p.target_type, id |-> result]
       ELSE source = p.provenance_id

\* Lengths of the tables are numbers, and their rows have the ids 1 .. length.
LEMMA TableLengths ==
  ASSUME NEW d \in Database, NEW t \in TargetTypes
  PROVE  d[t] \in Seq(Row) /\ Len(d[t]) \in Nat /\ DOMAIN d[t] = 1..Len(d[t])
  BY LenProperties DEF Database

\* An approved insertion appends its row.
LEMMA InsertApplied ==
  ASSUME TypeOK, NEW p \in Proposal, p.action = "insert"
  PROVE  AppliedRow(db, Insert(db, p.target_type, p.patch, p.scope), p,
                    Len(db[p.target_type]) + 1)
<1> DEFINE t == p.target_type
           e == Insert(db, t, p.patch, p.scope)
<1>1. /\ db \in Database /\ t \in TargetTypes /\ p.patch \in Patch /\ p.scope \in Scopes
      /\ "ref" \in TargetTypes
  BY DEF TypeOK, Proposal, TargetTypes, ContentTypes
<1>2. InsertLike(p) /\ p.action # "supersede"
  BY DEF InsertLike
<1> HIDE DEF t, e
<1>3. /\ e \in Database
      /\ \A u \in TargetTypes : u # t => e[u] = db[u]
      /\ Len(e[t]) = Len(db[t]) + 1
      /\ \A i \in DOMAIN db[t] : e[t][i] = db[t][i]
  BY <1>1, InsertEffect DEF e
<1>4. KeepsRefs(db, e)
  <2>1. DOMAIN db["ref"] \subseteq DOMAIN e["ref"]
    BY <1>1, <1>3, TableLengths
  <2> QED
    BY <1>1, <1>3, <2>1 DEF KeepsRefs
<1> QED
  BY <1>2, <1>3, <1>4 DEF AppliedRow, t, e

\* An approved update appends nothing and moves no ref.
LEMMA UpdateApplied ==
  ASSUME TypeOK, NEW p \in Proposal, p.action = "update",
         CanUpdate(db, p.target_type, p.target_id, p.patch, p.scope)
  PROVE  AppliedRow(db, Update(db, p.target_type, p.target_id, p.patch), p, p.target_id)
<1> DEFINE t == p.target_type
           id == p.target_id
           e == Update(db, t, id, p.patch)
<1>1. /\ db \in Database /\ t \in TargetTypes /\ p.patch \in Patch
      /\ "ref" \in TargetTypes
  BY DEF TypeOK, Proposal, TargetTypes, ContentTypes
<1>2. ~InsertLike(p) /\ p.action # "supersede"
  BY DEF InsertLike
<1>3. id \in DOMAIN db[t] /\ (t = "ref" => p.patch.parent = NoLink)
  BY DEF CanUpdate, RowVisible
<1> HIDE DEF t, id, e
<1>4. /\ \A u \in TargetTypes : u # t => e[u] = db[u]
      /\ Len(e[t]) = Len(db[t]) /\ DOMAIN e[t] = DOMAIN db[t]
      /\ \A i \in DOMAIN db[t] : i # id => e[t][i] = db[t][i]
      /\ e[t][id] = Merged(db[t][id], p.patch)
  BY <1>1, <1>3, UpdateEffect DEF e
<1>5. /\ Merged(db[t][id], p.patch).scope = db[t][id].scope
      /\ t = "ref" => Merged(db[t][id], p.patch).parent = db[t][id].parent
  BY <1>3 DEF Merged, Coalesce
<1>6. KeepsRefs(db, e)
  BY <1>1, <1>4, <1>5 DEF KeepsRefs
<1> QED
  BY <1>2, <1>4, <1>6 DEF AppliedRow, t, id, e

\* An approved supersede appends its row and links the fact it names to it.
LEMMA SupersedeApplied ==
  ASSUME TypeOK, NEW p \in Proposal, p.action = "supersede", p.target_type = "fact",
         CanSupersede(db, p.target_id, p.patch, p.scope)
  PROVE  AppliedRow(db, Supersede(db, p.target_id, p.patch, p.scope), p,
                    Len(db["fact"]) + 1)
<1> DEFINE id == p.target_id
           e == Supersede(db, id, p.patch, p.scope)
           n == Len(db["fact"]) + 1
<1>1. /\ db \in Database /\ p.patch \in Patch /\ p.scope \in Scopes
      /\ "ref" \in TargetTypes /\ "ref" # "fact" /\ "fact" \in TargetTypes
  BY DEF TypeOK, Proposal, TargetTypes, ContentTypes
<1>2. InsertLike(p) /\ id \in DOMAIN db["fact"]
  BY DEF InsertLike, CanSupersede, RowVisible
<1>3. Len(db["fact"]) \in Nat /\ DOMAIN db["fact"] = 1..Len(db["fact"])
  BY <1>1, TableLengths
<1> HIDE DEF id, e
<1>4. /\ e \in Database
      /\ \A u \in TargetTypes : u # "fact" => e[u] = db[u]
      /\ Len(e["fact"]) = n
      /\ e["fact"][id] = [db["fact"][id] EXCEPT !.superseded_by = n]
  BY <1>1, <1>2, SupersedeEffect DEF e
<1>5. db["fact"][id] \in Row
  BY <1>1, <1>2, FactTable
<1>6. e["fact"][id].superseded_by = n
  BY <1>4, <1>5 DEF Row
<1>7. id \in DOMAIN e["fact"] /\ n # 0
  BY <1>1, <1>2, <1>3, <1>4, TableLengths
<1>8. KeepsRefs(db, e)
  BY <1>1, <1>4 DEF KeepsRefs
<1> QED
  BY <1>2, <1>4, <1>6, <1>7, <1>8 DEF AppliedRow, id, e

\* Registering the source appends one ref that hangs from the result, and no row that
\* the approval wrote is touched.
LEMMA MaterializedApplied ==
  ASSUME NEW c \in Database, NEW d \in Database, NEW p \in Proposal, NEW result \in Nat,
         AppliedRow(c, d, p, result), CanMaterialize(d, p, result)
  PROVE  Applied(c, Materialized(d, p, result), p, result, SourceId(d, p))
<1> DEFINE t == p.target_type
<1>1. CASE ~p.provenance.given
  BY <1>1 DEF Materialized, SourceId, AppliedRow, Applied, Grows
<1>2. CASE p.provenance.given
  <2> DEFINE patch == SourcePatch(p, result)
             e == Insert(d, "ref", patch, p.scope)
             n == Len(d["ref"]) + 1
  <2>1. "ref" \in TargetTypes /\ "ref" # "fact" /\ "ref" \in ContentTypes
    BY DEF TargetTypes, ContentTypes
  <2>2. patch \in Patch /\ p.scope \in Scopes /\ t \in TargetTypes
    BY SourcePatchType DEF Proposal
  <2>3. t # "ref"
    BY <1>2 DEF CanMaterialize
  <2>4. patch.parent = [type |-> t, id |-> result]
    BY DEF SourcePatch, EmptyPatch
  <2> HIDE DEF patch, e, t
  <2>5. /\ e \in Database
        /\ \A u \in TargetTypes : u # "ref" => e[u] = d[u]
        /\ Len(e["ref"]) = n
        /\ \A i \in DOMAIN d["ref"] : e["ref"][i] = d["ref"][i]
        /\ e["ref"][n] = NewRow("ref", patch, p.scope)
    BY <2>1, <2>2, InsertEffect DEF e
  <2>6. /\ Len(d["ref"]) = Len(c["ref"]) /\ Len(c["ref"]) \in Nat
        /\ DOMAIN d["ref"] = 1..Len(d["ref"]) /\ DOMAIN e["ref"] = 1..Len(e["ref"])
    BY <2>1, <2>3, <2>5, TableLengths DEF AppliedRow, t
  <2>7. n \in DOMAIN e["ref"] /\ e["ref"][n].scope = p.scope
        /\ e["ref"][n].parent = [type |-> t, id |-> result]
    BY <2>1, <2>4, <2>5, <2>6 DEF NewRow
  <2>8. KeepsRefs(c, e)
    BY <2>5, <2>6 DEF AppliedRow, KeepsRefs
  <2>9. \A u \in TargetTypes : Len(e[u]) = IF Grows(p, u) THEN Len(c[u]) + 1 ELSE Len(c[u])
    BY <1>2, <2>3, <2>5, <2>6 DEF AppliedRow, Grows, t
  <2>10. "fact" \in TargetTypes /\ e["fact"] = d["fact"]
    BY <2>1, <2>5 DEF TargetTypes, ContentTypes
  <2>11. /\ Materialized(d, p, result) = e
         /\ SourceId(d, p) = n
    BY <1>2 DEF Materialized, SourceId, e, patch
  <2>12. RowVisible(e, "ref", n, {p.scope})
    BY <2>7 DEF RowVisible
  <2> QED
    BY <1>2, <2>3, <2>6, <2>7, <2>8, <2>9, <2>10, <2>11, <2>12 DEF Applied, AppliedRow, t
<1> QED
  BY <1>1, <1>2

Approved(id, by, result, source) ==
    /\ Verdict(id, "approved")
    /\ proposals'[id] = Decided(proposals[id], "approved", by, result, source)
    /\ audit' = Logged(by, "approve", id)
    /\ sent' = sent
    /\ KeepsHistory(db, db')
    /\ Applied(db, db', proposals[id], result, source)

\* An approval decides its proposal, tells the log, and applies the proposal to the
\* tables once.
LEMMA ApprovalOutcome ==
  ASSUME TypeOK, Sound(db), NEW w \in Workers, ApproveProposal(w)
  PROVE  \E id \in DOMAIN proposals, by \in Humans, result \in Nat :
             \E source : Approved(id, by, result, source)
<1> DEFINE k == call[w]
           p == proposals[k.id]
           t == p.target_type
<1>1. /\ \E action : Approving(w, action)
      /\ Verdict(k.id, "approved") /\ KeepsHistory(db, db')
  BY ApproveVerdict DEF ApproveProposal, ApproveInsert, ApproveUpdate, ApproveSupersede
<1>2. /\ k.id \in DOMAIN proposals /\ p \in Proposal /\ p.status = "pending"
      /\ k.client \in Humans
  <2>1. call[w] # None
    BY <1>1 DEF Approving
  <2> QED
    BY <1>1, <2>1, ApprovedProposal, CallsTable
<1>3. SUFFICES \E d \in Database, result \in Nat :
                   CommitApproval(w, d, result) /\ AppliedRow(db, d, p, result)
  <2>1. PICK d \in Database, result \in Nat :
            CommitApproval(w, d, result) /\ AppliedRow(db, d, p, result)
    BY <1>3
  <2>2. /\ CanMaterialize(d, p, result)
        /\ db' = Materialized(d, p, result)
        /\ proposals' = [proposals EXCEPT ![k.id] =
                            Decided(@, "approved", k.client, result, SourceId(d, p))]
        /\ audit' = Logged(k.client, "approve", k.id)
        /\ sent' = sent
    BY <2>1 DEF CommitApproval
  <2>3. proposals'[k.id] = Decided(p, "approved", k.client, result, SourceId(d, p))
    BY <1>2, <2>2
  <2>4. Applied(db, db', p, result, SourceId(d, p))
    BY <1>2, <2>1, <2>2, MaterializedApplied DEF TypeOK
  <2>5. Approved(k.id, k.client, result, SourceId(d, p))
    BY <1>1, <2>2, <2>3, <2>4 DEF Approved
  <2> HIDE DEF k, p
  <2> QED
    BY <1>2, <2>5
<1>4. CASE ApproveInsert(w)
  <2> DEFINE d == Insert(db, t, p.patch, p.scope)
             result == Len(db[t]) + 1
  <2>1. CommitApproval(w, d, result) /\ p.action = "insert"
    BY <1>4 DEF ApproveInsert, Approving
  <2>2. AppliedRow(db, d, p, result)
    BY <1>2, <2>1, InsertApplied
  <2>3. /\ db \in Database /\ t \in TargetTypes /\ p.patch \in Patch /\ p.scope \in Scopes
    BY <1>2 DEF TypeOK, Proposal
  <2> HIDE DEF p, t
  <2>4. d \in Database /\ result \in Nat
    BY <2>3, InsertEffect, TableLengths
  <2> QED
    BY <2>1, <2>2, <2>4
<1>5. CASE ApproveUpdate(w)
  <2> DEFINE d == Update(db, t, p.target_id, p.patch)
  <2>1. /\ CommitApproval(w, d, p.target_id) /\ p.action = "update"
        /\ CanUpdate(db, t, p.target_id, p.patch, p.scope)
    BY <1>5 DEF ApproveUpdate, Approving
  <2>2. AppliedRow(db, d, p, p.target_id)
    BY <1>2, <2>1, UpdateApplied
  <2>3. /\ db \in Database /\ t \in TargetTypes /\ p.patch \in Patch
        /\ p.target_id \in Nat /\ p.target_id \in DOMAIN db[t]
    BY <1>2, <2>1 DEF TypeOK, Proposal, CanUpdate, RowVisible
  <2> HIDE DEF p, t
  <2>4. d \in Database
    BY <2>3, UpdateEffect
  <2> QED
    BY <2>1, <2>2, <2>3, <2>4
<1>6. CASE ApproveSupersede(w)
  <2> DEFINE d == Supersede(db, p.target_id, p.patch, p.scope)
             result == Len(db["fact"]) + 1
  <2>1. /\ CommitApproval(w, d, result) /\ p.action = "supersede"
        /\ CanSupersede(db, p.target_id, p.patch, p.scope)
        /\ p.target_type = "fact"
    BY <1>6, ApprovedProposal DEF ApproveSupersede, Approving
  <2>2. AppliedRow(db, d, p, result)
    BY <1>2, <2>1, SupersedeApplied
  <2>3. /\ db \in Database /\ p.patch \in Patch /\ p.scope \in Scopes
        /\ p.target_id \in DOMAIN db["fact"]
    BY <1>2, <2>1 DEF TypeOK, Proposal, CanSupersede, RowVisible
  <2> HIDE DEF p
  <2>4. d \in Database
    BY <2>3, SupersedeEffect
  <2>5. result \in Nat
    BY <2>3, FactTable
  <2> QED
    BY <2>1, <2>2, <2>4, <2>5
<1> QED
  BY <1>4, <1>5, <1>6 DEF ApproveProposal
Rejected(id, by) ==
    /\ Verdict(id, "rejected")
    /\ proposals'[id] = Decided(proposals[id], "rejected", by, 0, proposals[id].provenance_id)
    /\ audit' = Logged(by, "reject", id)
    /\ sent' = sent
    /\ db' = db

Accepted(c, r, sc, s) ==
    LET n == Len(proposals) + 1
    IN  /\ n \in Nat /\ n \notin DOMAIN proposals
        /\ DOMAIN proposals' = DOMAIN proposals \cup {n}
        /\ \A i \in DOMAIN proposals : proposals'[i] = proposals[i] /\ sent'[i] = sent[i]
        /\ proposals'[n] = NewProposal(c, r, sc, s)
        /\ sent'[n] = [client |-> c, scope |-> sc, content |-> s]
        /\ ProvenanceAcceptable(s, sc)
        /\ audit' = Logged(c, "propose", n)
        /\ db' = db

\* A rejection decides its proposal and tells the log.
LEMMA RejectionOutcome ==
  ASSUME TypeOK, NEW w \in Workers, RejectProposal(w)
  PROVE  \E id \in DOMAIN proposals, by \in Humans : Rejected(id, by)
<1> DEFINE k == call[w]
<1>1. k.client \in Humans /\ k.id \in DOMAIN proposals
  BY CallsTable DEF RejectProposal, Decidable
<1>2. /\ proposals' = [proposals EXCEPT ![k.id] =
                        Decided(@, "rejected", k.client, 0, @.provenance_id)]
      /\ audit' = Logged(k.client, "reject", k.id) /\ sent' = sent
  BY DEF RejectProposal
<1>3. Verdict(k.id, "rejected") /\ db' = db
  BY RejectVerdict
<1> HIDE DEF k
<1>4. Rejected(k.id, k.client)
  BY <1>1, <1>2, <1>3 DEF Rejected
<1> QED
  BY <1>1, <1>4

\* An accepted submission adds one row to the table and to the history.
LEMMA AcceptanceOutcome ==
  ASSUME TypeOK, ProposeAcceptedStep
  PROVE  \E c \in Clients, r \in RequestIds, sc \in Scopes, s \in Submissions :
             Accepted(c, r, sc, s)
<1>1. PICK c \in Clients, r \in RequestIds, sc \in Scopes, s \in Submissions :
          ProposeAccepted(c, r, sc, s)
  BY DEF ProposeAcceptedStep
<1>2. s \in Submission /\ Len(proposals) \in Nat /\ DOMAIN proposals = 1..Len(proposals)
  BY QueueAssumption, ProposalsTable
<1> DEFINE n == Len(proposals) + 1
           m == [client |-> c, scope |-> sc, content |-> s]
<1>3. /\ DOMAIN proposals' = DOMAIN proposals \cup {n}
      /\ \A i \in DOMAIN proposals : proposals'[i] = proposals[i]
      /\ proposals'[n] = NewProposal(c, r, sc, s)
  BY <1>1, <1>2, AcceptedTable
<1>4. m \in Sent /\ sent \in Seq(Sent) /\ sent' = Append(sent, m) /\ Len(sent) = Len(proposals)
  BY <1>1, <1>2 DEF Sent, ProposeAccepted, TypeOK
<1> HIDE DEF m
<1>5. (\A i \in 1..Len(sent) : sent'[i] = sent[i]) /\ sent'[n] = m
  BY <1>4, AppendProperties
<1>6. /\ ProvenanceAcceptable(s, sc) /\ db' = db
      /\ audit' = Logged(c, "propose", n)
  BY <1>1 DEF ProposeAccepted, PassesChecks
<1>7. n \in Nat /\ n \notin DOMAIN proposals
  BY <1>2
<1>8. \A i \in DOMAIN proposals : sent'[i] = sent[i]
  BY <1>2, <1>4, <1>5
<1>9. Accepted(c, r, sc, s)
  BY <1>3, <1>5, <1>6, <1>7, <1>8 DEF Accepted, m
<1> QED
  BY <1>9

\* The outcomes of a step.
LEMMA Outcomes ==
  ASSUME IInv, [Next]_vars
  PROVE  \/ QuietStep
         \/ \E c \in Clients, r \in RequestIds, sc \in Scopes, s \in Submissions :
                Accepted(c, r, sc, s)
         \/ \E id \in DOMAIN proposals, by \in Humans, result \in Nat :
                \E source : Approved(id, by, result, source)
         \/ \E id \in DOMAIN proposals, by \in Humans : Rejected(id, by)
<1>1. TypeOK /\ Sound(db)
  BY DEF IInv
<1>2. CASE ProposeAcceptedStep
  BY <1>1, <1>2, AcceptanceOutcome
<1>3. ASSUME NEW w \in Workers, ApproveProposal(w)
      PROVE  \E id \in DOMAIN proposals, by \in Humans, result \in Nat :
                \E source : Approved(id, by, result, source)
  BY <1>1, <1>3, ApprovalOutcome
<1>4. ASSUME NEW w \in Workers, RejectProposal(w)
      PROVE  \E id \in DOMAIN proposals, by \in Humans : Rejected(id, by)
  BY <1>1, <1>4, RejectionOutcome
<1> QED
  BY <1>1, <1>2, <1>3, <1>4, StepKinds

\* The columns of a proposal after its decision.
LEMMA DecidedColumns ==
  ASSUME NEW p \in Proposal, NEW st, NEW by, NEW result, NEW source
  PROVE  LET q == Decided(p, st, by, result, source)
         IN  /\ q.status = st /\ q.decided_by = by
             /\ q.result_id = result /\ q.provenance_id = source
             /\ q.request_id = p.request_id /\ q.scope = p.scope
             /\ q.proposed_by = p.proposed_by /\ q.target_type = p.target_type
             /\ q.action = p.action /\ q.target_id = p.target_id
             /\ q.patch = p.patch /\ q.provenance = p.provenance
  BY DEF Decided, Proposal

-----------------------------------------------------------------------------
(* Supersedes keep their place. *)

SupersedesLinked ==
    \A i \in DOMAIN proposals :
        (proposals[i].status = "approved" /\ proposals[i].action = "supersede") =>
            /\ proposals[i].target_id \in DOMAIN db["fact"]
            /\ proposals[i].result_id # 0
            /\ db["fact"][proposals[i].target_id].superseded_by = proposals[i].result_id

\* A link once made is history, and an approval makes the one it is for.
LEMMA StepKeepsSupersedes ==
  ASSUME IInv, [Next]_vars, SupersedesLinked
  PROVE  SupersedesLinked'
<1>1. TypeOK /\ \A i \in DOMAIN proposals : proposals[i] \in Proposal
  BY ProposalsTable DEF IInv
<1>2. CASE QuietStep
  BY <1>2 DEF QuietStep, SupersedesLinked
<1>3. ASSUME NEW c \in Clients, NEW r \in RequestIds, NEW sc \in Scopes,
             NEW s \in Submissions, Accepted(c, r, sc, s)
      PROVE  SupersedesLinked'
  <2>1. NewProposal(c, r, sc, s).status = "pending"
    BY DEF NewProposal
  <2> QED
    BY <1>3, <2>1 DEF Accepted, SupersedesLinked
<1>4. ASSUME NEW id \in DOMAIN proposals, NEW by \in Humans, Rejected(id, by)
      PROVE  SupersedesLinked'
  <2>1. proposals'[id].status = "rejected"
    BY <1>1, <1>4, DecidedColumns DEF Rejected
  <2> QED
    BY <1>4, <2>1 DEF Rejected, Verdict, SupersedesLinked
<1>5. ASSUME NEW id \in DOMAIN proposals, NEW by \in Humans, NEW result \in Nat, NEW source,
             Approved(id, by, result, source)
      PROVE  SupersedesLinked'
  <2> SUFFICES ASSUME NEW i \in DOMAIN proposals,
                      proposals'[i].status = "approved", proposals'[i].action = "supersede"
               PROVE  /\ proposals'[i].target_id \in DOMAIN db'["fact"]
                      /\ proposals'[i].result_id # 0
                      /\ db'["fact"][proposals'[i].target_id].superseded_by
                            = proposals'[i].result_id
    BY <1>5 DEF Approved, Verdict, SupersedesLinked
  <2>1. CASE i # id
    <3>1. proposals'[i] = proposals[i] /\ KeepsHistory(db, db')
      BY <1>5, <2>1 DEF Approved, Verdict
    <3>2. /\ proposals[i].target_id \in DOMAIN db["fact"]
          /\ proposals[i].result_id # 0
          /\ db["fact"][proposals[i].target_id].superseded_by = proposals[i].result_id
      BY <3>1 DEF SupersedesLinked
    <3> QED
      BY <3>1, <3>2 DEF KeepsHistory
  <2>2. CASE i = id
    <3>1. /\ proposals[id] \in Proposal
          /\ proposals'[id] = Decided(proposals[id], "approved", by, result, source)
          /\ Applied(db, db', proposals[id], result, source)
      BY <1>1, <1>5 DEF Approved
    <3>2. /\ proposals'[id].action = proposals[id].action
          /\ proposals'[id].target_id = proposals[id].target_id
          /\ proposals'[id].result_id = result
      BY <3>1, DecidedColumns
    <3> QED
      BY <2>2, <3>1, <3>2 DEF Applied
  <2> QED
    BY <2>1, <2>2
<1> QED
  BY <1>2, <1>3, <1>4, <1>5, Outcomes

\* The versions of a fact form one line, and of several proposals to supersede one fact
\* the one that took effect stays its successor (facts::supersede).
THEOREM VersionsStayAgreed == Spec => []VersionsAgree
<1>1. Init => SupersedesLinked
  BY DEF Init, SupersedesLinked
<1>2. IInv /\ [Next]_vars /\ SupersedesLinked => SupersedesLinked'
  BY StepKeepsSupersedes
<1>3. IInv /\ SupersedesLinked => VersionsAgree
  <2>1. SupersedesLinked => SupersedesAgree
    BY DEF SupersedesLinked, SupersedesAgree, ApprovedWith
  <2> QED
    BY <2>1 DEF IInv, Sound, VersionsAgree, SupersessionLinear
<1> QED
  BY <1>1, <1>2, <1>3, InductiveInvariant, PTL DEF Spec

-----------------------------------------------------------------------------
(* Sources stay attached. *)

SourceAttached(d, p) ==
    /\ p.provenance_id # 0 => RowVisible(d, "ref", p.provenance_id, {p.scope})
    /\ (p.status = "approved" /\ p.provenance.given) =>
          /\ p.provenance_id \in DOMAIN d["ref"]
          /\ d["ref"][p.provenance_id].parent = [type |-> p.target_type, id |-> p.result_id]

\* No ref moves, so what is attached stays attached.
LEMMA AttachedMonotone ==
  ASSUME NEW d, NEW e, NEW p, KeepsRefs(d, e), SourceAttached(d, p)
  PROVE  SourceAttached(e, p)
  BY DEF SourceAttached, KeepsRefs, RowVisible

EverySourceAttached == \A i \in DOMAIN proposals : SourceAttached(db, proposals[i])

\* A submission names a ref of its scope or none, an approval creates the ref it names.
LEMMA StepKeepsSources ==
  ASSUME IInv, [Next]_vars, EverySourceAttached
  PROVE  EverySourceAttached'
<1>1. TypeOK /\ \A i \in DOMAIN proposals : proposals[i] \in Proposal
  BY ProposalsTable DEF IInv
<1>2. CASE QuietStep
  BY <1>2 DEF QuietStep, EverySourceAttached
<1>3. ASSUME NEW c \in Clients, NEW r \in RequestIds, NEW sc \in Scopes,
             NEW s \in Submissions, Accepted(c, r, sc, s)
      PROVE  EverySourceAttached'
  <2> DEFINE p == NewProposal(c, r, sc, s)
  <2>1. /\ p.status = "pending" /\ p.scope = sc
        /\ p.provenance_id = s.provenance.ref_id
    BY DEF NewProposal
  <2>2. ~s.provenance.given => s.provenance.ref_id = 0
    BY QueueAssumption DEF NoProvenance
  <2>3. ProvenanceAcceptable(s, sc)
    BY <1>3 DEF Accepted
  <2> HIDE DEF p
  <2>4. SourceAttached(db, p)
    BY <2>1, <2>2, <2>3 DEF SourceAttached, ProvenanceAcceptable
  <2> QED
    BY <1>3, <2>4 DEF Accepted, EverySourceAttached, p
<1>4. ASSUME NEW id \in DOMAIN proposals, NEW by \in Humans, Rejected(id, by)
      PROVE  EverySourceAttached'
  <2>1. /\ proposals'[id].status = "rejected"
        /\ proposals'[id].provenance_id = proposals[id].provenance_id
        /\ proposals'[id].scope = proposals[id].scope
    BY <1>1, <1>4, DecidedColumns DEF Rejected
  <2>2. SourceAttached(db, proposals'[id])
    BY <2>1 DEF SourceAttached, EverySourceAttached
  <2> QED
    BY <1>4, <2>2 DEF Rejected, Verdict, EverySourceAttached
<1>5. ASSUME NEW id \in DOMAIN proposals, NEW by \in Humans, NEW result \in Nat, NEW source,
             Approved(id, by, result, source)
      PROVE  EverySourceAttached'
  <2> DEFINE p == proposals[id]
             q == Decided(p, "approved", by, result, source)
  <2>1. Applied(db, db', p, result, source) /\ proposals'[id] = q
    BY <1>5 DEF Approved
  <2>2. KeepsRefs(db, db') /\ SourceAttached(db, p)
    BY <2>1 DEF Applied, EverySourceAttached
  <2>3. /\ q.provenance_id = source /\ q.result_id = result /\ q.scope = p.scope
        /\ q.provenance = p.provenance /\ q.target_type = p.target_type
    BY <1>1, DecidedColumns
  <2>4. SourceAttached(db', p)
    BY <2>2, AttachedMonotone
  <2> HIDE DEF q, p
  <2>5. ASSUME p.provenance.given PROVE SourceAttached(db', q)
    BY <2>1, <2>3, <2>5 DEF Applied, SourceAttached, RowVisible
  <2>6. ASSUME ~p.provenance.given PROVE SourceAttached(db', q)
    BY <2>1, <2>3, <2>4, <2>6 DEF Applied, SourceAttached
  <2>7. SourceAttached(db', q)
    BY <2>5, <2>6
  <2>8. \A i \in DOMAIN proposals : i # id => SourceAttached(db', proposals'[i])
    BY <1>5, <2>2, AttachedMonotone DEF Approved, Verdict, EverySourceAttached
  <2> QED
    BY <1>5, <2>1, <2>7, <2>8 DEF Approved, Verdict, EverySourceAttached
<1> QED
  BY <1>2, <1>3, <1>4, <1>5, Outcomes

\* A proposal's source stays a ref of its own scope, and the one an approval created
\* stays attached to the row it produced (materialize_provenance).
THEOREM SourcesStayAttached == Spec => []SourcesAttached
<1>1. Init => EverySourceAttached
  BY DEF Init, EverySourceAttached
<1>2. IInv /\ [Next]_vars /\ EverySourceAttached => EverySourceAttached'
  BY StepKeepsSources
<1>3. EverySourceAttached => SourcesAttached
  BY DEF EverySourceAttached, SourceAttached, SourcesAttached, Sourced, ApprovedWith
<1> QED
  BY <1>1, <1>2, <1>3, InductiveInvariant, PTL DEF Spec
-----------------------------------------------------------------------------
(* Resends are known. *)

\* The proposal p still carries what the call m sent, an approval having touched its
\* provenance_id at most when the source was sent inline.
Carries(p, m) ==
    LET s == m.content
    IN  /\ s \in Submissions
        /\ p.proposed_by = m.client /\ p.scope = m.scope
        /\ p.target_type = s.target_type /\ p.action = s.action
        /\ p.target_id = s.target_id /\ p.patch = s.patch
        /\ p.provenance = StoredProvenance(s)
        /\ ~p.provenance.given => p.provenance_id = s.provenance.ref_id
        /\ s.provenance.given =>
              IF s.provenance.ref_id # 0 THEN s.provenance.inline = None
                                         ELSE s.provenance.inline \notin {None, Blank}

EveryCallKept == \A i \in DOMAIN proposals : Carries(proposals[i], sent[i])

\* An accepted submission is stored as it was sent, and no verdict edits it.
LEMMA StepKeepsCalls ==
  ASSUME IInv, [Next]_vars, EveryCallKept
  PROVE  EveryCallKept'
<1>1. TypeOK /\ \A i \in DOMAIN proposals : proposals[i] \in Proposal
  BY ProposalsTable DEF IInv
<1>2. CASE QuietStep
  BY <1>2 DEF QuietStep, EveryCallKept
<1>3. ASSUME NEW c \in Clients, NEW r \in RequestIds, NEW sc \in Scopes,
             NEW s \in Submissions, Accepted(c, r, sc, s)
      PROVE  EveryCallKept'
  <2> DEFINE p == NewProposal(c, r, sc, s)
             m == [client |-> c, scope |-> sc, content |-> s]
             n == Len(proposals) + 1
  <2>1. /\ p.proposed_by = c /\ p.scope = sc
        /\ p.target_type = s.target_type /\ p.action = s.action
        /\ p.target_id = s.target_id /\ p.patch = s.patch
        /\ p.provenance = StoredProvenance(s)
        /\ p.provenance_id = s.provenance.ref_id
    BY DEF NewProposal
  <2>2. m.client = c /\ m.scope = sc /\ m.content = s
    OBVIOUS
  <2>3. ProvenanceAcceptable(s, sc)
    BY <1>3 DEF Accepted
  <2>4. /\ DOMAIN proposals' = DOMAIN proposals \cup {n}
        /\ \A i \in DOMAIN proposals : proposals'[i] = proposals[i] /\ sent'[i] = sent[i]
        /\ proposals'[n] = p /\ sent'[n] = m
    BY <1>3 DEF Accepted
  <2> HIDE DEF p, m, n
  <2>5. Carries(p, m)
    BY <2>1, <2>2, <2>3 DEF Carries, ProvenanceAcceptable
  <2> QED
    BY <2>4, <2>5 DEF EveryCallKept
<1>4. ASSUME NEW id \in DOMAIN proposals, NEW st, NEW by, NEW result, NEW source,
             Verdict(id, st), sent' = sent,
             proposals'[id] = Decided(proposals[id], st, by, result, source),
             ~proposals[id].provenance.given => source = proposals[id].provenance_id
      PROVE  EveryCallKept'
  <2> DEFINE p == proposals[id]
             q == Decided(p, st, by, result, source)
  <2>1. /\ q.provenance_id = source /\ q.scope = p.scope
        /\ q.proposed_by = p.proposed_by /\ q.target_type = p.target_type
        /\ q.action = p.action /\ q.target_id = p.target_id
        /\ q.patch = p.patch /\ q.provenance = p.provenance
    BY <1>1, DecidedColumns
  <2>2. Carries(p, sent[id]) /\ (~p.provenance.given => source = p.provenance_id)
    BY <1>4 DEF EveryCallKept
  <2>3. proposals'[id] = q
    BY <1>4
  <2> HIDE DEF p, q
  <2>4. Carries(q, sent[id])
    BY <2>1, <2>2 DEF Carries
  <2> QED
    BY <1>4, <2>3, <2>4 DEF Verdict, EveryCallKept
<1>5. ASSUME NEW id \in DOMAIN proposals, NEW by \in Humans, Rejected(id, by)
      PROVE  EveryCallKept'
  BY <1>4, <1>5 DEF Rejected
<1>6. ASSUME NEW id \in DOMAIN proposals, NEW by \in Humans, NEW result \in Nat, NEW source,
             Approved(id, by, result, source)
      PROVE  EveryCallKept'
  <2>1. ~proposals[id].provenance.given => source = proposals[id].provenance_id
    BY <1>6 DEF Approved, Applied
  <2> QED
    BY <1>4, <1>6, <2>1 DEF Approved
<1> QED
  BY <1>2, <1>3, <1>5, <1>6, Outcomes

\* The comparison that answers "duplicate" sees the content that was sent.
LEMMA ComparisonSound ==
  ASSUME NEW p, NEW m, Carries(p, m), NEW s \in Submissions
  PROVE  SameContent(p, s) <=> Normal(m.content) = Normal(s)
<1> DEFINE u == m.content
<1>1. /\ u \in Submission /\ s \in Submission
      /\ ~u.provenance.given => u.provenance = NoProvenance
      /\ ~s.provenance.given => s.provenance = NoProvenance
  BY QueueAssumption DEF Carries
<1>2. /\ p.target_type = u.target_type /\ p.action = u.action
      /\ p.target_id = u.target_id /\ p.patch = u.patch
      /\ p.provenance = StoredProvenance(u)
      /\ ~p.provenance.given => p.provenance_id = u.provenance.ref_id
      /\ u.provenance.given =>
            IF u.provenance.ref_id # 0 THEN u.provenance.inline = None
                                       ELSE u.provenance.inline \notin {None, Blank}
  BY DEF Carries
<1> HIDE DEF u
<1> DEFINE Empty(v) == v.provenance.ref_id = 0 /\ v.provenance.inline = None
           Kept(v) == IF Empty(v) THEN NoProvenance ELSE v.provenance
<1>3. ASSUME NEW v \in Submission, NEW w \in Submission
      PROVE  Normal(v) = Normal(w) <=>
                /\ v.target_type = w.target_type /\ v.action = w.action
                /\ v.target_id = w.target_id /\ v.patch = w.patch
                /\ Kept(v) = Kept(w)
  BY DEF Normal, Submission
<1>4. NoProvenance.ref_id = 0 /\ NoProvenance.inline = None /\ ~NoProvenance.given
  BY DEF NoProvenance
<1>5. u.provenance \in Provenance /\ s.provenance \in Provenance
  BY <1>1 DEF Submission
<1>6. SameProvenance(p, s.provenance) <=> Kept(u) = Kept(s)
  <2>1. CASE p.provenance.given
    <3>1. p.provenance = u.provenance /\ ~Empty(u) /\ u.provenance.given
      BY <1>2, <1>4, <2>1 DEF StoredProvenance
    <3> QED
      BY <1>4, <2>1, <3>1 DEF SameProvenance
  <2>2. CASE ~p.provenance.given
    <3>1. p.provenance_id = u.provenance.ref_id /\ u.provenance.inline = None
      BY <1>1, <1>2, <1>4, <2>2 DEF StoredProvenance
    <3>2. SameProvenance(p, s.provenance) <=>
              s.provenance.ref_id = u.provenance.ref_id /\ s.provenance.inline = None
      BY <2>2, <3>1 DEF SameProvenance
    <3>3. CASE u.provenance.ref_id = 0
      BY <1>4, <3>1, <3>2, <3>3
    <3>4. CASE u.provenance.ref_id # 0
      <4>1. ~Empty(u) /\ u.provenance.given
        BY <1>1, <1>4, <3>4
      <4>2. s.provenance.ref_id # 0 => s.provenance.given /\ ~Empty(s)
        BY <1>1, <1>4
      <4>3. Kept(s) = u.provenance => s.provenance = u.provenance
        BY <1>4, <3>4
      <4>4. (s.provenance.ref_id = u.provenance.ref_id /\ s.provenance.inline = None)
                => s.provenance = u.provenance
        BY <1>5, <3>1, <3>4, <4>1, <4>2 DEF Provenance
      <4> QED
        BY <3>1, <3>2, <4>1, <4>2, <4>3, <4>4
    <3> QED
      BY <3>3, <3>4
  <2> QED
    BY <2>1, <2>2
<1> HIDE DEF Kept
<1>7. SameContent(p, s) <=> Normal(u) = Normal(s)
  BY <1>1, <1>2, <1>3, <1>6 DEF SameContent
<1> QED
  BY <1>7 DEF u

\* A resent call is answered as a duplicate, and no other call is, however the calls and
\* the decisions interleave; and no client fills the queue by it (propose_update).
THEOREM SubmissionsAreHeld == Spec => []SubmissionsHold
<1>1. Init => EveryCallKept
  BY DEF Init, EveryCallKept
<1>2. IInv /\ [Next]_vars /\ EveryCallKept => EveryCallKept'
  BY StepKeepsCalls
<1>3. IInv /\ EveryCallKept => RetrySemantics
  <2> SUFFICES ASSUME IInv, EveryCallKept,
                      NEW c \in Clients, NEW r \in RequestIds, NEW sc \in Scopes,
                      NEW s \in Submissions
               PROVE  IsDuplicate(c, r, sc, s) <=>
                        \E i \in DOMAIN sent : /\ proposals[i].request_id = r
                                               /\ sent[i].client = c /\ sent[i].scope = sc
                                               /\ Normal(sent[i].content) = Normal(s)
    BY DEF RetrySemantics
  <2>1. DOMAIN sent = DOMAIN proposals
    BY LenProperties DEF IInv, TypeOK
  <2>2. \A i \in DOMAIN proposals :
            /\ proposals[i].proposed_by = sent[i].client
            /\ proposals[i].scope = sent[i].scope
            /\ SameContent(proposals[i], s) <=> Normal(sent[i].content) = Normal(s)
    <3> SUFFICES ASSUME NEW i \in DOMAIN proposals
                 PROVE  /\ proposals[i].proposed_by = sent[i].client
                        /\ proposals[i].scope = sent[i].scope
                        /\ SameContent(proposals[i], s) <=> Normal(sent[i].content) = Normal(s)
      OBVIOUS
    <3>1. Carries(proposals[i], sent[i])
      BY DEF EveryCallKept
    <3> QED
      BY <3>1, ComparisonSound DEF Carries
  <2> QED
    BY <2>1, <2>2 DEF IsDuplicate, FoundAt
<1>4. RetrySemantics /\ PendingWithinQuota => SubmissionsHold
  BY DEF SubmissionsHold
<1> QED
  BY <1>1, <1>2, <1>3, <1>4, InductiveInvariant, QuotaRespected, PTL DEF Spec
-----------------------------------------------------------------------------
(* Decisions take effect once: in the log ...                                *)

VerdictsOn(i) == {e \in Verdicts(audit) : e.subject = i}

TheVerdict(i) ==
    IF proposals[i].status = "pending" THEN {}
    ELSE {[actor   |-> proposals[i].decided_by,
           action  |-> IF proposals[i].status = "approved" THEN "approve" ELSE "reject",
           subject |-> i]}

LogTells ==
    /\ \A e \in Verdicts(audit) : e.subject \in DOMAIN proposals
    /\ \A i \in DOMAIN proposals : VerdictsOn(i) = TheVerdict(i)

\* A verdict is logged as it is given.
LEMMA VerdictLogged ==
  ASSUME IInv, LogTells, NEW id \in DOMAIN proposals, NEW by,
         NEW st \in {"approved", "rejected"}, NEW result, NEW source,
         Verdict(id, st),
         proposals'[id] = Decided(proposals[id], st, by, result, source),
         audit' = Logged(by, IF st = "approved" THEN "approve" ELSE "reject", id)
  PROVE  LogTells'
<1> DEFINE e == [actor |-> by, action |-> IF st = "approved" THEN "approve" ELSE "reject",
                 subject |-> id]
<1>1. proposals[id] \in Proposal
  BY ProposalsTable DEF IInv
<1>2. proposals'[id].status = st /\ proposals'[id].decided_by = by
  BY <1>1, DecidedColumns
<1>3. Verdicts(audit') = Verdicts(audit) \cup {e} /\ e.subject = id
  BY DEF Verdicts, Logged
<1>4. TheVerdict(id)' = {e}
  BY <1>2 DEF TheVerdict
<1> HIDE DEF e
<1>5. VerdictsOn(id) = {}
  BY DEF LogTells, TheVerdict, Verdict
<1>6. VerdictsOn(id)' = {e}
  BY <1>3, <1>5 DEF VerdictsOn
<1>7. ASSUME NEW i \in DOMAIN proposals, i # id
      PROVE  VerdictsOn(i)' = TheVerdict(i)'
  BY <1>3, <1>7 DEF VerdictsOn, TheVerdict, Verdict, LogTells
<1>8. DOMAIN proposals' = DOMAIN proposals
  BY DEF Verdict
<1> QED
  BY <1>3, <1>4, <1>6, <1>7, <1>8 DEF LogTells

\* Only a verdict logs a verdict.
LEMMA StepKeepsLog ==
  ASSUME IInv, [Next]_vars, LogTells
  PROVE  LogTells'
<1>1. CASE QuietStep
  BY <1>1 DEF QuietStep, LogTells, VerdictsOn, TheVerdict
<1>2. ASSUME NEW c \in Clients, NEW r \in RequestIds, NEW sc \in Scopes,
             NEW s \in Submissions, Accepted(c, r, sc, s)
      PROVE  LogTells'
  <2>0. PICK n : n = Len(proposals) + 1
    OBVIOUS
  <2>1. /\ n \notin DOMAIN proposals
        /\ DOMAIN proposals' = DOMAIN proposals \cup {n}
        /\ \A i \in DOMAIN proposals : proposals'[i] = proposals[i]
        /\ proposals'[n] = NewProposal(c, r, sc, s)
        /\ audit' = Logged(c, "propose", n)
    BY <1>2, <2>0 DEF Accepted
  <2>2. Verdicts(audit') = Verdicts(audit)
    BY <2>1, OtherEntries
  <2>3. proposals'[n].status = "pending"
    BY <2>1 DEF NewProposal
  <2>4. VerdictsOn(n)' = TheVerdict(n)'
    BY <2>1, <2>2, <2>3 DEF LogTells, VerdictsOn, TheVerdict
  <2>5. ASSUME NEW i \in DOMAIN proposals
        PROVE  VerdictsOn(i)' = TheVerdict(i)'
    BY <2>1, <2>2 DEF LogTells, VerdictsOn, TheVerdict
  <2> QED
    BY <2>1, <2>2, <2>4, <2>5 DEF LogTells
<1>3. ASSUME NEW id \in DOMAIN proposals, NEW by \in Humans, Rejected(id, by)
      PROVE  LogTells'
  BY <1>3, VerdictLogged DEF Rejected
<1>4. ASSUME NEW id \in DOMAIN proposals, NEW by \in Humans, NEW result \in Nat, NEW source,
             Approved(id, by, result, source)
      PROVE  LogTells'
  BY <1>4, VerdictLogged DEF Approved
<1> QED
  BY <1>1, <1>2, <1>3, <1>4, Outcomes

-----------------------------------------------------------------------------
(* ... and in the tables.                                                    *)

ApprovedInto(t) ==
    {i \in DOMAIN proposals : /\ proposals[i].status = "approved"
                              /\ proposals[i].target_type = t /\ InsertLike(proposals[i])}

ApprovedSourced ==
    {i \in DOMAIN proposals : proposals[i].status = "approved" /\ proposals[i].provenance.given}

ResultsIn(t) == {proposals[i].result_id : i \in ApprovedInto(t)}

SourcesIn == {proposals[i].provenance_id : i \in ApprovedSourced}

\* The rows of t that approvals account for; each is accounted for once.
Accounted(t) ==
    LET sources == IF t = "ref" THEN SourcesIn ELSE {}
    IN  /\ Len(Seed[t]) <= Len(db[t])
        /\ ResultsIn(t) \cap sources = {}
        /\ ResultsIn(t) \cup sources = Len(Seed[t]) + 1 .. Len(db[t])
        /\ Cardinality(ResultsIn(t)) = Cardinality(ApprovedInto(t))
        /\ t = "ref" => Cardinality(SourcesIn) = Cardinality(ApprovedSourced)

\* One more member on both sides keeps two finite sets equally large.
LEMMA OneMoreEach ==
  ASSUME NEW S, NEW T, IsFiniteSet(S), IsFiniteSet(T), Cardinality(S) = Cardinality(T),
         NEW x, x \notin S, NEW y, y \notin T
  PROVE  Cardinality(S \cup {x}) = Cardinality(T \cup {y})
  BY FS_AddElement

\* The sets that are counted are finite.
LEMMA CountedFinite ==
  ASSUME IInv, NEW t \in TargetTypes, Accounted(t)
  PROVE  /\ IsFiniteSet(ApprovedInto(t)) /\ IsFiniteSet(ApprovedSourced)
         /\ IsFiniteSet(ResultsIn(t)) /\ (t = "ref" => IsFiniteSet(SourcesIn))
         /\ Len(Seed[t]) \in Nat /\ Len(db[t]) \in Nat
<1>1. IsFiniteSet(1..Len(proposals)) /\ DOMAIN proposals = 1..Len(proposals)
  BY ProposalsTable, FS_Interval DEF IInv
<1>2. IsFiniteSet(ApprovedInto(t)) /\ IsFiniteSet(ApprovedSourced)
  BY <1>1, FS_Subset DEF ApprovedInto, ApprovedSourced
<1>3. Len(Seed[t]) \in Nat /\ Len(db[t]) \in Nat
  BY SeedAssumption, TableLengths DEF IInv, TypeOK
<1> DEFINE first == Len(Seed[t]) + 1
           last  == Len(db[t])
           added == first .. last
<1>4. IsFiniteSet(added)
  <2>1. first \in Int /\ last \in Int
    BY <1>3
  <2> HIDE DEF first, last
  <2> QED
    BY <2>1, FS_Interval
<1>5. ResultsIn(t) \subseteq added /\ (t = "ref" => SourcesIn \subseteq added)
  BY DEF Accounted
<1> QED
  BY <1>2, <1>3, <1>4, <1>5, FS_Subset

\* What an approval adds to each of the sets.
LEMMA ApprovalAccounts ==
  ASSUME IInv, NEW id \in DOMAIN proposals, NEW by, NEW result, NEW source,
         Verdict(id, "approved"),
         proposals'[id] = Decided(proposals[id], "approved", by, result, source)
  PROVE  /\ id \notin ApprovedSourced
         /\ ApprovedSourced' = IF proposals[id].provenance.given
                               THEN ApprovedSourced \cup {id} ELSE ApprovedSourced
         /\ SourcesIn' = IF proposals[id].provenance.given
                         THEN SourcesIn \cup {source} ELSE SourcesIn
         /\ \A t : /\ id \notin ApprovedInto(t)
                   /\ ApprovedInto(t)' =
                         IF t = proposals[id].target_type /\ InsertLike(proposals[id])
                         THEN ApprovedInto(t) \cup {id} ELSE ApprovedInto(t)
                   /\ ResultsIn(t)' =
                         IF t = proposals[id].target_type /\ InsertLike(proposals[id])
                         THEN ResultsIn(t) \cup {result} ELSE ResultsIn(t)
<1> DEFINE p == proposals[id]
           q == Decided(p, "approved", by, result, source)
<1>1. p \in Proposal
  BY ProposalsTable DEF IInv
<1>2. /\ q.status = "approved" /\ q.target_type = p.target_type /\ q.action = p.action
      /\ q.provenance = p.provenance /\ q.result_id = result /\ q.provenance_id = source
  BY <1>1, DecidedColumns
<1>3. /\ p.status = "pending" /\ proposals'[id] = q
      /\ DOMAIN proposals' = DOMAIN proposals
      /\ \A i \in DOMAIN proposals : i # id => proposals'[i] = proposals[i]
  BY DEF Verdict
<1> HIDE DEF q
<1>4. ApprovedSourced' = IF p.provenance.given THEN ApprovedSourced \cup {id} ELSE ApprovedSourced
  BY <1>2, <1>3 DEF ApprovedSourced
<1>5. SourcesIn' = IF p.provenance.given THEN SourcesIn \cup {source} ELSE SourcesIn
  BY <1>2, <1>3, <1>4 DEF SourcesIn, ApprovedSourced
<1>6. id \notin ApprovedSourced
  BY <1>3 DEF ApprovedSourced
<1>7. ASSUME NEW t
      PROVE  /\ id \notin ApprovedInto(t)
             /\ ApprovedInto(t)' = IF t = p.target_type /\ InsertLike(p)
                                   THEN ApprovedInto(t) \cup {id} ELSE ApprovedInto(t)
             /\ ResultsIn(t)' = IF t = p.target_type /\ InsertLike(p)
                                THEN ResultsIn(t) \cup {result} ELSE ResultsIn(t)
  <2>1. id \notin ApprovedInto(t)
    BY <1>3 DEF ApprovedInto
  <2>2. ApprovedInto(t)' = IF t = p.target_type /\ InsertLike(p)
                           THEN ApprovedInto(t) \cup {id} ELSE ApprovedInto(t)
    BY <1>2, <1>3 DEF ApprovedInto, InsertLike
  <2>3. ResultsIn(t)' = IF t = p.target_type /\ InsertLike(p)
                        THEN ResultsIn(t) \cup {result} ELSE ResultsIn(t)
    BY <1>2, <1>3, <2>1, <2>2 DEF ResultsIn, ApprovedInto
  <2> QED
    BY <2>1, <2>2, <2>3
<1> QED
  BY <1>4, <1>5, <1>6, <1>7

\* A step that approves nothing leaves the sets, and the tables, as they are.
LEMMA NothingApproved ==
  ASSUME db' = db, DOMAIN proposals \subseteq DOMAIN proposals',
         \A i \in DOMAIN proposals :
             proposals[i].status = "approved" => proposals'[i] = proposals[i],
         \A i \in DOMAIN proposals' :
             proposals'[i].status = "approved" =>
                 i \in DOMAIN proposals /\ proposals[i].status = "approved",
         NEW t, Accounted(t)
  PROVE  Accounted(t)'
<1>1. ApprovedInto(t)' = ApprovedInto(t) /\ ApprovedSourced' = ApprovedSourced
  BY DEF ApprovedInto, ApprovedSourced
<1>2. ResultsIn(t)' = ResultsIn(t) /\ SourcesIn' = SourcesIn
  BY <1>1 DEF ResultsIn, SourcesIn, ApprovedInto, ApprovedSourced
<1> QED
  BY <1>1, <1>2 DEF Accounted

\* An approval appends the rows it accounts for, each at the end of its table.
LEMMA ApprovalKeepsAccounts ==
  ASSUME IInv, NEW id \in DOMAIN proposals, NEW by, NEW result \in Nat, NEW source,
         Approved(id, by, result, source), NEW t \in TargetTypes, Accounted(t)
  PROVE  Accounted(t)'
<1> DEFINE p == proposals[id]
           inserts == t = p.target_type /\ InsertLike(p)
           sources == t = "ref" /\ p.provenance.given
           a == Len(Seed[t])
           b == Len(db[t])
           R == ResultsIn(t)
           S == IF t = "ref" THEN SourcesIn ELSE {}
<1>1. /\ Verdict(id, "approved")
      /\ proposals'[id] = Decided(p, "approved", by, result, source)
      /\ Applied(db, db', p, result, source)
  BY DEF Approved
<1>2. /\ id \notin ApprovedSourced /\ id \notin ApprovedInto(t)
      /\ ApprovedSourced' = IF p.provenance.given
                            THEN ApprovedSourced \cup {id} ELSE ApprovedSourced
      /\ SourcesIn' = IF p.provenance.given THEN SourcesIn \cup {source} ELSE SourcesIn
      /\ ApprovedInto(t)' = IF inserts THEN ApprovedInto(t) \cup {id} ELSE ApprovedInto(t)
      /\ R' = IF inserts THEN R \cup {result} ELSE R
  BY <1>1, ApprovalAccounts
<1>3. /\ IsFiniteSet(ApprovedInto(t)) /\ IsFiniteSet(ApprovedSourced)
      /\ IsFiniteSet(R) /\ (t = "ref" => IsFiniteSet(SourcesIn))
      /\ a \in Nat /\ b \in Nat
  BY CountedFinite
<1>4. /\ a <= b /\ R \cap S = {} /\ R \cup S = a + 1 .. b
      /\ Cardinality(R) = Cardinality(ApprovedInto(t))
      /\ t = "ref" => Cardinality(SourcesIn) = Cardinality(ApprovedSourced)
  BY DEF Accounted
<1>5. /\ Len(db'[t]) = IF inserts \/ sources THEN b + 1 ELSE b
      /\ inserts => result = b + 1
      /\ sources => source = b + 1
      /\ ~(inserts /\ sources)
  BY <1>1 DEF Applied, Grows
<1>6. b + 1 \notin R /\ b + 1 \notin S /\ a + 1 .. b + 1 = (a + 1 .. b) \cup {b + 1}
  BY <1>3, <1>4
<1>7. /\ R' = IF inserts THEN R \cup {b + 1} ELSE R
      /\ S' = IF sources THEN S \cup {b + 1} ELSE S
  BY <1>2, <1>5
<1>8. Cardinality(R') = Cardinality(ApprovedInto(t)')
  <2>1. CASE inserts
    <3>1. Cardinality(R \cup {b + 1}) = Cardinality(ApprovedInto(t) \cup {id})
      <4>1. PICK n : n = b + 1
        OBVIOUS
      <4>2. /\ n \notin R /\ IsFiniteSet(R) /\ id \notin ApprovedInto(t) /\ IsFiniteSet(ApprovedInto(t))
            /\ Cardinality(R) = Cardinality(ApprovedInto(t))
        BY <1>2, <1>3, <1>4, <2>1, <1>6, <4>1
      <4>3. Cardinality(R \cup {n}) = Cardinality(ApprovedInto(t) \cup {id})
        BY <4>2, OneMoreEach
      <4> QED
        BY <4>1, <4>3
    <3> QED
      BY <1>2, <1>7, <2>1, <3>1
  <2> QED
    BY <1>2, <1>4, <1>7, <2>1
<1>9. t = "ref" => Cardinality(SourcesIn') = Cardinality(ApprovedSourced')
  <2>1. CASE sources
    <3>1. Cardinality(SourcesIn \cup {b + 1}) = Cardinality(ApprovedSourced \cup {id})
      <4>1. PICK n : n = b + 1
        OBVIOUS
      <4>2. /\ n \notin SourcesIn /\ IsFiniteSet(SourcesIn) /\ id \notin ApprovedSourced /\ IsFiniteSet(ApprovedSourced)
            /\ Cardinality(SourcesIn) = Cardinality(ApprovedSourced)
        BY <1>2, <1>3, <1>4, <2>1, <1>6, <4>1
      <4>3. Cardinality(SourcesIn \cup {n}) = Cardinality(ApprovedSourced \cup {id})
        BY <4>2, OneMoreEach
      <4> QED
        BY <4>1, <4>3
    <3> QED
      BY <1>2, <1>5, <2>1, <3>1
  <2> QED
    BY <1>2, <1>4, <2>1
<1>10. a <= Len(db'[t]) /\ R' \cap S' = {} /\ R' \cup S' = a + 1 .. Len(db'[t])
  <2> HIDE DEF R, S, a, b, inserts, sources
  <2>1. CASE inserts
    BY <1>3, <1>4, <1>5, <1>6, <1>7, <2>1
  <2>2. CASE sources
    BY <1>3, <1>4, <1>5, <1>6, <1>7, <2>2
  <2>3. CASE ~inserts /\ ~sources
    BY <1>3, <1>4, <1>5, <1>6, <1>7, <2>3
  <2> QED
    BY <2>1, <2>2, <2>3
<1> QED
  BY <1>8, <1>9, <1>10 DEF Accounted

AllAccounted == \A t \in TargetTypes : Accounted(t)

\* Every step keeps the accounts of every table.
LEMMA StepKeepsAccounts ==
  ASSUME IInv, [Next]_vars, AllAccounted
  PROVE  AllAccounted'
<1> SUFFICES ASSUME NEW t \in TargetTypes PROVE Accounted(t)'
  BY DEF AllAccounted
<1>1. /\ Accounted(t) /\ \A i \in DOMAIN proposals : proposals[i] \in Proposal
  BY ProposalsTable DEF AllAccounted, IInv
<1>2. CASE QuietStep
  BY <1>1, <1>2, NothingApproved DEF QuietStep
<1>3. ASSUME NEW c \in Clients, NEW r \in RequestIds, NEW sc \in Scopes,
             NEW s \in Submissions, Accepted(c, r, sc, s)
      PROVE  Accounted(t)'
  <2>1. NewProposal(c, r, sc, s).status = "pending"
    BY DEF NewProposal
  <2> QED
    BY <1>1, <1>3, <2>1, NothingApproved DEF Accepted
<1>4. ASSUME NEW id \in DOMAIN proposals, NEW by \in Humans, Rejected(id, by)
      PROVE  Accounted(t)'
  <2>1. proposals'[id].status = "rejected" /\ proposals[id].status = "pending"
    BY <1>1, <1>4, DecidedColumns DEF Rejected, Verdict
  <2>2. db' = db /\ DOMAIN proposals' = DOMAIN proposals
    BY <1>4 DEF Rejected, Verdict
  <2>3. \A i \in DOMAIN proposals : i # id => proposals'[i] = proposals[i]
    BY <1>4 DEF Rejected, Verdict
  <2> QED
    BY <1>1, <2>1, <2>2, <2>3, NothingApproved
<1>5. ASSUME NEW id \in DOMAIN proposals, NEW by \in Humans, NEW result \in Nat, NEW source,
             Approved(id, by, result, source)
      PROVE  Accounted(t)'
  BY <1>1, <1>5, ApprovalKeepsAccounts
<1> QED
  BY <1>2, <1>3, <1>4, <1>5, Outcomes

\* A decision takes effect once: each row beyond the seed is the work of one approval,
\* each approval's work is in the tables, and the log holds one verdict for it
\* (approve_proposal, reject_proposal).
THEOREM DecisionsHappenOnce == Spec => []DecisionsTakeEffectOnce
<1>1. Init => AllAccounted /\ LogTells
  <2> SUFFICES ASSUME Init PROVE AllAccounted /\ LogTells
    OBVIOUS
  <2>1. DOMAIN proposals = {} /\ audit = {} /\ db = Seed
    BY DEF Init
  <2>2. ASSUME NEW t \in TargetTypes PROVE Accounted(t)
    <3>1. /\ ApprovedInto(t) = {} /\ ApprovedSourced = {}
          /\ ResultsIn(t) = {} /\ SourcesIn = {}
      BY <2>1 DEF ApprovedInto, ApprovedSourced, ResultsIn, SourcesIn
    <3>2. Len(Seed[t]) \in Nat
      BY SeedAssumption, TableLengths
    <3> QED
      BY <2>1, <3>1, <3>2 DEF Accounted
  <2>3. LogTells
    BY <2>1 DEF LogTells, Verdicts
  <2> QED
    BY <2>2, <2>3 DEF AllAccounted
<1>2. IInv /\ [Next]_vars /\ AllAccounted /\ LogTells => AllAccounted' /\ LogTells'
  BY StepKeepsAccounts, StepKeepsLog
<1>3. AllAccounted /\ LogTells => DecisionsTakeEffectOnce
  <2> SUFFICES ASSUME AllAccounted, LogTells PROVE DecisionsTakeEffectOnce
    OBVIOUS
  <2>1. \A t : InsertsInto(t) = ApprovedInto(t)
    BY DEF InsertsInto, ApprovedWith, ApprovedInto
  <2>2. Sourced = ApprovedSourced
    BY DEF Sourced, ApprovedWith, ApprovedSourced
  <2>3. EffectsExactlyOnce
    BY <2>1, <2>2 DEF EffectsExactlyOnce, AllAccounted, Accounted, ResultsIn, SourcesIn
  <2>4. DecisionsAudited
    BY DEF DecisionsAudited, LogTells, VerdictsOn, Verdicts, TheVerdict
  <2> QED
    BY <2>3, <2>4 DEF DecisionsTakeEffectOnce
<1> QED
  BY <1>1, <1>2, <1>3, InductiveInvariant, PTL DEF Spec

-----------------------------------------------------------------------------
(* What the desktop window takes for granted: the queue as ProposalDesk has  *)
(* it, a request, a proposer and a status per proposal.                      *)

Seen(p) == [request |-> p.request_id, by |-> p.proposed_by, status |-> p.status]

DeskQueue == [i \in DOMAIN proposals |-> Seen(proposals[i])]

\* Its two steps: the one of ServePropose, and the one of ServeDecision and OthersDecide.
DeskAppends ==
    \E r \in RequestIds : \E c \in Clients :
        /\ \A i \in DOMAIN DeskQueue : DeskQueue[i].request # r
        /\ DeskQueue' = Append(DeskQueue, [request |-> r, by |-> c, status |-> "pending"])

DeskDecides ==
    \E id \in DOMAIN DeskQueue : \E st \in {"approved", "rejected"} :
        /\ DeskQueue[id].status = "pending"
        /\ DeskQueue' = [DeskQueue EXCEPT ![id].status = st]

\* A decision of either kind changes one status of the desk's queue and nothing else.
LEMMA VerdictServesDesk ==
  ASSUME TypeOK, NEW id, NEW st \in {"approved", "rejected"}, Verdict(id, st)
  PROVE  DeskDecides
<1>1. /\ id \in DOMAIN proposals /\ proposals[id].status = "pending"
      /\ DOMAIN proposals' = DOMAIN proposals
      /\ proposals'[id].status = st
      /\ \A i \in DOMAIN proposals : i # id => proposals'[i] = proposals[i]
      /\ \A i \in DOMAIN proposals :
             /\ proposals'[i].request_id = proposals[i].request_id
             /\ proposals'[i].proposed_by = proposals[i].proposed_by
  BY VerdictKeepsContent DEF Verdict
<1>2. DOMAIN DeskQueue = DOMAIN proposals /\ DeskQueue[id].status = "pending"
  BY <1>1 DEF DeskQueue, Seen
<1>3. DeskQueue' = [i \in DOMAIN proposals |-> Seen(proposals'[i])]
  BY <1>1 DEF DeskQueue
<1>4. [DeskQueue EXCEPT ![id].status = st]
        = [i \in DOMAIN proposals |-> IF i = id THEN [Seen(proposals[id]) EXCEPT !.status = st]
                                                ELSE Seen(proposals[i])]
  BY <1>1 DEF DeskQueue
<1>5. Seen(proposals'[id]) = [Seen(proposals[id]) EXCEPT !.status = st]
  BY <1>1 DEF Seen
<1>6. \A i \in DOMAIN proposals : i # id => Seen(proposals'[i]) = Seen(proposals[i])
  BY <1>1
<1>7. DeskQueue' = [DeskQueue EXCEPT ![id].status = st]
  BY <1>3, <1>4, <1>5, <1>6
<1> QED
  BY <1>1, <1>2, <1>7 DEF DeskDecides

\* The window's view of the queue is the real one: seen through DeskQueue, the queue starts
\* empty, and each step of ProposalQueue appends one pending proposal under a request id
\* that no proposal has, decides one pending proposal, or cannot be seen.  What is proved
\* of ProposalDesk therefore rests on nothing the queue does not do.  propose_update,
\* approve_proposal and reject_proposal.
THEOREM QueueServesDesk ==
  Spec => DeskQueue = <<>> /\ [][DeskAppends \/ DeskDecides]_DeskQueue
<1>1. Init => DeskQueue = <<>>
  BY DEF Init, DeskQueue
<1>2. IInv /\ [Next]_vars => [DeskAppends \/ DeskDecides]_DeskQueue
  <2> SUFFICES ASSUME IInv, [Next]_vars
               PROVE  DeskAppends \/ DeskDecides \/ DeskQueue' = DeskQueue
    OBVIOUS
  <2>1. TypeOK /\ Sound(db) /\ UniqueRequests
    BY DEF IInv
  <2>2. CASE QuietStep
    BY <2>2 DEF QuietStep, DeskQueue
  <2>3. CASE ProposeAcceptedStep
    <3>1. PICK c \in Clients, r \in RequestIds, sc \in Scopes, s \in Submissions :
              ProposeAccepted(c, r, sc, s)
      BY <2>3 DEF ProposeAcceptedStep
    <3>2. s \in Submission
      BY QueueAssumption
    <3> DEFINE n == Len(proposals)
               new == [request |-> r, by |-> c, status |-> "pending"]
    <3>3. /\ DOMAIN proposals' = DOMAIN proposals \cup {n + 1}
          /\ \A i \in DOMAIN proposals : proposals'[i] = proposals[i]
          /\ proposals'[n + 1] = NewProposal(c, r, sc, s)
      BY <2>1, <3>1, <3>2, AcceptedTable
    <3>4. Seen(NewProposal(c, r, sc, s)) = new
      BY DEF Seen, NewProposal
    <3>5. \A i \in DOMAIN DeskQueue : DeskQueue[i].request # r
      BY <3>1 DEF DeskQueue, Seen, ProposeAccepted, Taken
    <3>6. n \in Nat /\ DOMAIN proposals = 1 .. n
      BY <2>1, ProposalsTable
    <3>7. DeskQueue' = [i \in 1 .. n + 1 |-> Seen(proposals'[i])]
      <4>1. DOMAIN proposals' = 1 .. n + 1
        BY <3>3, <3>6
      <4> QED
        BY <4>1 DEF DeskQueue
    <3>8. DeskQueue = [i \in 1 .. n |-> Seen(proposals[i])]
      BY <3>6 DEF DeskQueue
    <3> HIDE DEF n, new
    <3>9. Len(DeskQueue) = n
      BY <3>6, <3>8
    <3>10. Append(DeskQueue, new)
             = [i \in 1 .. n + 1 |-> IF i = n + 1 THEN new ELSE DeskQueue[i]]
      BY <3>6, <3>8, <3>9
    <3>11. DeskQueue' = Append(DeskQueue, new)
      BY <3>3, <3>4, <3>6, <3>7, <3>8, <3>10
    <3> QED
      BY <3>5, <3>11 DEF DeskAppends, new
  <2>4. ASSUME NEW w \in Workers, ApproveProposal(w)
        PROVE  DeskDecides
    BY <2>1, <2>4, ApproveVerdict, VerdictServesDesk
  <2>5. ASSUME NEW w \in Workers, RejectProposal(w)
        PROVE  DeskDecides
    BY <2>1, <2>5, RejectVerdict, VerdictServesDesk
  <2> QED
    BY <2>1, <2>2, <2>3, <2>4, <2>5, StepKinds
<1> QED
  BY <1>1, <1>2, InductiveInvariant, PTL DEF Spec
=============================================================================
