---------------------------- MODULE ProposalDesk ----------------------------
(***************************************************************************)
(* The desktop window at work on proposals: the form that proposes and     *)
(* approves an entry as one operation (ManualSave), the decisions taken in *)
(* the list of proposals (ProposalDecisions) and the list itself           *)
(* (LatestRequest, SingleFlight).                                          *)
(*                                                                         *)
(* The window is one thread.  Between an `await` and its continuation the  *)
(* rest of the window, the server and the other deciders go on, and the    *)
(* answer of a call may be lost after the call took effect.  Each call is  *)
(* one transaction of the server (ProposalQueue).                          *)
(***************************************************************************)
EXTENDS Naturals, Sequences, FiniteSets, Functions

CONSTANTS
    Contents,     \* what the user may enter
    Invalid,      \* the contents that propose_update refuses
    MaxRequests, MaxRenames, MaxRevision, MaxWork,  \* bounds on counters
    None

ASSUME DeskAssumption ==
    /\ Invalid \subseteq Contents
    /\ MaxRequests \in Nat /\ MaxRenames \in Nat
    /\ MaxRevision \in Nat /\ MaxWork \in Nat

\* What a call may end with that the window tells apart, or does not.
Codes == {"unknown", "conflict", "invalid_params", "busy"}

\* ManualSaveOperation; the first phases wait for an answer, "confirming" is published
\* as "approving", "already" as "checking".
Busy == {"proposing", "approving", "confirming", "already", "checking"}

Saves ==
    [request : Nat, content : Contents, id : Nat, error : Codes \cup {None},
     phase : Busy \cup {"paused", "complete", "rejected", "error"}]

Mutations == {"approve", "reject"}

\* ProposalDecision.
Decisions ==
    [tool : Mutations, busy : BOOLEAN, error : Codes \cup {None},
     output : {None, "approved", "rejected"}]

ASSUME NoneIsNothing ==
    /\ None \notin Codes /\ None \notin {"pending", "approved", "rejected"}
    /\ None \notin Saves /\ None \notin Decisions

VARIABLES
    queue,      \* the proposals made here, of the scope's table; position = id
    renames,    \* how often the human client was renamed
    calls,      \* the calls in flight, by the operation that awaits them
    save,       \* the held ManualSaveOperation, None without one
    requests,   \* how many request ids were drawn
    locked,     \* pendingMutations
    decisions,  \* ProposalDecisions.operations, by proposal
    revision,   \* ProposalDecisions.scopeRevisions of the scope
    panel,      \* the list of proposals: its selection, and the key last fetched
    version,    \* LatestRequest.version
    snapshot,   \* LatestRequest.snapshot
    runs        \* the runs of LatestRequest that await an answer

list == <<panel, version, snapshot, runs>>
vars == <<queue, renames, calls, save, requests, locked, decisions, revision, list>>

Statuses == {"pending", "approved", "rejected"}

Ids == 1 .. MaxRequests
SaveCall == <<"save">>
DecisionCall(id) == <<"decide", id>>
ListCall(key) == <<"list", key>>

Idle == [key |-> None, status |-> "idle", ids |-> {}, full |-> FALSE]

Init ==
    /\ queue = <<>>
    /\ renames = 0
    /\ calls = [c \in {} |-> None]
    /\ save = None /\ requests = 0
    /\ locked = {}
    /\ decisions = [id \in Ids |-> None] /\ revision = 0
    /\ panel = [status |-> "pending", attempt |-> 0, fetched |-> None]
    /\ version = 0
    /\ snapshot = Idle
    /\ runs = {}

-----------------------------------------------------------------------------
(* The calls.                                                              *)

\* "unknown": a code the window does not tell from others, or no code at all.
Reply == [error |-> None, id |-> 0, status |-> None, ids |-> {}, full |-> FALSE]
Refusal(code) == [Reply EXCEPT !.error = code]

\* A call takes the place of the one its operation has had answered.
Ask(from, tool, arg) ==
    [c \in DOMAIN calls \cup {from} |->
        IF c = from THEN [tool |-> tool, arg |-> arg, answer |-> None] ELSE calls[c]]

Without(from) == Restrict(calls, DOMAIN calls \ {from})

Awaited(from) == from \in DOMAIN calls /\ calls[from].answer = None
Answered(from) == from \in DOMAIN calls /\ calls[from].answer # None

\* A reply may be lost on its way.
Answers(from, reply) ==
    \E r \in {reply, Refusal("unknown")} : calls' = [calls EXCEPT ![from].answer = r]

\* The name of the human client, which each call reads from the configuration.
CurrentHuman == renames

OfRequest(r) == {id \in DOMAIN queue : queue[id].request = r}

\* The request id is looked up before anything is checked.
ServePropose(from) ==
    LET s == calls[from].arg IN
    IF OfRequest(s.request) # {}
    THEN LET id == CHOOSE id \in OfRequest(s.request) : TRUE IN
         /\ Answers(from, IF queue[id].by = CurrentHuman
                          THEN [Reply EXCEPT !.id = id, !.status = queue[id].status]
                          ELSE Refusal("conflict"))
         /\ UNCHANGED queue
    ELSE IF s.content \in Invalid
    THEN Answers(from, Refusal("invalid_params")) /\ UNCHANGED queue
    ELSE /\ queue' = Append(queue, [request |-> s.request, by |-> CurrentHuman,
                                    status |-> "pending"])
         /\ Answers(from, [Reply EXCEPT !.id = Len(queue) + 1, !.status = "pending"])

DecidedAs(tool) == IF tool = "approve" THEN "approved" ELSE "rejected"

ServeDecision(from) ==
    LET id == calls[from].arg
        tool == calls[from].tool
    IN
    IF queue[id].status # "pending"
    THEN Answers(from, Refusal("conflict")) /\ UNCHANGED queue
    ELSE /\ queue' = [queue EXCEPT ![id].status = DecidedAs(tool)]
         /\ Answers(from, [Reply EXCEPT !.id = id, !.status = DecidedAs(tool)])

\* The newest ones of one status, up to the limit: newer ones of the agents may fill
\* the page.
ServeList(from) ==
    /\ LET all == {id \in DOMAIN queue : queue[id].status = calls[from].arg} IN
       \E n \in 0 .. MaxRequests, full \in BOOLEAN :
           /\ n > 0 => full
           /\ Answers(from, [Reply EXCEPT !.ids = {id \in all : id > n}, !.full = full])
    /\ UNCHANGED queue

\* A full queue, a change that cannot be applied, a configuration that cannot be read,
\* an error of the database.
ServeFails(from) ==
    /\ calls' = [calls EXCEPT ![from].answer = Refusal("unknown")]
    /\ UNCHANGED queue

Serve(from) ==
    /\ Awaited(from)
    /\ \/ calls[from].tool = "propose" /\ ServePropose(from)
       \/ calls[from].tool \in Mutations /\ ServeDecision(from)
       \/ calls[from].tool = "list" /\ ServeList(from)
       \/ ServeFails(from)
    /\ UNCHANGED <<renames, save, requests, locked, decisions, revision, list>>

OthersDecide(id) ==
    /\ queue[id].status = "pending"
    /\ \E status \in {"approved", "rejected"} : queue' = [queue EXCEPT ![id].status = status]
    /\ UNCHANGED <<renames, calls, save, requests, locked, decisions, revision, list>>

RenameHuman ==
    /\ renames < MaxRenames
    /\ renames' = renames + 1
    /\ UNCHANGED <<queue, calls, save, requests, locked, decisions, revision, list>>

-----------------------------------------------------------------------------
(* ManualSave: one operation, held until its outcome is known.             *)

IsSaveBusy == save # None /\ save.phase \in Busy

CanCorrectSave_AnyCode(s) ==
    s.phase = "error" /\ s.id = 0 /\ s.error # "unknown"

CanCorrectSave(s) ==
    /\ s.phase = "error" /\ s.id = 0
    /\ s.error \in {"invalid_params", "scope_denied", "unauthorized", "not_found",
                    "contract_mismatch"}

Find(status) == Ask(SaveCall, "list", status)

Rests(s) == save' = s /\ calls' = Without(SaveCall)
AsksFor(s, status) == save' = s /\ calls' = Find(status)

Fails(s, code) == Rests([s EXCEPT !.phase = "error", !.error = code])

Proposes(s) ==
    /\ save' = [s EXCEPT !.phase = "proposing", !.error = None]
    /\ calls' = Ask(SaveCall, "propose", [request |-> s.request, content |-> s.content])
    /\ UNCHANGED locked

\* A proposal with a mutation of this window in flight is refused at once.
Approves(s) ==
    IF s.id \in locked
    THEN Fails(s, "busy") /\ UNCHANGED locked
    ELSE /\ save' = [s EXCEPT !.phase = "approving", !.error = None]
         /\ calls' = Ask(SaveCall, "approve", s.id)
         /\ locked' = locked \cup {s.id}

\* start draws the request id, and goes on as a retry does.
StartSave(content) ==
    /\ save = None
    /\ requests < MaxRequests /\ version + requests < MaxWork
    /\ requests' = requests + 1
    /\ Proposes([request |-> requests + 1, content |-> content, phase |-> "paused",
                 id |-> 0, error |-> None])
    /\ UNCHANGED <<queue, renames, decisions, revision, list>>

Retry ==
    /\ save # None /\ save.phase = "error"
    /\ IF save.id = 0 THEN Proposes(save) ELSE Approves(save)
    /\ UNCHANGED <<queue, renames, requests, decisions, revision, list>>

CheckStatus ==
    /\ save # None /\ save.phase = "error" /\ save.id # 0
    /\ AsksFor([save EXCEPT !.phase = "checking"], "approved")
    /\ UNCHANGED <<queue, renames, requests, locked, decisions, revision, list>>

ClearAfterReview ==
    /\ save # None
    /\ save.phase \in {"complete", "rejected"} \/ CanCorrectSave(save)
    /\ save' = None
    /\ UNCHANGED <<queue, renames, calls, requests, locked, decisions, revision, list>>

AfterPropose(answer) ==
    LET s == [save EXCEPT !.id = answer.id] IN
    IF answer.error # None THEN Fails(save, answer.error) /\ UNCHANGED locked
    ELSE CASE answer.status = "rejected" ->
                Rests([s EXCEPT !.phase = "rejected"]) /\ UNCHANGED locked
           [] answer.status = "approved" ->
                AsksFor([s EXCEPT !.phase = "already"], "approved") /\ UNCHANGED locked
           [] answer.status = "pending" -> Approves(s)

AfterApprove_ConflictIsDone(answer) ==
    /\ locked' = locked \ {save.id}
    /\ IF answer.error \in {None, "conflict"}
       THEN Rests([save EXCEPT !.phase = "complete"])
       ELSE Fails(save, answer.error)

\* A conflict says only that the proposal is decided.
AfterApprove(answer) ==
    /\ locked' = locked \ {save.id}
    /\ CASE answer.error = None -> Rests([save EXCEPT !.phase = "complete"])
         [] answer.error = "conflict" ->
              AsksFor([save EXCEPT !.phase = "confirming", !.error = "conflict"], "approved")
         [] OTHER -> Fails(save, answer.error)

\* findFinalized asks for the approved ones, then for the rejected ones.  An approval
\* already known stays one whatever the search says.
AfterFind(status, answer) ==
    /\ UNCHANGED locked
    /\ IF answer.error = None /\ save.id \in answer.ids
       THEN Rests([save EXCEPT
              !.phase = IF status = "approved" \/ save.phase = "already"
                        THEN "complete" ELSE "rejected",
              !.error = None])
       ELSE IF answer.error = None /\ status = "approved"
       THEN AsksFor(save, "rejected")
       ELSE Rests([save EXCEPT
              !.phase = IF save.phase = "already" THEN "complete" ELSE "error"])

SaveGoesOn ==
    /\ Answered(SaveCall)
    /\ LET call == calls[SaveCall] IN
       \/ call.tool = "propose" /\ AfterPropose(call.answer)
       \/ call.tool = "approve" /\ AfterApprove(call.answer)
       \/ call.tool = "list" /\ AfterFind(call.arg, call.answer)
    /\ UNCHANGED <<queue, renames, requests, decisions, revision, list>>

-----------------------------------------------------------------------------
(* The list of proposals.                                                  *)

Key_AnyRevision == <<panel.status, panel.attempt, 0>>

\* proposalsKey, with the attempt and the revision of the scope.
Key == <<panel.status, panel.attempt, revision>>

Current == snapshot.key = Key
PanelBusy == ~Current \/ snapshot.status \in {"idle", "loading"}
Shown == IF Current /\ snapshot.status = "success" THEN snapshot.ids ELSE {}

\* The effect of the component: the old run is invalidated, and the new one joins a
\* call of the same key that is still in flight.
Fetch ==
    /\ panel.fetched # Key
    /\ panel' = [panel EXCEPT !.fetched = Key]
    /\ version' = version + 1
    /\ snapshot' = [Idle EXCEPT !.key = Key, !.status = "loading"]
    /\ runs' = runs \cup {[version |-> version + 1, key |-> Key]}
    /\ calls' = IF ListCall(Key) \in DOMAIN calls THEN calls
                ELSE Ask(ListCall(Key), "list", panel.status)
    /\ UNCHANGED <<queue, renames, save, requests, locked, decisions, revision>>

\* Another status; the snapshot of the one before is dropped with its run.  The effects
\* of one event run before the next event is handled.
Select(status) ==
    /\ version + requests < MaxWork
    /\ panel.fetched = Key /\ status # panel.status
    /\ panel' = [panel EXCEPT !.status = status]
    /\ version' = version + 1 /\ snapshot' = Idle
    /\ UNCHANGED <<queue, renames, calls, save, requests, locked, decisions, revision, runs>>

Refresh ==
    /\ version + requests < MaxWork /\ ~PanelBusy
    /\ panel' = [panel EXCEPT !.attempt = panel.attempt + 1]
    /\ version' = version + 1 /\ snapshot' = Idle
    /\ UNCHANGED <<queue, renames, calls, save, requests, locked, decisions, revision, runs>>

Publishes_Any(run) == TRUE

\* LatestRequest.run: the answer counts only for the latest version.
Publishes(run) == run.version = version

\* All runs of the key go on at once.
ListGoesOn(key) ==
    /\ Answered(ListCall(key))
    /\ LET answer == calls[ListCall(key)].answer
           waiting == {run \in runs : run.key = key}
       IN
       /\ runs' = runs \ waiting
       /\ snapshot' = IF \E run \in waiting : Publishes(run)
                      THEN [key |-> key, status |-> IF answer.error = None THEN "success" ELSE "error",
                            ids |-> answer.ids, full |-> answer.full]
                      ELSE snapshot
    /\ calls' = Without(ListCall(key))
    /\ UNCHANGED <<queue, renames, save, requests, locked, decisions, revision, panel, version>>

-----------------------------------------------------------------------------
(* ProposalDecisions: a decision on a proposal of the list.                *)

Finished(id, op, error) ==
    /\ decisions' = [decisions EXCEPT ![id] =
                       [op EXCEPT !.busy = FALSE, !.error = error,
                                  !.output = IF error = None THEN DecidedAs(op.tool) ELSE None]]
    /\ revision' = revision + 1

\* The card offers it for a pending proposal without a decision in flight or done.
Decide(id, tool) ==
    /\ revision < MaxRevision
    /\ id \in Shown /\ panel.status = "pending"
    /\ decisions[id] # None => ~decisions[id].busy /\ decisions[id].output = None
    /\ LET op == [tool |-> tool, busy |-> TRUE, error |-> None, output |-> None] IN
       IF id \in locked
       THEN Finished(id, op, "busy") /\ UNCHANGED <<calls, locked>>
       ELSE /\ decisions' = [decisions EXCEPT ![id] = op]
            /\ locked' = locked \cup {id}
            /\ calls' = Ask(DecisionCall(id), tool, id)
            /\ UNCHANGED revision
    /\ UNCHANGED <<queue, renames, save, requests, list>>

DecisionGoesOn(id) ==
    /\ Answered(DecisionCall(id))
    /\ Finished(id, decisions[id], calls[DecisionCall(id)].answer.error)
    /\ locked' = locked \ {id}
    /\ calls' = Without(DecisionCall(id))
    /\ UNCHANGED <<queue, renames, save, requests, list>>

-----------------------------------------------------------------------------
Keys == {run.key : run \in runs}

Next ==
    \/ \E from \in DOMAIN calls : Serve(from)
    \/ \E id \in DOMAIN queue : OthersDecide(id)
    \/ RenameHuman
    \/ \E content \in Contents : StartSave(content)
    \/ Retry \/ CheckStatus \/ ClearAfterReview \/ SaveGoesOn
    \/ \E status \in Statuses : Select(status)
    \/ Refresh \/ Fetch
    \/ \E key \in Keys : ListGoesOn(key)
    \/ \E id \in Ids : (\E tool \in Mutations : Decide(id, tool)) \/ DecisionGoesOn(id)

Spec == Init /\ [][Next]_vars

\* Every call is answered, every continuation and effect runs.  The user and the other
\* deciders owe nothing.
Fairness ==
    /\ WF_vars(Serve(SaveCall)) /\ WF_vars(SaveGoesOn)
    /\ \A id \in Ids : WF_vars(Serve(DecisionCall(id))) /\ WF_vars(DecisionGoesOn(id))
    /\ WF_vars(\E key \in Keys : Serve(ListCall(key)))
    /\ WF_vars(\E key \in Keys : ListGoesOn(key))
    /\ WF_vars(Fetch)

FairSpec == Spec /\ Fairness

-----------------------------------------------------------------------------
(* Properties.                                                             *)

\* What the window says of a proposal is so: a save is reported complete only when its
\* own proposal was approved and rejected only when that was, and a decision reported
\* as done was taken, though answers are lost, other people decide and the human client
\* is renamed.  ManualSave.fromFinalized and alreadyApproved, ProposalDecisions.run.
WindowTellsTheTruth ==
    /\ save # None =>
         /\ save.id # 0 => queue[save.id].request = save.request
         /\ save.phase = "complete" => queue[save.id].status = "approved"
         /\ save.phase = "rejected" => queue[save.id].status = "rejected"
    /\ \A id \in Ids : decisions[id] # None /\ decisions[id].output # None =>
         queue[id].status = decisions[id].output

\* The form is given back for correction only when no proposal was made of it: a second
\* start would otherwise propose the entry twice.  canCorrectSave, clearAfterReview.
CorrectsOnlyUnproposed ==
    save # None /\ CanCorrectSave(save) => OfRequest(save.request) = {}

\* A list on screen was read after the decisions this window has finished: what was
\* decided here, or found decided, is not shown as pending, and is among the decided
\* ones unless newer ones fill the page.  The key of Proposals.tsx.
Decided(id) ==
    decisions[id] # None /\ ~decisions[id].busy /\ decisions[id].error \in {None, "conflict"}

ListIsFresh ==
    Current /\ snapshot.status = "success" =>
        \A id \in {i \in Ids : Decided(i)} :
            /\ panel.status = "pending" => id \notin snapshot.ids
            /\ panel.status = decisions[id].output /\ ~snapshot.full =>
                 id \in snapshot.ids

\* No answer, late or lost, leaves the form or the list busy for ever.
\* LatestRequest.run, SingleFlight.run, withMutationLock, ManualSave.retry.
PanelsSettle ==
    /\ IsSaveBusy ~> ~IsSaveBusy
    /\ PanelBusy ~> ~PanelBusy
=============================================================================
