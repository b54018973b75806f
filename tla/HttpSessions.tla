---------------------------- MODULE HttpSessions ----------------------------
(***************************************************************************)
(* The HTTP server of gaia-mcp: who may use which MCP session, how many    *)
(* sessions may exist, and how the server stops.                           *)
(*                                                                         *)
(* Every request is a task of its own; it can be dropped at any await, by  *)
(* its connection or by the server's cancellation.  The sessions belong to *)
(* the rmcp SDK (`live`), which also runs one worker task per session; the *)
(* server keeps beside them the owner and the capacity permit of each      *)
(* session (`owners`, `slots`).  Three kinds of tasks close sessions,      *)
(* each in two steps, the SDK's table first: a request, the worker of the  *)
(* session, and the task that joins the server after its shutdown.         *)
(* The keys are re-read from the config file for every request, so a       *)
(* request runs under an identity that may have been rotated or renamed    *)
(* since.                                                                  *)
(***************************************************************************)
EXTENDS Naturals, FiniteSets, Functions

CONSTANTS
    Requests,     \* connections, each a task that serves one request at a time
    Sessions,     \* ids the SDK may give out, each at most once
    Clients,      \* client names a config file may hold
    Keys,         \* API keys, each generated at most once
    MaxSessions,  \* MAX_SESSIONS, the limit given to OwnedSessionManager::new
    Joiner,       \* the task that runs BoundServer::join
    None

ASSUME MaxSessionsIsNat == MaxSessions \in Nat
ASSUME FiniteTasks == IsFiniteSet(Requests) /\ IsFiniteSet(Sessions)
ASSUME TasksAreDistinct ==
    /\ Requests \cap Sessions = {}
    /\ Joiner \notin Requests \cup Sessions
ASSUME NoneIsNothing ==
    /\ None \notin Sessions \cup Clients \cup Keys
    /\ None \notin [id : Sessions, ok : BOOLEAN]

VARIABLES
    keys,     \* the config's [keys]: the key of each client that has one
    issued,   \* keys generated so far
    req,      \* the requests in flight
    slots,    \* free permits of the semaphore
    owners,   \* OwnedSessionManager::owners: id -> client, None until bound
    live,     \* sessions the SDK knows
    worker,   \* the SDK's worker task of each session
    closing,  \* calls of close_session past the SDK's part
    server,   \* where the server's life stands
    ids       \* the ids close_all has still to close

vars == <<keys, issued, req, slots, owners, live, worker, closing, server, ids>>

Kinds == {"initialize", "call", "delete"}

\* A request: its place, the identity the middleware put in its extensions,
\* what it asks, its session, its capacity_denied flag and its last answer.
Resting(pc, code) ==
    [pc |-> pc, client |-> None, kind |-> "call", session |-> None,
     denied |-> FALSE, status |-> code]

InFlight(pc, c, kind, s, denied) ==
    [pc |-> pc, client |-> c, kind |-> kind, session |-> s,
     denied |-> denied, status |-> 0]

Closers == Requests \cup Sessions \cup {Joiner}

AtRest == {"idle", "gone"}
Places == AtRest \cup
          {"verified", "accepted", "creating", "created",
           "initializing", "looking", "serving", "closing", "failed"}
Statuses == {0, 200, 202, 401, 404, 429, 500, 503}

Request == [pc : Places, client : Clients \cup {None}, kind : Kinds,
            session : Sessions \cup {None}, denied : BOOLEAN,
            status : Statuses]

Phases == {"serving", "cancelled", "drained", "closing", "closed", "failed"}

Init ==
    /\ keys \in [Clients -> Keys \cup {None}]
    /\ \E c \in Clients : keys[c] # None
    /\ \A c, d \in Clients : keys[c] = keys[d] /\ keys[c] # None => c = d
    /\ issued = Range(keys) \ {None}
    /\ req = [r \in Requests |-> Resting("idle", 0)]
    /\ slots = MaxSessions
    /\ owners = [s \in {} |-> None]
    /\ live = {}
    /\ worker = [s \in Sessions |-> "none"]
    /\ closing = [t \in Closers |-> None]
    /\ server = "serving"
    /\ ids = {}

-----------------------------------------------------------------------------
(* The config file, edited by the command line and by the desktop.         *)

RotateKey(c, k) ==
    /\ k \notin issued
    /\ keys' = [keys EXCEPT ![c] = k]
    /\ issued' = issued \cup {k}
    /\ UNCHANGED <<req, slots, owners, live, worker, closing, server, ids>>

\* Renaming moves the key to a name the config does not hold.
RenameClient(old, new) ==
    /\ keys[old] # None /\ keys[new] = None
    /\ keys' = [keys EXCEPT ![new] = keys[old], ![old] = None]
    /\ UNCHANGED <<issued, req, slots, owners, live, worker, closing, server, ids>>

-----------------------------------------------------------------------------
(* The middleware: verify the key, check the owner, then pass on.          *)

HasKey(c, k) == keys[c] = k

\* Once the server is cancelled the listener accepts no connection, and one that has
\* had its answer closes.
Answered(r, code) ==
    req' = [req EXCEPT ![r] = Resting(IF server = "serving" THEN "idle" ELSE "gone", code)]

Moves(r, pc) ==
    req' = [req EXCEPT ![r] =
              InFlight(pc, req[r].client, req[r].kind, req[r].session, req[r].denied)]

\* A config that cannot be read authenticates nobody.
Unauthorized(r) ==
    /\ req[r].pc = "idle" /\ server \in {"serving", "cancelled"}
    /\ Answered(r, 401)
    /\ UNCHANGED <<keys, issued, slots, owners, live, worker, closing, server, ids>>

Authenticate(r, k, kind, s) ==
    /\ req[r].pc = "idle" /\ server \in {"serving", "cancelled"}
    /\ \E c \in Clients :
          /\ HasKey(c, k)
          /\ req' = [req EXCEPT ![r] =
                       InFlight("verified", c, kind,
                                IF kind = "initialize" THEN None ELSE s, FALSE)]
    /\ UNCHANGED <<keys, issued, slots, owners, live, worker, closing, server, ids>>

Owns_Unbound(s, c) == s \in DOMAIN owners /\ owners[s] \in {c, None}
Owns(s, c) == s \in DOMAIN owners /\ owners[s] = c

\* is_cancelled, then the first half of is_owned_by.
Admit(r) ==
    /\ req[r].pc = "verified"
    /\ \/ server # "serving" /\ Answered(r, 503)
       \/ /\ server = "serving"
          /\ \/ req[r].kind = "initialize" /\ Moves(r, "accepted")
             \/ /\ req[r].kind # "initialize"
                /\ IF Owns(req[r].session, req[r].client)
                   THEN Moves(r, "looking") ELSE Answered(r, 404)
    /\ UNCHANGED <<keys, issued, slots, owners, live, worker, closing, server, ids>>

\* The second half of is_owned_by, after an await on the SDK's table.
LookUp(r) ==
    /\ req[r].pc = "looking"
    /\ IF req[r].session \in live THEN Moves(r, "serving") ELSE Answered(r, 404)
    /\ UNCHANGED <<keys, issued, slots, owners, live, worker, closing, server, ids>>

DroppedAt_KeepsPermit(r) ==
    /\ req[r].pc \notin AtRest
    /\ closing' = [closing EXCEPT ![r] = None]
    /\ UNCHANGED <<keys, issued, slots, owners, live, worker, server, ids>>

\* The connection is lost: the request's future is dropped where it stands.  A permit
\* it holds for a session not created yet goes back, a close_session it runs stays half
\* done.
DroppedAt(r) ==
    /\ req[r].pc \notin AtRest
    /\ slots' = IF req[r].pc = "creating" THEN slots + 1 ELSE slots
    /\ closing' = [closing EXCEPT ![r] = None]
    /\ UNCHANGED <<keys, issued, owners, live, worker, server, ids>>

ConnectionLost(r) == DroppedAt(r) /\ Answered(r, 0)

\* The select! of the middleware: cancellation answers 503 for the request.
CancelRequest_BodyOnly(r) ==
    /\ server # "serving" /\ req[r].pc = "accepted"
    /\ DroppedAt(r) /\ Answered(r, 503)
CancelRequest(r) == server # "serving" /\ DroppedAt(r) /\ Answered(r, 503)

-----------------------------------------------------------------------------
(* close_session: the SDK removes its session, then the owner and its permit go. *)

\* Whether or not the SDK reports an error, its session is gone.
CloseInner(t, s) ==
    \E ok \in BOOLEAN :
        /\ live' = live \ {s}
        /\ closing' = [closing EXCEPT ![t] = [id |-> s, ok |-> ok]]

Release_OnlyIfOk(t) ==
    LET s == closing[t].id
        gone == closing[t].ok /\ s \in DOMAIN owners
    IN  /\ owners' = IF gone THEN [d \in DOMAIN owners \ {s} |-> owners[d]] ELSE owners
        /\ slots' = IF gone THEN slots + 1 ELSE slots
        /\ closing' = [closing EXCEPT ![t] = None]

Release(t) ==
    LET s == closing[t].id
    IN  /\ owners' = [d \in DOMAIN owners \ {s} |-> owners[d]]
        /\ slots' = IF s \in DOMAIN owners THEN slots + 1 ELSE slots
        /\ closing' = [closing EXCEPT ![t] = None]

-----------------------------------------------------------------------------
(* initialize: take a permit, create the session, bind its owner.           *)

ReserveSlot(r) ==
    /\ req[r].pc = "accepted"
    /\ IF slots > 0
       THEN slots' = slots - 1 /\ Moves(r, "creating")
       ELSE /\ UNCHANGED slots
            /\ req' = [req EXCEPT ![r] =
                         InFlight("failed", req[r].client, req[r].kind, req[r].session, TRUE)]
    /\ UNCHANGED <<keys, issued, owners, live, worker, closing, server, ids>>

CreateSession_NoEntry(r) ==
    /\ req[r].pc = "creating"
    /\ \E s \in Sessions :
          /\ worker[s] = "none"
          /\ live' = live \cup {s}
          /\ worker' = [worker EXCEPT ![s] = "running"]
          /\ req' = [req EXCEPT ![r] =
                       InFlight("created", req[r].client, req[r].kind, s, req[r].denied)]
    /\ UNCHANGED <<keys, issued, slots, owners, closing, server, ids>>

\* The SDK's session and its entry here appear together: there is no await between.
CreateSession(r) ==
    /\ req[r].pc = "creating"
    /\ \E s \in Sessions :
          /\ worker[s] = "none"
          /\ live' = live \cup {s}
          /\ owners' = [d \in DOMAIN owners \cup {s} |-> IF d = s THEN None ELSE owners[d]]
          /\ worker' = [worker EXCEPT ![s] = "running"]
          /\ req' = [req EXCEPT ![r] =
                       InFlight("created", req[r].client, req[r].kind, s, req[r].denied)]
    /\ UNCHANGED <<keys, issued, slots, closing, server, ids>>

CreateFails(r) ==
    /\ req[r].pc = "creating"
    /\ slots' = slots + 1
    /\ Moves(r, "failed")
    /\ UNCHANGED <<keys, issued, owners, live, worker, closing, server, ids>>

\* initialize_session up to the SDK's part: bind_owner refuses a session whose entry
\* its worker has already removed, and one bound to another client.
BindOwner(r) ==
    /\ req[r].pc = "created"
    /\ LET s == req[r].session
       IN  IF s \in DOMAIN owners /\ owners[s] \in {None, req[r].client}
           THEN owners' = [owners EXCEPT ![s] = req[r].client] /\ Moves(r, "initializing")
           ELSE UNCHANGED owners /\ Moves(r, "failed")
    /\ UNCHANGED <<keys, issued, slots, live, worker, closing, server, ids>>

Initialized(r) ==
    /\ req[r].pc = "initializing" /\ req[r].session \in live
    /\ Answered(r, 200)
    /\ UNCHANGED <<keys, issued, slots, owners, live, worker, closing, server, ids>>

InitializeFails(r) ==
    /\ req[r].pc = "initializing"
    /\ CloseInner(r, req[r].session)
    /\ Moves(r, "closing")
    /\ UNCHANGED <<keys, issued, slots, owners, worker, server, ids>>

-----------------------------------------------------------------------------
(* Requests inside a session.                                              *)

\* A message, a stream or a tool call; the SDK fails it when the session is gone.
Serve(r) ==
    /\ req[r].pc = "serving" /\ req[r].kind = "call"
    /\ IF req[r].session \in live THEN Answered(r, 200) ELSE Moves(r, "failed")
    /\ UNCHANGED <<keys, issued, slots, owners, live, worker, closing, server, ids>>

DeleteSession(r) ==
    /\ req[r].pc = "serving" /\ req[r].kind = "delete"
    /\ CloseInner(r, req[r].session)
    /\ Moves(r, "closing")
    /\ UNCHANGED <<keys, issued, slots, owners, worker, server, ids>>

RequestCloses(r) ==
    /\ req[r].pc = "closing"
    /\ Release(r)
    /\ IF req[r].kind = "delete" /\ closing[r].ok THEN Answered(r, 202) ELSE Moves(r, "failed")
    /\ UNCHANGED <<keys, issued, live, worker, server, ids>>

\* The SDK answers every error of the session manager with 500; capacity_response turns
\* the one this request met into 429.
Denied_Shared(r) == \E q \in Requests : req[q].denied
Denied(r) == req[r].denied
Fails(r) ==
    /\ req[r].pc = "failed"
    /\ Answered(r, IF Denied(r) THEN 429 ELSE 500)
    /\ UNCHANGED <<keys, issued, slots, owners, live, worker, closing, server, ids>>

-----------------------------------------------------------------------------
(* The SDK's workers call close_session when a session ends by itself.     *)

WorkerCloses(s) ==
    /\ worker[s] = "running"
    /\ CloseInner(s, s)
    /\ worker' = [worker EXCEPT ![s] = "closing"]
    /\ UNCHANGED <<keys, issued, req, slots, owners, server, ids>>

\* Idle expiry, or the end of the session's transport.
WorkerExpires(s) == s \in live /\ WorkerCloses(s)

\* The session's handle is gone, or the server's cancellation token fired.
WorkerStops(s) == (s \notin live \/ server # "serving") /\ WorkerCloses(s)

WorkerReleases(s) ==
    /\ worker[s] = "closing"
    /\ Release(s)
    /\ worker' = [worker EXCEPT ![s] = "ended"]
    /\ UNCHANGED <<keys, issued, req, live, server, ids>>

-----------------------------------------------------------------------------
(* Shutdown: cancel, wait for the requests, close every session.           *)

Shutdown ==
    /\ server = "serving"
    /\ server' = "cancelled"
    /\ UNCHANGED <<keys, issued, req, slots, owners, live, worker, closing, ids>>

\* axum's graceful shutdown ends when no request is in flight.
Drained == \A r \in Requests : req[r].pc \in AtRest

Drain ==
    /\ server = "cancelled" /\ Drained
    /\ server' = "drained"
    /\ UNCHANGED <<keys, issued, req, slots, owners, live, worker, closing, ids>>

BeginCloseAll_Bound ==
    /\ server = "drained"
    /\ ids' = {s \in DOMAIN owners : owners[s] # None}
    /\ server' = "closing"
    /\ UNCHANGED <<keys, issued, req, slots, owners, live, worker, closing>>

BeginCloseAll ==
    /\ server = "drained"
    /\ ids' = DOMAIN owners
    /\ server' = "closing"
    /\ UNCHANGED <<keys, issued, req, slots, owners, live, worker, closing>>

CloseNext ==
    /\ server = "closing" /\ closing[Joiner] = None
    /\ \E s \in ids : CloseInner(Joiner, s)
    /\ UNCHANGED <<keys, issued, req, slots, owners, worker, server, ids>>

\* The first error ends close_all, with the other sessions still open.
CloseReturns ==
    /\ closing[Joiner] # None
    /\ Release(Joiner)
    /\ IF closing[Joiner].ok
       THEN ids' = ids \ {closing[Joiner].id} /\ UNCHANGED server
       ELSE server' = "failed" /\ UNCHANGED ids
    /\ UNCHANGED <<keys, issued, req, live, worker>>

AllClosed ==
    /\ server = "closing" /\ closing[Joiner] = None /\ ids = {}
    /\ server' = "closed"
    /\ UNCHANGED <<keys, issued, req, slots, owners, live, worker, closing, ids>>

-----------------------------------------------------------------------------
ConfigEdited ==
    \/ \E c \in Clients, k \in Keys : RotateKey(c, k)
    \/ \E old, new \in Clients : RenameClient(old, new)

Arrives(r) ==
    \/ Unauthorized(r)
    \/ \E k \in Keys, kind \in Kinds, s \in Sessions : Authenticate(r, k, kind, s)

RequestStep(r) ==
    \/ Admit(r) \/ LookUp(r) \/ ReserveSlot(r) \/ CreateSession(r) \/ CreateFails(r)
    \/ BindOwner(r) \/ Initialized(r) \/ InitializeFails(r) \/ Serve(r)
    \/ DeleteSession(r) \/ RequestCloses(r) \/ Fails(r)
    \/ ConnectionLost(r) \/ CancelRequest(r)

WorkerStep(s) == WorkerExpires(s) \/ WorkerStops(s) \/ WorkerReleases(s)

JoinStep == Drain \/ BeginCloseAll \/ CloseNext \/ CloseReturns \/ AllClosed

Next ==
    \/ ConfigEdited \/ Shutdown \/ JoinStep
    \/ \E r \in Requests : Arrives(r) \/ RequestStep(r)
    \/ \E s \in Sessions : WorkerStep(s)

Spec == Init /\ [][Next]_vars

\* The select! polls the cancellation first, the joining task never stops on its own,
\* and the SDK runs its workers; nothing obliges a client, an admin or a session's idle
\* timer to act.
Fairness ==
    /\ \A r \in Requests : WF_vars(CancelRequest(r))
    /\ WF_vars(JoinStep)
    /\ \A s \in Sessions : WF_vars(WorkerStops(s)) /\ WF_vars(WorkerReleases(s))

FairSpec == Spec /\ Fairness

-----------------------------------------------------------------------------
(* Properties. *)

TypeOK ==
    /\ keys \in [Clients -> Keys \cup {None}]
    /\ issued \subseteq Keys
    /\ req \in [Requests -> Request]
    /\ slots \in Nat
    /\ live \subseteq Sessions
    /\ DOMAIN owners \subseteq Sessions
    /\ \A s \in DOMAIN owners : owners[s] \in Clients \cup {None}
    /\ worker \in [Sessions -> {"none", "running", "closing", "ended"}]
    /\ closing \in [Closers -> [id : Sessions, ok : BOOLEAN] \cup {None}]
    /\ server \in Phases
    /\ ids \subseteq Sessions

Creating == {r \in Requests : req[r].pc = "creating"}

\* No interleaving of creations, drops, deletes, expiries and errors loses a permit or
\* gives one back twice: each is free, carried by one request, or in one owner entry.
PermitsBalanced == slots + Cardinality(DOMAIN owners) + Cardinality(Creating) = MaxSessions

\* A session the SDK still runs keeps its permit, so that there are never more than
\* MaxSessions of them, even when a close is abandoned half way (close_session).
LiveSessionsHoldPermits == live \subseteq DOMAIN owners

\* A request that passed the owner check runs under the client its session is bound to,
\* whatever was rotated, renamed, bound or closed since the check (is_owned_by).
ServedUnderOwner ==
    \A r \in Requests :
        req[r].pc \in {"initializing", "looking", "serving", "closing"}
            /\ req[r].session \in DOMAIN owners
        => owners[req[r].session] = req[r].client

\* 429 tells a client that nothing was created for it: no request that has a session, or
\* made one that failed later, is answered so (for_request, capacity_response).
DenialsAreLocal ==
    [][\A r \in Requests :
          req[r].pc \notin AtRest /\ req'[r].status = 429 => req[r].session = None]_vars

\* Once join has returned without error no session and no permit is left behind: none is
\* created or bound after close_all has listed them.
CleanShutdown ==
    server = "closed" => live = {} /\ DOMAIN owners = {} /\ slots = MaxSessions

\* An entry whose session is gone does not keep its permit for ever, although the request
\* that was closing it can be dropped half way and the SDK can report an error.
DeadSessionsFreePermits ==
    \A s \in Sessions : (s \in DOMAIN owners \ live) ~> (s \notin DOMAIN owners)

\* A shutdown ends, whatever the requests were doing, and every permit comes back even
\* when close_all stopped at an error: the SDK's workers close what it left.
ShutdownEnds ==
    (server = "cancelled") ~> (server \in {"closed", "failed"} /\ slots = MaxSessions)

=============================================================================
