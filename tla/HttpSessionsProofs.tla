-------------------------- MODULE HttpSessionsProofs --------------------------
(***************************************************************************)
(* Theorems of the session table, for every number of requests, sessions,   *)
(* clients and permits.                                                     *)
(***************************************************************************)
EXTENDS HttpSessions, FiniteSetTheorems, TLAPS

\* Where a request acts on the session it names.
InSession == {"initializing", "looking", "serving", "closing"}

\* The part of the invariant about the requests: past the key check they have a client,
\* and past the owner check or the creation their session was given out.
RequestsSettled ==
    \A r \in Requests :
        /\ req[r].pc \notin AtRest => req[r].client \in Clients
        /\ req[r].pc \in InSession \cup {"created"} =>
              req[r].session \in Sessions /\ worker[req[r].session] # "none"

\* The part about the table: an entry's session was given out, and so was one that
\* close_all has listed.
EntriesGivenOut == \A s \in DOMAIN owners \cup ids : worker[s] # "none"

\* The part about the closes: between the two parts of close_session the SDK's session is
\* gone for good, so that removing its entry leaves no live session without a permit.
ClosesUnderway ==
    /\ \A t \in Closers : closing[t] # None =>
          closing[t].id \notin live /\ worker[closing[t].id] # "none"
    /\ \A r \in Requests : req[r].pc = "closing" => closing[r] # None
    /\ \A s \in Sessions : worker[s] = "closing" => closing[s] # None

\* The part about the shutdown: close_all runs alone, over every entry that is left.
JoinInOrder ==
    /\ server \notin {"serving", "cancelled"} => Drained
    /\ closing[Joiner] # None => server = "closing"
    /\ server = "closing" => DOMAIN owners \subseteq ids
    /\ server = "closed" => DOMAIN owners = {}

Sound ==
    /\ LiveSessionsHoldPermits
    /\ ServedUnderOwner
    /\ RequestsSettled
    /\ EntriesGivenOut
    /\ ClosesUnderway
    /\ JoinInOrder

IInv == TypeOK /\ PermitsBalanced /\ Sound

-----------------------------------------------------------------------------
(* Types. *)

\* Requests at rest and in flight are requests.
LEMMA RequestRecords ==
  /\ \A pc \in AtRest, code \in Statuses : Resting(pc, code) \in Request
  /\ \A pc \in Places, c \in Clients, kind \in Kinds, s \in Sessions \cup {None},
        denied \in BOOLEAN : InFlight(pc, c, kind, s, denied) \in Request
  BY DEF Resting, InFlight, Request, AtRest, Places, Kinds, Statuses

\* Answering keeps the table of requests typed.
LEMMA AnsweredType ==
  ASSUME TypeOK, NEW r \in Requests, NEW code \in Statuses, Answered(r, code)
  PROVE  req' \in [Requests -> Request]
<1>1. Resting(IF server = "serving" THEN "idle" ELSE "gone", code) \in Request
  BY RequestRecords DEF AtRest
<1> QED
  BY <1>1 DEF TypeOK, Answered

\* A request in flight keeps the table typed wherever it goes.
LEMMA InFlightType ==
  ASSUME TypeOK, RequestsSettled, NEW r \in Requests, req[r].pc \notin AtRest,
         NEW pc \in Places, NEW s \in Sessions \cup {None}, NEW denied \in BOOLEAN,
         req' = [req EXCEPT ![r] = InFlight(pc, req[r].client, req[r].kind, s, denied)]
  PROVE  req' \in [Requests -> Request]
<1>1. req[r].client \in Clients /\ req[r].kind \in Kinds
  BY DEF RequestsSettled, TypeOK, Request
<1>2. InFlight(pc, req[r].client, req[r].kind, s, denied) \in Request
  BY <1>1, RequestRecords
<1> QED
  BY <1>2 DEF TypeOK

\* Moving a request to another place keeps the table of requests typed.
LEMMA MovesType ==
  ASSUME TypeOK, RequestsSettled, NEW r \in Requests, req[r].pc \notin AtRest,
         NEW pc \in Places, Moves(r, pc)
  PROVE  req' \in [Requests -> Request]
<1>1. req[r].session \in Sessions \cup {None} /\ req[r].denied \in BOOLEAN
  BY DEF TypeOK, Request
<1> QED
  BY <1>1, InFlightType DEF Moves

\* The SDK's part of a close keeps its variables typed.
LEMMA CloseInnerType ==
  ASSUME TypeOK, NEW t \in Closers, NEW s \in Sessions, CloseInner(t, s)
  PROVE  /\ live' \subseteq Sessions
         /\ closing' \in [Closers -> [id : Sessions, ok : BOOLEAN] \cup {None}]
  BY DEF TypeOK, CloseInner

\* The table's part of a close keeps its variables typed.
LEMMA ReleaseType ==
  ASSUME TypeOK, NEW t \in Closers, Release(t)
  PROVE  /\ slots' \in Nat
         /\ DOMAIN owners' \subseteq Sessions
         /\ \A s \in DOMAIN owners' : owners'[s] \in Clients \cup {None}
         /\ closing' \in [Closers -> [id : Sessions, ok : BOOLEAN] \cup {None}]
  BY DEF TypeOK, Release

\* Dropping a request keeps the types.
LEMMA DroppedType ==
  ASSUME TypeOK, NEW r \in Requests, NEW code \in Statuses, DroppedAt(r), Answered(r, code)
  PROVE  TypeOK'
<1>1. req' \in [Requests -> Request]
  BY AnsweredType
<1>2. closing' \in [Closers -> [id : Sessions, ok : BOOLEAN] \cup {None}]
  BY DEF TypeOK, DroppedAt
<1>3. slots' \in Nat
  BY DEF TypeOK, DroppedAt
<1> QED
  BY <1>1, <1>2, <1>3 DEF TypeOK, DroppedAt

\* Every step of a request keeps the types; the request that arrives is covered too.
LEMMA RequestTypes ==
  ASSUME TypeOK, RequestsSettled, NEW r \in Requests, Arrives(r) \/ RequestStep(r)
  PROVE  TypeOK'
<1>1. CASE Unauthorized(r)
  <2>1. req' \in [Requests -> Request]
    BY <1>1, AnsweredType DEF Unauthorized, Statuses
  <2> QED
    BY <1>1, <2>1 DEF Unauthorized, TypeOK
<1>2. ASSUME NEW k \in Keys, NEW kind \in Kinds, NEW s \in Sessions, Authenticate(r, k, kind, s)
      PROVE  TypeOK'
  <2>1. PICK c \in Clients :
          req' = [req EXCEPT ![r] =
                    InFlight("verified", c, kind, IF kind = "initialize" THEN None ELSE s, FALSE)]
    BY <1>2 DEF Authenticate
  <2>2. InFlight("verified", c, kind, IF kind = "initialize" THEN None ELSE s, FALSE) \in Request
    BY RequestRecords DEF Places
  <2>3. req' \in [Requests -> Request]
    BY <2>1, <2>2 DEF TypeOK
  <2> QED
    BY <1>2, <2>3 DEF Authenticate, TypeOK
<1>3. CASE Admit(r)
  <2>1. Answered(r, 503) \/ Moves(r, "accepted") \/ Moves(r, "looking") \/ Answered(r, 404)
    BY <1>3 DEF Admit
  <2>2. req' \in [Requests -> Request]
    BY <1>3, <2>1, AnsweredType, MovesType DEF Admit, AtRest, Statuses, Places
  <2> QED
    BY <1>3, <2>2 DEF Admit, TypeOK
<1>4. CASE LookUp(r)
  <2>1. Answered(r, 404) \/ Moves(r, "serving")
    BY <1>4 DEF LookUp
  <2>2. req' \in [Requests -> Request]
    BY <1>4, <2>1, AnsweredType, MovesType DEF LookUp, AtRest, Statuses, Places
  <2> QED
    BY <1>4, <2>2 DEF LookUp, TypeOK
<1>5. CASE ReserveSlot(r)
  <2>1. CASE slots > 0
    <3>1. slots' \in Nat
      BY <1>5, <2>1 DEF ReserveSlot, TypeOK
    <3>2. req' \in [Requests -> Request]
      BY <1>5, <2>1, MovesType DEF ReserveSlot, AtRest, Places
    <3> QED
      BY <1>5, <3>1, <3>2 DEF ReserveSlot, TypeOK
  <2>2. CASE ~(slots > 0)
    <3>1. req[r].session \in Sessions \cup {None}
      BY DEF TypeOK, Request
    <3>2. req' = [req EXCEPT ![r] =
                   InFlight("failed", req[r].client, req[r].kind, req[r].session, TRUE)]
      BY <1>5, <2>2 DEF ReserveSlot
    <3>3. req' \in [Requests -> Request]
      BY <1>5, <3>1, <3>2, InFlightType DEF ReserveSlot, AtRest, Places
    <3> QED
      BY <1>5, <2>2, <3>3 DEF ReserveSlot, TypeOK
  <2> QED
    BY <2>1, <2>2
<1>6. CASE CreateSession(r)
  <2>1. PICK s \in Sessions :
          /\ live' = live \cup {s}
          /\ owners' = [d \in DOMAIN owners \cup {s} |-> IF d = s THEN None ELSE owners[d]]
          /\ worker' = [worker EXCEPT ![s] = "running"]
          /\ req' = [req EXCEPT ![r] =
                       InFlight("created", req[r].client, req[r].kind, s, req[r].denied)]
    BY <1>6 DEF CreateSession
  <2>2. req[r].denied \in BOOLEAN
    BY DEF TypeOK, Request
  <2>3. req' \in [Requests -> Request]
    BY <1>6, <2>1, <2>2, InFlightType DEF CreateSession, AtRest, Places
  <2>4. /\ DOMAIN owners' \subseteq Sessions
        /\ \A d \in DOMAIN owners' : owners'[d] \in Clients \cup {None}
    BY <2>1 DEF TypeOK
  <2>5. worker' \in [Sessions -> {"none", "running", "closing", "ended"}]
    BY <2>1 DEF TypeOK
  <2> QED
    BY <1>6, <2>1, <2>3, <2>4, <2>5 DEF CreateSession, TypeOK
<1>7. CASE CreateFails(r)
  <2>1. slots' \in Nat
    BY <1>7 DEF CreateFails, TypeOK
  <2>2. req' \in [Requests -> Request]
    BY <1>7, MovesType DEF CreateFails, AtRest, Places
  <2> QED
    BY <1>7, <2>1, <2>2 DEF CreateFails, TypeOK
<1>8. CASE BindOwner(r)
  <2>1. Moves(r, "initializing") \/ Moves(r, "failed")
    BY <1>8 DEF BindOwner
  <2>2. req' \in [Requests -> Request]
    BY <1>8, <2>1, MovesType DEF BindOwner, AtRest, Places
  <2>3. req[r].client \in Clients
    BY <1>8 DEF BindOwner, RequestsSettled, AtRest
  <2>4. /\ DOMAIN owners' \subseteq Sessions
        /\ \A s \in DOMAIN owners' : owners'[s] \in Clients \cup {None}
    <3>1. owners' = [owners EXCEPT ![req[r].session] = req[r].client] \/ owners' = owners
      BY <1>8 DEF BindOwner
    <3> QED
      BY <2>3, <3>1 DEF TypeOK
  <2> QED
    BY <1>8, <2>2, <2>4 DEF BindOwner, TypeOK
<1>9. CASE Initialized(r)
  <2>1. req' \in [Requests -> Request]
    BY <1>9, AnsweredType DEF Initialized, Statuses
  <2> QED
    BY <1>9, <2>1 DEF Initialized, TypeOK
<1>10. CASE InitializeFails(r) \/ DeleteSession(r)
  <2>1. /\ req[r].pc \in InSession
        /\ CloseInner(r, req[r].session)
        /\ Moves(r, "closing")
        /\ UNCHANGED <<keys, issued, slots, owners, worker, server, ids>>
    BY <1>10 DEF InitializeFails, DeleteSession, InSession
  <2>2. req[r].session \in Sessions /\ r \in Closers /\ req[r].pc \notin AtRest
    BY <2>1 DEF RequestsSettled, InSession, Closers, AtRest
  <2>3. req' \in [Requests -> Request]
    BY <2>1, <2>2, MovesType DEF Places
  <2> QED
    BY <2>1, <2>2, <2>3, CloseInnerType DEF TypeOK
<1>11. CASE Serve(r)
  <2>1. Answered(r, 200) \/ Moves(r, "failed")
    BY <1>11 DEF Serve
  <2>2. req' \in [Requests -> Request]
    BY <1>11, <2>1, AnsweredType, MovesType DEF Serve, AtRest, Statuses, Places
  <2> QED
    BY <1>11, <2>2 DEF Serve, TypeOK
<1>12. CASE RequestCloses(r)
  <2>1. Answered(r, 202) \/ Moves(r, "failed")
    BY <1>12 DEF RequestCloses
  <2>2. req' \in [Requests -> Request]
    BY <1>12, <2>1, AnsweredType, MovesType DEF RequestCloses, AtRest, Statuses, Places
  <2>3. r \in Closers
    BY DEF Closers
  <2> QED
    BY <1>12, <2>2, <2>3, ReleaseType DEF RequestCloses, TypeOK
<1>13. CASE Fails(r)
  <2>1. Answered(r, 429) \/ Answered(r, 500)
    BY <1>13 DEF Fails
  <2>2. req' \in [Requests -> Request]
    BY <2>1, AnsweredType DEF Statuses
  <2> QED
    BY <1>13, <2>2 DEF Fails, TypeOK
<1>14. CASE ConnectionLost(r)
  BY <1>14, DroppedType DEF ConnectionLost, Statuses
<1>15. CASE CancelRequest(r)
  BY <1>15, DroppedType DEF CancelRequest, Statuses
<1> QED
  BY <1>1, <1>2, <1>3, <1>4, <1>5, <1>6, <1>7, <1>8, <1>9, <1>10, <1>11, <1>12, <1>13,
     <1>14, <1>15 DEF Arrives, RequestStep

\* Every other step keeps the types.
LEMMA OtherTypes ==
  ASSUME TypeOK, ConfigEdited \/ Shutdown \/ JoinStep \/ (\E s \in Sessions : WorkerStep(s))
  PROVE  TypeOK'
<1> USE DEF TypeOK
<1>1. ASSUME NEW c \in Clients, NEW k \in Keys, RotateKey(c, k)
      PROVE  TypeOK'
  BY <1>1 DEF RotateKey
<1>2. ASSUME NEW old \in Clients, NEW new \in Clients, RenameClient(old, new)
      PROVE  TypeOK'
  BY <1>2 DEF RenameClient
<1>3. CASE Shutdown
  BY <1>3 DEF Shutdown, Phases
<1>4. CASE Drain
  BY <1>4 DEF Drain, Phases
<1>5. CASE BeginCloseAll
  BY <1>5 DEF BeginCloseAll, Phases
<1>6. CASE CloseNext
  <2>1. PICK s \in ids : CloseInner(Joiner, s)
    BY <1>6 DEF CloseNext
  <2> QED
    BY <1>6, <2>1, CloseInnerType DEF CloseNext, Closers
<1>7. CASE CloseReturns
  <2>1. Joiner \in Closers
    BY DEF Closers
  <2> QED
    BY <1>7, <2>1, ReleaseType DEF CloseReturns, Phases
<1>8. CASE AllClosed
  BY <1>8 DEF AllClosed, Phases
<1>9. ASSUME NEW s \in Sessions, WorkerStep(s)
      PROVE  TypeOK'
  <2>1. s \in Closers
    BY DEF Closers
  <2>2. CASE WorkerCloses(s)
    BY <2>1, <2>2, CloseInnerType DEF WorkerCloses
  <2>3. CASE WorkerReleases(s)
    BY <2>1, <2>3, ReleaseType DEF WorkerReleases
  <2> QED
    BY <1>9, <2>2, <2>3 DEF WorkerStep, WorkerExpires, WorkerStops
<1> QED
  BY <1>1, <1>2, <1>3, <1>4, <1>5, <1>6, <1>7, <1>8, <1>9 DEF ConfigEdited, JoinStep

-----------------------------------------------------------------------------
(* What a step leaves of the requests. *)

\* An answered request is at rest; the others stay.
LEMMA AnsweredFields ==
  ASSUME TypeOK, NEW r \in Requests, NEW code, Answered(r, code)
  PROVE  /\ \A q \in Requests \ {r} : req'[q] = req[q]
         /\ req'[r].pc \in AtRest
  BY DEF TypeOK, Answered, Resting, AtRest

\* A request that moves keeps its client and its session; the others stay.
LEMMA MovesFields ==
  ASSUME TypeOK, NEW r \in Requests, NEW pc, Moves(r, pc)
  PROVE  /\ \A q \in Requests \ {r} : req'[q] = req[q]
         /\ req'[r].pc = pc
         /\ req'[r].client = req[r].client
         /\ req'[r].session = req[r].session
  BY DEF TypeOK, Moves, InFlight

\* Entries and requests are finitely many.
LEMMA FiniteTables ==
  ASSUME TypeOK
  PROVE  /\ IsFiniteSet(DOMAIN owners) /\ Cardinality(DOMAIN owners) \in Nat
         /\ IsFiniteSet(Creating) /\ Cardinality(Creating) \in Nat
<1>1. IsFiniteSet(DOMAIN owners) /\ IsFiniteSet(Creating)
  BY FiniteTasks, FS_Subset DEF TypeOK, Creating
<1> QED
  BY <1>1, FS_CardinalityType

-----------------------------------------------------------------------------
(* Permits. *)

\* Giving back the permit of an entry keeps the permits balanced, once or twice.
LEMMA ReleaseBalance ==
  ASSUME TypeOK, PermitsBalanced, NEW t \in Closers, Release(t), Creating' = Creating
  PROVE  PermitsBalanced'
<1> DEFINE s == closing[t].id
<1>1. DOMAIN owners' = DOMAIN owners \ {s}
  BY DEF Release
<1>2. Cardinality(DOMAIN owners') =
        IF s \in DOMAIN owners THEN Cardinality(DOMAIN owners) - 1 ELSE Cardinality(DOMAIN owners)
  BY <1>1, FiniteTables, FS_RemoveElement
<1>3. slots' = IF s \in DOMAIN owners THEN slots + 1 ELSE slots
  BY DEF Release
<1> QED
  BY <1>2, <1>3, FiniteTables DEF PermitsBalanced, TypeOK

\* Dropping a request gives its permit back exactly when it carries one.
LEMMA DroppedBalance ==
  ASSUME TypeOK, PermitsBalanced, NEW r \in Requests, NEW code,
         DroppedAt(r), Answered(r, code)
  PROVE  PermitsBalanced'
<1>1. Creating' = Creating \ {r}
  BY AnsweredFields, MovesFields DEF Creating, AtRest
<1>2. Cardinality(Creating') = IF r \in Creating THEN Cardinality(Creating) - 1
                               ELSE Cardinality(Creating)
  BY <1>1, FiniteTables, FS_RemoveElement
<1>3. slots' = IF r \in Creating THEN slots + 1 ELSE slots
  BY DEF DroppedAt, Creating
<1> QED
  BY <1>2, <1>3, FiniteTables DEF PermitsBalanced, TypeOK, DroppedAt

\* Every step of a request keeps the permits balanced.
LEMMA RequestBalance ==
  ASSUME TypeOK, PermitsBalanced, EntriesGivenOut, NEW r \in Requests, Arrives(r) \/ RequestStep(r)
  PROVE  PermitsBalanced'
<1>1. ASSUME UNCHANGED slots, DOMAIN owners' = DOMAIN owners,
             \A q \in Requests \ {r} : req'[q] = req[q],
             req[r].pc # "creating", req'[r].pc # "creating"
      PROVE  PermitsBalanced'
  <2>1. Creating' = Creating
    BY <1>1 DEF Creating
  <2> QED
    BY <1>1, <2>1 DEF PermitsBalanced
<1>2. CASE Unauthorized(r)
  BY <1>1, <1>2, AnsweredFields, MovesFields DEF Unauthorized, AtRest
<1>3. ASSUME NEW k \in Keys, NEW kind \in Kinds, NEW s \in Sessions, Authenticate(r, k, kind, s)
      PROVE  PermitsBalanced'
  <2>1. \A q \in Requests \ {r} : req'[q] = req[q]
    BY <1>3 DEF Authenticate, TypeOK
  <2>2. req'[r].pc = "verified"
    BY <1>3 DEF Authenticate, TypeOK, InFlight
  <2> QED
    BY <1>1, <1>3, <2>1, <2>2 DEF Authenticate
<1>4. CASE Admit(r)
  <2>1. Answered(r, 503) \/ Moves(r, "accepted") \/ Moves(r, "looking") \/ Answered(r, 404)
    BY <1>4 DEF Admit
  <2> QED
    BY <1>1, <1>4, <2>1, AnsweredFields, MovesFields DEF Admit, AtRest
<1>5. CASE LookUp(r)
  BY <1>1, <1>5, AnsweredFields, MovesFields DEF LookUp, AtRest
<1>6. CASE ReserveSlot(r)
  <2>1. CASE slots > 0
    <3>1. Creating' = Creating \cup {r} /\ r \notin Creating
      BY <1>6, <2>1, AnsweredFields, MovesFields DEF ReserveSlot, Creating
    <3>2. Cardinality(Creating') = Cardinality(Creating) + 1
      BY <3>1, FiniteTables, FS_AddElement
    <3>3. slots' = slots - 1 /\ UNCHANGED owners
      BY <1>6, <2>1 DEF ReserveSlot
    <3> QED
      BY <3>2, <3>3, FiniteTables DEF PermitsBalanced, TypeOK
  <2>2. CASE ~(slots > 0)
    <3>1. req' = [req EXCEPT ![r] =
                   InFlight("failed", req[r].client, req[r].kind, req[r].session, TRUE)]
      BY <1>6, <2>2 DEF ReserveSlot
    <3>2. /\ \A q \in Requests \ {r} : req'[q] = req[q]
          /\ req'[r].pc = "failed"
      BY <3>1 DEF TypeOK, InFlight
    <3> QED
      BY <1>1, <1>6, <2>2, <3>2 DEF ReserveSlot
  <2> QED
    BY <2>1, <2>2
<1>7. CASE CreateSession(r)
  <2>1. PICK s \in Sessions :
          /\ worker[s] = "none"
          /\ DOMAIN owners' = DOMAIN owners \cup {s}
          /\ req' = [req EXCEPT ![r] =
                       InFlight("created", req[r].client, req[r].kind, s, req[r].denied)]
    BY <1>7 DEF CreateSession
  <2>2. Cardinality(DOMAIN owners') = Cardinality(DOMAIN owners) + 1
    BY <2>1, FiniteTables, FS_AddElement DEF EntriesGivenOut
  <2>3. \A q \in Requests \ {r} : req'[q] = req[q]
    BY <2>1 DEF TypeOK
  <2>4. req'[r].pc = "created"
    BY <2>1 DEF TypeOK, InFlight
  <2>5. Creating' = Creating \ {r} /\ r \in Creating
    BY <1>7, <2>3, <2>4 DEF CreateSession, Creating
  <2>6. Cardinality(Creating') = Cardinality(Creating) - 1
    BY <2>5, FiniteTables, FS_RemoveElement
  <2>7. UNCHANGED slots
    BY <1>7 DEF CreateSession
  <2> QED
    BY <2>2, <2>6, <2>7, FiniteTables DEF PermitsBalanced, TypeOK
<1>8. CASE CreateFails(r)
  <2>1. Creating' = Creating \ {r} /\ r \in Creating
    BY <1>8, AnsweredFields, MovesFields DEF CreateFails, Creating
  <2>2. Cardinality(Creating') = Cardinality(Creating) - 1
    BY <2>1, FiniteTables, FS_RemoveElement
  <2> QED
    BY <1>8, <2>2, FiniteTables DEF CreateFails, PermitsBalanced, TypeOK
<1>9. CASE BindOwner(r)
  <2>1. Moves(r, "initializing") \/ Moves(r, "failed")
    BY <1>9 DEF BindOwner
  <2>2. DOMAIN owners' = DOMAIN owners
    BY <1>9 DEF BindOwner
  <2> QED
    BY <1>1, <1>9, <2>1, <2>2, AnsweredFields, MovesFields DEF BindOwner
<1>10. CASE Initialized(r)
  BY <1>1, <1>10, AnsweredFields, MovesFields DEF Initialized, AtRest
<1>11. CASE InitializeFails(r) \/ DeleteSession(r)
  BY <1>1, <1>11, AnsweredFields, MovesFields DEF InitializeFails, DeleteSession
<1>12. CASE Serve(r)
  BY <1>1, <1>12, AnsweredFields, MovesFields DEF Serve, AtRest
<1>13. CASE RequestCloses(r)
  <2>1. Answered(r, 202) \/ Moves(r, "failed")
    BY <1>13 DEF RequestCloses
  <2>2. Creating' = Creating
    BY <1>13, <2>1, AnsweredFields, MovesFields DEF RequestCloses, Creating, AtRest
  <2> QED
    BY <1>13, <2>2, ReleaseBalance DEF RequestCloses, Closers
<1>14. CASE Fails(r)
  <2>1. Answered(r, 429) \/ Answered(r, 500)
    BY <1>14 DEF Fails
  <2> QED
    BY <1>1, <1>14, <2>1, AnsweredFields, MovesFields DEF Fails, AtRest
<1>15. CASE ConnectionLost(r)
  BY <1>15, DroppedBalance DEF ConnectionLost
<1>16. CASE CancelRequest(r)
  BY <1>16, DroppedBalance DEF CancelRequest
<1> QED
  BY <1>2, <1>3, <1>4, <1>5, <1>6, <1>7, <1>8, <1>9, <1>10, <1>11, <1>12, <1>13,
     <1>14, <1>15, <1>16 DEF Arrives, RequestStep

\* Workers, the joining task and the config keep the permits balanced.
LEMMA OtherBalance ==
  ASSUME TypeOK, PermitsBalanced,
         ConfigEdited \/ Shutdown \/ JoinStep \/ (\E s \in Sessions : WorkerStep(s))
  PROVE  PermitsBalanced'
<1>1. CASE UNCHANGED <<req, slots, owners>>
  BY <1>1 DEF PermitsBalanced, Creating
<1>2. ASSUME NEW t \in Closers, Release(t), UNCHANGED req
      PROVE  PermitsBalanced'
  <2>1. Creating' = Creating
    BY <1>2 DEF Creating
  <2> QED
    BY <1>2, <2>1, ReleaseBalance
<1>3. ASSUME NEW s \in Sessions, WorkerStep(s)
      PROVE  PermitsBalanced'
  <2>1. s \in Closers
    BY DEF Closers
  <2> QED
    BY <1>1, <1>2, <1>3, <2>1
       DEF WorkerStep, WorkerExpires, WorkerStops, WorkerCloses, WorkerReleases
<1>4. CASE CloseReturns
  <2>1. Joiner \in Closers
    BY DEF Closers
  <2> QED
    BY <1>2, <1>4, <2>1 DEF CloseReturns
<1> QED
  BY <1>1, <1>3, <1>4
     DEF ConfigEdited, RotateKey, RenameClient, Shutdown, JoinStep, Drain, BeginCloseAll,
         CloseNext, AllClosed

-----------------------------------------------------------------------------
(* Owners, closes and the shutdown. *)

\* A request that moves without touching the tables keeps the invariant, if it has what
\* its new place asks for.
LEMMA QuietStep ==
  ASSUME TypeOK, Sound, NEW r \in Requests,
         req[r].pc \notin AtRest \/ server \in {"serving", "cancelled"},
         UNCHANGED <<owners, live, worker, closing, server, ids>>,
         \A q \in Requests \ {r} : req'[q] = req[q],
         req'[r].pc \notin AtRest => req'[r].client \in Clients,
         req'[r].pc \in InSession \cup {"created"} =>
            req'[r].session \in Sessions /\ worker[req'[r].session] # "none",
         req'[r].pc \in InSession /\ req'[r].session \in DOMAIN owners =>
            owners[req'[r].session] = req'[r].client,
         req'[r].pc # "closing"
  PROVE  Sound'
<1>1. LiveSessionsHoldPermits' /\ EntriesGivenOut'
  BY DEF Sound, LiveSessionsHoldPermits, EntriesGivenOut
<1>2. ServedUnderOwner'
  BY DEF Sound, ServedUnderOwner, InSession
<1>3. RequestsSettled'
  BY DEF Sound, RequestsSettled
<1>4. ClosesUnderway'
  BY DEF Sound, ClosesUnderway
<1>5. JoinInOrder'
  BY DEF Sound, JoinInOrder, Drained
<1> QED
  BY <1>1, <1>2, <1>3, <1>4, <1>5 DEF Sound

\* Answering a request keeps the invariant.
LEMMA AnsweredSound ==
  ASSUME TypeOK, Sound, NEW r \in Requests, NEW code, Answered(r, code),
         req[r].pc \notin AtRest \/ server \in {"serving", "cancelled"},
         UNCHANGED <<owners, live, worker, closing, server, ids>>
  PROVE  Sound'
  BY AnsweredFields, QuietStep DEF AtRest, InSession

\* So does moving it to a place that asks nothing of its session.
LEMMA MovesSound ==
  ASSUME TypeOK, Sound, NEW r \in Requests, NEW pc, Moves(r, pc),
         pc \notin InSession \cup {"created"},
         req[r].pc \notin AtRest,
         UNCHANGED <<owners, live, worker, closing, server, ids>>
  PROVE  Sound'
<1>1. req[r].client \in Clients
  BY DEF Sound, RequestsSettled
<1> QED
  BY <1>1, MovesFields, QuietStep DEF InSession

\* A close that passes the SDK's part: its session is gone there, the entries stay.
LEMMA CloseInnerSound ==
  ASSUME TypeOK, Sound, NEW t \in Closers, NEW s \in Sessions,
         worker[s] # "none", CloseInner(t, s),
         UNCHANGED <<owners, server, ids>>,
         \A d \in Sessions : worker[d] # "none" => worker'[d] # "none"
  PROVE  /\ LiveSessionsHoldPermits' /\ EntriesGivenOut'
         /\ \A u \in Closers : closing'[u] # None =>
               closing'[u].id \notin live' /\ worker'[closing'[u].id] # "none"
         /\ closing'[t] # None
<1>1. PICK ok \in BOOLEAN :
        live' = live \ {s} /\ closing' = [closing EXCEPT ![t] = [id |-> s, ok |-> ok]]
  BY DEF CloseInner
<1>2. LiveSessionsHoldPermits'
  BY <1>1 DEF Sound, LiveSessionsHoldPermits
<1>3. EntriesGivenOut'
  BY DEF Sound, EntriesGivenOut, TypeOK
<1>4. ASSUME NEW u \in Closers, closing'[u] # None
      PROVE  closing'[u].id \notin live' /\ worker'[closing'[u].id] # "none"
  <2>1. CASE u = t
    BY <1>1, <2>1 DEF TypeOK
  <2>2. CASE u # t
    <3>1. closing'[u] = closing[u]
      BY <1>1, <2>2 DEF TypeOK
    <3>2. closing[u] \in [id : Sessions, ok : BOOLEAN]
      BY <1>4, <3>1 DEF TypeOK
    <3>3. closing[u].id \in Sessions /\ closing[u].id \notin live /\ worker[closing[u].id] # "none"
      BY <1>4, <3>1, <3>2 DEF Sound, ClosesUnderway
    <3> QED
      BY <1>1, <3>1, <3>3
  <2> QED
    BY <2>1, <2>2
<1>5. closing'[t] # None
  <2>1. closing'[t] = [id |-> s, ok |-> ok]
    BY <1>1 DEF TypeOK
  <2> QED
    BY <2>1, NoneIsNothing
<1> QED
  BY <1>2, <1>3, <1>4, <1>5

\* The second part of a close: the entry goes after its session.
LEMMA ReleaseSound ==
  ASSUME TypeOK, Sound, NEW t \in Closers, closing[t] # None, Release(t),
         UNCHANGED live, ids' \subseteq ids,
         \A d \in Sessions : worker[d] # "none" => worker'[d] # "none"
  PROVE  /\ LiveSessionsHoldPermits' /\ EntriesGivenOut'
         /\ \A d \in DOMAIN owners' : d \in DOMAIN owners /\ owners'[d] = owners[d]
         /\ \A u \in Closers : closing'[u] # None =>
               closing'[u].id \notin live' /\ worker'[closing'[u].id] # "none"
         /\ \A u \in Closers \ {t} : closing'[u] = closing[u]
<1>1. /\ owners' = [d \in DOMAIN owners \ {closing[t].id} |-> owners[d]]
      /\ closing' = [closing EXCEPT ![t] = None]
  BY DEF Release
<1>2. closing[t].id \notin live
  BY DEF Sound, ClosesUnderway
<1>3. LiveSessionsHoldPermits'
  BY <1>1, <1>2 DEF Sound, LiveSessionsHoldPermits
<1>4. EntriesGivenOut'
  BY <1>1 DEF Sound, EntriesGivenOut, TypeOK
<1>5. /\ closing'[t] = None
      /\ \A u \in Closers \ {t} : closing'[u] = closing[u]
  BY <1>1 DEF TypeOK
<1>6. ASSUME NEW u \in Closers, closing'[u] # None
      PROVE  closing'[u].id \notin live' /\ worker'[closing'[u].id] # "none"
  <2>1. u # t /\ closing'[u] = closing[u] /\ closing[u] # None
    BY <1>5, <1>6
  <2>2. closing[u].id \in Sessions
    BY <2>1 DEF TypeOK
  <2> QED
    BY <2>1, <2>2 DEF Sound, ClosesUnderway
<1> QED
  BY <1>1, <1>3, <1>4, <1>5, <1>6

\* Every step of a request that leaves the tables alone keeps the invariant.
LEMMA QuietRequests ==
  ASSUME TypeOK, Sound, NEW r \in Requests,
         Arrives(r) \/ Admit(r) \/ LookUp(r) \/ ReserveSlot(r) \/ CreateFails(r)
           \/ Initialized(r) \/ Serve(r) \/ Fails(r)
  PROVE  Sound'
<1>1. CASE Unauthorized(r)
  BY <1>1, AnsweredSound DEF Unauthorized
<1>2. ASSUME NEW k \in Keys, NEW kind \in Kinds, NEW s \in Sessions, Authenticate(r, k, kind, s)
      PROVE  Sound'
  <2>1. PICK c \in Clients :
          req' = [req EXCEPT ![r] =
                    InFlight("verified", c, kind, IF kind = "initialize" THEN None ELSE s, FALSE)]
    BY <1>2 DEF Authenticate
  <2>2. /\ \A q \in Requests \ {r} : req'[q] = req[q]
        /\ req'[r].pc = "verified" /\ req'[r].client = c
    BY <2>1 DEF TypeOK, InFlight
  <2> QED
    BY <1>2, <2>2, QuietStep DEF Authenticate, InSession
<1>3. CASE Admit(r)
  <2>1. CASE Answered(r, 503) \/ Answered(r, 404)
    BY <1>3, <2>1, AnsweredSound DEF Admit, AtRest
  <2>2. CASE Moves(r, "accepted")
    BY <1>3, <2>2, MovesSound DEF Admit, AtRest, InSession
  <2>3. CASE Moves(r, "looking") /\ Owns(req[r].session, req[r].client)
    <3>1. /\ req[r].client \in Clients
          /\ req[r].session \in DOMAIN owners
          /\ owners[req[r].session] = req[r].client
      BY <1>3, <2>3 DEF Admit, Owns, Sound, RequestsSettled, AtRest
    <3>2. req[r].session \in Sessions /\ worker[req[r].session] # "none"
      BY <3>1 DEF Sound, EntriesGivenOut, TypeOK
    <3> QED
      BY <1>3, <2>3, <3>1, <3>2, MovesFields, QuietStep DEF Admit, AtRest
  <2> QED
    BY <1>3, <2>1, <2>2, <2>3 DEF Admit
<1>4. CASE LookUp(r)
  <2>1. CASE Answered(r, 404)
    BY <1>4, <2>1, AnsweredSound DEF LookUp, AtRest
  <2>2. CASE Moves(r, "serving")
    <3>1. /\ req[r].pc \in InSession /\ req[r].client \in Clients
          /\ req[r].session \in Sessions /\ worker[req[r].session] # "none"
          /\ req[r].session \in DOMAIN owners => owners[req[r].session] = req[r].client
      BY <1>4 DEF LookUp, InSession, AtRest, Sound, RequestsSettled, ServedUnderOwner
    <3> QED
      BY <1>4, <2>2, <3>1, MovesFields, QuietStep DEF LookUp, AtRest
  <2> QED
    BY <1>4, <2>1, <2>2 DEF LookUp
<1>5. CASE ReserveSlot(r)
  <2>1. CASE Moves(r, "creating")
    BY <1>5, <2>1, MovesSound DEF ReserveSlot, AtRest, InSession
  <2>2. CASE req' = [req EXCEPT ![r] =
                      InFlight("failed", req[r].client, req[r].kind, req[r].session, TRUE)]
    <3>1. /\ \A q \in Requests \ {r} : req'[q] = req[q]
          /\ req'[r].pc = "failed" /\ req'[r].client = req[r].client
      BY <2>2 DEF TypeOK, InFlight
    <3>2. req[r].client \in Clients
      BY <1>5 DEF ReserveSlot, Sound, RequestsSettled, AtRest
    <3> QED
      BY <1>5, <3>1, <3>2, QuietStep DEF ReserveSlot, AtRest, InSession
  <2> QED
    BY <1>5, <2>1, <2>2 DEF ReserveSlot
<1>6. CASE CreateFails(r)
  BY <1>6, MovesSound DEF CreateFails, AtRest, InSession
<1>7. CASE Initialized(r)
  BY <1>7, AnsweredSound DEF Initialized, AtRest
<1>8. CASE Serve(r)
  <2>1. Answered(r, 200) \/ Moves(r, "failed")
    BY <1>8 DEF Serve
  <2> QED
    BY <1>8, <2>1, AnsweredSound, MovesSound DEF Serve, AtRest, InSession
<1>9. CASE Fails(r)
  <2>1. Answered(r, 429) \/ Answered(r, 500)
    BY <1>9 DEF Fails
  <2> QED
    BY <1>9, <2>1, AnsweredSound DEF Fails, AtRest
<1> QED
  BY <1>1, <1>2, <1>3, <1>4, <1>5, <1>6, <1>7, <1>8, <1>9 DEF Arrives

\* While a request is in flight the server has not drained, and nobody joins it yet.
LEMMA NotJoining ==
  ASSUME TypeOK, Sound, NEW r \in Requests, req[r].pc \notin AtRest
  PROVE  server \in {"serving", "cancelled"} /\ closing[Joiner] = None
  BY DEF Sound, JoinInOrder, Drained

\* A step of a request in flight that leaves the joining task alone keeps its order.
LEMMA JoinUndisturbed ==
  ASSUME TypeOK, Sound, NEW r \in Requests, req[r].pc \notin AtRest,
         UNCHANGED <<server, ids>>, closing'[Joiner] = closing[Joiner]
  PROVE  JoinInOrder'
  BY NotJoining DEF JoinInOrder

\* A session that appears is new to every request, close and list.
LEMMA CreateSessionSound ==
  ASSUME TypeOK, Sound, NEW r \in Requests, CreateSession(r)
  PROVE  Sound'
<1>1. PICK s \in Sessions :
        /\ worker[s] = "none"
        /\ live' = live \cup {s}
        /\ owners' = [d \in DOMAIN owners \cup {s} |-> IF d = s THEN None ELSE owners[d]]
        /\ worker' = [worker EXCEPT ![s] = "running"]
        /\ req' = [req EXCEPT ![r] =
                     InFlight("created", req[r].client, req[r].kind, s, req[r].denied)]
  BY DEF CreateSession
<1>2. /\ \A q \in Requests \ {r} : req'[q] = req[q]
      /\ req'[r].pc = "created" /\ req'[r].client = req[r].client /\ req'[r].session = s
  BY <1>1 DEF TypeOK, InFlight
<1>3. /\ worker'[s] = "running"
      /\ \A d \in Sessions \ {s} : worker'[d] = worker[d]
  BY <1>1 DEF TypeOK
<1>4. req[r].client \in Clients
  BY DEF CreateSession, Sound, RequestsSettled, AtRest
<1>5. LiveSessionsHoldPermits'
  BY <1>1 DEF Sound, LiveSessionsHoldPermits
<1>6. EntriesGivenOut'
  BY <1>1, <1>3 DEF Sound, EntriesGivenOut, CreateSession, TypeOK
<1>7. RequestsSettled'
  BY <1>2, <1>3, <1>4 DEF Sound, RequestsSettled, InSession
<1>8. ServedUnderOwner'
  <2>1. SUFFICES ASSUME NEW q \in Requests, req'[q].pc \in InSession,
                        req'[q].session \in DOMAIN owners'
                 PROVE  owners'[req'[q].session] = req'[q].client
    BY DEF ServedUnderOwner, InSession
  <2>2. q # r /\ req'[q] = req[q]
    BY <1>2, <2>1 DEF InSession
  <2>3. worker[req[q].session] # "none"
    BY <2>1, <2>2 DEF Sound, RequestsSettled
  <2>4. req[q].session # s /\ req[q].session \in DOMAIN owners
    BY <1>1, <2>1, <2>2, <2>3
  <2> QED
    BY <1>1, <2>1, <2>2, <2>4 DEF Sound, ServedUnderOwner, InSession
<1>9. ClosesUnderway'
  <2>1. \A t \in Closers : closing[t] # None =>
           closing[t].id \in Sessions /\ closing[t].id # s
    BY <1>1 DEF TypeOK, Sound, ClosesUnderway
  <2>2. UNCHANGED closing
    BY DEF CreateSession
  <2> QED
    BY <1>1, <1>2, <1>3, <2>1, <2>2 DEF Sound, ClosesUnderway
<1>10. JoinInOrder'
  BY JoinUndisturbed DEF CreateSession, AtRest
<1> QED
  BY <1>5, <1>6, <1>7, <1>8, <1>9, <1>10 DEF Sound

\* Binding a session gives it a client only while it has none, so that nobody else's
\* request is at work in it.
LEMMA BindOwnerSound ==
  ASSUME TypeOK, Sound, NEW r \in Requests, BindOwner(r)
  PROVE  Sound'
<1> DEFINE s == req[r].session
<1>1. /\ req[r].client \in Clients
      /\ s \in Sessions /\ worker[s] # "none"
      /\ req[r].pc \notin AtRest
  BY DEF BindOwner, Sound, RequestsSettled, AtRest
<1>2. CASE /\ s \in DOMAIN owners /\ owners[s] \in {None, req[r].client}
           /\ owners' = [owners EXCEPT ![s] = req[r].client]
           /\ Moves(r, "initializing")
  <2>1. /\ \A q \in Requests \ {r} : req'[q] = req[q]
        /\ req'[r].pc = "initializing" /\ req'[r].client = req[r].client
        /\ req'[r].session = s
    BY <1>2, MovesFields
  <2>2. /\ DOMAIN owners' = DOMAIN owners
        /\ owners'[s] = req[r].client
        /\ \A d \in DOMAIN owners \ {s} : owners'[d] = owners[d]
    BY <1>2
  <2>3. LiveSessionsHoldPermits' /\ EntriesGivenOut'
    BY <2>2 DEF Sound, LiveSessionsHoldPermits, EntriesGivenOut, BindOwner
  <2>4. ServedUnderOwner'
    <3>1. SUFFICES ASSUME NEW q \in Requests, req'[q].pc \in InSession,
                          req'[q].session \in DOMAIN owners'
                   PROVE  owners'[req'[q].session] = req'[q].client
      BY DEF ServedUnderOwner, InSession
    <3>2. CASE q = r
      BY <2>1, <2>2, <3>2
    <3>3. CASE q # r
      <4>1. /\ req'[q] = req[q] /\ req[q].session \in DOMAIN owners
            /\ owners[req[q].session] = req[q].client
        BY <2>1, <2>2, <3>1, <3>3 DEF Sound, ServedUnderOwner, InSession
      <4>2. req[q].client \in Clients
        BY <3>1, <4>1 DEF Sound, RequestsSettled, InSession, AtRest
      <4>3. req[q].session = s => req[q].client = req[r].client
        BY <1>2, <4>1, <4>2, NoneIsNothing
      <4> QED
        BY <2>2, <4>1, <4>3
    <3> QED
      BY <3>2, <3>3
  <2>5. RequestsSettled'
    BY <1>1, <2>1 DEF Sound, RequestsSettled, BindOwner
  <2>6. ClosesUnderway'
    BY <2>1 DEF Sound, ClosesUnderway, BindOwner
  <2>7. JoinInOrder'
    BY <1>1, JoinUndisturbed DEF BindOwner
  <2> QED
    BY <2>3, <2>4, <2>5, <2>6, <2>7 DEF Sound
<1>3. CASE UNCHANGED owners /\ Moves(r, "failed")
  BY <1>1, <1>3, MovesSound DEF BindOwner, InSession
<1> QED
  BY <1>2, <1>3 DEF BindOwner

\* A request that begins to close its session, deleted or failed in its initialization.
LEMMA RequestBeginsCloseSound ==
  ASSUME TypeOK, Sound, NEW r \in Requests, InitializeFails(r) \/ DeleteSession(r)
  PROVE  Sound'
<1>1. /\ req[r].pc \in InSession /\ req[r].pc \notin AtRest
      /\ CloseInner(r, req[r].session)
      /\ Moves(r, "closing")
      /\ UNCHANGED <<keys, issued, slots, owners, worker, server, ids>>
  BY DEF InitializeFails, DeleteSession, InSession, AtRest
<1>2. /\ req[r].client \in Clients
      /\ req[r].session \in Sessions /\ worker[req[r].session] # "none"
      /\ r \in Closers /\ r # Joiner /\ r \notin Sessions
  BY <1>1, TasksAreDistinct DEF Sound, RequestsSettled, Closers
<1>3. /\ \A q \in Requests \ {r} : req'[q] = req[q]
      /\ req'[r].pc = "closing" /\ req'[r].client = req[r].client
      /\ req'[r].session = req[r].session
  BY <1>1, MovesFields
<1>4. /\ LiveSessionsHoldPermits' /\ EntriesGivenOut'
      /\ \A u \in Closers : closing'[u] # None =>
            closing'[u].id \notin live' /\ worker'[closing'[u].id] # "none"
      /\ closing'[r] # None
  BY <1>1, <1>2, CloseInnerSound
<1>5. \A u \in Closers \ {r} : closing'[u] = closing[u]
  BY <1>1, <1>2 DEF CloseInner, TypeOK
<1>6. ServedUnderOwner'
  BY <1>1, <1>3 DEF Sound, ServedUnderOwner, InSession
<1>7. RequestsSettled'
  BY <1>1, <1>2, <1>3 DEF Sound, RequestsSettled
<1>8. ClosesUnderway'
  BY <1>1, <1>2, <1>3, <1>4, <1>5 DEF Sound, ClosesUnderway, Closers
<1>9. JoinInOrder'
  BY <1>1, <1>2, <1>5, JoinUndisturbed DEF Closers
<1> QED
  BY <1>4, <1>6, <1>7, <1>8, <1>9 DEF Sound

\* A request that finishes the close it began.
LEMMA RequestClosesSound ==
  ASSUME TypeOK, Sound, NEW r \in Requests, RequestCloses(r)
  PROVE  Sound'
<1>1. /\ r \in Closers /\ r # Joiner /\ r \notin Sessions
      /\ req[r].pc \notin AtRest
      /\ closing[r] # None /\ req[r].client \in Clients
  BY TasksAreDistinct DEF Closers, RequestCloses, AtRest, Sound, ClosesUnderway, RequestsSettled
<1>2. Answered(r, 202) \/ Moves(r, "failed")
  BY DEF RequestCloses
<1>3. /\ \A q \in Requests \ {r} : req'[q] = req[q]
      /\ req'[r].pc \in AtRest \cup {"failed"}
      /\ req'[r].pc \notin AtRest => req'[r].client \in Clients
  BY <1>1, <1>2, AnsweredFields, MovesFields
<1>4. /\ LiveSessionsHoldPermits' /\ EntriesGivenOut'
      /\ \A d \in DOMAIN owners' : d \in DOMAIN owners /\ owners'[d] = owners[d]
      /\ \A u \in Closers : closing'[u] # None =>
            closing'[u].id \notin live' /\ worker'[closing'[u].id] # "none"
      /\ \A u \in Closers \ {r} : closing'[u] = closing[u]
  BY <1>1, ReleaseSound DEF RequestCloses
<1>5. ServedUnderOwner'
  BY <1>3, <1>4 DEF Sound, ServedUnderOwner, AtRest
<1>6. RequestsSettled'
  BY <1>3 DEF Sound, RequestsSettled, RequestCloses, InSession, AtRest
<1>7. ClosesUnderway'
  BY <1>1, <1>3, <1>4 DEF Sound, ClosesUnderway, Closers, RequestCloses, AtRest
<1>8. JoinInOrder'
  BY <1>1, <1>4, JoinUndisturbed DEF RequestCloses, Closers
<1> QED
  BY <1>4, <1>5, <1>6, <1>7, <1>8 DEF Sound

\* A request that is dropped leaves an entry whose session is gone, never the reverse.
LEMMA DroppedSound ==
  ASSUME TypeOK, Sound, NEW r \in Requests, NEW code, DroppedAt(r), Answered(r, code)
  PROVE  Sound'
<1>1. /\ r \in Closers /\ r # Joiner /\ r \notin Sessions
      /\ req[r].pc \notin AtRest
      /\ closing' = [closing EXCEPT ![r] = None]
      /\ UNCHANGED <<owners, live, worker, server, ids>>
  BY TasksAreDistinct DEF Closers, DroppedAt
<1>2. /\ \A q \in Requests \ {r} : req'[q] = req[q]
      /\ req'[r].pc \in AtRest
  BY AnsweredFields
<1>3. /\ closing'[r] = None
      /\ \A u \in Closers \ {r} : closing'[u] = closing[u]
  BY <1>1 DEF TypeOK
<1>4. LiveSessionsHoldPermits' /\ EntriesGivenOut'
  BY <1>1 DEF Sound, LiveSessionsHoldPermits, EntriesGivenOut
<1>5. ServedUnderOwner' /\ RequestsSettled'
  BY <1>1, <1>2 DEF Sound, ServedUnderOwner, RequestsSettled, InSession, AtRest
<1>6. ClosesUnderway'
  BY <1>1, <1>2, <1>3 DEF Sound, ClosesUnderway, Closers, AtRest
<1>7. JoinInOrder'
  BY <1>1, <1>3, JoinUndisturbed DEF Closers
<1> QED
  BY <1>4, <1>5, <1>6, <1>7 DEF Sound

\* The SDK's workers close what is theirs whatever the requests and the server do.
LEMMA WorkerSound ==
  ASSUME TypeOK, Sound, NEW s \in Sessions, WorkerStep(s)
  PROVE  Sound'
<1>1. s \in Closers /\ s # Joiner /\ s \notin Requests
  BY TasksAreDistinct DEF Closers
<1>2. CASE WorkerCloses(s)
  <2>1. /\ worker[s] = "running" /\ CloseInner(s, s)
        /\ worker' = [worker EXCEPT ![s] = "closing"]
        /\ UNCHANGED <<keys, issued, req, slots, owners, server, ids>>
    BY <1>2 DEF WorkerCloses
  <2>2. /\ worker'[s] = "closing"
        /\ \A d \in Sessions \ {s} : worker'[d] = worker[d]
    BY <2>1 DEF TypeOK
  <2>3. /\ LiveSessionsHoldPermits' /\ EntriesGivenOut'
        /\ \A u \in Closers : closing'[u] # None =>
              closing'[u].id \notin live' /\ worker'[closing'[u].id] # "none"
        /\ closing'[s] # None
    BY <1>1, <2>1, <2>2, CloseInnerSound
  <2>4. \A u \in Closers \ {s} : closing'[u] = closing[u]
    BY <2>1 DEF CloseInner, TypeOK
  <2>5. ServedUnderOwner' /\ RequestsSettled'
    BY <2>1, <2>2 DEF Sound, ServedUnderOwner, RequestsSettled
  <2>6. ClosesUnderway'
    BY <1>1, <2>1, <2>2, <2>3, <2>4 DEF Sound, ClosesUnderway, Closers
  <2>7. JoinInOrder'
    BY <1>1, <2>1, <2>4 DEF Sound, JoinInOrder, Drained, Closers
  <2> QED
    BY <2>3, <2>5, <2>6, <2>7 DEF Sound
<1>3. CASE WorkerReleases(s)
  <2>1. /\ worker[s] = "closing" /\ Release(s)
        /\ worker' = [worker EXCEPT ![s] = "ended"]
        /\ UNCHANGED <<keys, issued, req, live, server, ids>>
    BY <1>3 DEF WorkerReleases
  <2>2. /\ worker'[s] = "ended"
        /\ \A d \in Sessions \ {s} : worker'[d] = worker[d]
    BY <2>1 DEF TypeOK
  <2>3. closing[s] # None
    BY <2>1 DEF Sound, ClosesUnderway
  <2>4. /\ LiveSessionsHoldPermits' /\ EntriesGivenOut'
        /\ \A d \in DOMAIN owners' : d \in DOMAIN owners /\ owners'[d] = owners[d]
        /\ \A u \in Closers : closing'[u] # None =>
              closing'[u].id \notin live' /\ worker'[closing'[u].id] # "none"
        /\ \A u \in Closers \ {s} : closing'[u] = closing[u]
    BY <1>1, <2>1, <2>2, <2>3, ReleaseSound
  <2>5. ServedUnderOwner' /\ RequestsSettled'
    BY <2>1, <2>2, <2>4 DEF Sound, ServedUnderOwner, RequestsSettled
  <2>6. ClosesUnderway'
    BY <1>1, <2>1, <2>2, <2>4 DEF Sound, ClosesUnderway, Closers
  <2>7. JoinInOrder'
    BY <1>1, <2>1, <2>4 DEF Sound, JoinInOrder, Drained, Closers
  <2> QED
    BY <2>4, <2>5, <2>6, <2>7 DEF Sound
<1> QED
  BY <1>2, <1>3 DEF WorkerStep, WorkerExpires, WorkerStops

\* The joining task lists the entries once nothing can add one, and closes what it listed.
LEMMA JoinSound ==
  ASSUME TypeOK, Sound, Shutdown \/ JoinStep
  PROVE  Sound'
<1>1. Joiner \in Closers /\ Joiner \notin Requests /\ Joiner \notin Sessions
  BY TasksAreDistinct DEF Closers
<1>2. CASE /\ UNCHANGED <<req, owners, live, worker, closing, ids>>
           /\ JoinInOrder'
  BY <1>2 DEF Sound, LiveSessionsHoldPermits, ServedUnderOwner, RequestsSettled,
              EntriesGivenOut, ClosesUnderway
<1>3. CASE Shutdown
  BY <1>2, <1>3 DEF Shutdown, Sound, JoinInOrder
<1>4. CASE Drain
  BY <1>2, <1>4 DEF Drain, Sound, JoinInOrder, Drained
<1>5. CASE AllClosed
  BY <1>2, <1>5 DEF AllClosed, Sound, JoinInOrder, Drained
<1>6. CASE BeginCloseAll
  BY <1>6 DEF BeginCloseAll, Sound, JoinInOrder, Drained, LiveSessionsHoldPermits,
              ServedUnderOwner, RequestsSettled, EntriesGivenOut, ClosesUnderway
<1>7. CASE CloseNext
  <2>1. PICK s \in ids : CloseInner(Joiner, s)
    BY <1>7 DEF CloseNext
  <2>2. s \in Sessions /\ worker[s] # "none"
    BY DEF TypeOK, Sound, EntriesGivenOut
  <2>3. /\ server = "closing"
        /\ UNCHANGED <<keys, issued, req, slots, owners, worker, server, ids>>
    BY <1>7 DEF CloseNext
  <2>4. /\ LiveSessionsHoldPermits' /\ EntriesGivenOut'
        /\ \A u \in Closers : closing'[u] # None =>
              closing'[u].id \notin live' /\ worker'[closing'[u].id] # "none"
    BY <1>1, <2>1, <2>2, <2>3, CloseInnerSound
  <2>5. \A u \in Closers \ {Joiner} : closing'[u] = closing[u]
    BY <2>1 DEF CloseInner, TypeOK
  <2>6. ServedUnderOwner' /\ RequestsSettled'
    BY <2>3 DEF Sound, ServedUnderOwner, RequestsSettled
  <2>7. ClosesUnderway'
    BY <1>1, <2>3, <2>4, <2>5 DEF Sound, ClosesUnderway, Closers
  <2>8. JoinInOrder'
    BY <2>3 DEF Sound, JoinInOrder, Drained
  <2> QED
    BY <2>4, <2>6, <2>7, <2>8 DEF Sound
<1>8. CASE CloseReturns
  <2>1. /\ closing[Joiner] # None /\ Release(Joiner)
        /\ UNCHANGED <<keys, issued, req, live, worker>>
        /\ ids' \subseteq ids
    BY <1>8 DEF CloseReturns
  <2>2. /\ LiveSessionsHoldPermits' /\ EntriesGivenOut'
        /\ \A d \in DOMAIN owners' : d \in DOMAIN owners /\ owners'[d] = owners[d]
        /\ \A u \in Closers : closing'[u] # None =>
              closing'[u].id \notin live' /\ worker'[closing'[u].id] # "none"
        /\ \A u \in Closers \ {Joiner} : closing'[u] = closing[u]
    BY <1>1, <2>1, ReleaseSound
  <2>3. ServedUnderOwner' /\ RequestsSettled'
    BY <2>1, <2>2 DEF Sound, ServedUnderOwner, RequestsSettled
  <2>4. ClosesUnderway'
    BY <1>1, <2>1, <2>2 DEF Sound, ClosesUnderway, Closers
  <2>5. JoinInOrder'
    <3>1. server = "closing" /\ DOMAIN owners \subseteq ids /\ Drained
      BY <2>1 DEF Sound, JoinInOrder
    <3>2. closing'[Joiner] = None
      BY <1>1, <2>1 DEF Release, TypeOK
    <3>3. DOMAIN owners' = DOMAIN owners \ {closing[Joiner].id}
      BY <2>1 DEF Release
    <3>4. \/ ids' = ids \ {closing[Joiner].id} /\ server' = "closing"
          \/ server' = "failed"
      BY <1>8, <3>1 DEF CloseReturns
    <3> QED
      BY <2>1, <3>1, <3>2, <3>3, <3>4 DEF JoinInOrder, Drained
  <2> QED
    BY <2>2, <2>3, <2>4, <2>5 DEF Sound
<1> QED
  BY <1>3, <1>4, <1>5, <1>6, <1>7, <1>8 DEF JoinStep

-----------------------------------------------------------------------------
(* The inductive invariant, and what it gives.                             *)

\* The initial states are sound.
LEMMA InitIInv == Init => IInv
<1> SUFFICES ASSUME Init PROVE IInv
  OBVIOUS
<1>1. /\ req = [r \in Requests |-> Resting("idle", 0)]
      /\ owners = [s \in {} |-> None] /\ slots = MaxSessions /\ live = {} /\ ids = {}
      /\ worker = [s \in Sessions |-> "none"] /\ closing = [t \in Closers |-> None]
      /\ server = "serving" /\ keys \in [Clients -> Keys \cup {None}]
      /\ issued = Range(keys) \ {None}
  BY DEF Init
<1>2. req \in [Requests -> Request] /\ \A r \in Requests : req[r].pc = "idle"
  <2>1. Resting("idle", 0) \in Request
    BY RequestRecords DEF AtRest, Statuses
  <2> QED
    BY <1>1, <2>1 DEF Resting
<1>3. issued \subseteq Keys
  BY <1>1 DEF Range
<1>4. TypeOK
  BY <1>1, <1>2, <1>3, MaxSessionsIsNat DEF TypeOK, Phases
<1>5. DOMAIN owners = {} /\ Creating = {}
  BY <1>1, <1>2 DEF Creating
<1>6. PermitsBalanced
  <2>1. Cardinality({}) = 0
    BY FS_EmptySet
  <2> QED
    BY <1>1, <1>5, <2>1, MaxSessionsIsNat DEF PermitsBalanced
<1>7. LiveSessionsHoldPermits /\ ServedUnderOwner /\ EntriesGivenOut
  BY <1>1, <1>5 DEF LiveSessionsHoldPermits, ServedUnderOwner, EntriesGivenOut
<1>8. RequestsSettled
  BY <1>2 DEF RequestsSettled, AtRest, InSession
<1>9. ClosesUnderway
  BY <1>1, <1>2 DEF ClosesUnderway, Closers
<1>10. JoinInOrder
  BY <1>1 DEF JoinInOrder, Closers
<1> QED
  BY <1>4, <1>6, <1>7, <1>8, <1>9, <1>10 DEF IInv, Sound

\* Every step keeps the invariant.
LEMMA StepIInv ==
  ASSUME IInv, [Next]_vars
  PROVE  IInv'
<1> USE DEF IInv
<1>1. CASE UNCHANGED vars
  <2>1. TypeOK' /\ PermitsBalanced'
    BY <1>1 DEF vars, TypeOK, PermitsBalanced, Creating
  <2>2. Sound'
    BY <1>1 DEF vars, Sound, LiveSessionsHoldPermits, ServedUnderOwner, RequestsSettled,
       EntriesGivenOut, ClosesUnderway, JoinInOrder, Drained
  <2> QED
    BY <2>1, <2>2
<1>2. ASSUME NEW r \in Requests, Arrives(r) \/ RequestStep(r)
      PROVE  IInv'
  <2>1. TypeOK' /\ PermitsBalanced'
    BY <1>2, RequestTypes, RequestBalance DEF Sound
  <2>2. Sound'
    BY <1>2, QuietRequests, CreateSessionSound, BindOwnerSound, RequestBeginsCloseSound,
       RequestClosesSound, DroppedSound DEF RequestStep, ConnectionLost, CancelRequest
  <2> QED
    BY <2>1, <2>2
<1>3. CASE ConfigEdited
  <2>1. TypeOK' /\ PermitsBalanced'
    BY <1>3, OtherTypes, OtherBalance
  <2>2. UNCHANGED <<req, slots, owners, live, worker, closing, server, ids>>
    BY <1>3 DEF ConfigEdited, RotateKey, RenameClient
  <2>3. Sound'
    BY <2>2 DEF Sound, LiveSessionsHoldPermits, ServedUnderOwner, RequestsSettled,
       EntriesGivenOut, ClosesUnderway, JoinInOrder, Drained
  <2> QED
    BY <2>1, <2>3
<1>4. CASE Shutdown \/ JoinStep
  BY <1>4, OtherTypes, OtherBalance, JoinSound
<1>5. ASSUME NEW s \in Sessions, WorkerStep(s)
      PROVE  IInv'
  BY <1>5, OtherTypes, OtherBalance, WorkerSound
<1> QED
  BY <1>1, <1>2, <1>3, <1>4, <1>5 DEF Next

\* The invariant holds in every reachable state.
THEOREM SessionsInvariant == Spec => []IInv
  BY InitIInv, StepIInv, PTL DEF Spec

\* Types are kept whatever the connections, the admin, the SDK and the shutdown do.
THEOREM SessionTypes == Spec => []TypeOK
<1>1. IInv => TypeOK
  BY DEF IInv
<1> QED
  BY <1>1, SessionsInvariant, PTL

\* The semaphore never loses a permit and never gains one.
THEOREM PermitsNeverLeak == Spec => []PermitsBalanced
<1>1. IInv => PermitsBalanced
  BY DEF IInv
<1> QED
  BY <1>1, SessionsInvariant, PTL

\* No session of the SDK runs without a permit.
THEOREM NoSessionWithoutPermit == Spec => []LiveSessionsHoldPermits
<1>1. IInv => LiveSessionsHoldPermits
  BY DEF IInv, Sound
<1> QED
  BY <1>1, SessionsInvariant, PTL

\* No request works in another client's session.
THEOREM OwnersOnly == Spec => []ServedUnderOwner
<1>1. IInv => ServedUnderOwner
  BY DEF IInv, Sound
<1> QED
  BY <1>1, SessionsInvariant, PTL

\* A shutdown that reports success has closed everything.
THEOREM ShutdownIsClean == Spec => []CleanShutdown
<1>1. ASSUME IInv, server = "closed"
      PROVE  live = {} /\ DOMAIN owners = {} /\ slots = MaxSessions
  <2>1. DOMAIN owners = {} /\ Drained
    BY <1>1 DEF IInv, Sound, JoinInOrder
  <2>2. live = {}
    BY <1>1, <2>1 DEF IInv, Sound, LiveSessionsHoldPermits
  <2>3. Creating = {}
    BY <2>1 DEF Creating, Drained, AtRest
  <2>4. slots = MaxSessions
    <3>1. Cardinality({}) = 0
      BY FS_EmptySet
    <3> QED
      BY <1>1, <2>1, <2>3, <3>1 DEF IInv, PermitsBalanced, TypeOK
  <2> QED
    BY <2>1, <2>2, <2>4
<1>2. IInv => CleanShutdown
  BY <1>1 DEF CleanShutdown
<1> QED
  BY <1>2, SessionsInvariant, PTL
-----------------------------------------------------------------------------
(* 429. *)

\* A request that met the limit has no session and is about to be answered.
DenialFits(q) ==
    /\ q.pc \notin AtRest => q.status = 0
    /\ q.denied = TRUE => q.pc = "failed" /\ q.session = None
    /\ q.pc = "verified" /\ q.kind = "initialize" => q.session = None
    /\ q.pc \in {"accepted", "creating"} => q.session = None

DenialsFit == \A r \in Requests : DenialFits(req[r])

LocalStep ==
    \A r \in Requests :
        req[r].pc \notin AtRest /\ req'[r].status = 429 => req[r].session = None

\* A request is answered.
LEMMA AnswerIsLocal ==
  ASSUME TypeOK, DenialsFit, NEW r \in Requests, NEW code, Answered(r, code),
         req[r].pc \notin AtRest /\ code = 429 => req[r].session = None
  PROVE  DenialsFit' /\ LocalStep
<1> PICK q : q = Resting(IF server = "serving" THEN "idle" ELSE "gone", code)
  OBVIOUS
<1>1. /\ req'[r] = q
      /\ \A other \in Requests \ {r} : req'[other] = req[other]
  BY DEF Answered, TypeOK
<1>2. q.pc \in AtRest /\ q.denied = FALSE /\ q.status = code
  BY DEF Resting, AtRest
<1>3. DenialFits(q)
  BY <1>2 DEF DenialFits, AtRest
<1>4. DenialsFit'
  BY <1>1, <1>3 DEF DenialsFit
<1>5. LocalStep
  BY <1>1, <1>2 DEF LocalStep, DenialsFit, DenialFits
<1> QED BY <1>4, <1>5

\* A request goes on.
LEMMA FlightIsLocal ==
  ASSUME TypeOK, DenialsFit, NEW r \in Requests,
         NEW pc \in Places \ AtRest, NEW c, NEW kind, NEW s, NEW denied,
         req' = [req EXCEPT ![r] = InFlight(pc, c, kind, s, denied)],
         denied = TRUE => pc = "failed" /\ s = None,
         pc = "verified" /\ kind = "initialize" => s = None,
         pc \in {"accepted", "creating"} => s = None
  PROVE  DenialsFit' /\ LocalStep
<1> PICK q : q = InFlight(pc, c, kind, s, denied)
  OBVIOUS
<1>1. /\ req'[r] = q
      /\ \A other \in Requests \ {r} : req'[other] = req[other]
  BY DEF TypeOK
<1>2. /\ q.pc = pc /\ q.kind = kind /\ q.session = s /\ q.denied = denied /\ q.status = 0
  BY DEF InFlight
<1>3. DenialFits(q)
  BY <1>2 DEF DenialFits
<1>4. DenialsFit'
  BY <1>1, <1>3 DEF DenialsFit
<1>5. LocalStep
  BY <1>1, <1>2 DEF LocalStep, DenialsFit, DenialFits
<1> QED BY <1>4, <1>5

\* A request that moves without a denial changes nothing of the others.
LEMMA MoveIsLocal ==
  ASSUME TypeOK, DenialsFit, NEW r \in Requests, NEW pc \in Places \ AtRest, Moves(r, pc),
         req[r].pc # "failed", pc # "verified",
         pc \in {"accepted", "creating"} => req[r].session = None
  PROVE  DenialsFit' /\ LocalStep
<1>1. req[r].denied # TRUE
  BY DEF DenialsFit, DenialFits
<1> QED BY <1>1, FlightIsLocal DEF Moves

LEMMA RequestIsLocal ==
  ASSUME TypeOK, DenialsFit, NEW r \in Requests, Arrives(r) \/ RequestStep(r)
  PROVE  DenialsFit' /\ LocalStep
<1>0. DenialFits(req[r]) /\ req[r] \in Request
  BY DEF DenialsFit, TypeOK
<1>1. CASE Unauthorized(r)
  BY <1>1, AnswerIsLocal DEF Unauthorized
<1>2. ASSUME NEW k \in Keys, NEW kind \in Kinds, NEW s \in Sessions, Authenticate(r, k, kind, s)
      PROVE  DenialsFit' /\ LocalStep
  <2>1. PICK c \in Clients :
          req' = [req EXCEPT ![r] =
                    InFlight("verified", c, kind, IF kind = "initialize" THEN None ELSE s, FALSE)]
    BY <1>2 DEF Authenticate
  <2>2. "verified" \in Places \ AtRest
    BY DEF Places, AtRest
  <2> QED BY <2>1, <2>2, FlightIsLocal
<1>3. CASE Admit(r)
  <2>1. \/ Answered(r, 503)
        \/ req[r].pc = "verified" /\ req[r].kind = "initialize" /\ Moves(r, "accepted")
        \/ req[r].pc = "verified" /\ Moves(r, "looking")
        \/ Answered(r, 404)
    BY <1>3 DEF Admit
  <2>2. "accepted" \in Places \ AtRest /\ "looking" \in Places \ AtRest
    BY DEF Places, AtRest
  <2> QED BY <1>0, <2>1, <2>2, AnswerIsLocal, MoveIsLocal DEF DenialFits
<1>4. CASE ReserveSlot(r)
  <2>1. CASE Moves(r, "creating")
    BY <1>0, <1>4, <2>1, MoveIsLocal DEF ReserveSlot, DenialFits, Places, AtRest
  <2>2. CASE req' = [req EXCEPT ![r] =
                       InFlight("failed", req[r].client, req[r].kind, req[r].session, TRUE)]
    <3>1. "failed" \in Places \ AtRest /\ req[r].session = None
      BY <1>0, <1>4 DEF ReserveSlot, DenialFits, Places, AtRest
    <3> QED BY <2>2, <3>1, FlightIsLocal
  <2> QED BY <1>4, <2>1, <2>2 DEF ReserveSlot
<1>5. CASE CreateSession(r)
  <2>1. PICK s : req' = [req EXCEPT ![r] =
                           InFlight("created", req[r].client, req[r].kind, s, req[r].denied)]
    BY <1>5 DEF CreateSession
  <2>2. "created" \in Places \ AtRest /\ req[r].denied # TRUE
    BY <1>0, <1>5 DEF CreateSession, DenialFits, Places, AtRest
  <2> QED BY <2>1, <2>2, FlightIsLocal
<1>6. CASE \/ CreateFails(r) \/ BindOwner(r) \/ Initialized(r) \/ InitializeFails(r) \/ Serve(r)
           \/ DeleteSession(r) \/ RequestCloses(r) \/ LookUp(r)
  <2>1. /\ req[r].pc \in Places \ (AtRest \cup {"failed"})
        /\ \/ \E pc \in {"failed", "initializing", "closing", "serving"} : Moves(r, pc)
           \/ \E code \in {200, 202, 404} : Answered(r, code)
    BY <1>6 DEF CreateFails, BindOwner, Initialized, InitializeFails, Serve, DeleteSession,
                RequestCloses, LookUp, Places, AtRest
  <2>2. ASSUME NEW pc \in {"failed", "initializing", "closing", "serving"}, Moves(r, pc)
        PROVE  DenialsFit' /\ LocalStep
    <3>1. pc \in Places \ AtRest /\ pc \notin {"verified", "accepted", "creating"}
      BY DEF Places, AtRest
    <3> QED BY <2>1, <2>2, <3>1, MoveIsLocal
  <2> QED BY <2>1, <2>2, AnswerIsLocal
<1>7. CASE Fails(r)
  <2>1. PICK code : Answered(r, code) /\ (code = 429 => req[r].denied)
    BY <1>7 DEF Fails, Denied
  <2>2. code = 429 => req[r].session = None
    BY <1>0, <2>1 DEF DenialFits, Request
  <2> QED BY <2>1, <2>2, AnswerIsLocal
<1>8. CASE ConnectionLost(r) \/ CancelRequest(r)
  BY <1>8, AnswerIsLocal DEF ConnectionLost, CancelRequest
<1> QED
  BY <1>1, <1>2, <1>3, <1>4, <1>5, <1>6, <1>7, <1>8 DEF Arrives, RequestStep

\* 429 stays with the request that met the limit: whatever runs beside it, no request that
\* has a session, or made one, is answered so (for_request, capacity_response).
THEOREM DenialsStayLocal == Spec => DenialsAreLocal
<1>1. Init => DenialsFit
  <2> SUFFICES ASSUME Init, NEW r \in Requests PROVE DenialFits(req[r])
    BY DEF DenialsFit
  <2>1. req[r].pc = "idle" /\ req[r].denied = FALSE
    BY DEF Init, Resting
  <2> QED BY <2>1 DEF DenialFits, AtRest
<1>2. ASSUME TypeOK, DenialsFit, [Next]_vars PROVE DenialsFit' /\ LocalStep
  <2>1. CASE UNCHANGED req
    <3>1. DenialsFit'
      BY <2>1, <1>2 DEF DenialsFit
    <3>2. LocalStep
      BY <2>1, <1>2 DEF LocalStep, DenialsFit, DenialFits
    <3> QED BY <3>1, <3>2
  <2>2. ASSUME NEW r \in Requests, Arrives(r) \/ RequestStep(r) PROVE DenialsFit' /\ LocalStep
    BY <1>2, <2>2, RequestIsLocal
  <2>3. ConfigEdited \/ Shutdown \/ JoinStep \/ UNCHANGED vars => UNCHANGED req
    BY DEF ConfigEdited, RotateKey, RenameClient, Shutdown, JoinStep, Drain, BeginCloseAll,
           CloseNext, CloseReturns, AllClosed, vars
  <2>4. ASSUME NEW s \in Sessions, WorkerStep(s) PROVE UNCHANGED req
    BY <2>4 DEF WorkerStep, WorkerExpires, WorkerStops, WorkerCloses, WorkerReleases
  <2> QED BY <1>2, <2>1, <2>2, <2>3, <2>4 DEF Next
<1>3. LocalStep => [\A r \in Requests :
          req[r].pc \notin AtRest /\ req'[r].status = 429 => req[r].session = None]_vars
  BY DEF LocalStep
<1> QED BY <1>1, <1>2, <1>3, SessionTypes, PTL DEF Spec, DenialsAreLocal
=============================================================================
