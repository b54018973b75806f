----------------------------- MODULE SourceGate -----------------------------
(***************************************************************************)
(* resolve_source: a call finds its reference, reads the settings anew,    *)
(* takes a permit of its resolver's gate, resolves, shapes what it got and *)
(* returns the permit.  Files and urls are read by the thread of the call  *)
(* (FileRead, UrlFetch).  The minutes of narumi come from a child process: *)
(* a task starts it, shakes hands, asks, cancels and kills it, each before *)
(* the deadline of the settings; the call waits for the task's answer a    *)
(* grace period longer than the deadline.                                  *)
(*                                                                         *)
(* Time passes in ticks, and no faster than the timers allow: what is due  *)
(* happens before the clock moves on.                                      *)
(***************************************************************************)
EXTENDS UrlFetch, FiniteSets

CONSTANTS
    Foreign,     \* systems of references no resolver answers to
    Limit,       \* max_concurrency of each resolver
    Sections,    \* the configured sections [sources.*] may have, by resolver
    Paths, Places, RealPath, Protected, Gone,   \* of FileRead
    NarumiUris,  \* [scheme, userinfo, host, port, path, query]
    MeetingIds,  \* what is_meeting_id lets through
    Replies,     \* [error, meeting, markdown] narumi may answer with
    MaxChars,    \* [sources].max_content_chars
    Grace,       \* GRACE
    CancelWait,  \* how long a cancelled child is waited for before it is killed
    None

Systems == {"file", "url", "narumi"}

ASSUME LimitIsNat == Limit \in [Systems -> Nat]
ASSUME ForeignIsForeign == Foreign \cap Systems = {}
ASSUME TimesAreNat == Grace \in Nat /\ CancelWait \in Nat
ASSUME GraceCoversCancel == CancelWait < Grace
ASSUME SettingsAreTyped ==
    /\ IsFiniteSet(Callers) /\ MaxChars \in Nat
    /\ \A s \in {"url", "narumi"} : \A section \in Sections[s] : section.timeout \in Nat
    /\ \A reply \in Replies : reply.error \in BOOLEAN /\ reply.markdown \in Nat \cup {None}

VARIABLES
    active,   \* Gate::active of each resolver
    call,     \* the calls
    reading,  \* the file of each caller
    fetch     \* fetch_minutes of the last narumi call of each caller

INSTANCE FileRead WITH Readers <- Callers, MaxSize <- MaxBytes, FileSizes <- Sizes

vars == <<active, call, reading, page, since, fetch>>
resolvers == <<reading, page, since, fetch>>

AtRest == [pc |-> "idle"]
NoFetch == [pc |-> "none"]

\* The child of a task runs from its start to its end or its kill; a killed
\* one is still waited for.
WithChild == {"handshake", "asking", "cancelling"}
Fetching == WithChild \cup {"spawned", "reaping"}

Init ==
    /\ active = [s \in Systems |-> 0]
    /\ call = [c \in Callers |-> AtRest]
    /\ fetch = [c \in Callers |-> NoFetch]
    /\ UrlInit /\ FileInit

\* register: a gate admits one call at least.
GateLimit(s) == IF Limit[s] < 1 THEN 1 ELSE Limit[s]

-----------------------------------------------------------------------------
(* The call, up to its resolver.                                           *)

Answered(c) == call' = [call EXCEPT ![c] = AtRest]

\* The reference is read under the database's lock, which is given back.  A
\* caller whose task is not over yet makes no other call here.
FindReference(c, s) ==
    /\ call[c] = AtRest /\ fetch[c].pc \notin Fetching
    /\ \/ call' = [call EXCEPT ![c] = [pc |-> "found", system |-> s]]
       \/ Answered(c)
    /\ UNCHANGED <<active, resolvers>>

\* The settings cannot be read, no resolver is registered for the system, or
\* it is not configured; or it is, with the section the file has now.
ReadSettings(c) ==
    /\ call[c].pc = "found"
    /\ \/ Answered(c)
       \/ /\ call[c].system \in Systems
          /\ \E section \in Sections[call[c].system] :
                call' = [call EXCEPT ![c] = [pc |-> "ready", system |-> call[c].system,
                                             section |-> section]]
    /\ UNCHANGED <<active, resolvers>>

\* Gate::try_acquire, or busy.
Acquire(c) ==
    LET s == call[c].system IN
    /\ call[c].pc = "ready"
    /\ IF active[s] < GateLimit(s)
       THEN active' = [active EXCEPT ![s] = @ + 1] /\ call' = [call EXCEPT ![c].pc = "resolving"]
       ELSE Answered(c) /\ UNCHANGED active
    /\ UNCHANGED resolvers

\* shape_content: control characters go, then what is beyond the limit.  A byte
\* order mark does not count as content.
Cleaned(outcome, removed) ==
    IF removed = 0 THEN outcome
    ELSE [outcome EXCEPT !.body = @ - removed, !.told = @ \cup {"control_chars_removed"}]

Shortened(outcome) ==
    IF outcome.body <= MaxChars THEN outcome
    ELSE [outcome EXCEPT !.body = MaxChars, !.told = @ \cup {"content_truncated"}]

Goes(c, outcome) ==
    call' = [call EXCEPT ![c] = [pc |-> "answering", system |-> call[c].system,
                                 answer |-> outcome]]

\* Of a failure there is nothing to shape.
Resolved(c, outcome) ==
    IF outcome.what # "resolved" THEN Goes(c, outcome)
    ELSE \E removed \in 0..(IF outcome.body > 0 THEN 1 ELSE 0) :
            Goes(c, Shortened(Cleaned(outcome, removed)))

\* The permit is dropped on every way out.
Deliver(c) ==
    /\ call[c].pc = "answering"
    /\ active' = [active EXCEPT ![call[c].system] = @ - 1]
    /\ Answered(c)
    /\ UNCHANGED resolvers

-----------------------------------------------------------------------------
(* Files and urls.                                                         *)

Resolving(c, s) == call[c].pc = "resolving" /\ call[c].system = s

ReadAFile(c) ==
    /\ Resolving(c, "file")
    /\ \/ BadUri(c)
       \/ \E path \in Paths : Locate(c, call[c].section.allow, path)
       \/ ReadStep(c)
    /\ UNCHANGED <<active, call, page, since, fetch>>

FileDone(c) ==
    /\ reading[c].pc = "done"
    /\ Resolved(c, Outcome(reading[c].what, reading[c].size, {}, reading[c].size, TRUE))
    /\ reading' = [reading EXCEPT ![c] = NoRead]
    /\ UNCHANGED <<active, page, since, fetch>>

FetchAUrl(c) ==
    /\ Resolving(c, "url")
    /\ \/ BeginFetch(c, call[c].section.allow, call[c].section.timeout)
       \/ FetchStep(c)
    /\ UNCHANGED <<active, call, reading, fetch>>

UrlDone(c) ==
    /\ page[c].pc = "done"
    /\ Resolved(c, page[c].outcome)
    /\ page' = [page EXCEPT ![c] = NoPage]
    /\ since' = [since EXCEPT ![c] = 0]
    /\ UNCHANGED <<active, reading, fetch>>

-----------------------------------------------------------------------------
(* The call of the narumi resolver, and its task.                          *)

\* parse_narumi_uri: narumi://meeting/<id>[?version=<n>].
Pairs(uri) == SelectSeq(uri.query, LAMBDA part : part # <<>>)

FollowsConvention(uri) ==
    /\ uri.scheme = "narumi" /\ ~uri.userinfo
    /\ uri.host = "meeting" /\ ~uri.port
    /\ Len(uri.path) = 1 /\ uri.path[1] \in MeetingIds
    /\ \/ uri.query = <<>>
       \/ Len(Pairs(uri)) = 1 /\ Pairs(uri)[1][1] = "version" /\ Pairs(uri)[1][2] > 0

\* A reference that breaks the convention starts no child.
RefuseUri(c) ==
    /\ Resolving(c, "narumi")
    /\ \/ \E uri \in NarumiUris : ~FollowsConvention(uri) /\ Goes(c, Failed("invalid_uri"))
       \/ Goes(c, Failed("internal"))
    /\ UNCHANGED <<active, resolvers>>

SpawnFetch(c) ==
    /\ Resolving(c, "narumi")
    /\ \E uri \in {u \in NarumiUris : FollowsConvention(u)} :
          fetch' = [fetch EXCEPT ![c] = [pc |-> "spawned", meeting |-> uri.path[1],
                                         timeout |-> call[c].section.timeout]]
    /\ call' = [call EXCEPT ![c].pc = "receiving"]
    /\ since' = [since EXCEPT ![c] = 0]
    /\ UNCHANGED <<active, reading, page>>

Due(c) == since[c] >= fetch[c].timeout

Moves(c, pc) ==
    /\ fetch' = [fetch EXCEPT ![c].pc = pc]
    /\ UNCHANGED <<active, call, reading, page, since>>

\* To the call, if it still waits.
Sends(c, outcome) ==
    /\ fetch' = [fetch EXCEPT ![c] = IF call[c].pc # "receiving" THEN NoFetch
                                     ELSE [pc |-> "sent", outcome |-> outcome]]
    /\ UNCHANGED <<active, call, reading, page, since>>

StartChild(c) ==
    /\ fetch[c].pc = "spawned"
    /\ \/ Moves(c, "handshake")
       \/ Sends(c, Failed("start_failed"))

\* A handshake that fails or is late kills the child and its group at once.
Handshake(c) ==
    /\ fetch[c].pc = "handshake"
    /\ \/ ~Due(c) /\ Moves(c, "asking")
       \/ ~Due(c) /\ Sends(c, Failed("handshake_failed"))
       \/ Due(c) /\ Sends(c, Failed("timed_out"))

\* map_get_minutes: minutes of another meeting are not an answer.
MapMinutes(reply, meeting) ==
    CASE reply.error -> Failed("narumi_error")
      [] ~reply.error /\ (reply.markdown = None \/ reply.meeting # meeting)
           -> Failed("invalid_response")
      [] ~reply.error /\ reply.markdown # None /\ reply.meeting = meeting
                      /\ reply.markdown > MaxBytes -> Failed("too_large")
      [] OTHER -> Outcome("resolved", reply.markdown, {}, reply.markdown, reply.meeting = meeting)

Cancels(c, outcome) ==
    /\ fetch' = [fetch EXCEPT ![c] = [pc |-> "cancelling", outcome |-> outcome,
                                      timeout |-> fetch[c].timeout]]
    /\ UNCHANGED <<active, call, reading, page, since>>

\* The name of the server, then get_minutes; whatever comes, the child is
\* cancelled.
Ask(c) ==
    /\ fetch[c].pc = "asking"
    /\ \/ ~Due(c) /\ \E reply \in Replies : Cancels(c, MapMinutes(reply, fetch[c].meeting))
       \/ ~Due(c) /\ \E what \in {"not_narumi", "invalid_response"} : Cancels(c, Failed(what))
       \/ Due(c) /\ Cancels(c, Failed("timed_out"))

\* The child ends when its input closes, or is killed after CancelWait and
\* waited for, however long that takes.
Cancel(c) ==
    /\ fetch[c].pc = "cancelling"
    /\ \/ Sends(c, fetch[c].outcome)
       \/ since[c] >= fetch[c].timeout + CancelWait /\ Moves(c, "reaping")

Reap(c) == fetch[c].pc = "reaping" /\ Sends(c, fetch[c].outcome)

Receive(c) ==
    /\ call[c].pc = "receiving" /\ fetch[c].pc = "sent"
    /\ Resolved(c, fetch[c].outcome)
    /\ fetch' = [fetch EXCEPT ![c] = NoFetch]
    /\ since' = [since EXCEPT ![c] = 0]
    /\ UNCHANGED <<active, reading, page>>

GiveUp_NoGrace(c) ==
    /\ call[c].pc = "receiving" /\ fetch[c].pc # "sent"
    /\ since[c] >= call[c].section.timeout
    /\ Goes(c, Failed("timed_out"))
    /\ UNCHANGED <<active, resolvers>>

\* recv_timeout: the task goes on without its call.
GiveUp(c) ==
    /\ call[c].pc = "receiving" /\ fetch[c].pc # "sent"
    /\ since[c] >= call[c].section.timeout + Grace
    /\ Goes(c, Failed("timed_out"))
    /\ UNCHANGED <<active, resolvers>>

\* The latest each may be where it is: a task shakes hands and asks until its
\* deadline, and its child is gone CancelWait later.
Timed(c) == call[c].pc = "receiving" \/ page[c].pc \in Requesting \cup {"checking"}

Latest(c) ==
    CASE page[c].pc \in Requesting -> page[c].due
      [] page[c].pc = "checking" -> page[c].deadline
      [] fetch[c].pc \in {"spawned", "handshake", "asking"} -> fetch[c].timeout
      [] fetch[c].pc = "cancelling" -> fetch[c].timeout + CancelWait
      [] fetch[c].pc = "reaping" -> fetch[c].timeout + Grace

Tick ==
    /\ \E c \in Callers : Timed(c)
    /\ \A c \in Callers : Timed(c) => fetch[c].pc # "sent" /\ since[c] < Latest(c)
    /\ since' = [c \in Callers |-> IF Timed(c) THEN since[c] + 1 ELSE since[c]]
    /\ UNCHANGED <<active, call, reading, page, fetch>>

-----------------------------------------------------------------------------
Works(c) ==
    \/ ReadSettings(c) \/ Acquire(c) \/ Deliver(c)
    \/ ReadAFile(c) \/ FileDone(c) \/ FetchAUrl(c) \/ UrlDone(c)
    \/ RefuseUri(c) \/ SpawnFetch(c) \/ StartChild(c) \/ Handshake(c) \/ Ask(c) \/ Cancel(c)
    \/ Receive(c) \/ GiveUp(c)

Next ==
    \/ \E c \in Callers :
          \/ \E s \in Systems \cup Foreign : FindReference(c, s)
          \/ Works(c) \/ Reap(c)
    \/ Tick

Spec == Init /\ [][Next]_vars

\* Threads and tasks run; the clock ticks.  A killed child may never be reaped.
FairSpec == Spec /\ WF_vars(Tick) /\ \A c \in Callers : WF_vars(Works(c))

-----------------------------------------------------------------------------
Holders(s) ==
    {c \in Callers : call[c].pc \in {"resolving", "receiving", "answering"} /\ call[c].system = s}

\* The gate counts the calls that resolve, no more of them than admitted.
GateCounts ==
    \A s \in Systems : active[s] = Cardinality(Holders(s)) /\ active[s] <= GateLimit(s)

\* A child process lives only under the permit of its call.
ChildUnderPermit ==
    \A c \in Callers : fetch[c].pc \in WithChild => c \in Holders("narumi")

(* Every permit comes back, whatever way a call ended, and none too early: *)
(* a call that gave up has left no running child behind, so that narumi is *)
(* never started more often than its gate admits.                          *)
PermitsCovered == GateCounts /\ ChildUnderPermit

(* No file outside the roots, none of gaia's own, no host or address that  *)
(* is not allowed: of the settings this call read, at every step of it.    *)
ReachesOnlyAllowed == UrlReachesOnlyAllowed /\ FileReachesOnlyAllowed

(* A content is that of the source that was asked for; it is within the    *)
(* limit of characters, and shorter than the source exactly when the       *)
(* answer says so.  Of what exceeds the limit of bytes only a body is      *)
(* handed out, and as one that was cut there.                              *)
AnswersSound ==
    \A c \in Callers : call[c].pc = "answering" /\ call[c].answer.what = "resolved" =>
        LET answer == call[c].answer IN
        /\ answer.right
        /\ answer.body <= MaxChars
        /\ answer.body < answer.size <=> answer.told # {}
        /\ answer.size > MaxBytes <=> "body_truncated" \in answer.told

(* An answer comes in time: every call is answered, even one whose child   *)
(* is never reaped, and no chain of redirects takes more than its timeout. *)
AnswersInTime ==
    \A c \in Callers : /\ []UrlWithinBudget(c)
                       /\ (call[c].pc # "idle") ~> (call[c].pc = "idle")
=============================================================================
