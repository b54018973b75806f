--------------------------- MODULE SourceGateProofs ---------------------------
(***************************************************************************)
(* Theorems about SourceGate, for any number of calls, any settings, files, *)
(* urls, names and answers, and any limits of time and size.                *)
(***************************************************************************)
EXTENDS SourceGate, FiniteSetTheorems, TLAPS

-----------------------------------------------------------------------------
(* Types. *)

\* What a resolver hands over is of the right source, and is cut where it says so.
Told(o) ==
    o.what = "resolved" =>
        /\ o.right /\ o.body <= o.size
        /\ o.body < o.size <=> o.told # {}
        /\ o.size > MaxBytes <=> "body_truncated" \in o.told

Failures ==
    {"invalid_uri", "internal", "not_allowed", "timed_out", "connection_failed",
     "upstream_status", "unsupported", "too_large", "read_failed", "unavailable",
     "not_configured", "binary", "start_failed", "handshake_failed", "narumi_error",
     "invalid_response", "not_narumi"}

Notes == {"body_truncated", "control_chars_removed", "content_truncated"}

OutcomeRecords ==
    [what : Failures \cup {"resolved"}, body : Nat, told : SUBSET Notes, size : Nat,
     right : BOOLEAN]

Outcomes == {o \in OutcomeRecords : Told(o)}

Answers == {o \in Outcomes : o.what = "resolved" => o.body <= MaxChars}

CallStates ==
    {AtRest}
    \cup [pc : {"found"}, system : Systems \cup Foreign]
    \cup (UNION {[pc : {"ready", "resolving", "receiving"}, system : {s}, section : Sections[s]] :
                    s \in Systems})
    \cup [pc : {"answering"}, system : Systems, answer : Answers]

FetchStates ==
    {NoFetch}
    \cup [pc : {"spawned", "handshake", "asking"}, meeting : MeetingIds, timeout : Nat]
    \cup [pc : {"cancelling", "reaping"}, outcome : Outcomes, timeout : Nat]
    \cup [pc : {"sent"}, outcome : Outcomes]

\* What is known of a read and of a fetch that has ended.
ReadTyped(x) ==
    /\ x.pc \in {"none", "located", "opened", "done"}
    /\ x.pc = "done" => /\ x.what \in Failures \cup {"resolved"} /\ x.size \in Nat
                        /\ x.what = "resolved" => x.size <= MaxBytes

PageTyped(x) ==
    /\ x.pc \in {"none", "checking", "done"} \cup Requesting
    /\ x.pc = "done" => x.outcome \in Outcomes
    /\ x.pc = "connected" =>
          x = [pc |-> "connected", url |-> x.url, hops |-> x.hops, allow |-> x.allow,
               deadline |-> x.deadline, due |-> x.due, ip |-> x.ip]

Types ==
    /\ active \in [Systems -> Int]
    /\ call \in [Callers -> CallStates]
    /\ fetch \in [Callers -> FetchStates]
    /\ since \in [Callers -> Nat]
    /\ reading = [c \in Callers |-> reading[c]] /\ \A c \in Callers : ReadTyped(reading[c])
    /\ page = [c \in Callers |-> page[c]] /\ \A c \in Callers : PageTyped(page[c])

\* Whoever reads, fetches or waits for a task resolves.
Placed ==
    \A c \in Callers :
        /\ reading[c] # NoRead => Resolving(c, "file")
        /\ page[c] # NoPage => Resolving(c, "url")
        /\ call[c].pc = "receiving" => call[c].system = "narumi" /\ fetch[c].pc \in Fetching \cup {"sent"}
        /\ fetch[c].pc = "sent" => call[c].pc = "receiving"

TypeInv == Types /\ Placed

\* The states a call and a task may be in, one by one.
LEMMA CallCases ==
    ASSUME NEW x \in CallStates
    PROVE  \/ x = AtRest /\ x.pc = "idle"
           \/ x.pc = "found" /\ x.system \in Systems \cup Foreign
           \/ /\ x.pc \in {"ready", "resolving", "receiving"} /\ x.system \in Systems
              /\ x.section \in Sections[x.system]
              /\ \A pc \in {"ready", "resolving", "receiving"} :
                    /\ [x EXCEPT !.pc = pc] \in CallStates
                    /\ [x EXCEPT !.pc = pc].pc = pc /\ [x EXCEPT !.pc = pc].system = x.system
                    /\ [x EXCEPT !.pc = pc].section = x.section
           \/ x.pc = "answering" /\ x.system \in Systems /\ x.answer \in Answers
<1>1. CASE x \in {AtRest} \cup [pc : {"found"}, system : Systems \cup Foreign]
                \cup [pc : {"answering"}, system : Systems, answer : Answers]
  BY <1>1 DEF AtRest
<1>2. ASSUME NEW s \in Systems,
             x \in [pc : {"ready", "resolving", "receiving"}, system : {s}, section : Sections[s]]
      PROVE  /\ x.pc \in {"ready", "resolving", "receiving"} /\ x.system = s
             /\ x.section \in Sections[x.system]
             /\ \A pc \in {"ready", "resolving", "receiving"} :
                   /\ [x EXCEPT !.pc = pc] \in
                        [pc : {"ready", "resolving", "receiving"}, system : {s},
                         section : Sections[s]]
                   /\ [x EXCEPT !.pc = pc].pc = pc /\ [x EXCEPT !.pc = pc].system = x.system
                   /\ [x EXCEPT !.pc = pc].section = x.section
  BY <1>2
<1>3. \A s \in Systems :
         [pc : {"ready", "resolving", "receiving"}, system : {s}, section : Sections[s]]
            \subseteq CallStates
  BY DEF CallStates
<1>4. \/ x \in {AtRest} \cup [pc : {"found"}, system : Systems \cup Foreign]
               \cup [pc : {"answering"}, system : Systems, answer : Answers]
      \/ \E s \in Systems :
            x \in [pc : {"ready", "resolving", "receiving"}, system : {s}, section : Sections[s]]
  BY DEF CallStates
<1> QED BY <1>1, <1>2, <1>3, <1>4

\* What is in a task's state at each of its places.
LEMMA FetchCases ==
    ASSUME NEW x \in FetchStates
    PROVE  \/ x = NoFetch /\ x.pc = "none"
           \/ /\ x.pc \in {"spawned", "handshake", "asking"} /\ x.timeout \in Nat
              /\ x.meeting \in MeetingIds
              /\ \A pc \in {"handshake", "asking"} :
                    /\ [x EXCEPT !.pc = pc] \in FetchStates
                    /\ [x EXCEPT !.pc = pc].pc = pc /\ [x EXCEPT !.pc = pc].timeout = x.timeout
           \/ /\ x.pc \in {"cancelling", "reaping"} /\ x.timeout \in Nat /\ x.outcome \in Outcomes
              /\ [x EXCEPT !.pc = "reaping"] \in FetchStates
              /\ [x EXCEPT !.pc = "reaping"].pc = "reaping"
              /\ [x EXCEPT !.pc = "reaping"].timeout = x.timeout
           \/ x.pc = "sent" /\ x.outcome \in Outcomes
BY DEF FetchStates, NoFetch

-----------------------------------------------------------------------------
(* Outcomes and answers. *)

\* Failures, shortened texts and minutes are outcomes.
LEMMA FailedTyped ==
    ASSUME NEW what \in Failures
    PROVE  Failed(what) \in Outcomes
BY DEF Failed, Outcome, Outcomes, OutcomeRecords, Failures, Told

LEMMA TruncatedTyped ==
    ASSUME NEW size \in Nat
    PROVE  Truncated(size) \in Outcomes
<1>1. CASE size > MaxBytes
  <2>1. Truncated(size) = Outcome("resolved", MaxBytes, {"body_truncated"}, size, TRUE)
    BY <1>1 DEF Truncated
  <2>2. {"body_truncated"} # {} /\ "body_truncated" \in {"body_truncated"}
        /\ {"body_truncated"} \in SUBSET Notes
    BY DEF Notes
  <2>3. MaxBytes < size /\ MaxBytes <= size /\ MaxBytes \in Nat
    BY <1>1, FetchLimits
  <2> QED BY <1>1, <2>1, <2>2, <2>3 DEF Outcome, Outcomes, OutcomeRecords, Told
<1>2. CASE ~(size > MaxBytes)
  <2>1. Truncated(size) = Outcome("resolved", size, {}, size, TRUE)
    BY <1>2 DEF Truncated
  <2>2. ~(size < size) /\ size <= size
    OBVIOUS
  <2> QED BY <1>2, <2>1, <2>2 DEF Outcome, Outcomes, OutcomeRecords, Told
<1> QED BY <1>1, <1>2

\* What shape_content makes of an outcome is an answer.
LEMMA Shaped ==
    ASSUME NEW o \in Outcomes, o.what = "resolved",
           NEW removed \in 0..(IF o.body > 0 THEN 1 ELSE 0)
    PROVE  Shortened(Cleaned(o, removed)) \in Answers
<1> USE SettingsAreTyped, FetchLimits
<1> PICK d : d = Cleaned(o, removed)
  OBVIOUS
<1>1. /\ d \in Outcomes /\ d.what = "resolved" 
  <2>1. CASE removed = 0
    BY <2>1 DEF Cleaned
  <2>2. CASE removed # 0
    <3>1. removed = 1 /\ o.body > 0
      BY <2>2
    <3> PICK told : told = o.told \cup {"control_chars_removed"}
      OBVIOUS
    <3>2. d = [o EXCEPT !.body = o.body - 1, !.told = told]
      BY <3>1 DEF Cleaned
    <3>3. told \in SUBSET Notes /\ o.body - 1 \in Nat
      BY <3>1 DEF Outcomes, OutcomeRecords, Notes
    <3>4. /\ d.what = "resolved" /\ d.body = o.body - 1 /\ d.size = o.size /\ d.right = o.right
          /\ d.told = told
          /\ d \in OutcomeRecords
      BY <3>2, <3>3 DEF Outcomes, OutcomeRecords
    <3>5. ("body_truncated" \in told <=> "body_truncated" \in o.told) /\ told # {}
      OBVIOUS
    <3>6. o.body - 1 < o.size /\ o.body - 1 <= o.size
      BY <3>1 DEF Outcomes, OutcomeRecords, Told
    <3> QED BY <3>1, <3>4, <3>5, <3>6 DEF Outcomes, Told
  <2> QED BY <2>1, <2>2
<1>2. CASE d.body <= MaxChars
  BY <1>1, <1>2 DEF Shortened, Answers
<1>3. CASE ~(d.body <= MaxChars)
  <2> PICK told : told = d.told \cup {"content_truncated"}
    OBVIOUS
  <2> PICK e : e = [d EXCEPT !.body = MaxChars, !.told = told]
    OBVIOUS
  <2>1. Shortened(d) = e
    BY <1>3 DEF Shortened
  <2>2. told \in SUBSET Notes
    BY <1>1 DEF Outcomes, OutcomeRecords, Notes
  <2>3. /\ e.what = "resolved" /\ e.body = MaxChars /\ e.size = d.size /\ e.right = d.right
        /\ e.told = told
        /\ e \in OutcomeRecords
    BY <1>1, <2>2 DEF Outcomes, OutcomeRecords
  <2>4. ("body_truncated" \in told <=> "body_truncated" \in d.told) /\ told # {}
    OBVIOUS
  <2>5. MaxChars < d.size /\ MaxChars <= d.size
    BY <1>1, <1>3 DEF Outcomes, OutcomeRecords, Told
  <2>6. e \in Outcomes
    BY <1>1, <2>3, <2>4, <2>5 DEF Outcomes, Told
  <2>7. MaxChars <= MaxChars
    OBVIOUS
  <2>8. e \in Answers
    BY <2>3, <2>6, <2>7 DEF Answers
  <2> QED BY <2>1, <2>8
<1> QED BY <1>2, <1>3

\* A call that has its outcome has its answer.
LEMMA ResolvedAnswers ==
    ASSUME NEW c \in Callers, NEW o \in Outcomes, Resolved(c, o)
    PROVE  \E answer \in Answers :
              call' = [call EXCEPT ![c] = [pc |-> "answering", system |-> call[c].system,
                                           answer |-> answer]]
<1>1. CASE o.what # "resolved"
  BY <1>1 DEF Resolved, Goes, Answers
<1>2. CASE o.what = "resolved"
  BY <1>2, Shaped DEF Resolved, Goes
<1> QED BY <1>1, <1>2

-----------------------------------------------------------------------------
(* Every step keeps the types, and every reader in its place. *)

\* Types, action by action.
LEMMA CallTyped ==
    ASSUME TypeInv, NEW c \in Callers,
           \/ \E s \in Systems \cup Foreign : FindReference(c, s)
           \/ ReadSettings(c) \/ Acquire(c) \/ Deliver(c)
    PROVE  TypeInv'
<1> USE DEF TypeInv, Types
<1>0. /\ \A d \in Callers : call[d] \in CallStates
      /\ UNCHANGED <<reading, page, since, fetch>>
  BY DEF FindReference, ReadSettings, Acquire, Deliver, resolvers
<1>1. reading[c] = NoRead /\ page[c] = NoPage /\ fetch[c].pc # "sent"
  BY <1>0 DEF Placed, Resolving, FindReference, ReadSettings, Acquire, Deliver, AtRest
<1> DEFINE Becomes(x) == call' = [call EXCEPT ![c] = x] /\ x \in CallStates /\ x.pc # "receiving"
<1>2. active' \in [Systems -> Int] /\ \E x : Becomes(x)
  <2>1. CASE Answered(c) /\ active' \in [Systems -> Int]
    <3>1. Becomes(AtRest)
      BY <2>1 DEF Answered, CallStates, AtRest
    <3> QED BY <2>1, <3>1
  <2>2. ASSUME NEW s \in Systems \cup Foreign, FindReference(c, s), ~Answered(c)
        PROVE  active' \in [Systems -> Int] /\ \E x : Becomes(x)
    <3>1. Becomes([pc |-> "found", system |-> s]) /\ active' = active
      BY <2>2 DEF FindReference, CallStates
    <3> QED BY <3>1
  <2>3. ASSUME ReadSettings(c), ~Answered(c)
        PROVE  active' \in [Systems -> Int] /\ \E x : Becomes(x)
    <3>1. PICK section \in Sections[call[c].system] :
             call' = [call EXCEPT ![c] = [pc |-> "ready", system |-> call[c].system,
                                          section |-> section]]
      BY <2>3 DEF ReadSettings
    <3>2. call[c].system \in Systems /\ active' = active
      BY <2>3 DEF ReadSettings
    <3>3. Becomes([pc |-> "ready", system |-> call[c].system, section |-> section])
      BY <3>1, <3>2 DEF CallStates
    <3> QED BY <3>2, <3>3
  <2>4. ASSUME Acquire(c), ~Answered(c)
        PROVE  active' \in [Systems -> Int] /\ \E x : Becomes(x)
    <3> PICK x : x = [call[c] EXCEPT !.pc = "resolving"]
      OBVIOUS
    <3>1. call' = [call EXCEPT ![c] = x]
      BY <2>4 DEF Acquire
    <3>2. x \in CallStates /\ x.pc = "resolving"
      BY <1>0, <2>4, CallCases DEF Acquire
    <3>3. call[c].system \in Systems
      BY <1>0, <2>4, CallCases DEF Acquire
    <3> PICK s : s = call[c].system
      OBVIOUS
    <3>4. active' = [active EXCEPT ![s] = @ + 1] \/ active' = active
      BY <2>4 DEF Acquire
    <3>5. active' \in [Systems -> Int]
      BY <3>3, <3>4
    <3>6. Becomes(x)
      BY <3>1, <3>2
    <3> QED BY <3>5, <3>6
  <2>5. ASSUME Deliver(c) PROVE active' \in [Systems -> Int] /\ Answered(c)
    <3> PICK s : s = call[c].system
      OBVIOUS
    <3>1. s \in Systems
      BY <1>0, <2>5, CallCases DEF Deliver
    <3>2. active' = [active EXCEPT ![s] = @ - 1] /\ Answered(c)
      BY <2>5 DEF Deliver
    <3> QED BY <3>1, <3>2
  <2> QED BY <2>1, <2>2, <2>3, <2>4, <2>5 DEF FindReference, ReadSettings, Acquire
<1> PICK x : Becomes(x)
  BY <1>2
<1>3. call' \in [Callers -> CallStates]
  BY <1>2
<1>4. Types'
  BY <1>0, <1>2, <1>3 DEF ReadTyped, PageTyped
<1>5. Placed'
  BY <1>0, <1>1, <1>2 DEF Placed, Resolving
<1> QED BY <1>4, <1>5

\* A call that gets its outcome.
LEMMA AnswerTyped ==
    ASSUME TypeInv, NEW c \in Callers, NEW o \in Outcomes, Resolved(c, o),
           call[c].system \in Systems, active' = active, since' \in [Callers -> Nat],
           reading' = [reading EXCEPT ![c] = NoRead] \/ (reading' = reading /\ reading[c] = NoRead),
           page' = [page EXCEPT ![c] = NoPage] \/ (page' = page /\ page[c] = NoPage),
           \/ fetch' = [fetch EXCEPT ![c] = NoFetch]
           \/ fetch' = fetch /\ fetch[c].pc # "sent"
    PROVE  TypeInv'
<1> USE DEF TypeInv, Types
<1>1. PICK answer \in Answers :
         call' = [call EXCEPT ![c] = [pc |-> "answering", system |-> call[c].system,
                                      answer |-> answer]]
  BY ResolvedAnswers
<1> PICK x : x = [pc |-> "answering", system |-> call[c].system, answer |-> answer]
  OBVIOUS
<1>2. x \in CallStates /\ x.pc = "answering" /\ call' = [call EXCEPT ![c] = x]
  BY <1>1 DEF CallStates
<1>3. call' \in [Callers -> CallStates] /\ fetch' \in [Callers -> FetchStates]
  BY <1>2 DEF FetchStates
<1>4. /\ reading' = [d \in Callers |-> reading'[d]] /\ reading'[c] = NoRead
      /\ \A d \in Callers \ {c} : reading'[d] = reading[d]
      /\ page' = [d \in Callers |-> page'[d]] /\ page'[c] = NoPage
      /\ \A d \in Callers \ {c} : page'[d] = page[d]
  OBVIOUS
<1>5. ReadTyped(NoRead) /\ PageTyped(NoPage)
  BY DEF ReadTyped, PageTyped, NoRead, NoPage
<1>6. Types'
  BY <1>3, <1>4, <1>5 DEF ReadTyped, PageTyped
<1>7. fetch'[c].pc # "sent" /\ \A d \in Callers \ {c} : fetch'[d] = fetch[d] /\ call'[d] = call[d]
  BY <1>2 DEF NoFetch
<1>8. Placed'
  BY <1>2, <1>4, <1>7 DEF Placed, Resolving
<1> QED BY <1>6, <1>8
LEMMA FilesTyped ==
    ASSUME TypeInv, NEW c \in Callers, ReadAFile(c) \/ FileDone(c)
    PROVE  TypeInv'
<1> USE DEF TypeInv, Types
<1>1. ASSUME ReadAFile(c) PROVE TypeInv'
  <2>0. UNCHANGED <<active, call, page, since, fetch>> /\ Resolving(c, "file")
    BY <1>1 DEF ReadAFile
  <2>1. \E x : reading' = [reading EXCEPT ![c] = x] /\ ReadTyped(x)
    <3>1. ASSUME NEW what \in Failures, ReadEnds(c, what, 0)
          PROVE  \E x : reading' = [reading EXCEPT ![c] = x] /\ ReadTyped(x)
      <4> PICK x : x = [pc |-> "done", what |-> what, size |-> 0]
        OBVIOUS
      <4>1. reading' = [reading EXCEPT ![c] = x]
        BY <3>1 DEF ReadEnds
      <4>2. x.pc = "done" /\ x.what \in Failures /\ x.size = 0
        OBVIOUS
      <4>3. ReadTyped(x)
        BY <4>2, FetchLimits DEF ReadTyped
      <4> QED BY <4>1, <4>3
    <3>2. CASE BadUri(c)
      BY <3>1, <3>2 DEF BadUri, Failures
    <3>3. ASSUME NEW path \in Paths, Locate(c, call[c].section.allow, path)
          PROVE  \E x : reading' = [reading EXCEPT ![c] = x] /\ ReadTyped(x)
      <4>1. \/ \E what \in {"unavailable", "not_configured"} : ReadEnds(c, what, 0)
            \/ \E place, roots : reading' = [reading EXCEPT ![c] =
                                     [pc |-> "located", place |-> place, roots |-> roots]]
        BY <3>3 DEF Locate
      <4> QED BY <3>1, <4>1 DEF ReadTyped, Failures
    <3>4. CASE Open(c)
      <4>1. \/ \E what \in {"unavailable", "too_large"} : ReadEnds(c, what, 0)
            \/ \E place, roots : reading' = [reading EXCEPT ![c] =
                                     [pc |-> "opened", place |-> place, roots |-> roots]]
        BY <3>4 DEF Open, Opened
      <4> QED BY <3>1, <4>1 DEF ReadTyped, Failures
    <3>5. CASE ReadFile(c)
      <4>1. \/ \E what \in {"too_large", "read_failed", "binary"} : ReadEnds(c, what, 0)
            \/ \E size \in Sizes : ~(size > MaxBytes) /\ ReadEnds(c, "resolved", size)
        BY <3>5 DEF ReadFile
      <4>2. ASSUME NEW size \in Sizes, ~(size > MaxBytes), ReadEnds(c, "resolved", size)
            PROVE  \E x : reading' = [reading EXCEPT ![c] = x] /\ ReadTyped(x)
        <5> PICK x : x = [pc |-> "done", what |-> "resolved", size |-> size]
          OBVIOUS
        <5>1. reading' = [reading EXCEPT ![c] = x]
          BY <4>2 DEF ReadEnds
        <5>2. x.pc = "done" /\ x.what = "resolved" /\ x.size \in Nat /\ x.size <= MaxBytes
          BY <4>2, FetchLimits
        <5>3. ReadTyped(x)
          BY <5>2 DEF ReadTyped
        <5> QED BY <5>1, <5>3
      <4> QED BY <3>1, <4>1, <4>2 DEF Failures
    <3> QED BY <1>1, <3>2, <3>3, <3>4, <3>5 DEF ReadAFile, ReadStep
  <2>2. Types'
    BY <2>0, <2>1 DEF ReadTyped, PageTyped
  <2>3. Placed'
    BY <2>0, <2>1 DEF Placed, Resolving
  <2> QED BY <2>2, <2>3
<1>2. ASSUME FileDone(c) PROVE TypeInv'
  <2> PICK o : o = Outcome(reading[c].what, reading[c].size, {}, reading[c].size, TRUE)
    OBVIOUS
  <2>1. reading[c].pc = "done" /\ ReadTyped(reading[c])
    BY <1>2 DEF FileDone
  <2>2. o \in Outcomes
    <3> PICK size \in Nat : size = reading[c].size
      BY <2>1 DEF ReadTyped
    <3>1. ~(size < size) /\ size <= size
      OBVIOUS
    <3>2. reading[c].what = "resolved" => ~(size > MaxBytes)
      BY <2>1, FetchLimits DEF ReadTyped
    <3> QED BY <2>1, <3>1, <3>2 DEF Outcome, Outcomes, OutcomeRecords, Told, ReadTyped
  <2>3. Resolving(c, "file") /\ page[c] = NoPage /\ fetch[c].pc # "sent"
    BY <2>1 DEF Placed, Resolving, NoRead
  <2>4. /\ reading' = [reading EXCEPT ![c] = NoRead] /\ Resolved(c, o)
        /\ UNCHANGED <<active, page, since, fetch>>
    BY <1>2 DEF FileDone
  <2>5. call[c].system \in Systems
    BY <2>3 DEF Resolving, Systems
  <2> QED BY <2>2, <2>3, <2>4, <2>5, AnswerTyped
<1> QED BY <1>1, <1>2

LEMMA UrlsTyped ==
    ASSUME TypeInv, NEW c \in Callers, FetchAUrl(c) \/ UrlDone(c)
    PROVE  TypeInv'
<1> USE DEF TypeInv, Types
<1>1. ASSUME FetchAUrl(c) PROVE TypeInv'
  <2>0. UNCHANGED <<active, call, reading, fetch>> /\ Resolving(c, "url")
    BY <1>1 DEF FetchAUrl
  <2> DEFINE Goal == \E x : page' = [page EXCEPT ![c] = x] /\ PageTyped(x)
  <2>1. ASSUME NEW o \in Outcomes, Ended(c, o) PROVE Goal
    <3> PICK x : x = [pc |-> "done", outcome |-> o]
      OBVIOUS
    <3>1. page' = [page EXCEPT ![c] = x]
      BY <2>1 DEF Ended
    <3>2. x.pc = "done" /\ x.outcome \in Outcomes
      OBVIOUS
    <3>3. PageTyped(x)
      BY <3>2 DEF PageTyped
    <3> QED BY <3>1, <3>3
  <2>2. \A what \in Failures : Ended(c, Failed(what)) => Goal
    BY <2>1, FailedTyped
  <2>3. since' \in [Callers -> Nat] /\ Goal
    <3>1. CASE BeginFetch(c, call[c].section.allow, call[c].section.timeout)
      <4>1. since' = [since EXCEPT ![c] = 0]
        BY <3>1 DEF BeginFetch
      <4>2. \/ Ended(c, Failed("invalid_uri"))
            \/ \E url, allow, timeout : page' = [page EXCEPT ![c] =
                  [pc |-> "checking", url |-> url, allow |-> allow, hops |-> 0,
                   deadline |-> timeout]]
        BY <3>1 DEF BeginFetch
      <4>3. Goal
        BY <2>2, <4>2 DEF PageTyped, Failures
      <4> QED BY <4>1, <4>3
    <3>2. CASE CheckHop(c)
      <4>1. \/ \E what \in {"not_allowed", "timed_out"} : Ended(c, Failed(what))
            \/ Calling(c, page[c].deadline)
        BY <3>2 DEF CheckHop
      <4>2. Goal
        BY <2>2, <4>1 DEF PageTyped, Failures, Calling, Requesting
      <4> QED BY <3>2, <4>2 DEF CheckHop
    <3>3. CASE Connect(c)
      <4>1. \/ \E what \in {"not_allowed"} \cup TransportErrors : Ended(c, Failed(what))
            \/ \E ip : Connected(c, ip)
        BY <3>3 DEF Connect, Resolves
      <4>2. Goal
        BY <2>2, <4>1 DEF PageTyped, Failures, Connected, Requesting, TransportErrors
      <4> QED BY <3>3, <4>2 DEF Connect
    <3>4. CASE Redirect(c)
      <4>1. \/ \E what \in {"not_allowed", "upstream_status"} : Ended(c, Failed(what))
            \/ \E url, allow, hops, deadline : page' = [page EXCEPT ![c] =
                  [pc |-> "checking", url |-> url, allow |-> allow, hops |-> hops,
                   deadline |-> deadline]]
        BY <3>4 DEF Redirect
      <4>2. Goal
        BY <2>2, <4>1 DEF PageTyped, Failures
      <4> QED BY <3>4, <4>2 DEF Redirect
    <3>5. CASE Respond(c)
      <4>1. \/ \E what \in {"upstream_status", "unsupported", "too_large"} \cup TransportErrors :
                  Ended(c, Failed(what))
            \/ page' = [page EXCEPT ![c].pc = "reading"]
        BY <3>5 DEF Respond
      <4>2. ASSUME page' = [page EXCEPT ![c].pc = "reading"] PROVE Goal
        <5> PICK x : x = [page[c] EXCEPT !.pc = "reading"]
          OBVIOUS
        <5>1. page' = [page EXCEPT ![c] = x]
          BY <4>2
        <5>2. page[c].pc = "connected" /\ PageTyped(page[c])
          BY <3>5 DEF Respond
        <5>3. x.pc = "reading"
          BY <5>2 DEF PageTyped
        <5> QED BY <5>1, <5>3 DEF PageTyped, Requesting
      <4>3. Goal
        BY <2>2, <4>1, <4>2 DEF Failures, TransportErrors
      <4> QED BY <3>5, <4>3 DEF Respond
    <3>6. CASE ReadBody(c)
      <4>1. \/ \E what \in {"read_failed", "timed_out"} : Ended(c, Failed(what))
            \/ \E size \in Sizes : Ended(c, Truncated(size))
        BY <3>6 DEF ReadBody
      <4>2. \A size \in Sizes : Truncated(size) \in Outcomes
        BY TruncatedTyped, FetchLimits
      <4>3. Goal
        BY <2>1, <2>2, <4>1, <4>2 DEF Failures
      <4> QED BY <3>6, <4>3 DEF ReadBody
    <3> QED BY <1>1, <3>1, <3>2, <3>3, <3>4, <3>5, <3>6 DEF FetchAUrl, FetchStep
  <2>4. Types'
    BY <2>0, <2>3 DEF ReadTyped, PageTyped
  <2>5. Placed'
    BY <2>0, <2>3 DEF Placed, Resolving
  <2> QED BY <2>4, <2>5
<1>2. ASSUME UrlDone(c) PROVE TypeInv'
  <2>1. page[c].pc = "done" /\ PageTyped(page[c])
    BY <1>2 DEF UrlDone
  <2>2. page[c].outcome \in Outcomes
    BY <2>1 DEF PageTyped
  <2>3. Resolving(c, "url") /\ reading[c] = NoRead /\ fetch[c].pc # "sent"
    BY <2>1 DEF Placed, Resolving, NoPage
  <2>4. /\ page' = [page EXCEPT ![c] = NoPage] /\ Resolved(c, page[c].outcome)
        /\ since' = [since EXCEPT ![c] = 0]
        /\ UNCHANGED <<active, reading, fetch>>
    BY <1>2 DEF UrlDone
  <2>5. call[c].system \in Systems /\ since' \in [Callers -> Nat]
    BY <2>3, <2>4 DEF Resolving, Systems
  <2> QED BY <2>2, <2>3, <2>4, <2>5, AnswerTyped
<1> QED BY <1>1, <1>2
\* A step of a task that leaves its call alone.
LEMMA TaskMoves ==
    ASSUME TypeInv, NEW c \in Callers, NEW x \in FetchStates,
           fetch' = [fetch EXCEPT ![c] = x],
           UNCHANGED <<active, call, reading, page, since>>,
           call[c].pc = "receiving" => x.pc \in Fetching \cup {"sent"},
           x.pc = "sent" => call[c].pc = "receiving"
    PROVE  TypeInv'
<1> USE DEF TypeInv, Types
<1>1. Types'
  BY DEF ReadTyped, PageTyped
<1>2. Placed'
  BY DEF Placed, Resolving
<1> QED BY <1>1, <1>2

LEMMA SendsTyped ==
    ASSUME TypeInv, NEW c \in Callers, NEW o \in Outcomes, Sends(c, o)
    PROVE  TypeInv'
<1> PICK x : x = IF call[c].pc # "receiving" THEN NoFetch ELSE [pc |-> "sent", outcome |-> o]
  OBVIOUS
<1>1. fetch' = [fetch EXCEPT ![c] = x] /\ UNCHANGED <<active, call, reading, page, since>>
  BY DEF Sends
<1>2. /\ x \in FetchStates /\ (x.pc = "sent" => call[c].pc = "receiving")
      /\ call[c].pc = "receiving" => x.pc = "sent"
  BY DEF FetchStates, NoFetch
<1> QED BY <1>1, <1>2, TaskMoves

LEMMA MovesTyped ==
    ASSUME TypeInv, NEW c \in Callers, NEW pc,
           \/ fetch[c].pc \in {"spawned", "handshake", "asking"} /\ pc \in {"handshake", "asking"}
           \/ fetch[c].pc = "cancelling" /\ pc = "reaping",
           Moves(c, pc)
    PROVE  TypeInv'
<1> PICK x : x = [fetch[c] EXCEPT !.pc = pc]
  OBVIOUS
<1>1. fetch' = [fetch EXCEPT ![c] = x] /\ UNCHANGED <<active, call, reading, page, since>>
  BY DEF Moves
<1>2. x \in FetchStates /\ x.pc = pc
  BY FetchCases DEF TypeInv, Types
<1>3. x.pc \in Fetching /\ x.pc # "sent"
  BY <1>2 DEF Fetching, WithChild
<1> QED BY <1>1, <1>2, <1>3, TaskMoves

LEMMA CancelsTyped ==
    ASSUME TypeInv, NEW c \in Callers, NEW o \in Outcomes, Cancels(c, o),
           fetch[c].pc = "asking"
    PROVE  TypeInv'
<1> PICK x : x = [pc |-> "cancelling", outcome |-> o, timeout |-> fetch[c].timeout]
  OBVIOUS
<1>1. fetch' = [fetch EXCEPT ![c] = x] /\ UNCHANGED <<active, call, reading, page, since>>
  BY DEF Cancels
<1>2. fetch[c].timeout \in Nat
  BY FetchCases DEF TypeInv, Types
<1>3. x \in FetchStates /\ x.pc = "cancelling"
  BY <1>2 DEF FetchStates
<1>4. x.pc \in Fetching /\ x.pc # "sent"
  BY <1>3 DEF Fetching, WithChild
<1> QED BY <1>1, <1>3, <1>4, TaskMoves

LEMMA MinutesTyped ==
    ASSUME NEW reply \in Replies, NEW meeting
    PROVE  MapMinutes(reply, meeting) \in Outcomes
<1> USE SettingsAreTyped, FetchLimits
<1>1. \A what \in {"narumi_error", "invalid_response", "too_large"} : Failed(what) \in Outcomes
  BY FailedTyped DEF Failures
<1>2. CASE reply.error \/ reply.markdown = None \/ reply.meeting # meeting
  <2>1. \E what \in {"narumi_error", "invalid_response"} : MapMinutes(reply, meeting) = Failed(what)
    BY <1>2 DEF MapMinutes
  <2> QED BY <1>1, <2>1
<1>3. CASE ~reply.error /\ reply.markdown # None /\ reply.meeting = meeting
  <2> PICK size \in Nat : size = reply.markdown
    BY <1>3
  <2>1. CASE size > MaxBytes
    BY <1>1, <1>3, <2>1 DEF MapMinutes
  <2>2. CASE ~(size > MaxBytes)
    <3>1. MapMinutes(reply, meeting) = Outcome("resolved", size, {}, size, TRUE)
      BY <1>3, <2>2 DEF MapMinutes
    <3>2. ~(size < size) /\ size <= size
      OBVIOUS
    <3> QED BY <2>2, <3>1, <3>2 DEF Outcome, Outcomes, OutcomeRecords, Told
  <2> QED BY <2>1, <2>2
<1> QED BY <1>2, <1>3

LEMMA TaskTyped ==
    ASSUME TypeInv, NEW c \in Callers,
           StartChild(c) \/ Handshake(c) \/ Ask(c) \/ Cancel(c) \/ Reap(c)
    PROVE  TypeInv'
<1>0. fetch[c] \in FetchStates
  BY DEF TypeInv, Types
<1>1. \A what \in Failures : Failed(what) \in Outcomes
  BY FailedTyped
<1>2. ASSUME NEW what \in Failures,
             \/ Sends(c, Failed(what))
             \/ fetch[c].pc = "asking" /\ Cancels(c, Failed(what))
      PROVE  TypeInv'
  BY <1>1, <1>2, SendsTyped, CancelsTyped
<1>3. CASE StartChild(c)
  <2>1. \/ Moves(c, "handshake") /\ fetch[c].pc = "spawned"
        \/ \E what \in Failures : Sends(c, Failed(what))
    BY <1>3 DEF StartChild, Failures
  <2>2. ASSUME Moves(c, "handshake"), fetch[c].pc = "spawned" PROVE TypeInv'
    <3>1. fetch[c].pc \in {"spawned", "handshake", "asking"} /\ "handshake" \in {"handshake", "asking"}
      BY <2>2
    <3> QED BY <2>2, <3>1, MovesTyped
  <2> QED BY <1>2, <2>1, <2>2
<1>4. CASE Handshake(c)
  <2>1. \/ Moves(c, "asking") /\ fetch[c].pc = "handshake"
        \/ \E what \in Failures : Sends(c, Failed(what))
    BY <1>4 DEF Handshake, Failures
  <2>2. ASSUME Moves(c, "asking"), fetch[c].pc = "handshake" PROVE TypeInv'
    <3>1. fetch[c].pc \in {"spawned", "handshake", "asking"} /\ "asking" \in {"handshake", "asking"}
      BY <2>2
    <3> QED BY <2>2, <3>1, MovesTyped
  <2> QED BY <1>2, <2>1, <2>2
<1>5. CASE Ask(c)
  <2>1. fetch[c].pc = "asking"
    BY <1>5 DEF Ask
  <2>2. \/ \E reply \in Replies : Cancels(c, MapMinutes(reply, fetch[c].meeting))
        \/ \E what \in Failures : Cancels(c, Failed(what))
    BY <1>5 DEF Ask, Failures
  <2> QED BY <1>2, <2>1, <2>2, MinutesTyped, CancelsTyped
<1>6. CASE Cancel(c) \/ Reap(c)
  <2>1. fetch[c].outcome \in Outcomes
    BY <1>0, <1>6, FetchCases DEF Cancel, Reap
  <2> QED BY <1>6, <2>1, SendsTyped, MovesTyped DEF Cancel, Reap
<1> QED BY <1>3, <1>4, <1>5, <1>6

LEMMA NarumiTyped ==
    ASSUME TypeInv, NEW c \in Callers,
           RefuseUri(c) \/ SpawnFetch(c) \/ Receive(c) \/ GiveUp(c)
    PROVE  TypeInv'
<1> USE DEF TypeInv, Types
<1>0. /\ call[c] \in CallStates /\ fetch[c] \in FetchStates /\ call[c].pc \in {"resolving", "receiving"}
      /\ call[c].system = "narumi"
  BY DEF RefuseUri, SpawnFetch, Receive, GiveUp, Resolving, Placed
<1>1. reading[c] = NoRead /\ page[c] = NoPage /\ call[c].system \in Systems
  BY <1>0 DEF Placed, Resolving, Systems
<1>2. \A what \in Failures : Failed(what) \in Outcomes
  BY FailedTyped
<1>3. ASSUME RefuseUri(c) \/ GiveUp(c) PROVE TypeInv'
  <2>1. /\ \E what \in Failures : Goes(c, Failed(what)) /\ Failed(what).what # "resolved"
        /\ UNCHANGED <<active, resolvers>> /\ fetch[c].pc # "sent"
    BY <1>3 DEF RefuseUri, GiveUp, Failures, Placed, Resolving, Failed, Outcome
  <2>2. \E o \in Outcomes : Resolved(c, o)
    BY <1>2, <2>1 DEF Resolved
  <2> QED BY <1>1, <2>1, <2>2, AnswerTyped DEF resolvers
<1>4. ASSUME Receive(c) PROVE TypeInv'
  <2>1. /\ Resolved(c, fetch[c].outcome) /\ fetch' = [fetch EXCEPT ![c] = NoFetch]
        /\ since' = [since EXCEPT ![c] = 0] /\ UNCHANGED <<active, reading, page>>
        /\ fetch[c].pc = "sent"
    BY <1>4 DEF Receive
  <2>2. fetch[c].outcome \in Outcomes /\ since' \in [Callers -> Nat]
    BY <1>0, <2>1, FetchCases
  <2> QED BY <1>1, <2>1, <2>2, AnswerTyped
<1>5. ASSUME SpawnFetch(c) PROVE TypeInv'
  <2>1. PICK uri \in NarumiUris :
           /\ FollowsConvention(uri)
           /\ fetch' = [fetch EXCEPT ![c] = [pc |-> "spawned", meeting |-> uri.path[1],
                                             timeout |-> call[c].section.timeout]]
    BY <1>5 DEF SpawnFetch
  <2> PICK x : x = [pc |-> "spawned", meeting |-> uri.path[1],
                    timeout |-> call[c].section.timeout]
    OBVIOUS
  <2> PICK y : y = [call[c] EXCEPT !.pc = "receiving"]
    OBVIOUS
  <2>2. /\ call' = [call EXCEPT ![c] = y] /\ since' = [since EXCEPT ![c] = 0]
        /\ UNCHANGED <<active, reading, page>> /\ call[c].pc = "resolving"
    BY <1>5 DEF SpawnFetch, Resolving
  <2>3. y \in CallStates /\ y.pc = "receiving" /\ y.system = "narumi"
    BY <1>0, <2>2, CallCases
  <2>4. call[c].section.timeout \in Nat
    BY <1>0, <2>2, CallCases, SettingsAreTyped
  <2>5. x \in FetchStates /\ x.pc = "spawned"
    BY <2>1, <2>4 DEF FetchStates, FollowsConvention
  <2>6. Types'
    BY <2>1, <2>2, <2>3, <2>5 DEF ReadTyped, PageTyped
  <2>7. "spawned" \in Fetching
    BY DEF Fetching
  <2>8. Placed'
    BY <1>1, <2>1, <2>2, <2>3, <2>5, <2>7 DEF Placed, Resolving
  <2> QED BY <2>6, <2>8
<1> QED BY <1>3, <1>4, <1>5
LEMMA TickTyped ==
    ASSUME TypeInv, Tick
    PROVE  TypeInv'
<1> USE DEF TypeInv, Types
<1>1. since' \in [Callers -> Nat] /\ UNCHANGED <<active, call, reading, page, fetch>>
  BY DEF Tick
<1>2. Types'
  BY <1>1 DEF ReadTyped, PageTyped
<1>3. Placed'
  BY <1>1 DEF Placed, Resolving
<1> QED BY <1>2, <1>3

\* A step of Next is one of these.
LEMMA NextCases ==
    ASSUME Next
    PROVE  \/ \E c \in Callers :
                 \/ \/ \E s \in Systems \cup Foreign : FindReference(c, s)
                    \/ ReadSettings(c) \/ Acquire(c) \/ Deliver(c)
                 \/ ReadAFile(c) \/ FileDone(c)
                 \/ FetchAUrl(c) \/ UrlDone(c)
                 \/ StartChild(c) \/ Handshake(c) \/ Ask(c) \/ Cancel(c) \/ Reap(c)
                 \/ RefuseUri(c) \/ SpawnFetch(c) \/ Receive(c) \/ GiveUp(c)
           \/ Tick
BY DEF Next, Works

LEMMA TypesKept == TypeInv /\ [Next]_vars => TypeInv'
<1>1. ASSUME TypeInv, UNCHANGED vars PROVE TypeInv'
  BY <1>1 DEF vars, TypeInv, Types, Placed, Resolving, ReadTyped, PageTyped
<1>2. ASSUME TypeInv, Next PROVE TypeInv'
  BY <1>2, NextCases, CallTyped, FilesTyped, UrlsTyped, TaskTyped, NarumiTyped, TickTyped
<1> QED BY <1>1, <1>2

LEMMA InitTyped == Init => TypeInv
<1> SUFFICES ASSUME Init PROVE TypeInv
  OBVIOUS
<1>1. /\ \A c \in Callers : /\ call[c] = AtRest /\ fetch[c] = NoFetch /\ page[c] = NoPage
                            /\ reading[c] = NoRead
      /\ AtRest.pc = "idle" /\ NoFetch.pc = "none" /\ NoPage.pc = "none" /\ NoRead.pc = "none"
  BY DEF Init, UrlInit, FileInit, AtRest, NoFetch, NoPage, NoRead
<1>2. Types
  BY <1>1 DEF Types, Init, UrlInit, FileInit, CallStates, FetchStates, ReadTyped, PageTyped
<1>3. Placed
  BY <1>1 DEF Placed
<1> QED BY <1>2, <1>3 DEF TypeInv

\* Types are kept, and whoever reads, fetches or waits holds a permit.
THEOREM GateTypes == Spec => []TypeInv
BY InitTyped, TypesKept, PTL DEF Spec

\* Every answer is of the source that was asked for, is within the limit of characters,
\* and says of it what was left out.
THEOREM AnswersAreSound == Spec => []AnswersSound
<1>1. TypeInv => AnswersSound
  <2> SUFFICES ASSUME TypeInv, NEW c \in Callers, call[c].pc = "answering",
                      call[c].answer.what = "resolved"
               PROVE  /\ call[c].answer.right
                      /\ call[c].answer.body <= MaxChars
                      /\ call[c].answer.body < call[c].answer.size <=> call[c].answer.told # {}
                      /\ call[c].answer.size > MaxBytes
                            <=> "body_truncated" \in call[c].answer.told
    BY DEF AnswersSound
  <2>1. call[c].answer \in Answers
    BY CallCases DEF TypeInv, Types
  <2> QED BY <2>1 DEF Answers, Outcomes, Told
<1> QED BY <1>1, GateTypes, PTL
-----------------------------------------------------------------------------
(* The permits. *)

Alive == {"spawned"} \cup WithChild

\* A child lives under its call, and is gone before the call may give up.
TasksInTime ==
    \A c \in Callers :
        /\ fetch[c].pc \in Alive => call[c].pc = "receiving"
        /\ call[c].pc = "receiving" /\ fetch[c].pc \in Fetching =>
              fetch[c].timeout = call[c].section.timeout
        /\ fetch[c].pc \in {"spawned", "handshake", "asking"} => since[c] <= fetch[c].timeout
        /\ fetch[c].pc = "cancelling" => since[c] <= fetch[c].timeout + CancelWait

PermitInv == TypeInv /\ GateCounts /\ TasksInTime

\* The calls that hold a permit can be counted.
LEMMA FiniteHolders ==
    ASSUME NEW s
    PROVE  IsFiniteSet(Holders(s)) /\ Cardinality(Holders(s)) \in Nat
BY SettingsAreTyped, FS_Subset, FS_CardinalityType DEF Holders

\* The gate's count is that of the calls that hold a permit, action by action.
LEMMA CountsStay ==
    ASSUME GateCounts, active' = active, \A s \in Systems : Holders(s)' = Holders(s)
    PROVE  GateCounts'
BY DEF GateCounts, GateLimit

\* A call that takes no permit and gives none back.
LEMMA HoldersStay ==
    ASSUME TypeInv, NEW c \in Callers, NEW x, call' = [call EXCEPT ![c] = x],
           \/ /\ call[c].pc \notin {"resolving", "receiving", "answering"}
              /\ x.pc \notin {"resolving", "receiving", "answering"}
           \/ /\ call[c].pc \in {"resolving", "receiving", "answering"}
              /\ x.pc \in {"resolving", "receiving", "answering"} /\ x.system = call[c].system
    PROVE  \A s \in Systems : Holders(s)' = Holders(s)
BY DEF TypeInv, Types, Holders

LEMMA PermitTaken ==
    ASSUME PermitInv, NEW c \in Callers, Acquire(c), ~Answered(c)
    PROVE  GateCounts'
<1> USE DEF PermitInv, TypeInv, Types
<1> PICK s : s = call[c].system
  OBVIOUS
<1> PICK x : x = [call[c] EXCEPT !.pc = "resolving"]
  OBVIOUS
<1>1. /\ call' = [call EXCEPT ![c] = x] /\ active' = [active EXCEPT ![s] = @ + 1]
      /\ active[s] < GateLimit(s) /\ call[c].pc = "ready"
  BY DEF Acquire
<1>2. s \in Systems /\ x.pc = "resolving" /\ x.system = s
  BY <1>1, CallCases
<1>3. Holders(s)' = Holders(s) \cup {c} /\ c \notin Holders(s)
  BY <1>1, <1>2 DEF Holders
<1>4. \A r \in Systems \ {s} : Holders(r)' = Holders(r)
  BY <1>1, <1>2 DEF Holders
<1>5. Cardinality(Holders(s)') = Cardinality(Holders(s)) + 1
  BY <1>3, FiniteHolders, FS_AddElement
<1>6. GateLimit(s) \in Nat /\ \A r \in Systems : GateLimit(r)' = GateLimit(r)
  BY <1>2, LimitIsNat DEF GateLimit
<1>7. active'[s] = active[s] + 1 /\ \A r \in Systems \ {s} : active'[r] = active[r]
  BY <1>1, <1>2
<1>8. active'[s] = Cardinality(Holders(s)') /\ active'[s] <= GateLimit(s)
  BY <1>1, <1>2, <1>5, <1>6, <1>7 DEF GateCounts
<1> QED BY <1>4, <1>6, <1>7, <1>8 DEF GateCounts

LEMMA PermitBack ==
    ASSUME PermitInv, NEW c \in Callers, Deliver(c)
    PROVE  GateCounts'
<1> USE DEF PermitInv, TypeInv, Types
<1> PICK s : s = call[c].system
  OBVIOUS
<1>1. /\ call' = [call EXCEPT ![c] = AtRest] /\ active' = [active EXCEPT ![s] = @ - 1]
      /\ call[c].pc = "answering"
  BY DEF Deliver, Answered
<1>2. s \in Systems /\ AtRest.pc = "idle"
  BY <1>1, CallCases DEF AtRest
<1>3. Holders(s)' = Holders(s) \ {c} /\ c \in Holders(s)
  BY <1>1, <1>2 DEF Holders
<1>4. \A r \in Systems \ {s} : Holders(r)' = Holders(r)
  BY <1>1, <1>2 DEF Holders
<1>5. Cardinality(Holders(s)') = Cardinality(Holders(s)) - 1
  BY <1>3, FiniteHolders, FS_RemoveElement
<1>6. GateLimit(s) \in Nat /\ \A r \in Systems : GateLimit(r)' = GateLimit(r)
  BY <1>2, LimitIsNat DEF GateLimit
<1>7. active'[s] = active[s] - 1 /\ \A r \in Systems \ {s} : active'[r] = active[r]
  BY <1>1, <1>2
<1>8. active'[s] = Cardinality(Holders(s)') /\ active'[s] <= GateLimit(s)
  BY <1>2, <1>5, <1>6, <1>7 DEF GateCounts
<1> QED BY <1>4, <1>6, <1>7, <1>8 DEF GateCounts

\* What a call has when it is resolved.
LEMMA ResolvedMoves ==
    ASSUME NEW c \in Callers, NEW o, Resolved(c, o)
    PROVE  \E x : /\ call' = [call EXCEPT ![c] = x]
                  /\ x.pc = "answering" /\ x.system = call[c].system
<1>1. \E answer : Goes(c, answer)
  BY DEF Resolved
<1>2. PICK answer : Goes(c, answer)
  BY <1>1
<1> PICK x : x = [pc |-> "answering", system |-> call[c].system, answer |-> answer]
  OBVIOUS
<1>3. call' = [call EXCEPT ![c] = x]
  BY <1>2 DEF Goes
<1>4. x.pc = "answering" /\ x.system = call[c].system
  OBVIOUS
<1> QED BY <1>3, <1>4

\* The steps of a call up to its resolver, and the last one.
LEMMA PermitCall ==
    ASSUME PermitInv, NEW c \in Callers,
           \/ \E s \in Systems \cup Foreign : FindReference(c, s)
           \/ ReadSettings(c) \/ Acquire(c) \/ Deliver(c)
    PROVE  GateCounts' /\ TasksInTime'
<1> USE DEF PermitInv, TypeInv, Types
<1>0. /\ \A d \in Callers \ {c} : call'[d] = call[d]
      /\ UNCHANGED <<since, fetch>>
  BY DEF FindReference, ReadSettings, Acquire, Deliver, Answered, resolvers
<1>1. call[c].pc \in {"idle", "found", "ready", "answering"}
  BY DEF FindReference, ReadSettings, Acquire, Deliver, AtRest
<1>2. TasksInTime'
  <2>1. fetch[c].pc \notin Alive
    BY <1>1 DEF TasksInTime
  <2>2. call'[c].pc # "receiving"
    <3>1. TypeInv'
      BY CallTyped
    <3>2. CASE Answered(c)
      BY <3>2 DEF Answered, AtRest
    <3>3. ASSUME NEW s \in Systems \cup Foreign, FindReference(c, s), ~Answered(c)
          PROVE  call'[c].pc # "receiving"
      <4>1. call'[c] = [pc |-> "found", system |-> s]
        BY <3>3 DEF FindReference
      <4> QED BY <4>1
    <3>4. ASSUME ReadSettings(c), ~Answered(c) PROVE call'[c].pc # "receiving"
      <4> PICK s : s = call[c].system
        OBVIOUS
      <4>1. \E section : call'[c] = [pc |-> "ready", system |-> s, section |-> section]
        BY <3>4 DEF ReadSettings
      <4> QED BY <4>1
    <3>5. ASSUME Acquire(c), ~Answered(c) PROVE call'[c].pc # "receiving"
      <4>1. call'[c] = [call[c] EXCEPT !.pc = "resolving"] /\ call[c].pc = "ready"
        BY <3>5 DEF Acquire
      <4>2. [call[c] EXCEPT !.pc = "resolving"].pc = "resolving"
        BY <4>1, CallCases
      <4> QED BY <4>1, <4>2
    <3> QED BY <3>2, <3>3, <3>4, <3>5 DEF Deliver
  <2>3. /\ \A d \in Callers : fetch'[d] = fetch[d] /\ since'[d] = since[d]
    BY <1>0
  <2> QED BY <1>0, <2>1, <2>2, <2>3 DEF TasksInTime, Alive, WithChild
<1>3. GateCounts'
  <2>1. CASE Acquire(c) /\ ~Answered(c)
    BY <2>1, PermitTaken
  <2>2. CASE Deliver(c)
    BY <2>2, PermitBack
  <2>3. CASE ~Deliver(c) /\ ~(Acquire(c) /\ ~Answered(c))
    <3>0. \/ \E s \in Systems \cup Foreign : FindReference(c, s)
          \/ ReadSettings(c)
          \/ Acquire(c) /\ Answered(c)
      BY <2>3
    <3>1. call[c].pc \in {"idle", "found", "ready"}
      BY <3>0 DEF FindReference, ReadSettings, Acquire, AtRest
    <3>3. active' = active
      <4>1. CASE Acquire(c) /\ Answered(c)
        <5>1. call'[c].pc = "idle"
          BY <4>1 DEF Answered, AtRest
        <5>2. call' = [call EXCEPT ![c].pc = "resolving"] => call'[c].pc = "resolving"
          BY <4>1, CallCases DEF Acquire
        <5> QED BY <4>1, <5>1, <5>2 DEF Acquire
      <4> QED BY <3>0, <4>1 DEF FindReference, ReadSettings
    <3>2. \E x : /\ call' = [call EXCEPT ![c] = x]
                 /\ x.pc \notin {"resolving", "receiving", "answering"}
      <4>1. \/ call' = [call EXCEPT ![c] = AtRest]
            \/ \E s : call' = [call EXCEPT ![c] = [pc |-> "found", system |-> s]]
            \/ \E s, section :
                  call' = [call EXCEPT ![c] = [pc |-> "ready", system |-> s, section |-> section]]
        BY <3>0 DEF FindReference, ReadSettings, Answered
      <4> QED BY <4>1 DEF AtRest
    <3> QED BY <3>1, <3>2, <3>3, HoldersStay, CountsStay
  <2> QED BY <2>1, <2>2, <2>3
<1> QED BY <1>2, <1>3

\* Files and urls are read without a child.
LEMMA PermitRead ==
    ASSUME PermitInv, NEW c \in Callers,
           ReadAFile(c) \/ FileDone(c) \/ FetchAUrl(c) \/ UrlDone(c) \/ RefuseUri(c)
    PROVE  GateCounts' /\ TasksInTime'
<1> USE DEF PermitInv, TypeInv, Types
<1>1. call[c].pc = "resolving"
  <2>1. FileDone(c) => reading[c] # NoRead
    BY DEF FileDone, NoRead
  <2>2. UrlDone(c) => page[c] # NoPage
    BY DEF UrlDone, NoPage
  <2> QED BY <2>1, <2>2 DEF Placed, Resolving, ReadAFile, FetchAUrl, RefuseUri
<1>2. /\ active' = active /\ fetch' = fetch
      /\ \A d \in Callers \ {c} : since'[d] = since[d]
  BY DEF ReadAFile, FileDone, FetchAUrl, UrlDone, RefuseUri, resolvers, BeginFetch, FetchStep,
         CheckHop, Connect, Redirect, Respond, ReadBody
<1>3. \/ call' = call
      \/ \E x : call' = [call EXCEPT ![c] = x] /\ x.pc = "answering" /\ x.system = call[c].system
  <2>1. CASE ReadAFile(c) \/ FetchAUrl(c)
    BY <2>1 DEF ReadAFile, FetchAUrl
  <2>2. CASE FileDone(c) \/ UrlDone(c)
    BY <2>2, ResolvedMoves DEF FileDone, UrlDone
  <2>3. CASE RefuseUri(c)
    <3>1. \E o : Goes(c, o) /\ o.what # "resolved"
      BY <2>3 DEF RefuseUri, Failed, Outcome
    <3>2. \E o : Resolved(c, o)
      BY <3>1 DEF Resolved
    <3> QED BY <3>2, ResolvedMoves
  <2> QED BY <2>1, <2>2, <2>3
<1>4. GateCounts'
  <2>1. \A s \in Systems : Holders(s)' = Holders(s)
    <3>1. CASE call' = call
      BY <3>1 DEF Holders
    <3> QED BY <1>1, <1>3, <3>1, HoldersStay
  <2> QED BY <1>2, <2>1, CountsStay
<1>5. TasksInTime'
  <2>1. fetch[c].pc \notin Alive /\ call'[c].pc # "receiving"
    BY <1>1, <1>3 DEF TasksInTime
  <2>2. \A d \in Callers \ {c} : call'[d] = call[d]
    BY <1>3
  <2> QED BY <1>2, <2>1, <2>2 DEF TasksInTime, Alive, WithChild
<1> QED BY <1>4, <1>5

\* A step of a task that leaves its call alone.
LEMMA TaskChanges ==
    ASSUME PermitInv, NEW c \in Callers, NEW x, fetch' = [fetch EXCEPT ![c] = x],
           UNCHANGED <<active, call, since>>,
           x.pc \in Alive => call[c].pc = "receiving",
           call[c].pc = "receiving" /\ x.pc \in Fetching => x.timeout = call[c].section.timeout,
           x.pc \in {"spawned", "handshake", "asking"} => since[c] <= x.timeout,
           x.pc = "cancelling" => since[c] <= x.timeout + CancelWait
    PROVE  GateCounts' /\ TasksInTime'
<1> USE DEF PermitInv, TypeInv, Types
<1>1. GateCounts'
  BY CountsStay DEF Holders
<1>2. TasksInTime'
  BY DEF TasksInTime
<1> QED BY <1>1, <1>2

LEMMA PermitTask ==
    ASSUME PermitInv, NEW c \in Callers,
           StartChild(c) \/ Handshake(c) \/ Ask(c) \/ Cancel(c) \/ Reap(c)
    PROVE  GateCounts' /\ TasksInTime'
<1> USE DEF PermitInv, TypeInv, Types
<1>0. fetch[c] \in FetchStates /\ since[c] \in Nat
  OBVIOUS
<1>1. ASSUME NEW o, Sends(c, o) PROVE GateCounts' /\ TasksInTime'
  <2> PICK x : x = IF call[c].pc # "receiving" THEN NoFetch ELSE [pc |-> "sent", outcome |-> o]
    OBVIOUS
  <2>1. fetch' = [fetch EXCEPT ![c] = x] /\ UNCHANGED <<active, call, since>>
    BY <1>1 DEF Sends
  <2>2. x.pc \in {"none", "sent"}
    BY DEF NoFetch
  <2>3. x.pc \notin Fetching /\ x.pc \notin Alive
    BY <2>2 DEF Fetching, WithChild, Alive
  <2> QED BY <2>1, <2>2, <2>3, TaskChanges
<1>2. ASSUME NEW pc, Moves(c, pc),
             \/ fetch[c].pc \in {"spawned", "handshake", "asking"} /\ pc \in {"handshake", "asking"}
             \/ fetch[c].pc = "cancelling" /\ pc = "reaping"
      PROVE  GateCounts' /\ TasksInTime'
  <2> PICK x : x = [fetch[c] EXCEPT !.pc = pc]
    OBVIOUS
  <2>1. fetch' = [fetch EXCEPT ![c] = x] /\ UNCHANGED <<active, call, since>>
    BY <1>2 DEF Moves
  <2>2. x.pc = pc /\ x.timeout = fetch[c].timeout
    BY <1>0, <1>2, FetchCases
  <2>3. fetch[c].pc \in Alive /\ fetch[c].pc \in Fetching
    BY <1>2 DEF Alive, WithChild, Fetching
  <2>4. /\ call[c].pc = "receiving" /\ x.timeout = call[c].section.timeout
        /\ x.pc \in {"spawned", "handshake", "asking"} => since[c] <= x.timeout
        /\ x.pc # "cancelling"
    BY <1>2, <2>2, <2>3 DEF TasksInTime
  <2> QED BY <2>1, <2>4, TaskChanges
<1>3. ASSUME NEW o, Cancels(c, o), fetch[c].pc = "asking" PROVE GateCounts' /\ TasksInTime'
  <2> PICK x : x = [pc |-> "cancelling", outcome |-> o, timeout |-> fetch[c].timeout]
    OBVIOUS
  <2>1. fetch' = [fetch EXCEPT ![c] = x] /\ UNCHANGED <<active, call, since>>
    BY <1>3 DEF Cancels
  <2>2. x.pc = "cancelling" /\ x.timeout = fetch[c].timeout
    OBVIOUS
  <2>3. fetch[c].pc \in Alive /\ fetch[c].pc \in Fetching
    BY <1>3 DEF Alive, WithChild, Fetching
  <2>4. /\ call[c].pc = "receiving" /\ x.timeout = call[c].section.timeout
        /\ since[c] <= x.timeout
    BY <1>3, <2>2, <2>3 DEF TasksInTime
  <2>5. x.timeout \in Nat
    BY <1>0, <1>3, <2>2, FetchCases
  <2>6. since[c] <= x.timeout + CancelWait
    BY <1>0, <2>4, <2>5, TimesAreNat
  <2> QED BY <2>1, <2>2, <2>4, <2>6, TaskChanges
<1>4. CASE StartChild(c)
  <2>1. \/ Moves(c, "handshake") /\ fetch[c].pc = "spawned"
        \/ Sends(c, Failed("start_failed"))
    BY <1>4 DEF StartChild
  <2>2. fetch[c].pc = "spawned" => fetch[c].pc \in {"spawned", "handshake", "asking"}
    OBVIOUS
  <2>3. "handshake" \in {"handshake", "asking"}
    OBVIOUS
  <2> QED BY <1>1, <1>2, <2>1, <2>2, <2>3
<1>5. CASE Handshake(c)
  <2>1. \/ Moves(c, "asking") /\ fetch[c].pc = "handshake"
        \/ \E what : Sends(c, Failed(what))
    BY <1>5 DEF Handshake
  <2>2. fetch[c].pc = "handshake" => fetch[c].pc \in {"spawned", "handshake", "asking"}
    OBVIOUS
  <2>3. "asking" \in {"handshake", "asking"}
    OBVIOUS
  <2> QED BY <1>1, <1>2, <2>1, <2>2, <2>3
<1>6. CASE Ask(c)
  <2>1. fetch[c].pc = "asking" /\ \E o : Cancels(c, o)
    BY <1>6 DEF Ask
  <2> QED BY <1>3, <2>1
<1>7. CASE Cancel(c) \/ Reap(c)
  BY <1>1, <1>2, <1>7 DEF Cancel, Reap
<1> QED BY <1>4, <1>5, <1>6, <1>7

\* A call of narumi begins, gets its answer, or gives up: then its child is gone.
LEMMA PermitNarumi ==
    ASSUME PermitInv, NEW c \in Callers, SpawnFetch(c) \/ Receive(c) \/ GiveUp(c)
    PROVE  GateCounts' /\ TasksInTime'
<1> USE DEF PermitInv, TypeInv, Types
<1>0. call[c] \in CallStates /\ fetch[c] \in FetchStates /\ since[c] \in Nat
  OBVIOUS
<1>1. ASSUME SpawnFetch(c) PROVE GateCounts' /\ TasksInTime'
  <2>1. PICK uri \in NarumiUris :
           fetch' = [fetch EXCEPT ![c] = [pc |-> "spawned", meeting |-> uri.path[1],
                                          timeout |-> call[c].section.timeout]]
    BY <1>1 DEF SpawnFetch
  <2> PICK x : x = [pc |-> "spawned", meeting |-> uri.path[1],
                    timeout |-> call[c].section.timeout]
    OBVIOUS
  <2> PICK y : y = [call[c] EXCEPT !.pc = "receiving"]
    OBVIOUS
  <2>2. /\ call' = [call EXCEPT ![c] = y] /\ since' = [since EXCEPT ![c] = 0]
        /\ active' = active /\ call[c].pc = "resolving" /\ call[c].system = "narumi"
    BY <1>1 DEF SpawnFetch, Resolving
  <2>3. y.pc = "receiving" /\ y.system = call[c].system /\ y.section = call[c].section
    BY <1>0, <2>2, CallCases
  <2>4. call[c].section.timeout \in Nat
    BY <1>0, <2>2, CallCases, SettingsAreTyped
  <2>5. x.pc = "spawned" /\ x.timeout = call[c].section.timeout
    OBVIOUS
  <2>6. GateCounts'
    BY <2>2, <2>3, HoldersStay, CountsStay
  <2>7. TasksInTime'
    BY <2>1, <2>2, <2>3, <2>4, <2>5 DEF TasksInTime
  <2> QED BY <2>6, <2>7
<1>2. ASSUME Receive(c) PROVE GateCounts' /\ TasksInTime'
  <2>1. /\ call[c].pc = "receiving" /\ active' = active
        /\ fetch' = [fetch EXCEPT ![c] = NoFetch] /\ since' = [since EXCEPT ![c] = 0]
    BY <1>2 DEF Receive
  <2>2. PICK x : call' = [call EXCEPT ![c] = x] /\ x.pc = "answering" /\ x.system = call[c].system
    BY <1>2, ResolvedMoves DEF Receive
  <2>3. GateCounts'
    BY <2>1, <2>2, HoldersStay, CountsStay
  <2>4. NoFetch.pc = "none" /\ "none" \notin Alive
    BY DEF NoFetch, Alive, WithChild
  <2>5. TasksInTime'
    BY <2>1, <2>2, <2>4 DEF TasksInTime
  <2> QED BY <2>3, <2>5
<1>3. ASSUME GiveUp(c) PROVE GateCounts' /\ TasksInTime'
  <2>1. /\ call[c].pc = "receiving" /\ fetch[c].pc # "sent"
        /\ since[c] >= call[c].section.timeout + Grace
        /\ UNCHANGED <<active, since, fetch>>
    BY <1>3 DEF GiveUp, resolvers
  <2>2. \E o : Resolved(c, o)
    <3>1. Goes(c, Failed("timed_out")) /\ Failed("timed_out").what # "resolved"
      BY <1>3 DEF GiveUp, Failed, Outcome
    <3> QED BY <3>1 DEF Resolved
  <2>3. PICK x : call' = [call EXCEPT ![c] = x] /\ x.pc = "answering" /\ x.system = call[c].system
    BY <2>2, ResolvedMoves
  <2>4. GateCounts'
    BY <2>1, <2>3, HoldersStay, CountsStay
  <2>5. fetch[c].pc \in Fetching /\ fetch[c].timeout = call[c].section.timeout
    BY <2>1 DEF Placed, TasksInTime
  <2> PICK limit : limit = fetch[c].timeout
    OBVIOUS
  <2>6. limit \in Nat
    BY <1>0, <2>5, FetchCases DEF Fetching, WithChild
  <2>7. since[c] >= limit + Grace
    BY <2>1, <2>5
  <2>8. ~(since[c] <= limit) /\ ~(since[c] <= limit + CancelWait)
    BY <1>0, <2>6, <2>7, TimesAreNat, GraceCoversCancel
  <2>9. fetch[c].pc \notin Alive
    BY <2>8 DEF TasksInTime, Alive, WithChild
  <2>10. TasksInTime'
    BY <2>1, <2>3, <2>9 DEF TasksInTime, Alive, WithChild
  <2> QED BY <2>4, <2>10
<1> QED BY <1>1, <1>2, <1>3

\* Who waits for a task fetches no url.
LEMMA NotFetching ==
    ASSUME TypeInv, NEW c \in Callers, call[c].pc = "receiving"
    PROVE  page[c].pc \notin Requesting /\ page[c].pc # "checking"
<1>1. page[c] = NoPage
  BY DEF TypeInv, Placed, Resolving
<1> QED BY <1>1 DEF NoPage, Requesting

LEMMA PermitTick ==
    ASSUME PermitInv, Tick
    PROVE  GateCounts' /\ TasksInTime'
<1> USE DEF PermitInv, TypeInv, Types
<1>1. UNCHANGED <<active, call, reading, page, fetch>>
  BY DEF Tick
<1>2. GateCounts'
  BY <1>1, CountsStay DEF Holders
<1>3. ASSUME NEW c \in Callers, fetch[c].pc \in Alive
      PROVE  since'[c] <= Latest(c)
  <2>1. Timed(c)
    BY <1>3 DEF TasksInTime, Timed
  <2>2. since[c] < Latest(c) /\ since'[c] = since[c] + 1
    BY <2>1 DEF Tick
  <2>3. Latest(c) \in Nat
    <3>1. fetch[c].timeout \in Nat /\ CancelWait \in Nat
      BY <1>3, FetchCases, TimesAreNat DEF Alive, WithChild, NoFetch
    <3>2. Latest(c) \in {fetch[c].timeout, fetch[c].timeout + CancelWait}
      BY <1>3, NotFetching DEF Latest, Alive, WithChild, TasksInTime
    <3> QED BY <3>1, <3>2
  <2> QED BY <2>2, <2>3
<1>4. TasksInTime'
  <2>1. ASSUME NEW c \in Callers, fetch[c].pc \in Alive
        PROVE  /\ fetch[c].pc \in {"spawned", "handshake", "asking"}
                     => since'[c] <= fetch[c].timeout
               /\ fetch[c].pc = "cancelling" => since'[c] <= fetch[c].timeout + CancelWait
    BY <1>3, <2>1, NotFetching DEF Latest, TasksInTime
  <2> QED BY <1>1, <2>1 DEF TasksInTime, Alive, WithChild
<1> QED BY <1>2, <1>4

LEMMA PermitsKept == PermitInv /\ [Next]_vars => PermitInv'
<1>1. ASSUME PermitInv, UNCHANGED vars PROVE PermitInv'
  <2>1. TypeInv'
    BY <1>1, TypesKept DEF PermitInv
  <2>2. GateCounts'
    BY <1>1, CountsStay DEF PermitInv, vars, Holders
  <2>3. TasksInTime'
    BY <1>1 DEF PermitInv, vars, TasksInTime
  <2> QED BY <2>1, <2>2, <2>3 DEF PermitInv
<1>2. ASSUME PermitInv, Next PROVE PermitInv'
  <2>1. TypeInv'
    BY <1>2, TypesKept DEF PermitInv
  <2>2. GateCounts' /\ TasksInTime'
    BY <1>2, NextCases, PermitCall, PermitRead, PermitTask, PermitNarumi, PermitTick
  <2> QED BY <2>1, <2>2 DEF PermitInv
<1> QED BY <1>1, <1>2

\* At the start every permit is free.
LEMMA PermitsBegin == Init => PermitInv
<1> SUFFICES ASSUME Init PROVE PermitInv
  OBVIOUS
<1>1. TypeInv
  BY InitTyped
<1>2. \A s : Holders(s) = {}
  BY DEF Init, AtRest, Holders
<1>3. GateCounts
  BY <1>2, FS_EmptySet, LimitIsNat DEF Init, GateCounts, GateLimit
<1>4. \A c \in Callers : fetch[c].pc = "none" /\ call[c].pc = "idle"
  BY DEF Init, AtRest, NoFetch
<1>5. TasksInTime
  BY <1>4 DEF TasksInTime, Alive, WithChild
<1> QED BY <1>1, <1>3, <1>5 DEF PermitInv

\* Every permit comes back, none too early: no more calls resolve than the gate admits,
\* and no child of narumi outlives the permit of its call - because the grace the call
\* grants its task is longer than what the task waits for its child.
THEOREM PermitsAreCovered == Spec => []PermitsCovered
<1>1. Init => PermitInv
  BY PermitsBegin
<1>2. PermitInv => PermitsCovered
  <2> SUFFICES ASSUME PermitInv, NEW c \in Callers, fetch[c].pc \in WithChild
               PROVE  c \in Holders("narumi")
    BY DEF PermitsCovered, ChildUnderPermit, PermitInv
  <2>1. call[c].pc = "receiving" /\ call[c].system = "narumi"
    BY DEF PermitInv, TasksInTime, TypeInv, Placed, Alive
  <2> QED BY <2>1 DEF Holders
<1> QED BY <1>1, <1>2, PermitsKept, PTL DEF Spec

-----------------------------------------------------------------------------
(* How long a call takes. *)

\* The safety half of AnswersInTime, and the same of a call that waits for narumi.
NobodyOverstays ==
    \A c \in Callers :
        /\ UrlWithinBudget(c)
        /\ call[c].pc = "receiving" => since[c] <= call[c].section.timeout + Grace

\* Every hop is called with what the first one had: the chain has one deadline.
PageTimed(x, now) ==
    /\ x.pc \in Requesting \cup {"checking"} => x.deadline \in Nat /\ now <= x.deadline
    /\ x.pc \in Requesting => x.due = x.deadline

WaitTimed(x, now) == x.pc = "receiving" => now <= x.section.timeout + Grace

\* Who works at a call has no task of the call before.
TasksAreOver ==
    \A c \in Callers :
        call[c].pc \in {"found", "ready", "resolving"} => fetch[c].pc \notin Fetching

TimeInv ==
    /\ PermitInv
    /\ TasksAreOver
    /\ \A c \in Callers : PageTimed(page[c], since[c]) /\ WaitTimed(call[c], since[c])

\* One fetch moves on, within the time it was given.
LEMMA UrlsTimed ==
    ASSUME TimeInv, NEW c \in Callers, FetchAUrl(c)
    PROVE  \A d \in Callers : PageTimed(page[d], since[d])' /\ WaitTimed(call[d], since[d])'
<1> USE DEF TimeInv, PermitInv, TypeInv, Types
<1> DEFINE Goal == \E x : /\ page' = [page EXCEPT ![c] = x]
                          /\ PageTimed(x, since[c]) /\ since' = since
<1>1. call' = call /\ call[c].pc = "resolving"
  BY DEF FetchAUrl, Resolving
<1>2. ASSUME NEW o, Ended(c, o), since' = since PROVE Goal
  <2>1. page' = [page EXCEPT ![c] = [pc |-> "done", outcome |-> o]]
    BY <1>2 DEF Ended
  <2>2. PageTimed([pc |-> "done", outcome |-> o], since[c])
    BY DEF PageTimed, Requesting
  <2> QED BY <1>2, <2>1, <2>2
<1>3. CASE BeginFetch(c, call[c].section.allow, call[c].section.timeout)
  <2>1. since' = [since EXCEPT ![c] = 0]
    BY <1>3 DEF BeginFetch
  <2>2. call[c].section.timeout \in Nat
    <3>1. call[c] \in CallStates /\ call[c].system = "url"
      BY DEF FetchAUrl, Resolving
    <3> QED BY <1>1, <3>1, CallCases, SettingsAreTyped
  <2>3. \E x : page' = [page EXCEPT ![c] = x] /\ PageTimed(x, 0)
    <3>1. ASSUME NEW url \in Urls,
                 page' = [page EXCEPT ![c] =
                    [pc |-> "checking", url |-> url, allow |-> call[c].section.allow,
                     hops |-> 0, deadline |-> call[c].section.timeout]]
          PROVE  \E x : page' = [page EXCEPT ![c] = x] /\ PageTimed(x, 0)
      <4> PICK x : x = [pc |-> "checking", url |-> url, allow |-> call[c].section.allow,
                        hops |-> 0, deadline |-> call[c].section.timeout]
        OBVIOUS
      <4>1. x.pc = "checking" /\ x.deadline = call[c].section.timeout
        OBVIOUS
      <4>2. PageTimed(x, 0)
        BY <2>2, <4>1 DEF PageTimed, Requesting
      <4> QED BY <3>1, <4>2
    <3>2. ASSUME NEW o, Ended(c, o)
          PROVE  \E x : page' = [page EXCEPT ![c] = x] /\ PageTimed(x, 0)
      <4>1. PageTimed([pc |-> "done", outcome |-> o], 0)
        BY DEF PageTimed, Requesting
      <4> QED BY <3>2, <4>1 DEF Ended
    <3> QED BY <1>3, <3>1, <3>2 DEF BeginFetch
  <2>4. PICK x : page' = [page EXCEPT ![c] = x] /\ PageTimed(x, 0)
    BY <2>3
  <2>5. ASSUME NEW d \in Callers PROVE PageTimed(page'[d], since'[d])
    BY <2>1, <2>4
  <2>6. ASSUME NEW d \in Callers PROVE WaitTimed(call'[d], since'[d])
    BY <1>1, <2>1 DEF WaitTimed
  <2> QED BY <2>5, <2>6 DEF PageTimed, WaitTimed
<1>4. CASE FetchStep(c)
  <2>1. ASSUME CheckHop(c) PROVE Goal
    <3>1. since' = since /\ page[c].pc = "checking"
      BY <2>1 DEF CheckHop
    <3>2. ASSUME Calling(c, page[c].deadline) PROVE Goal
      <4> PICK x : x = [pc |-> "calling", url |-> page[c].url, hops |-> page[c].hops,
                        allow |-> page[c].allow, deadline |-> page[c].deadline,
                        due |-> page[c].deadline]
        OBVIOUS
      <4>1. x.pc = "calling" /\ x.deadline = page[c].deadline /\ x.due = x.deadline
        OBVIOUS
      <4>2. page' = [page EXCEPT ![c] = x]
        BY <3>2 DEF Calling
      <4>3. PageTimed(x, since[c])
        BY <3>1, <4>1 DEF PageTimed, Requesting
      <4> QED BY <3>1, <4>2, <4>3
    <3>3. \/ \E what : Ended(c, Failed(what))
          \/ Calling(c, page[c].deadline)
      BY <2>1 DEF CheckHop
    <3> QED BY <1>2, <3>1, <3>2, <3>3
  <2>2. ASSUME Connect(c) PROVE Goal
    <3>1. since' = since /\ page[c].pc = "calling"
      BY <2>2 DEF Connect
    <3>2. ASSUME NEW ip, Connected(c, ip) PROVE Goal
      <4> PICK x : x = [pc |-> "connected", url |-> page[c].url, hops |-> page[c].hops,
                        allow |-> page[c].allow, deadline |-> page[c].deadline,
                        due |-> page[c].due, ip |-> ip]
        OBVIOUS
      <4>1. x.pc = "connected" /\ x.deadline = page[c].deadline /\ x.due = page[c].due
        OBVIOUS
      <4>2. page' = [page EXCEPT ![c] = x]
        BY <3>2 DEF Connected
      <4>3. PageTimed(x, since[c])
        BY <3>1, <4>1 DEF PageTimed, Requesting
      <4> QED BY <3>1, <4>2, <4>3
    <3>3. \/ \E what : Ended(c, Failed(what))
          \/ \E ip : Connected(c, ip)
      BY <2>2 DEF Connect, Resolves
    <3> QED BY <1>2, <3>1, <3>2, <3>3
  <2>3. ASSUME Redirect(c) PROVE Goal
    <3>1. since' = since /\ page[c].pc = "connected"
      BY <2>3 DEF Redirect
    <3>2. ASSUME NEW url \in Urls,
                 page' = [page EXCEPT ![c] =
                    [pc |-> "checking", url |-> url, allow |-> page[c].allow,
                     hops |-> page[c].hops + 1, deadline |-> page[c].deadline]]
          PROVE  Goal
      <4> PICK x : x = [pc |-> "checking", url |-> url, allow |-> page[c].allow,
                        hops |-> page[c].hops + 1, deadline |-> page[c].deadline]
        OBVIOUS
      <4>1. x.pc = "checking" /\ x.deadline = page[c].deadline
        OBVIOUS
      <4>2. PageTimed(x, since[c])
        BY <3>1, <4>1 DEF PageTimed, Requesting
      <4> QED BY <3>1, <3>2, <4>2
    <3>3. \/ \E what : Ended(c, Failed(what))
          \/ \E url \in Urls :
                page' = [page EXCEPT ![c] =
                    [pc |-> "checking", url |-> url, allow |-> page[c].allow,
                     hops |-> page[c].hops + 1, deadline |-> page[c].deadline]]
      BY <2>3 DEF Redirect
    <3> QED BY <1>2, <3>1, <3>2, <3>3
  <2>4. ASSUME Respond(c) PROVE Goal
    <3>1. since' = since /\ page[c].pc = "connected"
      BY <2>4 DEF Respond
    <3>2. ASSUME page' = [page EXCEPT ![c].pc = "reading"] PROVE Goal
      <4> PICK x : x = [page[c] EXCEPT !.pc = "reading"]
        OBVIOUS
      <4>1. x.pc = "reading" /\ x.deadline = page[c].deadline /\ x.due = page[c].due
        BY <3>1 DEF PageTyped
      <4>2. PageTimed(x, since[c])
        BY <3>1, <4>1 DEF PageTimed, Requesting
      <4> QED BY <3>1, <3>2, <4>2
    <3>3. \/ \E what : Ended(c, Failed(what))
          \/ page' = [page EXCEPT ![c].pc = "reading"]
      BY <2>4 DEF Respond
    <3> QED BY <1>2, <3>1, <3>2, <3>3
  <2>5. ASSUME ReadBody(c) PROVE Goal
    BY <1>2, <2>5 DEF ReadBody
  <2>6. PICK x : page' = [page EXCEPT ![c] = x] /\ PageTimed(x, since[c]) /\ since' = since
    BY <1>4, <2>1, <2>2, <2>3, <2>4, <2>5 DEF FetchStep
  <2>7. ASSUME NEW d \in Callers PROVE PageTimed(page'[d], since'[d])
    BY <2>6
  <2>8. ASSUME NEW d \in Callers PROVE WaitTimed(call'[d], since'[d])
    BY <1>1, <2>6
  <2> QED BY <2>7, <2>8 DEF PageTimed, WaitTimed
<1> QED BY <1>3, <1>4 DEF FetchAUrl

\* The other steps that move a call: no clock moves, and it waits for nothing afterwards.
LEMMA OthersTimed ==
    ASSUME TimeInv, NEW c \in Callers,
           NEW x, call' = [call EXCEPT ![c] = x], x.pc # "receiving", UNCHANGED <<page, since>>
    PROVE  \A d \in Callers : PageTimed(page[d], since[d])' /\ WaitTimed(call[d], since[d])'
<1> USE DEF TimeInv, PermitInv, TypeInv, Types
<1>1. ASSUME NEW d \in Callers PROVE PageTimed(page'[d], since'[d])
  OBVIOUS
<1>2. ASSUME NEW d \in Callers PROVE WaitTimed(call'[d], since'[d])
  BY DEF WaitTimed
<1> QED BY <1>1, <1>2 DEF PageTimed, WaitTimed

\* A call ends its fetch, and its clock begins anew.
LEMMA EndsTimed ==
    ASSUME TimeInv, NEW c \in Callers,
           NEW x, call' = [call EXCEPT ![c] = x], x.pc # "receiving",
           since' = [since EXCEPT ![c] = 0], page' \in {page, [page EXCEPT ![c] = NoPage]},
           page[c] = NoPage \/ page' # page
    PROVE  \A d \in Callers : PageTimed(page[d], since[d])' /\ WaitTimed(call[d], since[d])'
<1> USE DEF TimeInv, PermitInv, TypeInv, Types
<1>1. page'[c] = NoPage /\ \A d \in Callers \ {c} : page'[d] = page[d]
  OBVIOUS
<1>2. PageTimed(NoPage, 0)
  BY DEF PageTimed, NoPage, Requesting
<1>3. ASSUME NEW d \in Callers PROVE PageTimed(page'[d], since'[d])
  BY <1>1, <1>2
<1>4. ASSUME NEW d \in Callers PROVE WaitTimed(call'[d], since'[d])
  BY DEF WaitTimed
<1> QED BY <1>3, <1>4 DEF PageTimed, WaitTimed

\* A call begins to wait for its task.
LEMMA SpawnTimed ==
    ASSUME TimeInv, NEW c \in Callers, SpawnFetch(c)
    PROVE  \A d \in Callers : PageTimed(page[d], since[d])' /\ WaitTimed(call[d], since[d])'
<1> USE DEF TimeInv, PermitInv, TypeInv, Types
<1>1. /\ call[c].pc = "resolving" /\ call[c].system = "narumi" /\ page' = page
      /\ since' = [since EXCEPT ![c] = 0] /\ call' = [call EXCEPT ![c].pc = "receiving"]
  BY DEF SpawnFetch, Resolving
<1>2. page[c] = NoPage
  BY <1>1 DEF Placed, Resolving
<1>3. PageTimed(NoPage, 0)
  BY DEF PageTimed, NoPage, Requesting
<1>4. ASSUME NEW d \in Callers PROVE PageTimed(page'[d], since'[d])
  BY <1>1, <1>2, <1>3
<1> PICK x : x = [call[c] EXCEPT !.pc = "receiving"]
  OBVIOUS
<1>5. x.section = call[c].section /\ call[c].section.timeout \in Nat
  BY <1>1, CallCases, SettingsAreTyped
<1>6. WaitTimed(x, 0)
  BY <1>5, TimesAreNat DEF WaitTimed
<1>7. ASSUME NEW d \in Callers PROVE WaitTimed(call'[d], since'[d])
  BY <1>1, <1>6
<1> QED BY <1>4, <1>7 DEF PageTimed, WaitTimed

\* The clock moves on while nothing is due.
LEMMA TickTimed ==
    ASSUME TimeInv, Tick
    PROVE  \A d \in Callers : PageTimed(page[d], since[d])' /\ WaitTimed(call[d], since[d])'
<1> USE DEF TimeInv, PermitInv, TypeInv, Types
<1>1. UNCHANGED <<call, page, fetch>>
  BY DEF Tick
<1>2. ASSUME NEW d \in Callers PROVE PageTimed(page'[d], since'[d])
  <2>1. CASE page[d].pc \notin Requesting \cup {"checking"}
    BY <1>1, <2>1 DEF PageTimed
  <2>2. CASE page[d].pc \in Requesting \cup {"checking"}
    <3>1. Timed(d) /\ page[d].deadline \in Nat
      BY <2>2 DEF Timed, PageTimed
    <3>2. since[d] < Latest(d) /\ since'[d] = since[d] + 1
      BY <3>1 DEF Tick
    <3>0. fetch[d].pc \notin Fetching
      <4>1. page[d] # NoPage
        BY <2>2 DEF NoPage, Requesting
      <4> QED BY <4>1 DEF Placed, Resolving, TasksAreOver
    <3>3. Latest(d) = page[d].deadline
      <4>1. CASE page[d].pc \in Requesting
        BY <3>0, <4>1 DEF Latest, PageTimed, Requesting, Fetching, WithChild
      <4>2. CASE page[d].pc = "checking"
        BY <3>0, <4>2 DEF Latest, Requesting, Fetching, WithChild
      <4> QED BY <2>2, <4>1, <4>2
    <3>4. since'[d] <= page[d].deadline
      BY <3>1, <3>2, <3>3
    <3>5. page[d].pc \in Requesting => page[d].due = page[d].deadline
      BY DEF PageTimed
    <3> QED BY <1>1, <3>1, <3>4, <3>5 DEF PageTimed
  <2> QED BY <2>1, <2>2
<1>3. ASSUME NEW d \in Callers, call[d].pc = "receiving"
      PROVE  since'[d] <= call[d].section.timeout + Grace
  <2>1. Timed(d)
    BY <1>3 DEF Timed
  <2>2. since[d] < Latest(d) /\ since'[d] = since[d] + 1 /\ fetch[d].pc # "sent"
    BY <2>1 DEF Tick
  <2>3. fetch[d].pc \in Fetching
    BY <1>3, <2>2 DEF Placed
  <2>4. fetch[d].timeout = call[d].section.timeout
    BY <1>3, <2>3 DEF TasksInTime
  <2> PICK limit : limit = fetch[d].timeout
    OBVIOUS
  <2>5. limit \in Nat
    BY <2>3, FetchCases DEF Fetching, WithChild, NoFetch
  <2>6. Latest(d) \in {limit, limit + CancelWait, limit + Grace}
    BY <1>3, <2>3, NotFetching DEF Latest, Fetching, WithChild
  <2>7. since'[d] <= limit + Grace
    BY <2>2, <2>5, <2>6, TimesAreNat, GraceCoversCancel
  <2> QED BY <2>4, <2>7
<1>4. ASSUME NEW d \in Callers PROVE WaitTimed(call'[d], since'[d])
  BY <1>1, <1>3 DEF WaitTimed
<1> QED BY <1>2, <1>4 DEF PageTimed, WaitTimed

\* A call begins only when the task of the one before is over.
LEMMA TasksOverKept ==
    ASSUME PermitInv, TasksAreOver, [Next]_vars
    PROVE  TasksAreOver'
<1> USE DEF PermitInv, TypeInv, Types
<1>1. ASSUME NEW c \in Callers, NEW x, call' = [call EXCEPT ![c] = x], fetch' = fetch,
             x.pc \in {"found", "ready", "resolving"} =>
                \/ fetch[c].pc \notin Fetching
                \/ call[c].pc \in {"found", "ready", "resolving"}
      PROVE  TasksAreOver'
  BY <1>1 DEF TasksAreOver
<1>2. ASSUME call' = call, fetch' = fetch PROVE TasksAreOver'
  BY <1>2 DEF TasksAreOver
<1>3. ASSUME NEW c \in Callers, fetch[c].pc \in Fetching, call' = call,
             \A d \in Callers \ {c} : fetch'[d] = fetch[d]
      PROVE  TasksAreOver'
  BY <1>3 DEF TasksAreOver
<1>4. ASSUME NEW c \in Callers, Answered(c), fetch' = fetch PROVE TasksAreOver'
  <2>1. AtRest.pc = "idle"
    BY DEF AtRest
  <2> QED BY <1>1, <1>4, <2>1 DEF Answered
<1>5. ASSUME NEW c \in Callers, NEW o, Goes(c, o), fetch' = fetch PROVE TasksAreOver'
  <2>1. [pc |-> "answering", system |-> call[c].system, answer |-> o].pc = "answering"
    OBVIOUS
  <2> QED BY <1>1, <1>5, <2>1 DEF Goes
<1>6. ASSUME NEW c \in Callers, NEW o, Resolved(c, o), fetch' = fetch PROVE TasksAreOver'
  <2>1. PICK x : call' = [call EXCEPT ![c] = x] /\ x.pc = "answering"
    BY <1>6, ResolvedMoves
  <2> QED BY <1>1, <1>6, <2>1
<1>7. ASSUME NEW c \in Callers, NEW s \in Systems \cup Foreign, FindReference(c, s)
      PROVE  TasksAreOver'
  <2>1. [pc |-> "found", system |-> s].pc = "found"
    OBVIOUS
  <2> QED BY <1>1, <1>4, <1>7, <2>1 DEF FindReference, resolvers
<1>8. ASSUME NEW c \in Callers, ReadSettings(c) PROVE TasksAreOver'
  <2>1. \A section : [pc |-> "ready", system |-> call[c].system, section |-> section].pc = "ready"
    OBVIOUS
  <2> QED BY <1>1, <1>4, <1>8, <2>1 DEF ReadSettings, resolvers
<1>9. ASSUME NEW c \in Callers, Acquire(c) PROVE TasksAreOver'
  <2>1. call[c].pc = "ready" /\ fetch' = fetch
    BY <1>9 DEF Acquire, resolvers
  <2>2. CASE Answered(c)
    BY <1>4, <2>1, <2>2
  <2>3. CASE call' = [call EXCEPT ![c].pc = "resolving"]
    BY <1>1, <2>1, <2>3
  <2> QED BY <1>9, <2>2, <2>3 DEF Acquire
<1>10. ASSUME NEW c \in Callers, Deliver(c) PROVE TasksAreOver'
  BY <1>4, <1>10 DEF Deliver, resolvers
<1>11. ASSUME NEW c \in Callers, FileDone(c) \/ UrlDone(c) PROVE TasksAreOver'
  BY <1>6, <1>11 DEF FileDone, UrlDone
<1>12. ASSUME NEW c \in Callers, ReadAFile(c) \/ FetchAUrl(c) PROVE TasksAreOver'
  BY <1>2, <1>12 DEF ReadAFile, FetchAUrl
<1>13. ASSUME NEW c \in Callers, StartChild(c) \/ Handshake(c) \/ Ask(c) \/ Cancel(c) \/ Reap(c)
       PROVE  TasksAreOver'
  BY <1>3, <1>13 DEF StartChild, Handshake, Ask, Cancel, Reap, Moves, Sends, Cancels, Fetching,
     WithChild
<1>14. ASSUME NEW c \in Callers, RefuseUri(c) \/ GiveUp(c) PROVE TasksAreOver'
  BY <1>5, <1>14 DEF RefuseUri, GiveUp, resolvers
<1>15. ASSUME NEW c \in Callers, SpawnFetch(c) PROVE TasksAreOver'
  <2>1. /\ call' = [call EXCEPT ![c].pc = "receiving"] /\ call[c].pc = "resolving"
        /\ \A d \in Callers \ {c} : fetch'[d] = fetch[d]
    BY <1>15 DEF SpawnFetch, Resolving
  <2>2. call'[c].pc = "receiving"
    BY <2>1, CallCases
  <2> QED BY <2>1, <2>2 DEF TasksAreOver
<1>16. ASSUME NEW c \in Callers, Receive(c) PROVE TasksAreOver'
  <2>1. PICK x : call' = [call EXCEPT ![c] = x] /\ x.pc = "answering"
    BY <1>16, ResolvedMoves DEF Receive
  <2>2. \A d \in Callers \ {c} : fetch'[d] = fetch[d]
    BY <1>16 DEF Receive
  <2> QED BY <2>1, <2>2 DEF TasksAreOver
<1>17. CASE Tick
  BY <1>2, <1>17 DEF Tick
<1>18. CASE UNCHANGED vars
  BY <1>2, <1>18 DEF vars
<1>19. CASE Next
  BY <1>19, <1>7, <1>8, <1>9, <1>10, <1>11, <1>12, <1>13, <1>14, <1>15, <1>16, <1>17, NextCases
<1> QED BY <1>18, <1>19

LEMMA TimeKept == TimeInv /\ [Next]_vars => TimeInv'
<1> SUFFICES ASSUME TimeInv, [Next]_vars
             PROVE  TimeInv'
  OBVIOUS
<1> DEFINE Goal == \A d \in Callers : PageTimed(page[d], since[d])' /\ WaitTimed(call[d], since[d])'
<1>1. PermitInv'
  BY PermitsKept DEF TimeInv
<1>2. TypeInv
  BY DEF TimeInv, PermitInv
<1>3. ASSUME UNCHANGED <<call, page, since>> PROVE Goal
  BY <1>3 DEF TimeInv, PageTimed, WaitTimed
<1>4. ASSUME NEW c \in Callers, NEW o, Resolved(c, o)
      PROVE  \E x : call' = [call EXCEPT ![c] = x] /\ x.pc # "receiving"
  BY <1>4, ResolvedMoves
<1>5. ASSUME NEW c \in Callers, Answered(c)
      PROVE  \E x : call' = [call EXCEPT ![c] = x] /\ x.pc # "receiving"
  <2>1. AtRest.pc # "receiving"
    BY DEF AtRest
  <2> QED BY <1>5, <2>1 DEF Answered
<1>6. ASSUME NEW c \in Callers, NEW o, Goes(c, o)
      PROVE  \E x : call' = [call EXCEPT ![c] = x] /\ x.pc # "receiving"
  <2>1. [pc |-> "answering", system |-> call[c].system, answer |-> o].pc # "receiving"
    OBVIOUS
  <2> QED BY <1>6, <2>1 DEF Goes
<1>7. ASSUME NEW c \in Callers,
             \/ \E s \in Systems \cup Foreign : FindReference(c, s)
             \/ ReadSettings(c) \/ Acquire(c) \/ Deliver(c) \/ FileDone(c)
             \/ RefuseUri(c) \/ GiveUp(c)
      PROVE  Goal
  <2>1. UNCHANGED <<page, since>>
    BY <1>7 DEF FindReference, ReadSettings, Acquire, Deliver, FileDone, RefuseUri, GiveUp, resolvers
  <2>2. \E x : call' = [call EXCEPT ![c] = x] /\ x.pc # "receiving"
    <3>1. ASSUME NEW s \in Systems \cup Foreign, FindReference(c, s)
          PROVE  \E x : call' = [call EXCEPT ![c] = x] /\ x.pc # "receiving"
      <4>1. [pc |-> "found", system |-> s].pc # "receiving"
        OBVIOUS
      <4> QED BY <1>5, <3>1, <4>1 DEF FindReference
    <3>2. ASSUME ReadSettings(c)
          PROVE  \E x : call' = [call EXCEPT ![c] = x] /\ x.pc # "receiving"
      <4>1. \A section : [pc |-> "ready", system |-> call[c].system,
                          section |-> section].pc # "receiving"
        OBVIOUS
      <4> QED BY <1>5, <3>2, <4>1 DEF ReadSettings
    <3>3. ASSUME Acquire(c)
          PROVE  \E x : call' = [call EXCEPT ![c] = x] /\ x.pc # "receiving"
      <4>1. call[c] \in CallStates /\ call[c].pc = "ready"
        BY <1>2, <3>3 DEF TypeInv, Types, Acquire
      <4>2. [call[c] EXCEPT !.pc = "resolving"].pc = "resolving"
        BY <4>1, CallCases
      <4> QED BY <1>5, <3>3, <4>2 DEF Acquire
    <3>4. CASE Deliver(c)
      BY <1>5, <3>4 DEF Deliver
    <3>5. CASE FileDone(c)
      BY <1>4, <3>5 DEF FileDone
    <3>6. CASE RefuseUri(c) \/ GiveUp(c)
      BY <1>6, <3>6 DEF RefuseUri, GiveUp
    <3> QED BY <1>7, <3>1, <3>2, <3>3, <3>4, <3>5, <3>6
  <2> QED BY <2>1, <2>2, OthersTimed
<1>8. ASSUME NEW c \in Callers, ReadAFile(c) PROVE Goal
  BY <1>3, <1>8 DEF ReadAFile
<1>9. ASSUME NEW c \in Callers, StartChild(c) \/ Handshake(c) \/ Ask(c) \/ Cancel(c) \/ Reap(c)
      PROVE  Goal
  BY <1>3, <1>9 DEF StartChild, Handshake, Ask, Cancel, Reap, Moves, Sends, Cancels
<1>10. ASSUME NEW c \in Callers, UrlDone(c) PROVE Goal
  <2>1. PICK x : call' = [call EXCEPT ![c] = x] /\ x.pc # "receiving"
    BY <1>4, <1>10 DEF UrlDone
  <2>2. page[c] # NoPage /\ page'[c] = NoPage
    BY <1>2, <1>10 DEF UrlDone, NoPage, TypeInv, Types
  <2> QED BY <1>10, <2>1, <2>2, EndsTimed DEF UrlDone
<1>11. ASSUME NEW c \in Callers, Receive(c) PROVE Goal
  <2>1. PICK x : call' = [call EXCEPT ![c] = x] /\ x.pc # "receiving"
    BY <1>4, <1>11 DEF Receive
  <2>2. page[c] = NoPage
    BY <1>2, <1>11 DEF Receive, TypeInv, Placed, Resolving
  <2> QED BY <1>11, <2>1, <2>2, EndsTimed DEF Receive
<1>12. Goal
  <2>1. CASE UNCHANGED vars
    BY <1>3, <2>1 DEF vars
  <2>2. CASE Next
    BY <2>2, <1>7, <1>8, <1>9, <1>10, <1>11, NextCases, UrlsTimed, SpawnTimed, TickTimed
  <2> QED BY <2>1, <2>2
<1>13. TasksAreOver'
  BY TasksOverKept DEF TimeInv
<1> QED BY <1>1, <1>12, <1>13 DEF TimeInv

\* A url with all its redirects takes no longer than the timeout of its settings, however
\* the servers behave, and no call waits for narumi longer than its timeout and the grace.
THEOREM NoCallOverstays == Spec => []NobodyOverstays
<1>1. Init => TimeInv
  <2> SUFFICES ASSUME Init PROVE TimeInv
    OBVIOUS
  <2>1. PermitInv
    BY PermitsBegin
  <2>2. \A c \in Callers : page[c] = NoPage /\ call[c] = AtRest
    BY DEF Init, UrlInit
  <2> QED BY <2>1, <2>2 DEF TimeInv, PageTimed, WaitTimed, TasksAreOver, NoPage, AtRest, Requesting
<1>2. TimeInv => NobodyOverstays
  BY DEF TimeInv, PageTimed, WaitTimed, NobodyOverstays, UrlWithinBudget
<1> QED BY <1>1, <1>2, TimeKept, PTL DEF Spec

-----------------------------------------------------------------------------
(* The tables of blocks hold the reserved ranges, part by part of an       *)
(* address.                                                                *)

\* What InBlock says of one part of an address.
PartAgrees(ip, block, width, i) ==
    LET bits == block.prefix - (i - 1) * width
        rest == 2 ^ (width - bits)
    IN  \/ bits <= 0
        \/ bits >= width /\ ip[i] = block.network[i]
        \/ bits \in 1..(width - 1) /\ ip[i] \div rest = block.network[i] \div rest

\* A function on 1..n is a sequence of length n.
LEMMA LengthOf ==
  ASSUME NEW n \in Nat, NEW S, NEW ip \in [1..n -> S]
  PROVE  Len(ip) = n
  OBVIOUS

\* The bounds of octets and words.
LEMMA PartsAreNat ==
  /\ \A o \in Octet : o \in Nat /\ o <= 255
  /\ \A o \in Word : o \in Nat /\ o <= 65535
<1>1. \A o \in Octet : o \in Nat /\ o <= 255
  BY DEF Octet
<1>2. \A o \in Word : o \in Nat /\ o <= 65535
  BY DEF Word
<1> QED BY <1>1, <1>2

\* The parts of an address are octets, or words, and a block is one of all its parts.
LEMMA V4Parts ==
  ASSUME NEW ip \in AddressesV4
  PROVE  /\ Len(ip) = 4
         /\ \A i \in {1, 2, 3, 4} : ip[i] \in Nat /\ ip[i] <= 255
         /\ \A b : InBlock(ip, b, 8) <=> \A i \in {1, 2, 3, 4} : PartAgrees(ip, b, 8, i)
<1>1. Len(ip) = 4
  BY LengthOf DEF AddressesV4
<1>2. 1..4 = {1, 2, 3, 4}
  OBVIOUS
<1>3. \A i \in {1, 2, 3, 4} : ip[i] \in Octet
  BY <1>2 DEF AddressesV4
<1>4. \A o \in Octet : o \in Nat /\ o <= 255
  BY PartsAreNat
<1>5. \A b : InBlock(ip, b, 8) <=> \A i \in 1..4 : PartAgrees(ip, b, 8, i)
  BY <1>1 DEF InBlock, PartAgrees
<1> QED BY <1>1, <1>2, <1>3, <1>4, <1>5

LEMMA V6Parts ==
  ASSUME NEW ip \in AddressesV6
  PROVE  /\ Len(ip) = 8
         /\ \A i \in {1, 2, 3, 4, 5, 6, 7, 8} : ip[i] \in Nat /\ ip[i] <= 65535
         /\ \A b : InBlock(ip, b, 16) <=>
               \A i \in {1, 2, 3, 4, 5, 6, 7, 8} : PartAgrees(ip, b, 16, i)
<1>1. Len(ip) = 8
  BY LengthOf DEF AddressesV6
<1>2. 1..8 = {1, 2, 3, 4, 5, 6, 7, 8}
  OBVIOUS
<1>3. \A i \in {1, 2, 3, 4, 5, 6, 7, 8} : ip[i] \in Word
  BY <1>2 DEF AddressesV6
<1>4. \A o \in Word : o \in Nat /\ o <= 65535
  BY PartsAreNat
<1>5. \A b : InBlock(ip, b, 16) <=> \A i \in 1..8 : PartAgrees(ip, b, 16, i)
  BY <1>1 DEF InBlock, PartAgrees
<1> QED BY <1>1, <1>2, <1>3, <1>4, <1>5

\* A block of whole octets.
LEMMA WholeParts ==
  ASSUME NEW ip \in AddressesV4, NEW net
  PROVE  /\ InBlock(ip, Block(net, 8), 8) <=> ip[1] = net[1]
         /\ InBlock(ip, Block(net, 16), 8) <=> ip[1] = net[1] /\ ip[2] = net[2]
         /\ InBlock(ip, Block(net, 24), 8) <=>
               ip[1] = net[1] /\ ip[2] = net[2] /\ ip[3] = net[3]
<1>1. InBlock(ip, Block(net, 8), 8) <=> ip[1] = net[1]
  BY V4Parts DEF PartAgrees, Block
<1>2. InBlock(ip, Block(net, 16), 8) <=> ip[1] = net[1] /\ ip[2] = net[2]
  BY V4Parts DEF PartAgrees, Block
<1>3. InBlock(ip, Block(net, 24), 8) <=>
               ip[1] = net[1] /\ ip[2] = net[2] /\ ip[3] = net[3]
  BY V4Parts DEF PartAgrees, Block
<1> QED BY <1>1, <1>2, <1>3

\* A block that ends within an octet.
LEMMA SplitParts ==
  ASSUME NEW ip \in AddressesV4
  PROVE  /\ InBlock(ip, Block(<<100, 64, 0, 0>>, 10), 8) <=> ip[1] = 100 /\ ip[2] \in 64..127
         /\ InBlock(ip, Block(<<172, 16, 0, 0>>, 12), 8) <=> ip[1] = 172 /\ ip[2] \in 16..31
         /\ InBlock(ip, Block(<<198, 18, 0, 0>>, 15), 8) <=> ip[1] = 198 /\ ip[2] \in {18, 19}
         /\ InBlock(ip, Block(<<224, 0, 0, 0>>, 4), 8) <=> ip[1] \in 224..239
         /\ InBlock(ip, Block(<<240, 0, 0, 0>>, 4), 8) <=> ip[1] \in 240..255
<1>1. InBlock(ip, Block(<<100, 64, 0, 0>>, 10), 8) <=> ip[1] = 100 /\ ip[2] \in 64..127
  <2> DEFINE b == Block(<<100, 64, 0, 0>>, 10)
  <2>1. b.prefix = 10 /\ b.network[1] = 100 /\ b.network[2] = 64
    BY DEF Block
  <2> HIDE DEF b
  <2>2. \A i \in {1, 2, 3, 4} : ip[i] \in Nat /\ ip[i] <= 255
    BY V4Parts
  <2>3. PartAgrees(ip, b, 8, 1) <=> ip[1] = 100
    BY <2>1, <2>2 DEF PartAgrees
  <2>4. PartAgrees(ip, b, 8, 2) <=> ip[2] \in 64..127
    BY <2>1, <2>2 DEF PartAgrees
  <2>5. PartAgrees(ip, b, 8, 3) /\ PartAgrees(ip, b, 8, 4)
    BY <2>1 DEF PartAgrees
  <2>6. InBlock(ip, b, 8) <=> \A i \in {1, 2, 3, 4} : PartAgrees(ip, b, 8, i)
    BY V4Parts
  <2> QED BY <2>3, <2>4, <2>5, <2>6 DEF b
<1>2. InBlock(ip, Block(<<172, 16, 0, 0>>, 12), 8) <=> ip[1] = 172 /\ ip[2] \in 16..31
  <2> DEFINE b == Block(<<172, 16, 0, 0>>, 12)
  <2>1. b.prefix = 12 /\ b.network[1] = 172 /\ b.network[2] = 16
    BY DEF Block
  <2> HIDE DEF b
  <2>2. \A i \in {1, 2, 3, 4} : ip[i] \in Nat /\ ip[i] <= 255
    BY V4Parts
  <2>3. PartAgrees(ip, b, 8, 1) <=> ip[1] = 172
    BY <2>1, <2>2 DEF PartAgrees
  <2>4. PartAgrees(ip, b, 8, 2) <=> ip[2] \in 16..31
    BY <2>1, <2>2 DEF PartAgrees
  <2>5. PartAgrees(ip, b, 8, 3) /\ PartAgrees(ip, b, 8, 4)
    BY <2>1 DEF PartAgrees
  <2>6. InBlock(ip, b, 8) <=> \A i \in {1, 2, 3, 4} : PartAgrees(ip, b, 8, i)
    BY V4Parts
  <2> QED BY <2>3, <2>4, <2>5, <2>6 DEF b
<1>3. InBlock(ip, Block(<<198, 18, 0, 0>>, 15), 8) <=> ip[1] = 198 /\ ip[2] \in {18, 19}
  <2> DEFINE b == Block(<<198, 18, 0, 0>>, 15)
  <2>1. b.prefix = 15 /\ b.network[1] = 198 /\ b.network[2] = 18
    BY DEF Block
  <2> HIDE DEF b
  <2>2. \A i \in {1, 2, 3, 4} : ip[i] \in Nat /\ ip[i] <= 255
    BY V4Parts
  <2>3. PartAgrees(ip, b, 8, 1) <=> ip[1] = 198
    BY <2>1, <2>2 DEF PartAgrees
  <2>4. PartAgrees(ip, b, 8, 2) <=> ip[2] \in {18, 19}
    BY <2>1, <2>2 DEF PartAgrees
  <2>5. PartAgrees(ip, b, 8, 3) /\ PartAgrees(ip, b, 8, 4)
    BY <2>1 DEF PartAgrees
  <2>6. InBlock(ip, b, 8) <=> \A i \in {1, 2, 3, 4} : PartAgrees(ip, b, 8, i)
    BY V4Parts
  <2> QED BY <2>3, <2>4, <2>5, <2>6 DEF b
<1>4. InBlock(ip, Block(<<224, 0, 0, 0>>, 4), 8) <=> ip[1] \in 224..239
  <2> DEFINE b == Block(<<224, 0, 0, 0>>, 4)
  <2>1. b.prefix = 4 /\ b.network[1] = 224 /\ b.network[2] = 0
    BY DEF Block
  <2> HIDE DEF b
  <2>2. \A i \in {1, 2, 3, 4} : ip[i] \in Nat /\ ip[i] <= 255
    BY V4Parts
  <2>3. PartAgrees(ip, b, 8, 1) <=> ip[1] \in 224..239
    BY <2>1, <2>2 DEF PartAgrees
  <2>4. PartAgrees(ip, b, 8, 2)
    BY <2>1, <2>2 DEF PartAgrees
  <2>5. PartAgrees(ip, b, 8, 3) /\ PartAgrees(ip, b, 8, 4)
    BY <2>1 DEF PartAgrees
  <2>6. InBlock(ip, b, 8) <=> \A i \in {1, 2, 3, 4} : PartAgrees(ip, b, 8, i)
    BY V4Parts
  <2> QED BY <2>3, <2>4, <2>5, <2>6 DEF b
<1>5. InBlock(ip, Block(<<240, 0, 0, 0>>, 4), 8) <=> ip[1] \in 240..255
  <2> DEFINE b == Block(<<240, 0, 0, 0>>, 4)
  <2>1. b.prefix = 4 /\ b.network[1] = 240 /\ b.network[2] = 0
    BY DEF Block
  <2> HIDE DEF b
  <2>2. \A i \in {1, 2, 3, 4} : ip[i] \in Nat /\ ip[i] <= 255
    BY V4Parts
  <2>3. PartAgrees(ip, b, 8, 1) <=> ip[1] \in 240..255
    BY <2>1, <2>2 DEF PartAgrees
  <2>4. PartAgrees(ip, b, 8, 2)
    BY <2>1, <2>2 DEF PartAgrees
  <2>5. PartAgrees(ip, b, 8, 3) /\ PartAgrees(ip, b, 8, 4)
    BY <2>1 DEF PartAgrees
  <2>6. InBlock(ip, b, 8) <=> \A i \in {1, 2, 3, 4} : PartAgrees(ip, b, 8, i)
    BY V4Parts
  <2> QED BY <2>3, <2>4, <2>5, <2>6 DEF b
<1> QED BY <1>1, <1>2, <1>3, <1>4, <1>5

\* The table of blocks holds exactly these ranges.
LEMMA PublicV4 ==
  ASSUME NEW ip \in AddressesV4
  PROVE  Ipv4IsPublic(ip) <=> ~ReservedV4(ip)
<1> DEFINE In(net, prefix) == InBlock(ip, Block(net, prefix), 8)
<1>1. Ipv4IsPublic(ip) <=>
        /\ ~In(<<0, 0, 0, 0>>, 8) /\ ~In(<<10, 0, 0, 0>>, 8) /\ ~In(<<100, 64, 0, 0>>, 10)
        /\ ~In(<<127, 0, 0, 0>>, 8) /\ ~In(<<169, 254, 0, 0>>, 16) /\ ~In(<<172, 16, 0, 0>>, 12)
        /\ ~In(<<192, 0, 0, 0>>, 24) /\ ~In(<<192, 0, 2, 0>>, 24) /\ ~In(<<192, 88, 99, 0>>, 24)
        /\ ~In(<<192, 168, 0, 0>>, 16) /\ ~In(<<198, 18, 0, 0>>, 15)
        /\ ~In(<<198, 51, 100, 0>>, 24) /\ ~In(<<203, 0, 113, 0>>, 24)
        /\ ~In(<<224, 0, 0, 0>>, 4) /\ ~In(<<240, 0, 0, 0>>, 4)
  BY SMTT(30) DEF Ipv4IsPublic, BlockedV4
<1>2. /\ In(<<0, 0, 0, 0>>, 8) <=> ip[1] = 0
      /\ In(<<10, 0, 0, 0>>, 8) <=> ip[1] = 10
      /\ In(<<127, 0, 0, 0>>, 8) <=> ip[1] = 127
      /\ In(<<169, 254, 0, 0>>, 16) <=> ip[1] = 169 /\ ip[2] = 254
      /\ In(<<192, 168, 0, 0>>, 16) <=> ip[1] = 192 /\ ip[2] = 168
  BY WholeParts
<1>3. /\ In(<<192, 0, 0, 0>>, 24) <=> ip[1] = 192 /\ ip[2] = 0 /\ ip[3] = 0
      /\ In(<<192, 0, 2, 0>>, 24) <=> ip[1] = 192 /\ ip[2] = 0 /\ ip[3] = 2
      /\ In(<<192, 88, 99, 0>>, 24) <=> ip[1] = 192 /\ ip[2] = 88 /\ ip[3] = 99
      /\ In(<<198, 51, 100, 0>>, 24) <=> ip[1] = 198 /\ ip[2] = 51 /\ ip[3] = 100
      /\ In(<<203, 0, 113, 0>>, 24) <=> ip[1] = 203 /\ ip[2] = 0 /\ ip[3] = 113
  BY WholeParts
<1>4. /\ In(<<100, 64, 0, 0>>, 10) <=> ip[1] = 100 /\ ip[2] \in 64..127
      /\ In(<<172, 16, 0, 0>>, 12) <=> ip[1] = 172 /\ ip[2] \in 16..31
      /\ In(<<198, 18, 0, 0>>, 15) <=> ip[1] = 198 /\ ip[2] \in {18, 19}
      /\ In(<<224, 0, 0, 0>>, 4) <=> ip[1] \in 224..239
      /\ In(<<240, 0, 0, 0>>, 4) <=> ip[1] \in 240..255
  BY SplitParts
<1> HIDE DEF In
<1>5. Ipv4IsPublic(ip) <=>
        ~(\/ ip[1] = 0 \/ ip[1] = 10 \/ ip[1] = 127 \/ ip[1] \in 224..239 \/ ip[1] \in 240..255
          \/ ip[1] = 100 /\ ip[2] \in 64..127
          \/ ip[1] = 169 /\ ip[2] = 254
          \/ ip[1] = 172 /\ ip[2] \in 16..31
          \/ ip[1] = 192 /\ ip[2] = 168
          \/ ip[1] = 192 /\ ip[2] = 0 /\ ip[3] = 0
          \/ ip[1] = 192 /\ ip[2] = 0 /\ ip[3] = 2
          \/ ip[1] = 192 /\ ip[2] = 88 /\ ip[3] = 99
          \/ ip[1] = 198 /\ ip[2] \in {18, 19}
          \/ ip[1] = 198 /\ ip[2] = 51 /\ ip[3] = 100
          \/ ip[1] = 203 /\ ip[2] = 0 /\ ip[3] = 113)
  BY <1>1, <1>2, <1>3, <1>4, SMTT(30)
<1> QED BY <1>5, SMTT(30) DEF ReservedV4

-----------------------------------------------------------------------------
\* A block of whole words.
LEMMA WholeWords ==
  ASSUME NEW ip \in AddressesV6, NEW net
  PROVE  /\ InBlock(ip, Block(net, 32), 16) <=> ip[1] = net[1] /\ ip[2] = net[2]
         /\ InBlock(ip, Block(net, 48), 16) <=>
               ip[1] = net[1] /\ ip[2] = net[2] /\ ip[3] = net[3]
         /\ InBlock(ip, Block(net, 64), 16) <=>
               ip[1] = net[1] /\ ip[2] = net[2] /\ ip[3] = net[3] /\ ip[4] = net[4]
         /\ InBlock(ip, Block(net, 96), 16) <=>
               /\ ip[1] = net[1] /\ ip[2] = net[2] /\ ip[3] = net[3]
               /\ ip[4] = net[4] /\ ip[5] = net[5] /\ ip[6] = net[6]
<1>1. InBlock(ip, Block(net, 32), 16) <=> ip[1] = net[1] /\ ip[2] = net[2]
  BY V6Parts DEF PartAgrees, Block
<1>2. InBlock(ip, Block(net, 48), 16) <=>
               ip[1] = net[1] /\ ip[2] = net[2] /\ ip[3] = net[3]
  BY V6Parts DEF PartAgrees, Block
<1>3. InBlock(ip, Block(net, 64), 16) <=>
               ip[1] = net[1] /\ ip[2] = net[2] /\ ip[3] = net[3] /\ ip[4] = net[4]
  BY V6Parts DEF PartAgrees, Block
<1>4. InBlock(ip, Block(net, 96), 16) <=>
               /\ ip[1] = net[1] /\ ip[2] = net[2] /\ ip[3] = net[3]
               /\ ip[4] = net[4] /\ ip[5] = net[5] /\ ip[6] = net[6]
  BY V6Parts DEF PartAgrees, Block
<1> QED BY <1>1, <1>2, <1>3, <1>4

\* A block of the first bits of a word.
LEMMA FirstBits ==
  ASSUME NEW ip \in AddressesV6
  PROVE  /\ InBlock(ip, Block(<<64512, 0, 0, 0, 0, 0, 0, 0>>, 7), 16) <=> ip[1] \in 64512..65023
         /\ InBlock(ip, Block(<<65152, 0, 0, 0, 0, 0, 0, 0>>, 10), 16) <=> ip[1] \in 65152..65215
         /\ InBlock(ip, Block(<<65216, 0, 0, 0, 0, 0, 0, 0>>, 10), 16) <=> ip[1] \in 65216..65279
         /\ InBlock(ip, Block(<<65280, 0, 0, 0, 0, 0, 0, 0>>, 8), 16) <=> ip[1] \in 65280..65535
<1>1. InBlock(ip, Block(<<64512, 0, 0, 0, 0, 0, 0, 0>>, 7), 16) <=> ip[1] \in 64512..65023
  <2> DEFINE b == Block(<<64512, 0, 0, 0, 0, 0, 0, 0>>, 7)
  <2>1. b.prefix = 7 /\ b.network[1] = 64512
    BY DEF Block
  <2> HIDE DEF b
  <2>2. ip[1] \in Nat /\ ip[1] <= 65535
    BY V6Parts
  <2>3. PartAgrees(ip, b, 16, 1) <=> ip[1] \in 64512..65023
    BY <2>1, <2>2 DEF PartAgrees
  <2>4. \A i \in {2, 3, 4, 5, 6, 7, 8} : PartAgrees(ip, b, 16, i)
    BY <2>1 DEF PartAgrees
  <2>5. InBlock(ip, b, 16) <=>
            \A i \in {1, 2, 3, 4, 5, 6, 7, 8} : PartAgrees(ip, b, 16, i)
    BY V6Parts
  <2> QED BY <2>3, <2>4, <2>5 DEF b
<1>2. InBlock(ip, Block(<<65152, 0, 0, 0, 0, 0, 0, 0>>, 10), 16) <=> ip[1] \in 65152..65215
  <2> DEFINE b == Block(<<65152, 0, 0, 0, 0, 0, 0, 0>>, 10)
  <2>1. b.prefix = 10 /\ b.network[1] = 65152
    BY DEF Block
  <2> HIDE DEF b
  <2>2. ip[1] \in Nat /\ ip[1] <= 65535
    BY V6Parts
  <2>3. PartAgrees(ip, b, 16, 1) <=> ip[1] \in 65152..65215
    BY <2>1, <2>2 DEF PartAgrees
  <2>4. \A i \in {2, 3, 4, 5, 6, 7, 8} : PartAgrees(ip, b, 16, i)
    BY <2>1 DEF PartAgrees
  <2>5. InBlock(ip, b, 16) <=>
            \A i \in {1, 2, 3, 4, 5, 6, 7, 8} : PartAgrees(ip, b, 16, i)
    BY V6Parts
  <2> QED BY <2>3, <2>4, <2>5 DEF b
<1>3. InBlock(ip, Block(<<65216, 0, 0, 0, 0, 0, 0, 0>>, 10), 16) <=> ip[1] \in 65216..65279
  <2> DEFINE b == Block(<<65216, 0, 0, 0, 0, 0, 0, 0>>, 10)
  <2>1. b.prefix = 10 /\ b.network[1] = 65216
    BY DEF Block
  <2> HIDE DEF b
  <2>2. ip[1] \in Nat /\ ip[1] <= 65535
    BY V6Parts
  <2>3. PartAgrees(ip, b, 16, 1) <=> ip[1] \in 65216..65279
    BY <2>1, <2>2 DEF PartAgrees
  <2>4. \A i \in {2, 3, 4, 5, 6, 7, 8} : PartAgrees(ip, b, 16, i)
    BY <2>1 DEF PartAgrees
  <2>5. InBlock(ip, b, 16) <=>
            \A i \in {1, 2, 3, 4, 5, 6, 7, 8} : PartAgrees(ip, b, 16, i)
    BY V6Parts
  <2> QED BY <2>3, <2>4, <2>5 DEF b
<1>4. InBlock(ip, Block(<<65280, 0, 0, 0, 0, 0, 0, 0>>, 8), 16) <=> ip[1] \in 65280..65535
  <2> DEFINE b == Block(<<65280, 0, 0, 0, 0, 0, 0, 0>>, 8)
  <2>1. b.prefix = 8 /\ b.network[1] = 65280
    BY DEF Block
  <2> HIDE DEF b
  <2>2. ip[1] \in Nat /\ ip[1] <= 65535
    BY V6Parts
  <2>3. PartAgrees(ip, b, 16, 1) <=> ip[1] \in 65280..65535
    BY <2>1, <2>2 DEF PartAgrees
  <2>4. \A i \in {2, 3, 4, 5, 6, 7, 8} : PartAgrees(ip, b, 16, i)
    BY <2>1 DEF PartAgrees
  <2>5. InBlock(ip, b, 16) <=>
            \A i \in {1, 2, 3, 4, 5, 6, 7, 8} : PartAgrees(ip, b, 16, i)
    BY V6Parts
  <2> QED BY <2>3, <2>4, <2>5 DEF b
<1> QED BY <1>1, <1>2, <1>3, <1>4

\* The address in two words is an IPv4 address.
LEMMA OctetsTyped ==
  ASSUME NEW high \in Word, NEW low \in Word
  PROVE  Octets(high, low) \in AddressesV4
<1>1. ASSUME NEW w \in Word PROVE w \div 256 \in Octet /\ w % 256 \in Octet
  <2>1. w \in Nat /\ w <= 65535
    BY PartsAreNat
  <2>2. w \div 256 \in Nat /\ w \div 256 <= 255
    BY <2>1
  <2>3. w % 256 \in Nat /\ w % 256 <= 255
    BY <2>1
  <2> QED BY <2>2, <2>3 DEF Octet
<1>2. PICK a \in Octet, b \in Octet, c \in Octet, d \in Octet : Octets(high, low) = <<a, b, c, d>>
  BY <1>1 DEF Octets
<1> HIDE DEF Octet
<1> QED BY <1>2 DEF AddressesV4

\* And of IPv6.
LEMMA PublicV6 ==
  ASSUME NEW ip \in AddressesV6
  PROVE  Ipv6IsPublic(ip) <=> ~ReservedV6(ip)
<1>1. ip[1] \in Word /\ ip[2] \in Word /\ ip[3] \in Word /\ ip[7] \in Word /\ ip[8] \in Word
  BY DEF AddressesV6
<1>2. /\ Octets(ip[2], ip[3]) \in AddressesV4
      /\ Octets(ip[7], ip[8]) \in AddressesV4
  BY <1>1, OctetsTyped
<1>3. \A v \in AddressesV4 : Ipv4IsPublic(v) <=> ~ReservedV4(v)
  BY PublicV4
<1>4. ip \in {Unspecified, Loopback} <=>
        (\A i \in {1, 2, 3, 4, 5, 6, 7} : ip[i] = 0) /\ ip[8] \in {0, 1}
  <2>1. Unspecified = [i \in 1..8 |-> 0] /\ Loopback = [i \in 1..8 |-> IF i = 8 THEN 1 ELSE 0]
    BY DEF Unspecified, Loopback
  <2>2. \A i : i \in 1..8 <=> i \in {1, 2, 3, 4, 5, 6, 7, 8}
    OBVIOUS
  <2>3. ip = [i \in 1..8 |-> ip[i]]
    BY DEF AddressesV6
  <2>4. ip = Unspecified <=> \A i \in {1, 2, 3, 4, 5, 6, 7, 8} : ip[i] = 0
    BY <2>1, <2>2, <2>3
  <2>5. ip = Loopback <=> (\A i \in {1, 2, 3, 4, 5, 6, 7} : ip[i] = 0) /\ ip[8] = 1
    BY <2>1, <2>2, <2>3
  <2> QED BY <2>4, <2>5
<1>5. /\ InBlock(ip, Mapped, 16) <=> (\A i \in {1, 2, 3, 4, 5} : ip[i] = 0) /\ ip[6] = 65535
      /\ InBlock(ip, Nat64, 16) <=>
            ip[1] = W64 /\ ip[2] = WNat /\ \A i \in {3, 4, 5, 6} : ip[i] = 0
  BY WholeWords DEF Mapped, Nat64
<1> DEFINE In(net, prefix) == InBlock(ip, Block(net, prefix), 16)
<1>6. (\A b \in BlockedV6 : ~InBlock(ip, b, 16)) <=>
        /\ ~In(<<W64, WNat, 1, 0, 0, 0, 0, 0>>, 48) /\ ~In(<<256, 0, 0, 0, 0, 0, 0, 0>>, 64)
        /\ ~In(<<8193, 0, 0, 0, 0, 0, 0, 0>>, 32) /\ ~In(<<8193, 3512, 0, 0, 0, 0, 0, 0>>, 32)
        /\ ~In(<<64512, 0, 0, 0, 0, 0, 0, 0>>, 7) /\ ~In(<<65152, 0, 0, 0, 0, 0, 0, 0>>, 10)
        /\ ~In(<<65216, 0, 0, 0, 0, 0, 0, 0>>, 10) /\ ~In(<<65280, 0, 0, 0, 0, 0, 0, 0>>, 8)
  BY SMTT(30) DEF BlockedV6
<1>7. /\ In(<<W64, WNat, 1, 0, 0, 0, 0, 0>>, 48) <=> ip[1] = W64 /\ ip[2] = WNat /\ ip[3] = 1
      /\ In(<<256, 0, 0, 0, 0, 0, 0, 0>>, 64) <=> ip[1] = 256 /\ \A i \in {2, 3, 4} : ip[i] = 0
      /\ In(<<8193, 0, 0, 0, 0, 0, 0, 0>>, 32) <=> ip[1] = 8193 /\ ip[2] = 0
      /\ In(<<8193, 3512, 0, 0, 0, 0, 0, 0>>, 32) <=> ip[1] = 8193 /\ ip[2] = 3512
  BY WholeWords
<1>8. /\ In(<<64512, 0, 0, 0, 0, 0, 0, 0>>, 7) <=> ip[1] \in 64512..65023
      /\ In(<<65152, 0, 0, 0, 0, 0, 0, 0>>, 10) <=> ip[1] \in 65152..65215
      /\ In(<<65216, 0, 0, 0, 0, 0, 0, 0>>, 10) <=> ip[1] \in 65216..65279
      /\ In(<<65280, 0, 0, 0, 0, 0, 0, 0>>, 8) <=> ip[1] \in 65280..65535
  BY FirstBits
<1>9. EmbeddedV4(ip) = IF ip[1] = W6to4 THEN Octets(ip[2], ip[3]) ELSE Octets(ip[7], ip[8])
  BY DEF EmbeddedV4
<1> HIDE DEF In
<1> DEFINE OneBlock == ~\A b \in BlockedV6 : ~InBlock(ip, b, 16)
<1>10. OneBlock <=>
        \/ ip[1] = W64 /\ ip[2] = WNat /\ ip[3] = 1
        \/ ip[1] = 256 /\ \A i \in {2, 3, 4} : ip[i] = 0
        \/ ip[1] = 8193 /\ ip[2] \in {0, 3512}
        \/ ip[1] \in 64512..65023 \/ ip[1] \in 65152..65215
        \/ ip[1] \in 65216..65279 \/ ip[1] \in 65280..65535
  BY <1>6, <1>7, <1>8
<1>11. Ipv6IsPublic(ip) <=>
        /\ ip \notin {Unspecified, Loopback}
        /\ IF Embeds(ip) THEN Ipv4IsPublic(EmbeddedV4(ip)) ELSE ~OneBlock
  BY DEF Ipv6IsPublic
<1> HIDE DEF OneBlock
<1>12. CASE ip[1] = W6to4
  BY <1>1, <1>2, <1>3, <1>4, <1>9, <1>11, <1>12 DEF Embeds, ReservedV6, W6to4, W64, WNat
<1>13. CASE ip[1] # W6to4 /\ Embeds(ip)
  BY <1>1, <1>2, <1>3, <1>4, <1>5, <1>9, <1>11, <1>13 DEF Embeds, ReservedV6, W6to4, W64, WNat
<1>14. CASE ~Embeds(ip)
  BY <1>1, <1>4, <1>5, <1>10, <1>11, <1>14 DEF Embeds, ReservedV6, W6to4, W64, WNat
<1> QED BY <1>12, <1>13, <1>14

\* ip_is_public (net.rs) refuses exactly the reserved ranges, of every IPv4 and every IPv6
\* address, those that hold an IPv4 address included.
THEOREM TablesHoldReserved ==
    \A ip \in AddressesV4 \cup AddressesV6 : IpIsPublic(ip) <=> ~Reserved(ip)
<1>1. ASSUME NEW ip \in AddressesV4 PROVE IpIsPublic(ip) <=> ~Reserved(ip)
  <2>1. Len(ip) = 4 /\ ip \notin AddressesV6
    BY V4Parts, V6Parts
  <2> QED BY <2>1, PublicV4 DEF IpIsPublic, Reserved
<1>2. ASSUME NEW ip \in AddressesV6 PROVE IpIsPublic(ip) <=> ~Reserved(ip)
  <2>1. Len(ip) = 8 /\ ip \notin AddressesV4
    BY V4Parts, V6Parts
  <2> QED BY <2>1, PublicV6 DEF IpIsPublic, Reserved
<1> QED BY <1>1, <1>2

\* No internal address is taken for a public one.
LEMMA AddressesBlocked == \A ip \in Internal : ~IpIsPublic(ip)
  BY TablesHoldReserved, InternalIsReserved DEF Reserved

-----------------------------------------------------------------------------
(* What is reached. *)

PageChecked(x) ==
    /\ x.pc \in Requesting \cup {"checking"} => x.url \in Urls
    /\ x.pc \in Requesting => BrokenRule(x.url, x.allow) = "none"
    /\ x.pc \in {"connected", "reading"} => IpIsPublic(x.ip)

ReadChecked(x) == x.pc \in {"located", "opened"} => Admissible(x.place, x.roots)

ReachInv ==
    /\ TypeInv
    /\ \A c \in Callers : PageChecked(page[c]) /\ ReadChecked(reading[c])

\* A file is read only after its path was checked, and a url only after it and its
\* addresses were.
LEMMA FilesChecked ==
    ASSUME ReachInv, NEW c \in Callers, ReadAFile(c)
    PROVE  \A d \in Callers : ReadChecked(reading[d])'
<1> USE DEF ReachInv, TypeInv, Types
<1>1. SUFFICES \E x : reading' = [reading EXCEPT ![c] = x] /\ ReadChecked(x)
  BY DEF ReadChecked, Admissible
<1>2. ASSUME NEW what, NEW size, ReadEnds(c, what, size)
      PROVE  \E x : reading' = [reading EXCEPT ![c] = x] /\ ReadChecked(x)
  <2>1. reading' = [reading EXCEPT ![c] = [pc |-> "done", what |-> what, size |-> size]]
    BY <1>2 DEF ReadEnds
  <2>2. ReadChecked([pc |-> "done", what |-> what, size |-> size])
    BY DEF ReadChecked
  <2> QED BY <2>1, <2>2
<1>3. CASE BadUri(c)
  BY <1>2, <1>3 DEF BadUri
<1>4. ASSUME NEW path \in Paths, Locate(c, call[c].section.allow, path)
      PROVE  \E x : reading' = [reading EXCEPT ![c] = x] /\ ReadChecked(x)
  <2>1. \/ \E what : ReadEnds(c, what, 0)
        \/ \E place, roots : /\ Admissible(place, roots)
                             /\ reading' = [reading EXCEPT ![c] =
                                    [pc |-> "located", place |-> place, roots |-> roots]]
    BY <1>4 DEF Locate
  <2> QED BY <1>2, <2>1 DEF ReadChecked
<1>5. CASE Open(c)
  <2>1. reading[c].pc = "located" /\ Admissible(reading[c].place, reading[c].roots)
    BY <1>5 DEF Open, ReadChecked
  <2>2. \/ \E what : ReadEnds(c, what, 0)
        \/ reading' = [reading EXCEPT ![c] =
              [pc |-> "opened", place |-> reading[c].place, roots |-> reading[c].roots]]
    BY <1>5 DEF Open, Opened
  <2> QED BY <1>2, <2>1, <2>2 DEF ReadChecked
<1>6. CASE ReadFile(c)
  <2>1. \E what, size : ReadEnds(c, what, size)
    BY <1>6 DEF ReadFile
  <2> QED BY <1>2, <2>1
<1> QED BY <1>3, <1>4, <1>5, <1>6 DEF ReadAFile, ReadStep

LEMMA UrlsChecked ==
    ASSUME ReachInv, NEW c \in Callers, FetchAUrl(c)
    PROVE  \A d \in Callers : PageChecked(page[d])'
<1> USE DEF ReachInv, TypeInv, Types
<1>1. SUFFICES \E x : page' = [page EXCEPT ![c] = x] /\ PageChecked(x)
  BY DEF PageChecked
<1> DEFINE Goal == \E x : page' = [page EXCEPT ![c] = x] /\ PageChecked(x)
<1>2. ASSUME NEW o, Ended(c, o) PROVE Goal
  <2>1. page' = [page EXCEPT ![c] = [pc |-> "done", outcome |-> o]]
    BY <1>2 DEF Ended
  <2>2. PageChecked([pc |-> "done", outcome |-> o])
    BY DEF PageChecked, Requesting
  <2> QED BY <2>1, <2>2
<1>3. ASSUME NEW timeout, NEW allow, BeginFetch(c, allow, timeout) PROVE Goal
  <2>1. ASSUME NEW url \in Urls,
               page' = [page EXCEPT ![c] = [pc |-> "checking", url |-> url, allow |-> allow,
                                            hops |-> 0, deadline |-> timeout]]
        PROVE  Goal
    <3> PICK x : x = [pc |-> "checking", url |-> url, allow |-> allow, hops |-> 0,
                      deadline |-> timeout]
      OBVIOUS
    <3>1. x.pc = "checking" /\ x.url = url
      OBVIOUS
    <3>2. PageChecked(x)
      BY <3>1 DEF PageChecked, Requesting
    <3> QED BY <2>1, <3>2
  <2> QED BY <1>2, <1>3, <2>1 DEF BeginFetch
<1>4. CASE CheckHop(c)
  <2>1. ASSUME Calling(c, page[c].deadline), BrokenRule(page[c].url, page[c].allow) = "none"
        PROVE  Goal
    <3> PICK x : x = [pc |-> "calling", url |-> page[c].url, hops |-> page[c].hops,
                      allow |-> page[c].allow, deadline |-> page[c].deadline,
                      due |-> page[c].deadline]
      OBVIOUS
    <3>1. page' = [page EXCEPT ![c] = x]
      BY <2>1 DEF Calling
    <3>2. x.pc = "calling" /\ x.url = page[c].url /\ x.allow = page[c].allow
      OBVIOUS
    <3>3. page[c].url \in Urls
      BY <1>4 DEF CheckHop, PageChecked
    <3> QED BY <2>1, <3>1, <3>2, <3>3 DEF PageChecked
  <2> QED BY <1>2, <1>4, <2>1 DEF CheckHop
<1>5. CASE Connect(c)
  <2>1. page[c].pc = "calling" /\ page[c].url \in Urls
        /\ BrokenRule(page[c].url, page[c].allow) = "none"
    BY <1>5 DEF Connect, PageChecked, Requesting
  <2>2. ASSUME NEW ip, IpIsPublic(ip), Connected(c, ip) PROVE Goal
    <3> PICK x : x = [pc |-> "connected", url |-> page[c].url, hops |-> page[c].hops,
                      allow |-> page[c].allow, deadline |-> page[c].deadline,
                      due |-> page[c].due, ip |-> ip]
      OBVIOUS
    <3>1. page' = [page EXCEPT ![c] = x]
      BY <2>2 DEF Connected
    <3>2. x.pc = "connected" /\ x.url = page[c].url /\ x.allow = page[c].allow /\ x.ip = ip
      OBVIOUS
    <3> QED BY <2>1, <2>2, <3>1, <3>2 DEF PageChecked
  <2>3. ASSUME NEW addresses, Resolves(c, addresses) PROVE Goal
    BY <1>2, <2>2, <2>3 DEF Resolves
  <2> QED BY <1>2, <1>5, <2>3 DEF Connect
<1>6. CASE Redirect(c)
  <2>1. ASSUME NEW url \in Urls,
               page' = [page EXCEPT ![c] = [pc |-> "checking", url |-> url,
                            allow |-> page[c].allow, hops |-> page[c].hops + 1,
                            deadline |-> page[c].deadline]]
        PROVE  Goal
    <3> PICK x : x = [pc |-> "checking", url |-> url, allow |-> page[c].allow,
                      hops |-> page[c].hops + 1, deadline |-> page[c].deadline]
      OBVIOUS
    <3>1. x.pc = "checking" /\ x.url = url
      OBVIOUS
    <3>2. PageChecked(x)
      BY <3>1 DEF PageChecked, Requesting
    <3> QED BY <2>1, <3>2
  <2> QED BY <1>2, <1>6, <2>1 DEF Redirect
<1>7. CASE Respond(c)
  <2>1. ASSUME page' = [page EXCEPT ![c].pc = "reading"] PROVE Goal
    <3> PICK x : x = [page[c] EXCEPT !.pc = "reading"]
      OBVIOUS
    <3>1. page' = [page EXCEPT ![c] = x]
      BY <2>1
    <3>2. page[c].pc = "connected" /\ PageTyped(page[c]) /\ PageChecked(page[c])
      BY <1>7 DEF Respond
    <3>3. page[c] = [pc |-> "connected", url |-> page[c].url, hops |-> page[c].hops,
                     allow |-> page[c].allow, deadline |-> page[c].deadline,
                     due |-> page[c].due, ip |-> page[c].ip]
      BY <3>2 DEF PageTyped
    <3>4. x.pc = "reading" /\ x.url = page[c].url /\ x.allow = page[c].allow /\ x.ip = page[c].ip
      BY <3>3
    <3> QED BY <3>1, <3>2, <3>4 DEF PageChecked, Requesting
  <2> QED BY <1>2, <1>7, <2>1 DEF Respond
<1>8. CASE ReadBody(c)
  BY <1>2, <1>8 DEF ReadBody
<1> QED BY <1>3, <1>4, <1>5, <1>6, <1>7, <1>8 DEF FetchAUrl, FetchStep

LEMMA ReachKept == ReachInv /\ [Next]_vars => ReachInv'
<1> SUFFICES ASSUME ReachInv, [Next]_vars PROVE ReachInv'
  OBVIOUS
<1>1. TypeInv'
  BY TypesKept DEF ReachInv
<1>2. PageChecked(NoPage) /\ ReadChecked(NoRead)
  BY DEF PageChecked, ReadChecked, NoPage, NoRead, Requesting
<1>3. \A c \in Callers : ReadChecked(reading[c])'
  <2>1. CASE reading' = reading
    BY <2>1 DEF ReachInv, ReadChecked, Admissible
  <2>2. ASSUME NEW c \in Callers, reading' = [reading EXCEPT ![c] = NoRead]
        PROVE  \A d \in Callers : ReadChecked(reading[d])'
    BY <1>2, <2>2 DEF ReachInv, TypeInv, Types, ReadChecked, Admissible
  <2>3. \/ reading' = reading
        \/ \E c \in Callers : ReadAFile(c) \/ reading' = [reading EXCEPT ![c] = NoRead]
    <3>1. CASE UNCHANGED vars
      BY <3>1 DEF vars
    <3>2. CASE Next
      BY <3>2, NextCases DEF FindReference, ReadSettings, Acquire, Deliver, FileDone, FetchAUrl,
         UrlDone, StartChild, Handshake, Ask, Cancel, Reap, RefuseUri, SpawnFetch, Receive, GiveUp,
         Tick, resolvers, Sends, Moves, Cancels
    <3> QED BY <3>1, <3>2
  <2> QED BY <2>1, <2>2, <2>3, FilesChecked
<1>4. \A c \in Callers : PageChecked(page[c])'
  <2>1. CASE page' = page
    BY <2>1 DEF ReachInv, PageChecked
  <2>2. ASSUME NEW c \in Callers, page' = [page EXCEPT ![c] = NoPage]
        PROVE  \A d \in Callers : PageChecked(page[d])'
    BY <1>2, <2>2 DEF ReachInv, TypeInv, Types, PageChecked
  <2>3. \/ page' = page
        \/ \E c \in Callers : FetchAUrl(c) \/ page' = [page EXCEPT ![c] = NoPage]
    <3>1. CASE UNCHANGED vars
      BY <3>1 DEF vars
    <3>2. CASE Next
      BY <3>2, NextCases DEF FindReference, ReadSettings, Acquire, Deliver, FileDone, ReadAFile,
         UrlDone, StartChild, Handshake, Ask, Cancel, Reap, RefuseUri, SpawnFetch, Receive, GiveUp,
         Tick, resolvers, Sends, Moves, Cancels
    <3> QED BY <3>1, <3>2
  <2> QED BY <2>1, <2>2, <2>3, UrlsChecked
<1> QED BY <1>1, <1>3, <1>4 DEF ReachInv

\* Whatever the redirects, the names and the links lead to, no call reaches more than its
\* settings allow, and never an internal address.
THEOREM OnlyAllowedIsReached == Spec => []ReachesOnlyAllowed
<1>1. Init => ReachInv
  <2> SUFFICES ASSUME Init PROVE ReachInv
    OBVIOUS
  <2>1. \A c \in Callers : page[c] = NoPage /\ reading[c] = NoRead
    BY DEF Init, UrlInit, FileInit
  <2> QED BY <2>1, InitTyped DEF ReachInv, PageChecked, ReadChecked, NoPage, NoRead, Requesting
<1>2. ReachInv => ReachesOnlyAllowed
  <2> SUFFICES ASSUME ReachInv PROVE ReachesOnlyAllowed
    OBVIOUS
  <2>1. ASSUME NEW c \in Callers, page[c].pc \in {"connected", "reading"}
        PROVE  /\ page[c].ip \notin Internal
               /\ page[c].url.scheme \in {"http", "https"} /\ ~page[c].url.userinfo
               /\ Everywhere \in page[c].allow \/ page[c].url.domain \in Hosts(page[c].allow)
    <3>1. /\ page[c].url \in Urls /\ BrokenRule(page[c].url, page[c].allow) = "none"
          /\ IpIsPublic(page[c].ip)
      BY <2>1 DEF ReachInv, PageChecked, Requesting
    <3>2. page[c].url.scheme \in {"http", "https"} /\ ~page[c].url.userinfo
      BY <3>1 DEF BrokenRule
    <3>3. Everywhere \in page[c].allow \/ HostIsAllowed(page[c].url.domain, page[c].allow)
      BY <3>1 DEF BrokenRule, DomainIsAllowed
    <3> QED BY <3>1, <3>2, <3>3, AddressesBlocked DEF HostIsAllowed, Hosts
  <2>2. UrlReachesOnlyAllowed
    BY <2>1 DEF UrlReachesOnlyAllowed
  <2>3. FileReachesOnlyAllowed
    BY DEF FileReachesOnlyAllowed, ReachInv, ReadChecked, Admissible
  <2> QED BY <2>2, <2>3 DEF ReachesOnlyAllowed
<1> QED BY <1>1, <1>2, ReachKept, PTL DEF Spec
=============================================================================
