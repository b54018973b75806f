-------------------------- MODULE ProposalDeskProofs --------------------------
(***************************************************************************)
(* What the window says of proposals is so, a form is given back only when *)
(* nothing was proposed of it, and a list is not older than what was       *)
(* decided here: for any number of entries, decisions, renames and lost    *)
(* answers.                                                                *)
(***************************************************************************)
EXTENDS ProposalDesk, SequenceTheorems, TLAPS

Proposed == [request : Nat, by : Nat, status : Statuses]
Replies ==
    [error : Codes \cup {None}, id : Nat, status : Statuses \cup {None}, ids : SUBSET Nat,
     full : BOOLEAN]

\* An answer was so when it was given; what it says of a decided proposal stays so.  q is
\* the queue, here and below.
Fits(q, call) ==
    LET answer == call.answer IN
    answer # None =>
        /\ answer \in Replies
        /\ answer.ids \subseteq DOMAIN q
        /\ call.tool = "propose" /\ answer.error = None =>
              /\ answer.id \in DOMAIN q /\ q[answer.id].request = call.arg.request
              /\ answer.status \in Statuses
              /\ answer.status # "pending" => q[answer.id].status = answer.status
        /\ call.tool = "propose" /\ answer.error = "invalid_params" =>
              \A id \in DOMAIN q : q[id].request # call.arg.request
        /\ call.tool \in Mutations /\ answer.error = None =>
              q[call.arg].status = DecidedAs(call.tool)
        /\ call.tool = "list" /\ call.arg # "pending" =>
              \A id \in answer.ids : q[id].status = call.arg

CallFits(q, from, call) ==
    /\ call = [tool |-> call.tool, arg |-> call.arg, answer |-> call.answer]
    /\ call.tool \in {"propose", "list"} \cup Mutations
    /\ call.tool = "propose" => from = SaveCall /\ call.arg.request \in Nat
    /\ call.tool \in Mutations => call.arg \in DOMAIN q
    /\ call.tool = "list" => call.arg \in Statuses
    /\ Fits(q, call)

\* What the operation s that saves an entry waits for, and what it says.
Awaits(s, call) ==
    \/ /\ s.phase = "proposing" /\ s.id = 0
       /\ call.tool = "propose" /\ call.arg.request = s.request
    \/ s.phase = "approving" /\ s.id # 0 /\ call.tool = "approve" /\ call.arg = s.id
    \/ /\ s.phase \in {"confirming", "already", "checking"} /\ s.id # 0
       /\ call.tool = "list" /\ call.arg \in {"approved", "rejected"}

SaveFits(q, s) ==
    s \in Saves =>
        /\ s.id # 0 => s.id \in DOMAIN q /\ q[s.id].request = s.request
        /\ s.phase \in {"complete", "already"} => s.id # 0 /\ q[s.id].status = "approved"
        /\ s.phase = "rejected" => s.id # 0 /\ q[s.id].status = "rejected"
        /\ CanCorrectSave(s) => \A id \in DOMAIN q : q[id].request # s.request

DecisionFits(q, id, d) ==
    d \in Decisions \ {None} /\ d.output # None => id \in DOMAIN q /\ q[id].status = d.output

Types ==
    /\ queue \in Seq(Proposed)
    /\ renames \in Nat /\ requests \in Nat
    /\ save \in Saves \cup {None}
    /\ decisions \in [Ids -> Decisions \cup {None}]
    /\ snapshot.ids \subseteq DOMAIN queue

SaveHeld ==
    /\ SaveCall \in DOMAIN calls => save \in Saves /\ Awaits(save, calls[SaveCall])
    /\ SaveFits(queue, save)

DecisionsHeld ==
    \A id \in Ids :
        /\ DecisionCall(id) \in DOMAIN calls =>
              /\ decisions[id] \in Decisions /\ decisions[id].busy
              /\ calls[DecisionCall(id)].tool = decisions[id].tool
              /\ calls[DecisionCall(id)].arg = id
        /\ DecisionFits(queue, id, decisions[id])

Inv ==
    /\ Types
    /\ \A from \in DOMAIN calls : CallFits(queue, from, calls[from])
    /\ SaveHeld /\ DecisionsHeld

-----------------------------------------------------------------------------
(* What was so stays so: the server only adds proposals and decides pending *)
(* ones.                                                                    *)

GrowsTo(q, r) ==
    /\ DOMAIN q \subseteq DOMAIN r
    /\ \A id \in DOMAIN q :
          /\ r[id].request = q[id].request
          /\ q[id].status # "pending" => r[id].status = q[id].status

\* What was true of a call, of the form and of a decision stays true while the queue grows.
LEMMA CallStays ==
    ASSUME NEW q, NEW r, GrowsTo(q, r), NEW from, NEW call, CallFits(q, from, call),
           call.tool = "propose" /\ call.answer # None => DOMAIN r = DOMAIN q
    PROVE  CallFits(r, from, call)
<1>1. call.tool \in Mutations => call.arg \in DOMAIN r
  BY DEF CallFits, GrowsTo
<1>2. ASSUME call.answer # None PROVE Fits(r, call)
  <2> PICK answer : answer = call.answer
    OBVIOUS
  <2>1. answer \in Replies /\ answer.ids \subseteq DOMAIN r
    BY <1>2 DEF CallFits, Fits, GrowsTo
  <2>2. ASSUME call.tool = "propose", answer.error = None
        PROVE  /\ answer.id \in DOMAIN r /\ r[answer.id].request = call.arg.request
               /\ answer.status \in Statuses
               /\ answer.status # "pending" => r[answer.id].status = answer.status
    BY <1>2, <2>2 DEF CallFits, Fits, GrowsTo
  <2>3. ASSUME call.tool = "propose", answer.error = "invalid_params"
        PROVE  \A id \in DOMAIN r : r[id].request # call.arg.request
    BY <1>2, <2>3 DEF CallFits, Fits, GrowsTo
  <2>4. ASSUME call.tool \in Mutations, answer.error = None
        PROVE  r[call.arg].status = DecidedAs(call.tool)
    <3>1. DecidedAs(call.tool) # "pending"
      BY DEF DecidedAs
    <3> QED BY <1>2, <2>4, <3>1 DEF CallFits, Fits, GrowsTo
  <2>5. ASSUME call.tool = "list", call.arg # "pending", NEW id \in answer.ids
        PROVE  r[id].status = call.arg
    BY <1>2, <2>5 DEF CallFits, Fits, GrowsTo
  <2> QED BY <2>1, <2>2, <2>3, <2>4, <2>5 DEF Fits
<1> QED BY <1>1, <1>2 DEF CallFits, Fits

LEMMA SaveStays ==
    ASSUME NEW q, NEW r, GrowsTo(q, r), NEW s, SaveFits(q, s),
           s \in Saves /\ s.phase = "error" => DOMAIN r = DOMAIN q
    PROVE  SaveFits(r, s)
BY DEF SaveFits, GrowsTo, CanCorrectSave

LEMMA DecisionStays ==
    ASSUME NEW q, NEW r, GrowsTo(q, r), NEW id, NEW d, DecisionFits(q, id, d)
    PROVE  DecisionFits(r, id, d)
<1>1. d \in Decisions /\ d.output # None => d.output # "pending"
  BY DEF Decisions
<1> QED BY <1>1 DEF DecisionFits, GrowsTo

-----------------------------------------------------------------------------
(* The calls. *)

\* Calls of different operations never share a key.
LEMMA CallsDiffer ==
    /\ \A id \in Ids : SaveCall # DecisionCall(id)
    /\ \A key : SaveCall # ListCall(key)
    /\ \A id \in Ids : \A key : DecisionCall(id) # ListCall(key)
    /\ \A id, other \in Ids : DecisionCall(id) = DecisionCall(other) => id = other
BY DEF SaveCall, DecisionCall, ListCall

\* The calls in flight after one more, and after one fewer.
LEMMA Asked ==
    ASSUME NEW from, NEW tool, NEW arg, calls' = Ask(from, tool, arg)
    PROVE  /\ DOMAIN calls' = DOMAIN calls \cup {from}
           /\ calls'[from] = [tool |-> tool, arg |-> arg, answer |-> None]
           /\ \A c \in DOMAIN calls \ {from} : calls'[c] = calls[c]
BY DEF Ask

LEMMA Dropped ==
    ASSUME NEW from, calls' = Without(from)
    PROVE  /\ DOMAIN calls' = DOMAIN calls \ {from}
           /\ \A c \in DOMAIN calls' : calls'[c] = calls[c]
BY DEF Without, Restrict

\* A call that has just been made.
LEMMA FreshFits ==
    ASSUME NEW q, NEW from, NEW tool \in {"propose", "list"} \cup Mutations, NEW arg,
           tool = "propose" => from = SaveCall /\ arg.request \in Nat,
           tool \in Mutations => arg \in DOMAIN q,
           tool = "list" => arg \in Statuses
    PROVE  CallFits(q, from, [tool |-> tool, arg |-> arg, answer |-> None])
BY DEF CallFits, Fits

\* A refusal is an answer with a code and without proposals.
LEMMA RefusalFits ==
    ASSUME NEW code \in Codes
    PROVE  /\ Refusal(code) \in Replies
           /\ Refusal(code).error = code /\ Refusal(code).ids = {}
           /\ code # None
BY NoneIsNothing DEF Refusal, Reply, Replies

-----------------------------------------------------------------------------
(* The server, and the others. *)

\* A call is answered; what the window holds stays true.
LEMMA Served ==
    ASSUME Inv, NEW from \in DOMAIN calls, Awaited(from), NEW a,
           calls' = [calls EXCEPT ![from].answer = a],
           queue' \in Seq(Proposed), GrowsTo(queue, queue'),
           DOMAIN queue' = DOMAIN queue \/ calls[from].tool = "propose",
           Fits(queue', [tool |-> calls[from].tool, arg |-> calls[from].arg, answer |-> a]),
           UNCHANGED <<renames, save, requests, decisions, snapshot>>
    PROVE  Inv'
<1> PICK call : call = [tool |-> calls[from].tool, arg |-> calls[from].arg, answer |-> a]
  OBVIOUS
<1>0. CallFits(queue, from, calls[from])
  BY DEF Inv
<1>1. /\ DOMAIN calls' = DOMAIN calls /\ calls'[from] = [calls[from] EXCEPT !.answer = a]
      /\ \A c \in DOMAIN calls \ {from} : calls'[c] = calls[c]
  OBVIOUS
<1>2. calls'[from] = call
  BY <1>0, <1>1 DEF CallFits
<1>3. CallFits(queue', from, call)
  <2>1. /\ call = [tool |-> call.tool, arg |-> call.arg, answer |-> call.answer]
        /\ call.tool = calls[from].tool /\ call.arg = calls[from].arg
    OBVIOUS
  <2> QED BY <1>0, <2>1 DEF CallFits, GrowsTo
<1>4. ASSUME NEW c \in DOMAIN calls, c # from PROVE CallFits(queue', c, calls'[c])
  <2>1. CallFits(queue, c, calls[c]) /\ calls'[c] = calls[c]
    BY <1>1, <1>4 DEF Inv
  <2>2. calls[c].tool = "propose" => DOMAIN queue' = DOMAIN queue
    BY <1>0, <1>4, <2>1 DEF CallFits
  <2> QED BY <2>1, <2>2, CallStays
<1>5. Types'
  BY DEF Inv, Types, GrowsTo
<1>6. SaveHeld'
  <2>1. save \in Saves /\ save.phase = "error" => DOMAIN queue' = DOMAIN queue
    BY <1>0 DEF Inv, SaveHeld, Awaits, CallFits
  <2>2. SaveFits(queue', save)
    BY <2>1, SaveStays DEF Inv, SaveHeld
  <2>3. SaveCall \in DOMAIN calls =>
           /\ calls'[SaveCall].tool = calls[SaveCall].tool
           /\ calls'[SaveCall].arg = calls[SaveCall].arg
    BY <1>1, <1>2
  <2> QED BY <1>1, <2>2, <2>3 DEF Inv, SaveHeld, Awaits
<1>7. DecisionsHeld'
  <2> SUFFICES ASSUME NEW id \in Ids
               PROVE  /\ DecisionCall(id) \in DOMAIN calls =>
                            /\ decisions[id] \in Decisions /\ decisions[id].busy
                            /\ calls'[DecisionCall(id)].tool = decisions[id].tool
                            /\ calls'[DecisionCall(id)].arg = id
                      /\ DecisionFits(queue', id, decisions[id])
    BY <1>1 DEF DecisionsHeld
  <2>1. DecisionCall(id) \in DOMAIN calls =>
           /\ calls'[DecisionCall(id)].tool = calls[DecisionCall(id)].tool
           /\ calls'[DecisionCall(id)].arg = calls[DecisionCall(id)].arg
    BY <1>1, <1>2
  <2> QED BY <2>1, DecisionStays DEF Inv, DecisionsHeld
<1> QED BY <1>1, <1>2, <1>3, <1>4, <1>5, <1>6, <1>7 DEF Inv

LEMMA SameQueue ==
    ASSUME Inv
    PROVE  GrowsTo(queue, queue) /\ queue \in Seq(Proposed)
BY DEF GrowsTo, Inv, Types

\* An answer that does not come, or says that something went wrong.
LEMMA Refused ==
    ASSUME Inv, NEW from \in DOMAIN calls, Awaited(from), NEW code \in Codes \ {"invalid_params"},
           calls' = [calls EXCEPT ![from].answer = Refusal(code)], queue' = queue,
           UNCHANGED <<renames, save, requests, decisions, snapshot>>
    PROVE  Inv'
<1> PICK a : a = Refusal(code)
  OBVIOUS
<1>1. a \in Replies /\ a.error = code /\ a.ids = {} /\ code # None
  BY RefusalFits
<1>2. Fits(queue, [tool |-> calls[from].tool, arg |-> calls[from].arg, answer |-> a])
  BY <1>1 DEF Fits
<1> QED BY <1>2, SameQueue, Served

\* Serve, by what is asked.  The lost answer leaves the effect.
LEMMA ProposeServed ==
    ASSUME Inv, NEW from \in DOMAIN calls, Awaited(from), calls[from].tool = "propose",
           ServePropose(from), UNCHANGED <<renames, save, requests, decisions, snapshot>>
    PROVE  Inv'
<1> PICK s : s = calls[from].arg
  OBVIOUS
<1>0. s.request \in Nat /\ renames \in Nat /\ queue \in Seq(Proposed)
  BY DEF Inv, Types, CallFits
<1>a. \A n \in DOMAIN queue : queue[n] \in Proposed /\ n \in Nat
  BY <1>0
<1>1. "unknown" \in Codes \ {"invalid_params"} /\ "conflict" \in Codes \ {"invalid_params"}
  BY DEF Codes
<1>2. ASSUME NEW a \in Replies, a.error = None, a.ids = {},
             Answers(from, a), queue' \in Seq(Proposed), GrowsTo(queue, queue'),
             a.id \in DOMAIN queue', queue'[a.id].request = s.request,
             a.status = queue'[a.id].status, a.status \in Statuses
      PROVE  Inv'
  <2>1. CASE calls' = [calls EXCEPT ![from].answer = a]
    <3>1. Fits(queue', [tool |-> calls[from].tool, arg |-> s, answer |-> a])
      BY <1>2, NoneIsNothing DEF Fits, Mutations, Codes
    <3> QED BY <1>2, <2>1, <3>1, Served
  <2>2. CASE calls' = [calls EXCEPT ![from].answer = Refusal("unknown")]
    <3> PICK r : r = Refusal("unknown")
      OBVIOUS
    <3>1. r \in Replies /\ r.error = "unknown" /\ r.ids = {} /\ "unknown" # None
      BY <1>1, RefusalFits
    <3>2. Fits(queue', [tool |-> calls[from].tool, arg |-> calls[from].arg, answer |-> r])
      BY <3>1 DEF Fits
    <3> QED BY <1>2, <2>2, <3>2, Served
  <2> QED BY <1>2, <2>1, <2>2 DEF Answers
<1>3. CASE OfRequest(s.request) # {}
  <2> PICK n : n = CHOOSE id \in OfRequest(s.request) : TRUE
    OBVIOUS
  <2>1. n \in DOMAIN queue /\ queue[n].request = s.request
    BY <1>3 DEF OfRequest
  <2>2. /\ queue' = queue
        /\ Answers(from, IF queue[n].by = CurrentHuman
                         THEN [Reply EXCEPT !.id = n, !.status = queue[n].status]
                         ELSE Refusal("conflict"))
    BY <1>3 DEF ServePropose
  <2>3. CASE queue[n].by = CurrentHuman
    <3> PICK a : a = [Reply EXCEPT !.id = n, !.status = queue[n].status]
      OBVIOUS
    <3>1. queue[n].status \in Statuses /\ n \in Nat
      BY <1>a, <2>1 DEF Proposed
    <3>2. a \in Replies /\ a.error = None /\ a.ids = {} /\ a.id = n /\ a.status = queue[n].status
      BY <3>1 DEF Reply, Replies
    <3> QED BY <1>2, <2>1, <2>2, <2>3, <3>1, <3>2, SameQueue
  <2>4. CASE queue[n].by # CurrentHuman
    BY <1>1, <2>2, <2>4, Refused DEF Answers
  <2> QED BY <2>3, <2>4
<1>4. CASE OfRequest(s.request) = {} /\ s.content \in Invalid
  <2>1. queue' = queue /\ Answers(from, Refusal("invalid_params"))
    BY <1>4 DEF ServePropose
  <2>2. CASE calls' = [calls EXCEPT ![from].answer = Refusal("invalid_params")]
    <3> PICK a : a = Refusal("invalid_params")
      OBVIOUS
    <3>0. "invalid_params" \in Codes
      BY DEF Codes
    <3>1. a \in Replies /\ a.error = "invalid_params" /\ a.ids = {} /\ "invalid_params" # None
      BY <3>0, RefusalFits
    <3>2. \A id \in DOMAIN queue : queue[id].request # s.request
      BY <1>4 DEF OfRequest
    <3>3. Fits(queue, [tool |-> calls[from].tool, arg |-> s, answer |-> a])
      BY <3>1, <3>2 DEF Fits, Mutations
    <3> QED BY <2>1, <2>2, <3>3, SameQueue, Served
  <2> QED BY <1>1, <2>1, <2>2, Refused DEF Answers
<1>5. CASE OfRequest(s.request) = {} /\ s.content \notin Invalid
  <2> PICK e : e = [request |-> s.request, by |-> CurrentHuman, status |-> "pending"]
    OBVIOUS
  <2> PICK a : a = [Reply EXCEPT !.id = Len(queue) + 1, !.status = "pending"]
    OBVIOUS
  <2>1. queue' = Append(queue, e) /\ Answers(from, a)
    BY <1>5 DEF ServePropose
  <2>2. e \in Proposed /\ e.status = "pending" /\ e.request = s.request
    BY <1>0 DEF Proposed, CurrentHuman, Statuses
  <2>3. /\ queue' \in Seq(Proposed) /\ DOMAIN queue' = 1 .. Len(queue) + 1
        /\ \A id \in DOMAIN queue : queue'[id] = queue[id]
        /\ queue'[Len(queue) + 1] = e /\ Len(queue) + 1 \in Nat
        /\ DOMAIN queue = 1 .. Len(queue)
    BY <1>0, <2>1, <2>2
  <2>4. GrowsTo(queue, queue')
    BY <2>3 DEF GrowsTo
  <2>5. a \in Replies /\ a.error = None /\ a.ids = {} /\ a.id = Len(queue) + 1 /\ a.status = "pending"
    BY <2>3 DEF Reply, Replies, Statuses
  <2>6. a.id \in DOMAIN queue' /\ queue'[a.id] = e
    BY <1>0, <2>3, <2>5
  <2>7. "pending" \in Statuses
    BY DEF Statuses
  <2> QED BY <1>2, <2>1, <2>2, <2>3, <2>4, <2>5, <2>6, <2>7
<1> QED BY <1>3, <1>4, <1>5

\* The queue serves a call.
LEMMA DecisionServed ==
    ASSUME Inv, NEW from \in DOMAIN calls, Awaited(from), calls[from].tool \in Mutations,
           ServeDecision(from), UNCHANGED <<renames, save, requests, decisions, snapshot>>
    PROVE  Inv'
<1> PICK n : n = calls[from].arg
  OBVIOUS
<1> PICK status : status = DecidedAs(calls[from].tool)
  OBVIOUS
<1>0. n \in DOMAIN queue /\ queue \in Seq(Proposed) /\ status \in {"approved", "rejected"}
  BY DEF Inv, Types, CallFits, DecidedAs
<1>1. \A id \in DOMAIN queue : queue[id] \in Proposed /\ id \in Nat
  BY <1>0
<1>2. "unknown" \in Codes \ {"invalid_params"} /\ "conflict" \in Codes \ {"invalid_params"}
  BY DEF Codes
<1>3. CASE queue[n].status # "pending"
  <2>1. Answers(from, Refusal("conflict")) /\ queue' = queue
    BY <1>3 DEF ServeDecision
  <2> QED BY <1>2, <2>1, Refused DEF Answers
<1>4. CASE queue[n].status = "pending"
  <2> PICK e : e = [queue[n] EXCEPT !.status = status]
    OBVIOUS
  <2> PICK a : a = [Reply EXCEPT !.id = n, !.status = status]
    OBVIOUS
  <2>1. queue' = [queue EXCEPT ![n] = e] /\ Answers(from, a)
    BY <1>4 DEF ServeDecision
  <2>2. e \in Proposed /\ e.status = status /\ e.request = queue[n].request
    BY <1>0, <1>1 DEF Proposed, Statuses
  <2>3. /\ queue' \in Seq(Proposed) /\ DOMAIN queue' = DOMAIN queue /\ queue'[n] = e
        /\ \A id \in DOMAIN queue \ {n} : queue'[id] = queue[id]
    BY <1>0, <2>1, <2>2
  <2>4. GrowsTo(queue, queue')
    BY <1>4, <2>2, <2>3 DEF GrowsTo
  <2>5. a \in Replies /\ a.error = None /\ a.ids = {}
    BY <1>0, <1>1 DEF Reply, Replies, Statuses
  <2>6. CASE calls' = [calls EXCEPT ![from].answer = a]
    <3>1. Fits(queue', [tool |-> calls[from].tool, arg |-> n, answer |-> a])
      BY <2>2, <2>3, <2>5 DEF Fits, Mutations
    <3> QED BY <2>3, <2>4, <2>6, <3>1, Served
  <2>7. CASE calls' = [calls EXCEPT ![from].answer = Refusal("unknown")]
    <3> PICK r : r = Refusal("unknown")
      OBVIOUS
    <3>1. r \in Replies /\ r.error = "unknown" /\ r.ids = {} /\ "unknown" # None
      BY <1>2, RefusalFits
    <3>2. Fits(queue', [tool |-> calls[from].tool, arg |-> calls[from].arg, answer |-> r])
      BY <3>1 DEF Fits
    <3> QED BY <2>3, <2>4, <2>7, <3>2, Served
  <2> QED BY <2>1, <2>6, <2>7 DEF Answers
<1> QED BY <1>3, <1>4

LEMMA ListServed ==
    ASSUME Inv, NEW from \in DOMAIN calls, Awaited(from), calls[from].tool = "list",
           ServeList(from), UNCHANGED <<renames, save, requests, decisions, snapshot>>
    PROVE  Inv'
<1> PICK status : status = calls[from].arg
  OBVIOUS
<1>0. queue \in Seq(Proposed) /\ queue' = queue
  BY DEF Inv, Types, ServeList
<1>1. PICK n \in 0 .. MaxRequests, full \in BOOLEAN :
         Answers(from, [Reply EXCEPT
                    !.ids = {id \in {i \in DOMAIN queue : queue[i].status = status} : id > n},
                    !.full = full])
  BY DEF ServeList
<1> PICK ids : ids = {id \in {i \in DOMAIN queue : queue[i].status = status} : id > n}
  OBVIOUS
<1> PICK a : a = [Reply EXCEPT !.ids = ids, !.full = full]
  OBVIOUS
<1>2. ids \subseteq DOMAIN queue /\ ids \in SUBSET Nat
      /\ \A id \in ids : queue[id].status = status
  BY <1>0
<1>3. a \in Replies /\ a.error = None /\ a.ids = ids
  BY <1>2 DEF Reply, Replies
<1>4. Answers(from, a)
  BY <1>1
<1>5. CASE calls' = [calls EXCEPT ![from].answer = a]
  <2>1. Fits(queue, [tool |-> calls[from].tool, arg |-> status, answer |-> a])
    BY <1>2, <1>3 DEF Fits, Mutations
  <2> QED BY <1>0, <1>5, <2>1, SameQueue, Served
<1>6. CASE calls' = [calls EXCEPT ![from].answer = Refusal("unknown")]
  <2>1. "unknown" \in Codes \ {"invalid_params"}
    BY DEF Codes
  <2> QED BY <1>0, <1>6, <2>1, Refused
<1> QED BY <1>4, <1>5, <1>6 DEF Answers

LEMMA ServeKeeps ==
    ASSUME Inv, NEW from \in DOMAIN calls, Serve(from)
    PROVE  Inv'
<1>1. Awaited(from) /\ UNCHANGED <<renames, save, requests, decisions, snapshot>>
  BY DEF Serve, list
<1>2. CASE ServeFails(from)
  <2>1. "unknown" \in Codes \ {"invalid_params"}
    BY DEF Codes
  <2> QED BY <1>1, <1>2, <2>1, Refused DEF ServeFails
<1> QED BY <1>1, <1>2, ProposeServed, DecisionServed, ListServed DEF Serve, Mutations

LEMMA OthersKeep ==
    ASSUME Inv, NEW n \in DOMAIN queue, OthersDecide(n)
    PROVE  Inv'
<1>0. queue \in Seq(Proposed) /\ queue[n].status = "pending"
  BY DEF Inv, Types, OthersDecide
<1>1. PICK status \in {"approved", "rejected"} : queue' = [queue EXCEPT ![n].status = status]
  BY DEF OthersDecide
<1> PICK e : e = [queue[n] EXCEPT !.status = status]
  OBVIOUS
<1>2. e \in Proposed /\ e.status = status /\ e.request = queue[n].request
  <2>1. queue[n] \in Proposed
    BY <1>0
  <2> QED BY <2>1 DEF Proposed, Statuses
<1>3. /\ queue' \in Seq(Proposed) /\ DOMAIN queue' = DOMAIN queue /\ queue'[n] = e
      /\ \A id \in DOMAIN queue \ {n} : queue'[id] = queue[id]
  BY <1>0, <1>1, <1>2
<1>4. GrowsTo(queue, queue')
  BY <1>0, <1>2, <1>3 DEF GrowsTo
<1>5. UNCHANGED <<renames, calls, save, requests, decisions, snapshot>>
  BY DEF OthersDecide, list
<1>6. \A c \in DOMAIN calls : CallFits(queue', c, calls[c])
  BY <1>3, <1>4, CallStays DEF Inv
<1>7. SaveFits(queue', save) /\ \A id \in Ids : DecisionFits(queue', id, decisions[id])
  BY <1>3, <1>4, SaveStays, DecisionStays DEF Inv, SaveHeld, DecisionsHeld
<1>8. Types'
  BY <1>3, <1>5 DEF Inv, Types
<1> QED BY <1>5, <1>6, <1>7, <1>8 DEF Inv, SaveHeld, DecisionsHeld, Awaits

-----------------------------------------------------------------------------
(* The form. *)

\* A step of the operation that saves an entry: it rests, or it asks for something.
LEMMA SaveRests ==
    ASSUME Inv, NEW s \in Saves, SaveFits(queue, s), Rests(s),
           UNCHANGED <<queue, renames, requests, decisions, snapshot>>
    PROVE  Inv'
<1>1. /\ save' = s /\ DOMAIN calls' = DOMAIN calls \ {SaveCall}
      /\ \A c \in DOMAIN calls' : calls'[c] = calls[c]
  BY Dropped DEF Rests
<1>2. Types'
  BY <1>1 DEF Inv, Types
<1>3. \A c \in DOMAIN calls' : CallFits(queue, c, calls'[c])
  BY <1>1 DEF Inv
<1>4. SaveHeld'
  BY <1>1 DEF SaveHeld
<1>5. DecisionsHeld'
  BY <1>1, CallsDiffer DEF Inv, DecisionsHeld
<1> QED BY <1>2, <1>3, <1>4, <1>5 DEF Inv

\* The form moves on: it asks, fails, proposes, approves.
LEMMA SaveAsks ==
    ASSUME Inv, NEW s \in Saves, SaveFits(queue, s), save' = s,
           NEW tool \in {"propose", "approve", "list"}, NEW arg, calls' = Ask(SaveCall, tool, arg),
           Awaits(s, [tool |-> tool, arg |-> arg, answer |-> None]),
           tool = "propose" => arg.request \in Nat,
           requests' \in Nat, UNCHANGED <<queue, renames, decisions, snapshot>>
    PROVE  Inv'
<1> PICK call : call = [tool |-> tool, arg |-> arg, answer |-> None]
  OBVIOUS
<1>1. /\ DOMAIN calls' = DOMAIN calls \cup {SaveCall} /\ calls'[SaveCall] = call
      /\ \A c \in DOMAIN calls \ {SaveCall} : calls'[c] = calls[c]
  BY DEF Ask
<1>2. Types'
  BY DEF Inv, Types
<1>3. CallFits(queue, SaveCall, call)
  <2>1. tool = "approve" => arg \in DOMAIN queue
    BY DEF Awaits, SaveFits
  <2>2. tool = "list" => arg \in Statuses
    BY DEF Awaits, Statuses
  <2>3. tool \in {"propose", "list"} \cup Mutations /\ (tool \in Mutations => tool = "approve")
    BY DEF Mutations
  <2> QED BY <2>1, <2>2, <2>3, FreshFits
<1>4. \A c \in DOMAIN calls' : CallFits(queue, c, calls'[c])
  BY <1>1, <1>3 DEF Inv
<1>5. SaveHeld'
  BY <1>1 DEF SaveHeld
<1>6. DecisionsHeld'
  BY <1>1, CallsDiffer DEF Inv, DecisionsHeld
<1> QED BY <1>2, <1>4, <1>5, <1>6 DEF Inv

LEMMA FailsKeeps ==
    ASSUME Inv, NEW s \in Saves, NEW code \in Codes, Fails(s, code),
           s.id # 0 => s.id \in DOMAIN queue /\ queue[s.id].request = s.request,
           s.id = 0 /\ code = "invalid_params" =>
              \A id \in DOMAIN queue : queue[id].request # s.request,
           UNCHANGED <<queue, renames, requests, decisions, snapshot>>
    PROVE  Inv'
<1> PICK t : t = [s EXCEPT !.phase = "error", !.error = code]
  OBVIOUS
<1>1. /\ t \in Saves /\ t.phase = "error" /\ t.error = code /\ t.id = s.id
      /\ t.request = s.request
  BY DEF Saves
<1>2. SaveFits(queue, t)
  BY <1>1 DEF SaveFits, CanCorrectSave, Codes
<1> QED BY <1>1, <1>2, SaveRests DEF Fails

LEMMA ProposesKeeps ==
    ASSUME Inv, NEW s \in Saves, s.id = 0, Proposes(s), requests' \in Nat,
           UNCHANGED <<queue, renames, decisions, snapshot>>
    PROVE  Inv'
<1> PICK t : t = [s EXCEPT !.phase = "proposing", !.error = None]
  OBVIOUS
<1> PICK arg : arg = [request |-> s.request, content |-> s.content]
  OBVIOUS
<1>1. t \in Saves /\ t.phase = "proposing" /\ t.id = 0 /\ t.request = s.request
  BY DEF Saves, Busy
<1>2. save' = t /\ calls' = Ask(SaveCall, "propose", arg)
  BY DEF Proposes
<1>3. SaveFits(queue, t)
  BY <1>1 DEF SaveFits, CanCorrectSave
<1>4. arg.request = s.request /\ arg.request \in Nat
  BY DEF Saves
<1>5. Awaits(t, [tool |-> "propose", arg |-> arg, answer |-> None])
  BY <1>1, <1>4 DEF Awaits
<1> QED BY <1>1, <1>2, <1>3, <1>4, <1>5, SaveAsks

LEMMA ApprovesKeeps ==
    ASSUME Inv, NEW s \in Saves, s.id # 0, s.id \in DOMAIN queue,
           queue[s.id].request = s.request, Approves(s),
           UNCHANGED <<queue, renames, requests, decisions, snapshot>>
    PROVE  Inv'
<1>1. CASE s.id \in locked
  <2>1. Fails(s, "busy") /\ "busy" \in Codes
    BY <1>1 DEF Approves, Codes
  <2> QED BY <2>1, FailsKeeps
<1>2. CASE s.id \notin locked
  <2> PICK t : t = [s EXCEPT !.phase = "approving", !.error = None]
    OBVIOUS
  <2>1. t \in Saves /\ t.phase = "approving" /\ t.id = s.id /\ t.request = s.request
    BY DEF Saves, Busy
  <2>2. save' = t /\ calls' = Ask(SaveCall, "approve", s.id)
    BY <1>2 DEF Approves
  <2>3. SaveFits(queue, t)
    BY <2>1 DEF SaveFits, CanCorrectSave
  <2>4. Awaits(t, [tool |-> "approve", arg |-> s.id, answer |-> None])
    BY <2>1 DEF Awaits
  <2>5. requests' \in Nat
    BY DEF Inv, Types
  <2> QED BY <2>1, <2>2, <2>3, <2>4, <2>5, SaveAsks
<1> QED BY <1>1, <1>2

\* The search for the outcome of a proposal that is known to be made.
LEMMA AsksForKeeps ==
    ASSUME Inv, NEW s \in Saves, s.id # 0, SaveFits(queue, s),
           s.phase \in {"confirming", "already", "checking"},
           NEW status \in {"approved", "rejected"}, AsksFor(s, status),
           UNCHANGED <<queue, renames, requests, decisions, snapshot>>
    PROVE  Inv'
<1>1. save' = s /\ calls' = Ask(SaveCall, "list", status)
  BY DEF AsksFor, Find
<1>2. Awaits(s, [tool |-> "list", arg |-> status, answer |-> None])
  BY DEF Awaits
<1>3. requests' \in Nat
  BY DEF Inv, Types
<1> QED BY <1>1, <1>2, <1>3, SaveAsks

\* What the user asks of the form.
LEMMA FormKeeps ==
    ASSUME Inv,
           \/ \E content \in Contents : StartSave(content)
           \/ Retry \/ CheckStatus \/ ClearAfterReview
    PROVE  Inv'
<1>1. ASSUME NEW content \in Contents, StartSave(content) PROVE Inv'
  <2> PICK s : s = [request |-> requests + 1, content |-> content, phase |-> "paused",
                    id |-> 0, error |-> None]
    OBVIOUS
  <2>1. /\ Proposes(s) /\ requests' = requests + 1
        /\ UNCHANGED <<queue, renames, decisions, snapshot>>
    BY <1>1 DEF StartSave, list
  <2>2. requests + 1 \in Nat
    BY DEF Inv, Types
  <2>3. s \in Saves /\ s.id = 0
    BY <2>2 DEF Saves
  <2> QED BY <2>1, <2>2, <2>3, ProposesKeeps
<1>2. ASSUME Retry PROVE Inv'
  <2>1. /\ save \in Saves /\ SaveFits(queue, save) /\ requests \in Nat
        /\ UNCHANGED <<queue, renames, requests, decisions, snapshot>>
    BY <1>2 DEF Retry, Inv, Types, SaveHeld, list
  <2>2. CASE save.id = 0
    <3>1. Proposes(save) /\ requests' \in Nat
      BY <1>2, <2>1, <2>2 DEF Retry
    <3> QED BY <2>1, <2>2, <3>1, ProposesKeeps
  <2>3. CASE save.id # 0
    <3>1. Approves(save) /\ save.id \in DOMAIN queue /\ queue[save.id].request = save.request
      BY <1>2, <2>1, <2>3 DEF Retry, SaveFits
    <3> QED BY <2>1, <2>3, <3>1, ApprovesKeeps
  <2> QED BY <2>2, <2>3
<1>3. ASSUME CheckStatus PROVE Inv'
  <2> PICK t : t = [save EXCEPT !.phase = "checking"]
    OBVIOUS
  <2>1. /\ save \in Saves /\ SaveFits(queue, save) /\ save.id # 0
        /\ AsksFor(t, "approved")
        /\ UNCHANGED <<queue, renames, requests, decisions, snapshot>>
    BY <1>3 DEF CheckStatus, Inv, Types, SaveHeld, list
  <2>2. t \in Saves /\ t.phase = "checking" /\ t.id = save.id /\ t.request = save.request
    BY <2>1 DEF Saves, Busy
  <2>3. SaveFits(queue, t)
    BY <2>1, <2>2 DEF SaveFits, CanCorrectSave
  <2> QED BY <2>1, <2>2, <2>3, AsksForKeeps
<1>4. ASSUME ClearAfterReview PROVE Inv'
  <2>1. /\ save \in Saves /\ save' = None /\ save.phase \in {"complete", "rejected", "error"}
        /\ UNCHANGED <<queue, renames, calls, requests, decisions, snapshot>>
    BY <1>4 DEF ClearAfterReview, Inv, Types, CanCorrectSave, list
  <2>2. SaveCall \notin DOMAIN calls
    BY <2>1 DEF Inv, SaveHeld, Awaits
  <2>3. SaveHeld'
    BY <2>1, <2>2, NoneIsNothing DEF SaveHeld, SaveFits
  <2>4. Types' /\ DecisionsHeld'
    BY <2>1 DEF Inv, Types, DecisionsHeld
  <2> QED BY <2>1, <2>3, <2>4 DEF Inv
<1> QED BY <1>1, <1>2, <1>3, <1>4

\* An answer to the form.
LEMMA AnswerKeeps ==
    ASSUME Inv, SaveGoesOn
    PROVE  Inv'
<1> PICK call : call = calls[SaveCall]
  OBVIOUS
<1> PICK answer : answer = call.answer
  OBVIOUS
<1>0. /\ SaveCall \in DOMAIN calls /\ answer # None
      /\ UNCHANGED <<queue, renames, requests, decisions, snapshot>>
  BY DEF SaveGoesOn, Answered, list
<1>1. /\ save \in Saves /\ SaveFits(queue, save) /\ Awaits(save, call) /\ Fits(queue, call)
      /\ queue \in Seq(Proposed)
  BY <1>0 DEF Inv, Types, SaveHeld, CallFits
<1>2. CASE call.tool = "propose"
  <2>1. AfterPropose(answer)
    BY <1>0, <1>2 DEF SaveGoesOn
  <2>2. /\ answer \in Replies /\ save.id = 0 /\ call.arg.request = save.request
        /\ answer.error = "invalid_params" =>
              \A id \in DOMAIN queue : queue[id].request # save.request
        /\ answer.error = None =>
              /\ answer.id \in DOMAIN queue /\ queue[answer.id].request = save.request
              /\ answer.status \in Statuses
              /\ answer.status # "pending" => queue[answer.id].status = answer.status
    BY <1>0, <1>1, <1>2 DEF Awaits, Fits
  <2>3. CASE answer.error # None
    <3>1. Fails(save, answer.error) /\ answer.error \in Codes
      BY <2>1, <2>2, <2>3 DEF AfterPropose, Replies
    <3> QED BY <1>0, <1>1, <2>2, <3>1, FailsKeeps
  <2>4. CASE answer.error = None
    <3> PICK s : s = [save EXCEPT !.id = answer.id]
      OBVIOUS
    <3>1. answer.id \in Nat /\ answer.id # 0
      BY <1>1, <2>2, <2>4
    <3>2. s \in Saves /\ s.id = answer.id /\ s.request = save.request
      BY <1>1, <3>1 DEF Saves
    <3>3. CASE answer.status = "rejected"
      <4> PICK t : t = [s EXCEPT !.phase = "rejected"]
        OBVIOUS
      <4>1. Rests(t)
        BY <2>1, <2>4, <3>3 DEF AfterPropose
      <4>2. t \in Saves /\ t.phase = "rejected" /\ t.id = s.id /\ t.request = s.request
        BY <3>2 DEF Saves
      <4>3. SaveFits(queue, t)
        BY <2>2, <2>4, <3>1, <3>2, <3>3, <4>2 DEF SaveFits, CanCorrectSave
      <4> QED BY <1>0, <4>1, <4>2, <4>3, SaveRests
    <3>4. CASE answer.status = "approved"
      <4> PICK t : t = [s EXCEPT !.phase = "already"]
        OBVIOUS
      <4>1. AsksFor(t, "approved")
        BY <2>1, <2>4, <3>4 DEF AfterPropose
      <4>2. t \in Saves /\ t.phase = "already" /\ t.id = s.id /\ t.request = s.request
        BY <3>2 DEF Saves, Busy
      <4>3. SaveFits(queue, t)
        BY <2>2, <2>4, <3>1, <3>2, <3>4, <4>2 DEF SaveFits, CanCorrectSave
      <4> QED BY <1>0, <3>1, <3>2, <4>1, <4>2, <4>3, AsksForKeeps
    <3>5. CASE answer.status = "pending"
      <4>1. Approves(s)
        BY <2>1, <2>4, <3>5 DEF AfterPropose
      <4> QED BY <1>0, <2>2, <2>4, <3>1, <3>2, <4>1, ApprovesKeeps
    <3> QED BY <2>2, <2>4, <3>3, <3>4, <3>5 DEF Statuses
  <2> QED BY <2>3, <2>4
<1>3. CASE call.tool = "approve"
  <2>1. AfterApprove(answer) /\ answer \in Replies
    BY <1>0, <1>1, <1>3 DEF SaveGoesOn, Fits
  <2>2. save.id # 0 /\ save.id \in DOMAIN queue /\ queue[save.id].request = save.request
    BY <1>1, <1>3 DEF Awaits, SaveFits
  <2>3. CASE answer.error = None
    <3> PICK t : t = [save EXCEPT !.phase = "complete"]
      OBVIOUS
    <3>1. Rests(t)
      BY <2>1, <2>3, NoneIsNothing DEF AfterApprove, Codes
    <3>2. t \in Saves /\ t.phase = "complete" /\ t.id = save.id /\ t.request = save.request
      BY <1>1 DEF Saves
    <3>3. queue[save.id].status = "approved"
      BY <1>0, <1>1, <1>3, <2>3 DEF Awaits, Fits, Mutations, DecidedAs
    <3>4. SaveFits(queue, t)
      BY <2>2, <3>2, <3>3 DEF SaveFits, CanCorrectSave
    <3> QED BY <1>0, <3>1, <3>2, <3>4, SaveRests
  <2>4. CASE answer.error = "conflict"
    <3> PICK t : t = [save EXCEPT !.phase = "confirming", !.error = "conflict"]
      OBVIOUS
    <3>1. AsksFor(t, "approved")
      BY <2>1, <2>4, NoneIsNothing DEF AfterApprove, Codes
    <3>2. t \in Saves /\ t.phase = "confirming" /\ t.id = save.id /\ t.request = save.request
      BY <1>1 DEF Saves, Busy, Codes
    <3>3. SaveFits(queue, t)
      BY <2>2, <3>2 DEF SaveFits, CanCorrectSave
    <3> QED BY <1>0, <2>2, <3>1, <3>2, <3>3, AsksForKeeps
  <2>5. CASE answer.error \notin {None, "conflict"}
    <3>1. Fails(save, answer.error) /\ answer.error \in Codes
      BY <2>1, <2>5 DEF AfterApprove, Replies
    <3> QED BY <1>0, <1>1, <2>2, <3>1, FailsKeeps
  <2> QED BY <2>3, <2>4, <2>5
<1>4. CASE call.tool = "list"
  <2> PICK status : status = call.arg
    OBVIOUS
  <2>1. AfterFind(status, answer) /\ answer \in Replies
    BY <1>0, <1>1, <1>4 DEF SaveGoesOn, Fits
  <2>2. /\ save.id # 0 /\ save.id \in DOMAIN queue /\ queue[save.id].request = save.request
        /\ save.phase \in {"confirming", "already", "checking"}
        /\ status \in {"approved", "rejected"}
    BY <1>1, <1>4 DEF Awaits, SaveFits
  <2>3. CASE answer.error = None /\ save.id \in answer.ids
    <3> PICK phase : phase = IF status = "approved" \/ save.phase = "already"
                             THEN "complete" ELSE "rejected"
      OBVIOUS
    <3> PICK t : t = [save EXCEPT !.phase = phase, !.error = None]
      OBVIOUS
    <3>1. Rests(t)
      BY <2>1, <2>3 DEF AfterFind
    <3>2. /\ t \in Saves /\ t.phase = phase /\ t.id = save.id /\ t.request = save.request
          /\ phase \in {"complete", "rejected"}
      BY <1>1 DEF Saves
    <3>3. queue[save.id].status = status
      BY <1>0, <1>1, <1>4, <2>2, <2>3 DEF Fits
    <3>4. save.phase = "already" => queue[save.id].status = "approved"
      BY <1>1 DEF SaveFits
    <3>5. queue[save.id].status = IF phase = "complete" THEN "approved" ELSE "rejected"
      BY <2>2, <3>3, <3>4
    <3>6. SaveFits(queue, t)
      BY <2>2, <3>2, <3>5 DEF SaveFits, CanCorrectSave
    <3> QED BY <1>0, <3>1, <3>2, <3>6, SaveRests
  <2>4. CASE /\ ~(answer.error = None /\ save.id \in answer.ids)
             /\ answer.error = None /\ status = "approved"
    <3>1. AsksFor(save, "rejected")
      BY <2>1, <2>4 DEF AfterFind
    <3> QED BY <1>0, <1>1, <2>2, <3>1, AsksForKeeps
  <2>5. CASE /\ ~(answer.error = None /\ save.id \in answer.ids)
             /\ ~(answer.error = None /\ status = "approved")
    <3> PICK phase : phase = IF save.phase = "already" THEN "complete" ELSE "error"
      OBVIOUS
    <3> PICK t : t = [save EXCEPT !.phase = phase]
      OBVIOUS
    <3>1. Rests(t)
      BY <2>1, <2>5 DEF AfterFind
    <3>2. /\ t \in Saves /\ t.phase = phase /\ t.id = save.id /\ t.request = save.request
          /\ phase \in {"complete", "error"} /\ (phase = "complete" => save.phase = "already")
      BY <1>1 DEF Saves
    <3>3. SaveFits(queue, t)
      BY <1>1, <2>2, <3>2 DEF SaveFits, CanCorrectSave
    <3> QED BY <1>0, <3>1, <3>2, <3>3, SaveRests
  <2> QED BY <2>3, <2>4, <2>5
<1>5. call.tool \in {"propose", "approve", "list"}
  BY <1>1 DEF Awaits
<1> QED BY <1>2, <1>3, <1>4, <1>5
-----------------------------------------------------------------------------
(* The list. *)

PanelFits ==
    /\ panel = [status |-> panel.status, attempt |-> panel.attempt, fetched |-> panel.fetched]
    /\ panel.status \in Statuses

\* The panel shows one key at a time and has at most one request for it.
LEMMA PanelKeeps ==
    ASSUME PanelFits, [Next]_vars
    PROVE  PanelFits'
<1>1. CASE UNCHANGED panel
  BY <1>1 DEF PanelFits
<1>2. ASSUME NEW status \in Statuses, Select(status) PROVE PanelFits'
  <2>1. panel' = [panel EXCEPT !.status = status]
    BY <1>2 DEF Select
  <2> QED BY <2>1 DEF PanelFits
<1>3. CASE Refresh
  <2>1. panel' = [panel EXCEPT !.attempt = panel.attempt + 1]
    BY <1>3 DEF Refresh
  <2> QED BY <2>1 DEF PanelFits
<1>4. CASE Fetch
  <2> PICK key : key = Key
    OBVIOUS
  <2>1. panel' = [panel EXCEPT !.fetched = key]
    BY <1>4 DEF Fetch
  <2> QED BY <2>1 DEF PanelFits
<1> QED
  BY <1>1, <1>2, <1>3, <1>4
  DEF Next, vars, list, Serve, OthersDecide, RenameHuman, StartSave, Retry, CheckStatus,
      ClearAfterReview, SaveGoesOn, ListGoesOn, Decide, DecisionGoesOn

\* The list's own state and calls are no matter of the form or of the decisions.
LEMMA ListCallsKeep ==
    ASSUME Inv, NEW key,
           DOMAIN calls' \ {ListCall(key)} = DOMAIN calls \ {ListCall(key)},
           \A c \in DOMAIN calls' \ {ListCall(key)} : calls'[c] = calls[c],
           ListCall(key) \in DOMAIN calls' =>
              CallFits(queue, ListCall(key), calls'[ListCall(key)]),
           snapshot'.ids \subseteq DOMAIN queue,
           UNCHANGED <<queue, renames, save, requests, decisions>>
    PROVE  Inv'
<1>1. Types'
  BY DEF Inv, Types
<1>2. \A c \in DOMAIN calls' : CallFits(queue, c, calls'[c])
  BY DEF Inv
<1>3. \A c : c # ListCall(key) => (c \in DOMAIN calls' <=> c \in DOMAIN calls)
  OBVIOUS
<1>4. SaveHeld'
  BY <1>3, CallsDiffer DEF Inv, SaveHeld
<1>5. DecisionsHeld'
  BY <1>3, CallsDiffer DEF Inv, DecisionsHeld
<1> QED BY <1>1, <1>2, <1>4, <1>5 DEF Inv

LEMMA ListKeeps ==
    ASSUME Inv, PanelFits,
           \/ \E status \in Statuses : Select(status)
           \/ Refresh \/ Fetch
           \/ \E key \in Keys : ListGoesOn(key)
    PROVE  Inv'
<1>1. ASSUME \/ \E status \in Statuses : Select(status)
             \/ Refresh
      PROVE  Inv'
  <2>1. UNCHANGED <<queue, renames, calls, save, requests, decisions>> /\ snapshot' = Idle
    BY <1>1 DEF Select, Refresh
  <2>2. snapshot'.ids \subseteq DOMAIN queue
    BY <2>1 DEF Idle
  <2>3. Types' /\ SaveHeld' /\ DecisionsHeld'
    BY <2>1, <2>2 DEF Inv, Types, SaveHeld, DecisionsHeld
  <2> QED BY <2>1, <2>3 DEF Inv
<1>2. ASSUME Fetch PROVE Inv'
  <2> PICK key : key = Key
    OBVIOUS
  <2>1. /\ UNCHANGED <<queue, renames, save, requests, decisions>>
        /\ snapshot' = [Idle EXCEPT !.key = key, !.status = "loading"]
        /\ calls' = IF ListCall(key) \in DOMAIN calls THEN calls
                    ELSE Ask(ListCall(key), "list", panel.status)
    BY <1>2 DEF Fetch
  <2>2. snapshot'.ids \subseteq DOMAIN queue
    BY <2>1 DEF Idle
  <2>3. CASE ListCall(key) \in DOMAIN calls
    BY <2>1, <2>2, <2>3, ListCallsKeep DEF Inv
  <2>4. CASE ListCall(key) \notin DOMAIN calls
    <3> PICK call : call = [tool |-> "list", arg |-> panel.status, answer |-> None]
      OBVIOUS
    <3>1. /\ DOMAIN calls' = DOMAIN calls \cup {ListCall(key)} /\ calls'[ListCall(key)] = call
          /\ \A c \in DOMAIN calls \ {ListCall(key)} : calls'[c] = calls[c]
      BY <2>1, <2>4 DEF Ask
    <3>2. CallFits(queue, ListCall(key), call)
      BY FreshFits DEF PanelFits, Mutations
    <3> QED BY <2>1, <2>2, <3>1, <3>2, ListCallsKeep
  <2> QED BY <2>3, <2>4
<1>3. ASSUME NEW key \in Keys, ListGoesOn(key) PROVE Inv'
  <2> PICK answer : answer = calls[ListCall(key)].answer
    OBVIOUS
  <2>1. /\ UNCHANGED <<queue, renames, save, requests, decisions>>
        /\ \/ snapshot' = snapshot
           \/ snapshot'.ids = answer.ids
        /\ calls' = Without(ListCall(key))
        /\ ListCall(key) \in DOMAIN calls /\ answer # None
    BY <1>3 DEF ListGoesOn, Answered
  <2>2. answer.ids \subseteq DOMAIN queue
    BY <2>1 DEF Inv, CallFits, Fits
  <2>3. snapshot'.ids \subseteq DOMAIN queue
    BY <2>1, <2>2 DEF Inv, Types
  <2>4. /\ DOMAIN calls' = DOMAIN calls \ {ListCall(key)}
        /\ \A c \in DOMAIN calls' : calls'[c] = calls[c]
    BY <2>1, Dropped
  <2> QED BY <2>1, <2>3, <2>4, ListCallsKeep
<1> QED BY <1>1, <1>2, <1>3

-----------------------------------------------------------------------------
(* The decisions. *)

\* A step of the operation on one proposal, of which only its own call is made or dropped.
LEMMA DecisionSteps ==
    ASSUME Inv, NEW id \in Ids, NEW op \in Decisions,
           decisions' = [decisions EXCEPT ![id] = op], DecisionFits(queue, id, op),
           DOMAIN calls' \ {DecisionCall(id)} = DOMAIN calls \ {DecisionCall(id)},
           \A c \in DOMAIN calls' \ {DecisionCall(id)} : calls'[c] = calls[c],
           DecisionCall(id) \in DOMAIN calls' =>
              /\ CallFits(queue, DecisionCall(id), calls'[DecisionCall(id)])
              /\ op.busy /\ calls'[DecisionCall(id)].tool = op.tool
              /\ calls'[DecisionCall(id)].arg = id,
           UNCHANGED <<queue, renames, save, requests, snapshot>>
    PROVE  Inv'
<1>1. /\ decisions' \in [Ids -> Decisions \cup {None}] /\ decisions'[id] = op
      /\ \A other \in Ids \ {id} : decisions'[other] = decisions[other]
  BY DEF Inv, Types
<1>2. Types'
  BY <1>1 DEF Inv, Types
<1>3. \A c \in DOMAIN calls' : CallFits(queue, c, calls'[c])
  BY DEF Inv
<1>4. \A c : c # DecisionCall(id) => (c \in DOMAIN calls' <=> c \in DOMAIN calls)
  OBVIOUS
<1>5. SaveHeld'
  BY <1>4, CallsDiffer DEF Inv, SaveHeld
<1>6. DecisionsHeld'
  <2> SUFFICES ASSUME NEW other \in Ids
               PROVE  /\ DecisionCall(other) \in DOMAIN calls' =>
                            /\ decisions'[other] \in Decisions /\ decisions'[other].busy
                            /\ calls'[DecisionCall(other)].tool = decisions'[other].tool
                            /\ calls'[DecisionCall(other)].arg = other
                      /\ DecisionFits(queue, other, decisions'[other])
    BY DEF DecisionsHeld
  <2>1. CASE other = id
    BY <1>1, <2>1
  <2>2. CASE other # id
    BY <1>1, <1>4, <2>2, CallsDiffer DEF Inv, DecisionsHeld
  <2> QED BY <2>1, <2>2
<1> QED BY <1>2, <1>3, <1>5, <1>6 DEF Inv

\* A decision that has ended says what became of its proposal.
LEMMA FinishedFits ==
    ASSUME NEW q, NEW id, NEW op \in Decisions, NEW error \in Codes \cup {None},
           error = None => id \in DOMAIN q /\ q[id].status = DecidedAs(op.tool),
           NEW d, d = [op EXCEPT !.busy = FALSE, !.error = error,
                                 !.output = IF error = None THEN DecidedAs(op.tool) ELSE None]
    PROVE  d \in Decisions /\ DecisionFits(q, id, d)
<1> PICK output : output = IF error = None THEN DecidedAs(op.tool) ELSE None
  OBVIOUS
<1>1. output \in {None, "approved", "rejected"}
  BY DEF DecidedAs
<1>2. d = [op EXCEPT !.busy = FALSE, !.error = error, !.output = output]
  OBVIOUS
<1>3. d \in Decisions
  BY <1>1, <1>2 DEF Decisions
<1>4. d.output = output
  BY <1>2 DEF Decisions
<1>5. DecisionFits(q, id, d)
  BY <1>3, <1>4 DEF DecisionFits
<1> QED BY <1>3, <1>5

LEMMA DecideKeeps ==
    ASSUME Inv, NEW id \in Ids, NEW tool \in Mutations, Decide(id, tool)
    PROVE  Inv'
<1> PICK op : op = [tool |-> tool, busy |-> TRUE, error |-> None, output |-> None]
  OBVIOUS
<1>1. op \in Decisions /\ op.tool = tool /\ op.output = None /\ op.busy
  BY Zenon DEF Decisions
<1>2. id \in DOMAIN queue /\ UNCHANGED <<queue, renames, save, requests, snapshot>>
  BY DEF Decide, Shown, Inv, Types, list
<1>3. CASE id \in locked
  <2> PICK error : error = "busy"
    OBVIOUS
  <2> PICK d : d = [op EXCEPT !.busy = FALSE, !.error = error,
                              !.output = IF error = None THEN DecidedAs(op.tool) ELSE None]
    OBVIOUS
  <2>1. decisions' = [decisions EXCEPT ![id] = d] /\ calls' = calls
    BY <1>3 DEF Decide, Finished
  <2>2. error \in Codes \cup {None} /\ error # None
    BY NoneIsNothing DEF Codes
  <2>3. d \in Decisions /\ DecisionFits(queue, id, d)
    BY <1>1, <2>2, FinishedFits
  <2>4. DecisionCall(id) \notin DOMAIN calls
    <3>1. decisions[id] # None => ~decisions[id].busy
      BY DEF Decide
    <3> QED BY <3>1, NoneIsNothing DEF Inv, DecisionsHeld
  <2> QED BY <1>2, <2>1, <2>3, <2>4, DecisionSteps
<1>4. CASE id \notin locked
  <2> PICK call : call = [tool |-> tool, arg |-> id, answer |-> None]
    OBVIOUS
  <2>1. /\ decisions' = [decisions EXCEPT ![id] = op]
        /\ calls' = Ask(DecisionCall(id), tool, id)
    BY <1>4 DEF Decide
  <2>2. /\ DOMAIN calls' = DOMAIN calls \cup {DecisionCall(id)}
        /\ calls'[DecisionCall(id)] = call
        /\ \A c \in DOMAIN calls \ {DecisionCall(id)} : calls'[c] = calls[c]
    BY <2>1 DEF Ask
  <2>3. CallFits(queue, DecisionCall(id), call)
    BY <1>2, FreshFits DEF Mutations
  <2>4. DecisionFits(queue, id, op)
    BY <1>1 DEF DecisionFits
  <2>5. /\ DOMAIN calls' \ {DecisionCall(id)} = DOMAIN calls \ {DecisionCall(id)}
        /\ \A c \in DOMAIN calls' \ {DecisionCall(id)} : calls'[c] = calls[c]
        /\ calls'[DecisionCall(id)].tool = op.tool /\ calls'[DecisionCall(id)].arg = id
    BY <1>1, <2>2
  <2> QED BY <1>1, <1>2, <2>1, <2>2, <2>3, <2>4, <2>5, DecisionSteps
<1> QED BY <1>3, <1>4

LEMMA DecisionAnswerKeeps ==
    ASSUME Inv, NEW id \in Ids, DecisionGoesOn(id)
    PROVE  Inv'
<1> PICK op : op = decisions[id]
  OBVIOUS
<1> PICK error : error = calls[DecisionCall(id)].answer.error
  OBVIOUS
<1> PICK d : d = [op EXCEPT !.busy = FALSE, !.error = error,
                            !.output = IF error = None THEN DecidedAs(op.tool) ELSE None]
  OBVIOUS
<1>1. /\ DecisionCall(id) \in DOMAIN calls /\ calls[DecisionCall(id)].answer # None
      /\ decisions' = [decisions EXCEPT ![id] = d] /\ calls' = Without(DecisionCall(id))
      /\ UNCHANGED <<queue, renames, save, requests, snapshot>>
  BY DEF DecisionGoesOn, Answered, Finished, list
<1>2. /\ CallFits(queue, DecisionCall(id), calls[DecisionCall(id)])
      /\ op \in Decisions /\ calls[DecisionCall(id)].tool = op.tool
      /\ calls[DecisionCall(id)].arg = id
  BY <1>1 DEF Inv, DecisionsHeld
<1>3. op.tool \in Mutations
  BY <1>2 DEF Decisions
<1>4. /\ error \in Codes \cup {None}
      /\ error = None => id \in DOMAIN queue /\ queue[id].status = DecidedAs(op.tool)
  BY <1>1, <1>2, <1>3 DEF CallFits, Fits, Replies
<1>5. d \in Decisions /\ DecisionFits(queue, id, d)
  BY <1>2, <1>4, FinishedFits
<1>6. /\ DOMAIN calls' = DOMAIN calls \ {DecisionCall(id)}
      /\ \A c \in DOMAIN calls' : calls'[c] = calls[c]
  BY <1>1, Dropped
<1> QED BY <1>1, <1>5, <1>6, DecisionSteps

-----------------------------------------------------------------------------
(* The theorems. *)

LEMMA InitInv == Init => Inv /\ PanelFits
<1> SUFFICES ASSUME Init PROVE Inv /\ PanelFits
  OBVIOUS
<1>1. /\ queue = <<>> /\ renames = 0 /\ requests = 0 /\ save = None /\ DOMAIN calls = {}
      /\ decisions = [id \in Ids |-> None] /\ snapshot.ids = {}
  BY DEF Init, Idle
<1>2. Types
  BY <1>1 DEF Types
<1>3. SaveHeld /\ DecisionsHeld
  BY <1>1, NoneIsNothing DEF SaveHeld, SaveFits, DecisionsHeld, DecisionFits, Decisions
<1>4. PanelFits
  BY DEF Init, PanelFits, Statuses
<1> QED BY <1>1, <1>2, <1>3, <1>4 DEF Inv

LEMMA NextKeeps ==
    ASSUME Inv, PanelFits, [Next]_vars
    PROVE  Inv'
<1>1. ASSUME NEW from \in DOMAIN calls, Serve(from) PROVE Inv'
  BY <1>1, ServeKeeps
<1>2. ASSUME NEW id \in DOMAIN queue, OthersDecide(id) PROVE Inv'
  BY <1>2, OthersKeep
<1>3. ASSUME RenameHuman PROVE Inv'
  <2>1. /\ renames' = renames + 1
        /\ UNCHANGED <<queue, calls, save, requests, decisions, snapshot>>
    BY <1>3 DEF RenameHuman, list
  <2>2. Types' /\ SaveHeld' /\ DecisionsHeld'
    BY <2>1 DEF Inv, Types, SaveHeld, DecisionsHeld
  <2> QED BY <2>1, <2>2 DEF Inv
<1>4. CASE UNCHANGED vars
  <2>1. UNCHANGED <<queue, renames, calls, save, requests, decisions, snapshot>>
    BY <1>4 DEF vars, list
  <2>2. Types' /\ SaveHeld' /\ DecisionsHeld'
    BY <2>1 DEF Inv, Types, SaveHeld, DecisionsHeld
  <2> QED BY <2>1, <2>2 DEF Inv
<1>5. ASSUME \/ \E content \in Contents : StartSave(content)
             \/ Retry \/ CheckStatus \/ ClearAfterReview \/ SaveGoesOn
      PROVE  Inv'
  BY <1>5, FormKeeps, AnswerKeeps
<1>6. ASSUME \/ \E status \in Statuses : Select(status)
             \/ Refresh \/ Fetch
             \/ \E key \in Keys : ListGoesOn(key)
      PROVE  Inv'
  BY <1>6, ListKeeps
<1>7. ASSUME NEW id \in Ids,
             (\E tool \in Mutations : Decide(id, tool)) \/ DecisionGoesOn(id)
      PROVE  Inv'
  BY <1>7, DecideKeeps, DecisionAnswerKeeps DEF Mutations
<1> QED BY <1>1, <1>2, <1>3, <1>4, <1>5, <1>6, <1>7 DEF Next

LEMMA AlwaysInv == Spec => []Inv
<1>1. Inv /\ PanelFits /\ [Next]_vars => Inv' /\ PanelFits'
  BY NextKeeps, PanelKeeps
<1> QED BY InitInv, <1>1, PTL DEF Spec

\* What the form and the list report of a proposal is what the queue holds, however many
\* answers were lost, and whoever else decided.  ManualSave, ProposalDecisions.
THEOREM WindowAlwaysTruthful == Spec => []WindowTellsTheTruth
<1>1. Inv => WindowTellsTheTruth
  <2> SUFFICES ASSUME Inv PROVE WindowTellsTheTruth
    OBVIOUS
  <2>1. ASSUME save # None
        PROVE  /\ save.id # 0 => queue[save.id].request = save.request
               /\ save.phase = "complete" => queue[save.id].status = "approved"
               /\ save.phase = "rejected" => queue[save.id].status = "rejected"
    BY <2>1 DEF Inv, Types, SaveHeld, SaveFits
  <2>2. ASSUME NEW id \in Ids, decisions[id] # None, decisions[id].output # None
        PROVE  queue[id].status = decisions[id].output
    BY <2>2 DEF Inv, Types, DecisionsHeld, DecisionFits
  <2> QED BY <2>1, <2>2 DEF WindowTellsTheTruth
<1> QED BY AlwaysInv, <1>1, PTL

\* The entry of a form given back for correction was never proposed, so that a second
\* start cannot propose it twice.  canCorrectSave, clearAfterReview.
THEOREM OnlyUnproposedCorrected == Spec => []CorrectsOnlyUnproposed
<1>1. Inv => CorrectsOnlyUnproposed
  BY DEF Inv, Types, SaveHeld, SaveFits, CorrectsOnlyUnproposed, OfRequest
<1> QED BY AlwaysInv, <1>1, PTL
-----------------------------------------------------------------------------
(* The list is not older than what was decided here. *)

\* What a list of the current revision holds of the decisions that have finished.
ListFresh(key, ids, full) ==
    key[3] = revision =>
        \A id \in Ids : Decided(id) =>
            /\ key[1] = "pending" => id \notin ids
            /\ key[1] = decisions[id].output /\ ~full => id \in ids

ListCallFresh(key, call) ==
    /\ call.tool = "list" /\ call.arg = key[1]
    /\ key[3] \in Nat /\ key[3] <= revision
    /\ call.answer # None /\ call.answer.error = None =>
          ListFresh(key, call.answer.ids, call.answer.full)

SnapshotFresh ==
    snapshot.status = "success" =>
        /\ snapshot.key[3] \in Nat /\ snapshot.key[3] <= revision
        /\ ListFresh(snapshot.key, snapshot.ids, snapshot.full)

\* A conflict says that the proposal was decided, by whomever.
ConflictTold(q, call) ==
    call.tool \in Mutations /\ call.answer # None /\ call.answer.error = "conflict" =>
        q[call.arg].status # "pending"

DecidedTold(q) ==
    \A id \in Ids : Decided(id) => id \in DOMAIN q /\ q[id].status # "pending"

Fresh ==
    /\ revision \in Nat
    /\ \A key : ListCall(key) \in DOMAIN calls => ListCallFresh(key, calls[ListCall(key)])
    /\ SnapshotFresh
    /\ \A from \in DOMAIN calls : ConflictTold(queue, calls[from])
    /\ DecidedTold(queue)

\* Lists of different keys are different calls.
LEMMA ListCallsDiffer == \A key, other : ListCall(key) = ListCall(other) => key = other
BY DEF ListCall

\* A step of the form, or of a decision: no list is asked for or answered.
LEMMA FreshOtherCall ==
    ASSUME Fresh, NEW from, \A key : from # ListCall(key),
           DOMAIN calls' \ {from} = DOMAIN calls \ {from},
           \A c \in DOMAIN calls' \ {from} : calls'[c] = calls[c],
           from \in DOMAIN calls' => calls'[from].answer = None,
           UNCHANGED <<queue, decisions, revision, snapshot>>
    PROVE  Fresh'
<1>1. \A key : ListCall(key) \in DOMAIN calls' =>
          ListCall(key) \in DOMAIN calls /\ calls'[ListCall(key)] = calls[ListCall(key)]
  OBVIOUS
<1>2. (\A key : ListCall(key) \in DOMAIN calls => ListCallFresh(key, calls[ListCall(key)]))'
  BY <1>1 DEF Fresh, ListCallFresh, ListFresh, Decided
<1>3. (SnapshotFresh /\ DecidedTold(queue))'
  BY DEF Fresh, SnapshotFresh, ListFresh, DecidedTold, Decided
<1>4. ASSUME NEW c \in DOMAIN calls' PROVE ConflictTold(queue, calls'[c])
  <2>1. CASE c = from
    BY <2>1 DEF ConflictTold
  <2>2. CASE c # from
    BY <1>4, <2>2 DEF Fresh
  <2> QED BY <2>1, <2>2
<1>5. (\A c \in DOMAIN calls : ConflictTold(queue, calls[c]))'
  BY <1>4
<1> QED BY <1>2, <1>3, <1>5 DEF Fresh

\* A call is answered.
LEMMA FreshServed ==
    ASSUME Inv, Fresh, NEW from \in DOMAIN calls, NEW a,
           calls' = [calls EXCEPT ![from].answer = a], GrowsTo(queue, queue'),
           calls[from].tool \in Mutations /\ a.error = "conflict" =>
              queue'[calls[from].arg].status # "pending",
           \A key : from = ListCall(key) /\ a.error = None => ListFresh(key, a.ids, a.full),
           UNCHANGED <<decisions, revision, snapshot>>
    PROVE  Fresh'
<1>0. \A c \in DOMAIN calls : CallFits(queue, c, calls[c])
  BY DEF Inv
<1>1. /\ DOMAIN calls' = DOMAIN calls
      /\ \A c \in DOMAIN calls \ {from} : calls'[c] = calls[c]
      /\ calls'[from] = [calls[from] EXCEPT !.answer = a]
  OBVIOUS
<1>2. /\ calls'[from].tool = calls[from].tool /\ calls'[from].arg = calls[from].arg
      /\ calls'[from].answer = a
  BY <1>0, <1>1 DEF CallFits
<1>3. ASSUME NEW key, ListCall(key) \in DOMAIN calls
      PROVE  ListCallFresh(key, calls[ListCall(key)])'
  <2>1. ListCallFresh(key, calls[ListCall(key)])
    BY <1>3 DEF Fresh
  <2>2. CASE from = ListCall(key)
    BY <1>2, <2>1, <2>2 DEF ListCallFresh, ListFresh, Decided
  <2>3. CASE from # ListCall(key)
    BY <1>1, <1>3, <2>1, <2>3 DEF ListCallFresh, ListFresh, Decided
  <2> QED BY <2>2, <2>3
<1>4. (SnapshotFresh /\ DecidedTold(queue))'
  BY DEF Fresh, SnapshotFresh, ListFresh, DecidedTold, Decided, GrowsTo
<1>5. ASSUME NEW c \in DOMAIN calls' PROVE ConflictTold(queue', calls'[c])
  <2>1. CASE c = from
    BY <1>2, <2>1 DEF ConflictTold
  <2>2. CASE c # from
    <3>1. calls'[c] = calls[c] /\ c \in DOMAIN calls
      BY <1>1, <1>5, <2>2
    <3>2. ConflictTold(queue, calls[c]) /\ CallFits(queue, c, calls[c])
      BY <1>0, <3>1 DEF Fresh
    <3> QED BY <3>1, <3>2 DEF ConflictTold, CallFits, GrowsTo
  <2> QED BY <2>1, <2>2
<1>6. (\A c \in DOMAIN calls : ConflictTold(queue, calls[c]))'
  BY <1>5
<1>7. (\A key : ListCall(key) \in DOMAIN calls => ListCallFresh(key, calls[ListCall(key)]))'
  BY <1>1, <1>3
<1> QED BY <1>4, <1>6, <1>7 DEF Fresh

\* An answer to the form or to a decision.
LEMMA FreshAnswered ==
    ASSUME Inv, Fresh, NEW from \in DOMAIN calls, calls[from].tool # "list", NEW a,
           Answers(from, a), GrowsTo(queue, queue'),
           calls[from].tool \in Mutations => queue'[calls[from].arg].status # "pending",
           UNCHANGED <<decisions, revision, snapshot>>
    PROVE  Fresh'
<1>1. \A key : from # ListCall(key)
  BY DEF Fresh, ListCallFresh
<1>2. PICK r : calls' = [calls EXCEPT ![from].answer = r]
  BY DEF Answers
<1> QED BY <1>1, <1>2, FreshServed

\* No step makes a list that is held or on its way miss a decision that has finished.
LEMMA ProposeFresh ==
    ASSUME Inv, Fresh, NEW from \in DOMAIN calls, calls[from].tool = "propose",
           ServePropose(from), UNCHANGED <<decisions, revision, snapshot>>
    PROVE  Fresh'
<1>1. PICK a : Answers(from, a)
  BY DEF ServePropose
<1>2. queue' = queue \/ \E e : queue' = Append(queue, e)
  BY DEF ServePropose
<1>3. ASSUME NEW e, queue' = Append(queue, e) PROVE GrowsTo(queue, queue')
  <2>1. queue \in Seq(Proposed)
    BY DEF Inv, Types
  <2>2. /\ DOMAIN queue = 1 .. Len(queue) /\ Len(queue) \in Nat
        /\ \A n \in 1 .. Len(queue) : queue'[n] = queue[n]
        /\ DOMAIN queue' = 1 .. Len(queue) + 1
    BY <1>3, <2>1
  <2> QED BY <2>2 DEF GrowsTo
<1>4. GrowsTo(queue, queue')
  BY <1>2, <1>3, SameQueue
<1> QED BY <1>1, <1>4, FreshAnswered DEF Mutations

\* A decision is one way for the queue to grow.
LEMMA Decides ==
    ASSUME NEW n \in DOMAIN queue, queue[n].status = "pending", queue \in Seq(Proposed),
           NEW status \in {"approved", "rejected"},
           queue' = [queue EXCEPT ![n].status = status]
    PROVE  GrowsTo(queue, queue') /\ queue'[n].status = status
<1>1. queue[n] \in Proposed
  OBVIOUS
<1>2. queue'[n] = [queue[n] EXCEPT !.status = status] /\ DOMAIN queue' = DOMAIN queue
  OBVIOUS
<1>3. queue'[n].status = status /\ queue'[n].request = queue[n].request
  BY <1>1, <1>2 DEF Proposed
<1> QED BY <1>2, <1>3 DEF GrowsTo

LEMMA DecisionFresh ==
    ASSUME Inv, Fresh, NEW from \in DOMAIN calls, calls[from].tool \in Mutations,
           ServeDecision(from), UNCHANGED <<decisions, revision, snapshot>>
    PROVE  Fresh'
<1> PICK n : n = calls[from].arg
  OBVIOUS
<1> PICK status : status = DecidedAs(calls[from].tool)
  OBVIOUS
<1>1. n \in DOMAIN queue /\ queue \in Seq(Proposed) /\ status \in {"approved", "rejected"}
  BY DEF Inv, Types, CallFits, DecidedAs
<1>2. PICK a : Answers(from, a)
  BY DEF ServeDecision
<1>3. GrowsTo(queue, queue') /\ queue'[n].status # "pending"
  <2>1. CASE queue[n].status # "pending"
    BY <2>1, SameQueue DEF ServeDecision
  <2>2. CASE queue[n].status = "pending"
    BY <1>1, <2>2, Decides DEF ServeDecision
  <2> QED BY <2>1, <2>2
<1> QED BY <1>2, <1>3, FreshAnswered DEF Mutations

\* The page of an answer that is given now.
LEMMA ListServedFresh ==
    ASSUME Inv, Fresh, NEW from \in DOMAIN calls, calls[from].tool = "list",
           ServeList(from), UNCHANGED <<decisions, revision, snapshot>>
    PROVE  Fresh'
<1> PICK status : status = calls[from].arg
  OBVIOUS
<1>0. queue' = queue /\ GrowsTo(queue, queue') /\ calls[from].tool \notin Mutations
  BY SameQueue DEF ServeList, Mutations
<1>1. PICK n \in 0 .. MaxRequests, full \in BOOLEAN :
         /\ n > 0 => full
         /\ Answers(from, [Reply EXCEPT
                    !.ids = {id \in {i \in DOMAIN queue : queue[i].status = status} : id > n},
                    !.full = full])
  BY DEF ServeList
<1> PICK ids : ids = {id \in {i \in DOMAIN queue : queue[i].status = status} : id > n}
  OBVIOUS
<1> PICK a : a = [Reply EXCEPT !.ids = ids, !.full = full]
  OBVIOUS
<1>2. a.ids = ids /\ a.full = full
  BY DEF Reply
<1>3. ASSUME NEW key, from = ListCall(key) PROVE ListFresh(key, ids, full)
  <2>1. key[1] = status
    BY <1>3 DEF Fresh, ListCallFresh
  <2>2. ASSUME NEW id \in Ids, Decided(id), key[1] = "pending" PROVE id \notin ids
    BY <2>1, <2>2 DEF Fresh, DecidedTold
  <2>3. ASSUME NEW id \in Ids, Decided(id), key[1] = decisions[id].output, ~full
        PROVE  id \in ids
    <3>1. n = 0 /\ id > 0
      BY <1>1, <2>3, DeskAssumption DEF Ids
    <3>2. id \in DOMAIN queue /\ queue[id].status = decisions[id].output
      <4>1. decisions[id] \in Decisions \ {None}
        BY <2>3 DEF Inv, Types, Decided
      <4>2. status # None
        BY NoneIsNothing DEF Inv, CallFits, Statuses
      <4>3. decisions[id].output # None
        BY <2>1, <2>3, <4>2
      <4> QED BY <4>1, <4>3 DEF Inv, DecisionsHeld, DecisionFits
    <3> QED BY <2>1, <2>3, <3>1, <3>2
  <2> QED BY <2>2, <2>3 DEF ListFresh
<1>4. CASE calls' = [calls EXCEPT ![from].answer = a]
  <2>1. \A key : from = ListCall(key) => ListFresh(key, a.ids, a.full)
    BY <1>2, <1>3
  <2> QED BY <1>0, <1>4, <2>1, FreshServed
<1>5. CASE calls' = [calls EXCEPT ![from].answer = Refusal("unknown")]
  <2>1. Refusal("unknown").error # None
    BY RefusalFits DEF Codes
  <2> QED BY <1>0, <1>5, <2>1, FreshServed
<1> QED BY <1>1, <1>4, <1>5 DEF Answers

LEMMA ServeFresh ==
    ASSUME Inv, Fresh, NEW from \in DOMAIN calls, Serve(from)
    PROVE  Fresh'
<1>1. UNCHANGED <<decisions, revision, snapshot>>
  BY DEF Serve, list
<1>2. CASE ServeFails(from)
  <2>1. Refusal("unknown").error # None /\ Refusal("unknown").error # "conflict"
    BY RefusalFits DEF Codes
  <2>2. calls' = [calls EXCEPT ![from].answer = Refusal("unknown")] /\ GrowsTo(queue, queue')
    BY <1>2, SameQueue DEF ServeFails
  <2> QED BY <1>1, <2>1, <2>2, FreshServed
<1> QED BY <1>1, <1>2, ProposeFresh, DecisionFresh, ListServedFresh DEF Serve, Mutations

LEMMA OthersFresh ==
    ASSUME Inv, Fresh, NEW n \in DOMAIN queue, OthersDecide(n)
    PROVE  Fresh'
<1>1. GrowsTo(queue, queue') /\ UNCHANGED <<calls, decisions, revision, snapshot>>
  BY Decides DEF OthersDecide, Inv, Types, list
<1>2. (\A key : ListCall(key) \in DOMAIN calls => ListCallFresh(key, calls[ListCall(key)]))'
  BY <1>1 DEF Fresh, ListCallFresh, ListFresh, Decided
<1>3. (SnapshotFresh /\ DecidedTold(queue))'
  BY <1>1 DEF Fresh, SnapshotFresh, ListFresh, DecidedTold, Decided, GrowsTo
<1>4. (\A from \in DOMAIN calls : ConflictTold(queue, calls[from]))'
  BY <1>1 DEF Fresh, ConflictTold, Inv, CallFits, GrowsTo
<1> QED BY <1>1, <1>2, <1>3, <1>4 DEF Fresh

\* The form makes and drops no call but its own.
LEMMA SaveCallFresh ==
    ASSUME Fresh,
           \/ calls' = calls
           \/ calls' = Without(SaveCall)
           \/ \E tool, arg : calls' = Ask(SaveCall, tool, arg),
           UNCHANGED <<queue, decisions, revision, snapshot>>
    PROVE  Fresh'
<1>1. CASE calls' = calls
  BY <1>1
  DEF Fresh, SnapshotFresh, ListCallFresh, ListFresh, ConflictTold, DecidedTold, Decided
<1>2. CASE calls' = Without(SaveCall)
  BY <1>2, Dropped, CallsDiffer, FreshOtherCall
<1>3. ASSUME NEW tool, NEW arg, calls' = Ask(SaveCall, tool, arg) PROVE Fresh'
  <2>1. /\ DOMAIN calls' = DOMAIN calls \cup {SaveCall}
        /\ calls'[SaveCall].answer = None
        /\ \A c \in DOMAIN calls \ {SaveCall} : calls'[c] = calls[c]
    BY <1>3 DEF Ask
  <2>2. /\ DOMAIN calls' \ {SaveCall} = DOMAIN calls \ {SaveCall}
        /\ \A c \in DOMAIN calls' \ {SaveCall} : calls'[c] = calls[c]
    BY <2>1
  <2>3. \A key : SaveCall # ListCall(key)
    BY CallsDiffer
  <2> QED BY <2>1, <2>2, <2>3, FreshOtherCall
<1> QED BY <1>1, <1>2, <1>3

LEMMA FormFresh ==
    ASSUME Inv, Fresh,
           \/ \E content \in Contents : StartSave(content)
           \/ Retry \/ CheckStatus \/ ClearAfterReview \/ SaveGoesOn
    PROVE  Fresh'
<1>1. UNCHANGED <<queue, decisions, revision, snapshot>>
  BY DEF StartSave, Retry, CheckStatus, ClearAfterReview, SaveGoesOn, list
<1>2. \A s, code : Fails(s, code) => calls' = Without(SaveCall)
  BY DEF Fails, Rests
<1>3. \A s : Proposes(s) => \E tool, arg : calls' = Ask(SaveCall, tool, arg)
  BY DEF Proposes
<1>4. \A s : Approves(s) => calls' = Without(SaveCall)
                            \/ \E tool, arg : calls' = Ask(SaveCall, tool, arg)
  BY <1>2 DEF Approves
<1>5. \A s, status : AsksFor(s, status) => \E tool, arg : calls' = Ask(SaveCall, tool, arg)
  BY DEF AsksFor, Find
<1>6. ASSUME NEW content \in Contents, StartSave(content) PROVE Fresh'
  BY <1>1, <1>3, <1>6, SaveCallFresh DEF StartSave
<1>7. CASE Retry
  BY <1>1, <1>3, <1>4, <1>7, SaveCallFresh DEF Retry
<1>8. CASE CheckStatus
  BY <1>1, <1>5, <1>8, SaveCallFresh DEF CheckStatus
<1>9. CASE ClearAfterReview
  BY <1>1, <1>9, SaveCallFresh DEF ClearAfterReview
<1>10. CASE SaveGoesOn
  <2>1. \A s : Rests(s) => calls' = Without(SaveCall)
    BY DEF Rests
  <2>2. ASSUME calls[SaveCall].tool = "propose", AfterPropose(calls[SaveCall].answer)
        PROVE  Fresh'
    <3> PICK answer : answer = calls[SaveCall].answer
      OBVIOUS
    <3>0. answer.error = None => answer.status \in Statuses
      BY <1>10, <2>2 DEF SaveGoesOn, Answered, Inv, CallFits, Fits
    <3>1. \/ \E s, code : Fails(s, code)
          \/ \E s : Rests(s) \/ Approves(s)
          \/ \E s, status : AsksFor(s, status)
      BY <2>2, <3>0 DEF AfterPropose, Statuses
    <3> QED BY <1>1, <1>2, <1>4, <1>5, <2>1, <3>1, SaveCallFresh
  <2>3. ASSUME NEW answer, AfterApprove(answer) PROVE Fresh'
    <3>1. \/ \E s, code : Fails(s, code)
          \/ \E s : Rests(s)
          \/ \E s, status : AsksFor(s, status)
      BY <2>3 DEF AfterApprove
    <3> QED BY <1>1, <1>2, <1>5, <2>1, <3>1, SaveCallFresh
  <2>4. ASSUME NEW status, NEW answer, AfterFind(status, answer) PROVE Fresh'
    <3>1. \/ \E s : Rests(s)
          \/ \E s, other : AsksFor(s, other)
      BY <2>4 DEF AfterFind
    <3> QED BY <1>1, <1>5, <2>1, <3>1, SaveCallFresh
  <2> QED BY <1>10, <2>2, <2>3, <2>4 DEF SaveGoesOn
<1> QED BY <1>6, <1>7, <1>8, <1>9, <1>10

\* A step of the list itself.
LEMMA ListCallsFresh ==
    ASSUME Fresh, NEW key,
           DOMAIN calls' \ {ListCall(key)} = DOMAIN calls \ {ListCall(key)},
           \A c \in DOMAIN calls' \ {ListCall(key)} : calls'[c] = calls[c],
           ListCall(key) \in DOMAIN calls' => ListCallFresh(key, calls'[ListCall(key)]),
           SnapshotFresh', UNCHANGED <<queue, decisions, revision>>
    PROVE  Fresh'
<1>1. ASSUME NEW other, ListCall(other) \in DOMAIN calls'
      PROVE  ListCallFresh(other, calls[ListCall(other)])'
  <2>1. CASE other = key
    BY <1>1, <2>1 DEF ListCallFresh, ListFresh, Decided
  <2>2. CASE other # key
    <3>1. /\ ListCall(other) \in DOMAIN calls
          /\ calls'[ListCall(other)] = calls[ListCall(other)]
      BY <1>1, <2>2, ListCallsDiffer
    <3>2. ListCallFresh(other, calls[ListCall(other)])
      BY <3>1 DEF Fresh
    <3> QED BY <3>1, <3>2 DEF ListCallFresh, ListFresh, Decided
  <2> QED BY <2>1, <2>2
<1>2. ASSUME NEW c \in DOMAIN calls' PROVE ConflictTold(queue, calls'[c])
  <2>1. CASE c = ListCall(key)
    BY <1>2, <2>1 DEF ConflictTold, ListCallFresh, Mutations
  <2>2. CASE c # ListCall(key)
    BY <1>2, <2>2 DEF Fresh
  <2> QED BY <2>1, <2>2
<1>3. (\A c \in DOMAIN calls : ConflictTold(queue, calls[c]))'
  BY <1>2
<1>4. (\A other : ListCall(other) \in DOMAIN calls => ListCallFresh(other, calls[ListCall(other)]))'
  BY <1>1
<1>5. DecidedTold(queue)'
  BY DEF Fresh, DecidedTold, Decided
<1> QED BY <1>3, <1>4, <1>5 DEF Fresh

LEMMA ListStepFresh ==
    ASSUME Fresh,
           \/ \E status \in Statuses : Select(status)
           \/ Refresh \/ Fetch
           \/ \E key \in Keys : ListGoesOn(key)
    PROVE  Fresh'
<1>1. ASSUME \/ \E status \in Statuses : Select(status)
             \/ Refresh
      PROVE  Fresh'
  <2>1. UNCHANGED <<queue, calls, decisions, revision>> /\ snapshot' = Idle
    BY <1>1 DEF Select, Refresh
  <2>2. SnapshotFresh'
    BY <2>1 DEF SnapshotFresh, Idle
  <2> QED BY <2>1, <2>2
      DEF Fresh, ListCallFresh, ListFresh, ConflictTold, DecidedTold, Decided
<1>2. ASSUME Fetch PROVE Fresh'
  <2> PICK key : key = Key
    OBVIOUS
  <2>1. /\ UNCHANGED <<queue, decisions, revision>>
        /\ snapshot' = [Idle EXCEPT !.key = key, !.status = "loading"]
        /\ calls' = IF ListCall(key) \in DOMAIN calls THEN calls
                    ELSE Ask(ListCall(key), "list", panel.status)
    BY <1>2 DEF Fetch
  <2>2. SnapshotFresh'
    BY <2>1 DEF SnapshotFresh, Idle
  <2>3. CASE ListCall(key) \in DOMAIN calls
    <3>1. ListCallFresh(key, calls[ListCall(key)])
      BY <2>3 DEF Fresh
    <3>2. calls' = calls
      BY <2>1, <2>3
    <3> QED BY <2>1, <2>2, <3>1, <3>2, ListCallsFresh
  <2>4. CASE ListCall(key) \notin DOMAIN calls
    <3> PICK call : call = [tool |-> "list", arg |-> panel.status, answer |-> None]
      OBVIOUS
    <3>1. /\ DOMAIN calls' = DOMAIN calls \cup {ListCall(key)} /\ calls'[ListCall(key)] = call
          /\ \A c \in DOMAIN calls \ {ListCall(key)} : calls'[c] = calls[c]
      BY <2>1, <2>4 DEF Ask
    <3>2. ListCallFresh(key, call)
      BY DEF ListCallFresh, Key, Fresh
    <3>3. /\ DOMAIN calls' \ {ListCall(key)} = DOMAIN calls \ {ListCall(key)}
          /\ \A c \in DOMAIN calls' \ {ListCall(key)} : calls'[c] = calls[c]
      BY <3>1
    <3>4. ListCallFresh(key, calls'[ListCall(key)])
      BY <3>1, <3>2
    <3> QED BY <2>1, <2>2, <3>3, <3>4, ListCallsFresh
  <2> QED BY <2>3, <2>4
<1>3. ASSUME NEW key \in Keys, ListGoesOn(key) PROVE Fresh'
  <2> PICK answer : answer = calls[ListCall(key)].answer
    OBVIOUS
  <2> PICK status : status = IF answer.error = None THEN "success" ELSE "error"
    OBVIOUS
  <2>1. /\ UNCHANGED <<queue, decisions, revision>>
        /\ \/ snapshot' = snapshot
           \/ snapshot' = [key |-> key, status |-> status, ids |-> answer.ids,
                           full |-> answer.full]
        /\ calls' = Without(ListCall(key))
        /\ ListCall(key) \in DOMAIN calls /\ answer # None
    BY <1>3 DEF ListGoesOn, Answered
  <2>2. ListCallFresh(key, calls[ListCall(key)])
    BY <2>1 DEF Fresh
  <2>3. SnapshotFresh'
    <3>1. CASE snapshot' = snapshot
      BY <2>1, <3>1 DEF Fresh, SnapshotFresh, ListFresh, Decided
    <3>2. CASE snapshot' = [key |-> key, status |-> status, ids |-> answer.ids,
                            full |-> answer.full]
      <4>1. /\ snapshot'.key = key /\ snapshot'.status = status
            /\ snapshot'.ids = answer.ids /\ snapshot'.full = answer.full
        BY <3>2
      <4>2. ASSUME status = "success"
            PROVE  /\ key[3] \in Nat /\ key[3] <= revision
                   /\ ListFresh(key, answer.ids, answer.full)
        BY <2>1, <2>2, <4>2 DEF ListCallFresh
      <4> QED BY <2>1, <4>1, <4>2 DEF SnapshotFresh, ListFresh, Decided
    <3> QED BY <2>1, <3>1, <3>2
  <2>4. /\ DOMAIN calls' = DOMAIN calls \ {ListCall(key)}
        /\ \A c \in DOMAIN calls' : calls'[c] = calls[c]
    BY <2>1, Dropped
  <2> QED BY <2>1, <2>3, <2>4, ListCallsFresh
<1> QED BY <1>1, <1>2, <1>3

\* A decision that has finished begins a new revision: the lists of the one before, held
\* or on their way, are no longer current.
LEMMA FinishedFresh ==
    ASSUME Inv, Fresh, NEW id \in Ids, NEW d,
           decisions' = [decisions EXCEPT ![id] = d], revision' = revision + 1,
           d.error \in {None, "conflict"} =>
              id \in DOMAIN queue /\ queue[id].status # "pending",
           DOMAIN calls' \subseteq DOMAIN calls,
           \A c \in DOMAIN calls' : calls'[c] = calls[c],
           UNCHANGED <<queue, snapshot>>
    PROVE  Fresh'
<1>1. /\ decisions'[id] = d
      /\ \A other \in Ids \ {id} : decisions'[other] = decisions[other]
  BY DEF Inv, Types
<1>2. revision \in Nat /\ revision' \in Nat
  BY DEF Fresh
<1>3. ASSUME NEW key, ListCall(key) \in DOMAIN calls'
      PROVE  ListCallFresh(key, calls[ListCall(key)])'
  <2>1. ListCallFresh(key, calls[ListCall(key)])
    BY <1>3 DEF Fresh
  <2> QED BY <1>2, <1>3, <2>1 DEF ListCallFresh, ListFresh
<1>4. (\A key : ListCall(key) \in DOMAIN calls => ListCallFresh(key, calls[ListCall(key)]))'
  BY <1>3
<1>5. SnapshotFresh'
  BY <1>2 DEF Fresh, SnapshotFresh, ListFresh
<1>6. (\A c \in DOMAIN calls : ConflictTold(queue, calls[c]))'
  BY DEF Fresh, ConflictTold
<1>7. DecidedTold(queue)'
  BY <1>1 DEF Fresh, DecidedTold, Decided
<1> QED BY <1>2, <1>4, <1>5, <1>6, <1>7 DEF Fresh

LEMMA DecideFresh ==
    ASSUME Inv, Fresh, NEW id \in Ids, NEW tool \in Mutations, Decide(id, tool)
    PROVE  Fresh'
<1> PICK op : op = [tool |-> tool, busy |-> TRUE, error |-> None, output |-> None]
  OBVIOUS
<1>1. op \in Decisions /\ op.busy
  BY Zenon DEF Decisions
<1>2. UNCHANGED <<queue, snapshot>>
  BY DEF Decide, list
<1>3. CASE id \in locked
  <2> PICK d : d = [op EXCEPT !.busy = FALSE, !.error = "busy",
                              !.output = IF "busy" = None THEN DecidedAs(op.tool) ELSE None]
    OBVIOUS
  <2>1. /\ decisions' = [decisions EXCEPT ![id] = d] /\ calls' = calls
        /\ revision' = revision + 1
    BY <1>3 DEF Decide, Finished
  <2>2. d.error = "busy" /\ None # "busy"
    BY <1>1, NoneIsNothing DEF Decisions, Codes
  <2> QED BY <1>2, <2>1, <2>2, FinishedFresh
<1>4. CASE id \notin locked
  <2>1. /\ decisions' = [decisions EXCEPT ![id] = op] /\ revision' = revision
        /\ calls' = Ask(DecisionCall(id), tool, id)
    BY <1>4 DEF Decide
  <2>2. /\ decisions'[id] = op
        /\ \A other \in Ids \ {id} : decisions'[other] = decisions[other]
    BY <2>1 DEF Inv, Types
  <2>3. \A other \in Ids : Decided(other)' =>
           Decided(other) /\ decisions'[other] = decisions[other]
    BY <1>1, <2>2 DEF Decided
  <2>4. /\ DOMAIN calls' = DOMAIN calls \cup {DecisionCall(id)}
        /\ calls'[DecisionCall(id)].answer = None
        /\ \A c \in DOMAIN calls \ {DecisionCall(id)} : calls'[c] = calls[c]
    BY <2>1 DEF Ask
  <2>5. ASSUME NEW key, ListCall(key) \in DOMAIN calls'
        PROVE  ListCallFresh(key, calls[ListCall(key)])'
    <3>1. /\ ListCall(key) \in DOMAIN calls
          /\ calls'[ListCall(key)] = calls[ListCall(key)]
      BY <2>4, <2>5, CallsDiffer
    <3>2. ListCallFresh(key, calls[ListCall(key)])
      BY <3>1 DEF Fresh
    <3> QED BY <2>1, <2>3, <3>1, <3>2 DEF ListCallFresh, ListFresh
  <2>6. (\A key : ListCall(key) \in DOMAIN calls => ListCallFresh(key, calls[ListCall(key)]))'
    BY <2>5
  <2>7. (SnapshotFresh /\ DecidedTold(queue))'
    BY <1>2, <2>1, <2>3 DEF Fresh, SnapshotFresh, ListFresh, DecidedTold
  <2>8. ASSUME NEW c \in DOMAIN calls' PROVE ConflictTold(queue, calls'[c])
    BY <2>4, <2>8 DEF Fresh, ConflictTold
  <2>9. (\A c \in DOMAIN calls : ConflictTold(queue, calls[c]))'
    BY <1>2, <2>8
  <2> QED BY <2>1, <2>6, <2>7, <2>9 DEF Fresh
<1> QED BY <1>3, <1>4

LEMMA DecisionAnswerFresh ==
    ASSUME Inv, Fresh, NEW id \in Ids, DecisionGoesOn(id)
    PROVE  Fresh'
<1> PICK op : op = decisions[id]
  OBVIOUS
<1> PICK call : call = calls[DecisionCall(id)]
  OBVIOUS
<1> PICK error : error = call.answer.error
  OBVIOUS
<1> PICK d : d = [op EXCEPT !.busy = FALSE, !.error = error,
                            !.output = IF error = None THEN DecidedAs(op.tool) ELSE None]
  OBVIOUS
<1>1. /\ DecisionCall(id) \in DOMAIN calls /\ call.answer # None
      /\ decisions' = [decisions EXCEPT ![id] = d] /\ calls' = Without(DecisionCall(id))
      /\ revision' = revision + 1 /\ UNCHANGED <<queue, snapshot>>
  BY DEF DecisionGoesOn, Answered, Finished, list
<1>2. /\ CallFits(queue, DecisionCall(id), call) /\ ConflictTold(queue, call)
      /\ op \in Decisions /\ call.tool = op.tool /\ call.arg = id
  BY <1>1 DEF Inv, Fresh, DecisionsHeld
<1>3. op.tool \in Mutations /\ d.error = error
  BY <1>2 DEF Decisions
<1>4. id \in DOMAIN queue
  BY <1>2, <1>3 DEF CallFits
<1>5. error = None => queue[id].status # "pending"
  BY <1>1, <1>2, <1>3 DEF CallFits, Fits, DecidedAs
<1>6. error = "conflict" => queue[id].status # "pending"
  BY <1>1, <1>2, <1>3 DEF ConflictTold
<1>7. /\ DOMAIN calls' \subseteq DOMAIN calls
      /\ \A c \in DOMAIN calls' : calls'[c] = calls[c]
  BY <1>1, Dropped
<1> QED BY <1>1, <1>3, <1>4, <1>5, <1>6, <1>7, FinishedFresh

LEMMA InitFresh == Init => Fresh
<1> SUFFICES ASSUME Init PROVE Fresh
  OBVIOUS
<1>1. /\ revision = 0 /\ DOMAIN calls = {} /\ snapshot.status = "idle"
      /\ decisions = [id \in Ids |-> None]
  BY DEF Init, Idle
<1> QED BY <1>1 DEF Fresh, SnapshotFresh, DecidedTold, Decided

LEMMA NextFresh ==
    ASSUME Inv, Fresh, [Next]_vars
    PROVE  Fresh'
<1>1. ASSUME NEW from \in DOMAIN calls, Serve(from) PROVE Fresh'
  BY <1>1, ServeFresh
<1>2. ASSUME NEW id \in DOMAIN queue, OthersDecide(id) PROVE Fresh'
  BY <1>2, OthersFresh
<1>3. ASSUME RenameHuman \/ UNCHANGED vars PROVE Fresh'
  <2>1. UNCHANGED <<queue, calls, decisions, revision, snapshot>>
    BY <1>3 DEF RenameHuman, vars, list
  <2> QED BY <2>1
      DEF Fresh, SnapshotFresh, ListCallFresh, ListFresh, ConflictTold, DecidedTold, Decided
<1>4. ASSUME \/ \E content \in Contents : StartSave(content)
             \/ Retry \/ CheckStatus \/ ClearAfterReview \/ SaveGoesOn
      PROVE  Fresh'
  BY <1>4, FormFresh
<1>5. ASSUME \/ \E status \in Statuses : Select(status)
             \/ Refresh \/ Fetch
             \/ \E key \in Keys : ListGoesOn(key)
      PROVE  Fresh'
  BY <1>5, ListStepFresh
<1>6. ASSUME NEW id \in Ids,
             (\E tool \in Mutations : Decide(id, tool)) \/ DecisionGoesOn(id)
      PROVE  Fresh'
  BY <1>6, DecideFresh, DecisionAnswerFresh
<1> QED BY <1>1, <1>2, <1>3, <1>4, <1>5, <1>6 DEF Next

\* A list on screen is not older than the decisions that have finished in this window,
\* whatever answers come late: the revision in its key.  Proposals.tsx, LatestRequest.
THEOREM ListAlwaysFresh == Spec => []ListIsFresh
<1>1. Inv /\ PanelFits /\ Fresh /\ [Next]_vars => Inv' /\ PanelFits' /\ Fresh'
  BY NextKeeps, PanelKeeps, NextFresh
<1>2. Fresh => ListIsFresh
  <2> SUFFICES ASSUME Fresh, Current, snapshot.status = "success", NEW id \in Ids, Decided(id)
               PROVE  /\ panel.status = "pending" => id \notin snapshot.ids
                      /\ panel.status = decisions[id].output /\ ~snapshot.full =>
                            id \in snapshot.ids
    BY DEF ListIsFresh
  <2>1. snapshot.key[1] = panel.status /\ snapshot.key[3] = revision
    BY DEF Current, Key
  <2> QED BY <2>1 DEF Fresh, SnapshotFresh, ListFresh
<1> QED BY InitInv, InitFresh, <1>1, <1>2, PTL DEF Spec
=============================================================================
