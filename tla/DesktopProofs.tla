----------------------------- MODULE DesktopProofs -----------------------------
(***************************************************************************)
(* Theorems about the three parts of the desktop: its life, for any number  *)
(* of commands and of launches; its updater, for any number of checks, any  *)
(* download and any number of updates; and the link it makes to the command *)
(* line tool, whatever other programs do at its place.                      *)
(***************************************************************************)
EXTENDS DesktopLifecycle, UpdateFlow, CliLink, Integers, TLAPS

-----------------------------------------------------------------------------
(* The life of the desktop (DesktopLifecycle)                              *)

\* Where a task holds http_lifecycle.
Binds == {"binding", "bound", "unbound"}

\* Who writes and who stops holds setup_lock; who starts or stops the server holds
\* http_lifecycle, and nobody else does.
LocksHeld ==
    /\ \A c \in Calls : job[c] \in Running => setupLock = c
    /\ \A s \in Stoppers : stop[s] \in {"wantsHttp", "stopping"} => setupLock = s
    /\ \A t \in Starters : task[t].pc \in Binds <=> httpLock = t
    /\ \A s \in Stoppers : stop[s] = "stopping" <=> httpLock = s

\* What accepts requests beside the lost ones is the server of the state, but for one
\* that is being started or stopped.
ServersCounted ==
    /\ httpLock = None => listening = lost + (IF server THEN 1 ELSE 0)
    /\ \A t \in Starters : task[t].pc \in Binds =>
          ~server /\ listening = lost + (IF task[t].pc = "bound" THEN 1 ELSE 0)
    /\ \A s \in Stoppers : stop[s] = "stopping" => ~server /\ listening = lost + 1

\* There is a runtime wherever the server is dealt with, and where a command has
\* written.
ReadyWhereNeeded ==
    /\ server => init = "ready"
    /\ \A t \in Starters : task[t].pc \in Binds \cup {"wantsHttp"} => init = "ready"
    /\ \A s \in Stoppers : stop[s] \in {"wantsHttp", "stopping"} => init = "ready"
    /\ \A c \in Calls : \/ job[c] = "ok"
                        \/ job[c] \in Running /\ task[c].kind # "setup"
                        => init = "ready"

\* Nothing is written or started any more, and only what was lost still serves.
AtPeace ==
    /\ \A c \in Calls : job[c] \notin Running
    /\ \A t \in Starters : task[t].pc \notin Binds
    /\ ~server /\ listening = lost

\* A shutdown that has finished leaves nothing behind, and nothing starts after it.
ShutForGood ==
    /\ \A s \in Stoppers : stop[s] \notin {"none", "begun"} => closing
    /\ exit = 0 => stop[Exit] = "none"
    /\ exit = 2 => stop[Exit] = "done"
    /\ \A s \in Stoppers : stop[s] = "done" => AtPeace

\* A command is where its work lets it be.
WorkFollowed ==
    \A c \in Calls :
        /\ job[c] \in Running => task[c].pc \in {"waiting", "dropped"}
        /\ task[c].pc = "queued" => job[c] = "none"

Ordered ==
    /\ LocksHeld
    /\ ServersCounted
    /\ ReadyWhereNeeded
    /\ ShutForGood
    /\ WorkFollowed
    /\ ServerOrReason

Inv == TypeOK /\ Ordered

-----------------------------------------------------------------------------
(* The commands. *)

\* One lemma for each kind of task.
LEMMA CommandKeeps ==
    ASSUME Inv, NEW c \in Calls, Command(c)
    PROVE  Inv'
<1> USE TasksDiffer DEF Inv, Ordered
<1>0. /\ Calls \subseteq Starters /\ c # Launch
      /\ \A t \in Starters : task[t].pc \in Places \cup {"launching"} /\ task[t].kind \in Kinds
  BY DEF Starters, TypeOK
<1>1. ASSUME NEW kind \in Kinds, Call(c, kind) PROVE Inv'
  <2>1. TypeOK'
    BY <1>0, <1>1 DEF Call, TypeOK, Places, Kinds, http
  <2>2. LocksHeld' /\ ServersCounted' /\ ReadyWhereNeeded'
    BY <1>0, <1>1 DEF Call, TypeOK, LocksHeld, ServersCounted, ReadyWhereNeeded, Binds,
                      Running, http
  <2>3. ShutForGood' /\ WorkFollowed' /\ ServerOrReason'
    BY <1>0, <1>1 DEF Call, TypeOK, ShutForGood, AtPeace, WorkFollowed, ServerOrReason, Status,
                      Binds, Running, http
  <2> QED BY <2>1, <2>2, <2>3
<1>2. ASSUME EnterSetup(c) PROVE Inv'
  <2>0. /\ task[c].pc = "queued" /\ job[c] = "none" /\ setupLock = None
        /\ UNCHANGED <<published, init, closing, exit, http, stop, process>>
    BY <1>2 DEF EnterSetup, WorkFollowed
  <2>1. TypeOK'
    BY <1>0, <1>2 DEF EnterSetup, Goes, TypeOK, Places, Kinds, http
  <2>2. CASE UNCHANGED <<setupLock, job>> /\ Goes(c, "returned")
    <3>1. LocksHeld' /\ ServersCounted' /\ ReadyWhereNeeded'
      BY <1>0, <2>0, <2>2 DEF Goes, TypeOK, LocksHeld, ServersCounted, ReadyWhereNeeded, Binds,
                              Running, http
    <3>2. ShutForGood' /\ WorkFollowed' /\ ServerOrReason'
      BY <1>0, <2>0, <2>2 DEF Goes, TypeOK, ShutForGood, AtPeace, WorkFollowed, ServerOrReason,
                              Status, Binds, Running, http
    <3> QED BY <2>1, <3>1, <3>2
  <2>3. CASE /\ ~closing /\ (task[c].kind # "setup" => init = "ready")
             /\ setupLock' = c /\ job' = [job EXCEPT ![c] = "begun"] /\ Goes(c, "waiting")
    <3>1. /\ \A d \in Calls : job[d] \notin Running
          /\ \A s \in Stoppers : stop[s] \notin {"wantsHttp", "stopping", "done"}
      BY <2>0, <2>3 DEF LocksHeld, ShutForGood, Starters
    <3>2. /\ \A d \in Calls : job'[d] = IF d = c THEN "begun" ELSE job[d]
          /\ \A t \in Starters : /\ task'[t].pc = IF t = c THEN "waiting" ELSE task[t].pc
                                 /\ task'[t].kind = task[t].kind
      BY <1>0, <2>3 DEF Goes, TypeOK
    <3>3. LocksHeld' /\ ServersCounted' /\ ReadyWhereNeeded'
      BY <1>0, <2>0, <2>3, <3>1, <3>2 DEF LocksHeld, ServersCounted, ReadyWhereNeeded, Binds,
                                          Running, http
    <3>4. ShutForGood' /\ WorkFollowed' /\ ServerOrReason'
      BY <1>0, <2>0, <2>3, <3>1, <3>2 DEF ShutForGood, WorkFollowed, ServerOrReason, Status,
                                          Running, http
    <3> QED BY <2>1, <3>3, <3>4
  <2> QED BY <1>2, <2>2, <2>3 DEF EnterSetup
<1>3. ASSUME JobWrites(c) PROVE Inv'
  BY <1>0, <1>3 DEF JobWrites, TypeOK, LocksHeld, ServersCounted, ReadyWhereNeeded, ShutForGood,
                    AtPeace, WorkFollowed, ServerOrReason, Status, Binds, Running, http
<1>4. ASSUME JobFails(c) PROVE Inv'
  BY <1>0, <1>4 DEF JobFails, TypeOK, LocksHeld, ServersCounted, ReadyWhereNeeded, ShutForGood,
                    AtPeace, WorkFollowed, ServerOrReason, Status, Binds, Running, http
<1>5. ASSUME JobEnds(c) PROVE Inv'
  <2>1. TypeOK'
    BY <1>0, <1>5 DEF JobEnds, TypeOK, http
  <2>2. LocksHeld' /\ ServersCounted' /\ ReadyWhereNeeded'
    BY <1>0, <1>5 DEF JobEnds, TypeOK, LocksHeld, ServersCounted, ReadyWhereNeeded, Binds,
                      Running, http
  <2>3. ShutForGood' /\ WorkFollowed' /\ ServerOrReason'
    BY <1>0, <1>5 DEF JobEnds, TypeOK, ShutForGood, AtPeace, WorkFollowed, ServerOrReason,
                      Status, Binds, Running, ReadyWhereNeeded, http
  <2> QED BY <2>1, <2>2, <2>3
<1>6. ASSUME JoinJob(c) PROVE Inv'
  <2>1. \E pc \in {"start", "returned"} :
           /\ task' = [task EXCEPT ![c].pc = pc] /\ task[c].pc \notin Binds
           /\ pc = "returned" => ~(job[c] = "ok" /\ task[c].kind \in Starting)
           /\ job[c] \notin Running
    BY <1>0, <1>6 DEF JoinJob, Goes, Binds, Running
  <2>2. UNCHANGED <<published, init, setupLock, closing, exit, http, job, stop, process>>
    BY <1>6 DEF JoinJob
  <2>3. TypeOK'
    BY <1>0, <2>1, <2>2 DEF TypeOK, Places, Kinds, http
  <2>4. LocksHeld' /\ ServersCounted' /\ ReadyWhereNeeded'
    BY <1>0, <2>1, <2>2 DEF TypeOK, LocksHeld, ServersCounted, ReadyWhereNeeded, Binds,
                            Running, http
  <2>5. ShutForGood' /\ WorkFollowed' /\ ServerOrReason'
    BY <1>0, <2>1, <2>2 DEF TypeOK, ShutForGood, AtPeace, WorkFollowed, ServerOrReason, Status,
                            Binds, Running, http
  <2> QED BY <2>3, <2>4, <2>5
\* A start that is cancelled gives http_lifecycle up, and loses the server it has.
<1>7. ASSUME Drop(c) PROVE Inv'
  <2>1. /\ task' = [task EXCEPT ![c].pc = "dropped"] /\ task[c].pc \in Awaits
        /\ httpLock' = IF httpLock = c THEN None ELSE httpLock
        /\ lost' = IF task[c].pc = "bound" THEN lost + 1 ELSE lost
    BY <1>7 DEF Drop, Goes
  <2>2. UNCHANGED <<published, init, setupLock, closing, exit, server, error, listening, job,
                    stop, process>>
    BY <1>7 DEF Drop
  <2>3. httpLock = c <=> task[c].pc \in Binds
    BY <1>0 DEF LocksHeld
  <2>4. /\ task'[c].pc = "dropped" /\ task'[c].kind = task[c].kind
        /\ \A t \in Starters \ {c} : task'[t] = task[t]
    BY <1>0, <2>1 DEF TypeOK
  <2>5. \A t \in Starters : t # c /\ task[t].pc \in Binds => httpLock # c
    BY <1>0 DEF LocksHeld
  <2>6. c \notin Stoppers /\ c # None
    BY <1>0
  <2>7. TypeOK'
    BY <1>0, <2>1, <2>2 DEF TypeOK, Places, Kinds
  <2>8. LocksHeld'
    BY <1>0, <2>1, <2>2, <2>3, <2>4, <2>5, <2>6 DEF LocksHeld, Binds
  <2>9. ServersCounted'
    BY <1>0, <2>1, <2>2, <2>3, <2>4, <2>5, <2>6 DEF TypeOK, LocksHeld, ServersCounted, Binds,
                                                   Awaits
  <2>10. ReadyWhereNeeded'
    BY <1>0, <2>2, <2>4 DEF ReadyWhereNeeded, Binds
  <2>11. ShutForGood'
    BY <1>0, <2>1, <2>2, <2>4 DEF ShutForGood, AtPeace, Binds
  <2>12. WorkFollowed' /\ ServerOrReason'
    BY <1>0, <2>2, <2>4 DEF WorkFollowed, ServerOrReason, Status
  <2> QED BY <2>7, <2>8, <2>9, <2>10, <2>11, <2>12
<1> QED BY <1>1, <1>2, <1>3, <1>4, <1>5, <1>6, <1>7 DEF Command

-----------------------------------------------------------------------------
(* The server. *)

LEMMA ServingKeeps ==
    ASSUME Inv, NEW t \in Starters, Serving(t) \/ (t = Launch /\ Startup)
    PROVE  Inv'
<1> USE TasksDiffer DEF Inv, Ordered
<1>0. /\ \A u \in Starters : task[u].pc \in Places \cup {"launching"} /\ task[u].kind \in Kinds
      /\ Calls \subseteq Starters /\ None \notin Starters /\ t \notin Stoppers
  BY DEF Starters, TypeOK
<1>1. ASSUME StartHttp(t) \/ (t = Launch /\ Startup) PROVE Inv'
  <2>1. \E pc \in {"start", "returned", "wantsHttp"} :
           /\ task' = [task EXCEPT ![t].pc = pc] /\ task[t].pc \in {"start", "launching"}
           /\ pc = "wantsHttp" => init = "ready"
           /\ pc = "returned" /\ t \in Calls => closing \/ init # "ready"
    BY <1>1 DEF StartHttp, Startup, Goes
  <2>2. UNCHANGED <<published, init, setupLock, closing, exit, http, job, stop, process>>
    BY <1>1 DEF StartHttp, Startup
  <2>3. TypeOK'
    BY <1>0, <2>1, <2>2 DEF TypeOK, Places, Kinds, http
  <2>4. LocksHeld' /\ ServersCounted' /\ ReadyWhereNeeded'
    BY <1>0, <2>1, <2>2 DEF TypeOK, LocksHeld, ServersCounted, ReadyWhereNeeded, Binds,
                            Running, http
  <2>5. ShutForGood' /\ WorkFollowed' /\ ServerOrReason'
    BY <1>0, <2>1, <2>2 DEF TypeOK, ShutForGood, AtPeace, WorkFollowed, ServerOrReason, Status,
                            Binds, Running, http, ReadyWhereNeeded
  <2> QED BY <2>3, <2>4, <2>5
<1>2. ASSUME EnterHttp(t) PROVE Inv'
  <2>1. TypeOK'
    BY <1>0, <1>2 DEF EnterHttp, Goes, TypeOK, Places, Kinds
  <2>2. LocksHeld' /\ ServersCounted' /\ ReadyWhereNeeded'
    BY <1>0, <1>2 DEF EnterHttp, Goes, TypeOK, LocksHeld, ServersCounted, ReadyWhereNeeded,
                      Binds, Running
  <2>3. ShutForGood' /\ WorkFollowed' /\ ServerOrReason'
    BY <1>0, <1>2 DEF EnterHttp, Goes, TypeOK, ShutForGood, AtPeace, WorkFollowed,
                      ServerOrReason, Status, Binds, Running, ReadyWhereNeeded
  <2> QED BY <2>1, <2>2, <2>3
<1>3. ASSUME Bind(t) PROVE Inv'
  <2>1. TypeOK'
    BY <1>0, <1>3 DEF Bind, Goes, TypeOK, Places, Kinds
  <2>2. LocksHeld' /\ ServersCounted' /\ ReadyWhereNeeded'
    BY <1>0, <1>3 DEF Bind, Goes, TypeOK, LocksHeld, ServersCounted, ReadyWhereNeeded,
                      Binds, Running
  <2>3. ShutForGood' /\ WorkFollowed' /\ ServerOrReason'
    BY <1>0, <1>3 DEF Bind, Goes, TypeOK, ShutForGood, AtPeace, WorkFollowed,
                      ServerOrReason, Status, Binds, Running
  <2> QED BY <2>1, <2>2, <2>3
<1>4. ASSUME StoreServer(t) PROVE Inv'
  <2>1. TypeOK'
    BY <1>0, <1>4 DEF StoreServer, Goes, TypeOK, Places, Kinds
  <2>2. LocksHeld' /\ ServersCounted' /\ ReadyWhereNeeded'
    <3>1. LocksHeld'
      BY <1>0, <1>4 DEF StoreServer, Goes, TypeOK, LocksHeld, Binds, Running
    <3>2. ServersCounted'
      BY <1>0, <1>4 DEF StoreServer, Goes, TypeOK, LocksHeld, ServersCounted, Binds
    <3>3. ReadyWhereNeeded'
      BY <1>0, <1>4 DEF StoreServer, Goes, TypeOK, ReadyWhereNeeded, Binds, Running
    <3> QED BY <3>1, <3>2, <3>3
  <2>3. ShutForGood' /\ WorkFollowed' /\ ServerOrReason'
    BY <1>0, <1>4 DEF StoreServer, Goes, TypeOK, ShutForGood, AtPeace, WorkFollowed,
                      ServerOrReason, Status, Binds, Running, ReadyWhereNeeded
  <2> QED BY <2>1, <2>2, <2>3
<1> QED BY <1>1, <1>2, <1>3, <1>4 DEF Serving

-----------------------------------------------------------------------------
(* The shutdowns and the end of the process. *)

LEMMA StoppingKeeps ==
    ASSUME Inv, NEW s \in Stoppers, Stopping(s)
    PROVE  Inv'
<1> USE TasksDiffer DEF Inv, Ordered
<1>0. /\ \A u \in Starters : task[u].pc \in Places \cup {"launching"} /\ task[u].kind \in Kinds
      /\ Calls \subseteq Starters /\ None \notin Stoppers /\ s \notin Starters /\ Exit \in Stoppers
  BY DEF Starters, Stoppers, TypeOK
<1>1. ASSUME Close(s) PROVE Inv'
  BY <1>0, <1>1 DEF Close, Halts, TypeOK, LocksHeld, ServersCounted, ReadyWhereNeeded,
                    ShutForGood, AtPeace, WorkFollowed, ServerOrReason, Status, Binds, Running,
                    http
<1>2. ASSUME StopSetup(s) PROVE Inv'
  <2>1. TypeOK'
    BY <1>0, <1>2 DEF StopSetup, Halts, TypeOK, http
  <2>2. LocksHeld' /\ ServersCounted' /\ ReadyWhereNeeded'
    BY <1>0, <1>2 DEF StopSetup, Halts, TypeOK, LocksHeld, ServersCounted, ReadyWhereNeeded,
                      Binds, Running, http
  <2>3. init # "ready" => AtPeace
    BY <1>0, <1>2 DEF StopSetup, AtPeace, LocksHeld, ServersCounted, ReadyWhereNeeded, Binds,
                      Running, TypeOK
  <2>4. ShutForGood' /\ WorkFollowed' /\ ServerOrReason'
    BY <1>0, <1>2, <2>3 DEF StopSetup, Halts, TypeOK, ShutForGood, AtPeace, WorkFollowed,
                            ServerOrReason, Status, http
  <2> QED BY <2>1, <2>2, <2>4
<1>3. ASSUME StopHttp(s) PROVE Inv'
  <2>1. TypeOK'
    BY <1>0, <1>3 DEF StopHttp, Halts, TypeOK
  <2>2. LocksHeld' /\ ServersCounted' /\ ReadyWhereNeeded'
    BY <1>0, <1>3 DEF StopHttp, Halts, TypeOK, LocksHeld, ServersCounted, ReadyWhereNeeded,
                      Binds, Running
  <2>3. /\ \A c \in Calls : job[c] \notin Running
        /\ \A t \in Starters : task[t].pc \notin Binds
        /\ ~server => listening = lost
    BY <1>0, <1>3 DEF StopHttp, LocksHeld, ServersCounted, TypeOK
  <2>4. closing /\ \A r \in Stoppers : stop[r] = "done" => AtPeace
    BY <1>3 DEF StopHttp, ShutForGood
  <2>5. ShutForGood' /\ WorkFollowed' /\ ServerOrReason'
    BY <1>0, <1>3, <2>3, <2>4 DEF StopHttp, Halts, TypeOK, ShutForGood, AtPeace, WorkFollowed,
                                  ServerOrReason, Status
  <2> QED BY <2>1, <2>2, <2>5
<1>4. ASSUME ServerStops(s) PROVE Inv'
  <2>1. /\ stop[s] = "stopping" /\ ~server /\ listening = lost + 1
        /\ listening' = lost /\ lost' = lost /\ lost \in Nat
    BY <1>4 DEF ServerStops, ServersCounted, TypeOK
  <2>2. TypeOK'
    BY <1>0, <1>4, <2>1 DEF ServerStops, Halts, TypeOK
  <2>3. LocksHeld' /\ ServersCounted' /\ ReadyWhereNeeded'
    BY <1>0, <1>4, <2>1 DEF ServerStops, Halts, TypeOK, LocksHeld, ServersCounted,
                            ReadyWhereNeeded, Binds, Running
  <2>4. /\ \A c \in Calls : job[c] \notin Running
        /\ \A t \in Starters : task[t].pc \notin Binds
    BY <1>0, <2>1 DEF LocksHeld
  <2>5. closing
    BY <2>1 DEF ShutForGood
  <2>6. ShutForGood' /\ WorkFollowed' /\ ServerOrReason'
    BY <1>0, <1>4, <2>1, <2>4, <2>5 DEF ServerStops, Halts, TypeOK, ShutForGood, AtPeace,
                                        WorkFollowed, ServerOrReason, Status
  <2> QED BY <2>2, <2>3, <2>6
<1> QED BY <1>1, <1>2, <1>3, <1>4 DEF Stopping

\* The state in which a launch begins.
Fresh ==
    /\ published \in BOOLEAN /\ init \in Bootstrap(published)
    /\ setupLock = None /\ httpLock = None
    /\ closing = FALSE /\ exit = 0
    /\ server = FALSE /\ error = FALSE /\ listening = 0 /\ lost = 0
    /\ task = [t \in Starters |-> AtLaunch(t)]
    /\ job = [c \in Calls |-> "none"]
    /\ stop = [s \in Stoppers |-> "none"]
    /\ process = "up"

LEMMA Begins == Fresh => Inv
<1> SUFFICES ASSUME Fresh PROVE Inv
  OBVIOUS
<1> USE TasksDiffer DEF Inv, Ordered, Fresh
<1>0. Calls \subseteq Starters /\ Exit \in Stoppers /\ None \notin Starters \cup Stoppers
  BY DEF Starters, Stoppers
<1>1. /\ \A t \in Starters : /\ task[t] \in [pc : Places \cup {"launching"}, kind : Kinds]
                             /\ task[t].pc \in {"launching", "idle"}
      /\ \A c \in Calls : job[c] = "none"
      /\ \A s \in Stoppers : stop[s] = "none"
  BY DEF AtLaunch, Kinds, Places
<1>2. init \in {"waiting", "ready", "failed"}
  BY DEF Bootstrap
<1>3. task \in [Starters -> [pc : Places \cup {"launching"}, kind : Kinds]]
  BY <1>1
<1>4. /\ job \in [Calls -> {"none", "begun", "half", "ok", "failed"}]
      /\ stop \in [Stoppers -> {"none", "begun", "queued", "wantsHttp", "stopping", "done"}]
  OBVIOUS
<1>5. closing \in BOOLEAN /\ server \in BOOLEAN /\ error \in BOOLEAN
  OBVIOUS
<1>6. TypeOK
  BY <1>2, <1>3, <1>4, <1>5 DEF TypeOK
<1>7. LocksHeld
  BY <1>0, <1>1 DEF LocksHeld, Binds, Running
<1>8. ServersCounted /\ ReadyWhereNeeded
  BY <1>0, <1>1 DEF ServersCounted, ReadyWhereNeeded, Binds, Running
<1>9. ShutForGood /\ WorkFollowed /\ ServerOrReason
  BY <1>0, <1>1 DEF ShutForGood, WorkFollowed, ServerOrReason, Running
<1> QED BY <1>6, <1>7, <1>8, <1>9

LEMMA InitHolds == Init => Inv
<1>1. Init => Fresh
  BY DEF Init, Fresh
<1> QED BY <1>1, Begins

LEMMA RelaunchKeeps ==
    ASSUME Inv, Relaunch
    PROVE  Inv'
<1>1. published \in BOOLEAN
  BY DEF Inv, TypeOK
<1>2. published' \in BOOLEAN
  BY <1>1 DEF Relaunch
<1>3. Fresh'
  BY <1>2 DEF Relaunch, Fresh
<1>4. Fresh' => Inv'
  BY Begins, PTL
<1> QED BY <1>3, <1>4

LEMMA ProcessKeeps ==
    ASSUME Inv, MainThread \/ Finish \/ Crash \/ InitElsewhere
    PROVE  Inv'
<1> USE TasksDiffer DEF Inv, Ordered
<1>0. Exit \in Stoppers /\ Restart \in Stoppers
  BY DEF Stoppers
<1>1. ASSUME ExitGranted \/ RestartGranted \/ Crash \/ InitElsewhere PROVE Inv'
  <2>1. /\ UNCHANGED <<init, setupLock, closing, exit, http, task, job, stop>>
        /\ process' \in {"up", "exited", "restarted", "crashed"} /\ published' \in BOOLEAN
    BY <1>1 DEF ExitGranted, RestartGranted, Crash, InitElsewhere, Ends, TypeOK
  <2>2. TypeOK'
    BY <2>1 DEF TypeOK, http
  <2>3. LocksHeld' /\ ServersCounted' /\ ReadyWhereNeeded'
    BY <2>1 DEF LocksHeld, ServersCounted, ReadyWhereNeeded, http
  <2>4. ShutForGood' /\ WorkFollowed' /\ ServerOrReason'
    BY <2>1 DEF ShutForGood, AtPeace, WorkFollowed, ServerOrReason, Status, http
  <2> QED BY <2>2, <2>3, <2>4
<1>2. ASSUME ExitRequested \/ RestartRequested \/ Finish PROVE Inv'
  <2>1. TypeOK'
    BY <1>0, <1>2 DEF ExitRequested, RestartRequested, Finish, Listens, Halts, TypeOK, http
  <2>2. LocksHeld' /\ ServersCounted' /\ ReadyWhereNeeded'
    BY <1>0, <1>2 DEF ExitRequested, RestartRequested, Finish, Listens, Halts, TypeOK, LocksHeld,
                      ServersCounted, ReadyWhereNeeded, ShutForGood, http
  <2>3. ShutForGood' /\ WorkFollowed' /\ ServerOrReason'
    BY <1>0, <1>2 DEF ExitRequested, RestartRequested, Finish, Listens, Halts, TypeOK,
                      ShutForGood, AtPeace, WorkFollowed, ServerOrReason, Status, http
  <2> QED BY <2>1, <2>2, <2>3
<1> QED BY <1>1, <1>2 DEF MainThread

LEMMA NextKeeps ==
    ASSUME Inv, [Next]_vars
    PROVE  Inv'
<1>1. CASE UNCHANGED vars
  BY <1>1 DEF vars, http, Inv, Ordered, TypeOK, LocksHeld, ServersCounted, ReadyWhereNeeded,
              ShutForGood, AtPeace, WorkFollowed, ServerOrReason, Status
<1>2. CASE Next
  <2>1. Launch \in Starters
    BY DEF Starters
  <2> QED BY <1>2, <2>1, CommandKeeps, ServingKeeps, StoppingKeeps, RelaunchKeeps, ProcessKeeps
          DEF Next, Works
<1> QED BY <1>1, <1>2

\* The inductive invariant holds throughout.
THEOREM LifecycleInvariant == Spec => []Inv
BY InitHolds, NextKeeps, PTL DEF Spec

\* Types are kept.
THEOREM LifecycleTypes == Spec => []TypeOK
<1>1. Inv => TypeOK
  BY DEF Inv
<1> QED BY <1>1, LifecycleInvariant, PTL

\* Whatever commands, starts and stops run side by side, and at whichever await a command is
\* cancelled, what the window learns of the setup and of the server is so: the only servers
\* it does not know of are those whose start was cancelled before it stored them.
THEOREM WindowAlwaysKnows == Spec => []WindowKnows
<1>1. Inv => WindowKnows
  BY TasksDiffer DEF Inv, Ordered, WindowKnows, PublishedIsReady, StatusTellsTheTruth, Status,
     TypeOK, ServersCounted, ReadyWhereNeeded
<1> QED BY <1>1, LifecycleInvariant, PTL

-----------------------------------------------------------------------------
(* The refinement. *)

\* The images of the state in ApplicationLife.
Phase == IF process # "up" THEN "ended"
         ELSE IF \E s \in Stoppers : stop[s] = "done" THEN "shut" ELSE "open"
Saving == {c \in Calls : job[c] \in Running /\ process # "crashed"}
ServingNow == listening > lost /\ process # "crashed"
Lost == IF process = "crashed" THEN 0 ELSE lost

\* Someone who writes keeps the application open, and is alone.
LEMMA OneSaves ==
    ASSUME Inv, process = "up"
    PROVE  /\ Phase \in {"open", "shut"}
           /\ Phase = "shut" => Saving = {} /\ ~ServingNow /\ closing
           /\ setupLock \notin Calls => Saving = {}
           /\ \A c \in Saving : Saving = {c} /\ Phase = "open"
BY DEF Inv, Ordered, TypeOK, LocksHeld, ShutForGood, AtPeace, Phase, Saving, ServingNow

\* A step of a running process is one of ApplicationLife or none.
LifeStep == Life!Next \/ UNCHANGED <<Phase, Saving, ServingNow, Lost>>

\* Each step of the desktop is one of ApplicationLife, or shows nothing of it.
LEMMA CommandRefines ==
    ASSUME Inv, process = "up", NEW c \in Calls, Command(c)
    PROVE  LifeStep
<1> USE TasksDiffer
<1>0. /\ job \in [Calls -> {"none", "begun", "half", "ok", "failed"}]
      /\ listening \in Nat /\ lost \in Nat
      /\ process' = process /\ stop' = stop /\ listening' = listening /\ Phase' = Phase
  BY DEF Inv, TypeOK, Command, Call, EnterSetup, JobWrites, JobFails, JobEnds, JoinJob, Drop,
         http, Phase
<1>1. CASE lost' = lost /\ Saving' = Saving
  BY <1>0, <1>1 DEF LifeStep, ServingNow, Lost
<1>2. CASE EnterSetup(c) /\ Saving' # Saving
  <2>1. /\ ~closing /\ setupLock = None /\ job' = [job EXCEPT ![c] = "begun"]
        /\ lost' = lost
    BY <1>0, <1>2 DEF EnterSetup, Saving, http
  <2>2. Saving = {} /\ Phase = "open"
    BY <2>1, OneSaves DEF Starters
  <2>3. Saving' = {c}
    BY <1>0, <2>1, <2>2 DEF Saving, Running
  <2>4. Life!BeginSave(c)
    BY <1>0, <2>1, <2>2, <2>3 DEF Life!BeginSave, Phase, Saving, ServingNow, Lost
  <2> QED BY <2>4 DEF LifeStep, Life!Next
<1>3. CASE (JobFails(c) \/ JobEnds(c)) /\ Saving' # Saving
  <2>1. /\ job[c] \in Running /\ \E end \in {"ok", "failed"} : job' = [job EXCEPT ![c] = end]
        /\ lost' = lost
    BY <1>3 DEF JobFails, JobEnds, Running, http
  <2>2. Saving = {c} /\ Phase = "open"
    BY <2>1, OneSaves DEF Saving
  <2>3. Saving' = {}
    BY <1>0, <2>1, <2>2 DEF Saving, Running
  <2>4. Life!EndSave(c)
    BY <1>0, <2>1, <2>2, <2>3 DEF Life!EndSave, Phase, Saving, ServingNow, Lost
  <2> QED BY <2>4 DEF LifeStep, Life!Next
<1>4. ASSUME \/ \E kind \in Kinds : Call(c, kind)
             \/ JobWrites(c) \/ JoinJob(c) \/ Drop(c)
      PROVE  Saving' = Saving /\ (lost' # lost => Drop(c) /\ task[c].pc = "bound")
  <2>1. \A d \in Calls : job'[d] \in Running <=> job[d] \in Running
    BY <1>0, <1>4 DEF Call, JobWrites, JoinJob, Drop, Running
  <2>2. lost' # lost => Drop(c) /\ task[c].pc = "bound"
    BY <1>4 DEF Call, JobWrites, JoinJob, Drop, http
  <2> QED BY <1>0, <2>1, <2>2 DEF Saving
\* The cancelled start loses the server it has, before any shutdown has finished.
<1>5. CASE Drop(c) /\ task[c].pc = "bound"
  <2>1. lost' = lost + 1 /\ job' = job
    BY <1>5 DEF Drop
  <2>2. c \in Starters /\ task[c].pc \in Binds
    BY <1>5 DEF Starters, Binds
  <2>3. listening = lost + 1
    BY <1>5, <2>2 DEF Inv, Ordered, ServersCounted
  <2>4. Phase = "open"
    BY <2>2 DEF Inv, Ordered, ShutForGood, AtPeace, Phase
  <2>5. Saving' = Saving
    BY <1>0, <2>1 DEF Saving
  <2>6. ServingNow /\ ServingNow' = FALSE /\ Lost' = Lost + 1
    BY <1>0, <2>1, <2>3 DEF ServingNow, Lost
  <2>7. Life!Lose
    BY <1>0, <2>4, <2>5, <2>6 DEF Life!Lose, Phase, Saving, ServingNow, Lost
  <2> QED BY <2>7 DEF LifeStep, Life!Next
<1>6. ASSUME EnterSetup(c) \/ JobFails(c) \/ JobEnds(c) PROVE lost' = lost
  BY <1>6 DEF EnterSetup, JobFails, JobEnds, http
<1> QED BY <1>1, <1>2, <1>3, <1>4, <1>5, <1>6 DEF Command

LEMMA ServingRefines ==
    ASSUME Inv, process = "up", NEW t \in Starters, Serving(t) \/ Startup
    PROVE  LifeStep
<1>0. /\ process' = process /\ stop' = stop /\ job' = job /\ Phase' = Phase /\ Saving' = Saving
      /\ lost' = lost /\ Lost' = Lost /\ lost \in Nat
  BY DEF Serving, Startup, StartHttp, EnterHttp, Bind, StoreServer, Phase, Saving, Lost, http,
         Inv, TypeOK
<1>1. CASE listening' = listening
  BY <1>0, <1>1 DEF LifeStep, ServingNow, Lost
<1>2. CASE listening' # listening
  <2>1. Bind(t) /\ listening' = listening + 1
    BY <1>2 DEF Serving, Startup, StartHttp, EnterHttp, Bind, StoreServer, http
  <2>2. task[t].pc \in Binds /\ listening = lost
    BY <1>0, <2>1 DEF Bind, Binds, Inv, Ordered, ServersCounted
  <2>3. Phase = "open"
    BY <2>2 DEF Inv, Ordered, ShutForGood, AtPeace, Phase
  <2>4. ~ServingNow /\ ServingNow'
    BY <1>0, <2>1, <2>2 DEF ServingNow
  <2>5. Life!Serve
    BY <1>0, <2>3, <2>4 DEF Life!Serve, Phase, Saving, ServingNow, Lost
  <2> QED BY <2>5 DEF LifeStep, Life!Next
<1> QED BY <1>1, <1>2

LEMMA StoppingRefines ==
    ASSUME Inv, process = "up", NEW s \in Stoppers, Stopping(s)
    PROVE  LifeStep
<1> USE TasksDiffer
<1>0. /\ stop \in [Stoppers -> {"none", "begun", "queued", "wantsHttp", "stopping", "done"}]
      /\ process' = process /\ job' = job /\ Saving' = Saving /\ stop[s] # "done"
      /\ lost' = lost /\ Lost' = Lost
  BY DEF Inv, TypeOK, Stopping, Close, StopSetup, StopHttp, ServerStops, Saving, Lost, http
<1>1. \A r \in Stoppers \ {s} : stop'[r] = stop[r]
  BY <1>0 DEF Stopping, Close, StopSetup, StopHttp, ServerStops, Halts
<1>2. CASE stop'[s] # "done"
  <2>1. Phase' = Phase
    BY <1>0, <1>1, <1>2 DEF Phase
  <2>2. listening' = listening
    BY <1>0, <1>2 DEF Stopping, Close, StopSetup, StopHttp, ServerStops, Halts, http
  <2> QED BY <1>0, <2>1, <2>2 DEF LifeStep, ServingNow, Lost
<1>3. CASE stop'[s] = "done"
  <2>1. Inv'
    BY StoppingKeeps
  <2>2. AtPeace' /\ Phase' = "shut"
    BY <1>0, <1>3, <2>1 DEF Inv, Ordered, ShutForGood, Phase
  <2>3. Saving = {} /\ ~ServingNow'
    BY <1>0, <2>1, <2>2 DEF AtPeace, Inv, TypeOK, Saving, ServingNow
  <2>4. CASE Phase = "shut"
    BY <1>0, <2>2, <2>3, <2>4, OneSaves DEF LifeStep, ServingNow, Lost
  <2>5. CASE Phase = "open"
    <3>1. Life!Shut
      BY <1>0, <2>2, <2>3, <2>5 DEF Life!Shut, Phase, Saving, ServingNow, Lost
    <3> QED BY <3>1 DEF LifeStep, Life!Next
  <2> QED BY <2>4, <2>5, OneSaves
<1> QED BY <1>2, <1>3

LEMMA ProcessRefines ==
    ASSUME Inv, process = "up", MainThread \/ Finish \/ Crash \/ InitElsewhere
    PROVE  LifeStep
<1> USE TasksDiffer
<1>0. Exit \in Stoppers /\ Restart \in Stoppers
      /\ stop \in [Stoppers -> {"none", "begun", "queued", "wantsHttp", "stopping", "done"}]
  BY DEF Inv, TypeOK, Stoppers
<1>1. ASSUME ExitGranted \/ RestartGranted PROVE LifeStep
  <2>1. /\ \E s \in Stoppers : stop[s] = "done"
        /\ process' \in {"exited", "restarted"} /\ job' = job
        /\ listening' = listening /\ lost' = lost
    BY <1>0, <1>1 DEF ExitGranted, RestartGranted, Ends, Inv, Ordered, ShutForGood, http
  <2>2. /\ Phase = "shut" /\ Phase' = "ended" /\ Saving' = Saving
        /\ ServingNow' = ServingNow /\ Lost' = Lost
    BY <2>1 DEF Phase, Saving, ServingNow, Lost
  <2>3. Life!End
    BY <2>2 DEF Life!End, Phase, Saving, ServingNow, Lost
  <2> QED BY <2>3 DEF LifeStep, Life!Next
<1>2. ASSUME Crash PROVE LifeStep
  <2>1. /\ Phase # "ended" /\ Phase' = "ended"
        /\ Saving' = {} /\ ServingNow' = FALSE /\ Lost' = 0
    BY <1>2 DEF Crash, Ends, Phase, Saving, ServingNow, Lost
  <2>2. Life!Crash
    BY <2>1 DEF Life!Crash, Phase, Saving, ServingNow, Lost
  <2> QED BY <2>2 DEF LifeStep, Life!Next
<1>3. ASSUME ExitRequested \/ RestartRequested \/ Finish \/ InitElsewhere PROVE LifeStep
  <2>1. /\ process' = process /\ job' = job /\ listening' = listening /\ lost' = lost
        /\ \A s \in Stoppers : stop'[s] = "done" <=> stop[s] = "done"
    BY <1>0, <1>3 DEF ExitRequested, RestartRequested, Finish, InitElsewhere, Listens, Halts,
                      http, Inv, Ordered, ShutForGood, TypeOK
  <2>2. Phase' = Phase /\ Saving' = Saving /\ ServingNow' = ServingNow /\ Lost' = Lost
    BY <2>1 DEF Phase, Saving, ServingNow, Lost
  <2> QED BY <2>2 DEF LifeStep
<1> QED BY <1>1, <1>2, <1>3 DEF MainThread

LEMMA RelaunchRefines ==
    ASSUME Inv, Relaunch
    PROVE  LifeStep
<1>1. /\ Phase = "ended" /\ Phase' = "open"
      /\ Saving' = {} /\ ServingNow' = FALSE /\ Lost' = 0
  BY DEF Relaunch, Phase, Saving, ServingNow, Lost, Running
<1>2. Life!Relaunch
  BY <1>1 DEF Life!Relaunch, Phase, Saving, ServingNow, Lost
<1> QED BY <1>2 DEF LifeStep, Life!Next

\* The application implements ApplicationLife, for any number of commands and launches and
\* wherever a command is cancelled: one write at a time, one server it can stop, and an
\* orderly end that cuts off no write and leaves no server but those cancelled starts lost.
THEOREM LifeImplemented == Spec => EndsInOrder
<1>1. Init => Life!Init
  <2> SUFFICES ASSUME Init PROVE Life!Init
    OBVIOUS
  <2>1. Phase = "open" /\ Saving = {} /\ ServingNow = FALSE /\ Lost = 0
    BY DEF Init, Phase, Saving, ServingNow, Lost, Running
  <2> QED BY <2>1 DEF Life!Init, Phase, Saving, ServingNow, Lost
<1>2. Inv /\ [Next]_vars => [Life!Next]_Life!vars
  <2> SUFFICES ASSUME Inv, [Next]_vars PROVE LifeStep
    BY DEF LifeStep, Life!vars, Phase, Saving, ServingNow, Lost
  <2>1. CASE UNCHANGED vars
    BY <2>1 DEF vars, http, LifeStep, Phase, Saving, ServingNow, Lost
  <2>2. CASE Next
    BY <2>2, CommandRefines, ServingRefines, StoppingRefines, ProcessRefines, RelaunchRefines
       DEF Next, Works, Starters
  <2> QED BY <2>1, <2>2
<1> QED BY <1>1, <1>2, LifecycleInvariant, PTL DEF Spec, EndsInOrder, Life!Spec

-----------------------------------------------------------------------------
(* The updater (UpdateFlow)                                                *)

\* A flow is at one of its places.
FlowPlaces ==
    flow \in [Checks -> [pc : Holding \cup Waiting \cup {"rest"}, manual : BOOLEAN,
                         err : BOOLEAN, said : SUBSET Said]]

\* Who holds the flag holds it alone.
Exclusive ==
    \A f, g \in Checks : flow[f].pc \in Holding /\ flow[g].pc \in Holding => f = g

FlowInv == FlowPlaces /\ Exclusive /\ MenuTellsTheFlow

\* The places of a flow, one name for all.
AllFlowPlaces == Holding \cup Waiting \cup {"rest"}

LEMMA FlowInit == UpdateInit => FlowInv
<1> SUFFICES ASSUME UpdateInit PROVE FlowInv
  OBVIOUS
<1>1. \A f \in Checks :
         flow[f] = [pc |-> IF f = AtStartup THEN "claiming" ELSE "rest",
                    manual |-> f # AtStartup, err |-> FALSE, said |-> {}]
  BY DEF UpdateInit
<1>2. ASSUME NEW f \in Checks
      PROVE  /\ flow[f].pc \in {"claiming", "rest"}
             /\ flow[f] \in [pc : Holding \cup Waiting \cup {"rest"}, manual : BOOLEAN,
                             err : BOOLEAN, said : SUBSET Said]
  <2> PICK pc \in {"claiming", "rest"} : pc = IF f = AtStartup THEN "claiming" ELSE "rest"
    OBVIOUS
  <2> PICK manual \in BOOLEAN : manual = (f # AtStartup)
    BY Zenon
  <2>1. flow[f] = [pc |-> pc, manual |-> manual, err |-> FALSE, said |-> {}]
    BY <1>1, Zenon
  <2>2. pc \in Holding \cup Waiting \cup {"rest"} /\ {} \in SUBSET Said
    BY DEF Waiting
  <2> QED BY <2>1, <2>2
<1>3. FlowPlaces
  BY <1>2 DEF FlowPlaces, UpdateInit
<1>4. \A f \in Checks : flow[f].pc \notin Holding
  BY <1>2 DEF Holding
<1>5. menu.name = "Idle" /\ flight = FALSE
  BY DEF UpdateInit, Shows
<1> QED BY <1>3, <1>4, <1>5 DEF FlowInv, Exclusive, MenuTellsTheFlow

\* What Tells does to a flow.
LEMMA Told ==
    ASSUME FlowPlaces, NEW f \in Checks, NEW pc \in AllFlowPlaces, NEW what \in SUBSET Said,
           Tells(f, pc, what)
    PROVE  /\ FlowPlaces'
           /\ flow'[f].pc = pc
           /\ \A g \in Checks \ {f} : flow'[g] = flow[g]
BY DEF FlowPlaces, Tells, AllFlowPlaces

\* A flow that holds the flag goes on holding it, and the menu goes with it.
LEMMA HolderMoves ==
    ASSUME FlowInv, NEW f \in Checks, flow[f].pc \in Holding, flow'[f].pc \in Holding,
           \A g \in Checks \ {f} : flow'[g] = flow[g],
           FlowPlaces', flight' = flight, menu'.name \in MenuAt(flow'[f].pc)
    PROVE  FlowInv'
<1>1. \A g \in Checks \ {f} : flow'[g].pc \notin Holding
  BY DEF FlowInv, Exclusive
<1>2. flight'
  BY DEF FlowInv, MenuTellsTheFlow
<1>3. Exclusive'
  BY <1>1 DEF Exclusive
<1>4. MenuTellsTheFlow'
  BY <1>1, <1>2 DEF MenuTellsTheFlow, MenuAt
<1> QED BY <1>3, <1>4 DEF FlowInv

\* A flow without the flag goes where it does not hold it either.
LEMMA OutsiderMoves ==
    ASSUME FlowInv, NEW f \in Checks, flow[f].pc \notin Holding, flow'[f].pc \notin Holding,
           \A g \in Checks \ {f} : flow'[g] = flow[g],
           FlowPlaces', flight' = flight, menu' = menu
    PROVE  FlowInv'
<1>1. \A g \in Checks : flow'[g].pc \in Holding => flow[g].pc \in Holding /\ flow'[g] = flow[g]
  OBVIOUS
<1>2. Exclusive'
  BY <1>1 DEF FlowInv, Exclusive
<1>3. MenuTellsTheFlow'
  BY <1>1 DEF FlowInv, MenuTellsTheFlow, MenuAt
<1> QED BY <1>2, <1>3 DEF FlowInv

\* The two ends of a flow at work: the flag is claimed and released.
LEMMA ClaimKeeps ==
    ASSUME FlowInv, NEW f \in Checks, Claim(f)
    PROVE  FlowInv'
<1>0. FlowPlaces /\ menu' = menu /\ flow[f].pc \in {"claiming", "claimingRestart"}
  BY DEF FlowInv, Claim
<1>1. flow[f].pc \notin Holding
  BY <1>0 DEF Holding
<1>2. CASE flight
  <2>1. /\ Tells(f, "rest", IF flow[f].manual THEN {"busy"} ELSE {}) /\ flight' = flight
    BY <1>2 DEF Claim
  <2>2. "rest" \in AllFlowPlaces /\ (IF flow[f].manual THEN {"busy"} ELSE {}) \in SUBSET Said
    BY DEF AllFlowPlaces, Said
  <2>3. /\ FlowPlaces' /\ flow'[f].pc = "rest"
        /\ \A g \in Checks \ {f} : flow'[g] = flow[g]
    BY <1>0, <2>1, <2>2, Told
  <2>4. flow'[f].pc \notin Holding
    BY <2>3 DEF Holding
  <2> QED BY <1>0, <1>1, <2>1, <2>3, <2>4, OutsiderMoves
<1>3. CASE ~flight
  <2>1. PICK pc \in {"claimed", "claimedRestart"} : Tells(f, pc, {}) /\ flight' = TRUE
    BY <1>3 DEF Claim
  <2>2. pc \in AllFlowPlaces /\ {} \in SUBSET Said /\ pc \in Holding
    BY DEF AllFlowPlaces, Holding
  <2>3. /\ FlowPlaces' /\ flow'[f].pc = pc
        /\ \A g \in Checks \ {f} : flow'[g] = flow[g]
    BY <1>0, <2>1, <2>2, Told
  <2>4. \A g \in Checks : flow[g].pc \notin Holding
    BY <1>3 DEF FlowInv, MenuTellsTheFlow
  <2>5. menu.name \in {"Idle", "RestartReady"}
    BY <2>4 DEF FlowInv, MenuTellsTheFlow
  <2>6. Exclusive'
    BY <2>3, <2>4 DEF Exclusive
  <2>7. menu'.name \in MenuAt(flow'[f].pc)
    BY <1>0, <2>1, <2>3, <2>5 DEF MenuAt
  <2>8. MenuTellsTheFlow'
    BY <2>1, <2>2, <2>3, <2>4, <2>7 DEF MenuTellsTheFlow, MenuAt
  <2> QED BY <2>3, <2>6, <2>8 DEF FlowInv
<1> QED BY <1>2, <1>3

LEMMA ReleaseKeeps ==
    ASSUME FlowInv, NEW f \in Checks, Release(f)
    PROVE  FlowInv'
<1> DEFINE what == IF flow[f].err THEN Quiet(f, "failed") ELSE {}
<1>1. /\ Tells(f, "rest", what) /\ flight' = FALSE /\ menu' = menu /\ flow[f].pc = "releasing"
  BY DEF Release
<1>2. "rest" \in AllFlowPlaces /\ what \in SUBSET Said
  BY DEF AllFlowPlaces, Said, Quiet
<1> HIDE DEF what
<1>3. /\ FlowPlaces' /\ flow'[f].pc = "rest"
      /\ \A g \in Checks \ {f} : flow'[g] = flow[g]
  BY <1>1, <1>2, Told DEF FlowInv
<1>4. \A g \in Checks : flow'[g].pc \notin Holding
  <2>1. flow[f].pc \in Holding
    BY <1>1 DEF Holding
  <2>2. \A g \in Checks \ {f} : flow[g].pc \notin Holding
    BY <2>1 DEF FlowInv, Exclusive
  <2>3. "rest" \notin Holding
    BY DEF Holding
  <2> QED BY <1>3, <2>2, <2>3
<1>5. menu.name \in {"Idle", "RestartReady"}
  <2>1. flow[f].pc \in Holding
    BY <1>1 DEF Holding
  <2>2. menu.name \in MenuAt("releasing")
    BY <1>1, <2>1 DEF FlowInv, MenuTellsTheFlow
  <2> QED BY <2>2 DEF MenuAt
<1> QED BY <1>1, <1>3, <1>4, <1>5 DEF FlowInv, Exclusive, MenuTellsTheFlow

\* The steps of a flow that holds the flag and keeps it: from where it is, where it goes,
\* what it says and what the menu says then.
LEMMA HolderTells ==
    ASSUME FlowInv, NEW f \in Checks, NEW pc \in Holding, NEW what \in SUBSET Said,
           flow[f].pc \in Holding, Tells(f, pc, what), flight' = flight,
           menu'.name \in MenuAt(pc)
    PROVE  FlowInv'
<1>1. /\ FlowPlaces' /\ flow'[f].pc = pc
      /\ \A g \in Checks \ {f} : flow'[g] = flow[g]
  BY Told DEF FlowInv, AllFlowPlaces
<1> QED BY <1>1, HolderMoves

\* In between, only the flow at work moves.
LEMMA FlowKeeps ==
    ASSUME FlowInv, NEW f \in Checks,
           \/ ShowClaim(f) \/ Declines(f) \/ Confirms(f) \/ DownloadEnds(f) \/ Install(f)
           \/ RestartNow(f) \/ RestartLater(f) \/ RestoreMenu(f)
    PROVE  FlowInv'
<1>1. \A pc \in Holding : flow[f].pc = pc => menu.name \in MenuAt(pc)
  BY DEF FlowInv, MenuTellsTheFlow
<1>2. \E pc \in Holding, what \in SUBSET Said :
         /\ Tells(f, pc, what) /\ flight' = flight /\ flow[f].pc \in Holding
         /\ menu'.name \in MenuAt(pc)
  <2>1. CASE ShowClaim(f)
    <3>1. \/ /\ flow[f].pc = "claimed" /\ menu' = Shows("Checking") /\ Tells(f, "checking", {})
             /\ flight' = flight
          \/ /\ flow[f].pc = "claimedRestart" /\ menu' = Shows("RestartPrompt")
             /\ Tells(f, "askingRestart", {"restart"}) /\ flight' = flight
      BY <2>1 DEF ShowClaim
    <3> QED BY <3>1 DEF Holding, Said, MenuAt, Shows
  <2>2. CASE Declines(f)
    <3>1. flow[f].pc = "asking" /\ Tells(f, "dropping", {}) /\ UNCHANGED <<flight, menu>>
      BY <2>2 DEF Declines
    <3>2. menu'.name = "Checking"
      BY <1>1, <3>1 DEF Holding, MenuAt
    <3> QED BY <3>1, <3>2 DEF Holding, MenuAt
  <2>3. CASE Confirms(f)
    <3>1. /\ flow[f].pc = "asking" /\ Tells(f, "downloading", {}) /\ flight' = flight
          /\ menu'.name = "Downloading"
      BY <2>3 DEF Confirms, Downloading
    <3> QED BY <3>1 DEF Holding, MenuAt
  <2>4. CASE DownloadEnds(f)
    <3>1. /\ flow[f].pc = "downloading" /\ flight' = flight
          /\ \/ Tells(f, "installing", {}) /\ menu'.name = "Installing"
             \/ Tells(f, "dropping", {"installFailed"}) /\ menu' = menu
      BY <2>4 DEF DownloadEnds, Shows
    <3>2. menu.name = "Downloading"
      BY <1>1, <3>1 DEF Holding, MenuAt
    <3> QED BY <3>1, <3>2 DEF Holding, MenuAt, Said
  <2>5. CASE Install(f)
    <3>1. /\ flow[f].pc = "installing" /\ flight' = flight
          /\ \/ Tells(f, "askingRestart", {"restart"}) /\ menu'.name = "RestartPrompt"
             \/ Tells(f, "dropping", {"installFailed"}) /\ menu' = menu
      BY <2>5 DEF Install, Shows
    <3>2. menu.name = "Installing"
      BY <1>1, <3>1 DEF Holding, MenuAt
    <3> QED BY <3>1, <3>2 DEF Holding, MenuAt, Said
  <2>6. CASE RestartNow(f)
    <3>1. flow[f].pc = "askingRestart" /\ Tells(f, "restarting", {}) /\ UNCHANGED <<flight, menu>>
      BY <2>6 DEF RestartNow
    <3>2. menu'.name = "RestartPrompt"
      BY <1>1, <3>1 DEF Holding, MenuAt
    <3> QED BY <3>1, <3>2 DEF Holding, MenuAt
  <2>7. CASE RestartLater(f)
    <3>1. /\ flow[f].pc = "askingRestart" /\ Tells(f, "releasing", {}) /\ flight' = flight
          /\ menu'.name = "RestartReady"
      BY <2>7 DEF RestartLater, Shows
    <3> QED BY <3>1 DEF Holding, MenuAt
  <2>8. CASE RestoreMenu(f)
    <3>1. /\ flow[f].pc = "dropping" /\ Tells(f, "releasing", {}) /\ flight' = flight
          /\ menu'.name = "Idle"
      BY <2>8 DEF RestoreMenu, Shows
    <3> QED BY <3>1 DEF Holding, MenuAt
  <2> QED BY <2>1, <2>2, <2>3, <2>4, <2>5, <2>6, <2>7, <2>8
<1> QED BY <1>2, HolderTells

\* The answer of the release server, and the steps of a download.
LEMMA WorkKeeps ==
    ASSUME FlowInv, NEW f \in Checks,
           CheckAnswers(f) \/ Tick(f) \/ \E n \in Chunks : Chunk(f, n)
    PROVE  FlowInv'
<1>1. \A pc \in Holding : flow[f].pc = pc => menu.name \in MenuAt(pc)
  BY DEF FlowInv, MenuTellsTheFlow
<1>2. CASE CheckAnswers(f)
  <2>1. flow[f].pc = "checking" /\ UNCHANGED <<flight, menu>>
    BY <1>2 DEF CheckAnswers
  <2>2. menu'.name = "Checking" /\ flow[f].pc \in Holding
    BY <1>1, <2>1 DEF Holding, MenuAt
  <2>3. CASE flow' = [flow EXCEPT ![f].pc = "dropping", ![f].err = TRUE]
    <3>1. /\ FlowPlaces' /\ flow'[f].pc = "dropping" /\ \A g \in Checks \ {f} : flow'[g] = flow[g]
      BY <2>3 DEF FlowInv, FlowPlaces, Holding
    <3>2. flow'[f].pc \in Holding /\ menu'.name \in MenuAt(flow'[f].pc)
      BY <2>2, <3>1 DEF Holding, MenuAt
    <3> QED BY <2>1, <2>2, <3>1, <3>2, HolderMoves
  <2>4. ASSUME NEW pc \in {"dropping", "asking"}, NEW what \in SUBSET Said, Tells(f, pc, what)
        PROVE  FlowInv'
    <3>1. pc \in Holding /\ menu'.name \in MenuAt(pc)
      BY <2>2 DEF Holding, MenuAt
    <3> QED BY <2>1, <2>2, <2>4, <3>1, HolderTells
  <2>5. Quiet(f, "latest") \in SUBSET Said /\ {"prompt"} \in SUBSET Said
    BY DEF Quiet, Said
  <2> QED BY <1>2, <2>3, <2>4, <2>5 DEF CheckAnswers
<1>3. CASE Tick(f) \/ \E n \in Chunks : Chunk(f, n)
  <2>1. flow[f].pc = "downloading" /\ flight' = flight
    BY <1>3 DEF Tick, Chunk
  <2>2. menu.name = "Downloading" /\ flow[f].pc \in Holding
    BY <1>1, <2>1 DEF Holding, MenuAt
  <2>3. \/ Tells(f, "dropping", {"installFailed"}) /\ menu' = menu
        \/ flow' = flow /\ menu'.name = "Downloading"
    <3>1. CASE Tick(f)
      BY <2>2, <3>1 DEF Tick
    <3>2. ASSUME NEW n \in Chunks, Chunk(f, n) PROVE flow' = flow /\ menu'.name = "Downloading"
      <4>1. flow' = flow /\ \/ menu' = menu
                            \/ \E p : menu' = Downloading(p)
        BY <3>2 DEF Chunk
      <4> QED BY <2>2, <4>1 DEF Downloading
    <3> QED BY <1>3, <3>1, <3>2
  <2>4. CASE Tells(f, "dropping", {"installFailed"}) /\ menu' = menu
    <3>1. /\ "dropping" \in Holding /\ {"installFailed"} \in SUBSET Said
          /\ menu'.name \in MenuAt("dropping")
      BY <2>2, <2>4 DEF Holding, Said, MenuAt
    <3> QED BY <2>1, <2>2, <2>4, <3>1, HolderTells
  <2>5. CASE flow' = flow /\ menu'.name = "Downloading"
    <3>1. menu'.name \in MenuAt(flow'[f].pc)
      BY <2>1, <2>5 DEF MenuAt
    <3> QED BY <2>1, <2>2, <2>5, <3>1, HolderMoves DEF FlowInv, FlowPlaces
  <2> QED BY <2>3, <2>4, <2>5
<1> QED BY <1>2, <1>3

\* A check that is asked for, and reads the menu.
LEMMA AskKeeps ==
    ASSUME FlowInv, NEW f \in Checks, SpawnManualCheck(f) \/ ReadMenu(f)
    PROVE  FlowInv'
<1>1. flow[f].pc \notin Holding /\ UNCHANGED <<flight, menu>>
  BY DEF SpawnManualCheck, ReadMenu, Holding
<1>2. /\ FlowPlaces' /\ flow'[f].pc \in Waiting /\ \A g \in Checks \ {f} : flow'[g] = flow[g]
  <2>1. CASE SpawnManualCheck(f)
    <3>1. flow' = [flow EXCEPT ![f] = [pc |-> "reading", manual |-> TRUE, err |-> FALSE,
                                       said |-> {}]]
      BY <2>1 DEF SpawnManualCheck
    <3> QED BY <3>1 DEF FlowInv, FlowPlaces, Waiting
  <2>2. CASE ReadMenu(f)
    <3>1. PICK pc \in {"claimingRestart", "claiming"} : Tells(f, pc, {})
      BY <2>2 DEF ReadMenu
    <3>2. pc \in AllFlowPlaces /\ pc \in Waiting /\ {} \in SUBSET Said
      BY DEF AllFlowPlaces, Waiting
    <3> QED BY <3>1, <3>2, Told DEF FlowInv
  <2> QED BY <2>1, <2>2
<1>3. flow'[f].pc \notin Holding
  BY <1>2 DEF Waiting, Holding
<1> QED BY <1>1, <1>2, <1>3, OutsiderMoves

LEMMA FlowNext == FlowInv /\ [UpdateNext]_updateVars => FlowInv'
<1>1. ASSUME FlowInv, UpdateNext PROVE FlowInv'
  BY <1>1, ClaimKeeps, ReleaseKeeps, FlowKeeps, WorkKeeps, AskKeeps DEF UpdateNext, Advances
<1>2. ASSUME FlowInv, UNCHANGED updateVars PROVE FlowInv'
  BY <1>2 DEF updateVars, FlowInv, FlowPlaces, Exclusive, MenuTellsTheFlow, MenuAt
<1> QED BY <1>1, <1>2

\* UPDATE_FLOW_IN_FLIGHT: whatever the checks of the launch, of the menu and of the
\* settings do, one flow at a time is at work.
THEOREM OneFlowAtATime == UpdateSpec => []Exclusive
<1>1. FlowInv => Exclusive
  BY DEF FlowInv
<1> QED BY <1>1, FlowInit, FlowNext, PTL DEF UpdateSpec

\* FlowGuard and UpdateMenuStatus: the menu shows the stage of the flow at work, and can be
\* used when there is none.
THEOREM MenuAlwaysTells == UpdateSpec => []MenuTellsTheFlow
<1>1. FlowInv => MenuTellsTheFlow
  BY DEF FlowInv
<1> QED BY <1>1, FlowInit, FlowNext, PTL DEF UpdateSpec

-----------------------------------------------------------------------------
(* What the user is told of a check. *)

Loud == {"latest", "failed", "busy"}
Asked == {"asking", "downloading", "installing", "askingRestart", "restarting"}

\* A flow that was shown to the user has said something; one that nobody asked for has not
\* said what only an answer would say.
Spoken ==
    \A f \in Checks :
        /\ flow[f].manual /\ ~flow[f].err /\ flow[f].pc \in {"dropping", "releasing"}
              => flow[f].said # {}
        /\ flow[f].pc \in Asked => flow[f].said # {}
        /\ ~flow[f].manual => flow[f].said \cap Loud = {}

\* What was said to the user stays said, while no flow moves.
LEMMA SpokenStays ==
    ASSUME Spoken, flow' = flow
    PROVE  Spoken' /\ AnswersFit
BY DEF Spoken, AnswersFit

\* One flow moves, and says what its new place tells.
LEMMA SpokenMoves ==
    ASSUME FlowPlaces, Spoken, NEW f \in Checks, NEW pc \in AllFlowPlaces, NEW what \in SUBSET Said,
           Tells(f, pc, what),
           \/ pc \notin Asked \cup {"dropping", "releasing", "rest"}
           \/ flow[f].said # {} \/ what # {}
           \/ ~flow[f].manual /\ pc \notin Asked
           \/ flow[f].err /\ pc \notin Asked \cup {"rest"},
           ~flow[f].manual => what \cap Loud = {}
    PROVE  Spoken' /\ AnswersFit
<1>1. /\ flow'[f].pc = pc /\ flow'[f].said = flow[f].said \cup what
      /\ flow'[f].manual = flow[f].manual /\ flow'[f].err = flow[f].err
      /\ \A g \in Checks \ {f} : flow'[g] = flow[g]
  BY DEF Tells, FlowPlaces
<1>2. ~flow'[f].manual => flow'[f].said \cap Loud = {}
  BY <1>1 DEF Spoken
<1>3. /\ flow'[f].manual /\ ~flow'[f].err /\ flow'[f].pc \in {"dropping", "releasing"}
            => flow'[f].said # {}
      /\ flow'[f].pc \in Asked => flow'[f].said # {}
      /\ flow'[f].manual /\ flow'[f].pc = "rest" => flow'[f].said # {}
  BY <1>1
<1>4. Spoken'
  BY <1>1, <1>2, <1>3 DEF Spoken
<1>5. AnswersFit
  <2> SUFFICES ASSUME NEW g \in Checks, flow[g].pc # "rest", flow'[g].pc = "rest"
               PROVE  IF flow[g].manual THEN flow'[g].said # {}
                      ELSE flow'[g].said \cap {"latest", "failed", "busy"} = {}
    BY DEF AnswersFit
  <2>1. g = f
    BY <1>1
  <2> QED BY <1>1, <1>2, <1>3, <2>1 DEF Loud
<1> QED BY <1>4, <1>5

LEMMA SpokenKept ==
    ASSUME FlowInv, Spoken, [UpdateNext]_updateVars
    PROVE  Spoken' /\ AnswersFit
<1>0. FlowPlaces
  BY DEF FlowInv
<1>1. CASE UNCHANGED updateVars
  BY <1>1, SpokenStays DEF updateVars
<1>2. ASSUME NEW f \in Checks, Declines(f) \/ Confirms(f) \/ RestartNow(f) \/ RestartLater(f)
      PROVE  Spoken' /\ AnswersFit
  <2>1. /\ flow[f].pc \in Asked
        /\ \E pc \in {"dropping", "downloading", "restarting", "releasing"} : Tells(f, pc, {})
    BY <1>2 DEF Declines, Confirms, RestartNow, RestartLater, Asked
  <2>2. flow[f].said # {}
    BY <2>1 DEF Spoken
  <2>3. \A pc \in {"dropping", "downloading", "restarting", "releasing"} : pc \in AllFlowPlaces
    BY DEF AllFlowPlaces, Holding
  <2> QED BY <1>0, <2>1, <2>2, <2>3, SpokenMoves
<1>3. ASSUME NEW f \in Checks, DownloadEnds(f) \/ Install(f) \/ Tick(f)
      PROVE  Spoken' /\ AnswersFit
  <2>1. /\ flow[f].pc \in Asked
        /\ \/ Tells(f, "installing", {})
           \/ Tells(f, "dropping", {"installFailed"})
           \/ Tells(f, "askingRestart", {"restart"})
           \/ flow' = flow
    BY <1>3 DEF DownloadEnds, Install, Tick, Asked
  <2>2. flow[f].said # {}
    BY <2>1 DEF Spoken
  <2>3. \A pc \in {"installing", "dropping", "askingRestart"} : pc \in AllFlowPlaces
    BY DEF AllFlowPlaces, Holding
  <2>4. \A what \in {{}, {"installFailed"}, {"restart"}} :
           what \in SUBSET Said /\ what \cap Loud = {}
    BY DEF Said, Loud
  <2> QED BY <1>0, <2>1, <2>2, <2>3, <2>4, SpokenMoves, SpokenStays
<1>4. ASSUME NEW f \in Checks, NEW n \in Chunks, Chunk(f, n)
      PROVE  Spoken' /\ AnswersFit
  BY <1>4, SpokenStays DEF Chunk
<1>5. ASSUME NEW f \in Checks, SpawnManualCheck(f) PROVE Spoken' /\ AnswersFit
  <2>1. /\ flow'[f] = [pc |-> "reading", manual |-> TRUE, err |-> FALSE, said |-> {}]
        /\ \A g \in Checks \ {f} : flow'[g] = flow[g]
    BY <1>0, <1>5 DEF SpawnManualCheck, FlowPlaces
  <2>2. flow'[f].pc = "reading" /\ flow'[f].manual /\ flow'[f].said = {}
    BY <2>1
  <2>3. "reading" \notin Asked
    BY DEF Asked
  <2> QED BY <2>1, <2>2, <2>3 DEF Spoken, AnswersFit
<1>6. ASSUME NEW f \in Checks, ReadMenu(f) PROVE Spoken' /\ AnswersFit
  <2>1. \E pc \in {"claimingRestart", "claiming"} : Tells(f, pc, {})
    BY <1>6 DEF ReadMenu
  <2>2. \A pc \in {"claimingRestart", "claiming"} :
           pc \in AllFlowPlaces /\ pc \notin Asked \cup {"dropping", "releasing", "rest"}
    BY DEF AllFlowPlaces, Waiting, Asked
  <2> QED BY <1>0, <2>1, <2>2, SpokenMoves
<1>7. ASSUME NEW f \in Checks, Claim(f) PROVE Spoken' /\ AnswersFit
  <2>1. \/ flow[f].manual /\ Tells(f, "rest", {"busy"})
        \/ ~flow[f].manual /\ Tells(f, "rest", {})
        \/ \E pc \in {"claimed", "claimedRestart"} : Tells(f, pc, {})
    BY <1>7 DEF Claim
  <2>2. /\ "rest" \in AllFlowPlaces /\ {"busy"} \in SUBSET Said /\ "rest" \notin Asked
        /\ \A pc \in {"claimed", "claimedRestart"} :
              pc \in AllFlowPlaces /\ pc \notin Asked \cup {"dropping", "releasing", "rest"}
    BY DEF AllFlowPlaces, Holding, Said, Asked
  <2> QED BY <1>0, <2>1, <2>2, SpokenMoves
<1>8. ASSUME NEW f \in Checks, ShowClaim(f) PROVE Spoken' /\ AnswersFit
  <2>1. Tells(f, "checking", {}) \/ Tells(f, "askingRestart", {"restart"})
    BY <1>8 DEF ShowClaim
  <2>2. /\ "checking" \in AllFlowPlaces /\ "askingRestart" \in AllFlowPlaces /\ {"restart"} \in SUBSET Said
        /\ "checking" \notin Asked \cup {"dropping", "releasing", "rest"}
        /\ {"restart"} \cap Loud = {}
    BY DEF AllFlowPlaces, Holding, Said, Asked, Loud
  <2> QED BY <1>0, <2>1, <2>2, SpokenMoves
<1>9. ASSUME NEW f \in Checks, CheckAnswers(f) PROVE Spoken' /\ AnswersFit
  <2>0. "dropping" \in AllFlowPlaces /\ "asking" \in AllFlowPlaces /\ "dropping" \notin Asked
    BY DEF AllFlowPlaces, Holding, Asked
  <2>1. CASE flow' = [flow EXCEPT ![f].pc = "dropping", ![f].err = TRUE]
    <3>1. /\ flow'[f].pc = "dropping" /\ flow'[f].err /\ flow'[f].manual = flow[f].manual
          /\ flow'[f].said = flow[f].said /\ \A g \in Checks \ {f} : flow'[g] = flow[g]
      BY <1>0, <2>1 DEF FlowPlaces
    <3> QED BY <2>0, <3>1 DEF Spoken, AnswersFit
  <2>2. CASE Tells(f, "dropping", Quiet(f, "latest"))
    <3>1. \/ flow[f].manual /\ Quiet(f, "latest") = {"latest"}
          \/ ~flow[f].manual /\ Quiet(f, "latest") = {}
      BY DEF Quiet
    <3>2. {"latest"} \in SUBSET Said
      BY DEF Said
    <3> QED BY <1>0, <2>0, <2>2, <3>1, <3>2, SpokenMoves
  <2>3. CASE Tells(f, "asking", {"prompt"})
    <3>1. {"prompt"} \in SUBSET Said /\ {"prompt"} \cap Loud = {}
      BY DEF Said, Loud
    <3> QED BY <1>0, <2>0, <2>3, <3>1, SpokenMoves
  <2> QED BY <1>9, <2>1, <2>2, <2>3 DEF CheckAnswers
<1>10. ASSUME NEW f \in Checks, RestoreMenu(f) PROVE Spoken' /\ AnswersFit
  <2>1. flow[f].pc = "dropping" /\ Tells(f, "releasing", {})
    BY <1>10 DEF RestoreMenu
  <2>2. "releasing" \in AllFlowPlaces /\ "releasing" \notin Asked
    BY DEF AllFlowPlaces, Holding, Asked
  <2>3. flow[f].said # {} \/ ~flow[f].manual \/ flow[f].err
    BY <2>1 DEF Spoken
  <2> QED BY <1>0, <2>1, <2>2, <2>3, SpokenMoves
<1>11. ASSUME NEW f \in Checks, Release(f) PROVE Spoken' /\ AnswersFit
  <2>1. flow[f].pc = "releasing"
    BY <1>11 DEF Release
  <2>2. \/ flow[f].manual /\ Tells(f, "rest", {"failed"})
        \/ ~flow[f].manual /\ Tells(f, "rest", {})
        \/ ~flow[f].err /\ Tells(f, "rest", {})
    BY <1>11 DEF Release, Quiet
  <2>3. flow[f].said # {} \/ ~flow[f].manual \/ flow[f].err
    BY <2>1 DEF Spoken
  <2>4. "rest" \in AllFlowPlaces /\ {"failed"} \in SUBSET Said /\ "rest" \notin Asked
    BY DEF AllFlowPlaces, Said, Asked
  <2> QED BY <1>0, <2>2, <2>3, <2>4, SpokenMoves
<1> QED BY <1>1, <1>2, <1>3, <1>4, <1>5, <1>6, <1>7, <1>8, <1>9, <1>10, <1>11 DEF UpdateNext, Advances

-----------------------------------------------------------------------------
(* The percent of a download. *)

\* What integer division returns.
LEMMA Quotient ==
    ASSUME NEW a \in Nat, NEW t \in Nat, t > 0
    PROVE  a \div t \in Int /\ t * (a \div t) <= a /\ a < t * ((a \div t) + 1)
OBVIOUS

\* A factor on both sides goes.
LEMMA Cancel ==
    ASSUME NEW t \in Nat, NEW p \in Int, NEW q \in Int, t > 0, t * p < t * (q + 1)
    PROVE  p <= q
<1>1. ASSUME p >= q + 1 PROVE FALSE
  <2> PICK d \in Nat : p = q + 1 + d
    <3>1. p - (q + 1) \in Nat /\ p = q + 1 + (p - (q + 1))
      BY <1>1
    <3> QED BY <3>1
  <2>1. t * (q + 1 + d) = t * (q + 1) + t * d
    OBVIOUS
  <2>2. t * d >= 0 /\ t * d \in Int /\ t * (q + 1) \in Int
    OBVIOUS
  <2> QED BY <2>1, <2>2
<1> QED BY <1>1

\* More bytes are never a lower percent.
LEMMA PercentGrows ==
    ASSUME NEW a \in Nat, NEW b \in Nat, NEW t \in Nat, t > 0, a <= b
    PROVE  Percent(a, t) \in Int /\ Percent(a, t) <= Percent(b, t)
<1>1. ASSUME NEW r \in Nat, r < t PROVE (r * 100) \div t \in Int /\ (r * 100) \div t <= 100
  <2> PICK n \in Nat : n = r * 100
    OBVIOUS
  <2> PICK p : p = n \div t
    OBVIOUS
  <2>1. p \in Int /\ t * p <= n
    BY Quotient
  <2>2. n < t * (100 + 1)
    BY <1>1
  <2>3. t * p \in Int /\ t * (100 + 1) \in Int
    BY <2>1
  <2>4. p <= 100
    BY <2>1, <2>2, <2>3, Cancel
  <2> QED BY <2>1, <2>4
<1>2. CASE b < t
  <2> PICK m \in Nat : m = a * 100
    OBVIOUS
  <2> PICK n \in Nat : n = b * 100
    OBVIOUS
  <2> PICK p : p = m \div t
    OBVIOUS
  <2> PICK q : q = n \div t
    OBVIOUS
  <2>1. p \in Int /\ q \in Int /\ t * p <= m /\ n < t * (q + 1)
    BY Quotient
  <2>2. m <= n
    OBVIOUS
  <2>3. t * p \in Int /\ t * (q + 1) \in Int
    BY <2>1
  <2>4. p <= q
    BY <2>1, <2>2, <2>3, Cancel
  <2>5. Percent(a, t) = p /\ Percent(b, t) = q
    BY <1>2 DEF Percent
  <2> QED BY <2>1, <2>4, <2>5
<1>3. CASE ~(b < t)
  <2>1. Percent(b, t) = 100
    BY <1>3 DEF Percent
  <2>2. Percent(a, t) \in Int /\ Percent(a, t) <= 100
    BY <1>1 DEF Percent
  <2> QED BY <2>1, <2>2
<1> QED BY <1>2, <1>3

Progressing ==
    /\ progress \in [received : Nat, total : Nat, silent : Nat, announced : Int \cup {NoPercent}]
    /\ progress.announced # NoPercent =>
          progress.total > 0 /\ progress.announced \in Int
          /\ progress.announced <= Percent(progress.received, progress.total)
    /\ menu.name = "Downloading" => menu.percent = progress.announced

\* The percent is not less after more was received, whatever the sizes.
LEMMA ChunkAdvances ==
    ASSUME FlowInv, Progressing, NEW f \in Checks, NEW n \in Chunks, Chunk(f, n)
    PROVE  Progressing' /\ PercentAdvances
<1> DEFINE got == progress.received + n
<1> PICK p : p = Percent(got, progress.total)
  OBVIOUS
<1>0. n \in Nat /\ progress.received \in Nat /\ progress.total \in Nat /\ progress.silent \in Nat
  BY SizesAreNat DEF Progressing
<1>1. got \in Nat /\ progress.received <= got
  BY <1>0
<1>2. /\ progress' = [progress EXCEPT !.received = got,
                                      !.silent = IF n > 0 THEN 0 ELSE @,
                                      !.announced = IF p = NoPercent THEN @ ELSE p]
      /\ menu' = IF p # NoPercent /\ p # progress.announced THEN Downloading(p) ELSE menu
  BY DEF Chunk
<1>3. CASE progress.total = 0
  <2>1. p = NoPercent /\ progress.announced = NoPercent
    BY <1>3 DEF Percent, Progressing
  <2>2. menu' = menu /\ progress'.announced = NoPercent
        /\ progress' \in [received : Nat, total : Nat, silent : Nat, announced : Int \cup {NoPercent}]
    BY <1>0, <1>1, <1>2, <2>1 DEF Progressing
  <2> QED BY <2>1, <2>2 DEF Progressing, PercentAdvances
<1>4. CASE progress.total # 0
  <2>1. progress.total > 0
    BY <1>0, <1>4
  <2>2. /\ p \in Int /\ Percent(progress.received, progress.total) \in Int
        /\ Percent(progress.received, progress.total) <= p
    BY <1>0, <1>1, <2>1, PercentGrows
  <2>3. p # NoPercent
    <3>1. p >= 0
      <4>1. Percent(0, progress.total) <= p
        BY <1>0, <1>1, <2>1, PercentGrows
      <4>2. Percent(0, progress.total) = 0
        BY <1>0, <2>1 DEF Percent
      <4> QED BY <4>1, <4>2
    <3> QED BY <2>2, <3>1, SizesAreNat
  <2>4. /\ progress'.announced = p /\ progress'.total = progress.total /\ progress'.received = got
        /\ progress' \in [received : Nat, total : Nat, silent : Nat, announced : Int \cup {NoPercent}]
    BY <1>0, <1>1, <1>2, <2>2, <2>3 DEF Progressing
  <2>5. menu' = IF p # progress.announced THEN Downloading(p) ELSE menu
    BY <1>2, <2>3
  <2>6. menu'.name = "Downloading" => menu'.percent = p
    BY <2>5 DEF Downloading, Progressing
  <2>7. Percent(progress'.received, progress'.total) = p /\ p <= p
    BY <2>2, <2>4
  <2>8. Progressing'
    BY <2>1, <2>2, <2>4, <2>6, <2>7 DEF Progressing
  <2>9. PercentAdvances
    <3> SUFFICES ASSUME menu.name = "Downloading", menu' # menu, menu.percent # NoPercent,
                        menu'.name = "Downloading"
                 PROVE  menu'.percent > menu.percent
      BY DEF PercentAdvances
    <3>1. menu.percent = progress.announced /\ p # progress.announced
      BY <2>5 DEF Progressing
    <3>2. progress.announced \in Int
          /\ progress.announced <= Percent(progress.received, progress.total)
      BY <3>1 DEF Progressing
    <3> QED BY <2>2, <2>6, <3>1, <3>2
  <2> QED BY <2>8, <2>9
<1> QED BY <1>3, <1>4

LEMMA ProgressKept ==
    ASSUME FlowInv, Progressing, [UpdateNext]_updateVars
    PROVE  Progressing' /\ PercentAdvances
<1>1. ASSUME progress' = progress,
             menu' = menu \/ menu'.name # "Downloading"
      PROVE  Progressing' /\ PercentAdvances
  BY <1>1 DEF Progressing, PercentAdvances, Percent
<1>2. ASSUME NEW f \in Checks, Confirms(f) PROVE Progressing' /\ PercentAdvances
  <2>1. flow[f].pc = "asking" /\ menu' = Downloading(NoPercent)
    BY <1>2 DEF Confirms
  <2>2. menu.name # "Downloading"
    <3>1. flow[f].pc \in Holding
      BY <2>1 DEF Holding
    <3>2. menu.name \in MenuAt("asking")
      BY <2>1, <3>1 DEF FlowInv, MenuTellsTheFlow
    <3> QED BY <3>2 DEF MenuAt
  <2>3. PICK total \in Nat :
           progress' = [received |-> 0, total |-> total, silent |-> 0, announced |-> NoPercent]
    BY <1>2, SizesAreNat DEF Confirms
  <2> QED BY <2>1, <2>2, <2>3 DEF Progressing, PercentAdvances, Downloading
<1>3. ASSUME NEW f \in Checks, Tick(f) PROVE Progressing' /\ PercentAdvances
  <2>1. menu' = menu
    BY <1>3 DEF Tick
  <2>2. CASE progress' = progress
    BY <1>1, <2>1, <2>2
  <2>3. CASE progress' = [progress EXCEPT !.silent = progress.silent + 1]
    BY <2>1, <2>3 DEF Progressing, PercentAdvances
  <2> QED BY <1>3, <2>2, <2>3 DEF Tick
<1>4. ASSUME NEW f \in Checks,
             \/ SpawnManualCheck(f) \/ ReadMenu(f) \/ Claim(f) \/ ShowClaim(f) \/ CheckAnswers(f)
             \/ Install(f) \/ RestoreMenu(f) \/ Release(f) \/ Declines(f) \/ DownloadEnds(f)
             \/ RestartNow(f) \/ RestartLater(f)
      PROVE  Progressing' /\ PercentAdvances
  BY <1>1, <1>4 DEF SpawnManualCheck, ReadMenu, Claim, ShowClaim, CheckAnswers, Install,
     RestoreMenu, Release, Declines, DownloadEnds, RestartNow, RestartLater, Shows
<1>5. CASE UNCHANGED updateVars
  BY <1>1, <1>5 DEF updateVars
<1> QED BY <1>2, <1>3, <1>4, <1>5, ChunkAdvances DEF UpdateNext, Advances

\* A user who asked gets an answer, nobody else is disturbed, and the percent of a download
\* advances, whatever sizes are announced and delivered.
THEOREM ReportsAlwaysFit == UpdateSpec => ReportsFit
<1> DEFINE Reports == FlowInv /\ Spoken /\ Progressing
<1>1. UpdateInit => Reports
  <2> SUFFICES ASSUME UpdateInit PROVE Spoken /\ Progressing
    BY FlowInit
  <2>1. \A f \in Checks : flow[f].pc \in {"claiming", "rest"} /\ flow[f].said = {}
    BY DEF UpdateInit
  <2>2. Spoken
    BY <2>1 DEF Spoken, Asked
  <2>3. Progressing
    BY DEF UpdateInit, Progressing, Shows
  <2> QED BY <2>2, <2>3
<1>2. Reports /\ [UpdateNext]_updateVars => Reports' /\ AnswersFit /\ PercentAdvances
  BY FlowNext, SpokenKept, ProgressKept
<1> QED BY <1>1, <1>2, PTL DEF UpdateSpec, ReportsFit

-----------------------------------------------------------------------------
(* The link to the command line tool (CliLink)                             *)

\* Where a call stands, as long as no other program acted since it began: what it moved
\* away is what it saw first, and what it saw is where it was.
CallAlone ==
    ~touched =>
        /\ step \in {"open", "create"} => before = Nothing
        /\ step = "create" => place = Nothing
        /\ step \in {"confirm", "move"} => place = before
        /\ step \in {"staged", "publish", "restore"} => place = Nothing /\ stage = before
        /\ step = "published" => StatusAt(place) = "ok"

LinkInv == LinkTypeOK /\ RemovesOnlyConfirmed /\ AnswersTell /\ CallAlone

\* What is at a place is a file, or a link to something.
LEMMA EntryForms ==
  /\ \A e \in Entries : /\ e # Nothing /\ e.ino \in Inodes /\ e.kind \in {"link", "file"}
                        /\ e.kind = "link" => e.target \in Targets
  /\ \A i \in Inodes : Link(i, Cli) \in Entries /\ StatusAt(Link(i, Cli)) = "ok"
<1>1. ASSUME NEW e \in Entries
      PROVE  /\ e # Nothing /\ e.ino \in Inodes /\ e.kind \in {"link", "file"}
             /\ e.kind = "link" => e.target \in Targets
  BY NothingIsNothing DEF Entries, Link, File
<1>2. ASSUME NEW i \in Inodes
      PROVE  Link(i, Cli) \in Entries /\ StatusAt(Link(i, Cli)) = "ok"
  <2>1. PICK e : e = Link(i, Cli)
    OBVIOUS
  <2>2. e \in Entries /\ e # Nothing /\ e.kind = "link" /\ e.target = Cli
    BY <2>1, TargetsAreKnown, NothingIsNothing DEF Entries, Link
  <2>3. StatusAt(e) = "ok"
    BY <2>2, TargetsAreKnown DEF StatusAt
  <2> QED BY <2>1, <2>2, <2>3
<1> QED BY <1>1, <1>2

LEMMA LinkInitInv == LinkInit => LinkInv
  BY NothingIsNothing DEF LinkInit, LinkInv, LinkTypeOK, Answers, RemovesOnlyConfirmed,
                          AnswersTell, KeptIsTold, AnswersHold, CallAlone

\* What is left in a private directory was moved there, and is told unless nobody returned.
LEMMA LeftTold ==
  ASSUME LinkTypeOK, KeptIsTold, stage # Nothing, NEW how \in {"told", "crash"}, Left(how)
  PROVE  /\ kept' \subseteq [entry : Entries, how : {"told", "untold", "crash"}]
         /\ KeptIsTold' /\ stage' = Nothing
<1>1. [entry |-> stage, how |-> how] \in [entry : Entries, how : {"told", "untold", "crash"}]
  BY DEF LinkTypeOK, Answers
<1>2. \A k \in kept' : k \in kept \/ k = [entry |-> stage, how |-> how]
  BY DEF Left
<1>3. \A k \in kept' : k.how # "untold"
  BY <1>2 DEF KeptIsTold
<1> QED BY <1>1, <1>3 DEF Left, LinkTypeOK, KeptIsTold

\* Before anything is moved: the confirmation and the two looks at the place.
LEMMA LooksKeep ==
  ASSUME LinkInv, \/ \E e \in (Targets \ Opaque) \cup {Nothing} : Create(e)
                  \/ Stat \/ CreateMissing \/ Confirm
  PROVE  LinkInv'
<1> USE DEF LinkInv, AnswersTell
<1>1. ASSUME NEW e \in (Targets \ Opaque) \cup {Nothing}, Create(e)
      PROVE  LinkInv'
  <2>1. /\ step = "idle" /\ expected' = e /\ touched' = FALSE /\ before' = Nothing
        /\ UNCHANGED <<place, stage, kept, removed>>
        /\ \/ StatusAt(place) = "ok" /\ step' = "idle" /\ answer' = "ok"
           \/ step' = "open" /\ answer' = Nothing
           \/ step' = "idle" /\ answer' = "refused"
    <3> HIDE DEF LinkInv, AnswersTell
    <3> QED BY <1>1 DEF Create, Returns
  <2>2. LinkTypeOK'
    BY <2>1 DEF LinkTypeOK, Answers
  <2>3. (RemovesOnlyConfirmed /\ KeptIsTold)'
    BY <2>1 DEF RemovesOnlyConfirmed, KeptIsTold
  <2>4. AnswersHold'
    <3>1. StatusAt(place)' = StatusAt(place)
      BY <2>1 DEF StatusAt
    <3> QED BY <2>1, <3>1 DEF AnswersHold
  <2>5. CallAlone'
    BY <2>1 DEF CallAlone
  <2> QED BY <2>2, <2>3, <2>4, <2>5
<1>2. ASSUME Stat
      PROVE  LinkInv'
  <2>1. /\ step = "open" /\ UNCHANGED <<place, expected, stage, kept, removed, touched>>
        /\ \/ place = Nothing /\ step' = "create" /\ UNCHANGED <<answer, before>>
           \/ place # Nothing /\ step' = "confirm" /\ before' = place /\ UNCHANGED answer
           \/ step' = "idle" /\ answer' = "refused" /\ UNCHANGED before
    BY <1>2 DEF Stat, Returns
  <2>2. LinkTypeOK'
    BY <2>1 DEF LinkTypeOK, Answers
  <2>3. (RemovesOnlyConfirmed /\ KeptIsTold)'
    BY <2>1 DEF RemovesOnlyConfirmed, KeptIsTold
  <2>4. AnswersHold'
    BY <2>1 DEF AnswersHold, CallAlone
  <2>5. CallAlone'
    BY <2>1 DEF CallAlone
  <2> QED BY <2>2, <2>3, <2>4, <2>5
<1>3. ASSUME CreateMissing
      PROVE  LinkInv'
  <2>1. /\ step = "create" /\ UNCHANGED <<expected, before, stage, kept, removed, touched>>
        /\ step' = "idle"
        /\ \/ (\E i \in Inodes : place' = Link(i, Cli)) /\ answer' = "ok"
           \/ answer' = "refused" /\ UNCHANGED place
    BY <1>3 DEF CreateMissing, MakesLink, Returns
  <2>2. LinkTypeOK'
    BY <2>1, EntryForms DEF LinkTypeOK, Answers
  <2>3. (RemovesOnlyConfirmed /\ KeptIsTold)'
    BY <2>1 DEF RemovesOnlyConfirmed, KeptIsTold
  <2>4. AnswersHold'
    <3>1. ASSUME answer' = "ok" PROVE StatusAt(place)' = "ok"
      <4>1. PICK i \in Inodes : place' = Link(i, Cli)
        BY <2>1, <3>1
      <4>2. StatusAt(place') = "ok"
        BY <4>1, EntryForms
      <4> QED BY <4>2 DEF StatusAt
    <3> QED BY <2>1, <3>1 DEF AnswersHold, CallAlone
  <2>5. CallAlone'
    BY <2>1 DEF CallAlone
  <2> QED BY <2>2, <2>3, <2>4, <2>5
<1>4. ASSUME Confirm
      PROVE  LinkInv'
  <2>1. /\ step = "confirm" /\ UNCHANGED <<place, expected, before, stage, kept, removed, touched>>
        /\ \/ step' = "move" /\ UNCHANGED answer
           \/ step' = "idle" /\ answer' = "refused"
    BY <1>4 DEF Confirm, Returns
  <2>2. LinkTypeOK'
    BY <2>1 DEF LinkTypeOK, Answers
  <2>3. (RemovesOnlyConfirmed /\ KeptIsTold)'
    BY <2>1 DEF RemovesOnlyConfirmed, KeptIsTold
  <2>4. AnswersHold' /\ CallAlone'
    BY <2>1 DEF AnswersHold, CallAlone
  <2> QED BY <2>2, <2>3, <2>4
<1> QED BY <1>1, <1>2, <1>3, <1>4

\* While the old link is in the private directory.
LEMMA MovesKeep ==
  ASSUME LinkInv, \/ MoveExisting \/ ConfirmStaged \/ PublishReplacement
                  \/ RemovePrevious \/ RestorePrevious
  PROVE  LinkInv'
<1> USE DEF LinkInv, AnswersTell
<1>1. ASSUME MoveExisting
      PROVE  LinkInv'
  <2>1. /\ step = "move" /\ UNCHANGED <<expected, before, kept, removed, touched>>
        /\ \/ /\ place # Nothing /\ stage' = place /\ place' = Nothing /\ step' = "staged"
              /\ UNCHANGED answer
           \/ step' = "idle" /\ answer' = "refused" /\ UNCHANGED <<place, stage>>
    BY <1>1 DEF MoveExisting, Returns
  <2>2. LinkTypeOK'
    BY <2>1 DEF LinkTypeOK, Answers
  <2>3. (RemovesOnlyConfirmed /\ KeptIsTold)'
    BY <2>1 DEF RemovesOnlyConfirmed, KeptIsTold
  <2>4. AnswersHold' /\ CallAlone'
    BY <2>1 DEF AnswersHold, CallAlone
  <2> QED BY <2>2, <2>3, <2>4
<1>2. ASSUME ConfirmStaged
      PROVE  LinkInv'
  <2>1. /\ step = "staged" /\ step' \in {"publish", "restore"}
        /\ UNCHANGED <<place, expected, before, stage, kept, answer, removed, touched>>
    BY <1>2 DEF ConfirmStaged
  <2>2. LinkTypeOK'
    BY <2>1 DEF LinkTypeOK, Answers
  <2>3. (RemovesOnlyConfirmed /\ KeptIsTold)'
    BY <2>1 DEF RemovesOnlyConfirmed, KeptIsTold
  <2>4. AnswersHold' /\ CallAlone'
    BY <2>1 DEF AnswersHold, CallAlone
  <2> QED BY <2>2, <2>3, <2>4
<1>3. ASSUME PublishReplacement
      PROVE  LinkInv'
  <2>1. /\ step = "publish"
        /\ UNCHANGED <<expected, before, stage, kept, answer, removed, touched>>
        /\ \/ (\E i \in Inodes : place' = Link(i, Cli)) /\ step' = "published"
           \/ step' = "restore" /\ UNCHANGED place
    BY <1>3 DEF PublishReplacement, MakesLink
  <2>2. LinkTypeOK'
    BY <2>1, EntryForms DEF LinkTypeOK, Answers
  <2>3. (RemovesOnlyConfirmed /\ KeptIsTold)'
    BY <2>1 DEF RemovesOnlyConfirmed, KeptIsTold
  <2>4. ASSUME step' = "published" PROVE StatusAt(place)' = "ok"
    <3>1. PICK i \in Inodes : place' = Link(i, Cli)
      BY <2>1, <2>4
    <3>2. StatusAt(place') = "ok"
      BY <3>1, EntryForms
    <3> QED BY <3>2 DEF StatusAt
  <2>5. AnswersHold' /\ CallAlone'
    BY <2>1, <2>4 DEF AnswersHold, CallAlone
  <2> QED BY <2>2, <2>3, <2>5
<1>4. ASSUME RemovePrevious
      PROVE  LinkInv'
  <2>1. /\ step = "published" /\ UNCHANGED <<place, expected, before, touched>>
        /\ step' = "idle" /\ answer' = "ok" /\ stage' = Nothing
    BY <1>4 DEF RemovePrevious, Returns, Left
  <2>2. stage # Nothing /\ stage \in Entries
    BY <2>1 DEF LinkTypeOK, Answers
  <2>3. \/ /\ Confirmed(stage) /\ UNCHANGED kept
           /\ removed' = [entry |-> stage, confirmed |-> expected]
        \/ Left("told") /\ UNCHANGED removed
    BY <1>4 DEF RemovePrevious
  <2>4. /\ KeptIsTold'
        /\ kept' \subseteq [entry : Entries, how : {"told", "untold", "crash"}]
    <3>1. CASE UNCHANGED kept
      BY <3>1 DEF LinkTypeOK, KeptIsTold
    <3>2. CASE Left("told")
      BY <2>2, <3>2, LeftTold
    <3> QED BY <2>3, <3>1, <3>2
  <2>5. RemovesOnlyConfirmed' /\ removed' \in [entry : Entries, confirmed : Targets] \cup {Nothing}
    <3>1. CASE UNCHANGED removed
      BY <3>1 DEF RemovesOnlyConfirmed, LinkTypeOK, Answers
    <3>2. CASE Confirmed(stage) /\ removed' = [entry |-> stage, confirmed |-> expected]
      <4>1. stage.kind = "link" /\ stage.target = expected /\ expected \in Targets
        BY <2>2, <3>2, EntryForms DEF Confirmed
      <4> QED BY <2>2, <3>2, <4>1 DEF RemovesOnlyConfirmed
    <3> QED BY <2>3, <3>1, <3>2
  <2>6. LinkTypeOK'
    BY <2>1, <2>4, <2>5 DEF LinkTypeOK, Answers
  <2>7. AnswersHold' /\ CallAlone'
    <3>1. StatusAt(place)' = StatusAt(place)
      BY <2>1 DEF StatusAt
    <3> QED BY <2>1, <3>1 DEF AnswersHold, CallAlone
  <2> QED BY <2>4, <2>5, <2>6, <2>7
<1>5. ASSUME RestorePrevious
      PROVE  LinkInv'
  <2>1. /\ step = "restore" /\ UNCHANGED <<expected, before, removed, touched>>
        /\ step' = "idle" /\ stage' = Nothing
        /\ \/ place' = stage /\ answer' = "refused"
           \/ answer' = "displaced" /\ UNCHANGED place
        /\ UNCHANGED kept \/ Left("told")
    BY <1>5 DEF RestorePrevious, Returns, Left
  <2>2. stage # Nothing /\ stage \in Entries
    BY <2>1 DEF LinkTypeOK, Answers
  <2>3. /\ KeptIsTold'
        /\ kept' \subseteq [entry : Entries, how : {"told", "untold", "crash"}]
    <3>1. CASE UNCHANGED kept
      BY <3>1 DEF LinkTypeOK, KeptIsTold
    <3>2. CASE Left("told")
      BY <2>2, <3>2, LeftTold
    <3> QED BY <2>1, <3>1, <3>2
  <2>4. LinkTypeOK' /\ RemovesOnlyConfirmed'
    BY <2>1, <2>2, <2>3 DEF LinkTypeOK, Answers, RemovesOnlyConfirmed
  <2>5. AnswersHold' /\ CallAlone'
    BY <2>1 DEF AnswersHold, CallAlone
  <2> QED BY <2>3, <2>4, <2>5
<1> QED BY <1>1, <1>2, <1>3, <1>4, <1>5

\* Other programs, and the end of the process.
LEMMA OthersKeep ==
  ASSUME LinkInv, Killed \/ (\E e \in Entries : OthersPut(e)) \/ OthersRemove
  PROVE  LinkInv'
<1> USE DEF LinkInv, AnswersTell
<1>1. ASSUME Killed
      PROVE  LinkInv'
  <2>1. /\ UNCHANGED <<place, expected, before, removed, touched>>
        /\ step' = "idle" /\ answer' = "crashed" /\ stage' = Nothing
        /\ UNCHANGED kept \/ (stage # Nothing /\ Left("crash"))
    BY <1>1 DEF Killed, Returns, Left
  <2>2. /\ KeptIsTold'
        /\ kept' \subseteq [entry : Entries, how : {"told", "untold", "crash"}]
    <3>1. CASE UNCHANGED kept
      BY <3>1 DEF LinkTypeOK, KeptIsTold
    <3>2. CASE stage # Nothing /\ Left("crash")
      BY <3>2, LeftTold
    <3> QED BY <2>1, <3>1, <3>2
  <2>3. LinkTypeOK' /\ RemovesOnlyConfirmed'
    BY <2>1, <2>2 DEF LinkTypeOK, Answers, RemovesOnlyConfirmed
  <2>4. AnswersHold' /\ CallAlone'
    BY <2>1 DEF AnswersHold, CallAlone
  <2> QED BY <2>2, <2>3, <2>4
<1>2. ASSUME (\E e \in Entries : OthersPut(e)) \/ OthersRemove
      PROVE  LinkInv'
  <2>1. /\ place' \in Entries \cup {Nothing} /\ touched' = TRUE
        /\ UNCHANGED <<step, expected, before, stage, kept, answer, removed>>
    BY <1>2 DEF OthersPut, OthersRemove
  <2>2. LinkTypeOK' /\ RemovesOnlyConfirmed' /\ KeptIsTold'
    BY <2>1 DEF LinkTypeOK, Answers, RemovesOnlyConfirmed, KeptIsTold
  <2>3. AnswersHold' /\ CallAlone'
    BY <2>1 DEF AnswersHold, CallAlone
  <2> QED BY <2>2, <2>3
<1> QED BY <1>1, <1>2

LEMMA LinkNextInv == LinkInv /\ [LinkNext]_linkVars => LinkInv'
<1> SUFFICES ASSUME LinkInv, [LinkNext]_linkVars PROVE LinkInv'
  OBVIOUS
<1>1. CASE LinkNext
  BY <1>1, LooksKeep, MovesKeep, OthersKeep DEF LinkNext, Creating
<1>2. CASE UNCHANGED linkVars
  BY <1>2 DEF linkVars, LinkInv, LinkTypeOK, RemovesOnlyConfirmed, AnswersTell, KeptIsTold,
              AnswersHold, CallAlone, StatusAt
<1> QED BY <1>1, <1>2

\* However often others act between two steps of a call, and whatever they put in its way,
\* only a link with the confirmed target is ever removed.
THEOREM OnlyConfirmedIsRemoved == LinkSpec => []RemovesOnlyConfirmed
<1>1. LinkInv => RemovesOnlyConfirmed
  BY DEF LinkInv
<1> QED BY <1>1, LinkInitInv, LinkNextInv, PTL DEF LinkSpec

\* Every answer of the call tells what became of the place, and what was moved away and
\* not put back is told, for any number of calls, of inodes and of targets.
THEOREM AnswersAlwaysTell == LinkSpec => []AnswersTell
<1>1. LinkInv => AnswersTell
  BY DEF LinkInv
<1> QED BY <1>1, LinkInitInv, LinkNextInv, PTL DEF LinkSpec
=============================================================================
