-------------------------- MODULE DesktopLifecycle --------------------------
(***************************************************************************)
(* The life of the desktop application: its launch, the first setup and    *)
(* the settings commands, the start of its HTTP server, and its end, by an *)
(* exit or by a restart.                                                   *)
(*                                                                         *)
(* Commands are tasks of the async runtime.  A command that writes hands   *)
(* its work, with the guard of `setup_lock`, to a blocking thread that     *)
(* goes on when the command itself is cancelled.  The server is started    *)
(* and stopped under `http_lifecycle`.  An exit runs its shutdown in a     *)
(* task of its own, after which it exits again; a restart cannot be put    *)
(* off and runs it on the main thread, which serves no event meanwhile.    *)
(***************************************************************************)
EXTENDS Naturals

CONSTANTS
    Calls,        \* commands the windows may have in flight
    Launch,       \* the task setup spawns at launch
    Exit,         \* the task that shuts down before an exit
    Restart,      \* the main thread, shutting down before a restart
    Ports,        \* how many ports the server may be bound to: DEFAULT_PORTS, or one
    None

Stoppers == {Exit, Restart}
Starters == Calls \cup {Launch}

ASSUME TasksDiffer ==
    /\ Launch \notin Calls \cup Stoppers
    /\ Calls \cap Stoppers = {}
    /\ Exit # Restart
    /\ None \notin Starters \cup Stoppers

ASSUME PortsAreCounted == Ports \in Nat

VARIABLES
    published,   \* the config file exists
    init,        \* DesktopState::initialization
    setupLock,   \* the holder of setup_lock, None when it is free
    httpLock,    \* the holder of http_lifecycle
    closing,     \* DesktopState::closing
    exit,        \* ExitState: 0, 1 once begun, 2 once finished
    server,      \* HttpState::server is there
    error,       \* HttpState::error is there
    listening,   \* how many servers accept requests
    lost,        \* how many of them nobody can stop: history of the cancelled starts
    task,        \* the commands and the launch task
    job,         \* the blocking work of each command
    stop,        \* the two shutdowns
    process      \* "up", or how it ended

http == <<httpLock, server, error, listening, lost>>
vars == <<published, init, setupLock, closing, exit, http, task, job, stop,
          process>>

Kinds == {"setup", "edit", "key"}
Starting == {"setup", "key"}

Running == {"begun", "half"}
Places == {"idle", "queued", "waiting", "start", "wantsHttp", "binding",
           "bound", "unbound", "returned", "dropped"}

\* load_initialization: a config that cannot be used is a failure until the
\* next launch; without one the first setup is awaited.
Bootstrap(there) == {"failed"} \cup (IF there THEN {"ready"} ELSE {"waiting"})

AtLaunch(t) == [pc |-> IF t = Launch THEN "launching" ELSE "idle", kind |-> "edit"]

Init ==
    /\ published \in BOOLEAN
    /\ init \in Bootstrap(published)
    /\ setupLock = None /\ httpLock = None
    /\ closing = FALSE /\ exit = 0
    /\ server = FALSE /\ error = FALSE /\ listening = 0 /\ lost = 0
    /\ task = [t \in Starters |-> AtLaunch(t)]
    /\ job = [c \in Calls |-> "none"]
    /\ stop = [s \in Stoppers |-> "none"]
    /\ process = "up"

Goes(t, pc) == task' = [task EXCEPT ![t].pc = pc]

-----------------------------------------------------------------------------
(* Commands that write: the first setup and the settings.                  *)

\* ensure_open, before the command queues for setup_lock.
Call(c, kind) ==
    /\ task[c].pc \in {"idle", "returned", "dropped"} /\ job[c] \notin Running
    /\ task' = [task EXCEPT ![c] =
                  [pc |-> IF closing THEN "returned" ELSE "queued", kind |-> kind]]
    /\ job' = [job EXCEPT ![c] = "none"]
    /\ UNCHANGED <<published, init, setupLock, closing, exit, http, stop,
                   process>>

\* The lock is had: ensure_open again, the state, then the blocking thread,
\* which keeps the lock.
EnterSetup(c) ==
    /\ task[c].pc = "queued" /\ setupLock = None
    /\ IF ~closing /\ init = (IF task[c].kind = "setup" THEN "waiting" ELSE "ready")
       THEN /\ setupLock' = c
            /\ job' = [job EXCEPT ![c] = "begun"]
            /\ Goes(c, "waiting")
       ELSE Goes(c, "returned") /\ UNCHANGED <<setupLock, job>>
    /\ UNCHANGED <<published, init, closing, exit, http, stop, process>>

\* The first of the writes of a command: the config, which the first setup
\* publishes only where there is none.  The key is stored after it.
JobWrites(c) ==
    /\ job[c] = "begun"
    /\ task[c].kind = "setup" => ~published
    /\ job' = [job EXCEPT ![c] = "half"]
    /\ published' = (published \/ task[c].kind = "setup")
    /\ UNCHANGED <<init, setupLock, closing, exit, http, task, stop, process>>

JobFails_KeepsLock(c) ==
    /\ \/ job[c] = "begun"
       \/ job[c] = "half" /\ task[c].kind # "setup"
    /\ job' = [job EXCEPT ![c] = "failed"]
    /\ UNCHANGED <<published, init, setupLock, closing, exit, http, task, stop, process>>

\* The command line's init publishes a config; the application learns of it at
\* its next launch.
InitElsewhere ==
    /\ ~published
    /\ published' = TRUE
    /\ UNCHANGED <<init, setupLock, closing, exit, http, task, job, stop, process>>

\* A setup cannot fail once its config is published.
JobFails(c) ==
    /\ \/ job[c] = "begun"
       \/ job[c] = "half" /\ task[c].kind # "setup"
    /\ job' = [job EXCEPT ![c] = "failed"]
    /\ setupLock' = None
    /\ UNCHANGED <<published, init, closing, exit, http, task, stop, process>>

\* The setup makes the application ready before the lock is free.
JobEnds(c) ==
    /\ job[c] = "half"
    /\ job' = [job EXCEPT ![c] = "ok"]
    /\ init' = IF task[c].kind = "setup" THEN "ready" ELSE init
    /\ setupLock' = None
    /\ UNCHANGED <<published, closing, exit, http, task, stop, process>>

\* Setup and a new key go on to start the server.
JoinJob(c) ==
    /\ task[c].pc = "waiting" /\ job[c] \in {"ok", "failed"}
    /\ Goes(c, IF job[c] = "ok" /\ task[c].kind \in Starting THEN "start" ELSE "returned")
    /\ UNCHANGED <<published, init, setupLock, closing, exit, http, job, stop,
                   process>>

\* The awaits of a command: a lock, its blocking work, or, with http_lifecycle, the
\* bind and then the slot of the server, which server_status holds while it reads.
Awaits == {"queued", "waiting", "wantsHttp", "binding", "bound", "unbound"}

\* The command is cancelled at one of its awaits; its blocking work is not, nor is a
\* server that runs and has not been stored: it goes on, and its handle is gone.
Drop(c) ==
    /\ task[c].pc \in Awaits
    /\ Goes(c, "dropped")
    /\ httpLock' = IF httpLock = c THEN None ELSE httpLock
    /\ lost' = IF task[c].pc = "bound" THEN lost + 1 ELSE lost
    /\ UNCHANGED <<published, init, setupLock, closing, exit, server, error,
                   listening, job, stop, process>>

-----------------------------------------------------------------------------
(* The HTTP server of the application.                                     *)

\* The task of the launch starts it only where the setup is behind.
Startup ==
    /\ task[Launch].pc = "launching"
    /\ Goes(Launch, IF init = "ready" THEN "start" ELSE "returned")
    /\ UNCHANGED <<published, init, setupLock, closing, exit, http, job, stop,
                   process>>

StartHttp(t) ==
    /\ task[t].pc = "start"
    /\ Goes(t, IF ~closing /\ init = "ready" THEN "wantsHttp" ELSE "returned")
    /\ UNCHANGED <<published, init, setupLock, closing, exit, http, job, stop,
                   process>>

EnterHttp_Unchecked(t) ==
    /\ task[t].pc = "wantsHttp" /\ httpLock = None
    /\ IF server
       THEN Goes(t, "returned") /\ UNCHANGED httpLock
       ELSE Goes(t, "binding") /\ httpLock' = t
    /\ UNCHANGED <<published, init, setupLock, closing, exit, server, error,
                   listening, lost, job, stop, process>>

\* http_lifecycle is had: ensure_open again, and nothing to do for a server
\* that is there.
EnterHttp(t) ==
    /\ task[t].pc = "wantsHttp" /\ httpLock = None
    /\ IF closing \/ server
       THEN Goes(t, "returned") /\ UNCHANGED httpLock
       ELSE Goes(t, "binding") /\ httpLock' = t
    /\ UNCHANGED <<published, init, setupLock, closing, exit, server, error,
                   listening, lost, job, stop, process>>

\* serve_http: the config read anew, the keys, a port; then the server runs.  A server
\* that was lost keeps its port.
Bind(t) ==
    /\ task[t].pc = "binding"
    /\ \/ listening < Ports /\ Goes(t, "bound") /\ listening' = listening + 1
       \/ Goes(t, "unbound") /\ UNCHANGED listening
    /\ UNCHANGED <<published, init, setupLock, httpLock, closing, exit, server,
                   error, lost, job, stop, process>>

StoreServer_ErrorForgotten(t) ==
    /\ task[t].pc \in {"bound", "unbound"}
    /\ server' = (task[t].pc = "bound")
    /\ error' = FALSE
    /\ httpLock' = None
    /\ Goes(t, "returned")
    /\ UNCHANGED <<published, init, setupLock, closing, exit, listening, lost, job,
                   stop, process>>

StoreServer(t) ==
    /\ task[t].pc \in {"bound", "unbound"}
    /\ server' = (task[t].pc = "bound")
    /\ error' = (task[t].pc = "unbound")
    /\ httpLock' = None
    /\ Goes(t, "returned")
    /\ UNCHANGED <<published, init, setupLock, closing, exit, listening, lost, job,
                   stop, process>>

\* server_status: what the window shows of the server.
Status == [url |-> init = "ready" /\ server,
           error |-> init = "failed" \/ error]

-----------------------------------------------------------------------------
(* The shutdown, of an exit and of a restart.                              *)

Halts(s, pc) == stop' = [stop EXCEPT ![s] = pc]

Close(s) ==
    /\ stop[s] = "begun"
    /\ closing' = TRUE
    /\ Halts(s, "queued")
    /\ UNCHANGED <<published, init, setupLock, exit, http, task, job, process>>

\* The writes in progress are over; without a runtime there is no server.
StopSetup(s) ==
    /\ stop[s] = "queued" /\ setupLock = None
    /\ IF init = "ready"
       THEN Halts(s, "wantsHttp") /\ setupLock' = s
       ELSE Halts(s, "done") /\ UNCHANGED setupLock
    /\ UNCHANGED <<published, init, closing, exit, http, task, job, process>>

\* The server is taken out of the state before it is awaited.
StopHttp(s) ==
    /\ stop[s] = "wantsHttp" /\ httpLock = None
    /\ server' = FALSE /\ error' = FALSE
    /\ IF server
       THEN Halts(s, "stopping") /\ httpLock' = s /\ UNCHANGED setupLock
       ELSE Halts(s, "done") /\ setupLock' = None /\ UNCHANGED httpLock
    /\ UNCHANGED <<published, init, closing, exit, listening, lost, task, job, process>>

\* It stops whether its join reports an error or not.
ServerStops(s) ==
    /\ stop[s] = "stopping"
    /\ listening' = listening - 1
    /\ error' \in BOOLEAN
    /\ Halts(s, "done")
    /\ setupLock' = None /\ httpLock' = None
    /\ UNCHANGED <<published, init, closing, exit, server, lost, task, job, process>>

-----------------------------------------------------------------------------
(* The main thread: the events of the run loop, one at a time.             *)

Listens == stop[Restart] = "none"

\* ExitRequested is prevented; the first one spawns the shutdown.
ExitRequested ==
    /\ Listens /\ exit < 2
    /\ IF exit = 0
       THEN exit' = 1 /\ Halts(Exit, "begun")
       ELSE UNCHANGED <<exit, stop>>
    /\ UNCHANGED <<published, init, setupLock, closing, http, task, job, process>>

\* The shutdown's task: finish, then exit again.
Finish ==
    /\ stop[Exit] = "done" /\ exit = 1
    /\ exit' = 2
    /\ UNCHANGED <<published, init, setupLock, closing, http, task, job, stop,
                   process>>

Ends(how) ==
    /\ process' = how
    /\ UNCHANGED <<published, init, setupLock, closing, exit, http, task, job,
                   stop>>

ExitGranted == Listens /\ exit = 2 /\ Ends("exited")

\* The event of a restart is served by its shutdown, and then the process ends.
RestartRequested ==
    /\ Listens
    /\ Halts(Restart, "begun")
    /\ UNCHANGED <<published, init, setupLock, closing, exit, http, task, job,
                   process>>

RestartGranted == stop[Restart] = "done" /\ Ends("restarted")

Crash == Ends("crashed")

Relaunch ==
    /\ process # "up"
    /\ init' \in Bootstrap(published)
    /\ setupLock' = None /\ httpLock' = None
    /\ closing' = FALSE /\ exit' = 0
    /\ server' = FALSE /\ error' = FALSE /\ listening' = 0 /\ lost' = 0
    /\ task' = [t \in Starters |-> AtLaunch(t)]
    /\ job' = [c \in Calls |-> "none"]
    /\ stop' = [s \in Stoppers |-> "none"]
    /\ process' = "up"
    /\ UNCHANGED published

-----------------------------------------------------------------------------
Command(c) ==
    \/ \E kind \in Kinds : Call(c, kind)
    \/ EnterSetup(c) \/ JobWrites(c) \/ JobFails(c) \/ JobEnds(c)
    \/ JoinJob(c) \/ Drop(c)

Serving(t) == StartHttp(t) \/ EnterHttp(t) \/ Bind(t) \/ StoreServer(t)

Stopping(s) == Close(s) \/ StopSetup(s) \/ StopHttp(s) \/ ServerStops(s)

MainThread == ExitRequested \/ ExitGranted \/ RestartRequested \/ RestartGranted

Works ==
    \/ \E c \in Calls : Command(c)
    \/ InitElsewhere \/ Startup
    \/ \E t \in Starters : Serving(t)
    \/ \E s \in Stoppers : Stopping(s)
    \/ MainThread \/ Finish \/ Crash

Next == (process = "up" /\ Works) \/ Relaunch

Spec == Init /\ [][Next]_vars

Up(A) == process = "up" /\ A

\* The runtime runs every task that can go on, blocking work comes to an end,
\* a lock is given in the order it was asked for, and the run loop serves
\* its events.  Nobody has to exit, to call or to crash.
FairSpec ==
    /\ Spec
    /\ \A c \in Calls :
          /\ SF_vars(Up(EnterSetup(c)))
          /\ WF_vars(Up(JobWrites(c) \/ JobFails(c) \/ JobEnds(c)))
          /\ WF_vars(Up(JoinJob(c)))
    /\ WF_vars(Up(Startup))
    /\ \A t \in Starters :
          /\ SF_vars(Up(EnterHttp(t)))
          /\ WF_vars(Up(StartHttp(t) \/ Bind(t) \/ StoreServer(t)))
    /\ \A s \in Stoppers :
          /\ SF_vars(Up(StopSetup(s))) /\ SF_vars(Up(StopHttp(s)))
          /\ WF_vars(Up(Close(s) \/ ServerStops(s)))
    /\ WF_vars(Up(ExitGranted)) /\ WF_vars(Up(RestartGranted)) /\ WF_vars(Up(Finish))

-----------------------------------------------------------------------------
TypeOK ==
    /\ published \in BOOLEAN
    /\ init \in {"waiting", "ready", "failed"}
    /\ setupLock \in Calls \cup Stoppers \cup {None}
    /\ httpLock \in Starters \cup Stoppers \cup {None}
    /\ closing \in BOOLEAN /\ exit \in 0..2
    /\ server \in BOOLEAN /\ error \in BOOLEAN /\ listening \in Nat
    /\ lost \in Nat
    /\ task \in [Starters -> [pc : Places \cup {"launching"}, kind : Kinds]]
    /\ job \in [Calls -> {"none", "begun", "half", "ok", "failed"}]
    /\ stop \in [Stoppers -> {"none", "begun", "queued", "wantsHttp", "stopping", "done"}]
    /\ process \in {"up", "exited", "restarted", "crashed"}

(* The application, seen from outside, behaves as ApplicationLife says: it *)
(* writes one thing at a time, has one server that it can stop, and an     *)
(* orderly end cuts off no write and leaves no such server behind,         *)
(* whatever commands, cancellations, exits and restarts were under way.    *)
(* What it leaves is what cancelled starts have lost.                      *)
Life == INSTANCE ApplicationLife WITH
    phase <- IF process # "up" THEN "ended"
             ELSE IF \E s \in Stoppers : stop[s] = "done" THEN "shut" ELSE "open",
    saving <- {c \in Calls : job[c] \in Running /\ process # "crashed"},
    serving <- listening > lost /\ process # "crashed",
    lost <- IF process = "crashed" THEN 0 ELSE lost

EndsInOrder == Life!Spec

(* A config published by the first setup makes the application ready, even *)
(* when the window that asked for it is gone: no command finds the config  *)
(* there and the application still waiting for its setup.                  *)
PublishedIsReady ==
    \A c \in Calls :
        job[c] = "ok" /\ task[c].kind = "setup" => init = "ready"

(* No server runs that the application does not know of, but for those    *)
(* whose start was cancelled before it stored them: between two starts or  *)
(* stops, the one more that accepts requests is what server_status shows.  *)
StatusTellsTheTruth ==
    httpLock = None /\ process = "up" =>
        (Status.url <=> listening = lost + 1) /\ listening <= lost + 1

(* A setup or a new key that was answered leaves a server or the reason    *)
(* why there is none, unless the application is closing.                   *)
ServerOrReason ==
    \A c \in Calls :
        task[c].pc = "returned" /\ job[c] = "ok" /\ task[c].kind \in Starting
            => Status.url \/ Status.error \/ closing

(* What the window learns of the setup and of the server is so, whichever  *)
(* command, start and stop ran beside the one that answered it.            *)
WindowKnows == PublishedIsReady /\ StatusTellsTheTruth /\ ServerOrReason

(* An exit or a restart that was asked for ends the process, whatever was  *)
(* running when it was asked.                                              *)
StopsEnd == (exit = 1 \/ stop[Restart] = "begun") ~> process # "up"

(* Every command is answered or was cancelled, while the process lives.    *)
CallsReturn ==
    \A c \in Calls : (task[c].pc = "queued")
                        ~> (task[c].pc \in {"returned", "dropped"} \/ process # "up")

(* Nothing hangs: neither an end that was asked for nor a command.         *)
NothingHangs == StopsEnd /\ CallsReturn
=============================================================================
