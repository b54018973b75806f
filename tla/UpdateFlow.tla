----------------------------- MODULE UpdateFlow -----------------------------
(***************************************************************************)
(* The updater of the desktop: one check at launch, and a check whenever   *)
(* the menu or the settings ask for one.  UPDATE_FLOW_IN_FLIGHT admits one *)
(* flow at a time; the menu shows where it stands, and keeps the offer to  *)
(* restart once an update is installed and the restart was put off.        *)
(*                                                                         *)
(* A flow is a task.  The menu and the flag are two things: a flow claims  *)
(* the flag and then shows itself, and at its end restores the menu and    *)
(* then gives the flag back; a manual check reads the menu before either.  *)
(***************************************************************************)
EXTENDS Naturals, FiniteSets

CONSTANTS
    Checks,        \* tasks that check for updates
    AtStartup,     \* the one spawned at launch
    Sizes,         \* sizes a download may announce, 0 for none
    Chunks,        \* sizes of its chunks
    StallTimeout,  \* UPDATE_DOWNLOAD_STALL_TIMEOUT, in ticks of the watchdog
    MaxBytes,      \* bound on the bytes of one download
    MaxInstalls,   \* bound on the updates installed by one process
    NoPercent

ASSUME StartupChecks == AtStartup \in Checks
ASSUME SizesAreNat == Sizes \cup Chunks \subseteq Nat /\ NoPercent \notin Nat

VARIABLES
    flight,    \* UPDATE_FLOW_IN_FLIGHT
    menu,      \* UpdateMenuStatus
    flow,      \* where each task stands, and what the user has seen of it
    progress,  \* DownloadProgress, and the size announced
    installs   \* updates installed by this process

updateVars == <<flight, menu, flow, progress, installs>>

\* The places of a flow that holds the flag, and of one that does not.
Holding == {"claimed", "claimedRestart", "checking", "asking", "downloading",
            "installing", "askingRestart", "dropping", "releasing", "restarting"}
Waiting == {"reading", "claiming", "claimingRestart"}
Said == {"latest", "failed", "busy", "prompt", "installFailed", "restart"}

Downloading(p) == [name |-> "Downloading", percent |-> p]
Shows(name) == [name |-> name, percent |-> NoPercent]

UpdateInit ==
    /\ flight = FALSE
    /\ menu = Shows("Idle")
    /\ flow = [f \in Checks |->
                 [pc |-> IF f = AtStartup THEN "claiming" ELSE "rest",
                  manual |-> f # AtStartup, err |-> FALSE, said |-> {}]]
    /\ progress = [received |-> 0, total |-> 0, silent |-> 0, announced |-> NoPercent]
    /\ installs = 0

\* What the user sees of f, and where it goes.
Tells(f, pc, what) ==
    flow' = [flow EXCEPT ![f].pc = pc, ![f].said = @ \cup what]

-----------------------------------------------------------------------------
(* Who checks, and who may.                                                *)

\* The menu, or the settings at any time.
SpawnManualCheck(f) ==
    /\ f # AtStartup /\ flow[f].pc = "rest"
    /\ flow' = [flow EXCEPT ![f] = [pc |-> "reading", manual |-> TRUE,
                                    err |-> FALSE, said |-> {}]]
    /\ UNCHANGED <<flight, menu, progress, installs>>

ReadMenu(f) ==
    /\ flow[f].pc = "reading"
    /\ Tells(f, IF menu.name = "RestartReady" THEN "claimingRestart" ELSE "claiming", {})
    /\ UNCHANGED <<flight, menu, progress, installs>>

Claim_Silent(f) ==
    /\ flow[f].pc \in {"claiming", "claimingRestart"}
    /\ flight' = TRUE
    /\ Tells(f, IF flight THEN "rest"
                ELSE IF flow[f].pc = "claiming" THEN "claimed" ELSE "claimedRestart", {})
    /\ UNCHANGED <<menu, progress, installs>>

\* claim_flow; the loser tells a user who waits for an answer.
Claim(f) ==
    /\ flow[f].pc \in {"claiming", "claimingRestart"}
    /\ IF flight
       THEN Tells(f, "rest", IF flow[f].manual THEN {"busy"} ELSE {}) /\ UNCHANGED flight
       ELSE /\ flight' = TRUE
            /\ Tells(f, IF flow[f].pc = "claiming" THEN "claimed" ELSE "claimedRestart", {})
    /\ UNCHANGED <<menu, progress, installs>>

\* The rest of try_begin_flow: the winner shows itself.
ShowClaim(f) ==
    /\ \/ flow[f].pc = "claimed" /\ menu' = Shows("Checking") /\ Tells(f, "checking", {})
       \/ /\ flow[f].pc = "claimedRestart"
          /\ menu' = Shows("RestartPrompt")
          /\ Tells(f, "askingRestart", {"restart"})
    /\ UNCHANGED <<flight, progress, installs>>

-----------------------------------------------------------------------------
(* A flow: check, ask, download, install, ask again.                       *)

Quiet(f, what) == IF flow[f].manual THEN {what} ELSE {}

\* The answer of the release server: none within its timeout, no newer
\* version, or an update to ask the user about.
CheckAnswers(f) ==
    /\ flow[f].pc = "checking"
    /\ \/ flow' = [flow EXCEPT ![f].pc = "dropping", ![f].err = TRUE]
       \/ Tells(f, "dropping", Quiet(f, "latest"))
       \/ Tells(f, "asking", {"prompt"})
    /\ UNCHANGED <<flight, menu, progress, installs>>

Declines(f) ==
    /\ flow[f].pc = "asking"
    /\ Tells(f, "dropping", {})
    /\ UNCHANGED <<flight, menu, progress, installs>>

Confirms(f) ==
    /\ flow[f].pc = "asking" /\ installs < MaxInstalls
    /\ Tells(f, "downloading", {})
    /\ menu' = Downloading(NoPercent)
    /\ \E total \in Sizes :
          progress' = [received |-> 0, total |-> total, silent |-> 0, announced |-> NoPercent]
    /\ UNCHANGED <<flight, installs>>

\* download_percent: capped, and none without a size.
Percent(received, total) ==
    IF total = 0 THEN NoPercent
    ELSE IF received >= total THEN 100 ELSE (received * 100) \div total

Chunk_AnyIsProgress(f, n) ==
    /\ flow[f].pc = "downloading" /\ progress.received + n <= MaxBytes
    /\ LET got == progress.received + n
           p == Percent(got, progress.total) IN
          /\ progress' = [progress EXCEPT
                !.received = got, !.silent = 0,
                !.announced = IF p = NoPercent THEN @ ELSE p]
          /\ menu' = IF p # NoPercent /\ p # progress.announced THEN Downloading(p) ELSE menu
    /\ UNCHANGED <<flight, flow, installs>>

\* record_download_chunk: an empty chunk is no progress; a percent is
\* announced once.
Chunk(f, n) ==
    /\ flow[f].pc = "downloading" /\ progress.received + n <= MaxBytes
    /\ LET got == progress.received + n
           p == Percent(got, progress.total) IN
          /\ progress' = [progress EXCEPT
                !.received = got,
                !.silent = IF n > 0 THEN 0 ELSE @,
                !.announced = IF p = NoPercent THEN @ ELSE p]
          /\ menu' = IF p # NoPercent /\ p # progress.announced THEN Downloading(p) ELSE menu
    /\ UNCHANGED <<flight, flow, installs>>

\* The watchdog looks at every tick; a stalled download is dropped.
Tick(f) ==
    /\ flow[f].pc = "downloading"
    /\ LET silent == progress.silent + 1 IN
          IF silent >= StallTimeout
          THEN Tells(f, "dropping", {"installFailed"}) /\ UNCHANGED progress
          ELSE progress' = [progress EXCEPT !.silent = silent] /\ UNCHANGED flow
    /\ UNCHANGED <<flight, menu, installs>>

\* The download ends, or fails by the network, the signature or its limit
\* of time; it may end with any number of bytes.
DownloadEnds(f) ==
    /\ flow[f].pc = "downloading"
    /\ \/ Tells(f, "installing", {}) /\ menu' = Shows("Installing")
       \/ Tells(f, "dropping", {"installFailed"}) /\ UNCHANGED menu
    /\ UNCHANGED <<flight, progress, installs>>

Install(f) ==
    /\ flow[f].pc = "installing"
    /\ \/ /\ installs' = installs + 1
          /\ menu' = Shows("RestartPrompt")
          /\ Tells(f, "askingRestart", {"restart"})
       \/ Tells(f, "dropping", {"installFailed"}) /\ UNCHANGED <<menu, installs>>
    /\ UNCHANGED <<flight, progress>>

\* app.restart() does not return: the flow keeps the flag until the end.
RestartNow(f) ==
    /\ flow[f].pc = "askingRestart"
    /\ Tells(f, "restarting", {})
    /\ UNCHANGED <<flight, menu, progress, installs>>

\* retain_menu_status.
RestartLater(f) ==
    /\ flow[f].pc = "askingRestart"
    /\ menu' = Shows("RestartReady")
    /\ Tells(f, "releasing", {})
    /\ UNCHANGED <<flight, progress, installs>>

-----------------------------------------------------------------------------
(* FlowGuard's drop.                                                       *)

RestoreMenu_Unflagged(f) ==
    /\ flow[f].pc = "dropping"
    /\ menu' = Shows("Idle")
    /\ flight' = FALSE
    /\ Tells(f, "releasing", {})
    /\ UNCHANGED <<progress, installs>>

\* The menu first: the next flow's status must not be overwritten.
RestoreMenu(f) ==
    /\ flow[f].pc = "dropping"
    /\ menu' = Shows("Idle")
    /\ Tells(f, "releasing", {})
    /\ UNCHANGED <<flight, progress, installs>>

\* A check that failed is told once the guard is gone.
Release(f) ==
    /\ flow[f].pc = "releasing"
    /\ flight' = FALSE
    /\ Tells(f, "rest", IF flow[f].err THEN Quiet(f, "failed") ELSE {})
    /\ UNCHANGED <<menu, progress, installs>>

-----------------------------------------------------------------------------
Advances(f) ==
    \/ ReadMenu(f) \/ Claim(f) \/ ShowClaim(f) \/ CheckAnswers(f)
    \/ Install(f) \/ RestoreMenu(f) \/ Release(f)

UpdateNext ==
    \E f \in Checks :
        \/ SpawnManualCheck(f) \/ Advances(f)
        \/ Declines(f) \/ Confirms(f)
        \/ \E n \in Chunks : Chunk(f, n)
        \/ Tick(f) \/ DownloadEnds(f)
        \/ RestartNow(f) \/ RestartLater(f)

UpdateSpec == UpdateInit /\ [][UpdateNext]_updateVars

\* Tasks run, the check has a timeout, and the watchdog's clock ticks.  The
\* user need not answer, nor the download deliver.
UpdateFairSpec ==
    UpdateSpec /\ \A f \in Checks : WF_updateVars(Advances(f)) /\ WF_updateVars(Tick(f))

-----------------------------------------------------------------------------
Percents == {NoPercent} \cup 0..100

UpdateTypeOK ==
    /\ flight \in BOOLEAN
    /\ menu \in {Shows(n) : n \in {"Idle", "Checking", "Installing", "RestartPrompt",
                                   "RestartReady"}} \cup {Downloading(p) : p \in Percents}
    /\ flow \in [Checks -> [pc : Holding \cup Waiting \cup {"rest"}, manual : BOOLEAN,
                            err : BOOLEAN, said : SUBSET Said]]
    /\ progress \in [received : 0..MaxBytes, total : Nat, silent : Nat, announced : Percents]
    /\ installs \in 0..MaxInstalls

\* What the menu shows of a flow at a place.
MenuAt(pc) ==
    CASE pc \in {"checking", "asking"} -> {"Checking"}
      [] pc = "downloading" -> {"Downloading"}
      [] pc = "installing" -> {"Installing"}
      [] pc \in {"askingRestart", "restarting"} -> {"RestartPrompt"}
      [] pc \in {"claimed", "claimedRestart", "releasing"} -> {"Idle", "RestartReady"}
      [] pc = "dropping" -> {"Checking", "Downloading", "Installing"}

(* The menu tells the truth: while a flow is at work it shows that flow's  *)
(* stage, and with none at work it can be used again, whatever other       *)
(* checks came and went.                                                   *)
MenuTellsTheFlow ==
    /\ \A f \in Checks :
          flow[f].pc \in Holding => flight /\ menu.name \in MenuAt(flow[f].pc)
    /\ (\A f \in Checks : flow[f].pc \notin Holding)
          => ~flight /\ menu.name \in {"Idle", "RestartReady"}

AnswersFit ==
    \A f \in Checks :
        flow[f].pc # "rest" /\ flow'[f].pc = "rest" =>
           IF flow[f].manual THEN flow'[f].said # {}
           ELSE flow'[f].said \cap {"latest", "failed", "busy"} = {}

PercentAdvances ==
    menu.name = "Downloading" /\ menu'.name = "Downloading" /\ menu' # menu
        => menu.percent = NoPercent \/ menu'.percent > menu.percent

(* A user who asked for a check has been told something when it ends, and  *)
(* the check of the launch disturbs nobody to say that it found nothing,   *)
(* could not be made or was not needed.  The percent of a download never   *)
(* goes back and is announced once.                                        *)
ReportsFit == [][AnswersFit /\ PercentAdvances]_updateVars

(* A flow ends or waits for the user: neither a silent server nor a stalled *)
(* download keeps the menu disabled.                                       *)
FlowsEnd ==
    \A f \in Checks :
        (flow[f].pc \in Holding \cup Waiting)
            ~> (flow[f].pc \in {"rest", "asking", "askingRestart", "restarting"})

(* The flag keeps one check from downloading and installing what another   *)
(* one installs.                                                           *)
InstalledOnce == installs <= 1
=============================================================================
