--------------------------- MODULE ApplicationLife ---------------------------
(***************************************************************************)
(* What the desktop application promises of its end, with no lock in       *)
(* sight: the writes of the configuration run one at a time, the HTTP      *)
(* server is one, and the process ends in good order only once the         *)
(* application has shut: nothing being written, nothing being served, and  *)
(* nothing starting again.  A crash may come at any time.  A start that is *)
(* cancelled may lose its server, which then serves to the very end.       *)
(***************************************************************************)
EXTENDS Naturals

CONSTANT Calls

VARIABLES
    phase,   \* "open", "shut" once a shutdown has finished, "ended"
    saving,  \* the calls whose writes are in progress
    serving, \* whether the application has a server that accepts requests
    lost     \* how many servers it has lost and cannot stop

vars == <<phase, saving, serving, lost>>

Init == phase = "open" /\ saving = {} /\ serving = FALSE /\ lost = 0

BeginSave(c) ==
    /\ phase = "open" /\ saving = {}
    /\ saving' = {c}
    /\ UNCHANGED <<phase, serving, lost>>

EndSave(c) ==
    /\ phase = "open" /\ saving = {c}
    /\ saving' = {}
    /\ UNCHANGED <<phase, serving, lost>>

Serve ==
    /\ phase = "open" /\ ~serving
    /\ serving' = TRUE
    /\ UNCHANGED <<phase, saving, lost>>

Lose ==
    /\ phase = "open" /\ serving
    /\ serving' = FALSE /\ lost' = lost + 1
    /\ UNCHANGED <<phase, saving>>

\* The application shuts, and the server stops with it.
Shut ==
    /\ phase = "open" /\ saving = {}
    /\ phase' = "shut" /\ serving' = FALSE
    /\ UNCHANGED <<saving, lost>>

End ==
    /\ phase = "shut"
    /\ phase' = "ended"
    /\ UNCHANGED <<saving, serving, lost>>

\* The process is killed, and the system drops what it was doing.
Crash ==
    /\ phase # "ended"
    /\ phase' = "ended" /\ saving' = {} /\ serving' = FALSE /\ lost' = 0

Relaunch ==
    /\ phase = "ended"
    /\ phase' = "open" /\ saving' = {} /\ serving' = FALSE /\ lost' = 0

Next ==
    \/ \E c \in Calls : BeginSave(c) \/ EndSave(c)
    \/ Serve \/ Lose \/ Shut \/ End \/ Crash \/ Relaunch

Spec == Init /\ [][Next]_vars
=============================================================================
