---------------------------- MODULE ReviewedMemory ----------------------------
(***************************************************************************)
(* What gaia-library promises about its memory, with no tables, scopes or   *)
(* calls.  A change is submitted under a request, a human decides each      *)
(* submitted request at most once, and the memory changes only in the step  *)
(* that approves one.  "history" is the part of the memory that is already  *)
(* superseded: an approval may add to it and never rewrites or drops it.    *)
(***************************************************************************)
CONSTANT Requests

VARIABLES
    submitted,      \* requests that were accepted, decided or not
    approved,
    rejected,
    memory,         \* the content the library answers from
    history         \* the superseded part of that content

vars == <<submitted, approved, rejected, memory, history>>

Init == submitted = {} /\ approved = {} /\ rejected = {}

Submit(r) ==
    /\ r \notin submitted
    /\ submitted' = submitted \cup {r}
    /\ UNCHANGED <<approved, rejected, memory, history>>

Undecided(r) == r \in submitted \ (approved \cup rejected)

Approve(r) ==
    /\ Undecided(r)
    /\ approved' = approved \cup {r}
    /\ history \subseteq history'
    /\ UNCHANGED <<submitted, rejected>>

Reject(r) ==
    /\ Undecided(r)
    /\ rejected' = rejected \cup {r}
    /\ UNCHANGED <<submitted, approved, memory, history>>

Next == \E r \in Requests : Submit(r) \/ Approve(r) \/ Reject(r)

Spec == Init /\ [][Next]_vars
=============================================================================
