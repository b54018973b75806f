----------------------------- MODULE MCSessionPool -----------------------------
(***************************************************************************)
(* One permit, two session ids and two requests at a time for two clients:  *)
(* both may create a session and the second one meets the limit.  Of the    *)
(* two keys one may be left to rotate to.                                   *)
(***************************************************************************)
EXTENDS HttpSessions, TLC

Interchangeable == Permutations(Requests) \cup Permutations(Sessions)
=============================================================================
