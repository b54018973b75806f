---------------------------- MODULE MCServerShutdown ----------------------------
(***************************************************************************)
(* Two requests of one client and two sessions with a permit for each, so   *)
(* that close_all can meet its error with another session still open.       *)
(***************************************************************************)
EXTENDS HttpSessions
=============================================================================
