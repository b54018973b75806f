------------------------------ MODULE MCUpdates ------------------------------
(***************************************************************************)
(* The check at launch and two manual ones, over a download of a known or   *)
(* unknown size in chunks that may be empty or too many.                    *)
(***************************************************************************)
EXTENDS UpdateFlow
=============================================================================
