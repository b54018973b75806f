------------------------------ MODULE MCCliLink ------------------------------
(***************************************************************************)
(* Three inodes, so that one freed can come back; links to the tool, to an  *)
(* alias of it, to two other programs and to a name nobody can confirm.     *)
(***************************************************************************)
EXTENDS CliLink
=============================================================================
