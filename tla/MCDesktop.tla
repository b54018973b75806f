------------------------------ MODULE MCDesktop ------------------------------
(***************************************************************************)
(* A command at a time beside the launch, an exit and a restart, over any   *)
(* number of launches.  With two ports a start that was cancelled leaves    *)
(* one for the next.                                                        *)
(***************************************************************************)
EXTENDS DesktopLifecycle
=============================================================================
