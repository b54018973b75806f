--------------------------- MODULE MCProposalDesk ---------------------------
(***************************************************************************)
(* Two entries that the user makes one after the other, one acceptable and  *)
(* one not.  Proposals of others are seen where they matter: a page that is *)
(* full of newer ones and holds only some of the user's, or none.           *)
(***************************************************************************)
EXTENDS ProposalDesk
=============================================================================
