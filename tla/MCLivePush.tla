----------------------------- MODULE MCLivePush -----------------------------
(***************************************************************************)
(* LivePush for TLC; the bounds are in the .cfg files.                     *)
(***************************************************************************)
EXTENDS LivePush
=============================================================================
