--------------------------- MODULE MCRtmpSession ---------------------------
(***************************************************************************)
(* RtmpSession for TLC; the bounds are in the .cfg files.                  *)
(***************************************************************************)
EXTENDS RtmpSession
=============================================================================
