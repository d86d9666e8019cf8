---------------------------- MODULE MCSafeQueue ----------------------------
(***************************************************************************)
(* SafeQueue for TLC: the camera and the microphone produce, one push      *)
(* thread consumes, the UI thread stops and clears.                        *)
(***************************************************************************)
EXTENDS SafeQueue
=============================================================================
