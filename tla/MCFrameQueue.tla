----------------------------- MODULE MCFrameQueue -----------------------------
(***************************************************************************)
(* Instances of FrameQueue for TLC.  The cfg file gives the constants.     *)
(***************************************************************************)
EXTENDS FrameQueue
================================================================================
