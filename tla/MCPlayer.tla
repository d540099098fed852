------------------------------- MODULE MCPlayer -------------------------------
(***************************************************************************)
(* Instances of IjkMediaPlayer for TLC.  The cfg files give the constants. *)
(***************************************************************************)
EXTENDS IjkMediaPlayer
================================================================================
