------------------------------- MODULE MCIOCache -------------------------------
(***************************************************************************)
(* Instances of IOCache for TLC.  The cfg file gives the constants.        *)
(***************************************************************************)
EXTENDS IOCache
================================================================================
