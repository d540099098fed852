------------------------------- MODULE MCAsyncIO -------------------------------
(***************************************************************************)
(* Instances of AsyncIO for TLC.  The cfg file gives the constants.        *)
(***************************************************************************)
EXTENDS AsyncIO
================================================================================
