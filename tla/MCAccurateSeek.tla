---------------------------- MODULE MCAccurateSeek ----------------------------
(***************************************************************************)
(* Instances of AccurateSeek for TLC.  The cfg files give the constants.   *)
(***************************************************************************)
EXTENDS AccurateSeek
================================================================================
