------------------------------ MODULE MCThreadPool -----------------------------
(***************************************************************************)
(* Instances of ThreadPool for TLC.                                        *)
(***************************************************************************)
EXTENDS ThreadPool

Threads == {"w1", "w2", "w3"}
================================================================================
