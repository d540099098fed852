------------------------------ MODULE MediaFile ------------------------------
(***************************************************************************)
(* The file that is played, as the stream engine and its specification see *)
(* it: which stream each packet belongs to, in file order.                 *)
(***************************************************************************)
EXTENDS Naturals, Sequences

CONSTANTS Streams,  \* the streams that are played
          Media     \* the stream of each packet of the file

ASSUME MediaAssumption == Media \in Seq(Streams)

Positions == 1..(Len(Media) + 1)

\* The packets of s from position p on.
Rest(s, p) == {k \in p..Len(Media) : Media[k] = s}

IsFirst(k, S) == k \in S /\ \A j \in S : k <= j
================================================================================
