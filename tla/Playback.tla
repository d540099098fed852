------------------------------- MODULE Playback -------------------------------
(***************************************************************************)
(* What the stream engine promises whoever watches and listens.  A seek    *)
(* (or a discontinuity of the input) begins a generation, which every      *)
(* stream joins.  A stream is presented frame by frame, without a gap,     *)
(* from the position its generation began at; once it has joined, at most  *)
(* one more frame of an older generation is presented.  The end is         *)
(* announced when nothing is left to present.                              *)
(***************************************************************************)
EXTENDS MediaFile

VARIABLES
  from,     \* from[g]: the position generation g began at
  current,  \* current[s]: the generation s has joined
  at,       \* at[s]: the generation and the position of s's last frame, <<1, 0>> at first
  late,     \* late[s]: a frame of an older generation came since s joined
  ended     \* what has been announced: "no", "completed" or "error"

playbackVars == <<from, current, at, late, ended>>

\* What s has left to present of generation g.
Left(s, g) == Rest(s, IF at[s][1] = g /\ at[s][2] # 0 THEN at[s][2] + 1 ELSE from[g])

PlaybackInit ==
  /\ from = <<1>>
  /\ current = [s \in Streams |-> 1]
  /\ at = [s \in Streams |-> <<1, 0>>]
  /\ late = [s \in Streams |-> FALSE]
  /\ ended = "no"

Present(s, g) ==
  /\ \E k \in 1..Len(Media) :
       /\ IsFirst(k, Left(s, g))
       /\ at' = [at EXCEPT ![s] = <<g, k>>]
  /\ \/ g = current[s] /\ UNCHANGED late
     \/ ~late[s] /\ late' = [late EXCEPT ![s] = TRUE]
  /\ UNCHANGED <<from, current, ended>>

NewGeneration ==
  /\ \E p \in Positions : from' = Append(from, p)
  /\ UNCHANGED <<current, at, late, ended>>

Join(s) ==
  /\ current[s] < Len(from)
  /\ current' = [current EXCEPT ![s] = @ + 1]
  /\ late' = [late EXCEPT ![s] = FALSE]
  /\ UNCHANGED <<from, at, ended>>

\* A seek takes the announcement back, whether it succeeds or not.
Resume == ended # "no" /\ ended' = "no" /\ UNCHANGED <<from, current, at, late>>

Complete ==
  /\ ended = "no"
  /\ \A s \in Streams : current[s] = Len(from) /\ Left(s, current[s]) = {}
  /\ ended' = "completed"
  /\ UNCHANGED <<from, current, at, late>>

Fail == ended = "no" /\ ended' = "error" /\ UNCHANGED <<from, current, at, late>>

PlaybackNext ==
  \/ \E s \in Streams : Join(s) \/ \E g \in at[s][1]..current[s] : Present(s, g)
  \/ NewGeneration
  \/ Resume
  \/ Complete
  \/ Fail

PlaybackSpec == PlaybackInit /\ [][PlaybackNext]_playbackVars
================================================================================
