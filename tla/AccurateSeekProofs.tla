-------------------------- MODULE AccurateSeekProofs --------------------------
(***************************************************************************)
(* Theorems about AccurateSeek for a file of any length, any deviation and *)
(* any number of seeks.                                                    *)
(***************************************************************************)
EXTENDS AccurateSeek, TLAPS

One(b) == IF b THEN 1 ELSE 0

\* Where the seeks are that have been requested: armed, or at one of three places before.
Requests ==
  /\ seeks = armed + One(seeker = "request") + One(seek_req) + One(reader = "arm")
  /\ seeker = "request" => ~seek_req
  /\ reader \in {"audio", "video", "seeked"} => seek_req

\* The last seek is armed, and nobody stops the player.
Settled == armed = seeks /\ ~abort_request

\* A frame tested since then is of the last target and has the request still to clear;
\* one tested before, of another target, leaves the request as it is.
Frames ==
  \A s \in Streams :
    /\ seen[s] <= armed
    /\ Settled /\ seen[s] = armed /\ decoder[s] \in {"level", "there", "finish", "fail"}
         => req[s]
    /\ Settled /\ seen[s] = armed /\ decoder[s] \notin {"decode", "test"}
         => want[s] = seek_pos
    /\ Settled /\ decoder[s] \in {"finish", "wait"} /\ want[s] # seek_pos => req[s]

\* Whoever posts the completion is the last to clear a request.
Done == Settled /\ completes > 0 => \A s \in Streams : ~req[s]

\* A decoder that is called from its wait is called by one that is done.
Called ==
  \A s \in Streams :
    /\ decoder[s] \in {"wait", "wait_failed"} /\ s \notin asleep /\ Latest(s)
    /\ ~timed_out /\ ~crossed /\ ~abort_request
    => ~req[Other(s)]

IInv ==
  TypeOK /\ Requests /\ Frames /\ Done /\ Called
    /\ CompletesOnce /\ ResumeTogether /\ StopWakesDecoders

LEMMA Bounds == Last \in Nat \ {0} /\ MaxSeeks \in Nat
  BY AccurateSeekAssumption DEF AccurateSeekAssumption

LEMMA TwoStreams ==
  ASSUME NEW s \in Streams
  PROVE  /\ Other(s) \in Streams /\ Other(s) # s /\ Other(Other(s)) = s
         /\ Streams = {s, Other(s)}
  BY DEF Streams, Other

LEMMA InitIInv == Init => IInv
<1> SUFFICES ASSUME Init PROVE IInv
  OBVIOUS
<1>1. TypeOK
  <2>1. /\ seeks \in 0..MaxSeeks /\ armed \in 0..MaxSeeks /\ seek_pos \in 0..Last
        /\ seen \in [Streams -> 0..MaxSeeks] /\ frame \in [Streams -> 0..Last]
        /\ want \in [Streams -> 0..Last] /\ pts \in [Streams -> 0..Last]
        /\ next \in [Streams -> 1..Last + 1] /\ completes \in Nat
    BY Bounds DEF Init
  <2>2. req \in [Streams -> BOOLEAN] /\ dropped \in [Streams -> BOOLEAN]
    BY DEF Init
  <2>3. /\ seek_req \in BOOLEAN /\ timed_out \in BOOLEAN /\ crossed \in BOOLEAN
        /\ seeker \in {"idle", "request"} /\ start \in {"unset", "running", "overdue"}
        /\ reader \in {"idle", "audio", "video", "seeked", "arm"}
        /\ asleep \subseteq Streams /\ stop \in {"no", "aborted", "signalled"}
    BY DEF Init
  <2>4. decoder \in [Streams -> {"decode", "test", "level", "there", "finish", "fail",
                                 "wait", "wait_failed", "reset"}]
    BY DEF Init
  <2> QED
    BY <2>1, <2>2, <2>3, <2>4 DEF TypeOK
<1>2. Requests /\ Frames /\ Done /\ Called
  BY DEF Init, Requests, One, Frames, Done, Called, abort_request, Streams
<1>3. CompletesOnce /\ ResumeTogether /\ StopWakesDecoders
  BY DEF Init, CompletesOnce, ResumeTogether, StopWakesDecoders, Streams
<1> QED
  BY <1>1, <1>2, <1>3 DEF IInv

LEMMA SetSeekPosKeeps == ASSUME IInv, NEW pos \in Positions, SetSeekPos(pos) PROVE IInv'
<1>1. TypeOK'
  <2>1. seek_pos' \in 0..Last /\ seeks' \in 0..MaxSeeks
    BY Bounds DEF SetSeekPos, IInv, TypeOK, Positions
  <2> QED
    BY <2>1 DEF SetSeekPos, readVars, sharedVars, decoderVars, ghostVars, IInv, TypeOK
<1>2. Requests'
  BY DEF SetSeekPos, readVars, ghostVars, IInv, TypeOK, Requests, One
<1>3. Frames'
  BY DEF SetSeekPos, readVars, decoderVars, ghostVars, IInv, Requests, One, Frames, Settled
<1>4. Done'
  BY DEF SetSeekPos, ghostVars, IInv, TypeOK, Requests, One, Done, Settled
<1>5. Called'
  BY DEF SetSeekPos, ghostVars, IInv, Requests, One, Called, Latest
<1>6. CompletesOnce'
  BY DEF SetSeekPos, ghostVars, IInv, CompletesOnce
<1>7. ResumeTogether'
  BY DEF SetSeekPos, decoderVars, ghostVars, IInv, Requests, One, ResumeTogether, Latest
<1>8. StopWakesDecoders'
  BY DEF SetSeekPos, decoderVars, IInv, StopWakesDecoders
<1> QED
  BY <1>1, <1>2, <1>3, <1>4, <1>5, <1>6, <1>7, <1>8 DEF IInv

LEMMA SetSeekReqKeeps == ASSUME IInv, SetSeekReq PROVE IInv'
<1>1. TypeOK'
  BY Bounds DEF SetSeekReq, readVars, sharedVars, decoderVars, ghostVars, IInv, TypeOK
<1>2. Requests'
  BY DEF SetSeekReq, readVars, ghostVars, IInv, TypeOK, Requests, One
<1>3. Frames'
  BY DEF SetSeekReq, sharedVars, decoderVars, ghostVars, IInv, Frames, Settled,
     abort_request
<1>4. Done'
  BY DEF SetSeekReq, sharedVars, ghostVars, IInv, Done, Settled, abort_request
<1>5. Called'
  BY DEF SetSeekReq, sharedVars, decoderVars, ghostVars, IInv, Called, Latest, abort_request
<1>6. CompletesOnce'
  BY DEF SetSeekReq, ghostVars, IInv, CompletesOnce, abort_request
<1>7. ResumeTogether'
  BY DEF SetSeekReq, sharedVars, decoderVars, ghostVars, IInv, ResumeTogether, Latest,
     abort_request
<1>8. StopWakesDecoders'
  BY DEF SetSeekReq, decoderVars, IInv, StopWakesDecoders
<1> QED
  BY <1>1, <1>2, <1>3, <1>4, <1>5, <1>6, <1>7, <1>8 DEF IInv

LEMMA SeekFileKeeps == ASSUME IInv, SeekFile PROVE IInv'
<1>1. TypeOK'
  BY Bounds DEF SeekFile, seekVars, sharedVars, decoderVars, ghostVars, IInv, TypeOK
<1>2. Requests'
  BY DEF SeekFile, seekVars, ghostVars, IInv, Requests, One
<1>3. Frames'
  BY DEF SeekFile, seekVars, sharedVars, decoderVars, ghostVars, IInv, Frames, Settled
<1>4. Done'
  BY DEF SeekFile, seekVars, sharedVars, ghostVars, IInv, Done, Settled
<1>5. Called'
  BY DEF SeekFile, seekVars, sharedVars, decoderVars, ghostVars, IInv, Called, Latest
<1>6. CompletesOnce'
  BY DEF SeekFile, ghostVars, IInv, CompletesOnce
<1>7. ResumeTogether'
  BY DEF SeekFile, seekVars, sharedVars, decoderVars, ghostVars, IInv, ResumeTogether,
     Latest
<1>8. StopWakesDecoders'
  BY DEF SeekFile, decoderVars, IInv, StopWakesDecoders
<1> QED
  BY <1>1, <1>2, <1>3, <1>4, <1>5, <1>6, <1>7, <1>8 DEF IInv

LEMMA SeekedKeeps == ASSUME IInv, Seeked PROVE IInv'
<1>1. TypeOK'
  BY Bounds DEF Seeked, sharedVars, decoderVars, ghostVars, IInv, TypeOK
<1>2. Requests'
  BY DEF Seeked, ghostVars, IInv, TypeOK, Requests, One
<1>3. Frames'
  BY DEF Seeked, sharedVars, decoderVars, ghostVars, IInv, Frames, Settled, abort_request
<1>4. Done'
  BY DEF Seeked, sharedVars, ghostVars, IInv, Done, Settled, abort_request
<1>5. Called'
  BY DEF Seeked, sharedVars, decoderVars, ghostVars, IInv, Called, Latest, abort_request
<1>6. CompletesOnce'
  BY DEF Seeked, ghostVars, IInv, CompletesOnce, abort_request
<1>7. ResumeTogether'
  BY DEF Seeked, sharedVars, decoderVars, ghostVars, IInv, ResumeTogether, Latest,
     abort_request
<1>8. StopWakesDecoders'
  BY DEF Seeked, decoderVars, IInv, StopWakesDecoders
<1> QED
  BY <1>1, <1>2, <1>3, <1>4, <1>5, <1>6, <1>7, <1>8 DEF IInv

LEMMA ArmKeeps == ASSUME IInv, Arm PROVE IInv'
<1>1. TypeOK'
  <2>1. armed' \in 0..MaxSeeks
    BY Bounds DEF Arm, IInv, TypeOK, Requests, One
  <2>2. /\ dropped' \in [Streams -> BOOLEAN] /\ req' \in [Streams -> BOOLEAN]
        /\ asleep' \subseteq Streams /\ completes' \in Nat
        /\ timed_out' \in BOOLEAN /\ crossed' \in BOOLEAN /\ reader' = "idle"
    BY DEF Arm
  <2> QED
    BY <2>1, <2>2 DEF Arm, seekVars, IInv, TypeOK
<1>2. Requests'
  BY DEF Arm, seekVars, IInv, TypeOK, Requests, One
<1>3. Frames'
  BY DEF Arm, IInv, TypeOK, Frames
<1>4. Done'
  BY DEF Arm, IInv, Done
<1>5. Called'
  BY DEF Arm, IInv, TypeOK, Frames, Called, Latest
<1>6. CompletesOnce'
  BY DEF Arm, IInv, CompletesOnce
<1>7. ResumeTogether'
  BY DEF Arm, IInv, TypeOK, Frames, ResumeTogether, Latest
<1>8. StopWakesDecoders'
  BY DEF Arm, IInv, StopWakesDecoders
<1> QED
  BY <1>1, <1>2, <1>3, <1>4, <1>5, <1>6, <1>7, <1>8 DEF IInv

LEMMA ClockPassesKeeps == ASSUME IInv, ClockPasses PROVE IInv'
<1>1. TypeOK'
  BY Bounds DEF ClockPasses, seekVars, readVars, decoderVars, IInv, TypeOK
<1>2. Requests'
  BY DEF ClockPasses, seekVars, readVars, IInv, Requests, One
<1>3. Frames'
  BY DEF ClockPasses, seekVars, decoderVars, IInv, Frames, Settled, abort_request
<1>4. Done'
  BY DEF ClockPasses, seekVars, IInv, Done, Settled, abort_request
<1>5. Called'
  BY DEF ClockPasses, IInv, Called
<1>6. CompletesOnce'
  BY DEF ClockPasses, IInv, CompletesOnce, abort_request
<1>7. ResumeTogether'
  BY DEF ClockPasses, IInv, ResumeTogether
<1>8. StopWakesDecoders'
  BY DEF ClockPasses, decoderVars, IInv, StopWakesDecoders
<1> QED
  BY <1>1, <1>2, <1>3, <1>4, <1>5, <1>6, <1>7, <1>8 DEF IInv

LEMMA AbortKeeps == ASSUME IInv, Abort PROVE IInv'
<1>1. TypeOK'
  BY Bounds DEF Abort, seekVars, readVars, sharedVars, decoderVars, ghostVars, IInv, TypeOK
<1>2. Requests'
  BY DEF Abort, seekVars, readVars, ghostVars, IInv, Requests, One
<1>3. Frames'
  BY DEF Abort, ghostVars, IInv, Frames, Settled, abort_request
<1>4. Done'
  BY DEF Abort, IInv, Done, Settled, abort_request
<1>5. Called'
  BY DEF Abort, IInv, Called, abort_request
<1>6. CompletesOnce'
  BY DEF Abort, IInv, CompletesOnce, abort_request
<1>7. ResumeTogether'
  BY DEF Abort, IInv, ResumeTogether, abort_request
<1>8. StopWakesDecoders'
  BY DEF Abort, IInv, StopWakesDecoders
<1> QED
  BY <1>1, <1>2, <1>3, <1>4, <1>5, <1>6, <1>7, <1>8 DEF IInv

LEMMA AbortSignalKeeps == ASSUME IInv, AbortSignal PROVE IInv'
<1>1. TypeOK'
  BY Bounds DEF AbortSignal, seekVars, readVars, ghostVars, IInv, TypeOK
<1>2. Requests'
  BY DEF AbortSignal, seekVars, readVars, ghostVars, IInv, Requests, One
<1>3. Frames'
  BY DEF AbortSignal, ghostVars, IInv, Frames, Settled, abort_request
<1>4. Done'
  BY DEF AbortSignal, IInv, Done
<1>5. Called'
  BY DEF AbortSignal, IInv, Called, abort_request
<1>6. CompletesOnce'
  BY DEF AbortSignal, IInv, CompletesOnce, abort_request
<1>7. ResumeTogether'
  BY DEF AbortSignal, IInv, ResumeTogether, abort_request
<1>8. StopWakesDecoders'
  BY DEF AbortSignal, IInv, StopWakesDecoders
<1> QED
  BY <1>1, <1>2, <1>3, <1>4, <1>5, <1>6, <1>7, <1>8 DEF IInv

LEMMA FlushKeeps == ASSUME IInv, NEW s \in Streams, Flush(s) PROVE IInv'
<1>1. TypeOK'
  <2>1. next' \in [Streams -> 1..Last + 1]
    BY Bounds DEF Flush, IInv, TypeOK, Positions
  <2>2. reader' \in {"video", "seeked"}
    BY DEF Flush
  <2> QED
    BY <2>1, <2>2 DEF Flush, seekVars, sharedVars, decoderVars, ghostVars, IInv, TypeOK
<1>2. Requests'
  <2>1. reader \in {"audio", "video"} /\ reader' \in {"video", "seeked"}
    BY DEF Flush, Streams
  <2> QED
    BY <2>1 DEF Flush, seekVars, ghostVars, IInv, Requests, One
<1>3. Frames'
  BY TwoStreams DEF Flush, seekVars, sharedVars, decoderVars, ghostVars, IInv, Frames,
     Settled, abort_request
<1>4. Done'
  BY TwoStreams DEF Flush, seekVars, sharedVars, ghostVars, IInv, Done, Settled,
     abort_request
<1>5. Called'
  BY TwoStreams DEF Flush, seekVars, sharedVars, decoderVars, ghostVars, IInv, Called,
     Latest, abort_request
<1>6. CompletesOnce'
  BY TwoStreams DEF Flush, ghostVars, IInv, CompletesOnce, abort_request
<1>7. ResumeTogether'
  BY TwoStreams DEF Flush, seekVars, sharedVars, decoderVars, ghostVars, IInv,
     ResumeTogether, Latest, abort_request
<1>8. StopWakesDecoders'
  BY TwoStreams DEF Flush, decoderVars, IInv, StopWakesDecoders
<1> QED
  BY <1>1, <1>2, <1>3, <1>4, <1>5, <1>6, <1>7, <1>8 DEF IInv

LEMMA DecodeKeeps == ASSUME IInv, NEW s \in Streams, Decode(s) PROVE IInv'
<1>1. TypeOK'
  BY Bounds, TwoStreams DEF Decode, seekVars, sharedVars, ghostVars, IInv, TypeOK
<1>2. Requests'
  BY TwoStreams DEF Decode, seekVars, ghostVars, IInv, Requests, One
<1>3. Frames'
  BY TwoStreams DEF Decode, seekVars, sharedVars, ghostVars, IInv, Frames, Settled
<1>4. Done'
  BY TwoStreams DEF Decode, seekVars, sharedVars, ghostVars, IInv, Done, Settled
<1>5. Called'
  BY TwoStreams DEF Decode, seekVars, sharedVars, ghostVars, IInv, Called, Latest
<1>6. CompletesOnce'
  BY TwoStreams DEF Decode, ghostVars, IInv, CompletesOnce
<1>7. ResumeTogether'
  BY TwoStreams DEF Decode, seekVars, sharedVars, ghostVars, IInv, ResumeTogether, Latest
<1>8. StopWakesDecoders'
  BY TwoStreams DEF Decode, IInv, StopWakesDecoders
<1> QED
  BY <1>1, <1>2, <1>3, <1>4, <1>5, <1>6, <1>7, <1>8 DEF IInv

LEMMA PassKeeps == ASSUME IInv, NEW s \in Streams, Pass(s) PROVE IInv'
<1>1. TypeOK'
  BY Bounds, TwoStreams DEF Pass, GoTo, seekVars, readVars, sharedVars, IInv, TypeOK
<1>2. Requests'
  BY TwoStreams DEF Pass, seekVars, readVars, IInv, Requests, One
<1>3. Frames'
  BY TwoStreams DEF Pass, GoTo, seekVars, sharedVars, IInv, TypeOK, Frames, Settled,
     abort_request
<1>4. Done'
  BY TwoStreams DEF Pass, seekVars, sharedVars, IInv, Done, Settled, abort_request
<1>5. Called'
  BY TwoStreams DEF Pass, GoTo, seekVars, sharedVars, IInv, TypeOK, Called, Latest,
     abort_request
<1>6. CompletesOnce'
  BY TwoStreams DEF Pass, IInv, CompletesOnce, abort_request
<1>7. ResumeTogether'
  BY TwoStreams DEF Pass, GoTo, seekVars, sharedVars, IInv, TypeOK, ResumeTogether, Latest,
     abort_request
<1>8. StopWakesDecoders'
  BY TwoStreams DEF Pass, IInv, StopWakesDecoders
<1> QED
  BY <1>1, <1>2, <1>3, <1>4, <1>5, <1>6, <1>7, <1>8 DEF IInv

LEMMA TestKeeps == ASSUME IInv, NEW s \in Streams, Test(s) PROVE IInv'
<1>1. TypeOK'
  <2>1. /\ want' \in [Streams -> 0..Last] /\ pts' \in [Streams -> 0..Last]
        /\ seen' \in [Streams -> 0..MaxSeeks]
    BY DEF Test, IInv, TypeOK
  <2>2. decoder' \in [Streams -> {"decode", "test", "level", "there", "finish", "fail",
                                  "wait", "wait_failed", "reset"}]
    BY DEF Test, IInv, TypeOK
  <2>3. dropped' \in [Streams -> BOOLEAN] /\ start' \in {"unset", "running", "overdue"}
    BY DEF Test, IInv, TypeOK
  <2> QED
    BY <2>1, <2>2, <2>3 DEF Test, seekVars, readVars, IInv, TypeOK
<1>2. Requests'
  BY TwoStreams DEF Test, seekVars, readVars, IInv, Requests, One
<1>3. Frames'
  <2>1. /\ want'[s] = seek_pos /\ seen'[s] = armed /\ req[s]
        /\ decoder'[s] \in {"level", "there"}
    BY DEF Test, Filtered, IInv, TypeOK
  <2>2. LET r == Other(s)
        IN  want'[r] = want[r] /\ seen'[r] = seen[r] /\ decoder'[r] = decoder[r]
    BY TwoStreams DEF Test, IInv, TypeOK
  <2>3. UNCHANGED <<seekVars, req, armed, stop>>
    BY DEF Test
  <2>4. armed <= armed
    BY DEF IInv, TypeOK
  <2> QED
    BY <2>1, <2>2, <2>3, <2>4, TwoStreams DEF seekVars, IInv, Frames, Settled, abort_request
<1>4. Done'
  BY TwoStreams DEF Test, seekVars, IInv, Done, Settled, abort_request
<1>5. Called'
  BY TwoStreams DEF Test, seekVars, IInv, TypeOK, Called, Latest, abort_request
<1>6. CompletesOnce'
  BY TwoStreams DEF Test, IInv, CompletesOnce, abort_request
<1>7. ResumeTogether'
  BY TwoStreams DEF Test, seekVars, IInv, TypeOK, ResumeTogether, Latest, abort_request
<1>8. StopWakesDecoders'
  BY TwoStreams DEF Test, IInv, StopWakesDecoders
<1> QED
  BY <1>1, <1>2, <1>3, <1>4, <1>5, <1>6, <1>7, <1>8 DEF IInv

LEMMA LeaveLevelKeeps == ASSUME IInv, NEW s \in Streams, LeaveLevel(s) PROVE IInv'
<1>1. TypeOK'
  BY Bounds, TwoStreams DEF LeaveLevel, GoTo, seekVars, readVars, sharedVars, IInv, TypeOK
<1>2. Requests'
  BY TwoStreams DEF LeaveLevel, seekVars, readVars, IInv, Requests, One
<1>3. Frames'
  BY TwoStreams DEF LeaveLevel, GoTo, seekVars, sharedVars, IInv, TypeOK, Frames, Settled,
     abort_request
<1>4. Done'
  BY TwoStreams DEF LeaveLevel, seekVars, sharedVars, IInv, Done, Settled, abort_request
<1>5. Called'
  BY TwoStreams DEF LeaveLevel, GoTo, seekVars, sharedVars, IInv, TypeOK, Called, Latest,
     abort_request
<1>6. CompletesOnce'
  BY TwoStreams DEF LeaveLevel, IInv, CompletesOnce, abort_request
<1>7. ResumeTogether'
  BY TwoStreams DEF LeaveLevel, GoTo, seekVars, sharedVars, IInv, TypeOK, ResumeTogether,
     Latest, abort_request
<1>8. StopWakesDecoders'
  BY TwoStreams DEF LeaveLevel, IInv, StopWakesDecoders
<1> QED
  BY <1>1, <1>2, <1>3, <1>4, <1>5, <1>6, <1>7, <1>8 DEF IInv

LEMMA ThereKeeps == ASSUME IInv, NEW s \in Streams, There(s) PROVE IInv'
<1>1. TypeOK'
  BY Bounds, TwoStreams DEF There, GoTo, seekVars, readVars, sharedVars, IInv, TypeOK
<1>2. Requests'
  BY TwoStreams DEF There, seekVars, readVars, IInv, Requests, One
<1>3. Frames'
  BY TwoStreams DEF There, GoTo, seekVars, sharedVars, IInv, Frames, Settled, abort_request
<1>4. Done'
  BY TwoStreams DEF There, seekVars, sharedVars, IInv, Done, Settled, abort_request
<1>5. Called'
  BY TwoStreams DEF There, GoTo, seekVars, sharedVars, IInv, Called, Latest, abort_request
<1>6. CompletesOnce'
  BY TwoStreams DEF There, IInv, CompletesOnce, abort_request
<1>7. ResumeTogether'
  BY TwoStreams DEF There, GoTo, seekVars, sharedVars, IInv, Frames, ResumeTogether,
     Settled, Latest, abort_request
<1>8. StopWakesDecoders'
  BY TwoStreams DEF There, IInv, StopWakesDecoders
<1> QED
  BY <1>1, <1>2, <1>3, <1>4, <1>5, <1>6, <1>7, <1>8 DEF IInv

LEMMA ReachTargetKeeps == ASSUME IInv, NEW s \in Streams, ReachTarget(s) PROVE IInv'
<1>1. TypeOK'
  BY Bounds, TwoStreams DEF ReachTarget, Finish, GoTo, seekVars, readVars, IInv, TypeOK
<1>2. Requests'
  BY TwoStreams DEF ReachTarget, seekVars, readVars, IInv, Requests, One
<1>3. Frames'
  BY TwoStreams DEF ReachTarget, Finish, GoTo, seekVars, IInv, TypeOK, Frames, Settled,
     abort_request
<1>4. Done'
  BY TwoStreams DEF ReachTarget, Finish, Notified, Wait, seekVars, IInv, TypeOK, Frames,
     Done, Settled, abort_request, Latest
<1>5. Called'
  BY TwoStreams DEF ReachTarget, Finish, GoTo, seekVars, IInv, TypeOK, Frames, Called,
     Settled, Latest
<1>6. CompletesOnce'
  BY TwoStreams DEF ReachTarget, Finish, IInv, TypeOK, Frames, Done, Settled,
     CompletesOnce, Latest, abort_request
<1>7. ResumeTogether'
  BY TwoStreams DEF ReachTarget, Finish, GoTo, Notified, Wait, seekVars, IInv, TypeOK,
     Frames, ResumeTogether, Settled, Latest, abort_request
<1>8. StopWakesDecoders'
  BY TwoStreams DEF ReachTarget, Finish, Notified, Wait, IInv, StopWakesDecoders,
     abort_request
<1> QED
  BY <1>1, <1>2, <1>3, <1>4, <1>5, <1>6, <1>7, <1>8 DEF IInv

LEMMA GiveUpKeeps == ASSUME IInv, NEW s \in Streams, GiveUp(s) PROVE IInv'
<1>1. TypeOK'
  BY Bounds, TwoStreams DEF GiveUp, Finish, GoTo, seekVars, readVars, IInv, TypeOK
<1>2. Requests'
  BY TwoStreams DEF GiveUp, seekVars, readVars, IInv, Requests, One
<1>3. Frames'
  BY TwoStreams DEF GiveUp, Finish, GoTo, seekVars, IInv, TypeOK, Frames, Settled,
     abort_request
<1>4. Done'
  BY TwoStreams DEF GiveUp, Finish, Notified, Wait, seekVars, IInv, TypeOK, Done, Settled,
     abort_request
<1>5. Called'
  BY TwoStreams DEF GiveUp, Finish, GoTo, IInv, TypeOK, Called
<1>6. CompletesOnce'
  BY TwoStreams DEF GiveUp, Finish, IInv, TypeOK, Frames, Done, Settled, CompletesOnce,
     Latest, abort_request
<1>7. ResumeTogether'
  BY TwoStreams DEF GiveUp, Finish, GoTo, Notified, Wait, IInv, TypeOK, ResumeTogether,
     abort_request
<1>8. StopWakesDecoders'
  BY TwoStreams DEF GiveUp, Finish, Notified, Wait, IInv, StopWakesDecoders, abort_request
<1> QED
  BY <1>1, <1>2, <1>3, <1>4, <1>5, <1>6, <1>7, <1>8 DEF IInv

LEMMA WokenKeeps == ASSUME IInv, NEW s \in Streams, Woken(s) PROVE IInv'
<1>1. TypeOK'
  BY Bounds, TwoStreams DEF Woken, GoTo, seekVars, readVars, IInv, TypeOK
<1>2. Requests'
  BY TwoStreams DEF Woken, seekVars, readVars, IInv, Requests, One
<1>3. Frames'
  BY TwoStreams DEF Woken, GoTo, seekVars, IInv, TypeOK, Frames, Settled, abort_request
<1>4. Done'
  BY TwoStreams DEF Woken, seekVars, IInv, TypeOK, Frames, Done, Settled, abort_request
<1>5. Called'
  BY TwoStreams DEF Woken, GoTo, seekVars, IInv, TypeOK, Frames, Called, Settled, Latest,
     abort_request
<1>6. CompletesOnce'
  BY TwoStreams DEF Woken, IInv, CompletesOnce, abort_request
<1>7. ResumeTogether'
  BY TwoStreams DEF Woken, GoTo, seekVars, IInv, TypeOK, Frames, Called, ResumeTogether,
     Settled, Latest, abort_request
<1>8. StopWakesDecoders'
  BY TwoStreams DEF Woken, IInv, StopWakesDecoders
<1> QED
  BY <1>1, <1>2, <1>3, <1>4, <1>5, <1>6, <1>7, <1>8 DEF IInv

LEMMA ResetKeeps == ASSUME IInv, NEW s \in Streams, Reset(s) PROVE IInv'
<1>1. TypeOK'
  BY Bounds, TwoStreams DEF Reset, GoTo, seekVars, readVars, IInv, TypeOK
<1>2. Requests'
  BY TwoStreams DEF Reset, seekVars, readVars, IInv, Requests, One
<1>3. Frames'
  BY TwoStreams DEF Reset, GoTo, seekVars, IInv, TypeOK, Frames, Settled, abort_request
<1>4. Done'
  BY TwoStreams DEF Reset, seekVars, IInv, Done, Settled, abort_request
<1>5. Called'
  BY TwoStreams DEF Reset, GoTo, seekVars, IInv, TypeOK, Called, Latest, abort_request
<1>6. CompletesOnce'
  BY TwoStreams DEF Reset, IInv, CompletesOnce, abort_request
<1>7. ResumeTogether'
  BY TwoStreams DEF Reset, GoTo, seekVars, IInv, TypeOK, ResumeTogether, Latest,
     abort_request
<1>8. StopWakesDecoders'
  BY TwoStreams DEF Reset, IInv, StopWakesDecoders
<1> QED
  BY <1>1, <1>2, <1>3, <1>4, <1>5, <1>6, <1>7, <1>8 DEF IInv

LEMMA WaitTimesOutKeeps == ASSUME IInv, NEW s \in Streams, WaitTimesOut(s) PROVE IInv'
<1>1. TypeOK'
  BY Bounds, TwoStreams DEF WaitTimesOut, seekVars, readVars, sharedVars, IInv, TypeOK
<1>2. Requests'
  BY TwoStreams DEF WaitTimesOut, seekVars, readVars, IInv, Requests, One
<1>3. Frames'
  BY TwoStreams DEF WaitTimesOut, seekVars, sharedVars, IInv, Frames, Settled, abort_request
<1>4. Done'
  BY TwoStreams DEF WaitTimesOut, seekVars, sharedVars, IInv, Done, Settled, abort_request
<1>5. Called'
  BY TwoStreams DEF WaitTimesOut, IInv, Called
<1>6. CompletesOnce'
  BY TwoStreams DEF WaitTimesOut, IInv, CompletesOnce, abort_request
<1>7. ResumeTogether'
  BY TwoStreams DEF WaitTimesOut, IInv, ResumeTogether
<1>8. StopWakesDecoders'
  BY TwoStreams DEF WaitTimesOut, IInv, StopWakesDecoders
<1> QED
  BY <1>1, <1>2, <1>3, <1>4, <1>5, <1>6, <1>7, <1>8 DEF IInv

LEMMA NextIInv == IInv /\ [Next]_vars => IInv'
<1> SUFFICES ASSUME IInv, [Next]_vars PROVE IInv'
  OBVIOUS
<1>1. CASE UNCHANGED vars
  BY <1>1 DEF vars, seekVars, readVars, sharedVars, decoderVars, ghostVars, IInv, TypeOK,
     Requests, Frames, Done, Called, Settled, Latest, abort_request, CompletesOnce,
     ResumeTogether, StopWakesDecoders
<1>2. CASE (\E pos \in Positions : SetSeekPos(pos)) \/ SetSeekReq
  BY <1>2, SetSeekPosKeeps, SetSeekReqKeeps
<1>3. CASE ReadThread
  BY <1>3, SeekFileKeeps, FlushKeeps, SeekedKeeps, ArmKeeps DEF ReadThread, Streams
<1>4. CASE \E s \in Streams : Decode(s) \/ Filter(s)
  BY <1>4, DecodeKeeps, PassKeeps, TestKeeps, LeaveLevelKeeps, ThereKeeps, ReachTargetKeeps,
     GiveUpKeeps, WokenKeeps, ResetKeeps DEF Filter
<1>5. CASE Time \/ Abort \/ AbortSignal
  BY <1>5, ClockPassesKeeps, WaitTimesOutKeeps, AbortKeeps, AbortSignalKeeps DEF Time
<1> QED
  BY <1>1, <1>2, <1>3, <1>4, <1>5 DEF Next

\* The requests, the frames and the completions of the accurate seek stay tied to the
\* last seek.
THEOREM Invariant == Spec => []IInv
<1>1. Init => IInv
  BY InitIInv
<1>2. IInv /\ [Next]_vars => IInv'
  BY NextIInv
<1> QED
  BY <1>1, <1>2, PTL DEF Spec

\* The positions and places of the filter are those of the code.
THEOREM Typing == Spec => []TypeOK
<1>1. IInv => TypeOK
  BY DEF IInv
<1> QED
  BY <1>1, Invariant, PTL

\* A stop wakes both decoders for good, whatever the read thread still arms.
THEOREM StopWakes == Spec => []StopWakesDecoders
<1>1. IInv => StopWakesDecoders
  BY DEF IInv
<1> QED
  BY <1>1, Invariant, PTL

\* A seek is reported complete at most once, however seeks overtake one another.
THEOREM OneCompletion == Spec => []CompletesOnce
<1>1. IInv => CompletesOnce
  BY DEF IInv
<1> QED
  BY <1>1, Invariant, PTL

\* Neither stream goes on from the target before the other has cleared its request.
THEOREM OutputsResumeTogether == Spec => []ResumeTogether
<1>1. IInv => ResumeTogether
  BY DEF IInv
<1> QED
  BY <1>1, Invariant, PTL
--------------------------------------------------------------------------------
(* Why neither decoder waits in vain: what of FramesAreReleased is safety.      *)

\* A decoder in SDL_CondWaitTimeout has cleared its own request and waits for one that
\* is still to clear its own, and to signal when it does.  They never wait for each
\* other, so accurate_seek_timeout only ends waits for a stream that has no frame.
SleepersAreAwaited ==
  /\ \A s \in asleep : decoder[s] \in {"wait", "wait_failed"} /\ ~req[s] /\ req[Other(s)]
  /\ asleep # Streams

\* The first part, which a step keeps; the second follows.
Awaited ==
  \A s \in asleep : decoder[s] \in {"wait", "wait_failed"} /\ ~req[s] /\ req[Other(s)]

LEMMA DecoderStepKeepsAwaited ==
  ASSUME TypeOK, Awaited, NEW s \in Streams, Decode(s) \/ Filter(s) \/ WaitTimesOut(s)
  PROVE  Awaited'
<1>1. CASE Decode(s) \/ Pass(s) \/ LeaveLevel(s) \/ There(s) \/ Reset(s)
  BY <1>1, TwoStreams DEF Decode, Pass, LeaveLevel, There, Reset, GoTo, sharedVars, TypeOK,
     Awaited
<1>2. CASE Test(s)
  BY <1>2, TwoStreams DEF Test, TypeOK, Awaited
<1>3. CASE ReachTarget(s)
  <2>1. /\ asleep' = (asleep \ {Other(s)}) \cup IF asleep' = asleep \ {Other(s)} THEN {}
                                                ELSE {s}
        /\ s \in asleep' => req[Other(s)] /\ ~req'[s] /\ decoder'[s] = "wait"
        /\ \A t \in Streams \ {s} : req'[t] = req[t] /\ decoder'[t] = decoder[t]
    BY <1>3, TwoStreams DEF ReachTarget, Finish, GoTo, Notified, Wait, TypeOK, Awaited
  <2> QED
    BY <2>1, TwoStreams DEF TypeOK, Awaited
<1>4. CASE GiveUp(s)
  <2>1. /\ asleep' = (asleep \ {Other(s)}) \cup IF asleep' = asleep \ {Other(s)} THEN {}
                                                ELSE {s}
        /\ s \in asleep' => req[Other(s)] /\ ~req'[s] /\ decoder'[s] = "wait_failed"
        /\ \A t \in Streams \ {s} : req'[t] = req[t] /\ decoder'[t] = decoder[t]
    BY <1>4, TwoStreams DEF GiveUp, Finish, GoTo, Notified, Wait, TypeOK, Awaited
  <2> QED
    BY <2>1, TwoStreams DEF TypeOK, Awaited
<1>5. CASE Woken(s)
  BY <1>5, TwoStreams DEF Woken, GoTo, TypeOK, Awaited
<1>6. CASE WaitTimesOut(s)
  BY <1>6, TwoStreams DEF WaitTimesOut, sharedVars, TypeOK, Awaited
<1> QED
  BY <1>1, <1>2, <1>3, <1>4, <1>5, <1>6 DEF Filter

LEMMA StepKeepsAwaited == TypeOK /\ Awaited /\ [Next]_vars => Awaited'
<1> SUFFICES ASSUME TypeOK, Awaited, [Next]_vars PROVE Awaited'
  OBVIOUS
<1>1. CASE UNCHANGED vars
  BY <1>1 DEF vars, sharedVars, decoderVars, Awaited
<1>2. CASE (\E pos \in Positions : SetSeekPos(pos)) \/ SetSeekReq \/ Abort
  BY <1>2 DEF SetSeekPos, SetSeekReq, Abort, sharedVars, decoderVars, Awaited
<1>3. CASE AbortSignal \/ Arm
  BY <1>3 DEF AbortSignal, Arm, Awaited
<1>4. CASE SeekFile \/ Flush("audio") \/ Flush("video") \/ Seeked
  BY <1>4 DEF SeekFile, Flush, Seeked, sharedVars, decoderVars, Awaited
<1>5. CASE ClockPasses
  BY <1>5 DEF ClockPasses, decoderVars, Awaited
<1>6. CASE \E s \in Streams : Decode(s) \/ Filter(s) \/ WaitTimesOut(s)
  BY <1>6, DecoderStepKeepsAwaited
<1> QED
  BY <1>1, <1>2, <1>3, <1>4, <1>5, <1>6 DEF Next, ReadThread, Time

\* Each wait has an end: the decoder waited for is awake and has the signal to give.
THEOREM NobodyWaitsInVain == Spec => []SleepersAreAwaited
<1>1. Init => Awaited
  BY DEF Init, Awaited
<1>2. TypeOK /\ Awaited => SleepersAreAwaited
  BY DEF Awaited, SleepersAreAwaited, Streams, Other
<1> QED
  BY <1>1, <1>2, StepKeepsAwaited, Typing, PTL DEF Spec
================================================================================
