----------------------------- MODULE AccurateSeek -----------------------------
(***************************************************************************)
(* Accurate seek in ff_ffplay.c: after a seek the audio and the video      *)
(* decoder drop their frames up to the target, keep level with each other  *)
(* meanwhile, and wait for each other before they go on (queue_picture,    *)
(* the accurate-seek part of audio decoding, the read thread's seek,       *)
(* stream_seek, ffp_stop_l).                                               *)
(*                                                                         *)
(* A section under accurate_seek_mutex is one step; everything else is     *)
(* read and written without a lock.  Time is abstracted to whether         *)
(* accurate_seek_timeout has passed.  Positions start at 1, as 0 stands    *)
(* for "no frame yet".                                                     *)
(***************************************************************************)
EXTENDS Integers

CONSTANTS
  Last,       \* the last position of the file
  Deviation,  \* MAX_DEVIATION
  Level,      \* the 100 ms by which one decoder may be ahead of the other
  MaxSeeks    \* the bound on seeks

ASSUME AccurateSeekAssumption ==
  Last \in Nat \ {0} /\ Deviation \in Nat /\ Level \in Nat \ {0} /\ MaxSeeks \in Nat

VARIABLES
  seek_req, seek_pos,  \* of VideoState
  seeker,              \* where stream_seek is
  seeks,               \* the seeks requested
  reader,              \* where the read thread's seek is
  next,                \* the position of the next frame each decoder will have
  req,                 \* audio_accurate_seek_req, video_accurate_seek_req
  pts,                 \* accurate_seek_aframe_pts, accurate_seek_vframe_pts
  dropped,             \* drop_aframe_count > 0, drop_vframe_count > 0
  start,               \* accurate_seek_start_time: "unset", "running" or "overdue"
  decoder,             \* where each decoder is
  frame,               \* the frame it holds
  want,                \* its video_seek_pos or audio_seek_pos
  asleep,              \* the decoders in SDL_CondWaitTimeout
  armed,               \* the seeks the read thread has made requests for
  seen,                \* of these, the ones before each decoder's frame was tested
  timed_out, crossed,  \* since the last of them a timeout has passed, a decoder has
                       \* finished with a frame of an earlier one
  completes,           \* FFP_MSG_ACCURATE_SEEK_COMPLETE posted for the last seek
  stop                 \* where ffp_stop_l is

seekVars == <<seek_req, seek_pos, seeker, seeks>>
readVars == <<reader, next>>
sharedVars == <<req, pts, dropped, start>>
decoderVars == <<decoder, frame, want, asleep>>
ghostVars == <<armed, seen, timed_out, crossed, completes>>
vars == <<seekVars, readVars, sharedVars, decoderVars, ghostVars, stop>>

Streams == {"audio", "video"}
Other(s) == IF s = "audio" THEN "video" ELSE "audio"
Positions == 1..Last

abort_request == stop # "no"

Distance(a, b) == IF a < b THEN b - a ELSE a - b

Init ==
  /\ seek_req = FALSE /\ seek_pos = 0 /\ seeker = "idle" /\ seeks = 0
  /\ reader = "idle"
  /\ next = [s \in Streams |-> 1]
  /\ req = [s \in Streams |-> FALSE] /\ pts = [s \in Streams |-> 0]
  /\ dropped = [s \in Streams |-> FALSE] /\ start = "unset"
  /\ decoder = [s \in Streams |-> "decode"]
  /\ frame = [s \in Streams |-> 0]
  /\ want = [s \in Streams |-> 0]
  /\ asleep = {} /\ armed = 0 /\ seen = [s \in Streams |-> 0]
  /\ timed_out = FALSE /\ crossed = FALSE /\ completes = 0 /\ stop = "no"

--------------------------------------------------------------------------------
(* stream_seek, on the application's thread, and the read thread.              *)

SetSeekPos(pos) ==
  /\ seeker = "idle" /\ ~seek_req /\ ~abort_request /\ seeks < MaxSeeks
  /\ seek_pos' = pos
  /\ seeker' = "request" /\ seeks' = seeks + 1
  /\ UNCHANGED <<seek_req, readVars, sharedVars, decoderVars, ghostVars, stop>>

SetSeekReq ==
  /\ seeker = "request"
  /\ seek_req' = TRUE
  /\ seeker' = "idle"
  /\ UNCHANGED <<seek_pos, seeks, readVars, sharedVars, decoderVars, ghostVars, stop>>

\* avformat_seek_file: it may land anywhere, each stream at a place of its own, and
\* when it fails nothing is flushed.
SeekFile ==
  /\ reader = "idle" /\ seek_req /\ ~abort_request
  /\ reader' \in {"audio", "seeked"}
  /\ UNCHANGED <<seekVars, next, sharedVars, decoderVars, ghostVars, stop>>

\* The flush of a packet queue: the decoder's next frame comes from the new place.
Flush(s) ==
  /\ reader = s
  /\ \E pos \in Positions : next' = [next EXCEPT ![s] = pos]
  /\ reader' = IF s = "audio" THEN "video" ELSE "seeked"
  /\ UNCHANGED <<seekVars, sharedVars, decoderVars, ghostVars, stop>>

Seeked ==
  /\ reader = "seeked"
  /\ seek_req' = FALSE
  /\ reader' = "arm"
  /\ UNCHANGED <<seek_pos, seeker, seeks, next, sharedVars, decoderVars,
                 ghostVars, stop>>

\* The drop counts, and under the mutex the two requests and the two signals.
Arm ==
  /\ reader = "arm"
  /\ dropped' = [s \in Streams |-> FALSE]
  /\ req' = [s \in Streams |-> TRUE]
  /\ asleep' = {}
  /\ armed' = armed + 1 /\ timed_out' = FALSE /\ crossed' = FALSE /\ completes' = 0
  /\ reader' = "idle"
  /\ UNCHANGED <<seekVars, next, pts, start, decoder, frame, want, seen, stop>>

--------------------------------------------------------------------------------
(* A decoder: queue_picture, and the same in audio_thread.                     *)

\* The decoder goes on, or is done with its frame and has the locals reset.
GoTo(s, place) ==
  /\ decoder' = [decoder EXCEPT ![s] = place]
  /\ IF place = "decode"
       THEN /\ frame' = [frame EXCEPT ![s] = 0] /\ want' = [want EXCEPT ![s] = 0]
            /\ seen' = [seen EXCEPT ![s] = 0]
       ELSE UNCHANGED <<frame, want, seen>>

\* Mutant of Decode: frames are made after the end of the stream.
DecodePastEnd(s) ==
  /\ decoder[s] = "decode" /\ ~abort_request
  /\ frame' = [frame EXCEPT ![s] = next[s]]
  /\ next' = [next EXCEPT ![s] = @ + 1]
  /\ decoder' = [decoder EXCEPT ![s] = "test"]
  /\ UNCHANGED <<seekVars, reader, sharedVars, want, asleep, ghostVars, stop>>

\* decoder_decode_frame
Decode(s) ==
  /\ decoder[s] = "decode" /\ ~abort_request
  /\ next[s] <= Last
  /\ frame' = [frame EXCEPT ![s] = next[s]]
  /\ next' = [next EXCEPT ![s] = @ + 1]
  /\ decoder' = [decoder EXCEPT ![s] = "test"]
  /\ UNCHANGED <<seekVars, reader, sharedVars, want, asleep, ghostVars, stop>>

\* Does the frame concern accurate seek?
Filtered(s) == req[s] /\ ~seek_req

\* No: the frame goes to the frame queue.
Pass(s) ==
  /\ decoder[s] = "test" /\ ~Filtered(s)
  /\ GoTo(s, "decode")
  /\ UNCHANGED <<seekVars, readVars, sharedVars, asleep, armed, timed_out, crossed,
                 completes, stop>>

OffTarget(pos) == pos < seek_pos \/ Distance(pos, seek_pos) > Deviation

\* Yes.  The first frame off the target starts the clock, if the other decoder is
\* still to start.
Test(s) ==
  /\ decoder[s] = "test" /\ Filtered(s)
  /\ want' = [want EXCEPT ![s] = seek_pos]
  /\ pts' = [pts EXCEPT ![s] = frame[s]]
  /\ seen' = [seen EXCEPT ![s] = armed]
  /\ \/ /\ OffTarget(frame[s])
        /\ start' = IF ~dropped[s] /\ start = "unset" /\ req[Other(s)]
                      THEN "running" ELSE start
        /\ dropped' = [dropped EXCEPT ![s] = TRUE]
        /\ decoder' = [decoder EXCEPT ![s] = "level"]
     \/ /\ ~OffTarget(frame[s])
        /\ decoder' = [decoder EXCEPT ![s] = "there"]
        /\ UNCHANGED <<start, dropped>>
  /\ UNCHANGED <<seekVars, readVars, req, frame, asleep, armed, timed_out, crossed,
                 completes, stop>>

\* now - accurate_seek_start_time > accurate_seek_timeout; a clock that was never
\* started reads 0, a long time ago.
TooLong == start # "running"

\* Mutant of Levelled: without the look at the clock.
LevelledInTime(s) ==
  \/ ~req[Other(s)] \/ abort_request
  \/ pts[Other(s)] - frame[s] > -Level /\ pts[Other(s)] < seek_pos

\* The loop that keeps the decoders level is left when the other one is done or has
\* caught up, or when it took too long.
Levelled(s) ==
  \/ ~req[Other(s)] \/ abort_request
  \/ pts[Other(s)] - frame[s] > -Level /\ pts[Other(s)] < seek_pos
  \/ TooLong

\* The audio gives up, too, when it is past a video that is done.
Overtook(s) == s = "audio" /\ ~req["video"] /\ frame[s] > pts["video"]

LeaveLevel(s) ==
  /\ decoder[s] = "level" /\ Levelled(s)
  /\ GoTo(s, IF Overtook(s) \/ TooLong THEN "fail" ELSE "decode")
  /\ UNCHANGED <<seekVars, readVars, sharedVars, asleep, armed, timed_out, crossed,
                 completes, stop>>

\* Mutant of Wait: without the look at abort_request.
WaitWhileStopped(s) == req[Other(s)]

\* Under the mutex: wait for the other decoder?
Wait(s) == req[Other(s)] /\ ~abort_request

\* Mutant of Notified: also by the decoder that is there first.
NotifiedByBoth(s) == TRUE

\* The one that does not wait posts FFP_MSG_ACCURATE_SEEK_COMPLETE.
Notified(s) == ~Wait(s)

\* No seek has been requested since the decoder's frame was tested.
Latest(s) == seen[s] = armed /\ armed = seeks

\* Both outcomes begin alike: the request is done, the other decoder signalled.
Finish(s, waits, waiting, after) ==
  /\ dropped' = [dropped EXCEPT ![s] = FALSE]
  /\ asleep' = (asleep \ {Other(s)}) \cup IF waits THEN {s} ELSE {}
  /\ crossed' = (crossed \/ seen[s] # armed)
  /\ completes' = completes + IF ~waits /\ Latest(s) THEN 1 ELSE 0
  /\ GoTo(s, IF waits THEN waiting ELSE after)

\* At the target.  The position is compared before the mutex is taken,
There(s) ==
  /\ decoder[s] = "there"
  /\ GoTo(s, IF want[s] = seek_pos THEN "finish" ELSE "reset")
  /\ UNCHANGED <<seekVars, readVars, sharedVars, asleep, armed, timed_out, crossed,
                 completes, stop>>

\* and once more under it: a seek that came in between leaves the request set.
ReachTarget(s) ==
  /\ decoder[s] = "finish"
  /\ LET same == want[s] = seek_pos
         again == ~same /\ ~abort_request
     IN /\ Finish(s, same /\ ~Notified(s), "wait", IF again THEN "decode" ELSE "reset")
        /\ req' = [req EXCEPT ![s] = again]
  /\ UNCHANGED <<seekVars, readVars, pts, start, armed, timed_out, stop>>

\* The same without a target reached: this seek is not going to be accurate.
GiveUp(s) ==
  /\ decoder[s] = "fail"
  /\ Finish(s, ~Notified(s), "wait_failed", "reset")
  /\ req' = [req EXCEPT ![s] = FALSE]
  /\ UNCHANGED <<seekVars, readVars, pts, start, armed, timed_out, stop>>

\* Back from SDL_CondWaitTimeout.  A frame of a seek that was overtaken is dropped.
Woken(s) ==
  /\ decoder[s] \in {"wait", "wait_failed"} /\ s \notin asleep
  /\ LET again == decoder[s] = "wait" /\ want[s] # seek_pos /\ ~abort_request
     IN /\ req' = [req EXCEPT ![s] = @ \/ again]
        /\ GoTo(s, IF again THEN "decode" ELSE "reset")
  /\ UNCHANGED <<seekVars, readVars, pts, dropped, start, asleep, armed, timed_out,
                 crossed, completes, stop>>

\* The clock is reset, and the video's position, but not the audio's; the frame goes
\* to the frame queue.
Reset(s) ==
  /\ decoder[s] = "reset"
  /\ start' = "unset"
  /\ pts' = IF s = "video" THEN [pts EXCEPT ![s] = 0] ELSE pts
  /\ GoTo(s, "decode")
  /\ UNCHANGED <<seekVars, readVars, req, dropped, asleep, armed, timed_out, crossed,
                 completes, stop>>

--------------------------------------------------------------------------------
(* Time, and ffp_stop_l.                                                       *)

ClockPasses ==
  /\ start = "running"
  /\ start' = "overdue" /\ timed_out' = TRUE
  /\ UNCHANGED <<seekVars, readVars, req, pts, dropped, decoderVars, armed, seen,
                 crossed, completes, stop>>

WaitTimesOut(s) ==
  /\ s \in asleep
  /\ asleep' = asleep \ {s} /\ timed_out' = TRUE
  /\ UNCHANGED <<seekVars, readVars, sharedVars, decoder, frame, want, armed, seen,
                 crossed, completes, stop>>

Abort ==
  /\ stop = "no"
  /\ stop' = "aborted"
  /\ UNCHANGED <<seekVars, readVars, sharedVars, decoderVars, ghostVars>>

AbortSignal ==
  /\ stop = "aborted"
  /\ req' = [s \in Streams |-> FALSE]
  /\ asleep' = {}
  /\ stop' = "signalled"
  /\ UNCHANGED <<seekVars, readVars, pts, dropped, start, decoder, frame, want,
                 ghostVars>>

--------------------------------------------------------------------------------

Filter(s) ==
  \/ Pass(s) \/ Test(s) \/ LeaveLevel(s) \/ There(s) \/ ReachTarget(s) \/ GiveUp(s)
  \/ Woken(s) \/ Reset(s)

ReadThread == SeekFile \/ Flush("audio") \/ Flush("video") \/ Seeked \/ Arm

Time == ClockPasses \/ \E s \in Streams : WaitTimesOut(s)

Next ==
  \/ (\E pos \in Positions : SetSeekPos(pos)) \/ SetSeekReq
  \/ ReadThread
  \/ \E s \in Streams : Decode(s) \/ Filter(s)
  \/ Time
  \/ Abort \/ AbortSignal

\* The threads run, and time passes.  Nothing says that a stream has another frame.
Fairness ==
  /\ \A s \in Streams : WF_vars(Filter(s)) /\ WF_vars(WaitTimesOut(s))
  /\ WF_vars(ClockPasses) /\ WF_vars(ReadThread)

Spec == Init /\ [][Next]_vars /\ Fairness

--------------------------------------------------------------------------------

TypeOK ==
  /\ seek_req \in BOOLEAN /\ seek_pos \in 0..Last
  /\ seeker \in {"idle", "request"} /\ seeks \in 0..MaxSeeks
  /\ reader \in {"idle", "audio", "video", "seeked", "arm"}
  /\ next \in [Streams -> 1..Last + 1]
  /\ req \in [Streams -> BOOLEAN] /\ pts \in [Streams -> 0..Last]
  /\ dropped \in [Streams -> BOOLEAN] /\ start \in {"unset", "running", "overdue"}
  /\ decoder \in [Streams -> {"decode", "test", "level", "there", "finish", "fail",
                               "wait", "wait_failed", "reset"}]
  /\ frame \in [Streams -> 0..Last]
  /\ want \in [Streams -> 0..Last]
  /\ asleep \subseteq Streams /\ timed_out \in BOOLEAN /\ crossed \in BOOLEAN
  /\ armed \in 0..MaxSeeks /\ seen \in [Streams -> 0..MaxSeeks] /\ completes \in Nat
  /\ stop \in {"no", "aborted", "signalled"}

\* FFP_MSG_ACCURATE_SEEK_COMPLETE is posted once for a seek, by the decoder that is
\* there last.  (A decoder that finished its frame before the seek may post another.)
CompletesOnce == ~abort_request => completes <= 1

\* Once ffp_stop_l has signalled the two conditions, no decoder sleeps on one of
\* them, although the read thread may still set the requests of a last seek: closing
\* the stream does not wait for accurate_seek_timeout.
StopWakesDecoders == stop = "signalled" => asleep = {}

\* Neither decoder goes on, its frame at the target, before the other one is at the
\* target too, unless a timeout passed or there is another seek: both outputs resume
\* together.  (A decoder that finishes a frame of an earlier seek wakes the other one.)
ResumeTogether ==
  \A s \in Streams :
    decoder[s] = "reset" /\ Latest(s) /\ ~timed_out /\ ~crossed /\ ~abort_request
      => ~req[Other(s)]

\* No frame is held for ever, whatever becomes of the other stream.
FramesAreReleased ==
  \A s \in Streams : decoder[s] # "decode" ~> decoder[s] = "decode"

\* queue_picture, 1576: the video gives accurate seek up "if KEY_FRAME interval too
\* big", that is when accurate_seek_timeout has passed.
GivesUpWhenTooLong == decoder["video"] = "fail" => timed_out
================================================================================
