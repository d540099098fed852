------------------------------ MODULE FrameQueue ------------------------------
(***************************************************************************)
(* The FrameQueue of ff_ffplay.c between a decoder thread, the one writer, *)
(* and the one reader: the refresh thread, which polls the pictures and    *)
(* subtitles, or the audio callback, which waits.  stream_component_close  *)
(* aborts the packet queue that feeds the decoder, and a stream may be     *)
(* opened again afterwards.                                                *)
(*                                                                         *)
(* A section under f->mutex is one step.  windex, rindex and rindex_shown  *)
(* are written outside it and have steps of their own.                     *)
(***************************************************************************)
EXTENDS Naturals

CONSTANTS
  MaxSize,   \* f->max_size
  Frames     \* frames are numbered 0..Frames-1, over and over

\* stream_open: 3 to 16 pictures, 16 subtitles, 9 samples.
ASSUME FrameQueueAssumption ==
  /\ MaxSize \in Nat /\ MaxSize > 1
  /\ Frames \in Nat /\ Frames > MaxSize

VARIABLES
  stream,         \* which of the three queues of a VideoState this is
  queue,          \* f->queue: the frame in each slot
  rindex, rindex_shown, windex, size,
  abort_request,  \* f->pktq->abort_request
  waiting,        \* the threads asleep on f->cond
  writer, reader, closer,  \* where the three threads are
  frame,          \* the frame the writer puts next
  held,           \* the frame the reader has peeked
  got             \* the frame the reader took last

vars == <<stream, queue, rindex, rindex_shown, windex, size, abort_request, waiting,
          writer, reader, closer, frame, held, got>>

\* stream_open keeps the last frame of the pictures and the samples.
KeepLast == IF stream = "subtitle" THEN 0 ELSE 1

\* The audio callback waits for its frames, the refresh thread never does.
Blocking == stream = "audio"

NoFrame == Frames
Slots == 0 .. MaxSize - 1

\* i % f->max_size, for an index and an offset no larger than max_size.
Wrap(i) == IF i < MaxSize THEN i ELSE i - MaxSize

\* frame_queue_init, and the decoder started.
Init ==
  /\ stream \in {"video", "subtitle", "audio"}
  /\ queue = [s \in Slots |-> NoFrame]
  /\ rindex = 0 /\ rindex_shown = 0 /\ windex = 0 /\ size = 0
  /\ abort_request = FALSE
  /\ waiting = {}
  /\ writer = "decode" /\ reader = "idle" /\ closer = "open"
  /\ frame = 0 /\ held = NoFrame /\ got = NoFrame

\* Mutant of Signal: forgotten.
NoSignal == UNCHANGED waiting

\* SDL_CondSignal wakes one of the threads asleep, if there is one.
Signal ==
  IF waiting = {} THEN UNCHANGED waiting
  ELSE \E t \in waiting : waiting' = waiting \ {t}

\* Mutants of the two tests: an off-by-one, and the kept frame counted as new.
FullLate == size > MaxSize
EmptyOfAny == size = 0

Full == size >= MaxSize
Empty == size <= rindex_shown

ReaderSlot == Wrap(rindex + rindex_shown)

--------------------------------------------------------------------------------
(* The decoder thread.                                                         *)

\* decoder_decode_frame: a frame, or the end of the thread once aborted.
Decode ==
  /\ writer = "decode"
  /\ writer' \in IF abort_request THEN {"exit", "peek"} ELSE {"peek"}
  /\ UNCHANGED <<queue, rindex, rindex_shown, windex, size, abort_request, waiting,
                 reader, closer, frame, held, got>>

\* frame_queue_peek_writable: asleep while there is no room ...
PeekWritable ==
  /\ writer = "peek" /\ "writer" \notin waiting
  /\ IF Full /\ ~abort_request
       THEN waiting' = waiting \cup {"writer"} /\ UNCHANGED writer
       ELSE writer' = "check" /\ UNCHANGED waiting
  /\ UNCHANGED <<queue, rindex, rindex_shown, windex, size, abort_request,
                 reader, closer, frame, held, got>>

\* ... and abort_request once more, outside the mutex.
CheckWritable ==
  /\ writer = "check"
  /\ writer' = IF abort_request THEN "exit" ELSE "fill"
  /\ UNCHANGED <<queue, rindex, rindex_shown, windex, size, abort_request, waiting,
                 reader, closer, frame, held, got>>

\* The caller writes into the slot.
Fill ==
  /\ writer = "fill"
  /\ queue' = [queue EXCEPT ![windex] = frame]
  /\ writer' = "advance"
  /\ UNCHANGED <<rindex, rindex_shown, windex, size, abort_request, waiting,
                 reader, closer, frame, held, got>>

\* frame_queue_push: windex outside the mutex, then size and the signal.
PushIndex ==
  /\ writer = "advance"
  /\ windex' = Wrap(windex + 1)
  /\ writer' = "push"
  /\ UNCHANGED <<queue, rindex, rindex_shown, size, abort_request, waiting,
                 reader, closer, frame, held, got>>

PushSize ==
  /\ writer = "push"
  /\ size' = size + 1
  /\ Signal
  /\ frame' = (frame + 1) % Frames
  /\ writer' = "decode"
  /\ UNCHANGED <<queue, rindex, rindex_shown, windex, abort_request,
                 reader, closer, held, got>>

--------------------------------------------------------------------------------
(* The reader.                                                                 *)

\* frame_queue_nb_remaining and frame_queue_peek, as in video_refresh.
Poll ==
  /\ ~Blocking
  /\ reader = "idle" /\ ~Empty
  /\ held' = queue[ReaderSlot]
  /\ reader' = "peeked"
  /\ UNCHANGED <<queue, rindex, rindex_shown, windex, size, abort_request, waiting,
                 writer, closer, frame, got>>

\* The audio output asks for samples: sdl_audio_callback, audio_decode_frame.
Callback ==
  /\ Blocking
  /\ reader = "idle" /\ closer # "aout"
  /\ reader' = "peek"
  /\ UNCHANGED <<queue, rindex, rindex_shown, windex, size, abort_request, waiting,
                 writer, closer, frame, held, got>>

\* frame_queue_peek_readable: asleep while there is nothing new ...
PeekReadable ==
  /\ reader = "peek" /\ "reader" \notin waiting
  /\ IF Empty /\ ~abort_request
       THEN waiting' = waiting \cup {"reader"} /\ UNCHANGED reader
       ELSE reader' = "check" /\ UNCHANGED waiting
  /\ UNCHANGED <<queue, rindex, rindex_shown, windex, size, abort_request,
                 writer, closer, frame, held, got>>

\* ... and abort_request once more, outside the mutex.
CheckReadable ==
  /\ reader = "check"
  /\ IF abort_request
       THEN reader' = "idle" /\ UNCHANGED held
       ELSE reader' = "peeked" /\ held' = queue[ReaderSlot]
  /\ UNCHANGED <<queue, rindex, rindex_shown, windex, size, abort_request, waiting,
                 writer, closer, frame, got>>

\* frame_queue_next on the first frame of a queue that keeps the last one.
NextShow ==
  /\ reader = "peeked" /\ KeepLast = 1 /\ rindex_shown = 0
  /\ rindex_shown' = 1
  /\ got' = held
  /\ reader' = "idle"
  /\ UNCHANGED <<queue, rindex, windex, size, abort_request, waiting,
                 writer, closer, frame, held>>

\* Mutant of NextIndex: lets go of the frame peeked, not of the one before it.
NextIndexPeeked ==
  /\ reader = "peeked" /\ (KeepLast = 0 \/ rindex_shown = 1)
  /\ queue' = [queue EXCEPT ![ReaderSlot] = NoFrame]
  /\ rindex' = Wrap(rindex + 1)
  /\ got' = held
  /\ reader' = "release"
  /\ UNCHANGED <<rindex_shown, windex, size, abort_request, waiting,
                 writer, closer, frame, held>>

\* Otherwise frame_queue_next lets go of the frame at rindex, outside the mutex,
NextIndex ==
  /\ reader = "peeked" /\ (KeepLast = 0 \/ rindex_shown = 1)
  /\ queue' = [queue EXCEPT ![rindex] = NoFrame]
  /\ rindex' = Wrap(rindex + 1)
  /\ got' = held
  /\ reader' = "release"
  /\ UNCHANGED <<rindex_shown, windex, size, abort_request, waiting,
                 writer, closer, frame, held>>

\* and gives the slot back.
NextSize ==
  /\ reader = "release"
  /\ size' = size - 1
  /\ Signal
  /\ reader' = "idle"
  /\ UNCHANGED <<queue, rindex, rindex_shown, windex, abort_request,
                 writer, closer, frame, held, got>>

--------------------------------------------------------------------------------
(* stream_component_close, and stream_component_open after it.                 *)

\* decoder_abort: packet_queue_abort, ...
Abort ==
  /\ closer = "open"
  /\ abort_request' = TRUE
  /\ closer' = "signal"
  /\ UNCHANGED <<queue, rindex, rindex_shown, windex, size, waiting,
                 writer, reader, frame, held, got>>

\* ... frame_queue_signal, ...
AbortSignal ==
  /\ closer = "signal"
  /\ Signal
  /\ closer' = "join"
  /\ UNCHANGED <<queue, rindex, rindex_shown, windex, size, abort_request,
                 writer, reader, frame, held, got>>

\* ... and SDL_WaitThread on the decoder.
Join ==
  /\ closer = "join"
  /\ writer = "exit"
  /\ closer' = IF Blocking THEN "aout" ELSE "closed"
  /\ UNCHANGED <<queue, rindex, rindex_shown, windex, size, abort_request, waiting,
                 writer, reader, frame, held, got>>

\* SDL_AoutCloseAudio: no further callback, and a wait for one that is running.
JoinAout ==
  /\ closer = "aout"
  /\ reader = "idle"
  /\ closer' = "closed"
  /\ reader' = "closed"
  /\ UNCHANGED <<queue, rindex, rindex_shown, windex, size, abort_request, waiting,
                 writer, frame, held, got>>

\* decoder_start: packet_queue_start and a new decoder thread; the frame queue is
\* left as it was.
Reopen ==
  /\ closer = "closed"
  /\ abort_request' = FALSE
  /\ writer' = "decode"
  /\ reader' = IF Blocking THEN "idle" ELSE reader
  /\ closer' = "open"
  /\ UNCHANGED <<queue, rindex, rindex_shown, windex, size, waiting, frame, held, got>>

--------------------------------------------------------------------------------

Writer == Decode \/ PeekWritable \/ CheckWritable \/ Fill \/ PushIndex \/ PushSize

Reader == Poll \/ Callback \/ PeekReadable \/ CheckReadable \/ NextShow \/ NextIndex \/ NextSize

Closing == AbortSignal \/ Join \/ JoinAout

Next ==
  /\ Writer \/ Reader \/ Abort \/ Closing \/ Reopen
  /\ UNCHANGED stream

\* The threads run.  Nothing says a stream is closed, or opened again, and the
\* reader of a paused player stops between two frames.
Fairness ==
  /\ WF_vars(Writer /\ UNCHANGED stream)
  /\ WF_vars(Closing /\ UNCHANGED stream)
  /\ WF_vars(reader # "idle" /\ Reader /\ UNCHANGED stream)

Spec == Init /\ [][Next]_vars /\ Fairness

--------------------------------------------------------------------------------

TypeOK ==
  /\ stream \in {"video", "subtitle", "audio"}
  /\ queue \in [Slots -> 0..Frames]
  /\ rindex \in Slots /\ windex \in Slots
  /\ rindex_shown \in 0..KeepLast
  /\ size \in 0..MaxSize
  /\ abort_request \in BOOLEAN
  /\ waiting \subseteq {"writer", "reader"}
  /\ writer \in {"decode", "peek", "check", "fill", "advance", "push", "exit"}
  /\ reader \in {"idle", "peek", "check", "peeked", "release", "closed"}
  /\ closer \in {"open", "signal", "join", "aout", "closed"}
  /\ frame \in 0..Frames - 1 /\ held \in 0..Frames /\ got \in 0..Frames

\* The frames in the ring: size, but for a reader that has moved rindex and a
\* writer that has moved windex outside the mutex.
Released == IF reader = "release" THEN 1 ELSE 0
Pushed == IF writer = "push" THEN 1 ELSE 0
Stored == size - Released

\* The slot the decoder writes is never one that holds a frame: neither one the
\* reader still has to show nor the one on show (frame_queue_peek_writable,
\* frame_queue_push and frame_queue_next, which index outside the mutex).
WriterAlone ==
  writer \in {"fill", "advance"} =>
    \A i \in 0 .. Stored - 1 : Wrap(rindex + i) # windex

\* The frame on show stays in its slot after frame_queue_next, while it is
\* displayed again or its samples are played (keep_last, audio_decode_frame).
ShownIsKept == rindex_shown = 1 => queue[rindex] = got

\* A thread asleep has nothing to do, or the wake-up of the abort is still to come:
\* one condition variable and one signal serve the writer, the reader and the abort.
NoLostWakeup ==
  /\ "writer" \in waiting => Full /\ (abort_request => closer = "signal")
  /\ "reader" \in waiting => Empty /\ (abort_request => closer = "signal")

\* decoder_abort and SDL_AoutCloseAudio come back.
AbortFinishes == closer = "signal" ~> closer = "closed"

\* The ring is a bounded FIFO; a frame is taken when frame_queue_next moves on.
Pending ==
  [i \in 1 .. Stored - rindex_shown |-> queue[Wrap(rindex + rindex_shown + i - 1)]]

Fifo == INSTANCE FrameFifo WITH Capacity <- MaxSize, pending <- Pending
IsFifo == Fifo!FifoSpec
================================================================================
