------------------------------ MODULE FrameFifo ------------------------------
(***************************************************************************)
(* What a frame queue promises the decoder and the renderer: a bounded     *)
(* first-in first-out buffer.  FrameQueue is shown to implement it.        *)
(***************************************************************************)
EXTENDS Naturals, Sequences

CONSTANTS Capacity,   \* frames the buffer holds, the one on show among them
          Frames      \* the frames are numbered 0..Frames-1, over and over

VARIABLES frame,      \* the frame the decoder produces next
          pending,    \* frames in the buffer that have not been shown
          got         \* the frame the renderer took last; Frames for none

fifoVars == <<frame, pending, got>>

FifoInit == frame = 0 /\ pending = <<>> /\ got = Frames

Push ==
  /\ Len(pending) < Capacity
  /\ pending' = Append(pending, frame)
  /\ frame' = (frame + 1) % Frames
  /\ UNCHANGED got

Take ==
  /\ pending # <<>>
  /\ got' = Head(pending)
  /\ pending' = Tail(pending)
  /\ UNCHANGED frame

FifoSpec == FifoInit /\ [][Push \/ Take]_fifoVars
================================================================================
