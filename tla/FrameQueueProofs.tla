--------------------------- MODULE FrameQueueProofs ---------------------------
(***************************************************************************)
(* Theorems about FrameQueue for a queue of any size.                      *)
(***************************************************************************)
EXTENDS FrameQueue, SequenceTheorems, TLAPS

\* The three threads in step: who is joined has left, and who sleeps is in its peek.
Threads ==
  /\ abort_request <=> closer # "open"
  /\ closer \in {"aout", "closed"} => writer = "exit"
  /\ closer = "aout" => Blocking
  /\ Blocking /\ closer = "closed" => reader = "closed"
  /\ ~Blocking => reader \notin {"peek", "check", "closed"}
  /\ "writer" \in waiting => writer = "peek"
  /\ "reader" \in waiting => reader = "peek"

\* The indices and the size, at every point between the two writes of an operation.
Ring ==
  /\ windex = Wrap(rindex + Stored + Pushed)
  /\ rindex_shown <= Stored
  /\ writer \in {"fill", "advance", "push"} => size < MaxSize
  /\ writer = "check" => size < MaxSize \/ abort_request
  /\ reader = "peeked" => size > rindex_shown
  /\ reader = "check" => size > rindex_shown \/ abort_request
  /\ reader = "release" => size > rindex_shown /\ rindex_shown = KeepLast

\* The frames the reader has in its hands are in their slots.
Contents ==
  /\ reader = "peeked" => queue[ReaderSlot] = held
  /\ ShownIsKept

IInv == TypeOK /\ Threads /\ Ring /\ Contents /\ NoLostWakeup

LEMMA Bounds ==
  /\ KeepLast \in {0, 1} /\ MaxSize \in Nat /\ MaxSize > KeepLast /\ MaxSize > 0
  /\ Frames \in Nat /\ Frames > 0 /\ Frames > MaxSize
  BY FrameQueueAssumption DEF FrameQueueAssumption, KeepLast

LEMMA FrameRange == \A f \in 0..Frames - 1 : (f + 1) % Frames \in 0..Frames - 1
  BY Bounds

LEMMA WrapRange == \A i \in 0 .. 2 * MaxSize - 1 : Wrap(i) \in Slots
  BY Bounds DEF Wrap, Slots

LEMMA InitIInv == Init => IInv
<1> SUFFICES ASSUME Init PROVE IInv
  OBVIOUS
<1> USE Bounds DEF Init, KeepLast, Blocking
<1>1. TypeOK
  <2>1. 0 \in Slots /\ queue \in [Slots -> 0..Frames]
    BY DEF Slots, NoFrame
  <2>2. /\ held \in 0..Frames /\ got \in 0..Frames /\ frame \in 0..Frames - 1
        /\ rindex_shown \in 0..KeepLast /\ size \in 0..MaxSize
    BY DEF NoFrame
  <2>4. abort_request \in BOOLEAN
    OBVIOUS
  <2>5. waiting \subseteq {"writer", "reader"}
    OBVIOUS
  <2>3. rindex \in Slots /\ windex \in Slots
    BY <2>1
  <2> HIDE DEF Init
  <2> QED
    BY <2>1, <2>2, <2>3, <2>4, <2>5 DEF TypeOK, Init
<1>2. Threads /\ Contents /\ NoLostWakeup
  BY DEF Threads, Contents, NoLostWakeup, ShownIsKept
<1>3. Ring
  BY DEF Ring, Wrap, Stored, Pushed, Released
<1> QED
  BY <1>1, <1>2, <1>3 DEF IInv

LEMMA RingAlone == ASSUME TypeOK, Ring PROVE WriterAlone
  BY Bounds DEF TypeOK, Ring, WriterAlone, Wrap, Stored, Released, Pushed, Slots

LEMMA DecodeKeeps == ASSUME IInv, Decode, UNCHANGED stream PROVE IInv'
<1> USE Bounds DEF KeepLast, Blocking, IInv, Decode
<1>1. TypeOK'
  BY FrameRange DEF TypeOK, Slots, Wrap, Ring, NoFrame
<1>2. Threads'
  BY DEF Threads, TypeOK
<1>3. Ring'
  BY DEF Ring, TypeOK, Threads, Wrap, Stored, Pushed, Released, Slots
<1>4. Contents'
  BY DEF Contents, TypeOK, Ring, ShownIsKept, ReaderSlot, Wrap, Stored, Pushed, Released, Slots
<1>5. NoLostWakeup'
  BY DEF NoLostWakeup, TypeOK, Threads, Ring, Full, Empty
<1> QED
  BY <1>1, <1>2, <1>3, <1>4, <1>5

LEMMA PeekWritableKeeps == ASSUME IInv, PeekWritable, UNCHANGED stream PROVE IInv'
<1> USE Bounds DEF KeepLast, Blocking, IInv, PeekWritable, Full
<1>1. TypeOK'
  BY FrameRange DEF TypeOK, Slots, Wrap, Ring, NoFrame
<1>2. Threads'
  BY DEF Threads, TypeOK
<1>3. Ring'
  BY DEF Ring, TypeOK, Threads, Wrap, Stored, Pushed, Released, Slots
<1>4. Contents'
  BY DEF Contents, TypeOK, Ring, ShownIsKept, ReaderSlot, Wrap, Stored, Pushed, Released, Slots
<1>5. NoLostWakeup'
  BY DEF NoLostWakeup, TypeOK, Threads, Ring, Full, Empty
<1> QED
  BY <1>1, <1>2, <1>3, <1>4, <1>5

LEMMA CheckWritableKeeps == ASSUME IInv, CheckWritable, UNCHANGED stream PROVE IInv'
<1> USE Bounds DEF KeepLast, Blocking, IInv, CheckWritable
<1>1. TypeOK'
  BY FrameRange DEF TypeOK, Slots, Wrap, Ring, NoFrame
<1>2. Threads'
  BY DEF Threads, TypeOK
<1>3. Ring'
  BY DEF Ring, TypeOK, Threads, Wrap, Stored, Pushed, Released, Slots
<1>4. Contents'
  BY DEF Contents, TypeOK, Ring, ShownIsKept, ReaderSlot, Wrap, Stored, Pushed, Released, Slots
<1>5. NoLostWakeup'
  BY DEF NoLostWakeup, TypeOK, Threads, Ring, Full, Empty
<1> QED
  BY <1>1, <1>2, <1>3, <1>4, <1>5

LEMMA FillKeeps == ASSUME IInv, Fill, UNCHANGED stream PROVE IInv'
<1> USE Bounds DEF KeepLast, Blocking, IInv, Fill
<1>1. TypeOK'
  BY FrameRange DEF TypeOK, Slots, Wrap, Ring, NoFrame
<1>2. Threads'
  BY DEF Threads, TypeOK
<1>3. Ring'
  BY DEF Ring, TypeOK, Threads, Wrap, Stored, Pushed, Released, Slots
<1>4. Contents'
  BY DEF Contents, TypeOK, Ring, ShownIsKept, ReaderSlot, Wrap, Stored, Pushed, Released, Slots
<1>5. NoLostWakeup'
  BY DEF NoLostWakeup, TypeOK, Threads, Ring, Full, Empty
<1> QED
  BY <1>1, <1>2, <1>3, <1>4, <1>5

LEMMA PushIndexKeeps == ASSUME IInv, PushIndex, UNCHANGED stream PROVE IInv'
<1> USE Bounds DEF KeepLast, Blocking, IInv, PushIndex
<1>1. TypeOK'
  <2>1. windex' \in Slots
    BY DEF TypeOK, Slots, Wrap
  <2> QED
    BY <2>1 DEF TypeOK
<1>2. Threads'
  BY DEF Threads, TypeOK
<1>3. Ring'
  BY DEF Ring, TypeOK, Threads, Wrap, Stored, Pushed, Released, Slots
<1>4. Contents'
  BY DEF Contents, TypeOK, Ring, ShownIsKept, ReaderSlot, Wrap, Stored, Pushed, Released, Slots
<1>5. NoLostWakeup'
  BY DEF NoLostWakeup, TypeOK, Threads, Ring, Full, Empty
<1> QED
  BY <1>1, <1>2, <1>3, <1>4, <1>5

LEMMA PushSizeKeeps == ASSUME IInv, PushSize, UNCHANGED stream PROVE IInv'
<1> USE Bounds DEF KeepLast, Blocking, IInv, PushSize, Signal
<1>1. TypeOK'
  <2>1. size' \in 0..MaxSize
    BY DEF TypeOK, Ring
  <2>2. frame' \in 0..Frames - 1
    BY FrameRange DEF TypeOK
  <2>3. waiting' \subseteq {"writer", "reader"}
    BY DEF TypeOK
  <2> QED
    BY <2>1, <2>2, <2>3 DEF TypeOK
<1>2. Threads'
  BY DEF Threads, TypeOK
<1>3. Ring'
  BY DEF Ring, TypeOK, Threads, Wrap, Stored, Pushed, Released, Slots
<1>4. Contents'
  BY DEF Contents, TypeOK, Ring, ShownIsKept, ReaderSlot, Wrap, Stored, Pushed, Released, Slots
<1>5. NoLostWakeup'
  BY DEF NoLostWakeup, TypeOK, Threads, Ring, Full, Empty
<1> QED
  BY <1>1, <1>2, <1>3, <1>4, <1>5

LEMMA PollKeeps == ASSUME IInv, Poll, UNCHANGED stream PROVE IInv'
<1> USE Bounds DEF KeepLast, Blocking, IInv, Poll, Empty
<1>1. TypeOK'
  <2>1. ReaderSlot \in Slots
    BY DEF TypeOK, ReaderSlot, Slots, Wrap
  <2>2. held' \in 0..Frames
    BY <2>1 DEF TypeOK
  <2> QED
    BY <2>2 DEF TypeOK
<1>2. Threads'
  BY DEF Threads, TypeOK
<1>3. Ring'
  BY DEF Ring, TypeOK, Threads, Wrap, Stored, Pushed, Released, Slots
<1>4. Contents'
  BY DEF Contents, TypeOK, Ring, ShownIsKept, ReaderSlot, Wrap, Stored, Pushed, Released, Slots
<1>5. NoLostWakeup'
  BY DEF NoLostWakeup, TypeOK, Threads, Ring, Full, Empty
<1> QED
  BY <1>1, <1>2, <1>3, <1>4, <1>5

LEMMA CallbackKeeps == ASSUME IInv, Callback, UNCHANGED stream PROVE IInv'
<1> USE Bounds DEF KeepLast, Blocking, IInv, Callback
<1>1. TypeOK'
  BY FrameRange DEF TypeOK, Slots, Wrap, Ring, NoFrame
<1>2. Threads'
  BY DEF Threads, TypeOK
<1>3. Ring'
  BY DEF Ring, TypeOK, Threads, Wrap, Stored, Pushed, Released, Slots
<1>4. Contents'
  BY DEF Contents, TypeOK, Ring, ShownIsKept, ReaderSlot, Wrap, Stored, Pushed, Released, Slots
<1>5. NoLostWakeup'
  BY DEF NoLostWakeup, TypeOK, Threads, Ring, Full, Empty
<1> QED
  BY <1>1, <1>2, <1>3, <1>4, <1>5

LEMMA PeekReadableKeeps == ASSUME IInv, PeekReadable, UNCHANGED stream PROVE IInv'
<1> USE Bounds DEF KeepLast, Blocking, IInv, PeekReadable, Empty
<1>1. TypeOK'
  BY FrameRange DEF TypeOK, Slots, Wrap, Ring, NoFrame
<1>2. Threads'
  BY DEF Threads, TypeOK
<1>3. Ring'
  BY DEF Ring, TypeOK, Threads, Wrap, Stored, Pushed, Released, Slots
<1>4. Contents'
  BY DEF Contents, TypeOK, Ring, ShownIsKept, ReaderSlot, Wrap, Stored, Pushed, Released, Slots
<1>5. NoLostWakeup'
  BY DEF NoLostWakeup, TypeOK, Threads, Ring, Full, Empty
<1> QED
  BY <1>1, <1>2, <1>3, <1>4, <1>5

LEMMA CheckReadableKeeps == ASSUME IInv, CheckReadable, UNCHANGED stream PROVE IInv'
<1> USE Bounds DEF KeepLast, Blocking, IInv, CheckReadable
<1>1. TypeOK'
  <2>1. ReaderSlot \in Slots
    BY DEF TypeOK, ReaderSlot, Slots, Wrap
  <2>2. held' \in 0..Frames
    BY <2>1 DEF TypeOK
  <2> QED
    BY <2>2 DEF TypeOK
<1>2. Threads'
  BY DEF Threads, TypeOK
<1>3. Ring'
  BY DEF Ring, TypeOK, Threads, Wrap, Stored, Pushed, Released, Slots
<1>4. Contents'
  BY DEF Contents, TypeOK, Ring, ShownIsKept, ReaderSlot, Wrap, Stored, Pushed, Released, Slots
<1>5. NoLostWakeup'
  BY DEF NoLostWakeup, TypeOK, Threads, Ring, Full, Empty
<1> QED
  BY <1>1, <1>2, <1>3, <1>4, <1>5

LEMMA NextShowKeeps == ASSUME IInv, NextShow, UNCHANGED stream PROVE IInv'
<1> USE Bounds DEF KeepLast, Blocking, IInv, NextShow
<1>1. TypeOK'
  BY FrameRange DEF TypeOK, Slots, Wrap, Ring, NoFrame
<1>2. Threads'
  BY DEF Threads, TypeOK
<1>3. Ring'
  BY DEF Ring, TypeOK, Threads, Wrap, Stored, Pushed, Released, Slots
<1>4. Contents'
  BY DEF Contents, TypeOK, Ring, ShownIsKept, ReaderSlot, Wrap, Stored, Pushed, Released, Slots
<1>5. NoLostWakeup'
  BY DEF NoLostWakeup, TypeOK, Threads, Ring, Full, Empty
<1> QED
  BY <1>1, <1>2, <1>3, <1>4, <1>5

LEMMA NextIndexKeeps == ASSUME IInv, NextIndex, UNCHANGED stream PROVE IInv'
<1> USE Bounds DEF KeepLast, Blocking, IInv, NextIndex
<1>1. TypeOK'
  BY FrameRange DEF TypeOK, Slots, Wrap, Ring, NoFrame
<1>2. Threads'
  BY DEF Threads, TypeOK
<1>3. Ring'
  BY DEF Ring, TypeOK, Threads, Wrap, Stored, Pushed, Released, Slots
<1>4. Contents'
  BY DEF Contents, TypeOK, Ring, ShownIsKept, ReaderSlot, Wrap, Stored, Pushed, Released, Slots
<1>5. NoLostWakeup'
  BY DEF NoLostWakeup, TypeOK, Threads, Ring, Full, Empty
<1> QED
  BY <1>1, <1>2, <1>3, <1>4, <1>5

LEMMA NextSizeKeeps == ASSUME IInv, NextSize, UNCHANGED stream PROVE IInv'
<1> USE Bounds DEF KeepLast, Blocking, IInv, NextSize, Signal
<1>1. TypeOK'
  <2>1. size' \in 0..MaxSize
    BY DEF TypeOK, Ring
  <2>2. waiting' \subseteq {"writer", "reader"}
    BY DEF TypeOK
  <2> QED
    BY <2>1, <2>2 DEF TypeOK
<1>2. Threads'
  BY DEF Threads, TypeOK
<1>3. Ring'
  BY DEF Ring, TypeOK, Threads, Wrap, Stored, Pushed, Released, Slots
<1>4. Contents'
  BY DEF Contents, TypeOK, Ring, ShownIsKept, ReaderSlot, Wrap, Stored, Pushed, Released, Slots
<1>5. NoLostWakeup'
  BY DEF NoLostWakeup, TypeOK, Threads, Ring, Full, Empty
<1> QED
  BY <1>1, <1>2, <1>3, <1>4, <1>5

LEMMA AbortKeeps == ASSUME IInv, Abort, UNCHANGED stream PROVE IInv'
<1> USE Bounds DEF KeepLast, Blocking, IInv, Abort
<1>1. TypeOK'
  BY FrameRange DEF TypeOK, Slots, Wrap, Ring, NoFrame
<1>2. Threads'
  BY DEF Threads, TypeOK
<1>3. Ring'
  BY DEF Ring, TypeOK, Threads, Wrap, Stored, Pushed, Released, Slots
<1>4. Contents'
  BY DEF Contents, TypeOK, Ring, ShownIsKept, ReaderSlot, Wrap, Stored, Pushed, Released, Slots
<1>5. NoLostWakeup'
  BY DEF NoLostWakeup, TypeOK, Threads, Ring, Full, Empty
<1> QED
  BY <1>1, <1>2, <1>3, <1>4, <1>5

LEMMA AbortSignalKeeps == ASSUME IInv, AbortSignal, UNCHANGED stream PROVE IInv'
<1> USE Bounds DEF KeepLast, Blocking, IInv, AbortSignal, Signal
<1>1. TypeOK'
  BY FrameRange DEF TypeOK, Slots, Wrap, Ring, NoFrame
<1>2. Threads'
  BY DEF Threads, TypeOK
<1>3. Ring'
  BY DEF Ring, TypeOK, Threads, Wrap, Stored, Pushed, Released, Slots
<1>4. Contents'
  BY DEF Contents, TypeOK, Ring, ShownIsKept, ReaderSlot, Wrap, Stored, Pushed, Released, Slots
<1>5. NoLostWakeup'
  BY DEF NoLostWakeup, TypeOK, Threads, Ring, Full, Empty
<1> QED
  BY <1>1, <1>2, <1>3, <1>4, <1>5

LEMMA JoinKeeps == ASSUME IInv, Join, UNCHANGED stream PROVE IInv'
<1> USE Bounds DEF KeepLast, Blocking, IInv, Join
<1>1. TypeOK'
  BY FrameRange DEF TypeOK, Slots, Wrap, Ring, NoFrame
<1>2. Threads'
  BY DEF Threads, TypeOK
<1>3. Ring'
  BY DEF Ring, TypeOK, Threads, Wrap, Stored, Pushed, Released, Slots
<1>4. Contents'
  BY DEF Contents, TypeOK, Ring, ShownIsKept, ReaderSlot, Wrap, Stored, Pushed, Released, Slots
<1>5. NoLostWakeup'
  BY DEF NoLostWakeup, TypeOK, Threads, Ring, Full, Empty
<1> QED
  BY <1>1, <1>2, <1>3, <1>4, <1>5

LEMMA JoinAoutKeeps == ASSUME IInv, JoinAout, UNCHANGED stream PROVE IInv'
<1> USE Bounds DEF KeepLast, Blocking, IInv, JoinAout
<1>1. TypeOK'
  BY FrameRange DEF TypeOK, Slots, Wrap, Ring, NoFrame
<1>2. Threads'
  BY DEF Threads, TypeOK
<1>3. Ring'
  BY DEF Ring, TypeOK, Threads, Wrap, Stored, Pushed, Released, Slots
<1>4. Contents'
  BY DEF Contents, TypeOK, Ring, ShownIsKept, ReaderSlot, Wrap, Stored, Pushed, Released, Slots
<1>5. NoLostWakeup'
  BY DEF NoLostWakeup, TypeOK, Threads, Ring, Full, Empty
<1> QED
  BY <1>1, <1>2, <1>3, <1>4, <1>5

LEMMA ReopenKeeps == ASSUME IInv, Reopen, UNCHANGED stream PROVE IInv'
<1> USE Bounds DEF KeepLast, Blocking, IInv, Reopen
<1>1. TypeOK'
  BY FrameRange DEF TypeOK, Slots, Wrap, Ring, NoFrame
<1>2. Threads'
  BY DEF Threads, TypeOK
<1>3. Ring'
  BY DEF Ring, TypeOK, Threads, Wrap, Stored, Pushed, Released, Slots
<1>4. Contents'
  BY DEF Contents, TypeOK, Ring, ShownIsKept, ReaderSlot, Wrap, Stored, Pushed, Released, Slots
<1>5. NoLostWakeup'
  BY DEF NoLostWakeup, TypeOK, Threads, Ring, Full, Empty
<1> QED
  BY <1>1, <1>2, <1>3, <1>4, <1>5

LEMMA NextIInv == IInv /\ [Next]_vars => IInv'
<1> SUFFICES ASSUME IInv, [Next]_vars PROVE IInv'
  OBVIOUS
<1>1. CASE Writer /\ UNCHANGED stream
  BY <1>1, DecodeKeeps, PeekWritableKeeps, CheckWritableKeeps, FillKeeps, PushIndexKeeps,
     PushSizeKeeps DEF Writer
<1>2. CASE Reader /\ UNCHANGED stream
  BY <1>2, PollKeeps, CallbackKeeps, PeekReadableKeeps, CheckReadableKeeps, NextShowKeeps,
     NextIndexKeeps, NextSizeKeeps DEF Reader
<1>3. CASE (Abort \/ Closing \/ Reopen) /\ UNCHANGED stream
  BY <1>3, AbortKeeps, AbortSignalKeeps, JoinKeeps, JoinAoutKeeps, ReopenKeeps DEF Closing
<1>4. CASE UNCHANGED vars
  BY <1>4 DEF vars, KeepLast, Blocking, IInv, TypeOK, Threads, Ring, Contents,
     ShownIsKept, NoLostWakeup, Stored, Pushed, Released, ReaderSlot, Full, Empty
<1> QED
  BY <1>1, <1>2, <1>3, <1>4 DEF Next

\* The indices, the frames and the sleepers of the ring stay tied together between the two
\* halves of push and next.
THEOREM Invariant == Spec => []IInv
<1>1. Init => IInv
  BY InitIInv
<1>2. IInv /\ [Next]_vars => IInv'
  BY NextIInv
<1> QED
  BY <1>1, <1>2, PTL DEF Spec

\* The indices stay in the ring and size between 0 and max_size.
THEOREM Typing == Spec => []TypeOK
<1>1. IInv => TypeOK
  BY DEF IInv
<1> QED
  BY <1>1, Invariant, PTL

\* The decoder and the reader never touch the same slot, although windex, rindex and
\* rindex_shown are written without the mutex.
THEOREM SlotExclusion == Spec => []WriterAlone
<1>1. IInv => WriterAlone
  BY RingAlone DEF IInv
<1> QED
  BY <1>1, Invariant, PTL

\* The frame on show outlives frame_queue_next.
THEOREM ShownFrameKept == Spec => []ShownIsKept
<1>1. IInv => ShownIsKept
  BY DEF IInv, Contents
<1> QED
  BY <1>1, Invariant, PTL

\* No wake-up is lost, because a queue that keeps its last frame has room for another:
\* the writer and the reader are never asleep at once.
THEOREM WakeupsArrive == Spec => []NoLostWakeup
<1>1. IInv => NoLostWakeup
  BY DEF IInv
<1> QED
  BY <1>1, Invariant, PTL

--------------------------------------------------------------------------------
(* FrameQueue implements FrameFifo.                                            *)

\* Between the write into the slot and the new size, the writer's frame is in the slot
\* behind the pending ones.
Written ==
  /\ writer = "advance" => queue[windex] = frame
  /\ writer = "push" => queue[Wrap(rindex + Stored)] = frame

FifoInv == IInv /\ Written

\* The frames pending, by their number and by their place.
PendingFrames == Stored - rindex_shown
Place(i) == Wrap(rindex + rindex_shown + i - 1)

LEMMA PendingTypes ==
  ASSUME TypeOK, Ring
  PROVE  /\ Stored \in Nat /\ Stored <= MaxSize /\ PendingFrames \in Nat
         /\ PendingFrames <= Stored
         /\ rindex \in Nat /\ rindex < MaxSize /\ rindex_shown \in {0, 1}
         /\ rindex_shown <= Stored
         /\ \A i \in 1..PendingFrames : Place(i) \in Slots
         /\ \A i \in 1..PendingFrames : queue[Place(i)] \in 0..Frames
<1> USE Bounds
<1>1. /\ Stored \in Nat /\ Stored <= MaxSize /\ PendingFrames \in Nat
      /\ PendingFrames <= Stored
      /\ rindex \in Nat /\ rindex < MaxSize /\ rindex_shown \in {0, 1}
      /\ rindex_shown <= Stored
  BY DEF TypeOK, Ring, Stored, Released, PendingFrames, Slots
<1>2. ASSUME NEW i \in 1..PendingFrames PROVE Place(i) \in Slots
  BY <1>1 DEF Place, Wrap, Slots, PendingFrames
<1> QED
  BY <1>1, <1>2 DEF TypeOK

PendingIsInTheRing ==
  /\ Pending \in Seq(0..Frames) /\ Len(Pending) = PendingFrames
  /\ \A i \in 1..PendingFrames : Pending[i] = queue[Place(i)]

LEMMA PendingSeq == TypeOK /\ Ring => PendingIsInTheRing
<1> SUFFICES ASSUME TypeOK, Ring PROVE PendingIsInTheRing
  OBVIOUS
<1>1. Pending = [i \in 1..PendingFrames |-> queue[Place(i)]]
  BY DEF Pending, Place, PendingFrames
<1>2. PendingFrames \in Nat /\ \A i \in 1..PendingFrames : queue[Place(i)] \in 0..Frames
  BY PendingTypes
<1> QED
  BY <1>1, <1>2, IsASeq DEF PendingIsInTheRing

\* The same after a step.
LEMMA PendingSeqNext == TypeOK' /\ Ring' => PendingIsInTheRing'
  BY PendingSeq, PTL

\* What pushes a frame: one more, the old ones where they were.
LEMMA Appended ==
  ASSUME NEW S, NEW s \in Seq(S), NEW t \in Seq(S), NEW e \in S,
         Len(t) = Len(s) + 1, t[Len(t)] = e,
         \A i \in 1..Len(s) : t[i] = s[i]
  PROVE  t = Append(s, e)
<1>1. /\ Append(s, e) \in Seq(S) /\ Len(Append(s, e)) = Len(s) + 1
      /\ \A i \in 1..Len(s) : Append(s, e)[i] = s[i]
      /\ Append(s, e)[Len(s) + 1] = e
  BY AppendProperties
<1>2. \A i \in 1..Len(t) : t[i] = Append(s, e)[i]
  BY <1>1, LenProperties
<1> QED
  BY <1>1, <1>2, SeqEqual

\* What takes one: the first is gone, the others have moved up.
LEMMA Taken ==
  ASSUME NEW S, NEW s \in Seq(S), NEW t \in Seq(S), Len(s) > 0,
         Len(t) = Len(s) - 1, \A i \in 1..Len(t) : t[i] = s[i + 1]
  PROVE  s # <<>> /\ Head(s) = s[1] /\ t = Tail(s)
<1>1. s # <<>>
  BY EmptySeq
<1>2. /\ Head(s) = s[1] /\ Tail(s) \in Seq(S) /\ Len(Tail(s)) = Len(s) - 1
      /\ \A i \in 1..Len(Tail(s)) : Tail(s)[i] = s[i + 1]
  BY <1>1, HeadTailProperties
<1> QED
  BY <1>1, <1>2, SeqEqual

\* A step that leaves every pending frame in its slot is none of the FIFO's.
LEMMA PendingKept ==
  ASSUME TypeOK, Ring, TypeOK', Ring',
         PendingFrames' = PendingFrames,
         \A i \in 1..PendingFrames : queue'[Place(i)'] = queue[Place(i)]
  PROVE  Pending' = Pending
<1>1. /\ Pending \in Seq(0..Frames) /\ Len(Pending) = PendingFrames
      /\ \A i \in 1..PendingFrames : Pending[i] = queue[Place(i)]
  BY PendingSeq DEF PendingIsInTheRing
<1>2. /\ Pending' \in Seq(0..Frames) /\ Len(Pending') = PendingFrames
      /\ \A i \in 1..PendingFrames : Pending'[i] = queue'[Place(i)']
  BY PendingSeqNext DEF PendingIsInTheRing
<1> QED
  BY <1>1, <1>2, SeqEqual

LEMMA InitWritten == Init => Written
  BY DEF Init, Written

LEMMA NextWritten == FifoInv /\ [Next]_vars => Written'
<1> SUFFICES ASSUME IInv, Written, [Next]_vars PROVE Written'
  BY DEF FifoInv
<1> USE Bounds DEF Written
<1>1. /\ rindex \in Nat /\ rindex < MaxSize /\ windex \in Nat /\ windex < MaxSize
      /\ size \in Nat /\ size <= MaxSize /\ Stored \in Nat /\ Stored <= size
      /\ queue \in [Slots -> 0..Frames]
      /\ windex = Wrap(rindex + Stored + Pushed)
  BY DEF IInv, TypeOK, Ring, Stored, Released, Slots
<1>2. CASE Fill
  BY <1>1, <1>2 DEF Fill, Slots
<1>3. CASE PushIndex
  <2>1. Stored' = Stored /\ windex = Wrap(rindex + Stored)
    BY <1>1, <1>3 DEF PushIndex, Stored, Released, Pushed
  <2> QED
    BY <2>1, <1>3 DEF PushIndex, Wrap
<1>4. CASE PushSize
  BY <1>4 DEF PushSize
<1>5. CASE NextIndex
  <2>1. Stored > 0 /\ Stored' = Stored - 1 /\ reader = "peeked"
    BY <1>1, <1>5 DEF NextIndex, IInv, TypeOK, Ring, Stored, Released, KeepLast
  <2>2. writer \in {"advance", "push"} => size < MaxSize
    BY DEF IInv, Ring
  <2>3. ASSUME writer = "advance" PROVE windex # rindex
    BY <1>1, <2>1, <2>2, <2>3 DEF Wrap, Pushed
  <2>4. ASSUME writer = "push"
        PROVE  Wrap(rindex + Stored) # rindex /\ Wrap(rindex + Stored) \in Slots
    BY <1>1, <2>1, <2>2, <2>4 DEF Wrap, Slots
  <2>5. Wrap(rindex' + Stored') = Wrap(rindex + Stored)
    BY <1>1, <1>5, <2>1, <2>4 DEF NextIndex, Wrap
  <2>6. windex \in Slots
    BY <1>1 DEF Slots
  <2> QED
    BY <1>1, <1>5, <2>3, <2>4, <2>5, <2>6 DEF NextIndex, Wrap
<1>6. CASE NextSize
  <2>1. Stored' = Stored
    BY <1>6 DEF NextSize, Stored, Released, IInv, TypeOK
  <2> QED
    BY <1>6, <2>1 DEF NextSize, Wrap
<1>7. CASE Decode \/ PeekWritable \/ CheckWritable \/ Join \/ Reopen
  BY <1>7 DEF Decode, PeekWritable, CheckWritable, Join, Reopen, Wrap, Stored, Released
<1>8. CASE \/ Poll \/ Callback \/ PeekReadable \/ CheckReadable \/ NextShow
           \/ Abort \/ AbortSignal \/ JoinAout \/ UNCHANGED vars
  BY <1>8 DEF Poll, Callback, PeekReadable, CheckReadable, NextShow, Abort, AbortSignal,
     JoinAout, vars, Wrap, Stored, Released
<1> QED
  BY <1>2, <1>3, <1>4, <1>5, <1>6, <1>7, <1>8 DEF Next, Writer, Reader, Closing

\* frame_queue_push ends in a push.
LEMMA PushPushes ==
  ASSUME FifoInv, IInv', PushSize PROVE Fifo!Push
<1> USE Bounds DEF FifoInv
<1>1. /\ rindex \in Nat /\ rindex < MaxSize /\ size \in Nat /\ size < MaxSize
      /\ Stored \in Nat /\ Stored <= size /\ PendingFrames \in Nat
      /\ PendingFrames <= Stored /\ rindex_shown \in {0, 1}
      /\ PendingFrames = Stored - rindex_shown
  BY PendingTypes DEF IInv, TypeOK, Ring, Stored, Released, PendingFrames, PushSize
<1>2. Stored' = Stored + 1 /\ PendingFrames' = PendingFrames + 1 /\ frame \in 0..Frames
  BY <1>1 DEF PushSize, Stored, Released, PendingFrames, IInv, TypeOK
<1>3. /\ Pending \in Seq(0..Frames) /\ Len(Pending) = PendingFrames
      /\ \A i \in 1..PendingFrames : Pending[i] = queue[Place(i)]
  BY PendingSeq DEF IInv, PendingIsInTheRing
<1>4. /\ Pending' \in Seq(0..Frames) /\ Len(Pending') = PendingFrames + 1
      /\ \A i \in 1..PendingFrames + 1 : Pending'[i] = queue[Place(i)]
  BY <1>2, PendingSeqNext DEF IInv, PendingIsInTheRing, PushSize, Place
<1>5. queue[Place(PendingFrames + 1)] = frame
  BY <1>1 DEF Written, PushSize, Place
<1>6. Pending' = Append(Pending, frame)
  BY <1>1, <1>2, <1>3, <1>4, <1>5, Appended
<1> QED
  BY <1>1, <1>3, <1>6 DEF Fifo!Push, PushSize

\* frame_queue_next takes the frame that was peeked, when it shows the first of a queue
\* that keeps the last one,
LEMMA ShowTakes ==
  ASSUME FifoInv, IInv', NextShow PROVE Fifo!Take
<1> USE Bounds DEF FifoInv
<1>1. /\ rindex \in Nat /\ rindex < MaxSize /\ Stored \in Nat
      /\ PendingFrames \in Nat /\ PendingFrames > 0
  BY PendingTypes DEF IInv, TypeOK, Ring, Stored, Released, PendingFrames, NextShow
<1>2. Stored' = Stored /\ PendingFrames' = PendingFrames - 1
  BY <1>1 DEF NextShow, Stored, Released, PendingFrames
<1>3. /\ Pending \in Seq(0..Frames) /\ Len(Pending) = PendingFrames
      /\ \A i \in 1..PendingFrames : Pending[i] = queue[Place(i)]
  BY PendingSeq DEF IInv, PendingIsInTheRing
<1>4. /\ Pending' \in Seq(0..Frames) /\ Len(Pending') = PendingFrames - 1
      /\ \A i \in 1..PendingFrames - 1 : Pending'[i] = queue'[Place(i)']
  BY <1>2, PendingSeqNext DEF IInv, PendingIsInTheRing
<1>5. \A i \in 1..PendingFrames - 1 : queue'[Place(i)'] = queue[Place(i + 1)]
  BY <1>1 DEF NextShow, Place
<1>6. queue[Place(1)] = held
  BY <1>1 DEF IInv, Contents, NextShow, ReaderSlot, Place
<1>7. Pending # <<>> /\ Head(Pending) = held /\ Pending' = Tail(Pending)
  <2>1. /\ Len(Pending) > 0 /\ Len(Pending') = Len(Pending) - 1
        /\ \A i \in 1..Len(Pending') : Pending'[i] = Pending[i + 1]
    <3>1. ASSUME NEW i \in 1..PendingFrames - 1 PROVE Pending'[i] = Pending[i + 1]
      <4>1. Pending'[i] = queue[Place(i + 1)] /\ i + 1 \in 1..PendingFrames
        BY <1>1, <1>4, <1>5
      <4> QED
        BY <1>3, <4>1
    <3> QED
      BY <1>1, <1>3, <1>4, <3>1
  <2>2. Pending[1] = held
    BY <1>1, <1>3, <1>6
  <2> QED
    BY <1>3, <1>4, <2>1, <2>2, Taken
<1> QED
  BY <1>7 DEF Fifo!Take, NextShow

\* and otherwise when it lets go of the slot before it gives it back.
LEMMA NextTakes ==
  ASSUME FifoInv, IInv', NextIndex PROVE Fifo!Take
<1> USE Bounds DEF FifoInv
<1>1. /\ rindex \in Nat /\ rindex < MaxSize /\ Stored \in Nat /\ Stored <= MaxSize
      /\ PendingFrames \in Nat /\ PendingFrames > 0 /\ rindex_shown \in {0, 1}
      /\ PendingFrames = Stored - rindex_shown
  BY PendingTypes DEF IInv, TypeOK, Ring, Stored, Released, PendingFrames, NextIndex
<1>2. Stored' = Stored - 1 /\ PendingFrames' = PendingFrames - 1
  BY <1>1 DEF NextIndex, Stored, Released, PendingFrames, IInv, TypeOK
<1>3. /\ Pending \in Seq(0..Frames) /\ Len(Pending) = PendingFrames
      /\ \A i \in 1..PendingFrames : Pending[i] = queue[Place(i)]
  BY PendingSeq DEF IInv, PendingIsInTheRing
<1>4. /\ Pending' \in Seq(0..Frames) /\ Len(Pending') = PendingFrames - 1
      /\ \A i \in 1..PendingFrames - 1 : Pending'[i] = queue'[Place(i)']
  BY <1>2, PendingSeqNext DEF IInv, PendingIsInTheRing
<1>5. ASSUME NEW i \in 1..PendingFrames - 1
      PROVE  Place(i)' = Place(i + 1) /\ Place(i + 1) # rindex /\ Place(i + 1) \in Slots
  BY <1>1 DEF NextIndex, Place, Wrap, Slots
<1>6. \A i \in 1..PendingFrames - 1 : queue'[Place(i)'] = queue[Place(i + 1)]
  BY <1>5 DEF NextIndex, IInv, TypeOK
<1>7. queue[Place(1)] = held
  BY <1>1 DEF IInv, Contents, NextIndex, ReaderSlot, Place
<1>8. Pending # <<>> /\ Head(Pending) = held /\ Pending' = Tail(Pending)
  <2>1. /\ Len(Pending) > 0 /\ Len(Pending') = Len(Pending) - 1
        /\ \A i \in 1..Len(Pending') : Pending'[i] = Pending[i + 1]
    <3>1. ASSUME NEW i \in 1..PendingFrames - 1 PROVE Pending'[i] = Pending[i + 1]
      <4>1. Pending'[i] = queue[Place(i + 1)] /\ i + 1 \in 1..PendingFrames
        BY <1>1, <1>4, <1>6
      <4> QED
        BY <1>3, <4>1
    <3> QED
      BY <1>1, <1>3, <1>4, <3>1
  <2>2. Pending[1] = held
    BY <1>1, <1>3, <1>7
  <2> QED
    BY <1>3, <1>4, <2>1, <2>2, Taken
<1> QED
  BY <1>8 DEF Fifo!Take, NextIndex

\* The decoder writes into a slot that is none of the pending ones.
LEMMA FillStutters ==
  ASSUME FifoInv, IInv', Fill PROVE UNCHANGED Fifo!fifoVars
<1> USE Bounds DEF FifoInv
<1>1. /\ PendingFrames \in Nat /\ rindex_shown \in {0, 1}
      /\ PendingFrames = Stored - rindex_shown /\ Stored \in Nat /\ rindex \in Nat
  BY PendingTypes DEF IInv, PendingFrames
<1>2. \A i \in 0..Stored - 1 : Wrap(rindex + i) # windex
  BY RingAlone DEF IInv, WriterAlone, Fill
<1>3. ASSUME NEW i \in 1..PendingFrames PROVE Place(i) # windex /\ Place(i) \in Slots
  <2>1. /\ rindex_shown + i - 1 \in 0..Stored - 1
        /\ rindex + rindex_shown + i - 1 = rindex + (rindex_shown + i - 1)
    BY <1>1
  <2> QED
    BY <1>2, <2>1, PendingTypes DEF Place, IInv
<1>4. PendingFrames' = PendingFrames
  BY DEF Fill, PendingFrames, Stored, Released
<1>5. \A i \in 1..PendingFrames : queue'[Place(i)'] = queue[Place(i)]
  BY <1>3 DEF Fill, Place, Wrap, IInv, TypeOK
<1>6. Pending' = Pending
  BY <1>4, <1>5, PendingKept DEF IInv
<1> QED
  BY <1>6 DEF Fifo!fifoVars, Fill

\* NextSize gives the slot back that NextIndex left.
LEMMA ReleaseStutters ==
  ASSUME FifoInv, IInv', NextSize PROVE UNCHANGED Fifo!fifoVars
<1>1. Stored' = Stored
  BY DEF FifoInv, IInv, TypeOK, NextSize, Stored, Released
<1> QED
  BY <1>1 DEF Fifo!fifoVars, Pending, Wrap, NextSize

\* No other step touches the ring.
LEMMA OthersStutter ==
  ASSUME FifoInv,
         \/ Decode \/ PeekWritable \/ CheckWritable \/ PushIndex
         \/ Poll \/ Callback \/ PeekReadable \/ CheckReadable
         \/ Abort \/ AbortSignal \/ Join \/ JoinAout \/ Reopen
         \/ UNCHANGED vars
  PROVE  UNCHANGED Fifo!fifoVars
<1>1. UNCHANGED <<queue, rindex, rindex_shown, size, frame, got>>
  BY DEF Decode, PeekWritable, CheckWritable, PushIndex, Poll, Callback, PeekReadable,
     CheckReadable, Abort, AbortSignal, Join, JoinAout, Reopen, vars
<1>2. UNCHANGED Released
  <2>1. CASE Decode \/ PeekWritable \/ CheckWritable \/ PushIndex \/ Abort \/ AbortSignal \/ Join
             \/ UNCHANGED vars
    BY <2>1 DEF Decode, PeekWritable, CheckWritable, PushIndex, Abort, AbortSignal, Join, vars,
       Released
  <2>2. CASE Poll \/ Callback \/ PeekReadable \/ CheckReadable \/ JoinAout
    BY <2>2 DEF Poll, Callback, PeekReadable, CheckReadable, JoinAout, Released
  <2>3. CASE Reopen
    BY <2>3 DEF Reopen, FifoInv, IInv, Threads, Released
  <2> QED
    BY <2>1, <2>2, <2>3
<1> QED
  BY <1>1, <1>2 DEF Fifo!fifoVars, Pending, Stored, Wrap

LEMMA InitMaps == Init => Fifo!FifoInit
<1> SUFFICES ASSUME Init PROVE Fifo!FifoInit
  OBVIOUS
<1>1. Stored = 0 /\ rindex_shown = 0
  BY DEF Init, Stored, Released
<1>2. Pending = <<>>
  BY <1>1 DEF Pending
<1> QED
  BY <1>2 DEF Init, Fifo!FifoInit, NoFrame

LEMMA StepMaps ==
  FifoInv /\ IInv' /\ [Next]_vars => [Fifo!Push \/ Fifo!Take]_(Fifo!fifoVars)
<1> SUFFICES ASSUME FifoInv, IInv', [Next]_vars
             PROVE  Fifo!Push \/ Fifo!Take \/ UNCHANGED Fifo!fifoVars
  OBVIOUS
<1> QED
  BY PushPushes, ShowTakes, NextTakes, FillStutters, ReleaseStutters, OthersStutter
  DEF Next, Writer, Reader, Closing

\* The ring with its kept frame, its two half-done operations and its aborts is a bounded
\* first-in first-out buffer, for every size.
THEOREM Implements == Spec => IsFifo
<1>1. Init => FifoInv /\ Fifo!FifoInit
  BY InitIInv, InitWritten, InitMaps DEF FifoInv
<1>2. FifoInv /\ [Next]_vars => FifoInv'
  BY NextIInv, NextWritten DEF FifoInv
<1>3. FifoInv /\ FifoInv' /\ [Next]_vars => [Fifo!Push \/ Fifo!Take]_(Fifo!fifoVars)
  BY StepMaps DEF FifoInv
<1> QED
  BY <1>1, <1>2, <1>3, PTL DEF Spec, IsFifo, Fifo!FifoSpec
================================================================================
