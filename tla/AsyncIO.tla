------------------------------- MODULE AsyncIO -------------------------------
(***************************************************************************)
(* The "async:" protocol of ijkasync.c: one caller reads and seeks, and a  *)
(* background thread reads the inner protocol ahead of it into a ring that *)
(* also keeps the last bytes read.  One mutex, a condition variable for    *)
(* each of the two threads.                                                *)
(*                                                                         *)
(* A section under c->mutex is one step, an inner read into the ring,      *)
(* which runs without the mutex, another.  A byte is its offset.           *)
(***************************************************************************)
EXTENDS Integers, Sequences

CONSTANTS
  FileSize,       \* the length of the inner file
  Forwards,       \* forwards_capacity
  Backwards,      \* backwards_capacity, the ring's read_back_capacity
  Chunk,          \* the 4096 bytes of one inner read
  ShortSeek,      \* SHORT_SEEK_THRESHOLD
  MaxRead         \* the bound on what the caller asks for

ASSUME AsyncIOAssumption ==
  /\ FileSize \in Nat \ {0} /\ Forwards \in Nat \ {0} /\ Backwards \in Nat
  /\ Chunk \in Nat \ {0} /\ ShortSeek \in Nat /\ MaxRead \in Nat \ {0}

VARIABLES
  fifo, read_pos,   \* ring.fifo and ring.read_pos
  logical_pos, logical_size,
  io_eof_reached, io_error,
  seek_request, seek_pos, seek_completed, seek_ret,
  abort_request,    \* c->abort_request, or the caller's interrupt callback
  inner_pos,        \* where the inner protocol stands
  buffer_task,      \* where the background thread is
  to_copy,          \* the room it found before it let go of the mutex
  wrote, inner_io_error,  \* what the inner read came to
  caller,           \* where the calling thread is
  to_read,          \* what is left of its read, or of its skip
  target,           \* the new_logical_pos of its seek
  asleep,           \* the threads in pthread_cond_wait
  position, answer  \* what the calls add up to for the caller: see FileReader

ring == <<fifo, read_pos>>
seeking == <<seek_request, seek_pos, seek_completed, seek_ret>>
inner == <<inner_pos, to_copy, wrote, inner_io_error>>
callVars == <<caller, to_read, target, position, answer>>
vars == <<ring, logical_pos, logical_size, io_eof_reached, io_error, seeking,
          abort_request, inner, buffer_task, callVars, asleep>>

Reader == INSTANCE FileReader

Failed == -1   \* a negative return value
Capacity == Forwards + Backwards

RingSize == Len(fifo) - read_pos
RingSpace == Capacity - Len(fifo)

Least(a, b) == IF a < b THEN a ELSE b

\* ring_reset
ResetRing == fifo' = <<>> /\ read_pos' = 0

\* Mutant of ReadRing: the bytes to look back to are one too many.
ReadRingKeepsOneMore(n) ==
  LET drained == IF read_pos + n > Backwards + 1 THEN read_pos + n - Backwards - 1 ELSE 0
  IN /\ fifo' = SubSeq(fifo, drained + 1, Len(fifo))
     /\ read_pos' = read_pos + n - drained

\* ring_generic_read: n bytes are read and all but the last Backwards dropped.
ReadRing(n) ==
  LET drained == IF read_pos + n > Backwards THEN read_pos + n - Backwards ELSE 0
  IN /\ fifo' = SubSeq(fifo, drained + 1, Len(fifo))
     /\ read_pos' = read_pos + n - drained

\* pthread_cond_signal on cond_wakeup_main or cond_wakeup_background, each with
\* one thread that ever waits on it.
Wake(thread) == asleep' = asleep \ {thread}

\* ... by a thread that then waits on its own condition.
WakeAndSleep(thread, self) == asleep' = (asleep \ {thread}) \cup {self}

\* Mutant of WakeFiller: forgotten, as if the loop's signal sufficed.
WakeNobody == UNCHANGED asleep

WakeFiller == Wake("buffer_task")

--------------------------------------------------------------------------------
(* The caller.                                                                 *)

\* async_open: the fields of a new Context, and the background thread.
Init ==
  /\ fifo = <<>> /\ read_pos = 0
  /\ logical_pos = 0 /\ logical_size \in {0, FileSize}
  /\ io_eof_reached = FALSE /\ io_error = "none"
  /\ seek_request = FALSE /\ seek_pos = 0 /\ seek_completed = FALSE /\ seek_ret = 0
  /\ abort_request = FALSE
  /\ inner_pos = 0 /\ buffer_task = "loop"
  /\ to_copy = 0 /\ wrote = 0 /\ inner_io_error = "none"
  /\ caller = "idle" /\ to_read = 0 /\ target = 0
  /\ asleep = {}
  /\ Reader!ReaderInit

Answer(kind, bytes) ==
  /\ answer' = [kind |-> kind, bytes |-> bytes]
  /\ caller' = "idle" /\ to_read' = 0 /\ target' = 0

\* async_seek answers with a position, and avio_seek takes it for the one it asked
\* for.
Moved(pos) == Answer("moved", <<>>) /\ position' = pos

\* async_read
Read(n) ==
  /\ caller = "idle"
  /\ caller' = "read" /\ to_read' = n
  /\ UNCHANGED <<ring, logical_pos, logical_size, io_eof_reached, io_error, seeking,
                 abort_request, inner, buffer_task, target, position, answer, asleep>>

\* async_read_internal, with the mutex: for a read, which takes what is there, and
\* for a fast seek forwards, which drops all there is up to its target and then
\* answers with a position whatever became of it.
Reading == caller \in {"read", "skip"} /\ "caller" \notin asleep

Readable == Least(to_read, RingSize)

Return(kind, bytes) ==
  IF caller = "skip" THEN Moved(target)
  ELSE Answer(kind, bytes) /\ position' = position + Len(bytes)

\* The call was interrupted,
ReadInterrupted ==
  /\ Reading /\ abort_request
  /\ Return("error", <<>>)
  /\ WakeFiller
  /\ UNCHANGED <<ring, logical_pos, logical_size, io_eof_reached, io_error, seeking,
                 abort_request, inner, buffer_task>>

TakeReadable ==
  /\ Readable > 0
  /\ ReadRing(Readable)
  /\ logical_pos' = logical_pos + Readable

\* or it has what it needs,
ReadBytes ==
  /\ Reading /\ ~abort_request
  /\ caller = "read" \/ Readable = to_read
  /\ TakeReadable
  /\ Return("data", SubSeq(fifo, read_pos + 1, read_pos + Readable))
  /\ WakeFiller
  /\ UNCHANGED <<logical_size, io_eof_reached, io_error, seeking, abort_request, inner,
                 buffer_task>>

\* or there will be no more,
ReadEnd ==
  /\ Reading /\ ~abort_request
  /\ Readable = 0 /\ io_eof_reached
  /\ Return(IF io_error = "none" THEN "eof" ELSE "error", <<>>)
  /\ WakeFiller
  /\ UNCHANGED <<ring, logical_pos, logical_size, io_eof_reached, io_error, seeking,
                 abort_request, inner, buffer_task>>

\* or it waits, with nothing yet or with a part of what it is to drop.
ReadWait ==
  /\ Reading /\ ~abort_request
  /\ \/ /\ Readable = 0 /\ ~io_eof_reached
        /\ UNCHANGED <<ring, logical_pos, to_read>>
     \/ /\ caller = "skip" /\ Readable < to_read
        /\ TakeReadable /\ to_read' = to_read - Readable
  /\ WakeAndSleep("buffer_task", "caller")
  /\ UNCHANGED <<logical_size, io_eof_reached, io_error, seeking, abort_request, inner,
                 buffer_task, caller, target, position, answer>>

--------------------------------------------------------------------------------
(* async_seek, whose tests read the sizes without the mutex.                   *)

SeekHere ==
  /\ caller = "idle"
  /\ Moved(logical_pos)
  /\ UNCHANGED <<ring, logical_pos, logical_size, io_eof_reached, io_error, seeking,
                 abort_request, inner, buffer_task, asleep>>

InReach(pos) == pos >= logical_pos - read_pos /\ pos < logical_pos + RingSize + ShortSeek

\* The fast seek backwards: ring_drain, as built by default, without its two
\* av_assert2.  The first holds by InReach; the second, DrainAssertion below, fails
\* for a seek that goes back by fewer bytes than are ahead.
SeekBack(pos) ==
  /\ caller = "idle"
  /\ InReach(pos) /\ pos < logical_pos
  /\ read_pos' = read_pos + (pos - logical_pos)
  /\ logical_pos' = pos
  /\ Moved(pos)
  /\ UNCHANGED <<fifo, logical_size, io_eof_reached, io_error, seeking, abort_request,
                 inner, buffer_task, asleep>>

\* The fast seek forwards: async_read_internal.
SeekAhead(pos) ==
  /\ caller = "idle"
  /\ InReach(pos) /\ pos > logical_pos
  /\ caller' = "skip" /\ to_read' = pos - logical_pos /\ target' = pos
  /\ UNCHANGED <<ring, logical_pos, logical_size, io_eof_reached, io_error, seeking,
                 abort_request, inner, buffer_task, position, answer, asleep>>

\* The inner protocol cannot seek, or not there.
SeekRefused(pos) ==
  /\ caller = "idle"
  /\ ~InReach(pos) /\ pos # logical_pos
  /\ logical_size <= 0 \/ pos > logical_size
  /\ Answer("error", <<>>)
  /\ UNCHANGED <<ring, logical_pos, logical_size, io_eof_reached, io_error, seeking,
                 abort_request, inner, buffer_task, position, asleep>>

SeekSlow(pos) ==
  /\ caller = "idle"
  /\ ~InReach(pos) /\ pos # logical_pos
  /\ logical_size > 0 /\ pos <= logical_size
  /\ caller' = "seek" /\ target' = pos
  /\ UNCHANGED <<ring, logical_pos, logical_size, io_eof_reached, io_error, seeking,
                 abort_request, inner, buffer_task, to_read, position, answer, asleep>>

Seek(pos) == SeekBack(pos) \/ SeekAhead(pos) \/ SeekRefused(pos) \/ SeekSlow(pos)

\* The slow seek is handed to the background thread, ...
RequestSeek ==
  /\ caller = "seek"
  /\ seek_request' = TRUE /\ seek_pos' = target
  /\ seek_completed' = FALSE /\ seek_ret' = 0
  /\ IF abort_request
       THEN Answer("error", <<>>) /\ UNCHANGED asleep
       ELSE /\ caller' = "await" /\ UNCHANGED <<to_read, target, answer>>
            /\ WakeAndSleep("buffer_task", "caller")
  /\ UNCHANGED <<ring, logical_pos, logical_size, io_eof_reached, io_error,
                 abort_request, inner, buffer_task, position>>

\* ... and every time the caller wakes up it looks for the outcome.
AwaitSeek ==
  /\ caller = "await" /\ "caller" \notin asleep
  /\ CASE abort_request ->
            Answer("error", <<>>) /\ UNCHANGED <<logical_pos, position, asleep>>
       [] ~abort_request /\ seek_completed /\ seek_ret >= 0 ->
            Moved(target) /\ logical_pos' = seek_ret /\ UNCHANGED asleep
       [] ~abort_request /\ seek_completed /\ seek_ret < 0 ->
            Answer("error", <<>>) /\ UNCHANGED <<logical_pos, position, asleep>>
       [] OTHER ->
            /\ WakeAndSleep("buffer_task", "caller")
            /\ UNCHANGED <<logical_pos, callVars>>
  /\ UNCHANGED <<ring, logical_size, io_eof_reached, io_error, seeking, abort_request,
                 inner, buffer_task>>

--------------------------------------------------------------------------------
(* async_close, and the caller's interrupt callback.                           *)

Close ==
  /\ caller = "idle"
  /\ abort_request' = TRUE
  /\ WakeFiller
  /\ caller' = "closing"
  /\ UNCHANGED <<ring, logical_pos, logical_size, io_eof_reached, io_error, seeking,
                 inner, buffer_task, to_read, target, position, answer>>

\* pthread_join, and the Context is freed: the next async_open has a new one.
Join ==
  /\ caller = "closing" /\ buffer_task = "exit"
  /\ ResetRing
  /\ logical_pos' = 0 /\ logical_size' \in {0, FileSize}
  /\ io_eof_reached' = FALSE /\ io_error' = "none"
  /\ seek_request' = FALSE /\ seek_pos' = 0 /\ seek_completed' = FALSE /\ seek_ret' = 0
  /\ abort_request' = FALSE
  /\ inner_pos' = 0 /\ buffer_task' = "loop"
  /\ to_copy' = 0 /\ wrote' = 0 /\ inner_io_error' = "none"
  /\ caller' = "idle" /\ to_read' = 0 /\ target' = 0
  /\ asleep' = {}
  /\ Reader!Restart

\* ff_check_interrupt: set once, for good (decode_interrupt_cb: is->abort_request).
Interrupt ==
  /\ ~abort_request
  /\ abort_request' = TRUE
  /\ UNCHANGED <<ring, logical_pos, logical_size, io_eof_reached, io_error, seeking,
                 inner, buffer_task, callVars, asleep>>

--------------------------------------------------------------------------------
(* async_buffer_task.                                                          *)

Awake == buffer_task = "loop" /\ "buffer_task" \notin asleep

Exit ==
  /\ Awake /\ abort_request
  /\ io_eof_reached' = TRUE /\ io_error' = "exit"
  /\ Wake("caller")
  /\ buffer_task' = "exit"
  /\ UNCHANGED <<ring, logical_pos, logical_size, seeking, abort_request, inner,
                 callVars>>

\* Mutant of SeekInner: the end and the error of the old position are kept.
SeekInnerKeepsEnd ==
  /\ Awake /\ ~abort_request /\ seek_request
  /\ \/ /\ seek_ret' = seek_pos /\ inner_pos' = seek_pos
     \/ /\ seek_ret' = Failed /\ inner_pos' \in 0..FileSize
  /\ seek_completed' = TRUE /\ seek_request' = FALSE
  /\ ResetRing
  /\ Wake("caller")
  /\ UNCHANGED <<logical_pos, logical_size, seek_pos, abort_request, to_copy, wrote,
                 inner_io_error, io_eof_reached, io_error, buffer_task, callVars>>

\* The seek of the inner protocol, under the mutex.  One that fails may leave the
\* inner protocol anywhere.
SeekInner ==
  /\ Awake /\ ~abort_request /\ seek_request
  /\ \/ /\ seek_ret' = seek_pos /\ inner_pos' = seek_pos
        /\ io_eof_reached' = FALSE /\ io_error' = "none"
     \/ /\ seek_ret' = Failed /\ inner_pos' \in 0..FileSize
        /\ io_eof_reached' = TRUE /\ io_error' = "error"
  /\ seek_completed' = TRUE /\ seek_request' = FALSE
  /\ ResetRing
  /\ Wake("caller")
  /\ UNCHANGED <<logical_pos, logical_size, seek_pos, abort_request, to_copy, wrote,
                 inner_io_error, buffer_task, callVars>>

Sleep ==
  /\ Awake /\ ~abort_request /\ ~seek_request
  /\ io_eof_reached \/ RingSpace <= 0
  /\ WakeAndSleep("caller", "buffer_task")
  /\ UNCHANGED <<ring, logical_pos, logical_size, io_eof_reached, io_error, seeking,
                 abort_request, inner, buffer_task, callVars>>

FindRoom ==
  /\ Awake /\ ~abort_request /\ ~seek_request
  /\ ~io_eof_reached /\ RingSpace > 0
  /\ to_copy' = Least(Chunk, RingSpace)
  /\ buffer_task' = "fill"
  /\ UNCHANGED <<ring, logical_pos, logical_size, io_eof_reached, io_error, seeking,
                 abort_request, inner_pos, wrote, inner_io_error, callVars, asleep>>

\* ring_generic_write with ffurl_read, without the mutex: av_fifo_generic_write
\* reads on until it has to_copy bytes or a read gives none.
Fill ==
  /\ buffer_task = "fill"
  /\ \E n \in 0..Least(to_copy, FileSize - inner_pos) :
       /\ fifo' = fifo \o Reader!Bytes(inner_pos, n)
       /\ inner_pos' = inner_pos + n
       /\ wrote' = n
       /\ inner_io_error' \in
            IF n = to_copy THEN {"none"}
            ELSE IF inner_pos + n < FileSize THEN {"error"} ELSE {"none", "error"}
  /\ buffer_task' = "filled"
  /\ UNCHANGED <<read_pos, logical_pos, logical_size, io_eof_reached, io_error, seeking,
                 abort_request, to_copy, callVars, asleep>>

\* A read that gave nothing is the end, or an error.
Filled ==
  /\ buffer_task = "filled"
  /\ io_eof_reached' = (io_eof_reached \/ wrote = 0)
  /\ io_error' = IF wrote = 0 /\ inner_io_error # "none" THEN inner_io_error ELSE io_error
  /\ Wake("caller")
  /\ buffer_task' = "loop" /\ to_copy' = 0 /\ wrote' = 0 /\ inner_io_error' = "none"
  /\ UNCHANGED <<ring, logical_pos, logical_size, seeking, abort_request, inner_pos,
                 callVars>>

--------------------------------------------------------------------------------

Calls ==
  \/ \E n \in 1..MaxRead : Read(n)
  \/ SeekHere
  \/ \E pos \in 0..FileSize + 1 : Seek(pos)
  \/ Close

\* The steps of a call under way.
InCall ==
  \/ ReadInterrupted \/ ReadBytes \/ ReadEnd \/ ReadWait
  \/ RequestSeek \/ AwaitSeek \/ Join

BufferTask == Exit \/ SeekInner \/ Sleep \/ FindRoom \/ Fill \/ Filled

Next == Calls \/ InCall \/ Interrupt \/ BufferTask

\* Both threads run, and the inner protocol's reads and seeks come back: they are
\* given the interrupt callback.
Fairness == WF_vars(InCall) /\ WF_vars(BufferTask)

Spec == Init /\ [][Next]_vars /\ Fairness

--------------------------------------------------------------------------------

TypeOK ==
  /\ fifo \in Seq(0..FileSize - 1) /\ Len(fifo) <= Capacity
  /\ read_pos \in 0..Backwards /\ read_pos <= Len(fifo)
  /\ logical_pos \in 0..FileSize /\ logical_size \in {0, FileSize}
  /\ io_eof_reached \in BOOLEAN /\ io_error \in {"none", "error", "exit"}
  /\ seek_request \in BOOLEAN /\ seek_completed \in BOOLEAN
  /\ seek_pos \in 0..FileSize /\ seek_ret \in Failed..FileSize
  /\ abort_request \in BOOLEAN
  /\ inner_pos \in 0..FileSize
  /\ buffer_task \in {"loop", "fill", "filled", "exit"}
  /\ to_copy \in 0..Chunk /\ wrote \in 0..Chunk /\ inner_io_error \in {"none", "error"}
  /\ caller \in {"idle", "read", "skip", "seek", "await", "closing"}
  /\ to_read \in Nat /\ target \in Nat
  /\ asleep \subseteq {"caller", "buffer_task"}
  /\ position \in Nat
  /\ answer.kind \in {"none", "data", "eof", "error", "moved"}

\* The background thread sleeps only with no room to fill or nothing more to read,
\* no seek to see to and no close; the caller sleeps only while the background
\* thread is awake, whose every round ends in a signal to it (async_buffer_task,
\* async_read_internal and async_seek each signal once at each change).
SleepersHaveNothingToDo ==
  /\ "buffer_task" \in asleep =>
       /\ io_eof_reached \/ RingSpace <= 0
       /\ seek_request => abort_request   \* the seek was given up
       /\ caller # "closing"
  /\ "caller" \in asleep => "buffer_task" \notin asleep /\ buffer_task # "exit"

\* ijkasync.c:153, av_assert2(offset <= -ring_size(ring)): what a fast seek goes back
\* by is no less than what is ahead.  The code does not keep to it, and need not: the
\* bytes it goes back to are in the ring (IsFileReader).
DrainAssertion ==
  [][\A pos \in 0..FileSize : SeekBack(pos) => pos - logical_pos <= -RingSize]_vars

\* Every read, seek and close comes back.
CallsReturn == caller # "idle" ~> caller = "idle"

\* Through read-ahead, look-back, both kinds of seek, failures and an inner
\* protocol that has lost its place, the caller reads the bytes of the file in
\* order from where it has been told it is, and no error passes for the end.
IsFileReader == Reader!ReaderSpec
================================================================================
