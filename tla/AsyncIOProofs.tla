---------------------------- MODULE AsyncIOProofs ----------------------------
(***************************************************************************)
(* Theorems about AsyncIO for a file, a ring and reads of any size.        *)
(***************************************************************************)
EXTENDS AsyncIO, SequenceTheorems, TLAPS

--------------------------------------------------------------------------------
(* The inductive invariant. *)

\* Where the two threads can be together, and what each has in its hands.
Threads ==
  /\ buffer_task \in {"fill", "filled"} =>
       ~io_eof_reached /\ "buffer_task" \notin asleep /\ to_copy > 0
  /\ buffer_task = "fill" => to_copy <= RingSpace
  /\ buffer_task = "exit" => abort_request /\ "buffer_task" \notin asleep
  /\ "caller" \in asleep => caller \in {"read", "skip", "await"}
  /\ caller = "closing" => abort_request
  /\ caller \in {"read", "skip"} => to_read > 0
  /\ caller = "skip" => target = logical_pos + to_read
  /\ caller \in {"seek", "await"} => target <= FileSize
  /\ caller = "await" => target = seek_pos
  /\ caller = "await" => (seek_completed <=> ~seek_request)
  /\ ~abort_request /\ seek_request => caller = "await"
  /\ seek_completed => seek_ret \in {Failed, seek_pos}

\* A seek that the caller has not heard of yet, and where the ring begins then.
Sought == caller = "await" /\ seek_completed

Origin == IF Sought /\ seek_ret # Failed THEN seek_ret ELSE logical_pos

\* After an error with nothing left in the ring, the inner protocol may stand anywhere.
Lost == io_eof_reached /\ io_error # "none" /\ Len(fifo) = 0

\* Until the call is aborted, the ring holds the file around Origin, and the inner
\* protocol stands where the ring ends.
Content ==
  ~abort_request =>
    /\ Sought => read_pos = 0
    /\ Sought /\ seek_ret = Failed => Lost
    /\ Lost \/ inner_pos = Origin + RingSize
    /\ \A i \in 1..Len(fifo) : fifo[i] = Origin - read_pos + i - 1
    /\ io_eof_reached /\ io_error = "none" => inner_pos = FileSize
    /\ buffer_task = "filled" /\ wrote = 0 /\ inner_io_error = "none" => inner_pos = FileSize

\* Reads come back empty from now on.
NoMore == io_eof_reached /\ RingSize = 0 /\ (io_error # "none" \/ position >= FileSize)

\* The caller is where the context believes it is, or reads nothing.
Place ==
  ~abort_request /\ caller \in {"idle", "read", "seek", "await"} =>
    \/ position = logical_pos
    \/ NoMore
    \/ Sought /\ seek_ret # Failed

IInv == TypeOK /\ Threads /\ Content /\ Place /\ SleepersHaveNothingToDo

--------------------------------------------------------------------------------
(* The ring. *)

LEMMA Bounds ==
  FileSize \in Nat /\ FileSize > 0 /\ Backwards \in Nat /\ Capacity \in Nat
  BY AsyncIOAssumption DEF AsyncIOAssumption, Capacity

\* TypeOK, for the arithmetic of the ring ...
LEMMA Sizes ==
  ASSUME TypeOK
  PROVE  /\ Len(fifo) \in Nat /\ Len(fifo) <= Capacity
         /\ read_pos \in Nat /\ read_pos <= Backwards /\ read_pos <= Len(fifo)
         /\ RingSize \in Nat /\ RingSize = Len(fifo) - read_pos
         /\ RingSpace \in Nat /\ RingSpace = Capacity - Len(fifo)
  BY Bounds, LenProperties DEF TypeOK, RingSize, RingSpace

\* ... and of the positions.
LEMMA Positions ==
  ASSUME TypeOK
  PROVE  /\ logical_pos \in Nat /\ logical_pos <= FileSize
         /\ inner_pos \in Nat /\ inner_pos <= FileSize
         /\ seek_pos \in Nat /\ seek_pos <= FileSize
         /\ position \in Nat /\ to_read \in Nat /\ target \in Nat
  BY Bounds DEF TypeOK

LEMMA RingBytes ==
  ASSUME TypeOK
  PROVE  fifo \in Seq(0..FileSize - 1) /\ \A i \in 1..Len(fifo) : fifo[i] \in 0..FileSize - 1
  BY ElementOfSeq DEF TypeOK

LEMMA EmptyRing ==
  <<>> \in Seq(0..FileSize - 1) /\ Len(<<>>) = 0
  BY EmptySeq

\* ring_generic_read keeps what follows the bytes dropped, in its place.
LEMMA ReadRingKeeps ==
  ASSUME TypeOK, NEW n \in Nat, n <= RingSize, ReadRing(n)
  PROVE  /\ fifo' \in Seq(0..FileSize - 1) /\ Len(fifo') \in Nat /\ Len(fifo') <= Len(fifo)
         /\ read_pos' \in 0..Backwards /\ read_pos' <= Len(fifo')
         /\ RingSize' = RingSize - n
         /\ read_pos + n - read_pos' \in Nat
         /\ \A i \in 1..Len(fifo') :
              /\ i + (read_pos + n - read_pos') \in 1..Len(fifo)
              /\ fifo'[i] = fifo[i + (read_pos + n - read_pos')]
<1> DEFINE drained == IF read_pos + n > Backwards THEN read_pos + n - Backwards ELSE 0
<1>1. /\ drained \in Nat /\ drained <= Len(fifo)
      /\ read_pos + n - drained \in 0..Backwards
      /\ read_pos + n <= Len(fifo)
  BY Sizes, Bounds
<1>2. fifo' = SubSeq(fifo, drained + 1, Len(fifo)) /\ read_pos' = read_pos + n - drained
  BY DEF ReadRing
<1>3. \A i \in drained + 1 .. Len(fifo) : fifo[i] \in 0..FileSize - 1
  BY <1>1, RingBytes, Sizes
<1> HIDE DEF drained
<1>4. drained + 1 \in Int /\ Len(fifo) \in Int
  BY <1>1, Sizes
<1>5. /\ fifo' \in Seq(0..FileSize - 1)
      /\ Len(fifo') = IF drained + 1 <= Len(fifo) THEN Len(fifo) - (drained + 1) + 1 ELSE 0
      /\ \A i \in 1 .. Len(fifo) - (drained + 1) + 1 : fifo'[i] = fifo[drained + 1 + i - 1]
  BY <1>2, <1>3, <1>4, SubSeqProperties
<1>6. Len(fifo') = Len(fifo) - drained
  BY <1>1, <1>5, Sizes
<1>7. read_pos + n - read_pos' = drained
  BY <1>1, <1>2, Sizes, Bounds
<1>8. \A i \in 1..Len(fifo') : i + drained \in 1..Len(fifo) /\ fifo'[i] = fifo[i + drained]
  <2> TAKE i \in 1..Len(fifo')
  <2>1. i \in 1 .. Len(fifo) - (drained + 1) + 1 /\ drained + 1 + i - 1 = i + drained
    BY <1>1, <1>6, Sizes
  <2> QED
    BY <1>1, <1>5, <1>6, <2>1, Sizes
<1>9. /\ RingSize' = RingSize - n /\ read_pos' <= Len(fifo') /\ Len(fifo') <= Len(fifo)
      /\ Len(fifo') \in Nat
  BY <1>1, <1>2, <1>6, Sizes, Bounds DEF RingSize
<1> QED
  BY <1>1, <1>2, <1>5, <1>7, <1>8, <1>9

LEMMA FileBytes ==
  ASSUME NEW from \in Nat, NEW n \in Nat, from + n <= FileSize
  PROVE  /\ Reader!Bytes(from, n) \in Seq(0..FileSize - 1)
         /\ Len(Reader!Bytes(from, n)) = n
         /\ \A i \in 1..n : Reader!Bytes(from, n)[i] = from + i - 1
<1>1. \A i \in 1..n : from + i - 1 \in 0..FileSize - 1
  BY Bounds
<1> QED
  BY <1>1 DEF Reader!Bytes

\* The bytes a read takes from the ring are those of the file.
LEMMA ReadsTheFile ==
  ASSUME TypeOK, NEW n \in Nat, n <= RingSize,
         \A i \in 1..Len(fifo) : fifo[i] = logical_pos - read_pos + i - 1
  PROVE  SubSeq(fifo, read_pos + 1, read_pos + n) = Reader!Bytes(logical_pos, n)
<1> DEFINE first == read_pos + 1
           last == read_pos + n
           s == SubSeq(fifo, first, last)
           t == Reader!Bytes(logical_pos, n)
<1>0. \A i \in 1..n : first + i - 1 \in 1..Len(fifo) /\ first + i - 1 = read_pos + i
  BY Sizes
<1>1. first \in Int /\ last \in Int /\ last - first + 1 = n
  BY Sizes
<1>2. \A i \in first .. last : fifo[i] \in Int
  BY RingBytes, Sizes
<1>3. t \in Seq(Int) /\ Len(t) = n /\ \A i \in 1..n : t[i] = logical_pos + i - 1
  BY Positions DEF Reader!Bytes
<1> HIDE DEF first, last, t
<1>4. /\ s \in Seq(Int)
      /\ Len(s) = IF first <= last THEN last - first + 1 ELSE 0
      /\ \A i \in 1 .. last - first + 1 : s[i] = fifo[first + i - 1]
  BY <1>1, <1>2, SubSeqProperties
<1> HIDE DEF s
<1>5. Len(s) = n /\ \A i \in 1..n : s[i] = fifo[first + i - 1]
  BY <1>1, <1>4
<1>6. ASSUME NEW i \in 1..n PROVE s[i] = t[i]
  <2>1. fifo[first + i - 1] = logical_pos - read_pos + (read_pos + i) - 1
    BY <1>0
  <2>2. s[i] = logical_pos - read_pos + (read_pos + i) - 1 /\ t[i] = logical_pos + i - 1
    BY <1>3, <1>5, <2>1
  <2> QED
    BY <2>2, Sizes, Positions
<1>7. s = t
  BY <1>3, <1>4, <1>5, <1>6, SeqEqual
<1> QED
  BY <1>7 DEF s, t, first, last

--------------------------------------------------------------------------------
(* The steps. *)

LEMMA ReadKept == ASSUME IInv, NEW n \in 1..MaxRead, Read(n) PROVE IInv'
<1> USE DEF IInv, Read
<1>1. TypeOK'
  BY DEF TypeOK, ring, seeking, inner
<1>2. Threads'
  BY DEF Threads, RingSpace, ring, seeking, inner
<1>3. Content'
  BY DEF Content, Lost, Sought, Origin, RingSize, ring, inner
<1>4. Place'
  BY DEF Place, NoMore, Sought, RingSize, ring
<1>5. SleepersHaveNothingToDo'
  BY DEF SleepersHaveNothingToDo, RingSpace, ring, seeking
<1> QED
  BY <1>1, <1>2, <1>3, <1>4, <1>5

LEMMA SeekHereKept == ASSUME IInv, SeekHere PROVE IInv'
<1> USE DEF IInv, SeekHere
<1>1. TypeOK'
  BY DEF TypeOK, ring, seeking, inner, Answer, Moved
<1>2. Threads'
  BY DEF Threads, RingSpace, ring, seeking, inner, Answer, Moved
<1>3. Content'
  BY DEF Content, Lost, Sought, Origin, RingSize, ring, inner, Answer, Moved
<1>4. Place'
  BY DEF Place, Moved
<1>5. SleepersHaveNothingToDo'
  BY DEF SleepersHaveNothingToDo, RingSpace, ring, seeking, Answer, Moved
<1> QED
  BY <1>1, <1>2, <1>3, <1>4, <1>5

LEMMA SeekBackKept == ASSUME IInv, NEW pos \in Nat, SeekBack(pos) PROVE IInv'
<1> USE DEF IInv, SeekBack, InReach
<1>1. TypeOK'
  BY Bounds DEF TypeOK, seeking, inner, Answer, Moved
<1>2. Threads'
  BY DEF Threads, RingSpace, seeking, inner, Answer, Moved
<1>3. Content'
  BY DEF Content, Lost, Sought, Origin, RingSize, TypeOK, inner, Answer, Moved
<1>4. Place'
  BY DEF Place, Moved
<1>5. SleepersHaveNothingToDo'
  BY DEF SleepersHaveNothingToDo, RingSpace, seeking, Answer, Moved
<1> QED
  BY <1>1, <1>2, <1>3, <1>4, <1>5

LEMMA SeekAheadKept == ASSUME IInv, NEW pos \in Nat, SeekAhead(pos) PROVE IInv'
<1> USE DEF IInv, SeekAhead
<1>1. TypeOK'
  BY DEF TypeOK, ring, seeking, inner
<1>2. Threads'
  BY DEF Threads, RingSpace, TypeOK, ring, seeking, inner
<1>3. Content'
  BY DEF Content, Lost, Sought, Origin, RingSize, ring, inner
<1>4. Place'
  BY DEF Place
<1>5. SleepersHaveNothingToDo'
  BY DEF SleepersHaveNothingToDo, RingSpace, ring, seeking
<1> QED
  BY <1>1, <1>2, <1>3, <1>4, <1>5

LEMMA SeekRefusedKept == ASSUME IInv, NEW pos \in Nat, SeekRefused(pos) PROVE IInv'
<1> USE DEF IInv, SeekRefused
<1>1. TypeOK'
  BY DEF TypeOK, ring, seeking, inner, Answer
<1>2. Threads'
  BY DEF Threads, RingSpace, ring, seeking, inner, Answer
<1>3. Content'
  BY DEF Content, Lost, Sought, Origin, RingSize, ring, inner, Answer
<1>4. Place'
  BY DEF Place, NoMore, Sought, RingSize, ring
<1>5. SleepersHaveNothingToDo'
  BY DEF SleepersHaveNothingToDo, RingSpace, ring, seeking, Answer
<1> QED
  BY <1>1, <1>2, <1>3, <1>4, <1>5

LEMMA SeekSlowKept == ASSUME IInv, NEW pos \in Nat, SeekSlow(pos) PROVE IInv'
<1> USE DEF IInv, SeekSlow
<1>1. TypeOK'
  BY DEF TypeOK, ring, seeking, inner
<1>2. Threads'
  BY DEF Threads, RingSpace, TypeOK, ring, seeking, inner
<1>3. Content'
  BY DEF Content, Lost, Sought, Origin, RingSize, ring, inner
<1>4. Place'
  BY DEF Place, NoMore, Sought, RingSize, ring
<1>5. SleepersHaveNothingToDo'
  BY DEF SleepersHaveNothingToDo, RingSpace, ring, seeking
<1> QED
  BY <1>1, <1>2, <1>3, <1>4, <1>5

LEMMA CloseKept == ASSUME IInv, Close PROVE IInv'
<1> USE DEF IInv, Close
<1>1. TypeOK'
  BY DEF TypeOK, ring, seeking, inner, Wake, WakeFiller
<1>2. Threads'
  BY DEF Threads, RingSpace, ring, seeking, inner, Wake, WakeFiller
<1>3. Content'
  BY DEF Content
<1>4. Place'
  BY DEF Place
<1>5. SleepersHaveNothingToDo'
  BY DEF SleepersHaveNothingToDo, Wake, WakeFiller
<1> QED
  BY <1>1, <1>2, <1>3, <1>4, <1>5

LEMMA InterruptKept == ASSUME IInv, Interrupt PROVE IInv'
<1> USE DEF IInv, Interrupt
<1>1. TypeOK'
  BY DEF TypeOK, ring, seeking, inner, callVars
<1>2. Threads'
  BY DEF Threads, RingSpace, ring, seeking, inner, callVars
<1>3. Content'
  BY DEF Content
<1>4. Place'
  BY DEF Place
<1>5. SleepersHaveNothingToDo'
  BY DEF SleepersHaveNothingToDo, RingSpace, ring, callVars
<1> QED
  BY <1>1, <1>2, <1>3, <1>4, <1>5

LEMMA ReadInterruptedKept == ASSUME IInv, ReadInterrupted PROVE IInv'
<1> USE DEF IInv, ReadInterrupted, Return, Reading
<1>1. TypeOK'
  BY DEF TypeOK, ring, seeking, inner, Answer, Moved, Wake, WakeFiller
<1>2. Threads'
  BY DEF Threads, RingSpace, ring, seeking, inner, Answer, Moved, Wake, WakeFiller
<1>3. Content'
  BY DEF Content
<1>4. Place'
  BY DEF Place
<1>5. SleepersHaveNothingToDo'
  BY DEF SleepersHaveNothingToDo, Wake, WakeFiller
<1> QED
  BY <1>1, <1>2, <1>3, <1>4, <1>5

LEMMA ReadEndKept == ASSUME IInv, ReadEnd PROVE IInv'
<1> USE DEF IInv, ReadEnd, Return, Reading, Readable, Least
<1>1. TypeOK'
  BY DEF TypeOK, ring, seeking, inner, Answer, Moved, Wake, WakeFiller
<1>2. Threads'
  BY DEF Threads, seeking, Answer, Moved, Wake, WakeFiller
<1>3. Content'
  BY DEF Content, Lost, Sought, Origin, RingSize, ring, inner, Answer, Moved
<1>4. Place'
  <2>1. CASE caller = "read"
    BY <2>1, Positions, EmptyRing DEF Place, NoMore, Sought, RingSize, Answer, ring
  <2>2. CASE caller = "skip"
    <3>1. RingSize = 0 /\ io_eof_reached /\ UNCHANGED <<RingSize, io_eof_reached, io_error>>
      BY <2>2, Sizes, Positions DEF Threads, RingSize, ring
    <3>2. position' = target /\ target = logical_pos + to_read /\ to_read > 0
      BY <2>2 DEF Threads, Moved
    <3>3. io_error = "none" => logical_pos = FileSize
      BY <2>2, <3>1, Positions DEF Content, Lost, Sought, Origin
    <3>4. io_error = "none" => position' >= FileSize
      BY <3>2, <3>3, Positions, Bounds
    <3> QED
      BY <3>1, <3>4 DEF Place, NoMore
  <2> QED
    BY <2>1, <2>2
<1>5. SleepersHaveNothingToDo'
  BY DEF SleepersHaveNothingToDo, Wake, WakeFiller
<1> QED
  BY <1>1, <1>2, <1>3, <1>4, <1>5

LEMMA RequestSeekKept == ASSUME IInv, RequestSeek PROVE IInv'
<1> USE DEF IInv, RequestSeek
<1>1. TypeOK'
  <2>1. target \in 0..FileSize
    BY Positions, Bounds DEF Threads
  <2>2. 0 \in Failed..FileSize
    BY Bounds DEF Failed
  <2>3. seek_pos' \in 0..FileSize /\ seek_ret' \in Failed..FileSize
    BY <2>1, <2>2
  <2>4. CASE abort_request
    <3>1. /\ caller' = "idle" /\ to_read' \in Nat /\ target' \in Nat
          /\ answer'.kind = "error" /\ asleep' = asleep
      BY <2>4 DEF Answer
    <3> QED
      BY <2>3, <2>4, <3>1 DEF TypeOK, ring, inner
  <2>5. CASE ~abort_request
    <3>1. asleep' \subseteq {"caller", "buffer_task"}
      BY <2>5 DEF TypeOK, WakeAndSleep
    <3> QED
      BY <2>3, <2>5, <3>1 DEF TypeOK, ring, inner
  <2> QED
    BY <2>4, <2>5
<1>2. Threads'
  BY DEF Threads, RingSpace, ring, inner, Answer, WakeAndSleep
<1>3. Content'
  BY DEF Content, Lost, Sought, Origin, RingSize, ring, inner
<1>4. Place'
  BY DEF Place, NoMore, Sought, RingSize, ring
<1>5. SleepersHaveNothingToDo'
  BY DEF SleepersHaveNothingToDo, Threads, RingSpace, ring, Answer, WakeAndSleep
<1> QED
  BY <1>1, <1>2, <1>3, <1>4, <1>5

\* What the caller finds when it wakes up, as cases.
LEMMA AwaitSeekCases ==
  ASSUME TypeOK, AwaitSeek, ~abort_request
  PROVE  /\ seek_completed /\ seek_ret # Failed
              => Moved(target) /\ logical_pos' = seek_ret /\ UNCHANGED asleep
         /\ seek_completed /\ seek_ret = Failed
              => Answer("error", <<>>) /\ UNCHANGED <<logical_pos, position, asleep>>
         /\ ~seek_completed
              => WakeAndSleep("buffer_task", "caller") /\ UNCHANGED <<logical_pos, callVars>>
<1>1. /\ seek_ret \in Int
      /\ seek_ret >= 0 <=> seek_ret # Failed
      /\ seek_ret < 0 <=> seek_ret = Failed
  BY Bounds DEF TypeOK, Failed
<1> QED
  BY <1>1 DEF AwaitSeek

LEMMA AwaitSeekKept == ASSUME IInv, AwaitSeek PROVE IInv'
<1> USE DEF IInv, AwaitSeek
<1>1. TypeOK'
  BY DEF TypeOK, ring, seeking, inner, callVars, Answer, Moved, WakeAndSleep
<1>2. Threads'
  BY DEF Threads, RingSpace, ring, seeking, inner, callVars, Answer, Moved, WakeAndSleep
<1>3. Content'
  <2> SUFFICES ASSUME ~abort_request PROVE Content'
    BY DEF Content
  <2>1. UNCHANGED <<ring, seeking, inner, io_eof_reached, io_error, buffer_task, abort_request>>
    BY DEF inner, seeking
  <2>2. CASE seek_completed /\ seek_ret # Failed
    <3>1. Sought /\ ~Sought' /\ logical_pos' = seek_ret
      BY <2>2, AwaitSeekCases DEF Sought, Moved, Answer
    <3>2. Origin' = Origin
      BY <2>2, <3>1 DEF Origin
    <3> QED
      BY <2>1, <2>2, <3>1, <3>2 DEF Content, Lost, RingSize, ring, inner
  <2>3. CASE seek_completed /\ seek_ret = Failed
    <3>1. Sought /\ ~Sought' /\ Lost /\ Lost' /\ Len(fifo') = 0
      BY <2>1, <2>3, AwaitSeekCases DEF Content, Sought, Lost, Answer, ring
    <3> QED
      BY <2>1, <3>1 DEF Content, Lost, ring, inner
  <2>4. CASE ~seek_completed
    BY <2>1, <2>4, AwaitSeekCases
       DEF Content, Lost, Sought, Origin, RingSize, ring, inner, seeking, callVars
  <2> QED
    BY <2>2, <2>3, <2>4
<1>4. Place'
  <2> SUFFICES ASSUME ~abort_request PROVE Place'
    BY DEF Place
  <2>1. UNCHANGED <<ring, seeking, io_eof_reached, io_error>>
    BY DEF seeking
  <2>2. CASE seek_completed /\ seek_ret # Failed
    <3>1. position' = target /\ logical_pos' = seek_ret /\ seek_ret = target
      BY <2>2, AwaitSeekCases DEF Moved, Threads
    <3> QED
      BY <3>1 DEF Place
  <2>3. CASE seek_completed /\ seek_ret = Failed
    <3>1. Sought /\ Lost
      BY <2>3 DEF Content, Sought
    <3>2. NoMore'
      BY <2>1, <3>1, Sizes DEF Lost, NoMore, RingSize, ring
    <3> QED
      BY <3>2 DEF Place
  <2>4. CASE ~seek_completed
    BY <2>1, <2>4, AwaitSeekCases DEF Place, NoMore, Sought, RingSize, ring, seeking, callVars
  <2> QED
    BY <2>2, <2>3, <2>4
<1>5. SleepersHaveNothingToDo'
  BY DEF SleepersHaveNothingToDo, Threads, RingSpace, ring, seeking, Answer, Moved, WakeAndSleep
<1> QED
  BY <1>1, <1>2, <1>3, <1>4, <1>5

LEMMA JoinKept == ASSUME IInv, Join PROVE IInv'
<1> USE DEF IInv, Join, ResetRing, Reader!Restart, Reader!NoAnswer
<1>1. TypeOK'
  <2>1. 0 \in 0..Backwards /\ 0 \in 0..FileSize /\ 0 \in Failed..FileSize /\ 0 \in 0..Chunk
    BY Bounds, AsyncIOAssumption DEF Failed, AsyncIOAssumption
  <2>2. fifo' \in Seq(0..FileSize - 1) /\ Len(fifo') = 0
    BY EmptyRing
  <2>3. /\ answer'.kind = "none" /\ logical_size' \in {0, FileSize}
        /\ asleep' \subseteq {"caller", "buffer_task"}
    OBVIOUS
  <2>4. read_pos' <= Len(fifo') /\ Len(fifo') <= Capacity
    BY <2>2, Bounds
  <2>5. /\ abort_request' \in BOOLEAN /\ io_eof_reached' \in BOOLEAN
        /\ seek_request' \in BOOLEAN /\ seek_completed' \in BOOLEAN
    OBVIOUS
  <2>6. position' \in Nat /\ to_read' \in Nat /\ target' \in Nat
    OBVIOUS
  <2> QED
    BY <2>1, <2>2, <2>3, <2>4, <2>5, <2>6 DEF TypeOK
<1>2. Threads'
  BY DEF Threads
<1>3. Content'
  BY DEF Content, Sought, Origin, RingSize
<1>4. Place'
  BY DEF Place
<1>5. SleepersHaveNothingToDo'
  BY DEF SleepersHaveNothingToDo
<1> QED
  BY <1>1, <1>2, <1>3, <1>4, <1>5

LEMMA ExitKept == ASSUME IInv, Exit PROVE IInv'
<1> USE DEF IInv, Exit, Awake
<1>1. TypeOK'
  BY DEF TypeOK, ring, seeking, inner, callVars, Wake
<1>2. Threads'
  BY DEF Threads, seeking, callVars, Wake
<1>3. Content'
  BY DEF Content
<1>4. Place'
  BY DEF Place
<1>5. SleepersHaveNothingToDo'
  BY DEF SleepersHaveNothingToDo, Wake
<1> QED
  BY <1>1, <1>2, <1>3, <1>4, <1>5

LEMMA SeekInnerKept == ASSUME IInv, SeekInner PROVE IInv'
<1> USE DEF IInv, SeekInner, Awake, ResetRing
<1>1. TypeOK'
  <2>1. seek_pos \in Failed..FileSize /\ Failed \in Failed..FileSize
    BY Positions, Bounds DEF Failed
  <2>2. fifo' \in Seq(0..FileSize - 1) /\ Len(fifo') = 0
    BY EmptyRing
  <2>3. seek_ret' \in Failed..FileSize /\ inner_pos' \in 0..FileSize
    BY <2>1 DEF TypeOK
  <2>4. read_pos' \in 0..Backwards /\ read_pos' <= Len(fifo') /\ Len(fifo') <= Capacity
    BY <2>2, Bounds
  <2>5. /\ io_eof_reached' \in BOOLEAN /\ io_error' \in {"none", "error", "exit"}
        /\ seek_completed' \in BOOLEAN /\ seek_request' \in BOOLEAN
        /\ asleep' \subseteq {"caller", "buffer_task"}
    BY DEF TypeOK, Wake
  <2> QED
    BY <2>2, <2>3, <2>4, <2>5 DEF TypeOK, callVars
<1>2. Threads'
  BY DEF Threads, callVars
<1>3. Content'
  <2>1. caller = "await" /\ Sought' /\ read_pos' = 0 /\ Len(fifo') = 0 /\ RingSize' = 0
    BY EmptyRing DEF Sought, callVars, Threads, RingSize
  <2>2. CASE seek_ret' = seek_pos /\ inner_pos' = seek_pos /\ io_eof_reached' = FALSE
    BY <2>1, <2>2, Positions DEF Content, Origin, Failed
  <2>3. CASE seek_ret' = Failed /\ io_eof_reached' = TRUE /\ io_error' = "error"
    BY <2>1, <2>3 DEF Content, Lost
  <2> QED
    BY <2>2, <2>3
<1>4. Place'
  <2>1. caller = "await" /\ Sought' /\ RingSize' = 0
    BY EmptyRing DEF Sought, callVars, Threads, RingSize
  <2>2. CASE seek_ret' = seek_pos
    <3>1. seek_ret' # Failed
      BY <2>2, Positions DEF Failed
    <3> QED
      BY <2>1, <3>1 DEF Place
  <2>3. CASE io_eof_reached' = TRUE /\ io_error' = "error"
    BY <2>1, <2>3 DEF Place, NoMore
  <2> QED
    BY <2>2, <2>3
<1>5. SleepersHaveNothingToDo'
  BY DEF SleepersHaveNothingToDo, Wake
<1> QED
  BY <1>1, <1>2, <1>3, <1>4, <1>5

LEMMA SleepKept == ASSUME IInv, Sleep PROVE IInv'
<1> USE DEF IInv, Sleep, Awake
<1>1. TypeOK'
  BY DEF TypeOK, ring, seeking, inner, callVars, WakeAndSleep
<1>2. Threads'
  BY DEF Threads, seeking, callVars, WakeAndSleep
<1>3. Content'
  BY DEF Content, Lost, Sought, Origin, RingSize, ring, seeking, inner, callVars
<1>4. Place'
  BY DEF Place, NoMore, Sought, RingSize, ring, seeking, callVars
<1>5. SleepersHaveNothingToDo'
  BY DEF SleepersHaveNothingToDo, Threads, RingSpace, ring, seeking, callVars, WakeAndSleep
<1> QED
  BY <1>1, <1>2, <1>3, <1>4, <1>5

LEMMA FindRoomKept == ASSUME IInv, FindRoom PROVE IInv'
<1> USE DEF IInv, FindRoom, Awake, Least
<1>1. TypeOK'
  <2>1. to_copy' \in 0..Chunk
    BY Sizes, AsyncIOAssumption DEF AsyncIOAssumption
  <2> QED
    BY <2>1 DEF TypeOK, ring, seeking, callVars
<1>2. Threads'
  <2>1. to_copy' > 0 /\ to_copy' <= RingSpace /\ RingSpace' = RingSpace
    BY Sizes, AsyncIOAssumption DEF AsyncIOAssumption, RingSpace, ring
  <2> QED
    BY <2>1 DEF Threads, ring, seeking, callVars
<1>3. Content'
  BY DEF Content, Lost, Sought, Origin, RingSize, ring, seeking, callVars
<1>4. Place'
  BY DEF Place, NoMore, Sought, seeking, callVars
<1>5. SleepersHaveNothingToDo'
  BY DEF SleepersHaveNothingToDo
<1> QED
  BY <1>1, <1>2, <1>3, <1>4, <1>5

LEMMA FilledKept == ASSUME IInv, Filled PROVE IInv'
<1> USE DEF IInv, Filled
<1>1. TypeOK'
  <2>1. 0 \in 0..Chunk
    BY AsyncIOAssumption DEF AsyncIOAssumption
  <2>2. io_error' \in {"none", "error", "exit"} /\ io_eof_reached' \in BOOLEAN
    BY DEF TypeOK
  <2> QED
    BY <2>1, <2>2 DEF TypeOK, ring, seeking, callVars, Wake
<1>2. Threads'
  BY DEF Threads, seeking, callVars, Wake
<1>3. Content'
  BY DEF Content, Lost, Sought, Origin, RingSize, ring, seeking, callVars
<1>4. Place'
  BY DEF Place, NoMore, Sought, Threads, seeking, callVars
<1>5. SleepersHaveNothingToDo'
  BY DEF SleepersHaveNothingToDo, RingSpace, ring, seeking, callVars, Wake
<1> QED
  BY <1>1, <1>2, <1>3, <1>4, <1>5

\* The bytes that stay in the ring are still those of the file, around a position
\* that has moved with them.
LEMMA RingMovesOn ==
  ASSUME TypeOK, NEW n \in Nat, n <= RingSize, ReadRing(n), NEW from \in Nat,
         \A i \in 1..Len(fifo) : fifo[i] = from - read_pos + i - 1
  PROVE  \A i \in 1..Len(fifo') : fifo'[i] = from + n - read_pos' + i - 1
<1> TAKE i \in 1..Len(fifo')
<1>1. /\ i + (read_pos + n - read_pos') \in 1..Len(fifo)
      /\ fifo'[i] = fifo[i + (read_pos + n - read_pos')]
  BY ReadRingKeeps
<1>2. fifo[i + (read_pos + n - read_pos')] = from - read_pos + (i + (read_pos + n - read_pos')) - 1
  BY <1>1
<1>3. read_pos' \in Int /\ read_pos \in Int /\ i \in Int
  BY ReadRingKeeps, Sizes
<1> QED
  BY <1>1, <1>2, <1>3

\* What taking bytes out of the ring does to a caller that reads or drops.
LEMMA TakeKeeps ==
  ASSUME IInv, Reading, ~abort_request, TakeReadable
  PROVE  /\ Readable \in Nat /\ Readable > 0 /\ Readable <= to_read /\ Readable <= RingSize
         /\ fifo' \in Seq(0..FileSize - 1) /\ Len(fifo') \in Nat /\ Len(fifo') <= Len(fifo)
         /\ read_pos' \in 0..Backwards /\ read_pos' <= Len(fifo')
         /\ RingSize' = RingSize - Readable
         /\ logical_pos' = logical_pos + Readable /\ logical_pos' \in 0..FileSize
         /\ inner_pos = logical_pos + RingSize
         /\ \A i \in 1..Len(fifo) : fifo[i] = logical_pos - read_pos + i - 1
         /\ \A i \in 1..Len(fifo') : fifo'[i] = logical_pos' - read_pos' + i - 1
<1>inv. TypeOK /\ Threads /\ Content /\ Place /\ SleepersHaveNothingToDo
  BY DEF IInv
<1>1. Readable \in Nat /\ Readable > 0 /\ Readable <= to_read /\ Readable <= RingSize
  BY <1>inv, Sizes, Positions DEF TakeReadable, Readable, Least
<1>2. ~Sought /\ Origin = logical_pos /\ ~Lost
  BY <1>inv, <1>1, Sizes DEF Reading, Sought, Origin, Lost
<1>3. /\ inner_pos = logical_pos + RingSize
      /\ \A i \in 1..Len(fifo) : fifo[i] = logical_pos - read_pos + i - 1
  BY <1>inv, <1>2 DEF Content
<1>4. ReadRing(Readable) /\ logical_pos' = logical_pos + Readable
  BY DEF TakeReadable
<1>5. logical_pos' \in 0..FileSize
  <2>1. /\ logical_pos \in Nat /\ inner_pos \in Nat /\ inner_pos <= FileSize
        /\ FileSize \in Nat /\ RingSize \in Nat
    BY <1>inv, Positions, Sizes, Bounds
  <2>2. logical_pos + Readable <= inner_pos
    BY <2>1, <1>1, <1>3
  <2> QED
    BY <2>1, <2>2, <1>1, <1>4
<1>6. \A i \in 1..Len(fifo') : fifo'[i] = logical_pos' - read_pos' + i - 1
  <2> TAKE i \in 1..Len(fifo')
  <2>1. logical_pos \in Nat
    BY <1>inv, Positions
  <2>2. fifo'[i] = logical_pos + Readable - read_pos' + i - 1
    BY <1>inv, <1>1, <1>3, <1>4, <2>1, RingMovesOn
  <2>3. read_pos' \in Int /\ i \in Int
    BY <1>inv, <1>1, <1>4, ReadRingKeeps, Bounds
  <2> QED
    BY <1>1, <1>4, <2>1, <2>2, <2>3
<1> QED
  BY <1>inv, <1>1, <1>3, <1>4, <1>5, <1>6, ReadRingKeeps

LEMMA ReadBytesKept == ASSUME IInv, ReadBytes PROVE IInv'
<1>inv. TypeOK /\ Threads /\ Content /\ Place /\ SleepersHaveNothingToDo
  BY DEF IInv
<1>0. TakeReadable /\ Reading /\ ~abort_request
  BY DEF ReadBytes
<1>1. /\ caller' = "idle" /\ to_read' \in Nat /\ target' \in Nat
      /\ answer'.kind \in {"data", "moved"}
      /\ position' \in Nat
      /\ position = logical_pos \/ caller = "skip" => position' = logical_pos'
  <2>1. CASE caller = "read"
    <3> DEFINE bytes == SubSeq(fifo, read_pos + 1, read_pos + Readable)
    <3>1. Answer("data", bytes) /\ position' = position + Len(bytes)
      BY <2>1 DEF ReadBytes, Return
    <3>2. Len(bytes) = Readable
      <4>1. /\ Readable \in Nat /\ Readable <= RingSize
            /\ logical_pos + Readable <= FileSize /\ logical_pos \in Nat
            /\ \A i \in 1..Len(fifo) : fifo[i] = logical_pos - read_pos + i - 1
        BY <1>inv, <1>0, TakeKeeps, Positions, Bounds
      <4>2. bytes = Reader!Bytes(logical_pos, Readable)
        BY <1>inv, <4>1, ReadsTheFile
      <4> QED
        BY <4>1, <4>2, FileBytes
    <3>3. /\ Readable \in Nat /\ logical_pos' = logical_pos + Readable
          /\ position \in Nat /\ logical_pos \in Nat
      BY <1>inv, <1>0, TakeKeeps, Positions
    <3> HIDE DEF bytes
    <3>4. /\ caller' = "idle" /\ to_read' = 0 /\ target' = 0 /\ answer'.kind = "data"
      BY <3>1 DEF Answer
    <3> QED
      BY <2>1, <3>1, <3>2, <3>3, <3>4
  <2>2. CASE caller = "skip"
    <3>1. position' = target /\ target = logical_pos + to_read /\ Readable = to_read
          /\ Answer("moved", <<>>)
      BY <1>inv, <2>2 DEF ReadBytes, Return, Moved, Threads
    <3> QED
      BY <1>inv, <2>2, <3>1, <1>0, TakeKeeps, Positions DEF Answer
  <2> QED
    BY <1>0, <2>1, <2>2 DEF Reading
<1>2. /\ UNCHANGED <<logical_size, io_eof_reached, io_error, seeking, abort_request, inner,
                      buffer_task>>
      /\ asleep' = asleep \ {"buffer_task"} /\ "caller" \notin asleep
  BY DEF ReadBytes, WakeFiller, Wake, Reading
<1>t. /\ fifo' \in Seq(0..FileSize - 1) /\ Len(fifo') <= Capacity
      /\ read_pos' \in 0..Backwards /\ read_pos' <= Len(fifo') /\ logical_pos' \in 0..FileSize
      /\ RingSpace' \in Nat /\ RingSpace <= RingSpace'
  BY <1>inv, <1>0, TakeKeeps, Sizes, Bounds DEF RingSpace
<1>3. TypeOK'
  BY <1>inv, <1>t, <1>1, <1>2 DEF TypeOK, seeking, inner
<1>4. Threads'
  <2>1. buffer_task = "fill" => to_copy <= RingSpace'
    BY <1>inv, <1>t, Sizes DEF Threads, TypeOK
  <2> QED
    BY <1>inv, <1>0, <1>1, <1>2, <2>1 DEF Threads, seeking, inner, Reading
<1>5. Content'
  BY <1>inv, <1>0, <1>1, <1>2, TakeKeeps, Sizes, Positions
     DEF Content, Lost, Sought, Origin, seeking, inner
<1>6. Place'
  <2>1. caller = "read" => position = logical_pos
    BY <1>inv, <1>0, TakeKeeps DEF Place, NoMore, Sought
  <2> QED
    BY <1>0, <1>1, <2>1 DEF Place, Reading
<1>7. SleepersHaveNothingToDo'
  BY <1>inv, <1>1, <1>2 DEF SleepersHaveNothingToDo
<1> QED
  BY <1>3, <1>4, <1>5, <1>6, <1>7 DEF IInv

LEMMA ReadWaitKept == ASSUME IInv, ReadWait PROVE IInv'
<1>inv. TypeOK /\ Threads /\ Content /\ Place /\ SleepersHaveNothingToDo
  BY DEF IInv
<1>0. /\ Reading /\ ~abort_request
      /\ UNCHANGED <<logical_size, io_eof_reached, io_error, seeking, abort_request, inner,
                     buffer_task, caller, target, position, answer>>
      /\ asleep' = (asleep \ {"buffer_task"}) \cup {"caller"}
  BY DEF ReadWait, WakeAndSleep
<1>1. CASE Readable = 0 /\ ~io_eof_reached /\ UNCHANGED <<ring, logical_pos, to_read>>
  <2>1. TypeOK'
    BY <1>inv, <1>0, <1>1 DEF TypeOK, seeking, inner, ring
  <2>2. Threads'
    BY <1>inv, <1>0, <1>1 DEF Threads, seeking, inner, ring, RingSpace, Reading
  <2>3. Content'
    BY <1>inv, <1>0, <1>1 DEF Content, Lost, Sought, Origin, RingSize, seeking, inner, ring
  <2>4. Place'
    BY <1>inv, <1>0, <1>1 DEF Place, NoMore, Sought, RingSize, seeking, ring
  <2>5. SleepersHaveNothingToDo'
    BY <1>inv, <1>0, <1>1 DEF SleepersHaveNothingToDo, Threads
  <2> QED
    BY <2>1, <2>2, <2>3, <2>4, <2>5 DEF IInv
<1>2. CASE caller = "skip" /\ Readable < to_read /\ TakeReadable /\ to_read' = to_read - Readable
  <2>0. /\ fifo' \in Seq(0..FileSize - 1) /\ Len(fifo') <= Capacity
        /\ read_pos' \in 0..Backwards /\ read_pos' <= Len(fifo') /\ logical_pos' \in 0..FileSize
        /\ RingSpace' \in Nat /\ RingSpace <= RingSpace'
    BY <1>inv, <1>0, <1>2, TakeKeeps, Sizes, Bounds DEF RingSpace
  <2>1. TypeOK'
    <3>1. to_read' \in Nat
      BY <1>inv, <1>0, <1>2, TakeKeeps, Positions
    <3> QED
      BY <1>inv, <1>0, <2>0, <3>1 DEF TypeOK, seeking, inner
  <2>2. Threads'
    <3>1. to_read' > 0 /\ target' = logical_pos' + to_read'
      <4>1. /\ Readable \in Nat /\ to_read \in Nat /\ logical_pos \in Nat
            /\ logical_pos' = logical_pos + Readable
        BY <1>inv, <1>0, <1>2, TakeKeeps, Positions
      <4>2. target' = logical_pos + to_read
        BY <1>inv, <1>0, <1>2 DEF Threads
      <4> QED
        BY <1>2, <4>1, <4>2
    <3>2. buffer_task = "fill" => to_copy <= RingSpace'
      BY <1>inv, <2>0, Sizes DEF Threads, TypeOK
    <3> QED
      BY <1>inv, <1>0, <1>2, <3>1, <3>2 DEF Threads, seeking, inner
  <2>3. Content'
    BY <1>inv, <1>0, <1>2, TakeKeeps, Sizes, Positions
       DEF Content, Lost, Sought, Origin, seeking, inner
  <2>4. Place'
    BY <1>0, <1>2 DEF Place
  <2>5. SleepersHaveNothingToDo'
    BY <1>inv, <1>0, <1>2 DEF SleepersHaveNothingToDo, Threads
  <2> QED
    BY <2>1, <2>2, <2>3, <2>4, <2>5 DEF IInv
<1> QED
  BY <1>1, <1>2 DEF ReadWait

LEMMA FillKept == ASSUME IInv, Fill PROVE IInv'
<1>inv. TypeOK /\ Threads /\ Content /\ Place /\ SleepersHaveNothingToDo
  BY DEF IInv
<1>1. PICK n \in 0..Least(to_copy, FileSize - inner_pos) :
        /\ fifo' = fifo \o Reader!Bytes(inner_pos, n)
        /\ inner_pos' = inner_pos + n
        /\ wrote' = n
        /\ inner_io_error' \in
             IF n = to_copy THEN {"none"}
             ELSE IF inner_pos + n < FileSize THEN {"error"} ELSE {"none", "error"}
  BY DEF Fill
<1>2. /\ buffer_task = "fill" /\ buffer_task' = "filled" /\ ~io_eof_reached
      /\ to_copy <= RingSpace /\ to_copy > 0 /\ "buffer_task" \notin asleep
      /\ UNCHANGED <<read_pos, logical_pos, logical_size, io_eof_reached, io_error, seeking,
                     abort_request, to_copy, callVars, asleep>>
  BY <1>inv DEF Fill, Threads
<1>3. /\ n \in Nat /\ n <= to_copy /\ n <= Chunk /\ inner_pos + n <= FileSize
      /\ to_copy \in Nat
  <2>1. /\ to_copy \in Nat /\ to_copy <= Chunk /\ Chunk \in Nat
        /\ inner_pos \in Nat /\ inner_pos <= FileSize /\ FileSize \in Nat
    BY <1>inv, Positions, Bounds, AsyncIOAssumption DEF TypeOK, AsyncIOAssumption
  <2>2. n \in Nat /\ n <= to_copy /\ n <= FileSize - inner_pos
    BY <2>1, <1>1 DEF Least
  <2> QED
    BY <2>1, <2>2
<1>4. /\ fifo' \in Seq(0..FileSize - 1) /\ Len(fifo') = Len(fifo) + n
      /\ \A i \in 1 .. Len(fifo) + n :
           fifo'[i] = IF i <= Len(fifo) THEN fifo[i] ELSE inner_pos + (i - Len(fifo)) - 1
  <2>1. /\ Reader!Bytes(inner_pos, n) \in Seq(0..FileSize - 1)
        /\ Len(Reader!Bytes(inner_pos, n)) = n
        /\ \A i \in 1..n : Reader!Bytes(inner_pos, n)[i] = inner_pos + i - 1
    BY <1>inv, <1>3, FileBytes, Positions
  <2>2. /\ fifo' \in Seq(0..FileSize - 1)
        /\ Len(fifo') = Len(fifo) + Len(Reader!Bytes(inner_pos, n))
        /\ \A i \in 1 .. Len(fifo) + Len(Reader!Bytes(inner_pos, n)) :
             fifo'[i] = IF i <= Len(fifo) THEN fifo[i]
                        ELSE Reader!Bytes(inner_pos, n)[i - Len(fifo)]
    BY <1>inv, <1>1, <2>1, ConcatProperties, RingBytes
  <2> QED
    BY <1>inv, <2>1, <2>2, <1>3, Sizes
<1>5. Len(fifo') \in Nat /\ Len(fifo') <= Capacity /\ read_pos <= Len(fifo')
      /\ RingSize' = RingSize + n
  <2>1. Len(fifo') = Len(fifo) + n /\ read_pos' = read_pos /\ n <= RingSpace
    BY <1>inv, <1>2, <1>3, <1>4, Sizes
  <2> QED
    BY <1>inv, <1>3, <2>1, Sizes, Bounds DEF RingSize
<1>6. inner_io_error' \in {"none", "error"}
      /\ (n = 0 /\ inner_io_error' = "none" => inner_pos' = FileSize)
  <2>1. inner_io_error' \in {"none", "error"}
    BY <1>1
  <2>2. ASSUME n = 0, inner_io_error' = "none" PROVE inner_pos' = FileSize
    <3>1. n # to_copy /\ ~(inner_pos + n < FileSize)
      BY <1>1, <1>2, <1>3, <2>2
    <3> QED
      BY <1>inv, <1>1, <1>3, <3>1, Positions, Bounds
  <2> QED
    BY <2>1, <2>2
<1>7. TypeOK'
  <2>1. inner_pos' \in 0..FileSize /\ wrote' \in 0..Chunk
    BY <1>inv, <1>1, <1>3, Positions, AsyncIOAssumption DEF AsyncIOAssumption
  <2> QED
    BY <1>inv, <1>2, <1>4, <1>5, <1>6, <2>1 DEF TypeOK, seeking, callVars
<1>8. Threads'
  BY <1>inv, <1>2 DEF Threads, seeking, callVars
<1>9. Content'
  <2> SUFFICES ASSUME ~abort_request PROVE Content'
    BY <1>2 DEF Content
  <2>1. ~Lost /\ Sought' = Sought /\ Origin' = Origin /\ (Sought => seek_ret # Failed)
    BY <1>inv, <1>2 DEF Lost, Sought, Origin, Content, seeking, callVars
  <2>2. /\ inner_pos = Origin + RingSize
        /\ \A i \in 1..Len(fifo) : fifo[i] = Origin - read_pos + i - 1
        /\ Sought => read_pos = 0
    BY <1>inv, <2>1 DEF Content
  <2>3. Origin \in Nat
    BY <1>inv, Positions, Bounds DEF Origin, Sought, TypeOK, Failed
  <2>4. inner_pos' = Origin' + RingSize'
    BY <1>inv, <1>1, <1>3, <1>5, <2>1, <2>2, <2>3, Sizes
  <2>5. ASSUME NEW i \in 1..Len(fifo') PROVE fifo'[i] = Origin' - read_pos' + i - 1
    <3>1. CASE i <= Len(fifo)
      BY <1>inv, <3>1, <1>2, <1>3, <1>4, <2>1, <2>2, Sizes
    <3>2. CASE i > Len(fifo)
      BY <1>inv, <3>2, <1>2, <1>3, <1>4, <2>1, <2>2, <2>3, Sizes
    <3> QED
      BY <1>inv, <3>1, <3>2, <1>4, Sizes
  <2> QED
    BY <1>1, <1>2, <1>6, <2>1, <2>2, <2>4, <2>5 DEF Content, seeking
<1>10. Place'
  BY <1>inv, <1>2 DEF Place, NoMore, Sought, seeking, callVars
<1>11. SleepersHaveNothingToDo'
  BY <1>inv, <1>2 DEF SleepersHaveNothingToDo, seeking, callVars
<1> QED
  BY <1>7, <1>8, <1>9, <1>10, <1>11 DEF IInv

--------------------------------------------------------------------------------
(* The invariant of the specification. *)

LEMMA InitIInv == Init => IInv
<1> SUFFICES ASSUME Init PROVE IInv
  OBVIOUS
<1> USE DEF Init, Reader!ReaderInit, Reader!NoAnswer
<1>1. TypeOK
  <2>1. 0 \in 0..Backwards /\ 0 \in 0..FileSize /\ 0 \in Failed..FileSize /\ 0 \in 0..Chunk
    BY Bounds, AsyncIOAssumption DEF Failed, AsyncIOAssumption
  <2>2. fifo \in Seq(0..FileSize - 1) /\ Len(fifo) = 0
    BY EmptyRing
  <2>3. read_pos <= Len(fifo) /\ Len(fifo) <= Capacity
    BY <2>2, Bounds
  <2>4. answer.kind = "none" /\ logical_size \in {0, FileSize} /\ asleep = {}
    OBVIOUS
  <2>5. /\ abort_request \in BOOLEAN /\ io_eof_reached \in BOOLEAN
        /\ seek_request \in BOOLEAN /\ seek_completed \in BOOLEAN
        /\ position \in Nat /\ to_read \in Nat /\ target \in Nat
    OBVIOUS
  <2> QED
    BY <2>1, <2>2, <2>3, <2>4, <2>5 DEF TypeOK
<1>2. Threads
  BY DEF Threads
<1>3. Content
  BY EmptyRing DEF Content, Sought, Origin, Lost, RingSize
<1>4. Place /\ SleepersHaveNothingToDo
  BY DEF Place, SleepersHaveNothingToDo
<1> QED
  BY <1>1, <1>2, <1>3, <1>4 DEF IInv

LEMMA IInvKept == IInv /\ [Next]_vars => IInv'
<1> SUFFICES ASSUME IInv, [Next]_vars PROVE IInv'
  OBVIOUS
<1>1. CASE Calls
  <2>1. ASSUME NEW n \in 1..MaxRead, Read(n) PROVE IInv'
    BY <2>1, ReadKept
  <2>2. ASSUME NEW pos \in 0..FileSize + 1, Seek(pos) PROVE IInv'
    <3>1. pos \in Nat
      BY Bounds
    <3> QED
      BY <2>2, <3>1, SeekBackKept, SeekAheadKept, SeekRefusedKept, SeekSlowKept DEF Seek
  <2> QED
    BY <1>1, <2>1, <2>2, SeekHereKept, CloseKept DEF Calls
<1>2. CASE InCall
  BY <1>2, ReadInterruptedKept, ReadBytesKept, ReadEndKept, ReadWaitKept, RequestSeekKept,
     AwaitSeekKept, JoinKept DEF InCall
<1>3. CASE BufferTask
  BY <1>3, ExitKept, SeekInnerKept, SleepKept, FindRoomKept, FillKept, FilledKept
     DEF BufferTask
<1>4. CASE Interrupt
  BY <1>4, InterruptKept
<1>5. CASE UNCHANGED vars
  <2> USE <1>5 DEF vars, ring, seeking, inner, callVars
  <2>1. TypeOK' /\ Threads'
    BY DEF IInv, TypeOK, Threads, RingSpace
  <2>2. Content' /\ Place'
    BY DEF IInv, Content, Place, NoMore, Lost, Sought, Origin, RingSize
  <2>3. SleepersHaveNothingToDo'
    BY DEF IInv, SleepersHaveNothingToDo, RingSpace
  <2> QED
    BY <2>1, <2>2, <2>3 DEF IInv
<1> QED
  BY <1>1, <1>2, <1>3, <1>4, <1>5 DEF Next

LEMMA Invariant == Spec => []IInv
  BY InitIInv, IInvKept, PTL DEF Spec

\* ijkasync.c:62-140, the ring buffer: it never holds more than its two capacities
\* together, the place read next stays inside it, and no position leaves the file (TypeOK).
THEOREM Typing == Spec => []TypeOK
<1>1. IInv => TypeOK
  BY DEF IInv
<1> QED
  BY <1>1, Invariant, PTL

\* The hand-over between async_buffer_task, async_read_internal and async_seek: the two
\* threads are never asleep together, nor is either while the other waits for it
\* (SleepersHaveNothingToDo).
THEOREM NobodySleepsInVain == Spec => []SleepersHaveNothingToDo
<1>1. IInv => SleepersHaveNothingToDo
  BY DEF IInv
<1> QED
  BY <1>1, Invariant, PTL

--------------------------------------------------------------------------------
(* Every step is a step of FileReader, or none. *)

LEMMA ReadBytesReads == ASSUME IInv, ReadBytes PROVE Reader!ReaderNext
<1>inv. TypeOK /\ Threads /\ Content /\ Place
  BY DEF IInv
<1>1. TakeReadable /\ Reading /\ ~abort_request
  BY DEF ReadBytes
<1>2. CASE caller = "read"
  <2>1. position = logical_pos
    BY <1>inv, <1>1, <1>2, TakeKeeps DEF Place, NoMore, Sought
  <2>2. /\ Readable \in Nat /\ Readable > 0 /\ Readable <= RingSize
        /\ logical_pos + Readable <= FileSize /\ logical_pos \in Nat
        /\ \A i \in 1..Len(fifo) : fifo[i] = logical_pos - read_pos + i - 1
    BY <1>inv, <1>1, TakeKeeps, Positions, Bounds
  <2> DEFINE bytes == SubSeq(fifo, read_pos + 1, read_pos + Readable)
  <2>3. Answer("data", bytes) /\ position' = position + Len(bytes)
    BY <1>2 DEF ReadBytes, Return
  <2>4. bytes = Reader!Bytes(logical_pos, Readable) /\ Len(bytes) = Readable
    BY <1>inv, <2>2, ReadsTheFile, FileBytes
  <2> HIDE DEF bytes
  <2>5. /\ answer' = [kind |-> "data", bytes |-> Reader!Bytes(position, Readable)]
        /\ position' = position + Readable
    BY <2>1, <2>3, <2>4 DEF Answer
  <2>6. Readable \in 1..FileSize /\ position + Readable <= FileSize
    BY <2>1, <2>2, Bounds
  <2> QED
    BY <2>5, <2>6 DEF Reader!ReaderNext, Reader!Deliver
<1>3. CASE caller = "skip"
  BY <1>inv, <1>3, Positions
     DEF ReadBytes, Return, Moved, Answer, Reader!ReaderNext, Reader!Move
<1> QED
  BY <1>1, <1>2, <1>3 DEF Reading

\* The end is reported where the file ends, and nowhere else.
LEMMA ReadEndReads == ASSUME IInv, ReadEnd PROVE Reader!ReaderNext
<1>inv. TypeOK /\ Threads /\ Content /\ Place
  BY DEF IInv
<1>1. CASE caller = "skip"
  BY <1>inv, <1>1, Positions
     DEF ReadEnd, Return, Moved, Answer, Reader!ReaderNext, Reader!Move
<1>2. CASE caller = "read" /\ io_error # "none"
  <2>1. answer' = [kind |-> "error", bytes |-> <<>>] /\ position' = position + Len(<<>>)
    BY <1>2 DEF ReadEnd, Return, Answer
  <2> QED
    BY <2>1, <1>inv, EmptyRing, Positions DEF Reader!ReaderNext, Reader!Fail
<1>3. CASE caller = "read" /\ io_error = "none"
  <2>1. /\ answer' = [kind |-> "eof", bytes |-> <<>>] /\ position' = position + Len(<<>>)
        /\ io_eof_reached /\ ~abort_request /\ Readable = 0
    BY <1>3 DEF ReadEnd, Return, Answer
  <2>2. RingSize = 0
    BY <1>inv, <1>3, <2>1, Sizes, Positions DEF Readable, Least, Threads
  <2>3. logical_pos = FileSize
    BY <1>inv, <1>3, <2>1, <2>2, Positions DEF Content, Lost, Sought, Origin
  <2>4. position >= FileSize
    BY <1>inv, <1>3, <2>1, <2>3, Bounds DEF Place, NoMore, Sought
  <2> QED
    BY <2>1, <2>4, <1>inv, EmptyRing, Positions DEF Reader!ReaderNext, Reader!End
<1> QED
  BY <1>1, <1>2, <1>3 DEF ReadEnd, Reading

LEMMA InterruptedReads == ASSUME IInv, ReadInterrupted PROVE Reader!ReaderNext
<1>inv. TypeOK
  BY DEF IInv
<1>1. CASE caller = "skip"
  BY <1>inv, <1>1, Positions
     DEF ReadInterrupted, Return, Moved, Answer, Reader!ReaderNext, Reader!Move
<1>2. CASE caller = "read"
  <2>1. answer' = [kind |-> "error", bytes |-> <<>>] /\ position' = position + Len(<<>>)
    BY <1>2 DEF ReadInterrupted, Return, Answer
  <2> QED
    BY <2>1, <1>inv, EmptyRing, Positions DEF Reader!ReaderNext, Reader!Fail
<1> QED
  BY <1>1, <1>2 DEF ReadInterrupted, Reading

LEMMA AwaitSeekReads == ASSUME IInv, AwaitSeek PROVE [Reader!ReaderNext]_(Reader!readerVars)
<1>inv. TypeOK
  BY DEF IInv
<1> USE DEF Reader!ReaderNext, Reader!readerVars
<1>1. CASE abort_request
  BY <1>1 DEF AwaitSeek, Answer, Reader!Fail
<1>2. CASE ~abort_request /\ seek_completed /\ seek_ret # Failed
  BY <1>inv, <1>2, AwaitSeekCases, Positions DEF Moved, Answer, Reader!Move
<1>3. CASE ~abort_request /\ seek_completed /\ seek_ret = Failed
  BY <1>inv, <1>3, AwaitSeekCases DEF Answer, Reader!Fail
<1>4. CASE ~abort_request /\ ~seek_completed
  BY <1>inv, <1>4, AwaitSeekCases DEF callVars
<1> QED
  BY <1>1, <1>2, <1>3, <1>4

LEMMA StepReads == IInv /\ [Next]_vars => [Reader!ReaderNext]_(Reader!readerVars)
<1> SUFFICES ASSUME IInv, [Next]_vars PROVE [Reader!ReaderNext]_(Reader!readerVars)
  OBVIOUS
<1>inv. TypeOK
  BY DEF IInv
<1> USE DEF Reader!readerVars
<1>1. CASE Calls
  <2>1. ASSUME NEW n \in 1..MaxRead, Read(n) PROVE UNCHANGED <<position, answer>>
    BY <2>1 DEF Read
  <2>2. CASE SeekHere
    BY <1>inv, <2>2, Positions DEF SeekHere, Moved, Answer, Reader!ReaderNext, Reader!Move
  <2>3. ASSUME NEW pos \in 0..FileSize + 1, Seek(pos)
        PROVE  [Reader!ReaderNext]_(Reader!readerVars)
    <3>1. pos \in Nat
      BY Bounds
    <3>2. CASE SeekBack(pos)
      BY <3>1, <3>2 DEF SeekBack, Moved, Answer, Reader!ReaderNext, Reader!Move
    <3>3. CASE SeekAhead(pos) \/ SeekSlow(pos)
      BY <3>3 DEF SeekAhead, SeekSlow
    <3>4. CASE SeekRefused(pos)
      BY <3>4 DEF SeekRefused, Answer, Reader!ReaderNext, Reader!Fail
    <3> QED
      BY <2>3, <3>2, <3>3, <3>4 DEF Seek
  <2>4. CASE Close
    BY <2>4 DEF Close
  <2> QED
    BY <1>1, <2>1, <2>2, <2>3, <2>4 DEF Calls
<1>2. CASE InCall
  <2>1. CASE ReadWait
    BY <2>1 DEF ReadWait
  <2>2. CASE RequestSeek
    BY <2>2 DEF RequestSeek, Answer, Reader!ReaderNext, Reader!Fail
  <2>3. CASE Join
    BY <2>3 DEF Join, Reader!ReaderNext
  <2> QED
    BY <1>2, <2>1, <2>2, <2>3, InterruptedReads, ReadBytesReads, ReadEndReads, AwaitSeekReads
       DEF InCall
<1>3. CASE BufferTask \/ Interrupt
  BY <1>3 DEF BufferTask, Exit, SeekInner, Sleep, FindRoom, Fill, Filled, Interrupt, callVars
<1>4. CASE UNCHANGED vars
  BY <1>4 DEF vars, callVars
<1> QED
  BY <1>1, <1>2, <1>3, <1>4 DEF Next

\* ijkasync.c behind an AVIOContext is a plain file (IsFileReader): for a file, a ring and
\* reads of any size, a read delivers the bytes at the caller's position or fails, and
\* only a read at the end of the file reports the end.
THEOREM Implements == Spec => IsFileReader
<1>1. Init => Reader!ReaderInit
  BY DEF Init
<1> QED
  BY <1>1, Invariant, StepReads, PTL DEF Spec, IsFileReader, Reader!ReaderSpec
================================================================================
