------------------------ MODULE StreamPipelineProofs ------------------------
(***************************************************************************)
(* Theorems about StreamPipeline for any file, any options and any number  *)
(* of seeks.                                                               *)
(***************************************************************************)
EXTENDS StreamPipeline, SequenceTheorems, FiniteSetTheorems, TLAPS

--------------------------------------------------------------------------------
(* The inductive invariant. *)

Controls == [pause_req : BOOLEAN, paused : BOOLEAN, aout_paused : BOOLEAN,
             step : BOOLEAN, buffering_on : BOOLEAN, auto_resume : BOOLEAN,
             seek_req : BOOLEAN, seek_pos : Positions]
Readers  == [pc : RdPcs, todo : SUBSET Streams, pos : Positions, loop : Nat,
             eof : BOOLEAN, completed : BOOLEAN, error : BOOLEAN, broken : BOOLEAN]
Queues   == [serial : Nat, pkts : Seq(Packet)]
Decoders == [pc : {"decode", "push", "get", "wait", "starved", "got"}, pkt : 0..EndPacket,
             pkt_serial : Nat, finished : Nat, codec : Seq(1..Len(Media)),
             draining : BOOLEAN]
Pictures == [pos : 1..Len(Media), serial : Nat]

Types ==
  /\ is \in Controls /\ rd \in Readers
  /\ q \in [Streams -> Queues] /\ dec \in [Streams -> Decoders]
  /\ frames \in [Streams -> Seq(Pictures)]
  /\ out \in [Streams -> {"idle", "due", "shown", "read"}]
  /\ seeks \in Nat /\ from \in Seq(Positions)
  /\ rd.pc \in {"discontinuity", "store"} => rd.pos <= Len(Media)
  /\ \A s \in Streams : /\ dec[s].pc = "push" => dec[s].codec # <<>>
                        /\ out[s] = "due" => frames[s] # <<>>

\* The decoder has taken a flush packet and not acted on it.
Fresh(d) == d.pc = "got" /\ d.pkt = FlushPacket

IsData(p) == p \notin {FlushPacket, EndPacket}

\* Serials grow along a queue, n being the one of the packet taken last; each begins
\* with its flush packet, and nothing but null packets follows a null packet in it.
Ordered(queue, n) ==
  LET pkts == queue.pkts
  IN  /\ n <= queue.serial
      /\ \A i \in 1..Len(pkts) :
           /\ n <= pkts[i].serial /\ pkts[i].serial <= queue.serial
           /\ IF pkts[i].pkt = FlushPacket THEN n < pkts[i].serial
              ELSE pkts[i].serial = IF i = 1 THEN n ELSE pkts[i - 1].serial
      /\ \A i, j \in 1..Len(pkts) : i < j =>
           /\ pkts[i].serial <= pkts[j].serial
           /\ pkts[j].pkt = FlushPacket => pkts[i].serial < pkts[j].serial
           /\ pkts[i].pkt = EndPacket /\ pkts[j].serial = pkts[i].serial
                => pkts[j].pkt = EndPacket

\* The last of them is the serial of the queue.
UpToDate(queue, n) ==
  IF queue.pkts = <<>> THEN n = queue.serial
  ELSE queue.pkts[Len(queue.pkts)].serial = queue.serial

\* The decoder has met the end of serial n.
MetEnd(d, n) ==
  /\ d.pkt_serial = n /\ ~Fresh(d)
  /\ d.finished = n \/ d.draining \/ (d.pc = "got" /\ d.pkt = EndPacket)

\* A null packet of the current serial has been queued.
Ended(queue, d) ==
  \/ \E i \in 1..Len(queue.pkts) :
       queue.pkts[i].pkt = EndPacket /\ queue.pkts[i].serial = queue.serial
  \/ MetEnd(d, queue.serial)

\* What the decoder keeps is of the serial it works for, once it has flushed its codec.
Decodes(queue, d) ==
  /\ d.finished <= d.pkt_serial
  /\ Fresh(d) => d.finished < d.pkt_serial
  /\ Len(d.codec) <= CodecDelay + 1
  /\ d.pkt_serial = queue.serial /\ ~Fresh(d) /\ d.pc \notin {"decode", "push"}
       => Len(d.codec) <= CodecDelay
  /\ MetEnd(d, queue.serial) =>
       /\ \A i \in 1..Len(queue.pkts) : queue.pkts[i].pkt = EndPacket
       /\ ~(d.pc = "got" /\ IsData(d.pkt))
  /\ d.finished = queue.serial => d.codec = <<>>

Flowing(queue, d) ==
  /\ queue.serial > 0
  /\ Ordered(queue, d.pkt_serial) /\ Decodes(queue, d)

\* The read thread is about to put the flush packet it has emptied the queue for.
Emptied(s) == rd.pc = "flushed" /\ AudioFirst(s)

Stream(s) ==
  /\ Flowing(q[s], dec[s])
  /\ q[s].serial <= Len(from)
  /\ s \in rd.todo /\ rd.pc \in {"flush", "flushed", "discontinuity"}
       => q[s].serial < Len(from)
  /\ IF Emptied(s) THEN q[s].pkts = <<>> ELSE UpToDate(q[s], dec[s].pkt_serial)
  /\ Ended(q[s], dec[s]) =>
       \/ rd.broken \/ rd.pos > Len(Media)
       \/ s \in rd.todo /\ rd.pc \in {"flush", "flushed"}
  /\ Len(frames[s]) <= FrameSlots

Flow ==
  /\ rd.pc \in {"discontinuity", "store"} => ~rd.broken
  /\ rd.pc = "null" => rd.broken \/ rd.pos > Len(Media)
  /\ \A s \in Streams : Stream(s)

\* What a read thread at r may still put in the queue of s before it is back at the top.
Coming(r, s) ==
  CASE r.pc \in {"drained1", "drained2", "over", "complete", "read"} -> 2
    [] r.pc = "null" -> IF s \in r.todo THEN 2 ELSE 0
    [] r.pc = "discontinuity" ->
         (IF s \in r.todo THEN 1 ELSE 0) + (IF Media[r.pos] = s THEN 1 ELSE 0)
    [] r.pc = "store" -> IF Media[r.pos] = s THEN 1 ELSE 0
    [] OTHER -> 0

Load(s) == IF s \in Streams THEN Len(q[s].pkts) + Coming(rd, s) ELSE 0

\* The passes that may have put something in a queue that was full: one, and one for
\* each seek; not the one that a seek is about to let by the test.
Passes == IF rd.pc \in {"rebuffer", "room"} /\ is.seek_req THEN seeks ELSE seeks + 1

Share(s) == IF s \in Streams THEN 2 * Passes ELSE 0

\* The queue of each stream is bounded too: after the flush of one, the other may hold
\* all there is.
Small ==
  /\ \A s \in Streams : Load(s) <= MaxBufferSize + 2 * Passes
  /\ Load("audio") + Load("video") <= MaxBufferSize + Share("audio") + Share("video")

IInv == Types /\ Flow /\ Small

--------------------------------------------------------------------------------
(* Pausing leaves a seek request alone. *)

LEMMA FileTyping == Len(Media) \in Nat /\ \A k \in 1..Len(Media) : Media[k] \in Streams
BY MediaAssumption

LEMMA TogglingTyping ==
  ASSUME NEW i \in Controls, NEW on \in BOOLEAN
  PROVE  /\ StreamTogglePause(i, on) \in Controls
         /\ StreamTogglePause(i, on).seek_req = i.seek_req
BY DEF Controls, StreamTogglePause

LEMMA UpdatingTyping ==
  ASSUME NEW i \in Controls
  PROVE  StreamUpdatePause(i) \in Controls /\ StreamUpdatePause(i).seek_req = i.seek_req
<1>1. (~i.step /\ (i.pause_req \/ i.buffering_on)) \in BOOLEAN
  OBVIOUS
<1> QED BY <1>1, TogglingTyping DEF StreamUpdatePause

LEMMA PausingTyping ==
  ASSUME NEW i \in Controls, NEW on \in BOOLEAN
  PROVE  TogglePause(i, on) \in Controls /\ TogglePause(i, on).seek_req = i.seek_req
<1> DEFINE j == [i EXCEPT !.pause_req = on, !.auto_resume = ~on]
<1>1. j \in Controls /\ j.seek_req = i.seek_req
  BY DEF Controls
<1> HIDE DEF j
<1>2. /\ StreamUpdatePause(j) \in Controls
      /\ StreamUpdatePause(j).seek_req = i.seek_req
  BY <1>1, UpdatingTyping
<1>3. TogglePause(i, on) = [StreamUpdatePause(j) EXCEPT !.step = FALSE]
  BY DEF TogglePause, j
<1> QED BY <1>2, <1>3 DEF Controls

LEMMA SteppingTyping ==
  ASSUME NEW i \in Controls
  PROVE  StepToNextFrame(i) \in Controls /\ StepToNextFrame(i).seek_req = i.seek_req
<1> DEFINE j == [i EXCEPT !.step = TRUE]
<1>1. j \in Controls /\ j.seek_req = i.seek_req
  BY DEF Controls
<1> HIDE DEF j
<1>2. /\ StreamTogglePause(j, FALSE) \in Controls
      /\ StreamTogglePause(j, FALSE).seek_req = i.seek_req
  BY <1>1, TogglingTyping
<1>3. StepToNextFrame(i) = IF i.paused THEN StreamTogglePause(j, FALSE) ELSE j
  BY DEF StepToNextFrame, j
<1> QED BY <1>1, <1>2, <1>3

LEMMA BufferingTyping ==
  ASSUME NEW i \in Controls, NEW on \in BOOLEAN
  PROVE  ToggleBuffering(i, on) \in Controls /\ ToggleBuffering(i, on).seek_req = i.seek_req
<1> DEFINE j == [i EXCEPT !.buffering_on = on]
<1>1. j \in Controls /\ j.seek_req = i.seek_req
  BY DEF Controls
<1> HIDE DEF j
<1>2. StreamUpdatePause(j) \in Controls /\ StreamUpdatePause(j).seek_req = i.seek_req
  BY <1>1, UpdatingTyping
<1>3. \/ ToggleBuffering(i, on) = StreamUpdatePause(j)
      \/ ToggleBuffering(i, on) = i
  BY DEF ToggleBuffering, j
<1> QED BY <1>2, <1>3

LEMMA CheckingTyping ==
  ASSUME NEW i \in Controls, NEW j \in CheckBuffering(i)
  PROVE  j \in Controls /\ j.seek_req = i.seek_req
BY BufferingTyping DEF CheckBuffering

LEMMA SeekingTyping ==
  ASSUME NEW i \in Controls, NEW p \in Positions
  PROVE  StreamSeek(i, p) \in Controls
BY DEF StreamSeek, Controls

LEMMA PlayingTyping ==
  ASSUME NEW i \in Controls
  PROVE  SeekPlay(i) \in Controls /\ SeekPlay(i).seek_req = i.seek_req
<1> DEFINE j == [i EXCEPT !.pause_req = FALSE, !.auto_resume = FALSE,
                          !.buffering_on = PacketBuffering \/ @]
           k == IF i.auto_resume THEN StreamUpdatePause(j) ELSE i
<1>1. j \in Controls /\ j.seek_req = i.seek_req
  BY PipelineAssumption DEF Controls
<1> HIDE DEF j
<1>2. k \in Controls /\ k.seek_req = i.seek_req
  BY <1>1, UpdatingTyping
<1>3. SeekPlay(i) = IF k.pause_req THEN StepToNextFrame(k) ELSE k
  BY DEF SeekPlay, j
<1> HIDE DEF k
<1> QED BY <1>2, <1>3, SteppingTyping

--------------------------------------------------------------------------------
(* Packet queues. *)

LEMMA PutFacts ==
  ASSUME NEW queue \in Queues, NEW p \in 0..EndPacket
  PROVE  LET new == PacketPut(queue, p)
         IN  /\ new \in Queues
             /\ new.serial = IF p = FlushPacket THEN queue.serial + 1 ELSE queue.serial
             /\ Len(new.pkts) = Len(queue.pkts) + 1
             /\ \A i \in 1..Len(queue.pkts) : new.pkts[i] = queue.pkts[i]
             /\ new.pkts[Len(queue.pkts) + 1] = [pkt |-> p, serial |-> new.serial]
<1> DEFINE n == IF p = FlushPacket THEN queue.serial + 1 ELSE queue.serial
           e == [pkt |-> p, serial |-> n]
<1>1. n \in Nat /\ e \in Packet
  BY DEF Queues, Packet
<1>2. PacketPut(queue, p) = [serial |-> n, pkts |-> Append(queue.pkts, e)]
  BY DEF PacketPut
<1> HIDE DEF n
<1>3. /\ Append(queue.pkts, e) \in Seq(Packet)
      /\ Len(Append(queue.pkts, e)) = Len(queue.pkts) + 1
      /\ \A i \in 1..Len(queue.pkts) : Append(queue.pkts, e)[i] = queue.pkts[i]
      /\ Append(queue.pkts, e)[Len(queue.pkts) + 1] = e
  BY <1>1, AppendProperties DEF Queues
<1> QED BY <1>1, <1>2, <1>3 DEF n, Queues

LEMMA FlushFacts ==
  ASSUME NEW queue \in Queues
  PROVE  PacketFlush(queue) = [serial |-> queue.serial, pkts |-> <<>>]
         /\ PacketFlush(queue) \in Queues
<1>1. \A x \in Seq(Packet) :
        /\ [queue EXCEPT !.pkts = x] = [serial |-> queue.serial, pkts |-> x]
        /\ [queue EXCEPT !.pkts = x] \in Queues
  BY DEF Queues
<1>2. <<>> \in Seq(Packet)
  BY EmptySeq
<1> QED BY <1>1, <1>2 DEF PacketFlush

LEMMA TailFacts ==
  ASSUME NEW S, NEW q0 \in Seq(S), q0 # <<>>
  PROVE  /\ Tail(q0) \in Seq(S) /\ Head(q0) = q0[1] /\ q0[1] \in S
         /\ Len(q0) \in Nat /\ Len(q0) > 0 /\ Len(Tail(q0)) = Len(q0) - 1
         /\ \A i \in 1..Len(Tail(q0)) : Tail(q0)[i] = q0[i + 1]
BY HeadTailProperties

--------------------------------------------------------------------------------
(* Typing. *)

LEMMA InitTypes == Init => Types
<1> SUFFICES ASSUME Init PROVE Types
  OBVIOUS
<1> DEFINE empty == [serial |-> 0, pkts |-> <<>>]
<1>1. empty \in Queues /\ FlushPacket \in 0..EndPacket
  BY FileTyping DEF Queues, FlushPacket, EndPacket
<1>2. PacketPut(empty, FlushPacket) \in Queues
  BY <1>1, PutFacts
<1>3. q \in [Streams -> Queues]
  BY <1>2 DEF Init
<1>4. 1 \in Positions /\ 0 \in 0..EndPacket
  BY FileTyping DEF Positions, EndPacket
<1>5. is \in Controls /\ rd \in Readers
  BY <1>4, PipelineAssumption DEF Init, Controls, Readers, RdPcs
<1>6. dec \in [Streams -> Decoders]
  BY <1>4 DEF Init, Decoders, FlushPacket
<1>7. <<1>> \in Seq(Positions)
  <2>1. Append(<<>>, 1) \in Seq(Positions)
    BY <1>4, EmptySeq, AppendProperties
  <2> QED BY <2>1
<1>8. frames \in [Streams -> Seq(Pictures)]
  BY EmptySeq DEF Init
<1> QED BY <1>3, <1>5, <1>6, <1>7, <1>8 DEF Init, Types

LEMMA SeekPosition == ASSUME Types PROVE 1 \in Positions /\ is.seek_pos \in Positions
BY FileTyping DEF Types, Positions, Controls

LEMMA ApplicationTypes == ASSUME Types, Application PROVE Types'
<1>1. is' \in Controls
  <2>1. CASE StartPlaying \/ PausePlaying
    BY <2>1, PausingTyping DEF Types, StartPlaying, PausePlaying
  <2>2. CASE SeekTo
    BY <2>2, SeekingTyping, PipelineAssumption DEF Types, SeekTo
  <2>3. CASE StartFrom
    <3> DEFINE j == [is EXCEPT !.auto_resume = TRUE]
    <3>1. j \in Controls
      BY DEF Types, Controls
    <3> HIDE DEF j
    <3>2. ToggleBuffering(j, TRUE) \in Controls
      BY <3>1, BufferingTyping
    <3>3. is' = StreamSeek(ToggleBuffering(j, TRUE), 1)
      BY <2>3 DEF StartFrom, j
    <3> QED BY <3>2, <3>3, SeekPosition, SeekingTyping
  <2> QED BY <2>1, <2>2, <2>3 DEF Application
<1>2. seeks' \in Nat
  BY DEF Application, Types
<1> QED BY <1>1, <1>2 DEF Application, Types, history

\* What a step of the read thread leaves alone.
LEMMA ReaderTypes ==
  ASSUME Types, is' \in Controls, rd' \in Readers, q' \in [Streams -> Queues],
         from' \in Seq(Positions), UNCHANGED <<dec, frames, out, seeks>>,
         rd'.pc \in {"discontinuity", "store"} => rd'.pos <= Len(Media)
  PROVE  Types'
BY DEF Types

LEMMA GotoTyping ==
  ASSUME Types, NEW pc \in RdPcs, Goto(pc)
  PROVE  rd' \in Readers /\ rd' = [rd EXCEPT !.pc = pc]
BY DEF Types, Goto, Readers

LEMMA PcsTyping == \A pc \in
  {"top", "seek", "flush", "flushed", "sought", "rebuffer", "room", "drained1",
   "drained2", "over", "complete", "read", "discontinuity", "store", "check", "null", "eof"} :
     pc \in RdPcs
BY DEF RdPcs

LEMMA ReadTopTypes == ASSUME Types, ReadTop, UNCHANGED seeks PROVE Types'
<1>1. is' \in Controls
  BY BufferingTyping DEF ReadTop, Types
<1>2. rd' \in Readers /\ rd'.pc \in {"seek", "room"}
  <2>1. Goto("seek") \/ Goto("room")
    BY DEF ReadTop
  <2> QED BY <2>1, GotoTyping, PcsTyping DEF Types, Readers
<1> QED BY <1>1, <1>2, ReaderTypes DEF ReadTop, history, Types

LEMMA ReadSeekTypes == ASSUME Types, ReadSeek, UNCHANGED seeks PROVE Types'
<1>1. CASE Goto("sought") /\ UNCHANGED from
  <2>1. rd' \in Readers /\ rd'.pc = "sought"
    BY <1>1, GotoTyping, PcsTyping DEF Types, Readers
  <2> QED BY <1>1, <2>1, ReaderTypes DEF ReadSeek, Types
<1>2. CASE /\ rd' = [rd EXCEPT !.pc = "flush", !.todo = Streams, !.pos = is.seek_pos]
           /\ from' = Append(from, is.seek_pos)
  <2>1. rd' \in Readers /\ rd'.pc = "flush"
    BY <1>2, PcsTyping, SeekPosition DEF Types, Readers
  <2>2. from' \in Seq(Positions)
    BY <1>2, SeekPosition, AppendProperties DEF Types
  <2> QED BY <2>1, <2>2, ReaderTypes DEF ReadSeek, Types
<1> QED BY <1>1, <1>2 DEF ReadSeek

LEMMA PutTyping ==
  ASSUME Types, NEW s \in Streams, NEW p \in 0..EndPacket,
         q' = [q EXCEPT ![s] = PacketPut(@, p)]
  PROVE  q' \in [Streams -> Queues]
<1>1. PacketPut(q[s], p) \in Queues
  BY PutFacts DEF Types
<1> QED BY <1>1 DEF Types

LEMMA PacketsTyping == FlushPacket \in 0..EndPacket /\ EndPacket \in 0..EndPacket
BY FileTyping DEF FlushPacket, EndPacket

LEMMA EndNotFlush == EndPacket # FlushPacket
BY FileTyping DEF EndPacket, FlushPacket

LEMMA AfterTyping ==
  ASSUME Types, NEW s, NEW again \in RdPcs, NEW next \in RdPcs, After(s, again, next)
  PROVE  /\ rd' \in Readers /\ rd'.pos = rd.pos /\ rd'.broken = rd.broken
         /\ rd'.todo = rd.todo \ {s}
         /\ rd'.pc = IF rd.todo = {s} THEN next ELSE again
BY DEF Types, After, Readers

LEMMA ReadFlushTypes ==
  ASSUME Types, NEW s \in Streams, ReadFlush(s), UNCHANGED seeks PROVE Types'
<1>1. rd' \in Readers /\ rd'.pc = "flushed"
  BY GotoTyping, PcsTyping DEF ReadFlush, Types, Readers
<1>2. PacketFlush(q[s]) \in Queues
  BY FlushFacts DEF Types
<1>3. q' \in [Streams -> Queues]
  BY <1>2 DEF ReadFlush, Types
<1> QED BY <1>1, <1>3, ReaderTypes DEF ReadFlush, history, Types

LEMMA ReadFlushedTypes ==
  ASSUME Types, NEW s \in Streams, ReadFlushed(s), UNCHANGED seeks PROVE Types'
<1>1. rd' \in Readers /\ rd'.pc \in {"flush", "sought"}
  BY AfterTyping, PcsTyping DEF ReadFlushed
<1>2. q' \in [Streams -> Queues]
  BY PutTyping, PacketsTyping DEF ReadFlushed, PutFlush
<1> QED BY <1>1, <1>2, ReaderTypes DEF ReadFlushed, Types

LEMMA ReadSoughtTypes == ASSUME Types, ReadSought, UNCHANGED seeks PROVE Types'
<1>1. [is EXCEPT !.seek_req = FALSE] \in Controls
  BY DEF Types, Controls
<1>2. is' \in Controls
  BY <1>1, PlayingTyping DEF ReadSought
<1>3. rd' \in Readers /\ rd'.pc = "rebuffer"
  BY PcsTyping DEF ReadSought, Types, Readers
<1> QED BY <1>2, <1>3, ReaderTypes DEF ReadSought, Types

LEMMA ReadRebufferTypes == ASSUME Types, ReadRebuffer, UNCHANGED seeks PROVE Types'
<1>1. is' \in Controls
  BY BufferingTyping DEF ReadRebuffer, Types
<1>2. rd' \in Readers /\ rd'.pc = "room"
  BY GotoTyping, PcsTyping DEF ReadRebuffer, Types, Readers
<1> QED BY <1>1, <1>2, ReaderTypes DEF ReadRebuffer, history, Types

LEMMA ReadRoomTypes == ASSUME Types, ReadRoom, UNCHANGED seeks PROVE Types'
<1>1. is' \in Controls
  BY BufferingTyping DEF ReadRoom, Types
<1>2. rd' \in Readers /\ rd'.pc \in {"top", "read", "drained1"}
  <2>1. CASE Goto("top") \/ Goto("read")
    BY <2>1, GotoTyping, PcsTyping DEF Types, Readers
  <2>2. CASE rd' = [rd EXCEPT !.pc = "drained1", !.todo = Streams]
    BY <2>2, PcsTyping DEF Types, Readers
  <2> QED BY <2>1, <2>2 DEF ReadRoom
<1> QED BY <1>1, <1>2, ReaderTypes DEF ReadRoom, history, Types

LEMMA ReadDrainedTypes ==
  ASSUME Types, NEW s \in Streams, ReadDrained(s), UNCHANGED seeks PROVE Types'
<1>1. rd' \in Readers /\ rd'.pc \in {"drained1", "drained2", "over", "read"}
  <2>1. CASE Goto("drained2") \/ Goto("read")
    BY <2>1, GotoTyping, PcsTyping DEF Types, Readers
  <2>2. CASE After(s, "drained1", "over")
    BY <2>2, AfterTyping, PcsTyping
  <2> QED BY <2>1, <2>2 DEF ReadDrained
<1> QED BY <1>1, ReaderTypes DEF ReadDrained, history, Types

LEMMA ReadOverTypes == ASSUME Types, ReadOver, UNCHANGED seeks PROVE Types'
<1>1. is' \in Controls
  <2>1. CASE is' = StreamSeek(is, 1) \/ UNCHANGED is
    BY <2>1, SeekPosition, SeekingTyping DEF Types
  <2>2. CASE is' = ToggleBuffering([is EXCEPT !.auto_resume = FALSE], FALSE)
    <3>1. [is EXCEPT !.auto_resume = FALSE] \in Controls
      BY DEF Types, Controls
    <3> QED BY <2>2, <3>1, BufferingTyping
  <2> QED BY <2>1, <2>2 DEF ReadOver
<1>2. rd' \in Readers /\ rd'.pc \in {"read", "top", "complete"}
  <2>1. CASE Goto("top")
    BY <2>1, GotoTyping, PcsTyping DEF Types, Readers
  <2>2. CASE rd.loop > 1 /\ rd' = [rd EXCEPT !.pc = "read", !.loop = @ - 1]
    <3>1. rd \in Readers /\ rd.loop - 1 \in Nat
      BY <2>2 DEF Types, Readers
    <3> QED BY <2>2, <3>1, PcsTyping DEF Readers
  <2>3. CASE rd' = [rd EXCEPT !.pc = "complete", !.completed = TRUE]
    BY <2>3, PcsTyping DEF Types, Readers
  <2> QED BY <2>1, <2>2, <2>3 DEF ReadOver
<1> QED BY <1>1, <1>2, ReaderTypes DEF ReadOver, history, Types

LEMMA ReadCompleteTypes == ASSUME Types, ReadComplete, UNCHANGED seeks PROVE Types'
<1>1. is' \in Controls
  BY PausingTyping DEF ReadComplete, Types
<1>2. rd' \in Readers /\ rd'.pc = "read"
  BY GotoTyping, PcsTyping DEF ReadComplete, Types, Readers
<1> QED BY <1>1, <1>2, ReaderTypes DEF ReadComplete, Types

LEMMA ReadPacketTypes == ASSUME Types, ReadPacket, UNCHANGED seeks PROVE Types'
<1> rd \in Readers /\ rd.pos \in Positions
  BY DEF Types, Readers
<1>1. /\ rd' \in Readers /\ rd'.pos = rd.pos
      /\ rd'.pc \in {"discontinuity", "store"}
  <2>1. CASE rd' = [rd EXCEPT !.pc = "store", !.eof = FALSE]
    BY <2>1, PcsTyping DEF Readers
  <2>2. CASE rd' = [rd EXCEPT !.pc = "discontinuity", !.todo = Streams, !.eof = FALSE]
    BY <2>2, PcsTyping DEF Readers
  <2> QED BY <2>1, <2>2 DEF ReadPacket
<1>2. from' \in Seq(Positions)
  <2>1. Append(from, rd.pos) \in Seq(Positions) /\ from \in Seq(Positions)
    BY AppendProperties DEF Types
  <2> QED BY <2>1 DEF ReadPacket
<1> QED BY <1>1, <1>2, ReaderTypes DEF ReadPacket, Types

LEMMA ReadDiscontinuityTypes ==
  ASSUME Types, NEW s \in Streams, ReadDiscontinuity(s), UNCHANGED seeks PROVE Types'
<1>1. /\ rd' \in Readers /\ rd'.pos = rd.pos
      /\ rd'.pc \in {"discontinuity", "store"}
  BY AfterTyping, PcsTyping DEF ReadDiscontinuity
<1>2. q' \in [Streams -> Queues]
  BY PutTyping, PacketsTyping DEF ReadDiscontinuity, PutFlush
<1> QED BY <1>1, <1>2, ReaderTypes DEF ReadDiscontinuity, Types

LEMMA ReadStoreTypes == ASSUME Types, ReadStore, UNCHANGED seeks PROVE Types'
<1>1. rd.pos \in 1..Len(Media)
  BY FileTyping DEF Types, Readers, Positions, ReadStore
<1>2. rd.pos \in 0..EndPacket /\ Media[rd.pos] \in Streams /\ rd.pos + 1 \in Positions
  BY <1>1, FileTyping DEF EndPacket, Positions
<1>3. q' \in [Streams -> Queues]
  BY <1>2, PutTyping DEF ReadStore
<1>4. rd' \in Readers /\ rd'.pc = "check"
  BY <1>2, PcsTyping DEF ReadStore, Types, Readers
<1> QED BY <1>3, <1>4, ReaderTypes DEF ReadStore, history, Types

LEMMA ReadCheckTypes == ASSUME Types, ReadCheck, UNCHANGED seeks PROVE Types'
<1>1. is' \in Controls
  BY CheckingTyping DEF ReadCheck, Types
<1>2. rd' \in Readers /\ rd'.pc = "top"
  BY GotoTyping, PcsTyping DEF ReadCheck, Types, Readers
<1> QED BY <1>1, <1>2, ReaderTypes DEF ReadCheck, history, Types

LEMMA ReadEndTypes == ASSUME Types, ReadEnd, UNCHANGED seeks PROVE Types'
<1>1. is' \in Controls
  BY CheckingTyping DEF ReadEnd, Types
<1>2. rd' \in Readers /\ rd'.pc \in {"eof", "null"}
  BY PcsTyping DEF ReadEnd, Goto, Types, Readers
<1> QED BY <1>1, <1>2, ReaderTypes DEF ReadEnd, history, Types

LEMMA ReadBrokenTypes == ASSUME Types, ReadBroken, UNCHANGED seeks PROVE Types'
<1>1. is' \in Controls
  BY CheckingTyping DEF ReadBroken, Types
<1>2. rd' \in Readers /\ rd'.pc = "null"
  BY PcsTyping DEF ReadBroken, Types, Readers
<1> QED BY <1>1, <1>2, ReaderTypes DEF ReadBroken, history, Types

LEMMA ReadNullTypes ==
  ASSUME Types, NEW s \in Streams, ReadNull(s), UNCHANGED seeks PROVE Types'
<1>1. rd' \in Readers /\ rd'.pc \in {"null", "eof"}
  BY AfterTyping, PcsTyping DEF ReadNull
<1>2. PutEnd(q[s], rd.broken) \in Queues
  BY PutFacts, PacketsTyping DEF PutEnd, Types
<1>3. q' \in [Streams -> Queues]
  BY <1>2 DEF ReadNull, Types
<1> QED BY <1>1, <1>3, ReaderTypes DEF ReadNull, history, Types

LEMMA ReadEofTypes == ASSUME Types, ReadEof, UNCHANGED seeks PROVE Types'
<1>1. is' \in Controls
  BY BufferingTyping DEF ReadEof, Types
<1>2. rd' \in Readers /\ rd'.pc = "top"
  BY PcsTyping DEF ReadEof, Types, Readers
<1> QED BY <1>1, <1>2, ReaderTypes DEF ReadEof, history, Types

\* What a step of a decoder leaves alone.
LEMMA DecoderTypes ==
  ASSUME Types, NEW s \in Streams, NEW d \in Decoders,
         dec' = [dec EXCEPT ![s] = d], d.pc = "push" => d.codec # <<>>,
         is' \in Controls, q' \in [Streams -> Queues],
         frames' \in [Streams -> Seq(Pictures)],
         \A r \in Streams : out[r] = "due" => frames'[r] # <<>>,
         UNCHANGED <<rd, out, seeks, history>>
  PROVE  Types'
BY DEF Types, history

LEMMA ReceiveTypes ==
  ASSUME Types, NEW s \in Streams, Receive(s), UNCHANGED <<rd, out, seeks, history>>
  PROVE  Types'
<1> dec[s] \in Decoders /\ dec \in [Streams -> Decoders]
  BY DEF Types
<1>1. CASE dec[s].codec # <<>> /\ dec' = [dec EXCEPT ![s].pc = "push"]
  <2>1. [dec[s] EXCEPT !.pc = "push"] \in Decoders
    BY DEF Decoders
  <2> QED BY <1>1, <2>1, DecoderTypes DEF Receive, Types, Decoders
<1>2. CASE dec' = [dec EXCEPT ![s].finished = dec[s].pkt_serial, ![s].draining = FALSE]
  <2> DEFINE d == [dec[s] EXCEPT !.finished = dec[s].pkt_serial, !.draining = FALSE]
  <2>1. d \in Decoders /\ d.pc = dec[s].pc /\ d.codec = dec[s].codec
    BY DEF Decoders
  <2>2. dec' = [dec EXCEPT ![s] = d]
    BY <1>2
  <2> HIDE DEF d
  <2> QED BY <2>1, <2>2, DecoderTypes DEF Receive, Types
<1>3. CASE dec' = [dec EXCEPT ![s].pc = "get"]
  <2>1. [dec[s] EXCEPT !.pc = "get"] \in Decoders
    BY DEF Decoders
  <2> QED BY <1>3, <2>1, DecoderTypes DEF Receive, Types, Decoders
<1> QED BY <1>1, <1>2, <1>3 DEF Receive

LEMMA PushFacts ==
  ASSUME Types, NEW s \in Streams, Push(s)
  PROVE  /\ dec[s].codec # <<>> /\ Len(frames[s]) < FrameSlots
         /\ Head(dec[s].codec) \in 1..Len(Media)
         /\ Tail(dec[s].codec) \in Seq(1..Len(Media))
         /\ Len(Tail(dec[s].codec)) = Len(dec[s].codec) - 1
         /\ frames' \in [Streams -> Seq(Pictures)]
         /\ Len(frames'[s]) = Len(frames[s]) + 1 /\ frames'[s] # <<>>
         /\ \A r \in Streams : r # s => frames'[r] = frames[r]
         /\ dec' = [dec EXCEPT ![s] = [dec[s] EXCEPT !.pc = "decode",
                                                     !.codec = Tail(dec[s].codec)]]
<1> DEFINE f == [pos |-> Head(dec[s].codec), serial |-> dec[s].pkt_serial]
<1>1. dec[s] \in Decoders /\ frames[s] \in Seq(Pictures) /\ dec[s].codec # <<>>
  BY DEF Types, Push
<1>2. /\ dec[s].codec \in Seq(1..Len(Media)) /\ dec[s].pkt_serial \in Nat
  BY <1>1 DEF Decoders
<1>3. /\ Head(dec[s].codec) \in 1..Len(Media)
      /\ Tail(dec[s].codec) \in Seq(1..Len(Media))
      /\ Len(Tail(dec[s].codec)) = Len(dec[s].codec) - 1
  BY <1>1, <1>2, TailFacts
<1>4. f \in Pictures
  BY <1>2, <1>3 DEF Pictures
<1> HIDE DEF f
<1>5. /\ Append(frames[s], f) \in Seq(Pictures)
      /\ Len(Append(frames[s], f)) = Len(frames[s]) + 1 /\ Append(frames[s], f) # <<>>
  BY <1>1, <1>4, AppendProperties
<1>6. frames' = [frames EXCEPT ![s] = Append(frames[s], f)]
  BY DEF Push, f
<1>7. frames \in [Streams -> Seq(Pictures)]
  BY DEF Types
<1>8. /\ frames' \in [Streams -> Seq(Pictures)]
      /\ frames'[s] = Append(frames[s], f)
      /\ \A r \in Streams : r # s => frames'[r] = frames[r]
  BY <1>5, <1>6, <1>7
<1>9. dec' = [dec EXCEPT ![s] = [dec[s] EXCEPT !.pc = "decode",
                                               !.codec = Tail(dec[s].codec)]]
  BY DEF Push
<1> QED BY <1>1, <1>3, <1>5, <1>8, <1>9 DEF Push

LEMMA PushTypes ==
  ASSUME Types, NEW s \in Streams, Push(s), UNCHANGED <<rd, out, seeks, history>>
  PROVE  Types'
<1> DEFINE d == [dec[s] EXCEPT !.pc = "decode", !.codec = Tail(dec[s].codec)]
<1>0. dec[s] \in Decoders /\ Tail(dec[s].codec) \in Seq(1..Len(Media))
  BY PushFacts DEF Types
<1>1. d \in Decoders /\ d.pc # "push"
  BY <1>0 DEF Decoders
<1>2. \A r \in Streams : out[r] = "due" => frames'[r] # <<>>
  BY PushFacts DEF Types
<1> HIDE DEF d
<1>3. dec' = [dec EXCEPT ![s] = d]
  BY PushFacts DEF d
<1>4. is' \in Controls /\ q' \in [Streams -> Queues]
  BY DEF Push, Types
<1> QED BY <1>1, <1>2, <1>3, <1>4, PushFacts, DecoderTypes

LEMMA DequeueFacts ==
  ASSUME Types, NEW s \in Streams, Dequeue(s)
  PROVE  LET pkts == q[s].pkts
             p == pkts[1]
             n == [q[s] EXCEPT !.pkts = Tail(q[s].pkts)]
             d == [dec[s] EXCEPT !.pkt = p.pkt, !.pkt_serial = p.serial,
                     !.pc = IF PacketBuffering /\ dec[s].finished = p.serial
                            THEN "get" ELSE "got"]
         IN  /\ q[s] \in Queues /\ pkts # <<>> /\ p \in Packet
             /\ Len(pkts) \in Nat /\ Len(pkts) > 0 /\ Len(Tail(pkts)) = Len(pkts) - 1
             /\ \A i \in 1..Len(Tail(pkts)) : Tail(pkts)[i] = pkts[i + 1]
             /\ n \in Queues /\ n.serial = q[s].serial /\ n.pkts = Tail(pkts)
             /\ q' = [q EXCEPT ![s] = n]
             /\ d \in Decoders /\ dec' = [dec EXCEPT ![s] = d]
<1> DEFINE pkts == q[s].pkts
           p == pkts[1]
           n == [q[s] EXCEPT !.pkts = Tail(q[s].pkts)]
           d == [dec[s] EXCEPT !.pkt = p.pkt, !.pkt_serial = p.serial,
                   !.pc = IF PacketBuffering /\ dec[s].finished = p.serial
                          THEN "get" ELSE "got"]
<1>1. q[s] \in Queues /\ dec[s] \in Decoders /\ pkts \in Seq(Packet) /\ pkts # <<>>
  BY DEF Types, Queues, Dequeue
<1>2. /\ Tail(pkts) \in Seq(Packet) /\ Head(pkts) = p /\ p \in Packet
      /\ Len(pkts) \in Nat /\ Len(pkts) > 0 /\ Len(Tail(pkts)) = Len(pkts) - 1
      /\ \A i \in 1..Len(Tail(pkts)) : Tail(pkts)[i] = pkts[i + 1]
  BY <1>1, TailFacts
<1>3. n \in Queues /\ n.serial = q[s].serial /\ n.pkts = Tail(pkts)
  BY <1>1, <1>2 DEF Queues
<1>4. d \in Decoders
  BY <1>1, <1>2 DEF Decoders, Packet
<1>5. q' = [q EXCEPT ![s] = n] /\ dec' = [dec EXCEPT ![s] = d]
  BY <1>2 DEF Dequeue
<1> QED BY <1>1, <1>2, <1>3, <1>4, <1>5

LEMMA DequeueTypes ==
  ASSUME Types, NEW s \in Streams, Dequeue(s), UNCHANGED <<rd, out, seeks, history>>
  PROVE  Types'
<1> DEFINE n == [q[s] EXCEPT !.pkts = Tail(q[s].pkts)]
           p == q[s].pkts[1]
           d == [dec[s] EXCEPT !.pkt = p.pkt, !.pkt_serial = p.serial,
                   !.pc = IF PacketBuffering /\ dec[s].finished = p.serial
                          THEN "get" ELSE "got"]
<1>1. n \in Queues /\ q' = [q EXCEPT ![s] = n]
      /\ d \in Decoders /\ dec' = [dec EXCEPT ![s] = d]
  BY DequeueFacts
<1>2. d.pc # "push"
  BY DEF Types, Decoders
<1> HIDE DEF n, d
<1>3. q' \in [Streams -> Queues]
  BY <1>1 DEF Types
<1> QED BY <1>1, <1>2, <1>3, DecoderTypes DEF Dequeue, Types

LEMMA StarveTypes ==
  ASSUME Types, NEW s \in Streams, Starve(s) \/ StartBuffering(s),
         UNCHANGED <<rd, out, seeks, history>>
  PROVE  Types'
<1> PICK pc \in {"wait", "starved"} : dec' = [dec EXCEPT ![s] = [dec[s] EXCEPT !.pc = pc]]
  BY DEF Starve, StartBuffering
<1>1. [dec[s] EXCEPT !.pc = pc] \in Decoders /\ [dec[s] EXCEPT !.pc = pc].pc # "push"
  BY DEF Types, Decoders
<1>2. is' \in Controls
  BY BufferingTyping DEF Types, Starve, StartBuffering
<1> QED BY <1>1, <1>2, DecoderTypes DEF Starve, StartBuffering, Types

LEMMA SendTypes ==
  ASSUME Types, NEW s \in Streams, Send(s), UNCHANGED <<rd, out, seeks, history>>
  PROVE  Types'
<1> dec[s] \in Decoders
  BY DEF Types
<1>1. dec'[s] \in Decoders /\ dec'[s].pc # "push"
  <2>1. CASE dec'[s] = [dec[s] EXCEPT !.pc = "get"]
    BY <2>1 DEF Decoders
  <2>2. CASE dec'[s] = [FlushCodec(dec[s]) EXCEPT !.pc = "decode"]
    <3>1. <<>> \in Seq(1..Len(Media))
      BY EmptySeq
    <3>2. FlushCodec(dec[s]) \in Decoders
      BY <3>1 DEF FlushCodec, Decoders
    <3> QED BY <2>2, <3>2 DEF Decoders
  <2>3. CASE dec'[s] = [dec[s] EXCEPT !.pc = "decode", !.draining = TRUE]
    BY <2>3 DEF Decoders
  <2>4. CASE /\ IsData(dec[s].pkt)
             /\ dec'[s] = [dec[s] EXCEPT !.pc = "decode", !.codec = Append(@, dec[s].pkt)]
    <3>1. dec[s].pkt \in 1..Len(Media) /\ dec[s].codec \in Seq(1..Len(Media))
      BY <2>4, FileTyping DEF IsData, Decoders, FlushPacket, EndPacket
    <3>2. Append(dec[s].codec, dec[s].pkt) \in Seq(1..Len(Media))
      BY <3>1, AppendProperties
    <3> QED BY <2>4, <3>2 DEF Decoders
  <2> QED BY <2>1, <2>2, <2>3, <2>4 DEF Send, Types, IsData
<1>2. dec' = [dec EXCEPT ![s] = dec'[s]]
  BY DEF Send, Types
<1> QED BY <1>1, <1>2, DecoderTypes DEF Send, Types

\* What a step of the refresh thread or of the audio callback leaves alone.
LEMMA OutputTypes ==
  ASSUME Types, NEW s \in Streams, NEW pc \in {"idle", "due", "shown", "read"},
         out' = [out EXCEPT ![s] = pc],
         \/ UNCHANGED frames /\ (pc = "due" => frames[s] # <<>>)
         \/ frames[s] # <<>> /\ Take(s) /\ pc # "due",
         is' \in Controls, UNCHANGED <<rd, q, dec, seeks, from, ended>>
  PROVE  Types'
<1>1. /\ frames' \in [Streams -> Seq(Pictures)]
      /\ \A r \in Streams : r # s => frames'[r] = frames[r]
  <2>1. CASE UNCHANGED frames
    BY <2>1 DEF Types
  <2>2. CASE frames[s] # <<>> /\ Take(s)
    <3>1. Tail(frames[s]) \in Seq(Pictures)
      BY <2>2, TailFacts DEF Types
    <3> QED BY <2>2, <3>1 DEF Take, Types
  <2> QED BY <2>1, <2>2
<1>2. /\ out' \in [Streams -> {"idle", "due", "shown", "read"}]
      /\ \A r \in Streams : out'[r] = "due" => frames'[r] # <<>>
  BY <1>1 DEF Types
<1> QED BY <1>1, <1>2 DEF Types

LEMMA OutputsTypes ==
  ASSUME Types, NEW s \in Streams, Output(s)
  PROVE  Types'
<1> out \in [Streams -> {"idle", "due", "shown", "read"}] /\ is \in Controls
  BY DEF Types
<1>1. CASE s = "video" /\ VideoSkip
  <2>1. out' = [out EXCEPT ![s] = "idle"]
    BY <1>1 DEF VideoSkip
  <2> QED BY <1>1, <2>1, OutputTypes DEF VideoSkip, Output
<1>2. CASE s = "video" /\ VideoDue
  BY <1>2, OutputTypes DEF VideoDue, Output
<1>3. CASE s = "video" /\ VideoShow
  <2>1. frames[s] # <<>>
    BY <1>3 DEF VideoShow, Types
  <2> QED BY <1>3, <2>1, OutputTypes DEF VideoShow, Output
<1>4. CASE s = "video" /\ VideoStep
  <2> DEFINE i == [is EXCEPT !.step = FALSE]
  <2>1. i \in Controls
    BY DEF Controls
  <2>2. is' = is \/ is' = i \/ is' = StreamUpdatePause(i)
    BY <1>4 DEF VideoStep
  <2> HIDE DEF i
  <2>3. is' \in Controls
    BY <2>1, <2>2, UpdatingTyping
  <2> QED BY <1>4, <2>3, OutputTypes DEF VideoStep, Output
<1>5. CASE s = "audio" /\ AudioAsk
  BY <1>5, OutputTypes DEF AudioAsk, Output
<1>6. CASE s = "audio" /\ AudioTake
  <2>1. PICK pc \in {"idle", "read"} : out' = [out EXCEPT ![s] = pc]
    BY <1>6 DEF AudioTake
  <2> QED BY <1>6, <2>1, OutputTypes DEF AudioTake, Output
<1> QED BY <1>1, <1>2, <1>3, <1>4, <1>5, <1>6 DEF Output

LEMMA TypesStep == ASSUME Types, [Next]_vars PROVE Types'
<1>1. CASE Application
  BY <1>1, ApplicationTypes
<1>2. CASE ReadThread
  <2>1. CASE \/ ReadTop \/ ReadSeek \/ ReadSought \/ ReadRebuffer \/ ReadRoom \/ ReadOver
    BY <1>2, <2>1, ReadTopTypes, ReadSeekTypes, ReadSoughtTypes, ReadRebufferTypes,
       ReadRoomTypes, ReadOverTypes DEF ReadThread
  <2>2. CASE \/ ReadComplete \/ ReadPacket \/ ReadStore \/ ReadCheck \/ ReadEnd
             \/ ReadBroken \/ ReadEof
    BY <1>2, <2>2, ReadCompleteTypes, ReadPacketTypes, ReadStoreTypes, ReadCheckTypes,
       ReadEndTypes, ReadBrokenTypes, ReadEofTypes DEF ReadThread
  <2>3. CASE \E s \in Streams : \/ ReadFlush(s) \/ ReadFlushed(s) \/ ReadDrained(s)
                                \/ ReadDiscontinuity(s) \/ ReadNull(s)
    BY <1>2, <2>3, ReadFlushTypes, ReadFlushedTypes, ReadDrainedTypes,
       ReadDiscontinuityTypes, ReadNullTypes DEF ReadThread
  <2> QED BY <1>2, <2>1, <2>2, <2>3 DEF ReadThread
<1>3. CASE \E s \in Streams : Decoder(s)
  BY <1>3, ReceiveTypes, PushTypes, StarveTypes, SendTypes, DequeueTypes DEF Decoder
<1>4. CASE \E s \in Streams : Output(s)
  BY <1>4, OutputsTypes
<1>5. CASE UNCHANGED vars
  BY <1>5 DEF vars, history, Types
<1> QED BY <1>1, <1>2, <1>3, <1>4, <1>5 DEF Next

--------------------------------------------------------------------------------
(* What each operation keeps of a queue and its decoder. *)

LEMMA DecoderFields ==
  ASSUME NEW d \in Decoders
  PROVE  /\ d.pc \in {"decode", "push", "get", "wait", "starved", "got"}
         /\ d.pkt \in 0..EndPacket /\ d.pkt_serial \in Nat /\ d.finished \in Nat
         /\ d.codec \in Seq(1..Len(Media)) /\ Len(d.codec) \in Nat /\ d.draining \in BOOLEAN
BY LenProperties DEF Decoders

LEMMA QueueFields ==
  ASSUME NEW queue \in Queues
  PROVE  /\ queue.serial \in Nat /\ queue.pkts \in Seq(Packet)
         /\ Len(queue.pkts) \in Nat
         /\ \A i \in 1..Len(queue.pkts) :
              queue.pkts[i].pkt \in 0..EndPacket /\ queue.pkts[i].serial \in Nat
         /\ queue.pkts = <<>> <=> Len(queue.pkts) = 0
<1>1. queue.pkts \in Seq(Packet) /\ queue.serial \in Nat
  BY DEF Queues
<1>2. \A i \in 1..Len(queue.pkts) : queue.pkts[i] \in Packet
  BY <1>1, ElementOfSeq
<1> QED BY <1>1, <1>2, LenProperties, EmptySeq DEF Packet

LEMMA ConstantsTyping ==
  /\ EndPacket \in Nat /\ EndPacket > 0 /\ FlushPacket = 0
  /\ MaxBufferSize \in Nat /\ CodecDelay \in Nat /\ FrameSlots \in Nat /\ FrameSlots > 0
BY FileTyping, PipelineAssumption DEF EndPacket, FlushPacket

LEMMA OrderedAppend ==
  ASSUME NEW queue \in Queues, NEW new \in Queues, NEW m \in Nat, NEW n \in Nat,
         n = Len(queue.pkts), Len(new.pkts) = n + 1,
         \A i \in 1..n : new.pkts[i] = queue.pkts[i],
         new.pkts[n + 1].serial = new.serial, Ordered(queue, m),
         IF new.pkts[n + 1].pkt = FlushPacket THEN new.serial = queue.serial + 1
         ELSE /\ new.serial = queue.serial /\ UpToDate(queue, m)
              /\ \/ new.pkts[n + 1].pkt = EndPacket
                 \/ \A i \in 1..n : queue.pkts[i].serial = queue.serial
                                      => queue.pkts[i].pkt # EndPacket
  PROVE  Ordered(new, m)
<1> DEFINE pkts == new.pkts
           old == queue.pkts
<1>1. /\ queue.serial \in Nat /\ new.serial \in Nat /\ queue.serial <= new.serial
      /\ m <= queue.serial
      /\ \A i \in 1..n : /\ old[i].serial \in Nat /\ old[i].serial <= queue.serial
                         /\ m <= old[i].serial
  BY QueueFields DEF Ordered
<1>2. ASSUME NEW i \in 1..(n + 1)
      PROVE  /\ m <= pkts[i].serial /\ pkts[i].serial <= new.serial
             /\ IF pkts[i].pkt = FlushPacket THEN m < pkts[i].serial
                ELSE pkts[i].serial = IF i = 1 THEN m ELSE pkts[i - 1].serial
  <2>1. CASE i \in 1..n
    <3>1. IF old[i].pkt = FlushPacket THEN m < old[i].serial
          ELSE old[i].serial = IF i = 1 THEN m ELSE old[i - 1].serial
      BY <2>1 DEF Ordered
    <3>2. pkts[i] = old[i] /\ (i # 1 => pkts[i - 1] = old[i - 1])
      <4>1. i # 1 => i - 1 \in 1..n
        BY <2>1
      <4> QED BY <2>1, <4>1
    <3>3. old[i].serial \in Nat /\ old[i].serial <= queue.serial /\ m <= old[i].serial
      BY <1>1, <2>1
    <3>4. pkts[i].serial <= new.serial
      BY <1>1, <3>2, <3>3
    <3> QED BY <3>1, <3>2, <3>3, <3>4
  <2>2. CASE i = n + 1
    <3>1. CASE pkts[n + 1].pkt = FlushPacket
      BY <1>1, <2>2, <3>1
    <3>2. CASE pkts[n + 1].pkt # FlushPacket /\ n = 0
      <4>1. m = queue.serial
        BY <3>2, QueueFields DEF UpToDate
      <4> QED BY <1>1, <2>2, <3>2, <4>1
    <3>3. CASE pkts[n + 1].pkt # FlushPacket /\ n > 0
      <4>1. old[n].serial = queue.serial /\ pkts[n] = old[n]
        BY <3>3, QueueFields DEF UpToDate
      <4>2. i # 1 /\ i - 1 = n
        BY <2>2, <3>3
      <4>3. pkts[i].serial = new.serial /\ new.serial = queue.serial
        BY <2>2, <3>3
      <4> QED BY <1>1, <2>2, <3>3, <4>1, <4>2, <4>3
    <3> QED BY <3>1, <3>2, <3>3
  <2> QED BY <2>1, <2>2
<1>3. ASSUME NEW i \in 1..(n + 1), NEW j \in 1..(n + 1), i < j
      PROVE  /\ pkts[i].serial <= pkts[j].serial
             /\ pkts[j].pkt = FlushPacket => pkts[i].serial < pkts[j].serial
             /\ pkts[i].pkt = EndPacket /\ pkts[j].serial = pkts[i].serial
                  => pkts[j].pkt = EndPacket
  <2>1. i \in 1..n /\ pkts[i] = old[i]
    BY <1>3
  <2>2. CASE j \in 1..n
    <3>1. pkts[j] = old[j]
      BY <2>2
    <3>2. /\ old[i].serial <= old[j].serial
          /\ old[j].pkt = FlushPacket => old[i].serial < old[j].serial
          /\ old[i].pkt = EndPacket /\ old[j].serial = old[i].serial
               => old[j].pkt = EndPacket
      BY <1>3, <2>1, <2>2 DEF Ordered
    <3> QED BY <2>1, <3>1, <3>2
  <2>3. CASE j = n + 1
    <3>1. old[i].serial \in Nat /\ old[i].serial <= queue.serial
      BY <1>1, <2>1
    <3>2. pkts[j].serial = new.serial
      BY <2>3
    <3>3. pkts[j].pkt = FlushPacket => new.serial = queue.serial + 1
      BY <2>3
    <3>4. new.serial = pkts[i].serial /\ pkts[i].pkt = EndPacket => pkts[j].pkt = EndPacket
      BY <1>1, <2>1, <2>3, <3>1
    <3> QED BY <1>1, <2>1, <3>1, <3>2, <3>3, <3>4
  <2> QED BY <2>2, <2>3
<1>4. m <= new.serial
  BY <1>1
<1> QED BY <1>2, <1>3, <1>4 DEF Ordered

\* A packet that is not the flush packet.
LEMMA PutPacket ==
  ASSUME NEW queue \in Queues, NEW d \in Decoders, NEW p \in 0..EndPacket,
         p # FlushPacket, Flowing(queue, d), UpToDate(queue, d.pkt_serial),
         p = EndPacket \/ ~Ended(queue, d)
  PROVE  LET new == PacketPut(queue, p)
         IN  /\ new \in Queues /\ new.serial = queue.serial
             /\ Flowing(new, d) /\ UpToDate(new, d.pkt_serial)
             /\ Ended(new, d) => p = EndPacket \/ Ended(queue, d)
<1> DEFINE new == PacketPut(queue, p)
           n == Len(queue.pkts)
<1>1. /\ new \in Queues /\ new.serial = queue.serial
      /\ Len(new.pkts) = n + 1
      /\ \A i \in 1..n : new.pkts[i] = queue.pkts[i]
      /\ new.pkts[n + 1] = [pkt |-> p, serial |-> new.serial]
  BY PutFacts
<1> HIDE DEF new
<1>2. /\ n \in Nat /\ new.pkts # <<>> /\ d.pkt_serial \in Nat
      /\ new.pkts[n + 1].pkt = p /\ new.pkts[n + 1].serial = queue.serial
  BY <1>1, QueueFields, DecoderFields
<1>3. Ordered(new, d.pkt_serial)
  <2>1. \/ p = EndPacket
        \/ \A i \in 1..n : queue.pkts[i].serial = queue.serial
                             => queue.pkts[i].pkt # EndPacket
    BY DEF Ended
  <2>2. Ordered(queue, d.pkt_serial) /\ UpToDate(queue, d.pkt_serial)
    BY DEF Flowing
  <2>3. n = Len(queue.pkts)
    OBVIOUS
  <2>4. new.pkts[n + 1].serial = new.serial /\ new.pkts[n + 1].pkt # FlushPacket
    BY <1>1, <1>2
  <2> HIDE DEF n
  <2> QED BY <1>1, <1>2, <2>1, <2>2, <2>3, <2>4, OrderedAppend
<1>4. UpToDate(new, d.pkt_serial)
  BY <1>1, <1>2 DEF UpToDate
<1>5. Ended(new, d) => p = EndPacket \/ Ended(queue, d)
  <2>1. ASSUME NEW i \in 1..(n + 1), new.pkts[i].pkt = EndPacket,
               new.pkts[i].serial = new.serial, p # EndPacket
        PROVE  Ended(queue, d)
    <3>1. i \in 1..n /\ new.pkts[i] = queue.pkts[i]
      BY <1>1, <1>2, <2>1
    <3> QED BY <1>1, <2>1, <3>1 DEF Ended
  <2> QED BY <1>1, <2>1 DEF Ended
<1>6. Decodes(new, d)
  <2>1. ASSUME MetEnd(d, queue.serial), NEW i \in 1..(n + 1)
        PROVE  new.pkts[i].pkt = EndPacket
    <3>1. CASE i \in 1..n
      <4>1. new.pkts[i] = queue.pkts[i]
        BY <1>1, <3>1
      <4> QED BY <2>1, <3>1, <4>1 DEF Flowing, Decodes
    <3>2. CASE i = n + 1
      <4>1. p = EndPacket
        BY <2>1 DEF Ended
      <4> QED BY <1>2, <3>2, <4>1
    <3> QED BY <3>1, <3>2
  <2> QED BY <1>1, <2>1 DEF Flowing, Decodes
<1> QED BY <1>1, <1>3, <1>4, <1>5, <1>6 DEF Flowing, new

\* The flush packet ends the serial, whatever the queue holds.
LEMMA PutFlushPacket ==
  ASSUME NEW queue \in Queues, NEW d \in Decoders, Flowing(queue, d)
  PROVE  LET new == PacketPut(queue, FlushPacket)
         IN  /\ new \in Queues /\ new.serial = queue.serial + 1
             /\ Flowing(new, d) /\ UpToDate(new, d.pkt_serial) /\ ~Ended(new, d)
<1> DEFINE new == PacketPut(queue, FlushPacket)
           n == Len(queue.pkts)
<1>1. /\ new \in Queues /\ new.serial = queue.serial + 1
      /\ Len(new.pkts) = n + 1
      /\ \A i \in 1..n : new.pkts[i] = queue.pkts[i]
      /\ new.pkts[n + 1] = [pkt |-> FlushPacket, serial |-> new.serial]
  BY PutFacts, PacketsTyping
<1> HIDE DEF new
<1>2. /\ n \in Nat /\ new.pkts # <<>> /\ queue.serial \in Nat /\ d.pkt_serial \in Nat
      /\ new.pkts[n + 1].pkt = FlushPacket /\ new.pkts[n + 1].serial = new.serial
  BY <1>1, QueueFields, DecoderFields
<1>3. Ordered(queue, d.pkt_serial) /\ d.pkt_serial <= queue.serial
  BY DEF Flowing, Ordered
<1>4. Ordered(new, d.pkt_serial)
  <2> HIDE DEF n
  <2> QED BY <1>1, <1>2, <1>3, OrderedAppend DEF n
<1>5. UpToDate(new, d.pkt_serial)
  BY <1>1, <1>2 DEF UpToDate
<1>6. d.pkt_serial # new.serial /\ d.finished # new.serial
  BY <1>1, <1>2, <1>3, DecoderFields DEF Flowing, Decodes
<1>7. ~Ended(new, d)
  <2>1. ASSUME NEW i \in 1..(n + 1), new.pkts[i].pkt = EndPacket
        PROVE  new.pkts[i].serial # new.serial
    <3>1. CASE i \in 1..n
      <4>1. new.pkts[i] = queue.pkts[i]
        BY <1>1, <3>1
      <4>2. queue.pkts[i].serial <= queue.serial /\ queue.pkts[i].serial \in Nat
        BY <1>3, <3>1, QueueFields DEF Ordered
      <4> QED BY <1>1, <1>2, <4>1, <4>2
    <3>2. CASE i = n + 1
      BY <1>2, <2>1, <3>2, ConstantsTyping
    <3> QED BY <3>1, <3>2
  <2> QED BY <1>1, <1>6, <2>1 DEF Ended, MetEnd
<1>8. Decodes(new, d)
  BY <1>6 DEF Flowing, Decodes, MetEnd
<1>9. new.serial > 0
  BY <1>1, <1>2
<1> QED BY <1>1, <1>4, <1>5, <1>7, <1>8, <1>9 DEF Flowing, new

LEMMA FlushQueue ==
  ASSUME NEW queue \in Queues, NEW d \in Decoders, Flowing(queue, d)
  PROVE  LET new == PacketFlush(queue)
         IN  /\ new \in Queues /\ new.serial = queue.serial /\ new.pkts = <<>>
             /\ Flowing(new, d) /\ (Ended(new, d) => Ended(queue, d))
<1> DEFINE new == PacketFlush(queue)
<1>1. new \in Queues /\ new.serial = queue.serial /\ new.pkts = <<>>
  BY FlushFacts
<1> HIDE DEF new
<1>2. 1..Len(new.pkts) = {}
  BY <1>1, QueueFields
<1>3. Ordered(new, d.pkt_serial) /\ (Ended(new, d) => Ended(queue, d))
  BY <1>1, <1>2 DEF Flowing, Ordered, Ended
<1>4. Decodes(new, d)
  BY <1>1, <1>2 DEF Flowing, Decodes
<1> QED BY <1>1, <1>3, <1>4 DEF Flowing, new

LEMMA UpToDateTail ==
  ASSUME NEW queue \in Queues, NEW new \in Queues, NEW m, queue.pkts # <<>>,
         new.serial = queue.serial, Len(queue.pkts) = Len(new.pkts) + 1,
         \A i \in 1..Len(new.pkts) : new.pkts[i] = queue.pkts[i + 1],
         UpToDate(queue, m)
  PROVE  UpToDate(new, queue.pkts[1].serial)
<1>1. Len(new.pkts) \in Nat
  BY QueueFields
<1>2. queue.pkts[Len(queue.pkts)].serial = queue.serial
  BY DEF UpToDate
<1>3. CASE new.pkts = <<>>
  <2>1. Len(new.pkts) = 0
    BY <1>3, EmptySeq
  <2>2. Len(queue.pkts) = 1
    BY <1>1, <2>1
  <2> QED BY <1>2, <1>3, <2>2 DEF UpToDate
<1>4. CASE new.pkts # <<>>
  <2>1. Len(new.pkts) \in 1..Len(new.pkts)
    BY <1>1, <1>4, QueueFields
  <2>2. new.pkts[Len(new.pkts)] = queue.pkts[Len(queue.pkts)]
    BY <1>1, <2>1
  <2> QED BY <1>2, <1>4, <2>2 DEF UpToDate
<1> QED BY <1>3, <1>4

\* packet_queue_get, told of queues and decoders before (queue, d) and after (new, e).
LEMMA TakePacket ==
  ASSUME NEW queue \in Queues, NEW d \in Decoders, NEW new \in Queues, NEW e \in Decoders,
         Flowing(queue, d), d.pc \in {"get", "wait"}, queue.pkts # <<>>,
         new.serial = queue.serial, Len(queue.pkts) = Len(new.pkts) + 1,
         \A i \in 1..Len(new.pkts) : new.pkts[i] = queue.pkts[i + 1],
         e.pkt = queue.pkts[1].pkt, e.pkt_serial = queue.pkts[1].serial,
         e.finished = d.finished, e.codec = d.codec, e.draining = d.draining,
         \/ e.pc = "get" /\ d.finished = queue.pkts[1].serial
         \/ e.pc = "got"
  PROVE  /\ Flowing(new, e)
         /\ UpToDate(queue, d.pkt_serial) => UpToDate(new, e.pkt_serial)
         /\ Ended(new, e) => Ended(queue, d)
<1> DEFINE old == queue.pkts
           pkts == new.pkts
           n == Len(pkts)
           p == old[1]
<1>1. /\ n \in Nat /\ Len(old) = n + 1 /\ queue.serial \in Nat
      /\ d.pkt_serial \in Nat /\ d.finished \in Nat /\ Len(d.codec) \in Nat
      /\ p.serial \in Nat /\ p.pkt \in 0..EndPacket
  BY QueueFields, DecoderFields
<1>2. /\ Ordered(queue, d.pkt_serial) /\ d.finished <= d.pkt_serial
      /\ queue.serial > 0 /\ Decodes(queue, d)
  BY DEF Flowing, Decodes
<1>3. /\ d.pkt_serial <= p.serial /\ p.serial <= queue.serial
      /\ p.pkt = FlushPacket => d.pkt_serial < p.serial
      /\ p.pkt # FlushPacket => p.serial = d.pkt_serial
  BY <1>1, <1>2 DEF Ordered
<1>4. Ordered(new, e.pkt_serial)
  <2>1. ASSUME NEW i \in 1..n
        PROVE  /\ p.serial <= pkts[i].serial /\ pkts[i].serial <= new.serial
               /\ IF pkts[i].pkt = FlushPacket THEN p.serial < pkts[i].serial
                  ELSE pkts[i].serial = IF i = 1 THEN p.serial ELSE pkts[i - 1].serial
    <3>1. /\ i + 1 \in 1..Len(old) /\ 1 \in 1..Len(old)
          /\ 1 < i + 1 /\ i + 1 # 1 /\ (i + 1) - 1 = i
      <4>1. Len(old) = n + 1 /\ n \in Nat
        BY <1>1
      <4> QED BY <4>1
    <3>2. /\ old[i + 1].serial <= queue.serial
          /\ IF old[i + 1].pkt = FlushPacket THEN d.pkt_serial < old[i + 1].serial
             ELSE old[i + 1].serial = old[i].serial
      BY <1>2, <3>1 DEF Ordered
    <3>3. /\ p.serial <= old[i + 1].serial
          /\ old[i + 1].pkt = FlushPacket => p.serial < old[i + 1].serial
      BY <1>2, <3>1 DEF Ordered
    <3>4. pkts[i] = old[i + 1] /\ (i # 1 => pkts[i - 1] = old[i])
      <4>1. i # 1 => i - 1 \in 1..n /\ (i - 1) + 1 = i
        OBVIOUS
      <4> QED BY <4>1
    <3> QED BY <3>2, <3>3, <3>4
  <2>2. ASSUME NEW i \in 1..n, NEW j \in 1..n, i < j
        PROVE  /\ pkts[i].serial <= pkts[j].serial
               /\ pkts[j].pkt = FlushPacket => pkts[i].serial < pkts[j].serial
               /\ pkts[i].pkt = EndPacket /\ pkts[j].serial = pkts[i].serial
                    => pkts[j].pkt = EndPacket
    <3>1. i + 1 \in 1..Len(old) /\ j + 1 \in 1..Len(old) /\ i + 1 < j + 1
      <4>1. Len(old) = n + 1 /\ n \in Nat
        BY <1>1
      <4> QED BY <2>2, <4>1
    <3>2. pkts[i] = old[i + 1] /\ pkts[j] = old[j + 1]
      OBVIOUS
    <3>3. /\ old[i + 1].serial <= old[j + 1].serial
          /\ old[j + 1].pkt = FlushPacket => old[i + 1].serial < old[j + 1].serial
          /\ old[i + 1].pkt = EndPacket /\ old[j + 1].serial = old[i + 1].serial
               => old[j + 1].pkt = EndPacket
      BY <1>2, <3>1 DEF Ordered
    <3> QED BY <3>2, <3>3
  <2> QED BY <1>3, <2>1, <2>2 DEF Ordered
<1>5. UpToDate(queue, d.pkt_serial) => UpToDate(new, e.pkt_serial)
  BY UpToDateTail
<1>6. MetEnd(e, queue.serial) => e.pkt # FlushPacket
  <2>1. CASE e.pc = "got"
    BY <2>1 DEF MetEnd, Fresh
  <2>2. CASE d.finished = p.serial
    BY <1>1, <1>2, <1>3, <2>2
  <2> QED BY <2>1, <2>2
<1>7. MetEnd(e, queue.serial) => /\ d.pkt_serial = queue.serial /\ p.serial = queue.serial
                                 /\ MetEnd(d, queue.serial) \/ p.pkt = EndPacket
  BY <1>3, <1>6 DEF MetEnd, Fresh
<1>8. Ended(new, e) => Ended(queue, d)
  <2>1. ASSUME NEW i \in 1..n, pkts[i].pkt = EndPacket, pkts[i].serial = new.serial
        PROVE  Ended(queue, d)
    <3>1. i + 1 \in 1..Len(old) /\ pkts[i] = old[i + 1]
      BY <1>1
    <3> QED BY <2>1, <3>1 DEF Ended
  <2>2. CASE MetEnd(e, queue.serial)
    <3>1. 1 \in 1..Len(old)
      BY <1>1
    <3> QED BY <1>7, <2>2, <3>1 DEF Ended
  <2> QED BY <2>1, <2>2 DEF Ended
<1>9. Decodes(new, e)
  <2>1. e.finished <= e.pkt_serial /\ (Fresh(e) => e.finished < e.pkt_serial)
    BY <1>1, <1>2, <1>3 DEF Fresh
  <2>2. Len(e.codec) <= CodecDelay + 1
    BY <1>2 DEF Decodes
  <2>3. ASSUME e.pkt_serial = new.serial, ~Fresh(e)
        PROVE  Len(e.codec) <= CodecDelay
    <3>1. e.pkt # FlushPacket
      <4>1. CASE e.pc = "got"
        BY <2>3, <4>1 DEF Fresh
      <4>2. CASE d.finished = p.serial
        BY <1>1, <1>2, <1>3, <4>2
      <4> QED BY <4>1, <4>2
    <3>2. d.pkt_serial = queue.serial
      BY <1>3, <2>3, <3>1
    <3> QED BY <1>2, <3>2 DEF Decodes, Fresh
  <2>4. ASSUME MetEnd(e, new.serial)
        PROVE  /\ \A i \in 1..n : pkts[i].pkt = EndPacket
               /\ ~(e.pc = "got" /\ IsData(e.pkt))
    <3>1. p.pkt = EndPacket
      <4>1. CASE MetEnd(d, queue.serial)
        <5>1. 1 \in 1..Len(old)
          BY <1>1
        <5> QED BY <1>2, <4>1, <5>1 DEF Decodes
      <4> QED BY <1>7, <2>4, <4>1
    <3>2. ASSUME NEW i \in 1..n PROVE pkts[i].pkt = EndPacket
      <4>1. /\ i + 1 \in 1..Len(old) /\ 1 \in 1..Len(old) /\ 1 < i + 1
            /\ pkts[i] = old[i + 1]
        BY <1>1
      <4>2. p.serial = queue.serial
        BY <1>7, <2>4
      <4>3. p.serial <= old[i + 1].serial /\ old[i + 1].serial <= queue.serial
        BY <1>2, <4>1 DEF Ordered
      <4>4. old[i + 1].serial = p.serial
        BY <1>1, <4>1, <4>2, <4>3, QueueFields
      <4> QED BY <1>2, <3>1, <4>1, <4>4 DEF Ordered
    <3> QED BY <3>1, <3>2 DEF IsData
  <2>5. e.finished = new.serial => e.codec = <<>>
    BY <1>2 DEF Decodes
  <2> QED BY <2>1, <2>2, <2>3, <2>4, <2>5 DEF Decodes
<1> QED BY <1>2, <1>4, <1>5, <1>8, <1>9 DEF Flowing

\* A decoder that does not touch its queue.
LEMMA KeepQueue ==
  ASSUME NEW queue, NEW d, NEW e, Flowing(queue, d), e.pkt_serial = d.pkt_serial,
         Decodes(queue, e), MetEnd(e, queue.serial) => MetEnd(d, queue.serial)
  PROVE  /\ Flowing(queue, e)
         /\ UpToDate(queue, d.pkt_serial) => UpToDate(queue, e.pkt_serial)
         /\ Ended(queue, e) => Ended(queue, d)
BY DEF Flowing, Ended

LEMMA MovesOn ==
  ASSUME NEW queue \in Queues, NEW d \in Decoders,
         NEW pc \in {"push", "get", "wait", "starved"}, Flowing(queue, d),
         d.pc \in {"decode", "get", "starved"} \/ d.pkt_serial # queue.serial,
         pc # "push" /\ d.pc = "decode" /\ d.pkt_serial = queue.serial
           => Len(d.codec) <= CodecDelay
  PROVE  LET e == [d EXCEPT !.pc = pc]
         IN  /\ Flowing(queue, e)
             /\ UpToDate(queue, d.pkt_serial) => UpToDate(queue, e.pkt_serial)
             /\ Ended(queue, e) => Ended(queue, d)
<1> DEFINE e == [d EXCEPT !.pc = pc]
<1>1. /\ e.pc = pc /\ e.pkt = d.pkt /\ e.pkt_serial = d.pkt_serial
      /\ e.finished = d.finished /\ e.codec = d.codec /\ e.draining = d.draining
  BY DEF Decoders
<1> HIDE DEF e
<1>2. MetEnd(e, queue.serial) => MetEnd(d, queue.serial)
  BY <1>1 DEF MetEnd, Fresh
<1>3. Decodes(queue, e)
  BY <1>1, <1>2 DEF Flowing, Decodes, Fresh
<1> QED BY <1>1, <1>2, <1>3, KeepQueue DEF e

LEMMA Finishes ==
  ASSUME NEW queue \in Queues, NEW d \in Decoders, Flowing(queue, d),
         d.pc = "decode", d.pkt_serial = queue.serial, AtEnd(d)
  PROVE  LET e == [d EXCEPT !.finished = d.pkt_serial, !.draining = FALSE]
         IN  /\ Flowing(queue, e)
             /\ UpToDate(queue, d.pkt_serial) => UpToDate(queue, e.pkt_serial)
             /\ Ended(queue, e) => Ended(queue, d)
<1> DEFINE e == [d EXCEPT !.finished = d.pkt_serial, !.draining = FALSE]
<1>1. /\ e.pc = "decode" /\ e.pkt = d.pkt /\ e.pkt_serial = d.pkt_serial
      /\ e.finished = d.pkt_serial /\ e.codec = d.codec
  BY DEF Decoders
<1> HIDE DEF e
<1>2. MetEnd(d, queue.serial)
  BY DEF MetEnd, Fresh, AtEnd
<1>3. e.codec = <<>> /\ d.pkt_serial \in Nat
  BY <1>1, DecoderFields DEF AtEnd
<1>4. Decodes(queue, e)
  BY <1>1, <1>2, <1>3 DEF Flowing, Decodes, Fresh
<1> QED BY <1>1, <1>2, <1>4, KeepQueue DEF e

LEMMA Pushes ==
  ASSUME NEW queue \in Queues, NEW d \in Decoders, NEW e \in Decoders, Flowing(queue, d),
         d.pc = "push", d.codec # <<>>, Len(e.codec) = Len(d.codec) - 1, e.pc = "decode",
         e.pkt_serial = d.pkt_serial, e.finished = d.finished, e.draining = d.draining
  PROVE  /\ Flowing(queue, e)
         /\ UpToDate(queue, d.pkt_serial) => UpToDate(queue, e.pkt_serial)
         /\ Ended(queue, e) => Ended(queue, d)
<1>1. MetEnd(e, queue.serial) => MetEnd(d, queue.serial)
  BY DEF MetEnd, Fresh
<1>2. Decodes(queue, d) /\ Len(e.codec) \in Nat /\ Len(d.codec) \in Nat
  BY DecoderFields DEF Flowing
<1>3. Decodes(queue, e)
  BY <1>1, <1>2, ConstantsTyping DEF Decodes, Fresh
<1> QED BY <1>1, <1>3, KeepQueue

LEMMA Sends ==
  ASSUME NEW queue \in Queues, NEW d \in Decoders, Flowing(queue, d), d.pc = "got",
         d.pkt_serial = queue.serial, NEW e \in Decoders, e.pc = "decode",
         e.pkt_serial = d.pkt_serial,
         \/ /\ d.pkt = FlushPacket
            /\ e.codec = <<>> /\ ~e.draining /\ e.finished = 0
         \/ /\ d.pkt = EndPacket
            /\ e.codec = d.codec /\ e.draining /\ e.finished = d.finished
         \/ /\ IsData(d.pkt) /\ Len(e.codec) = Len(d.codec) + 1
            /\ e.draining = d.draining /\ e.finished = d.finished
  PROVE  /\ Flowing(queue, e)
         /\ UpToDate(queue, d.pkt_serial) => UpToDate(queue, e.pkt_serial)
         /\ Ended(queue, e) => Ended(queue, d)
<1>1. /\ Decodes(queue, d) /\ Len(e.codec) \in Nat /\ Len(d.codec) \in Nat
      /\ d.pkt_serial \in Nat /\ d.pkt_serial > 0 /\ d.finished \in Nat
  BY DecoderFields DEF Flowing
<1>2. CASE d.pkt = FlushPacket /\ e.codec = <<>> /\ ~e.draining /\ e.finished = 0
  <2>1. ~MetEnd(e, queue.serial)
    BY <1>1, <1>2 DEF MetEnd
  <2>2. Len(e.codec) = 0
    BY <1>2, EmptySeq
  <2>3. Decodes(queue, e)
    BY <1>1, <1>2, <2>1, <2>2, ConstantsTyping DEF Decodes, Fresh
  <2> QED BY <2>1, <2>3, KeepQueue
<1>3. CASE /\ d.pkt = EndPacket
           /\ e.codec = d.codec /\ e.draining /\ e.finished = d.finished
  <2>1. MetEnd(d, queue.serial)
    BY <1>3, ConstantsTyping DEF MetEnd, Fresh
  <2>2. Decodes(queue, e)
    BY <1>1, <1>3, <2>1 DEF Decodes, Fresh
  <2> QED BY <2>1, <2>2, KeepQueue
<1>4. CASE /\ IsData(d.pkt) /\ Len(e.codec) = Len(d.codec) + 1
           /\ e.draining = d.draining /\ e.finished = d.finished
  <2>1. ~MetEnd(d, queue.serial) /\ ~Fresh(d)
    BY <1>1, <1>4 DEF Decodes, Fresh, IsData
  <2>2. ~MetEnd(e, queue.serial) /\ e.finished # queue.serial
    BY <1>4, <2>1 DEF MetEnd, Fresh
  <2>3. Len(d.codec) <= CodecDelay
    BY <1>1, <2>1 DEF Decodes
  <2>4. Decodes(queue, e)
    BY <1>1, <1>4, <2>2, <2>3, ConstantsTyping DEF Decodes, Fresh
  <2> QED BY <2>2, <2>4, KeepQueue
<1> QED BY <1>2, <1>3, <1>4

--------------------------------------------------------------------------------
(* Every step keeps the streams flowing. *)

LEMMA InitQueues ==
  ASSUME Init, NEW s \in Streams
  PROVE  /\ q[s] \in Queues /\ q[s].serial = 1 /\ Len(q[s].pkts) = 1
         /\ q[s].pkts[1] = [pkt |-> FlushPacket, serial |-> 1]
<1> DEFINE empty == [serial |-> 0, pkts |-> <<>>]
           new == PacketPut(empty, FlushPacket)
<1>1. empty \in Queues /\ empty.serial = 0 /\ Len(empty.pkts) = 0
  BY EmptySeq DEF Queues
<1>2. q[s] = new
  BY DEF Init
<1> HIDE DEF empty, new
<1>3. /\ new \in Queues /\ new.serial = empty.serial + 1
      /\ Len(new.pkts) = Len(empty.pkts) + 1
      /\ new.pkts[Len(empty.pkts) + 1] = [pkt |-> FlushPacket, serial |-> new.serial]
  BY <1>1, PutFacts, PacketsTyping DEF new
<1> QED BY <1>1, <1>2, <1>3

LEMMA InitFlow == Init => Flow
<1> SUFFICES ASSUME Init PROVE Flow
  OBVIOUS
<1> SUFFICES ASSUME NEW s \in Streams PROVE Stream(s)
  BY DEF Init, Flow
<1>2. /\ q[s] \in Queues /\ q[s].serial = 1 /\ Len(q[s].pkts) = 1
      /\ q[s].pkts[1] = [pkt |-> FlushPacket, serial |-> 1]
  BY InitQueues
<1>3. /\ dec[s].pc = "decode" /\ dec[s].pkt_serial = 0 /\ dec[s].finished = 0
      /\ ~dec[s].draining /\ dec[s].codec = <<>> /\ Len(dec[s].codec) = 0
  BY EmptySeq DEF Init
<1>4. q[s].pkts # <<>>
  BY <1>2, QueueFields
<1>5. Ordered(q[s], 0) /\ UpToDate(q[s], 0)
  BY <1>2, <1>4 DEF Ordered, UpToDate
<1>6. ~MetEnd(dec[s], 1)
  BY <1>3 DEF MetEnd
<1>7. ~Ended(q[s], dec[s])
  BY <1>2, <1>6, ConstantsTyping DEF Ended
<1>8. Decodes(q[s], dec[s])
  BY <1>2, <1>3, <1>6, ConstantsTyping DEF Decodes, Fresh
<1>9. Len(from) = 1 /\ rd.pc = "top" /\ Len(frames[s]) = 0
  BY EmptySeq DEF Init
<1> QED BY <1>2, <1>3, <1>5, <1>7, <1>8, <1>9, ConstantsTyping
    DEF Stream, Flowing, Emptied

\* A step of the read thread that leaves the queues alone.
LEMMA KeepStreams ==
  ASSUME Types, Flow, UNCHANGED <<q, dec, frames, from>>,
         rd.pc \notin {"flush", "flushed", "discontinuity"},
         rd'.pc \notin {"flush", "flushed", "discontinuity", "store"},
         rd.broken => rd'.broken, rd'.pos = rd.pos,
         rd'.pc = "null" => rd'.broken \/ rd'.pos > Len(Media)
  PROVE  Flow'
<1> SUFFICES ASSUME NEW s \in Streams PROVE Stream(s)'
  BY DEF Flow
<1>1. Stream(s)
  BY DEF Flow
<1>2. ~Emptied(s) /\ ~Emptied(s)'
  BY DEF Emptied
<1> QED BY <1>1, <1>2 DEF Stream

LEMMA GotoFields ==
  ASSUME Types, NEW pc, Goto(pc)
  PROVE  /\ rd'.pc = pc /\ rd'.pos = rd.pos /\ rd'.broken = rd.broken
         /\ rd'.todo = rd.todo
BY DEF Types, Readers, Goto

LEMMA ReaderFields ==
  ASSUME Types
  PROVE  /\ rd \in Readers /\ rd.pc \in RdPcs /\ rd.todo \subseteq Streams
         /\ rd.pos \in Positions /\ rd.pos \in Nat /\ rd.broken \in BOOLEAN
BY FileTyping DEF Types, Readers, Positions

LEMMA QuietFlow ==
  ASSUME Types, Flow,
         \/ ReadTop \/ ReadSought \/ ReadRebuffer \/ ReadRoom \/ ReadOver
         \/ ReadComplete \/ ReadCheck \/ ReadEnd \/ ReadBroken \/ ReadEof
         \/ \E s \in Streams : ReadDrained(s)
  PROVE  Flow'
<1> rd \in Readers
  BY ReaderFields
<1>1. CASE ReadTop \/ ReadRebuffer \/ ReadComplete \/ ReadCheck
  <2>1. \E pc \in {"seek", "room", "read", "top"} : Goto(pc)
    BY <1>1 DEF ReadTop, ReadRebuffer, ReadComplete, ReadCheck
  <2> QED BY <1>1, <2>1, GotoFields, KeepStreams
      DEF ReadTop, ReadRebuffer, ReadComplete, ReadCheck, history
<1>2. CASE ReadSought \/ ReadEof
  <2>1. /\ rd'.pc \in {"rebuffer", "top"} /\ rd'.pos = rd.pos /\ rd'.broken = rd.broken
    BY <1>2 DEF ReadSought, ReadEof, Readers
  <2> QED BY <1>2, <2>1, KeepStreams DEF ReadSought, ReadEof, history
<1>3. CASE ReadRoom
  <2>1. /\ rd'.pc \in {"top", "read", "drained1"}
        /\ rd'.pos = rd.pos /\ rd'.broken = rd.broken
    <3>1. CASE \E pc \in {"top", "read"} : Goto(pc)
      BY <3>1, GotoFields
    <3>2. CASE rd' = [rd EXCEPT !.pc = "drained1", !.todo = Streams]
      BY <3>2 DEF Readers
    <3> QED BY <1>3, <3>1, <3>2 DEF ReadRoom
  <2> QED BY <1>3, <2>1, KeepStreams DEF ReadRoom, history
<1>4. CASE ReadOver
  <2>1. /\ rd'.pc \in {"top", "read", "complete"}
        /\ rd'.pos = rd.pos /\ rd'.broken = rd.broken
    <3>1. CASE Goto("top")
      BY <3>1, GotoFields
    <3>2. CASE rd' = [rd EXCEPT !.pc = "read", !.loop = @ - 1]
      BY <3>2 DEF Readers
    <3>3. CASE rd' = [rd EXCEPT !.pc = "complete", !.completed = TRUE]
      BY <3>3 DEF Readers
    <3> QED BY <1>4, <3>1, <3>2, <3>3 DEF ReadOver
  <2> QED BY <1>4, <2>1, KeepStreams DEF ReadOver, history
<1>5. CASE ReadEnd
  <2>1. rd'.pc \in {"eof", "null"} /\ rd'.pos = rd.pos /\ rd'.broken = rd.broken
    <3>1. CASE Goto("eof")
      BY <3>1, GotoFields
    <3>2. CASE rd' = [rd EXCEPT !.pc = "null", !.todo = Streams]
      BY <3>2 DEF Readers
    <3> QED BY <1>5, <3>1, <3>2 DEF ReadEnd
  <2> QED BY <1>5, <2>1, KeepStreams DEF ReadEnd, history
<1>6. CASE ReadBroken
  <2>1. rd'.pc = "null" /\ rd'.pos = rd.pos /\ rd'.broken
    BY <1>6 DEF ReadBroken, Readers
  <2> QED BY <1>6, <2>1, KeepStreams DEF ReadBroken, history
<1>7. CASE \E s \in Streams : ReadDrained(s)
  <2> PICK s \in Streams : ReadDrained(s)
    BY <1>7
  <2>1. /\ rd'.pc \in {"drained1", "drained2", "over", "read"}
        /\ rd'.pos = rd.pos /\ rd'.broken = rd.broken
    <3>1. CASE \E pc \in {"drained2", "read"} : Goto(pc)
      BY <3>1, GotoFields
    <3>2. CASE After(s, "drained1", "over")
      BY <3>2, AfterTyping, PcsTyping
    <3> QED BY <3>1, <3>2 DEF ReadDrained
  <2> QED BY <2>1, KeepStreams DEF ReadDrained, history
<1> QED BY <1>1, <1>2, <1>3, <1>4, <1>5, <1>6, <1>7

LEMMA ReadSeekFlow == ASSUME Types, Flow, ReadSeek PROVE Flow'
<1>1. CASE Goto("sought") /\ UNCHANGED from
  BY <1>1, GotoFields, KeepStreams DEF ReadSeek
<1>2. CASE /\ rd' = [rd EXCEPT !.pc = "flush", !.todo = Streams, !.pos = is.seek_pos]
           /\ from' = Append(from, is.seek_pos)
  <2>1. rd'.pc = "flush" /\ rd'.todo = Streams
    BY <1>2, ReaderFields DEF Readers
  <2>2. Len(from') = Len(from) + 1 /\ Len(from) \in Nat
    BY <1>2, SeekPosition, AppendProperties, LenProperties DEF Types
  <2> SUFFICES ASSUME NEW s \in Streams PROVE Stream(s)'
    BY <2>1 DEF Flow
  <2>3. Stream(s) /\ q[s].serial \in Nat
    BY QueueFields DEF Flow, Types
  <2>4. ~Emptied(s) /\ ~Emptied(s)'
    BY <2>1 DEF Emptied, ReadSeek
  <2> QED BY <2>1, <2>2, <2>3, <2>4 DEF Stream, ReadSeek
<1> QED BY <1>1, <1>2 DEF ReadSeek

LEMMA ReadPacketFlow == ASSUME Types, Flow, ReadPacket PROVE Flow'
<1> SUFFICES ASSUME NEW s \in Streams PROVE Stream(s)' /\ (rd'.pc # "null" /\ ~rd'.broken)
  BY PipelineAssumption DEF Flow
<1>1. /\ rd'.pc \in {"store", "discontinuity"} /\ rd'.pos = rd.pos
      /\ rd'.broken = rd.broken
      /\ rd'.pc = "discontinuity" => from' = Append(from, rd.pos)
      /\ rd'.pc = "store" => from' = from
  <2>1. CASE rd' = [rd EXCEPT !.pc = "store", !.eof = FALSE] /\ UNCHANGED from
    BY <2>1, ReaderFields DEF Readers
  <2>2. CASE /\ rd' = [rd EXCEPT !.pc = "discontinuity", !.todo = Streams, !.eof = FALSE]
             /\ from' = Append(from, rd.pos)
    BY <2>2, ReaderFields DEF Readers
  <2> QED BY <2>1, <2>2 DEF ReadPacket
<1>2. Stream(s) /\ q[s].serial \in Nat
  BY QueueFields DEF Flow, Types
<1>3. ~Emptied(s) /\ ~Emptied(s)'
  BY <1>1 DEF Emptied, ReadPacket
<1>4. Len(from) \in Nat /\ Len(Append(from, rd.pos)) = Len(from) + 1
  BY ReaderFields, AppendProperties, LenProperties DEF Types
<1>5. ~Ended(q[s], dec[s])
  BY <1>2, ReaderFields, FileTyping DEF Stream, ReadPacket
<1> QED BY <1>1, <1>2, <1>3, <1>4, <1>5 DEF Stream, ReadPacket

LEMMA OneFirst ==
  ASSUME NEW s \in Streams, NEW r \in Streams, AudioFirst(s), AudioFirst(r)
  PROVE  r = s
BY PipelineAssumption DEF AudioFirst

LEMMA ReadFlushFlow == ASSUME Types, Flow, NEW s \in Streams, ReadFlush(s) PROVE Flow'
<1>1. /\ rd'.pc = "flushed" /\ rd'.pos = rd.pos /\ rd'.broken = rd.broken
      /\ rd'.todo = rd.todo
  BY GotoFields DEF ReadFlush
<1> SUFFICES ASSUME NEW r \in Streams PROVE Stream(r)'
  BY <1>1 DEF Flow
<1>2. Stream(r) /\ q[r] \in Queues /\ dec[r] \in Decoders
  BY DEF Flow, Types
<1>3. ~Emptied(r) /\ (Emptied(r)' <=> r = s)
  BY <1>1, OneFirst DEF Emptied, ReadFlush, AudioFirst
<1>4. CASE r = s
  <2>1. q'[s] = PacketFlush(q[s])
    BY DEF ReadFlush, Types
  <2>2. /\ q'[s].serial = q[s].serial /\ q'[s].pkts = <<>>
        /\ Flowing(q'[s], dec[s]) /\ (Ended(q'[s], dec[s]) => Ended(q[s], dec[s]))
    BY <1>2, <1>4, <2>1, FlushQueue DEF Stream
  <2>3. s \in rd.todo /\ rd.pc = "flush"
    BY DEF ReadFlush, AudioFirst
  <2> QED BY <1>1, <1>2, <1>3, <1>4, <2>2, <2>3 DEF Stream, ReadFlush, history
<1>5. CASE r # s
  <2>1. q'[r] = q[r]
    BY <1>5 DEF ReadFlush, Types
  <2> QED BY <1>1, <1>2, <1>3, <1>5, <2>1 DEF Stream, ReadFlush, history
<1> QED BY <1>4, <1>5

\* The flush packet, after a seek or a discontinuity.
LEMMA PutFlushFlow ==
  ASSUME Types, Flow, NEW s \in Streams, AudioFirst(s), PutFlush(s),
         rd.pc \in {"flushed", "discontinuity"}, UNCHANGED <<dec, frames, from>>,
         rd'.pos = rd.pos, rd'.broken = rd.broken, rd'.todo = rd.todo \ {s},
         \/ rd.pc = "flushed" /\ rd'.pc = IF rd.todo = {s} THEN "sought" ELSE "flush"
         \/ rd.pc = "discontinuity"
            /\ rd'.pc = IF rd.todo = {s} THEN "store" ELSE "discontinuity"
  PROVE  Flow'
<1>1. rd'.pc # "null" /\ (rd'.pc \in {"discontinuity", "store"} => ~rd'.broken)
  BY DEF Flow
<1> SUFFICES ASSUME NEW r \in Streams PROVE Stream(r)'
  BY <1>1 DEF Flow
<1>2. Stream(r) /\ q[r] \in Queues /\ dec[r] \in Decoders
  BY DEF Flow, Types
<1>3. ~Emptied(r)'
  BY DEF Emptied
<1>4. CASE r = s
  <2>1. q'[s] = PacketPut(q[s], FlushPacket)
    BY DEF PutFlush, Types
  <2>2. /\ q'[s].serial = q[s].serial + 1 /\ Flowing(q'[s], dec[s])
        /\ UpToDate(q'[s], dec[s].pkt_serial) /\ ~Ended(q'[s], dec[s])
    BY <1>2, <1>4, <2>1, PutFlushPacket DEF Stream
  <2>3. q[s].serial < Len(from) /\ q[s].serial \in Nat /\ Len(from) \in Nat
    BY <1>2, <1>4, QueueFields, LenProperties DEF Stream, AudioFirst, Types
  <2>4. s \notin rd'.todo
    OBVIOUS
  <2> QED BY <1>2, <1>3, <1>4, <2>2, <2>3, <2>4 DEF Stream
<1>5. CASE r # s
  <2>1. q'[r] = q[r] /\ ~Emptied(r)
    BY <1>5, OneFirst DEF PutFlush, Types, Emptied
  <2>2. r \in rd.todo => rd.todo # {s} /\ r \in rd'.todo
    BY <1>5
  <2>3. r \in rd'.todo => r \in rd.todo
    OBVIOUS
  <2> QED BY <1>2, <1>3, <1>5, <2>1, <2>2, <2>3 DEF Stream
<1> QED BY <1>4, <1>5

LEMMA ReadFlushedFlow == ASSUME Types, Flow, NEW s \in Streams, ReadFlushed(s) PROVE Flow'
<1>1. After(s, "flush", "sought")
  BY DEF ReadFlushed
<1> QED BY <1>1, AfterTyping, PcsTyping, PutFlushFlow DEF ReadFlushed

LEMMA ReadDiscontinuityFlow ==
  ASSUME Types, Flow, NEW s \in Streams, ReadDiscontinuity(s)
  PROVE  Flow'
<1>1. After(s, "discontinuity", "store")
  BY DEF ReadDiscontinuity
<1> QED BY <1>1, AfterTyping, PcsTyping, PutFlushFlow DEF ReadDiscontinuity

LEMMA ReadStoreFlow == ASSUME Types, Flow, ReadStore PROVE Flow'
<1>1. rd'.pc = "check" /\ rd'.pos = rd.pos + 1 /\ rd'.broken = rd.broken
  BY ReaderFields DEF ReadStore, Readers
<1> SUFFICES ASSUME NEW r \in Streams PROVE Stream(r)'
  BY <1>1 DEF Flow
<1>2. /\ Stream(r) /\ q[r] \in Queues /\ dec[r] \in Decoders
      /\ ~Emptied(r) /\ ~Emptied(r)' /\ ~rd.broken
      /\ rd.pos \in 1..Len(Media) /\ Len(Media) \in Nat
  BY <1>1, ReaderFields, FileTyping DEF Flow, Types, Emptied, ReadStore, Positions
<1>3. ~Ended(q[r], dec[r])
  BY <1>2 DEF Stream, ReadStore
<1>4. CASE r = Media[rd.pos]
  <2>1. q'[r] = PacketPut(q[r], rd.pos)
    BY <1>4 DEF ReadStore, Types
  <2>2. rd.pos \in 0..EndPacket /\ rd.pos # FlushPacket /\ rd.pos # EndPacket
    BY <1>2 DEF EndPacket, FlushPacket
  <2>3. /\ q'[r].serial = q[r].serial /\ Flowing(q'[r], dec[r])
        /\ UpToDate(q'[r], dec[r].pkt_serial) /\ ~Ended(q'[r], dec[r])
    BY <1>2, <1>3, <2>1, <2>2, PutPacket DEF Stream
  <2> QED BY <1>1, <1>2, <2>3 DEF Stream, ReadStore, history
<1>5. CASE r # Media[rd.pos]
  <2>1. q'[r] = q[r]
    BY <1>5 DEF ReadStore, Types
  <2> QED BY <1>1, <1>2, <1>3, <2>1 DEF Stream, ReadStore, history
<1> QED BY <1>4, <1>5

LEMMA PutEndFlow ==
  ASSUME NEW queue \in Queues, NEW d \in Decoders, NEW twice \in BOOLEAN,
         Flowing(queue, d), UpToDate(queue, d.pkt_serial)
  PROVE  LET new == PutEnd(queue, twice)
         IN  /\ new \in Queues /\ new.serial = queue.serial
             /\ Flowing(new, d) /\ UpToDate(new, d.pkt_serial)
             /\ Len(new.pkts) = Len(queue.pkts) + IF twice THEN 2 ELSE 1
<1> DEFINE one == PacketPut(queue, EndPacket)
<1>1. /\ one \in Queues /\ one.serial = queue.serial
      /\ Flowing(one, d) /\ UpToDate(one, d.pkt_serial)
  BY PutPacket, PacketsTyping, ConstantsTyping
<1>2. Len(one.pkts) = Len(queue.pkts) + 1
  BY PutFacts, PacketsTyping
<1> HIDE DEF one
<1>3. CASE ~twice
  BY <1>1, <1>2, <1>3 DEF PutEnd, one
<1>4. CASE twice
  <2> DEFINE two == PacketPut(one, EndPacket)
  <2>1. /\ two \in Queues /\ two.serial = one.serial
        /\ Flowing(two, d) /\ UpToDate(two, d.pkt_serial)
    BY <1>1, PutPacket, PacketsTyping, ConstantsTyping
  <2>2. Len(two.pkts) = Len(one.pkts) + 1
    BY <1>1, PutFacts, PacketsTyping
  <2>3. PutEnd(queue, twice) = two
    BY <1>4 DEF PutEnd, one
  <2> HIDE DEF two
  <2>4. Len(queue.pkts) \in Nat
    BY QueueFields
  <2>5. Len(two.pkts) = Len(queue.pkts) + 2
    BY <1>2, <2>2, <2>4
  <2> QED BY <1>1, <1>4, <2>1, <2>3, <2>5
<1> QED BY <1>3, <1>4

LEMMA ReadNullFlow == ASSUME Types, Flow, NEW s \in Streams, ReadNull(s) PROVE Flow'
<1>1. /\ rd'.pc = (IF rd.todo = {s} THEN "eof" ELSE "null") /\ rd'.pos = rd.pos
      /\ rd'.broken = rd.broken /\ (rd.broken \/ rd.pos > Len(Media))
  BY AfterTyping, PcsTyping DEF ReadNull, Flow
<1> SUFFICES ASSUME NEW r \in Streams PROVE Stream(r)'
  BY <1>1 DEF Flow
<1>2. /\ Stream(r) /\ q[r] \in Queues /\ dec[r] \in Decoders
      /\ ~Emptied(r) /\ ~Emptied(r)'
  BY <1>1 DEF Flow, Types, Emptied, ReadNull
<1>3. CASE r = s
  <2>1. q'[r] = PutEnd(q[r], rd.broken)
    BY <1>3 DEF ReadNull, Types
  <2>2. /\ q'[r].serial = q[r].serial /\ Flowing(q'[r], dec[r])
        /\ UpToDate(q'[r], dec[r].pkt_serial)
    BY <1>2, <2>1, PutEndFlow, ReaderFields DEF Stream
  <2> QED BY <1>1, <1>2, <2>2 DEF Stream, ReadNull, history
<1>4. CASE r # s
  <2>1. q'[r] = q[r]
    BY <1>4 DEF ReadNull, Types
  <2> QED BY <1>1, <1>2, <2>1 DEF Stream, ReadNull, history
<1> QED BY <1>3, <1>4

\* A step of a decoder, seen from every stream.
LEMMA DecoderFlow ==
  ASSUME Types, Flow, NEW s \in Streams, NEW queue \in Queues, NEW d \in Decoders,
         q' = [q EXCEPT ![s] = queue], dec' = [dec EXCEPT ![s] = d],
         queue.serial = q[s].serial, queue = q[s] \/ q[s].pkts # <<>>,
         /\ Flowing(queue, d)
         /\ UpToDate(q[s], dec[s].pkt_serial) => UpToDate(queue, d.pkt_serial)
         /\ Ended(queue, d) => Ended(q[s], dec[s]),
         \A r \in Streams : Len(frames'[r]) <= FrameSlots, UNCHANGED <<rd, from>>
  PROVE  Flow'
<1> SUFFICES ASSUME NEW r \in Streams PROVE Stream(r)'
  BY DEF Flow
<1>1. Stream(r) /\ (Emptied(r)' <=> Emptied(r))
  BY DEF Flow, Emptied, AudioFirst
<1>2. CASE r = s
  <2>1. q'[r] = queue /\ dec'[r] = d
    BY <1>2 DEF Types
  <2> QED BY <1>1, <1>2, <2>1 DEF Stream
<1>3. CASE r # s
  <2>1. q'[r] = q[r] /\ dec'[r] = dec[r]
    BY <1>3 DEF Types
  <2> QED BY <1>1, <2>1 DEF Stream
<1> QED BY <1>2, <1>3

LEMMA StreamFacts ==
  ASSUME Types, Flow, NEW s \in Streams
  PROVE  /\ q[s] \in Queues /\ dec[s] \in Decoders /\ Flowing(q[s], dec[s])
         /\ q \in [Streams -> Queues] /\ dec \in [Streams -> Decoders]
         /\ \A r \in Streams : Len(frames[r]) <= FrameSlots
BY DEF Types, Flow, Stream

LEMMA KeptQueue == ASSUME Types, UNCHANGED q, NEW s \in Streams
                   PROVE  q' = [q EXCEPT ![s] = q[s]]
BY DEF Types

LEMMA ReceiveFlow ==
  ASSUME Types, Flow, NEW s \in Streams, Receive(s), UNCHANGED <<rd, history>>
  PROVE  Flow'
<1> dec[s].pc = "decode" /\ UNCHANGED q /\ UNCHANGED frames /\ UNCHANGED from
  BY DEF Receive, history
<1>1. CASE \E pc \in {"push", "get"} :
             /\ dec' = [dec EXCEPT ![s].pc = pc]
             /\ pc # "push" /\ dec[s].pkt_serial = q[s].serial
                  => Len(dec[s].codec) <= CodecDelay
  <2> PICK pc \in {"push", "get"} :
        /\ dec' = [dec EXCEPT ![s].pc = pc]
        /\ pc # "push" /\ dec[s].pkt_serial = q[s].serial
             => Len(dec[s].codec) <= CodecDelay
    BY <1>1
  <2> DEFINE e == [dec[s] EXCEPT !.pc = pc]
  <2>1. e \in Decoders /\ dec' = [dec EXCEPT ![s] = e]
    BY StreamFacts DEF Decoders
  <2>2. /\ Flowing(q[s], e)
        /\ UpToDate(q[s], dec[s].pkt_serial) => UpToDate(q[s], e.pkt_serial)
        /\ Ended(q[s], e) => Ended(q[s], dec[s])
    BY StreamFacts, MovesOn
  <2> HIDE DEF e
  <2> QED BY <2>1, <2>2, StreamFacts, KeptQueue, DecoderFlow
<1>2. CASE /\ dec[s].pkt_serial = q[s].serial /\ AtEnd(dec[s])
           /\ dec' = [dec EXCEPT ![s].finished = dec[s].pkt_serial, ![s].draining = FALSE]
  <2> DEFINE e == [dec[s] EXCEPT !.finished = dec[s].pkt_serial, !.draining = FALSE]
  <2>1. e \in Decoders /\ dec' = [dec EXCEPT ![s] = e]
    BY <1>2, StreamFacts DEF Decoders
  <2>2. /\ Flowing(q[s], e)
        /\ UpToDate(q[s], dec[s].pkt_serial) => UpToDate(q[s], e.pkt_serial)
        /\ Ended(q[s], e) => Ended(q[s], dec[s])
    BY <1>2, StreamFacts, Finishes
  <2> HIDE DEF e
  <2> QED BY <2>1, <2>2, StreamFacts, KeptQueue, DecoderFlow
<1> QED BY <1>1, <1>2 DEF Receive

LEMMA PushFlow ==
  ASSUME Types, Flow, NEW s \in Streams, Push(s), UNCHANGED <<rd, history>>
  PROVE  Flow'
<1> DEFINE e == [dec[s] EXCEPT !.pc = "decode", !.codec = Tail(dec[s].codec)]
<1>1. /\ dec[s] \in Decoders /\ Tail(dec[s].codec) \in Seq(1..Len(Media))
      /\ dec[s].codec # <<>> /\ Len(Tail(dec[s].codec)) = Len(dec[s].codec) - 1
      /\ dec[s].pc = "push" /\ UNCHANGED q /\ UNCHANGED from
  BY PushFacts, StreamFacts DEF Push, history
<1>2. /\ e \in Decoders /\ e.pc = "decode" /\ e.codec = Tail(dec[s].codec)
      /\ e.pkt_serial = dec[s].pkt_serial /\ e.finished = dec[s].finished
      /\ e.draining = dec[s].draining
  BY <1>1 DEF Decoders
<1>3. dec' = [dec EXCEPT ![s] = e]
  BY PushFacts
<1> HIDE DEF e
<1>4. /\ Flowing(q[s], e)
      /\ UpToDate(q[s], dec[s].pkt_serial) => UpToDate(q[s], e.pkt_serial)
      /\ Ended(q[s], e) => Ended(q[s], dec[s])
  BY <1>1, <1>2, StreamFacts, Pushes
<1>5. \A r \in Streams : Len(frames'[r]) <= FrameSlots
  <2>1. frames[s] \in Seq(Pictures) /\ Len(frames[s]) \in Nat
    <3>1. frames[s] \in Seq(Pictures)
      BY DEF Types
    <3> QED BY <3>1, LenProperties
  <2>2. Len(frames[s]) < FrameSlots /\ Len(frames'[s]) = Len(frames[s]) + 1
    BY PushFacts
  <2>3. Len(frames'[s]) <= FrameSlots
    BY <2>1, <2>2, ConstantsTyping
  <2>4. \A r \in Streams : r # s => frames'[r] = frames[r]
    BY PushFacts
  <2> QED BY <2>3, <2>4, StreamFacts
<1> QED BY <1>1, <1>2, <1>3, <1>4, <1>5, StreamFacts, KeptQueue, DecoderFlow

LEMMA DequeueFlow ==
  ASSUME Types, Flow, NEW s \in Streams, dec[s].pc \in {"get", "wait"}, Dequeue(s),
         UNCHANGED <<rd, history>>
  PROVE  Flow'
<1> DEFINE n == [q[s] EXCEPT !.pkts = Tail(q[s].pkts)]
           p == q[s].pkts[1]
           d == [dec[s] EXCEPT !.pkt = p.pkt, !.pkt_serial = p.serial,
                   !.pc = IF PacketBuffering /\ dec[s].finished = p.serial
                          THEN "get" ELSE "got"]
<1>0. /\ n \in Queues /\ n.serial = q[s].serial /\ q' = [q EXCEPT ![s] = n]
      /\ q[s].pkts # <<>> /\ n.pkts = Tail(q[s].pkts)
      /\ Len(q[s].pkts) \in Nat /\ Len(Tail(q[s].pkts)) = Len(q[s].pkts) - 1
      /\ \A i \in 1..Len(Tail(q[s].pkts)) : Tail(q[s].pkts)[i] = q[s].pkts[i + 1]
  BY DequeueFacts
<1>2. d \in Decoders /\ dec' = [dec EXCEPT ![s] = d]
  BY DequeueFacts
<1>3. /\ d.pkt = p.pkt /\ d.pkt_serial = p.serial /\ d.finished = dec[s].finished
      /\ d.codec = dec[s].codec /\ d.draining = dec[s].draining
      /\ \/ d.pc = "get" /\ dec[s].finished = p.serial
         \/ d.pc = "got"
  BY StreamFacts DEF Decoders
<1>4. UNCHANGED frames /\ UNCHANGED from
  BY DEF Dequeue, history
<1> HIDE DEF n, d
<1>1. /\ Len(q[s].pkts) = Len(n.pkts) + 1
      /\ \A i \in 1..Len(n.pkts) : n.pkts[i] = q[s].pkts[i + 1]
  BY <1>0
<1>5. /\ Flowing(n, d)
      /\ UpToDate(q[s], dec[s].pkt_serial) => UpToDate(n, d.pkt_serial)
      /\ Ended(n, d) => Ended(q[s], dec[s])
  BY <1>0, <1>1, <1>2, <1>3, StreamFacts, TakePacket
<1> QED BY <1>0, <1>2, <1>4, <1>5, StreamFacts, DecoderFlow

LEMMA StarveFlow ==
  ASSUME Types, Flow, NEW s \in Streams, Starve(s) \/ StartBuffering(s),
         UNCHANGED <<rd, history>>
  PROVE  Flow'
<1> PICK pc \in {"wait", "starved"} : dec' = [dec EXCEPT ![s].pc = pc]
  BY DEF Starve, StartBuffering
<1> DEFINE e == [dec[s] EXCEPT !.pc = pc]
<1>1. e \in Decoders /\ dec' = [dec EXCEPT ![s] = e]
  BY StreamFacts DEF Decoders
<1>2. /\ dec[s].pc \in {"get", "starved"}
      /\ UNCHANGED q /\ UNCHANGED frames /\ UNCHANGED from
  BY DEF Starve, StartBuffering, history
<1>3. /\ Flowing(q[s], e)
      /\ UpToDate(q[s], dec[s].pkt_serial) => UpToDate(q[s], e.pkt_serial)
      /\ Ended(q[s], e) => Ended(q[s], dec[s])
  BY <1>2, StreamFacts, MovesOn
<1> HIDE DEF e
<1> QED BY <1>1, <1>2, <1>3, StreamFacts, KeptQueue, DecoderFlow

LEMMA SendFlow ==
  ASSUME Types, Flow, NEW s \in Streams, Send(s), Types', UNCHANGED <<rd, history>>
  PROVE  Flow'
<1> DEFINE e == dec'[s]
           d == dec[s]
<1>1. /\ d.pc = "got" /\ UNCHANGED q /\ UNCHANGED frames /\ UNCHANGED from
      /\ e \in Decoders /\ dec' = [dec EXCEPT ![s] = e]
      /\ d \in Decoders /\ dec \in [Streams -> Decoders]
  BY StreamFacts DEF Send, history, Types
<1>2. CASE d.pkt_serial # q[s].serial
  <2>1. e = [d EXCEPT !.pc = "get"]
    BY <1>1, <1>2 DEF Send
  <2>2. /\ Flowing(q[s], e)
        /\ UpToDate(q[s], d.pkt_serial) => UpToDate(q[s], e.pkt_serial)
        /\ Ended(q[s], e) => Ended(q[s], d)
    <3> DEFINE f == [d EXCEPT !.pc = "get"]
    <3>1. /\ Flowing(q[s], f)
          /\ UpToDate(q[s], d.pkt_serial) => UpToDate(q[s], f.pkt_serial)
          /\ Ended(q[s], f) => Ended(q[s], d)
      BY <1>2, StreamFacts, MovesOn
    <3> HIDE DEF f
    <3>2. e = f
      BY <2>1 DEF f
    <3> QED BY <3>1, <3>2
  <2> HIDE DEF e
  <2> QED BY <1>1, <2>2, StreamFacts, KeptQueue, DecoderFlow
<1>3. CASE d.pkt_serial = q[s].serial
  <2>1. /\ e.pc = "decode" /\ e.pkt_serial = d.pkt_serial
        /\ \/ /\ d.pkt = FlushPacket
              /\ e.codec = <<>> /\ ~e.draining /\ e.finished = 0
           \/ /\ d.pkt = EndPacket
              /\ e.codec = d.codec /\ e.draining /\ e.finished = d.finished
           \/ /\ IsData(d.pkt) /\ Len(e.codec) = Len(d.codec) + 1
              /\ e.draining = d.draining /\ e.finished = d.finished
    <3>1. CASE d.pkt = FlushPacket
      <4>1. e = [FlushCodec(d) EXCEPT !.pc = "decode"]
        BY <1>1, <1>3, <3>1 DEF Send
      <4> HIDE DEF e
      <4> QED BY <1>1, <3>1, <4>1 DEF FlushCodec, Decoders
    <3>2. CASE d.pkt = EndPacket
      <4>1. e = [d EXCEPT !.pc = "decode", !.draining = TRUE]
        BY <1>1, <1>3, <3>2, ConstantsTyping DEF Send
      <4> HIDE DEF e
      <4> QED BY <1>1, <3>2, <4>1 DEF Decoders
    <3>3. CASE IsData(d.pkt)
      <4>1. e = [d EXCEPT !.pc = "decode", !.codec = Append(d.codec, d.pkt)]
        BY <1>1, <1>3, <3>3 DEF Send, IsData
      <4>2. d.pkt \in 1..Len(Media) /\ d.codec \in Seq(1..Len(Media))
        BY <1>1, <3>3, FileTyping DEF IsData, Decoders, FlushPacket, EndPacket
      <4>3. Len(Append(d.codec, d.pkt)) = Len(d.codec) + 1
        BY <4>2, AppendProperties
      <4> HIDE DEF e
      <4>4. /\ e.pc = "decode" /\ e.pkt_serial = d.pkt_serial
            /\ e.codec = Append(d.codec, d.pkt)
            /\ e.draining = d.draining /\ e.finished = d.finished
        BY <1>1, <4>1 DEF Decoders
      <4> QED BY <3>3, <4>3, <4>4
    <3> QED BY <3>1, <3>2, <3>3 DEF IsData
  <2> HIDE DEF e
  <2>2. /\ Flowing(q[s], e)
        /\ UpToDate(q[s], d.pkt_serial) => UpToDate(q[s], e.pkt_serial)
        /\ Ended(q[s], e) => Ended(q[s], d)
    BY <1>1, <1>3, <2>1, StreamFacts, Sends
  <2> QED BY <1>1, <2>2, StreamFacts, KeptQueue, DecoderFlow
<1> QED BY <1>2, <1>3

\* The others touch neither the queues nor the decoders, and only take frames.
LEMMA OthersFlow ==
  ASSUME Types, Flow, UNCHANGED <<rd, q, dec, from>>,
         \A s \in Streams : Len(frames'[s]) <= Len(frames[s]) /\ Len(frames'[s]) \in Nat
  PROVE  Flow'
<1> SUFFICES ASSUME NEW s \in Streams PROVE Stream(s)'
  BY DEF Flow
<1>1. Stream(s) /\ (Emptied(s)' <=> Emptied(s)) /\ Len(frames[s]) \in Nat
  BY LenProperties DEF Flow, Emptied, AudioFirst, Types
<1>2. Len(frames'[s]) <= FrameSlots
  BY <1>1, ConstantsTyping DEF Stream
<1> QED BY <1>1, <1>2 DEF Stream

LEMMA OutputFlow == ASSUME Types, Flow, NEW s \in Streams, Output(s) PROVE Flow'
<1>1. CASE UNCHANGED frames
  <2>1. \A r \in Streams : Len(frames[r]) \in Nat
    BY LenProperties DEF Types
  <2> QED BY <1>1, <2>1, OthersFlow DEF Output
<1>2. CASE frames[s] # <<>> /\ Take(s)
  <2>1. ASSUME NEW r \in Streams
        PROVE  Len(frames'[r]) <= Len(frames[r]) /\ Len(frames'[r]) \in Nat
    <3>1. CASE r = s
      <4>1. frames'[s] = Tail(frames[s]) /\ frames[s] \in Seq(Pictures)
        BY <1>2 DEF Take, Types
      <4>2. /\ Len(frames[s]) \in Nat /\ Len(frames[s]) > 0
            /\ Len(Tail(frames[s])) = Len(frames[s]) - 1
        BY <1>2, <4>1, TailFacts
      <4> QED BY <3>1, <4>1, <4>2
    <3>2. CASE r # s
      <4>1. frames'[r] = frames[r] /\ Len(frames[r]) \in Nat
        BY <1>2, <3>2, LenProperties DEF Take, Types
      <4> QED BY <4>1
    <3> QED BY <3>1, <3>2
  <2> QED BY <2>1, OthersFlow DEF Output
<1>3. (frames[s] # <<>> /\ Take(s)) \/ UNCHANGED frames
  BY DEF Output, VideoSkip, VideoDue, VideoShow, VideoStep, AudioAsk, AudioTake, Types
<1> QED BY <1>1, <1>2, <1>3

LEMMA FlowStep == ASSUME Types, Flow, [Next]_vars PROVE Flow'
<1>1. CASE Application \/ UNCHANGED vars
  <2>1. \A s \in Streams : Len(frames[s]) \in Nat
    BY LenProperties DEF Types
  <2> QED BY <1>1, <2>1, OthersFlow DEF Application, vars, history
<1>2. CASE ReadThread
  <2>1. CASE \E s \in Streams : \/ ReadFlush(s) \/ ReadFlushed(s)
                                \/ ReadDiscontinuity(s) \/ ReadNull(s)
    BY <2>1, ReadFlushFlow, ReadFlushedFlow, ReadDiscontinuityFlow, ReadNullFlow
  <2>2. CASE ReadSeek \/ ReadPacket \/ ReadStore
    BY <2>2, ReadSeekFlow, ReadPacketFlow, ReadStoreFlow
  <2>3. CASE \/ ReadTop \/ ReadSought \/ ReadRebuffer \/ ReadRoom \/ ReadOver
             \/ ReadComplete \/ ReadCheck \/ ReadEnd \/ ReadBroken \/ ReadEof
             \/ \E s \in Streams : ReadDrained(s)
    BY <2>3, QuietFlow
  <2> QED BY <1>2, <2>1, <2>2, <2>3 DEF ReadThread
<1>3. CASE \E s \in Streams : Decoder(s)
  <2> PICK s \in Streams : Decoder(s)
    BY <1>3
  <2>1. UNCHANGED <<rd, history>> /\ UNCHANGED <<rd, out, seeks, history>>
    BY DEF Decoder
  <2> QED BY <2>1, ReceiveFlow, PushFlow, StarveFlow, SendFlow, SendTypes, DequeueFlow
      DEF Decoder
<1>4. CASE \E s \in Streams : Output(s)
  BY <1>4, OutputFlow
<1> QED BY <1>1, <1>2, <1>3, <1>4 DEF Next

--------------------------------------------------------------------------------
(* Every step keeps the queues small. *)

LEMMA ComingFacts ==
  ASSUME NEW r \in Readers, NEW s
  PROVE  /\ Coming(r, s) \in 0..2
         /\ r.pc \in {"drained1", "drained2", "over", "complete", "read"} => Coming(r, s) = 2
         /\ r.pc = "null" => Coming(r, s) = IF s \in r.todo THEN 2 ELSE 0
         /\ r.pc = "discontinuity" =>
              Coming(r, s) = (IF s \in r.todo THEN 1 ELSE 0)
                             + (IF Media[r.pos] = s THEN 1 ELSE 0)
         /\ r.pc = "store" => Coming(r, s) = IF Media[r.pos] = s THEN 1 ELSE 0
         /\ r.pc \in {"top", "seek", "flush", "flushed", "sought", "rebuffer", "room",
                      "check", "eof"} => Coming(r, s) = 0
BY DEF Coming, Readers, RdPcs

LEMMA LoadFacts ==
  ASSUME Types, NEW s \in Streams
  PROVE  /\ Len(q[s].pkts) \in Nat /\ Coming(rd, s) \in Nat /\ Load(s) \in Nat
         /\ Load(s) = Len(q[s].pkts) + Coming(rd, s)
<1>1. q[s] \in Queues /\ rd \in Readers
  BY DEF Types
<1>2. Len(q[s].pkts) \in Nat /\ Coming(rd, s) \in Nat
  BY <1>1, QueueFields, ComingFacts
<1> QED BY <1>2 DEF Load

LEMMA PassesFacts ==
  ASSUME Types
  PROVE  /\ seeks \in Nat /\ Passes \in Nat /\ seeks <= Passes /\ Passes <= seeks + 1
         /\ ~is.seek_req \/ rd.pc \notin {"rebuffer", "room"} => Passes = seeks + 1
BY DEF Types, Passes

LEMMA NextLoadFacts ==
  ASSUME Types', NEW s \in Streams
  PROVE  /\ Len(q'[s].pkts) \in Nat /\ Coming(rd', s) \in Nat /\ Load(s)' \in Nat
         /\ Load(s)' = Len(q'[s].pkts) + Coming(rd', s)
<1>1. q'[s] \in Queues /\ rd' \in Readers
  BY DEF Types
<1>2. Len(q'[s].pkts) \in Nat /\ Coming(rd', s) \in Nat
  BY <1>1, QueueFields, ComingFacts
<1> QED BY <1>2 DEF Load

LEMMA NextPassesFacts ==
  ASSUME Types'
  PROVE  /\ seeks' \in Nat /\ Passes' \in Nat /\ seeks' <= Passes' /\ Passes' <= seeks' + 1
         /\ ~is'.seek_req \/ rd'.pc \notin {"rebuffer", "room"} => Passes' = seeks' + 1
BY DEF Types, Passes

LEMMA LessLoad ==
  ASSUME Types, Types', Small, Passes <= Passes',
         \A s \in Streams : Load(s)' <= Load(s)
  PROVE  Small'
<1>1. /\ Passes \in Nat /\ Passes' \in Nat /\ MaxBufferSize \in Nat
      /\ \A s \in Streams : Load(s) \in Nat /\ Load(s)' \in Nat
  BY PassesFacts, NextPassesFacts, LoadFacts, NextLoadFacts, ConstantsTyping
<1>2. ASSUME NEW s \in Streams PROVE Load(s)' <= MaxBufferSize + 2 * Passes'
  BY <1>1 DEF Small
<1>3. \A s : Load(s) \in Nat /\ Load(s)' \in Nat /\ Load(s)' <= Load(s)
  BY <1>1 DEF Load
<1>4. \A s : Share(s) \in Nat /\ Share(s)' \in Nat /\ Share(s) <= Share(s)'
  <2>1. 2 * Passes \in Nat /\ 2 * Passes' \in Nat /\ 2 * Passes <= 2 * Passes'
    <3>1. \A m, n \in Nat : m <= n => 2 * m \in Nat /\ 2 * n \in Nat /\ 2 * m <= 2 * n
      OBVIOUS
    <3> QED BY <1>1, <3>1
  <2>2. \A s : /\ Share(s) = IF s \in Streams THEN 2 * Passes ELSE 0
               /\ Share(s)' = IF s \in Streams THEN 2 * Passes' ELSE 0
    BY DEF Share
  <2> QED BY <2>1, <2>2
<1>5. /\ Load("audio") + Load("video") <= MaxBufferSize + Share("audio") + Share("video")
  BY DEF Small
<1>6. Load("audio")' + Load("video")' <= MaxBufferSize + Share("audio")' + Share("video")'
  BY <1>1, <1>3, <1>4, <1>5
<1> QED BY <1>2, <1>6 DEF Small

\* A step that adds no packet.
LEMMA QuietSmall ==
  ASSUME Types, Types', Small, Passes <= Passes',
         \A s \in Streams : Len(q'[s].pkts) <= Len(q[s].pkts),
         \A s \in Streams : Coming(rd', s) <= Coming(rd, s)
  PROVE  Small'
<1>1. ASSUME NEW s \in Streams PROVE Load(s)' <= Load(s)
  <2>1. /\ Len(q[s].pkts) \in Nat /\ Coming(rd, s) \in Nat
        /\ Load(s) = Len(q[s].pkts) + Coming(rd, s)
    BY LoadFacts
  <2>2. /\ Len(q'[s].pkts) \in Nat /\ Coming(rd', s) \in Nat
        /\ Load(s)' = Len(q'[s].pkts) + Coming(rd', s)
    BY NextLoadFacts
  <2>3. Len(q'[s].pkts) <= Len(q[s].pkts) /\ Coming(rd', s) <= Coming(rd, s)
    OBVIOUS
  <2> QED BY <2>1, <2>2, <2>3
<1> QED BY <1>1, LessLoad

LEMMA InitSmall == ASSUME Init, Types PROVE Small
<1>1. \A s \in Streams : Load(s) = 1
  <2> SUFFICES ASSUME NEW s \in Streams PROVE Load(s) = 1
    OBVIOUS
  <2>1. Len(q[s].pkts) = 1
    BY InitQueues
  <2>2. Coming(rd, s) = 0
    <3>1. rd \in Readers /\ rd.pc = "top"
      BY DEF Types, Init
    <3> QED BY <3>1, ComingFacts
  <2> QED BY <2>1, <2>2 DEF Load
<1>2. 2 * Passes \in Nat /\ 2 * Passes >= 1
  BY PassesFacts DEF Init
<1>3. \A s : Load(s) <= Share(s) /\ Load(s) \in Nat /\ Share(s) \in Nat
  <2>1. \A s : /\ s \in Streams => Share(s) = 2 * Passes
               /\ s \notin Streams => Share(s) = 0 /\ Load(s) = 0
    BY DEF Load, Share
  <2> SUFFICES ASSUME NEW s
               PROVE  Load(s) <= Share(s) /\ Load(s) \in Nat /\ Share(s) \in Nat
    OBVIOUS
  <2>2. CASE s \in Streams
    <3>1. Load(s) = 1 /\ Share(s) = 2 * Passes
      BY <1>1, <2>1, <2>2
    <3> QED BY <1>2, <3>1
  <2>3. CASE s \notin Streams
    BY <2>1, <2>3
  <2> QED BY <2>2, <2>3
<1>4. \A s \in Streams : Load(s) <= MaxBufferSize + 2 * Passes
  <2>1. 1 <= MaxBufferSize + 2 * Passes
    BY <1>2, ConstantsTyping
  <2> QED BY <1>1, <2>1
<1>5. Load("audio") + Load("video") <= MaxBufferSize + Share("audio") + Share("video")
  BY <1>3, ConstantsTyping
<1> QED BY <1>4, <1>5 DEF Small

\* A step of the read thread that leaves the queues alone.
LEMMA ReaderQuiet ==
  ASSUME Types, Types', Small, UNCHANGED <<q, seeks>>,
         rd'.pc \notin {"rebuffer", "room"} \/ ~is'.seek_req,
         \/ rd'.pc \in {"top", "seek", "flush", "flushed", "sought", "rebuffer", "room",
                        "check", "eof"}
         \/ rd.pc \in {"drained1", "drained2", "over", "complete", "read"}
  PROVE  Small'
<1>1. Passes <= Passes'
  BY PassesFacts, NextPassesFacts
<1>2. \A s \in Streams : Len(q'[s].pkts) <= Len(q[s].pkts)
  BY LoadFacts
<1>3. \A s \in Streams : Coming(rd', s) <= Coming(rd, s)
  <2>1. rd \in Readers /\ rd' \in Readers
    BY DEF Types
  <2> QED BY <2>1, ComingFacts
<1> QED BY <1>1, <1>2, <1>3, QuietSmall

LEMMA QuietReads ==
  ASSUME Types, Types', Small, UNCHANGED seeks,
         \/ ReadTop \/ ReadSeek \/ ReadSought \/ ReadRebuffer \/ ReadOver
         \/ ReadComplete \/ ReadPacket \/ ReadCheck \/ ReadEnd \/ ReadBroken \/ ReadEof
         \/ \E s \in Streams : ReadDrained(s)
  PROVE  Small'
<1> rd \in Readers
  BY ReaderFields
<1>1. CASE ReadTop
  <2>1. CASE is.seek_req
    <3>1. rd'.pc = "seek"
      BY <1>1, <2>1, GotoFields DEF ReadTop
    <3> QED BY <1>1, <3>1, ReaderQuiet DEF ReadTop
  <2>2. CASE ~is.seek_req
    <3>1. rd'.pc = "room" /\ ~is'.seek_req
      BY <1>1, <2>2, GotoFields DEF ReadTop
    <3> QED BY <1>1, <3>1, ReaderQuiet DEF ReadTop
  <2> QED BY <2>1, <2>2
<1>2. CASE ReadSeek
  <2>1. rd'.pc \in {"flush", "sought"}
    BY <1>2, GotoFields DEF ReadSeek, Readers
  <2> QED BY <1>2, <2>1, ReaderQuiet DEF ReadSeek
<1>3. CASE ReadSought
  <2>1. rd'.pc = "rebuffer"
    BY <1>3 DEF ReadSought, Readers
  <2>2. [is EXCEPT !.seek_req = FALSE] \in Controls
        /\ ~[is EXCEPT !.seek_req = FALSE].seek_req
    BY DEF Types, Controls
  <2>3. ~is'.seek_req
    BY <1>3, <2>2, PlayingTyping DEF ReadSought
  <2> QED BY <1>3, <2>1, <2>3, ReaderQuiet DEF ReadSought
<1>4. CASE ReadRebuffer
  <2>1. rd.pc = "rebuffer" /\ rd'.pc = "room" /\ is'.seek_req = is.seek_req
    BY <1>4, GotoFields, BufferingTyping DEF ReadRebuffer, Types
  <2>2. Passes' = Passes
    BY <2>1 DEF Passes
  <2>3. \A s \in Streams : Coming(rd', s) <= Coming(rd, s)
    <3>1. rd' \in Readers
      BY DEF Types
    <3> QED BY <2>1, <3>1, ComingFacts
  <2>4. \A s \in Streams : Len(q'[s].pkts) <= Len(q[s].pkts)
    BY <1>4, LoadFacts DEF ReadRebuffer
  <2> QED BY <2>2, <2>3, <2>4, QuietSmall, PassesFacts
<1>5. CASE ReadOver \/ ReadComplete \/ ReadPacket \/ ReadEnd \/ ReadBroken
  <2>1. rd.pc \in {"over", "complete", "read"}
    BY <1>5 DEF ReadOver, ReadComplete, ReadPacket, ReadEnd, ReadBroken
  <2>2. rd'.pc \notin {"rebuffer", "room"}
    BY <1>5 DEF ReadOver, ReadComplete, ReadPacket, ReadEnd, ReadBroken, Goto, Readers
  <2> QED BY <1>5, <2>1, <2>2, ReaderQuiet
      DEF ReadOver, ReadComplete, ReadPacket, ReadEnd, ReadBroken
<1>6. CASE ReadCheck \/ ReadEof
  <2>1. rd'.pc = "top"
    BY <1>6 DEF ReadCheck, ReadEof, Goto, Readers
  <2> QED BY <1>6, <2>1, ReaderQuiet DEF ReadCheck, ReadEof
<1>7. CASE \E s \in Streams : ReadDrained(s)
  <2> PICK s \in Streams : ReadDrained(s)
    BY <1>7
  <2>1. rd.pc \in {"drained1", "drained2"} /\ rd'.pc \notin {"rebuffer", "room"}
    BY DEF ReadDrained, Goto, After, Readers
  <2> QED BY <2>1, ReaderQuiet DEF ReadDrained
<1> QED BY <1>1, <1>2, <1>3, <1>4, <1>5, <1>6, <1>7

\* The test for full queues.
LEMMA ReadRoomSmall ==
  ASSUME Types, Types', Small, UNCHANGED seeks, ReadRoom
  PROVE  Small'
<1> rd \in Readers /\ rd' \in Readers
  BY DEF Types
<1>1. CASE ~is.seek_req /\ QueuesFull
  <2>1. rd'.pc = "top"
    BY <1>1, GotoFields DEF ReadRoom
  <2> QED BY <2>1, ReaderQuiet DEF ReadRoom
<1>2. CASE ~(~is.seek_req /\ QueuesFull)
  <2>1. rd'.pc \in {"read", "drained1"} /\ is' = is /\ q' = q /\ rd.pc = "room"
    BY <1>2 DEF ReadRoom, Goto, Readers
  <2>2. \A s : Load(s) \in Nat
               /\ Load(s) = (IF s \in Streams THEN Len(q[s].pkts) ELSE 0)
               /\ Load(s)' = Load(s) + IF s \in Streams THEN 2 ELSE 0
    BY <2>1, ComingFacts, LoadFacts, NextLoadFacts DEF Load
  <2>3. Passes' = seeks + 1 /\ seeks \in Nat /\ MaxBufferSize \in Nat
    BY <2>1, NextPassesFacts, PassesFacts, ConstantsTyping
  <2>4. CASE is.seek_req
    <3>1. Passes = seeks
      BY <2>1, <2>4 DEF Passes
    <3>2. \A s \in Streams : Load(s)' <= MaxBufferSize + 2 * Passes'
      BY <2>2, <2>3, <3>1 DEF Small
    <3>3. \A s : /\ Share(s)' = Share(s) + IF s \in Streams THEN 2 ELSE 0
                 /\ Share(s) \in Nat
      BY <2>3, <3>1 DEF Share
    <3>4. Load("audio")' + Load("video")'
            <= MaxBufferSize + Share("audio")' + Share("video")'
      <4>1. Load("audio") + Load("video")
              <= MaxBufferSize + Share("audio") + Share("video")
        BY DEF Small
      <4> QED BY <2>2, <2>3, <3>3, <4>1
    <3> QED BY <3>2, <3>4 DEF Small
  <2>5. CASE ~is.seek_req /\ ~QueuesFull
    <3>1. Load("audio") + Load("video") <= MaxBufferSize
      <4>1. Size("audio") = Load("audio") /\ Size("video") = Load("video")
        BY <2>2 DEF Size
      <4> QED BY <2>2, <2>3, <2>5, <4>1 DEF QueuesFull
    <3>2. \A s \in Streams : Load(s) <= MaxBufferSize
      <4>1. \A s \in Streams : s = "audio" \/ s = "video"
        BY PipelineAssumption
      <4> QED BY <2>2, <2>3, <3>1, <4>1
    <3>3. \A s \in Streams : Load(s)' <= MaxBufferSize + 2 * Passes'
      BY <2>2, <2>3, <3>2
    <3>4. \A s : /\ Share(s)' \in Nat
                 /\ (IF s \in Streams THEN 2 ELSE 0) <= Share(s)'
      BY <2>3 DEF Share
    <3>5. Load("audio")' + Load("video")'
            <= MaxBufferSize + Share("audio")' + Share("video")'
      BY <2>2, <2>3, <3>1, <3>4
    <3> QED BY <3>3, <3>5 DEF Small
  <2> QED BY <1>2, <2>4, <2>5
<1> QED BY <1>1, <1>2

\* One flush packet where the queue has been emptied.
LEMMA ReadFlushedSmall ==
  ASSUME Types, Types', Flow, Small, UNCHANGED seeks, NEW s \in Streams, ReadFlushed(s)
  PROVE  Small'
<1> rd \in Readers /\ rd' \in Readers
  BY DEF Types
<1>1. rd.pc = "flushed" /\ rd'.pc \in {"flush", "sought"}
  BY AfterTyping, PcsTyping DEF ReadFlushed
<1>2. /\ Passes = seeks + 1 /\ Passes' = seeks + 1 /\ seeks \in Nat
      /\ MaxBufferSize \in Nat
  BY <1>1, PassesFacts, NextPassesFacts, ConstantsTyping
<1>3. \A r : Share(r)' = Share(r) /\ Share(r) = IF r \in Streams THEN 2 * Passes ELSE 0
  BY <1>2 DEF Share
<1>4. Load(s)' = 1
  <2>1. q'[s] = PacketPut(q[s], FlushPacket)
    BY DEF ReadFlushed, PutFlush, Types
  <2>2. q[s].pkts = <<>> /\ q[s] \in Queues
    BY <1>1 DEF Flow, Stream, Emptied, ReadFlushed, Types
  <2>3. Len(q[s].pkts) = 0
    BY <2>2, QueueFields
  <2>4. Len(q'[s].pkts) = Len(q[s].pkts) + 1
    BY <2>1, <2>2, PutFacts, PacketsTyping
  <2>5. Coming(rd', s) = 0
    BY <1>1, ComingFacts
  <2>6. Load(s)' = Len(q'[s].pkts) + Coming(rd', s)
    BY NextLoadFacts
  <2>7. Len(q'[s].pkts) = 1
    BY <2>3, <2>4
  <2> QED BY <2>5, <2>6, <2>7
<1>5. \A r : r # s => Load(r)' = Load(r)
  BY <1>1, ComingFacts DEF Load, ReadFlushed, PutFlush, Types
<1>6. \A r : /\ Load(r) \in Nat /\ Load(r)' \in Nat
             /\ r \in Streams => Load(r) <= MaxBufferSize + 2 * Passes
             /\ r \notin Streams => Load(r) = 0
  BY LoadFacts, NextLoadFacts DEF Small, Load
<1>7. \A r \in Streams : Load(r)' <= MaxBufferSize + 2 * Passes'
  BY <1>2, <1>4, <1>5, <1>6
<1>8. Load("audio")' + Load("video")' <= MaxBufferSize + Share("audio")' + Share("video")'
  <2>1. s = "audio" \/ s = "video"
    BY PipelineAssumption
  <2>2. PICK r : r # s /\ {r, s} = {"audio", "video"}
    BY <2>1
  <2>3. Load(r)' <= MaxBufferSize + Share(r)' /\ Load(r)' \in Nat /\ Share(r)' \in Nat
    BY <1>2, <1>3, <1>5, <1>6, <2>2
  <2>4. Load(s)' <= Share(s)' /\ Load(s)' \in Nat /\ Share(s)' \in Nat
    BY <1>2, <1>3, <1>4
  <2>5. Load(r)' + Load(s)' <= MaxBufferSize + Share(r)' + Share(s)'
    BY <1>2, <2>3, <2>4
  <2>6. (s = "audio" /\ r = "video") \/ (s = "video" /\ r = "audio")
    BY <2>1, <2>2
  <2>7. CASE s = "audio" /\ r = "video"
    BY <1>2, <2>3, <2>4, <2>5, <2>7
  <2>8. CASE s = "video" /\ r = "audio"
    BY <1>2, <2>3, <2>4, <2>5, <2>8
  <2> QED BY <2>6, <2>7, <2>8
<1> QED BY <1>7, <1>8 DEF Small

\* A packet that was to come.
LEMMA ExpectedSmall ==
  ASSUME Types, Types', Small, UNCHANGED seeks, rd'.pc \notin {"rebuffer", "room"},
         NEW s \in Streams, \A r \in Streams \ {s} : q'[r] = q[r],
         Len(q'[s].pkts) + Coming(rd', s) <= Len(q[s].pkts) + Coming(rd, s),
         \A r \in Streams \ {s} : Coming(rd', r) <= Coming(rd, r)
  PROVE  Small'
<1>1. Passes <= Passes'
  BY PassesFacts, NextPassesFacts
<1>2. ASSUME NEW r \in Streams PROVE Load(r)' <= Load(r)
  <2>1. /\ Len(q[r].pkts) \in Nat /\ Coming(rd, r) \in Nat
        /\ Load(r) = Len(q[r].pkts) + Coming(rd, r)
    BY LoadFacts
  <2>2. Coming(rd', r) \in Nat /\ Load(r)' = Len(q'[r].pkts) + Coming(rd', r)
    BY NextLoadFacts
  <2>3. CASE r = s
    BY <2>1, <2>2, <2>3
  <2>4. CASE r # s
    <3>1. q'[r] = q[r] /\ Coming(rd', r) <= Coming(rd, r)
      BY <2>4
    <3> QED BY <2>1, <2>2, <3>1
  <2> QED BY <2>3, <2>4
<1> QED BY <1>1, <1>2, LessLoad

LEMMA PutsSmall ==
  ASSUME Types, Types', Flow, Small, UNCHANGED seeks,
         \/ ReadStore
         \/ \E s \in Streams : ReadFlush(s) \/ ReadDiscontinuity(s) \/ ReadNull(s)
  PROVE  Small'
<1> rd \in Readers /\ rd' \in Readers
  BY DEF Types
<1>1. CASE ReadStore
  <2> DEFINE s == Media[rd.pos]
  <2>1. rd.pos \in 1..Len(Media)
    BY <1>1, ReaderFields, FileTyping DEF Types, ReadStore, Positions
  <2>2. /\ s \in Streams /\ rd.pos \in 0..EndPacket /\ q[s] \in Queues
        /\ rd.pc = "store" /\ rd'.pc = "check"
    BY <1>1, <2>1, FileTyping DEF EndPacket, Types, ReadStore, Readers
  <2>3. q' = [q EXCEPT ![s] = PacketPut(q[s], rd.pos)]
    BY <1>1 DEF ReadStore
  <2>4. Coming(rd, s) = 1 /\ \A r : Coming(rd', r) = 0 /\ Coming(rd, r) \in Nat
    BY <2>2, ComingFacts
  <2> HIDE DEF s
  <2>5. q'[s] = PacketPut(q[s], rd.pos) /\ \A r \in Streams \ {s} : q'[r] = q[r]
    BY <2>2, <2>3 DEF Types
  <2>6. Len(q'[s].pkts) = Len(q[s].pkts) + 1
    <3>1. Len(PacketPut(q[s], rd.pos).pkts) = Len(q[s].pkts) + 1
      BY <2>2, PutFacts
    <3> QED BY <2>5, <3>1
  <2>7. Len(q[s].pkts) \in Nat
    BY <2>2, LoadFacts
  <2> QED BY <2>2, <2>4, <2>5, <2>6, <2>7, ExpectedSmall
<1>2. ASSUME NEW s \in Streams, ReadFlush(s) PROVE Small'
  <2>1. rd.pc = "flush" /\ rd'.pc = "flushed"
    BY <1>2, GotoFields DEF ReadFlush
  <2>2. q'[s] = PacketFlush(q[s]) /\ \A r \in Streams \ {s} : q'[r] = q[r]
    BY <1>2 DEF ReadFlush, Types
  <2>3. Len(q'[s].pkts) = 0
    <3>1. q'[s].pkts = <<>>
      BY <2>2, FlushFacts DEF Types
    <3> QED BY <3>1, EmptySeq
  <2>4. \A r : Coming(rd, r) = 0 /\ Coming(rd', r) = 0
    BY <2>1, ComingFacts
  <2>5. Len(q[s].pkts) \in Nat
    BY LoadFacts
  <2> QED BY <2>1, <2>2, <2>3, <2>4, <2>5, ExpectedSmall
<1>3. ASSUME NEW s \in Streams, ReadDiscontinuity(s) PROVE Small'
  <2>1. /\ rd'.pos = rd.pos /\ rd'.todo = rd.todo \ {s} /\ rd.pc = "discontinuity"
        /\ rd'.pc = IF rd.todo = {s} THEN "store" ELSE "discontinuity"
    BY <1>3, AfterTyping, PcsTyping DEF ReadDiscontinuity
  <2>2. q'[s] = PacketPut(q[s], FlushPacket) /\ \A r \in Streams \ {s} : q'[r] = q[r]
    BY <1>3 DEF ReadDiscontinuity, PutFlush, Types
  <2>3. Len(q'[s].pkts) = Len(q[s].pkts) + 1 /\ Len(q[s].pkts) \in Nat
    <3>1. q[s] \in Queues
      BY DEF Types
    <3> QED BY <2>2, <3>1, PutFacts, PacketsTyping, LoadFacts
  <2>4. s \in rd.todo
    BY <1>3 DEF ReadDiscontinuity, AudioFirst
  <2>5. Coming(rd', s) + 1 = Coming(rd, s)
    <3>1. Coming(rd, s) = 1 + IF Media[rd.pos] = s THEN 1 ELSE 0
      BY <2>1, <2>4, ComingFacts
    <3>2. Coming(rd', s) = IF Media[rd.pos] = s THEN 1 ELSE 0
      BY <2>1, ComingFacts
    <3> QED BY <3>1, <3>2
  <2>6. \A r \in Streams \ {s} : Coming(rd', r) <= Coming(rd, r)
    <3> SUFFICES ASSUME NEW r \in Streams \ {s} PROVE Coming(rd', r) <= Coming(rd, r)
      OBVIOUS
    <3>1. CASE rd.todo = {s}
      BY <2>1, <3>1, ComingFacts
    <3>2. CASE rd.todo # {s}
      BY <2>1, <3>2, ComingFacts
    <3> QED BY <3>1, <3>2
  <2>7. Coming(rd, s) \in Nat /\ Coming(rd', s) \in Nat
    BY ComingFacts
  <2> QED BY <2>1, <2>2, <2>3, <2>5, <2>6, <2>7, ExpectedSmall
<1>4. ASSUME NEW s \in Streams, ReadNull(s) PROVE Small'
  <2>1. /\ rd'.pos = rd.pos /\ rd'.todo = rd.todo \ {s} /\ rd.pc = "null"
        /\ rd'.pc = IF rd.todo = {s} THEN "eof" ELSE "null"
    BY <1>4, AfterTyping, PcsTyping DEF ReadNull
  <2>2. q'[s] = PutEnd(q[s], rd.broken) /\ \A r \in Streams \ {s} : q'[r] = q[r]
    BY <1>4 DEF ReadNull, Types
  <2>3. Len(q'[s].pkts) <= Len(q[s].pkts) + 2 /\ Len(q[s].pkts) \in Nat
    <3>1. Len(q[s].pkts) \in Nat
      BY LoadFacts
    <3>2. ~Emptied(s) /\ Stream(s)
      BY <2>1 DEF Emptied, Flow
    <3>3. Len(q'[s].pkts) = Len(q[s].pkts) + IF rd.broken THEN 2 ELSE 1
      <4>1. /\ Flowing(q[s], dec[s]) /\ UpToDate(q[s], dec[s].pkt_serial)
            /\ q[s] \in Queues /\ dec[s] \in Decoders /\ rd.broken \in BOOLEAN
        BY <3>2, StreamFacts, ReaderFields DEF Stream
      <4>2. Len(PutEnd(q[s], rd.broken).pkts)
              = Len(q[s].pkts) + IF rd.broken THEN 2 ELSE 1
        BY <4>1, PutEndFlow
      <4> QED BY <2>2, <4>2
    <3> QED BY <3>1, <3>3
  <2>4. s \in rd.todo
    BY <1>4 DEF ReadNull, VideoFirst
  <2>5. Coming(rd, s) = 2 /\ Coming(rd', s) = 0
    BY <2>1, <2>4, ComingFacts
  <2>6. \A r \in Streams \ {s} : Coming(rd', r) <= Coming(rd, r)
    <3> SUFFICES ASSUME NEW r \in Streams \ {s} PROVE Coming(rd', r) <= Coming(rd, r)
      OBVIOUS
    <3>1. CASE rd.todo = {s}
      BY <2>1, <3>1, ComingFacts
    <3>2. CASE rd.todo # {s}
      BY <2>1, <3>2, ComingFacts
    <3> QED BY <3>1, <3>2
  <2>7. Len(q'[s].pkts) \in Nat
    BY NextLoadFacts
  <2> QED BY <2>1, <2>2, <2>3, <2>5, <2>6, <2>7, ExpectedSmall
<1> QED BY <1>1, <1>2, <1>3, <1>4

\* The other threads put nothing in the queues.
LEMMA OthersSmall ==
  ASSUME Types, Types', Small, UNCHANGED rd,
         \/ UNCHANGED seeks /\ is'.seek_req = is.seek_req
         \/ seeks' = seeks + 1,
         \A s \in Streams : Len(q'[s].pkts) <= Len(q[s].pkts)
  PROVE  Small'
<1>1. Passes <= Passes'
  BY PassesFacts, NextPassesFacts DEF Passes
<1>2. \A s \in Streams : Coming(rd', s) <= Coming(rd, s)
  BY LoadFacts
<1> QED BY <1>1, <1>2, QuietSmall

LEMMA ApplicationSmall == ASSUME Types, Types', Small, Application PROVE Small'
<1>1. \/ UNCHANGED seeks /\ is'.seek_req = is.seek_req
      \/ seeks' = seeks + 1
  BY PausingTyping DEF Types, Application, StartPlaying, PausePlaying
<1>2. \A s \in Streams : Len(q'[s].pkts) <= Len(q[s].pkts)
  BY LoadFacts DEF Application
<1> QED BY <1>1, <1>2, OthersSmall DEF Application

LEMMA DecoderSmall ==
  ASSUME Types, Types', Small, NEW s \in Streams, Decoder(s)
  PROVE  Small'
<1>1. is'.seek_req = is.seek_req
  BY BufferingTyping DEF Types, Decoder, Receive, Push, Starve, StartBuffering, Send, Dequeue
<1>2. \A r \in Streams : Len(q'[r].pkts) <= Len(q[r].pkts)
  <2>1. CASE UNCHANGED q
    BY <2>1, LoadFacts
  <2>2. CASE Dequeue(s)
    <3>1. /\ Len(q[s].pkts) \in Nat /\ Len(Tail(q[s].pkts)) = Len(q[s].pkts) - 1
          /\ q' = [q EXCEPT ![s] = [q[s] EXCEPT !.pkts = Tail(q[s].pkts)]]
          /\ [q[s] EXCEPT !.pkts = Tail(q[s].pkts)].pkts = Tail(q[s].pkts)
      BY <2>2, DequeueFacts
    <3>2. q'[s].pkts = Tail(q[s].pkts) /\ \A r \in Streams : r # s => q'[r] = q[r]
      BY <3>1 DEF Types
    <3> QED BY <3>1, <3>2, LoadFacts
  <2> QED BY <2>1, <2>2 DEF Decoder, Receive, Push, Starve, StartBuffering, Send
<1> QED BY <1>1, <1>2, OthersSmall DEF Decoder

LEMMA OutputSmall ==
  ASSUME Types, Types', Small, NEW s \in Streams, Output(s)
  PROVE  Small'
<1>1. is'.seek_req = is.seek_req
  <2>1. CASE VideoStep
    <3> DEFINE i == [is EXCEPT !.step = FALSE]
    <3>1. i \in Controls /\ i.seek_req = is.seek_req
      BY DEF Types, Controls
    <3>2. is' = is \/ is' = i \/ is' = StreamUpdatePause(i)
      BY <2>1 DEF VideoStep
    <3> HIDE DEF i
    <3> QED BY <3>1, <3>2, UpdatingTyping
  <2>2. CASE UNCHANGED is
    BY <2>2
  <2> QED BY <2>1, <2>2
      DEF Output, VideoSkip, VideoDue, VideoShow, AudioAsk, AudioTake
<1>2. \A r \in Streams : Len(q'[r].pkts) <= Len(q[r].pkts)
  BY LoadFacts DEF Output
<1> QED BY <1>1, <1>2, OthersSmall DEF Output

LEMMA SmallStep == ASSUME Types, Types', Flow, Small, [Next]_vars PROVE Small'
<1>1. CASE UNCHANGED vars
  <2>1. \A s \in Streams : Len(q'[s].pkts) <= Len(q[s].pkts)
    BY <1>1, LoadFacts DEF vars
  <2> QED BY <1>1, <2>1, OthersSmall DEF vars
<1>2. CASE ReadThread
  <2>1. UNCHANGED seeks
    BY <1>2 DEF ReadThread
  <2> QED BY <1>2, <2>1, QuietReads, ReadRoomSmall, ReadFlushedSmall, PutsSmall
      DEF ReadThread
<1> QED BY <1>1, <1>2, ApplicationSmall, DecoderSmall, OutputSmall DEF Next

LEMMA SmallImplies == ASSUME Types, Small PROVE QueuesBounded
<1>1. /\ Cardinality({"audio"}) = 1 /\ Cardinality({"video"}) = 1
      /\ Cardinality({"audio", "video"}) = 2
  <2>1. {"audio", "video"} = {"audio"} \cup {"video"}
    OBVIOUS
  <2>2. Cardinality({"audio"}) = 1 /\ Cardinality({"video"}) = 1 /\ IsFiniteSet({"audio"})
    BY FS_Singleton
  <2>3. Cardinality({"audio"} \cup {"video"}) = Cardinality({"audio"}) + 1
    BY <2>2, FS_AddElement
  <2> QED BY <2>1, <2>2, <2>3
<1>2. Streams \in {{"audio"}, {"video"}, {"audio", "video"}}
  BY PipelineAssumption
<1>3. /\ Passes \in Nat /\ seeks \in Nat /\ Passes <= seeks + 1 /\ MaxBufferSize \in Nat
  BY PassesFacts, ConstantsTyping
<1>4. Share("audio") + Share("video") = 2 * Cardinality(Streams) * Passes
  <2>1. CASE Streams = {"audio"}
    BY <1>1, <1>3, <2>1 DEF Share
  <2>2. CASE Streams = {"video"}
    BY <1>1, <1>3, <2>2 DEF Share
  <2>3. CASE Streams = {"audio", "video"}
    BY <1>1, <1>3, <2>3 DEF Share
  <2> QED BY <1>2, <2>1, <2>2, <2>3
<1>5. 2 * Cardinality(Streams) * Passes <= 2 * Cardinality(Streams) * (1 + seeks)
  <2>1. CASE Cardinality(Streams) = 1
    BY <1>3, <2>1
  <2>2. CASE Cardinality(Streams) = 2
    BY <1>3, <2>2
  <2> QED BY <1>1, <1>2, <2>1, <2>2
<1>6. \A s : Size(s) <= Load(s) /\ Size(s) \in Nat /\ Load(s) \in Nat
  <2> SUFFICES ASSUME NEW s
               PROVE  Size(s) <= Load(s) /\ Size(s) \in Nat /\ Load(s) \in Nat
    OBVIOUS
  <2>1. CASE s \in Streams
    BY <2>1, LoadFacts DEF Size
  <2>2. CASE s \notin Streams
    BY <2>2 DEF Size, Load
  <2> QED BY <2>1, <2>2
<1>7. \A s : Share(s) \in Nat
  BY <1>3 DEF Share
<1>8. Cardinality(Streams) \in Nat
  BY <1>1, <1>2
<1>9. Load("audio") + Load("video") <= MaxBufferSize + Share("audio") + Share("video")
  BY DEF Small
<1> QED BY <1>3, <1>4, <1>5, <1>6, <1>7, <1>8, <1>9 DEF QueuesBounded

--------------------------------------------------------------------------------
(* The way of a stream's packets: what of the current serial is in the frame     *)
(* queue, in the codec, in the decoder's hand and in the packet queue.           *)

InFrames(frs, n, k) == \E i \in 1..Len(frs) : frs[i].pos = k /\ frs[i].serial = n

\* A codec that is about to be flushed holds nothing of the new serial.
InCodec(d, n, k) ==
  d.pkt_serial = n /\ ~Fresh(d) /\ \E i \in 1..Len(d.codec) : d.codec[i] = k

InHand(d, n, k) == d.pc = "got" /\ d.pkt_serial = n /\ d.pkt = k /\ IsData(k)

InQueue(queue, k) ==
  /\ IsData(k)
  /\ \E i \in 1..Len(queue.pkts) :
       queue.pkts[i].pkt = k /\ queue.pkts[i].serial = queue.serial

Held(queue, d, frs, k) ==
  \/ InFrames(frs, queue.serial, k) \/ InCodec(d, queue.serial, k)
  \/ InHand(d, queue.serial, k) \/ InQueue(queue, k)

SortedFrames(frs, n) ==
  \A i, j \in 1..Len(frs) :
    i < j /\ frs[i].serial = n /\ frs[j].serial = n => frs[i].pos < frs[j].pos

SortedCodec(d) == \A i, j \in 1..Len(d.codec) : i < j => d.codec[i] < d.codec[j]

SortedQueue(queue) ==
  \A i, j \in 1..Len(queue.pkts) :
    /\ i < j /\ queue.pkts[i].serial = queue.serial /\ queue.pkts[j].serial = queue.serial
    /\ IsData(queue.pkts[i].pkt) /\ IsData(queue.pkts[j].pkt)
    => queue.pkts[i].pkt < queue.pkts[j].pkt

Apart(queue, d, frs) ==
  LET n == queue.serial
  IN  \A j, k \in 1..Len(Media) :
        /\ InFrames(frs, n, j) /\ (InCodec(d, n, k) \/ InHand(d, n, k) \/ InQueue(queue, k))
             => j < k
        /\ InCodec(d, n, j) /\ (InHand(d, n, k) \/ InQueue(queue, k)) => j < k
        /\ InHand(d, n, j) /\ InQueue(queue, k) => j < k

\* They follow each other in the order of the file.
InOrder(queue, d, frs) ==
  /\ SortedFrames(frs, queue.serial) /\ SortedCodec(d) /\ SortedQueue(queue)
  /\ Apart(queue, d, frs)

LEMMA PlacesTyping ==
  ASSUME NEW queue \in Queues, NEW d \in Decoders, NEW frs \in Seq(Pictures), NEW k
  PROVE  /\ \A n : InFrames(frs, n, k) => k \in 1..Len(Media)
         /\ \A n : InCodec(d, n, k) => k \in 1..Len(Media)
         /\ \A n : InHand(d, n, k) => k \in 1..Len(Media)
         /\ InQueue(queue, k) => k \in 1..Len(Media)
         /\ Held(queue, d, frs, k) => k \in 1..Len(Media)
<1>0. /\ \A i \in 1..Len(frs) : frs[i] \in Pictures
      /\ \A i \in 1..Len(d.codec) : d.codec[i] \in 1..Len(Media)
  BY DecoderFields, ElementOfSeq
<1>1. \A n : InFrames(frs, n, k) => k \in 1..Len(Media)
  BY <1>0 DEF InFrames, Pictures
<1>2. \A n : InCodec(d, n, k) => k \in 1..Len(Media)
  BY <1>0 DEF InCodec
<1>3. \A n : InHand(d, n, k) => k \in 1..Len(Media)
  BY DecoderFields, FileTyping DEF InHand, IsData, FlushPacket, EndPacket
<1>4. InQueue(queue, k) => k \in 1..Len(Media)
  BY QueueFields, FileTyping DEF InQueue, IsData, FlushPacket, EndPacket
<1> QED BY <1>1, <1>2, <1>3, <1>4 DEF Held

\* A decoder that keeps its codec and its packet keeps their places.
LEMMA KeepsPlaces ==
  ASSUME NEW queue \in Queues, NEW d \in Decoders, NEW e \in Decoders,
         NEW frs \in Seq(Pictures), InOrder(queue, d, frs),
         e.codec = d.codec, e.pkt_serial = d.pkt_serial, e.pkt = d.pkt,
         (e.pc = "got" <=> d.pc = "got") \/ d.pkt_serial # queue.serial
           \/ (d.pc = "got" /\ e.pc # "got" /\ d.pkt = EndPacket)
  PROVE  /\ InOrder(queue, e, frs)
         /\ \A k : Held(queue, e, frs, k) <=> Held(queue, d, frs, k)
<1> DEFINE n == queue.serial
<1>1. \A k : InCodec(e, n, k) <=> InCodec(d, n, k)
  BY ConstantsTyping DEF InCodec, Fresh
<1>2. \A k : InHand(e, n, k) <=> InHand(d, n, k)
  BY DEF InHand, IsData
<1> HIDE DEF n
<1>3. Apart(queue, e, frs)
  BY <1>1, <1>2 DEF InOrder, Apart, n
<1>4. \A k : Held(queue, e, frs, k) <=> Held(queue, d, frs, k)
  BY <1>1, <1>2 DEF Held, n
<1> QED BY <1>3, <1>4 DEF InOrder, SortedCodec

\* The codec's first packet becomes the last frame.
LEMMA PushesInOrder ==
  ASSUME NEW queue \in Queues, NEW d \in Decoders, NEW e \in Decoders,
         NEW frs \in Seq(Pictures), NEW new \in Seq(Pictures), InOrder(queue, d, frs),
         d.pc = "push", Len(d.codec) > 0, e.pc = "decode", e.pkt_serial = d.pkt_serial,
         Len(e.codec) = Len(d.codec) - 1,
         \A i \in 1..Len(e.codec) : e.codec[i] = d.codec[i + 1],
         Len(new) = Len(frs) + 1, \A i \in 1..Len(frs) : new[i] = frs[i],
         new[Len(frs) + 1] = [pos |-> d.codec[1], serial |-> d.pkt_serial]
  PROVE  /\ InOrder(queue, e, new)
         /\ \A k : Held(queue, e, new, k) <=> Held(queue, d, frs, k)
<1> DEFINE n == queue.serial
           first == d.codec[1]
<1>0. /\ Len(frs) \in Nat /\ Len(d.codec) \in Nat /\ ~Fresh(d) /\ ~Fresh(e)
      /\ new[Len(frs) + 1].pos = first /\ new[Len(frs) + 1].serial = d.pkt_serial
  BY DecoderFields DEF Fresh
<1>1. \A k : InFrames(new, n, k) <=> InFrames(frs, n, k) \/ (d.pkt_serial = n /\ k = first)
  BY <1>0 DEF InFrames
<1>2. \A k : InCodec(d, n, k) <=> InCodec(e, n, k) \/ (d.pkt_serial = n /\ k = first)
  <2>1. ASSUME NEW k, InCodec(d, n, k) PROVE InCodec(e, n, k) \/ k = first
    <3>1. PICK i \in 1..Len(d.codec) : d.codec[i] = k
      BY <2>1 DEF InCodec
    <3>2. CASE i = 1
      BY <3>1, <3>2
    <3>3. CASE i # 1
      <4>1. i - 1 \in 1..Len(e.codec) /\ e.codec[i - 1] = k
        BY <1>0, <3>1, <3>3
      <4> QED BY <1>0, <2>1, <4>1 DEF InCodec
    <3> QED BY <3>2, <3>3
  <2>2. ASSUME NEW k, InCodec(e, n, k) PROVE InCodec(d, n, k)
    <3>1. PICK i \in 1..Len(e.codec) : e.codec[i] = k
      BY <2>2 DEF InCodec
    <3>2. i + 1 \in 1..Len(d.codec) /\ d.codec[i + 1] = k
      BY <1>0, <3>1
    <3> QED BY <1>0, <2>2, <3>2 DEF InCodec
  <2>3. d.pkt_serial = n => InCodec(d, n, first)
    BY <1>0 DEF InCodec
  <2> QED BY <2>1, <2>2, <2>3 DEF InCodec
<1>3. \A k : ~InHand(d, n, k) /\ ~InHand(e, n, k)
  BY DEF InHand
<1>4. ASSUME NEW k, InCodec(e, n, k) PROVE first < k
  <2>1. PICK i \in 1..Len(e.codec) : e.codec[i] = k
    BY <1>4 DEF InCodec
  <2>2. 1 \in 1..Len(d.codec) /\ i + 1 \in 1..Len(d.codec) /\ 1 < i + 1 /\ d.codec[i + 1] = k
    BY <1>0, <2>1
  <2> QED BY <2>2 DEF InOrder, SortedCodec
<1>5. SortedFrames(new, n)
  <2> SUFFICES ASSUME NEW i \in 1..Len(new), NEW j \in 1..Len(new), i < j,
                      new[i].serial = n, new[j].serial = n
               PROVE  new[i].pos < new[j].pos
    BY DEF SortedFrames
  <2>1. i \in 1..Len(frs) /\ new[i] = frs[i]
    BY <1>0
  <2>2. CASE j = Len(frs) + 1
    <3>1. d.pkt_serial = n /\ InFrames(frs, n, frs[i].pos) /\ InCodec(d, n, first)
      BY <1>0, <1>2, <2>1, <2>2 DEF InFrames
    <3>2. frs[i].pos \in 1..Len(Media) /\ first \in 1..Len(Media)
      BY <3>1, PlacesTyping
    <3> QED BY <1>0, <2>1, <2>2, <3>1, <3>2 DEF InOrder, Apart, n
  <2>3. CASE j # Len(frs) + 1
    <3>1. j \in 1..Len(frs) /\ new[j] = frs[j]
      BY <1>0, <2>3
    <3> QED BY <2>1, <3>1 DEF InOrder, SortedFrames, n
  <2> QED BY <2>2, <2>3
<1>6. SortedCodec(e)
  <2> SUFFICES ASSUME NEW i \in 1..Len(e.codec), NEW j \in 1..Len(e.codec), i < j
               PROVE  e.codec[i] < e.codec[j]
    BY DEF SortedCodec
  <2>1. i + 1 \in 1..Len(d.codec) /\ j + 1 \in 1..Len(d.codec) /\ i + 1 < j + 1
    BY <1>0
  <2> QED BY <2>1 DEF InOrder, SortedCodec
<1> HIDE DEF n, first
<1>7. Apart(queue, e, new)
  BY <1>1, <1>2, <1>3, <1>4 DEF InOrder, Apart, n
<1>8. \A k : Held(queue, e, new, k) <=> Held(queue, d, frs, k)
  BY <1>1, <1>2, <1>3 DEF Held, n
<1> QED BY <1>5, <1>6, <1>7, <1>8 DEF InOrder, n

LEMMA Shifted ==
  ASSUME NEW old, NEW new, Len(new) \in Nat, Len(old) = Len(new) + 1,
         \A i \in 1..Len(new) : new[i] = old[i + 1]
  PROVE  /\ \A i \in 1..Len(old) : i # 1 => i - 1 \in 1..Len(new) /\ new[i - 1] = old[i]
         /\ \A i \in 1..Len(new) :
              i + 1 \in 1..Len(old) /\ 1 < i + 1 /\ old[i + 1] = new[i]
         /\ \A i, j \in 1..Len(new) : i < j => i + 1 < j + 1
OBVIOUS

\* packet_queue_get: the first packet of the queue comes into the decoder's hand, or is
\* dropped when its serial has finished.
LEMMA TakesInOrder ==
  ASSUME NEW queue \in Queues, NEW d \in Decoders, NEW new \in Queues, NEW e \in Decoders,
         NEW frs \in Seq(Pictures), InOrder(queue, d, frs), Flowing(queue, d),
         d.pc \in {"get", "wait"}, Len(queue.pkts) > 0,
         new.serial = queue.serial, Len(queue.pkts) = Len(new.pkts) + 1,
         \A i \in 1..Len(new.pkts) : new.pkts[i] = queue.pkts[i + 1],
         e.codec = d.codec, e.pkt = queue.pkts[1].pkt, e.pkt_serial = queue.pkts[1].serial,
         e.pc = "got" \/ (e.pc = "get" /\ d.finished = queue.pkts[1].serial)
  PROVE  /\ InOrder(new, e, frs)
         /\ \A k : Held(new, e, frs, k) <=> Held(queue, d, frs, k)
<1> DEFINE n == queue.serial
           p == queue.pkts[1]
<1>0. /\ Len(queue.pkts) \in Nat /\ Len(new.pkts) \in Nat /\ p.pkt \in 0..EndPacket
      /\ p.serial \in Nat /\ n \in Nat /\ d.pkt_serial \in Nat /\ d.finished \in Nat
      /\ 1 \in 1..Len(queue.pkts)
  BY QueueFields, DecoderFields
<1>1. /\ d.pkt_serial <= p.serial /\ p.serial <= n
      /\ IF p.pkt = FlushPacket THEN d.pkt_serial < p.serial ELSE p.serial = d.pkt_serial
  BY <1>0 DEF Flowing, Ordered
<1>2. e.pc = "get" => ~(p.serial = n /\ IsData(p.pkt)) /\ p.pkt # FlushPacket
  <2> SUFFICES ASSUME e.pc = "get" PROVE ~(p.serial = n /\ IsData(p.pkt)) /\ p.pkt # FlushPacket
    OBVIOUS
  <2>1. d.finished = p.serial /\ d.finished <= d.pkt_serial
    BY DEF Flowing, Decodes
  <2>2. p.pkt # FlushPacket /\ p.serial = d.pkt_serial
    BY <1>0, <1>1, <2>1
  <2>3. p.serial = n => MetEnd(d, queue.serial)
    BY <2>1, <2>2 DEF MetEnd, Fresh
  <2>4. p.serial = n => p.pkt = EndPacket
    BY <1>0, <2>3 DEF Flowing, Decodes
  <2> QED BY <2>2, <2>4 DEF IsData
<1>3. \A k : InCodec(e, n, k) <=> InCodec(d, n, k)
  <2>1. e.pkt_serial = n /\ ~Fresh(e) <=> d.pkt_serial = n /\ ~Fresh(d)
    <3>1. ~Fresh(d)
      BY DEF Fresh
    <3>2. CASE p.pkt = FlushPacket
      BY <1>0, <1>1, <1>2, <3>1, <3>2 DEF Fresh
    <3>3. CASE p.pkt # FlushPacket
      BY <1>1, <3>1, <3>3 DEF Fresh
    <3> QED BY <3>2, <3>3
  <2> QED BY <2>1 DEF InCodec
<1>4. \A k : ~InHand(d, n, k)
  BY DEF InHand
<1>5. \A k : InHand(e, n, k) <=> p.serial = n /\ p.pkt = k /\ IsData(k)
  BY <1>2 DEF InHand
<1>6. \A k : InQueue(queue, k) <=> InQueue(new, k) \/ (p.serial = n /\ p.pkt = k /\ IsData(k))
  <2>1. ASSUME NEW k, InQueue(queue, k)
        PROVE  InQueue(new, k) \/ (p.serial = n /\ p.pkt = k /\ IsData(k))
    <3>1. PICK i \in 1..Len(queue.pkts) : queue.pkts[i].pkt = k /\ queue.pkts[i].serial = n
      BY <2>1 DEF InQueue
    <3>2. CASE i = 1
      BY <2>1, <3>1, <3>2 DEF InQueue
    <3>3. CASE i # 1
      <4>1. i - 1 \in 1..Len(new.pkts) /\ new.pkts[i - 1] = queue.pkts[i]
        BY <1>0, <3>3, Shifted
      <4> QED BY <2>1, <3>1, <4>1 DEF InQueue
    <3> QED BY <3>2, <3>3
  <2>2. ASSUME NEW k, InQueue(new, k) PROVE InQueue(queue, k)
    <3>1. PICK i \in 1..Len(new.pkts) : new.pkts[i].pkt = k /\ new.pkts[i].serial = n
      BY <2>2 DEF InQueue
    <3>2. i + 1 \in 1..Len(queue.pkts) /\ queue.pkts[i + 1] = new.pkts[i]
      BY <1>0, Shifted
    <3> QED BY <2>2, <3>1, <3>2 DEF InQueue
  <2>3. ASSUME p.serial = n, IsData(p.pkt) PROVE InQueue(queue, p.pkt)
    BY <1>0, <2>3 DEF InQueue
  <2> QED BY <2>1, <2>2, <2>3
<1>7. ASSUME NEW k, InQueue(new, k), p.serial = n, IsData(p.pkt) PROVE p.pkt < k
  <2>1. PICK i \in 1..Len(new.pkts) : new.pkts[i].pkt = k /\ new.pkts[i].serial = n
    BY <1>7 DEF InQueue
  <2>2. i + 1 \in 1..Len(queue.pkts) /\ 1 < i + 1 /\ queue.pkts[i + 1] = new.pkts[i]
    BY <1>0, Shifted
  <2>3. IsData(k)
    BY <1>7 DEF InQueue
  <2> QED BY <1>0, <1>7, <2>1, <2>2, <2>3 DEF InOrder, SortedQueue
<1>8. SortedQueue(new)
  <2> SUFFICES ASSUME NEW i \in 1..Len(new.pkts), NEW j \in 1..Len(new.pkts), i < j,
                      new.pkts[i].serial = n, new.pkts[j].serial = n,
                      IsData(new.pkts[i].pkt), IsData(new.pkts[j].pkt)
               PROVE  new.pkts[i].pkt < new.pkts[j].pkt
    BY DEF SortedQueue
  <2>1. /\ i + 1 \in 1..Len(queue.pkts) /\ j + 1 \in 1..Len(queue.pkts) /\ i + 1 < j + 1
        /\ new.pkts[i] = queue.pkts[i + 1] /\ new.pkts[j] = queue.pkts[j + 1]
    BY <1>0, Shifted
  <2> QED BY <2>1 DEF InOrder, SortedQueue
<1> HIDE DEF n, p
<1>9. Apart(new, e, frs)
  BY <1>3, <1>4, <1>5, <1>6, <1>7 DEF InOrder, Apart, n
<1>10. \A k : Held(new, e, frs, k) <=> Held(queue, d, frs, k)
  BY <1>3, <1>4, <1>5, <1>6 DEF Held, n
<1> QED BY <1>8, <1>9, <1>10 DEF InOrder, SortedCodec, n

\* avcodec_send_packet: a packet goes from the decoder's hand into the codec.
LEMMA SendsInOrder ==
  ASSUME NEW queue \in Queues, NEW d \in Decoders, NEW e \in Decoders,
         NEW frs \in Seq(Pictures), InOrder(queue, d, frs), d.pc = "got",
         d.pkt_serial = queue.serial, IsData(d.pkt), e.pc = "decode",
         e.pkt_serial = d.pkt_serial, Len(e.codec) = Len(d.codec) + 1,
         \A i \in 1..Len(d.codec) : e.codec[i] = d.codec[i],
         e.codec[Len(d.codec) + 1] = d.pkt
  PROVE  /\ InOrder(queue, e, frs)
         /\ \A k : Held(queue, e, frs, k) <=> Held(queue, d, frs, k)
<1> DEFINE n == queue.serial
<1>0. Len(d.codec) \in Nat /\ ~Fresh(d) /\ ~Fresh(e)
  BY DecoderFields DEF Fresh, IsData
<1>1. \A k : InCodec(e, n, k) <=> InCodec(d, n, k) \/ k = d.pkt
  <2>1. ASSUME NEW k, InCodec(e, n, k) PROVE InCodec(d, n, k) \/ k = d.pkt
    <3>1. PICK i \in 1..Len(e.codec) : e.codec[i] = k
      BY <2>1 DEF InCodec
    <3>2. i \in 1..Len(d.codec) \/ i = Len(d.codec) + 1
      BY <1>0
    <3> QED BY <1>0, <3>1, <3>2 DEF InCodec
  <2>2. ASSUME NEW k, InCodec(d, n, k) PROVE InCodec(e, n, k)
    <3>1. PICK i \in 1..Len(d.codec) : d.codec[i] = k
      BY <2>2 DEF InCodec
    <3>2. i \in 1..Len(e.codec) /\ e.codec[i] = k
      BY <1>0, <3>1
    <3> QED BY <1>0, <3>2 DEF InCodec
  <2>3. InCodec(e, n, d.pkt)
    <3>1. Len(d.codec) + 1 \in 1..Len(e.codec)
      BY <1>0
    <3> QED BY <1>0, <3>1 DEF InCodec
  <2> QED BY <2>1, <2>2, <2>3
<1>2. \A k : /\ InHand(d, n, k) <=> k = d.pkt
             /\ ~InHand(e, n, k)
  BY DEF InHand
<1>3. SortedCodec(e)
  <2> SUFFICES ASSUME NEW i \in 1..Len(e.codec), NEW j \in 1..Len(e.codec), i < j
               PROVE  e.codec[i] < e.codec[j]
    BY DEF SortedCodec
  <2>1. i \in 1..Len(d.codec) /\ e.codec[i] = d.codec[i]
    BY <1>0
  <2>2. CASE j = Len(d.codec) + 1
    <3>1. InCodec(d, n, d.codec[i]) /\ InHand(d, n, d.pkt)
      BY <1>0, <1>2, <2>1 DEF InCodec
    <3>2. d.codec[i] \in 1..Len(Media) /\ d.pkt \in 1..Len(Media)
      BY <3>1, PlacesTyping
    <3> QED BY <2>1, <2>2, <3>1, <3>2 DEF InOrder, Apart, n
  <2>3. CASE j # Len(d.codec) + 1
    <3>1. j \in 1..Len(d.codec) /\ e.codec[j] = d.codec[j]
      BY <1>0, <2>3
    <3> QED BY <2>1, <3>1 DEF InOrder, SortedCodec
  <2> QED BY <2>2, <2>3
<1> HIDE DEF n
<1>4. Apart(queue, e, frs)
  BY <1>1, <1>2 DEF InOrder, Apart, n
<1>5. \A k : Held(queue, e, frs, k) <=> Held(queue, d, frs, k)
  BY <1>1, <1>2 DEF Held, n
<1> QED BY <1>3, <1>4, <1>5 DEF InOrder

\* avcodec_flush_buffers: what the codec loses is not of the new serial.
LEMMA FlushesInOrder ==
  ASSUME NEW queue \in Queues, NEW d \in Decoders, NEW e \in Decoders,
         NEW frs \in Seq(Pictures), InOrder(queue, d, frs), Fresh(d),
         e.pc = "decode", Len(e.codec) = 0
  PROVE  /\ InOrder(queue, e, frs)
         /\ \A k : Held(queue, e, frs, k) <=> Held(queue, d, frs, k)
<1> DEFINE n == queue.serial
<1>1. \A k : ~InCodec(e, n, k) /\ ~InCodec(d, n, k)
  BY DEF InCodec
<1>2. \A k : ~InHand(d, n, k) /\ ~InHand(e, n, k)
  BY DEF InHand, Fresh, IsData
<1>3. SortedCodec(e)
  BY DEF SortedCodec
<1> HIDE DEF n
<1>4. Apart(queue, e, frs)
  BY <1>1, <1>2 DEF InOrder, Apart, n
<1>5. \A k : Held(queue, e, frs, k) <=> Held(queue, d, frs, k)
  BY <1>1, <1>2 DEF Held, n
<1> QED BY <1>3, <1>4, <1>5 DEF InOrder

\* The first frame leaves the frame queue.
LEMMA LeavesInOrder ==
  ASSUME NEW queue \in Queues, NEW d \in Decoders, NEW frs \in Seq(Pictures),
         NEW new \in Seq(Pictures), InOrder(queue, d, frs), Len(frs) > 0,
         Len(frs) = Len(new) + 1, \A i \in 1..Len(new) : new[i] = frs[i + 1]
  PROVE  /\ InOrder(queue, d, new)
         /\ frs[1].serial # queue.serial =>
              \A k : Held(queue, d, new, k) <=> Held(queue, d, frs, k)
         /\ frs[1].serial = queue.serial =>
              /\ Held(queue, d, frs, frs[1].pos)
              /\ \A k : Held(queue, d, new, k) <=> Held(queue, d, frs, k) /\ frs[1].pos < k
              /\ \A k : Held(queue, d, frs, k) => frs[1].pos <= k
<1> DEFINE n == queue.serial
           f == frs[1]
<1>0. /\ Len(frs) \in Nat /\ Len(new) \in Nat /\ 1 \in 1..Len(frs)
      /\ f.pos \in 1..Len(Media) /\ f.pos \in Nat
  <2>1. Len(frs) \in Nat /\ Len(new) \in Nat /\ 1 \in 1..Len(frs)
    OBVIOUS
  <2>2. f \in Pictures
    BY <2>1, ElementOfSeq
  <2> QED BY <2>1, <2>2, FileTyping DEF Pictures
<1>1. \A k : InFrames(frs, n, k) <=> InFrames(new, n, k) \/ (f.serial = n /\ f.pos = k)
  <2>1. ASSUME NEW k, InFrames(frs, n, k)
        PROVE  InFrames(new, n, k) \/ (f.serial = n /\ f.pos = k)
    <3>1. PICK i \in 1..Len(frs) : frs[i].pos = k /\ frs[i].serial = n
      BY <2>1 DEF InFrames
    <3>2. CASE i = 1
      BY <3>1, <3>2
    <3>3. CASE i # 1
      <4>1. i - 1 \in 1..Len(new) /\ new[i - 1] = frs[i]
        BY <1>0, <3>1, <3>3
      <4> QED BY <3>1, <4>1 DEF InFrames
    <3> QED BY <3>2, <3>3
  <2>2. ASSUME NEW k, InFrames(new, n, k) PROVE InFrames(frs, n, k)
    <3>1. PICK i \in 1..Len(new) : new[i].pos = k /\ new[i].serial = n
      BY <2>2 DEF InFrames
    <3>2. i + 1 \in 1..Len(frs) /\ frs[i + 1] = new[i]
      BY <1>0, <3>1
    <3> QED BY <3>1, <3>2 DEF InFrames
  <2>3. f.serial = n => InFrames(frs, n, f.pos)
    BY <1>0 DEF InFrames
  <2> QED BY <2>1, <2>2, <2>3
<1>2. ASSUME NEW k, InFrames(new, n, k), f.serial = n PROVE f.pos < k
  <2>1. PICK i \in 1..Len(new) : new[i].pos = k /\ new[i].serial = n
    BY <1>2 DEF InFrames
  <2>2. i + 1 \in 1..Len(frs) /\ 1 < i + 1 /\ frs[i + 1] = new[i]
    BY <1>0, <2>1
  <2> QED BY <1>0, <1>2, <2>1, <2>2 DEF InOrder, SortedFrames
<1>3. SortedFrames(new, n)
  <2> SUFFICES ASSUME NEW i \in 1..Len(new), NEW j \in 1..Len(new), i < j,
                      new[i].serial = n, new[j].serial = n
               PROVE  new[i].pos < new[j].pos
    BY DEF SortedFrames
  <2>1. /\ i + 1 \in 1..Len(frs) /\ j + 1 \in 1..Len(frs) /\ i + 1 < j + 1
        /\ new[i] = frs[i + 1] /\ new[j] = frs[j + 1]
    BY <1>0
  <2> QED BY <2>1 DEF InOrder, SortedFrames
<1> HIDE DEF n, f
<1>4. Apart(queue, d, new)
  BY <1>1 DEF InOrder, Apart, n
<1>5. f.serial # n => \A k : Held(queue, d, new, k) <=> Held(queue, d, frs, k)
  BY <1>1 DEF Held, n
<1>6. ASSUME f.serial = n, NEW k,
             InCodec(d, n, k) \/ InHand(d, n, k) \/ InQueue(queue, k)
      PROVE  f.pos < k
  <2>1. InFrames(frs, n, f.pos) /\ k \in 1..Len(Media)
    BY <1>1, <1>6, PlacesTyping
  <2> QED BY <1>0, <1>6, <2>1 DEF InOrder, Apart, n
<1>7. ASSUME f.serial = n
      PROVE  /\ Held(queue, d, frs, f.pos)
             /\ \A k : Held(queue, d, new, k) <=> Held(queue, d, frs, k) /\ f.pos < k
             /\ \A k : Held(queue, d, frs, k) => f.pos <= k
  <2>1. Held(queue, d, frs, f.pos)
    BY <1>1, <1>7 DEF Held, n
  <2>2. \A k : Held(queue, d, new, k) => Held(queue, d, frs, k) /\ f.pos < k
    BY <1>1, <1>2, <1>6, <1>7 DEF Held, n
  <2>3. \A k : Held(queue, d, frs, k) => Held(queue, d, new, k) \/ f.pos = k
    BY <1>1 DEF Held, n
  <2>4. ASSUME NEW k, Held(queue, d, frs, k) PROVE f.pos <= k
    <3>1. k \in Nat
      BY <2>4, PlacesTyping, FileTyping
    <3> QED BY <1>0, <2>2, <2>3, <2>4, <3>1
  <2>5. ~(f.pos < f.pos)
    BY <1>0
  <2> QED BY <2>1, <2>2, <2>3, <2>4, <2>5
<1> QED BY <1>3, <1>4, <1>5, <1>7 DEF InOrder, n, f

\* A flush packet begins a serial of which nothing is on its way.
LEMMA BeginsInOrder ==
  ASSUME NEW queue \in Queues, NEW d \in Decoders, NEW frs \in Seq(Pictures),
         InOrder(queue, d, frs), Flowing(queue, d),
         \A i \in 1..Len(frs) : frs[i].serial <= d.pkt_serial
  PROVE  LET new == PacketPut(queue, FlushPacket)
         IN  InOrder(new, d, frs) /\ \A k : ~Held(new, d, frs, k)
<1> DEFINE new == PacketPut(queue, FlushPacket)
           n == queue.serial + 1
           len == Len(queue.pkts)
<1>0. /\ queue.serial \in Nat /\ d.pkt_serial \in Nat /\ len \in Nat
      /\ \A i \in 1..len : queue.pkts[i].serial \in Nat
      /\ \A i \in 1..Len(frs) : frs[i].serial \in Nat
      /\ d.pkt_serial <= queue.serial
      /\ \A i \in 1..len : queue.pkts[i].serial <= queue.serial
  <2>1. \A i \in 1..Len(frs) : frs[i] \in Pictures
    BY ElementOfSeq
  <2> QED BY <2>1, QueueFields, DecoderFields DEF Flowing, Ordered, Pictures
<1>1. /\ new.serial = n /\ Len(new.pkts) = len + 1
      /\ \A i \in 1..len : new.pkts[i] = queue.pkts[i]
      /\ new.pkts[len + 1].pkt = FlushPacket
  <2>1. /\ new.serial = n /\ Len(new.pkts) = len + 1
        /\ \A i \in 1..len : new.pkts[i] = queue.pkts[i]
        /\ new.pkts[len + 1] = [pkt |-> FlushPacket, serial |-> new.serial]
    BY PutFacts, PacketsTyping
  <2> HIDE DEF new
  <2> QED BY <2>1
<1> HIDE DEF new
<1>2. \A i \in 1..Len(new.pkts) : ~(new.pkts[i].serial = n /\ IsData(new.pkts[i].pkt))
  <2> SUFFICES ASSUME NEW i \in 1..Len(new.pkts), new.pkts[i].serial = n,
                      IsData(new.pkts[i].pkt)
               PROVE  FALSE
    OBVIOUS
  <2>1. CASE i = len + 1
    BY <1>1, <2>1 DEF IsData
  <2>2. CASE i # len + 1
    <3>1. i \in 1..len
      BY <1>0, <1>1, <2>2
    <3>2. new.pkts[i] = queue.pkts[i]
      BY <1>1, <3>1
    <3>3. queue.pkts[i].serial \in Nat /\ queue.pkts[i].serial <= queue.serial
      BY <1>0, <3>1
    <3> QED BY <1>0, <3>2, <3>3
  <2> QED BY <2>1, <2>2
<1>3. \A k : /\ ~InFrames(frs, n, k) /\ ~InCodec(d, n, k) /\ ~InHand(d, n, k)
             /\ ~InQueue(new, k)
  BY <1>0, <1>1, <1>2 DEF InFrames, InCodec, InHand, InQueue
<1>4. SortedFrames(frs, n) /\ SortedQueue(new)
  BY <1>0, <1>1, <1>2 DEF SortedFrames, SortedQueue
<1>5. Apart(new, d, frs) /\ \A k : ~Held(new, d, frs, k)
  BY <1>1, <1>3 DEF Apart, Held
<1> QED BY <1>1, <1>4, <1>5 DEF InOrder, new

\* packet_queue_flush takes the last of what is on its way.
LEMMA EmptiesInOrder ==
  ASSUME NEW queue \in Queues, NEW d \in Decoders, NEW frs \in Seq(Pictures),
         InOrder(queue, d, frs)
  PROVE  LET new == PacketFlush(queue)
         IN  /\ InOrder(new, d, frs)
             /\ \A k : Held(new, d, frs, k) => Held(queue, d, frs, k)
             /\ \A j, k : Held(new, d, frs, k) /\ Held(queue, d, frs, j) /\ j < k
                            => Held(new, d, frs, j)
<1> DEFINE new == PacketFlush(queue)
           n == queue.serial
<1>1. new.serial = n /\ new.pkts = <<>> /\ Len(new.pkts) = 0
  BY FlushFacts, EmptySeq
<1> HIDE DEF new
<1>2. \A k : ~InQueue(new, k)
  BY <1>1 DEF InQueue
<1>3. SortedQueue(new)
  BY <1>1 DEF SortedQueue
<1>4. Apart(new, d, frs)
  BY <1>1, <1>2 DEF Apart, InOrder
<1>5. \A k : Held(new, d, frs, k) => Held(queue, d, frs, k)
  BY <1>1, <1>2 DEF Held
<1>6. ASSUME NEW j, NEW k, Held(new, d, frs, k), Held(queue, d, frs, j), j < k
      PROVE  Held(new, d, frs, j)
  <2>1. j \in 1..Len(Media) /\ k \in 1..Len(Media)
    BY <1>5, <1>6, PlacesTyping
  <2>2. InFrames(frs, n, k) \/ InCodec(d, n, k) \/ InHand(d, n, k)
    BY <1>1, <1>2, <1>6 DEF Held
  <2>3. InQueue(queue, j) => k < j
    BY <2>1, <2>2 DEF InOrder, Apart
  <2>4. ~(j < k /\ k < j)
    BY <2>1, FileTyping
  <2> QED BY <1>1, <1>6, <2>3, <2>4 DEF Held
<1> QED BY <1>1, <1>3, <1>4, <1>5, <1>6 DEF InOrder, new

\* A packet of the file comes behind all that is on its way.
LEMMA PutsInOrder ==
  ASSUME NEW queue \in Queues, NEW d \in Decoders, NEW frs \in Seq(Pictures),
         NEW p \in 1..Len(Media), InOrder(queue, d, frs),
         \A k : Held(queue, d, frs, k) => k < p
  PROVE  LET new == PacketPut(queue, p)
         IN  /\ InOrder(new, d, frs)
             /\ \A k : Held(new, d, frs, k) <=> Held(queue, d, frs, k) \/ k = p
<1> DEFINE new == PacketPut(queue, p)
           n == queue.serial
           len == Len(queue.pkts)
<1>0. p \in 0..EndPacket /\ p # FlushPacket /\ IsData(p) /\ len \in Nat
  BY FileTyping, QueueFields DEF EndPacket, FlushPacket, IsData
<1>1. /\ new.serial = n /\ Len(new.pkts) = len + 1
      /\ \A i \in 1..len : new.pkts[i] = queue.pkts[i]
      /\ new.pkts[len + 1].pkt = p /\ new.pkts[len + 1].serial = n
  <2>1. /\ new.serial = n /\ Len(new.pkts) = len + 1
        /\ \A i \in 1..len : new.pkts[i] = queue.pkts[i]
        /\ new.pkts[len + 1] = [pkt |-> p, serial |-> new.serial]
    BY <1>0, PutFacts
  <2> HIDE DEF new
  <2> QED BY <2>1
<1> HIDE DEF new
<1>2. \A k : InQueue(new, k) <=> InQueue(queue, k) \/ k = p
  <2>1. ASSUME NEW k, InQueue(new, k) PROVE InQueue(queue, k) \/ k = p
    <3>1. PICK i \in 1..Len(new.pkts) : new.pkts[i].pkt = k /\ new.pkts[i].serial = n
      BY <1>1, <2>1 DEF InQueue
    <3>2. i \in 1..len \/ i = len + 1
      BY <1>0, <1>1
    <3> QED BY <1>1, <2>1, <3>1, <3>2 DEF InQueue
  <2>2. ASSUME NEW k, InQueue(queue, k) PROVE InQueue(new, k)
    <3>1. PICK i \in 1..len : queue.pkts[i].pkt = k /\ queue.pkts[i].serial = n
      BY <2>2 DEF InQueue
    <3>2. i \in 1..Len(new.pkts)
      BY <1>0, <1>1
    <3> QED BY <1>1, <2>2, <3>1, <3>2 DEF InQueue
  <2>3. InQueue(new, p)
    <3>1. len + 1 \in 1..Len(new.pkts)
      BY <1>0, <1>1
    <3> QED BY <1>0, <1>1, <3>1 DEF InQueue
  <2> QED BY <2>1, <2>2, <2>3
<1>3. \A k : InQueue(queue, k) => k < p
  BY DEF Held
<1>4. SortedQueue(new)
  <2> SUFFICES ASSUME NEW i \in 1..Len(new.pkts), NEW j \in 1..Len(new.pkts), i < j,
                      new.pkts[i].serial = n, new.pkts[j].serial = n,
                      IsData(new.pkts[i].pkt), IsData(new.pkts[j].pkt)
               PROVE  new.pkts[i].pkt < new.pkts[j].pkt
    BY <1>1 DEF SortedQueue
  <2>1. i \in 1..len /\ new.pkts[i] = queue.pkts[i]
    BY <1>0, <1>1
  <2>2. CASE j = len + 1
    <3>1. InQueue(queue, queue.pkts[i].pkt)
      BY <2>1 DEF InQueue
    <3> QED BY <1>1, <1>3, <2>1, <2>2, <3>1
  <2>3. CASE j # len + 1
    <3>1. j \in 1..len /\ new.pkts[j] = queue.pkts[j]
      BY <1>0, <1>1, <2>3
    <3> QED BY <2>1, <3>1 DEF InOrder, SortedQueue
  <2> QED BY <2>2, <2>3
<1>5. Apart(new, d, frs)
  BY <1>1, <1>2 DEF Apart, InOrder, Held
<1>6. \A k : Held(new, d, frs, k) <=> Held(queue, d, frs, k) \/ k = p
  BY <1>1, <1>2 DEF Held
<1> QED BY <1>1, <1>4, <1>5, <1>6 DEF InOrder, new

\* A null packet is no packet of the file.
LEMMA EndsInOrder ==
  ASSUME NEW queue \in Queues, NEW d \in Decoders, NEW frs \in Seq(Pictures),
         InOrder(queue, d, frs)
  PROVE  LET new == PacketPut(queue, EndPacket)
         IN  /\ InOrder(new, d, frs)
             /\ \A k : Held(new, d, frs, k) <=> Held(queue, d, frs, k)
<1> DEFINE new == PacketPut(queue, EndPacket)
           n == queue.serial
           len == Len(queue.pkts)
<1>0. EndPacket # FlushPacket /\ ~IsData(EndPacket) /\ len \in Nat
  BY ConstantsTyping, QueueFields DEF FlushPacket, IsData
<1>1. /\ new.serial = n /\ Len(new.pkts) = len + 1
      /\ \A i \in 1..len : new.pkts[i] = queue.pkts[i]
      /\ new.pkts[len + 1].pkt = EndPacket
  <2>1. /\ new.serial = n /\ Len(new.pkts) = len + 1
        /\ \A i \in 1..len : new.pkts[i] = queue.pkts[i]
        /\ new.pkts[len + 1] = [pkt |-> EndPacket, serial |-> new.serial]
    BY <1>0, PutFacts, PacketsTyping
  <2> HIDE DEF new
  <2> QED BY <2>1
<1> HIDE DEF new
<1>2. \A i \in 1..Len(new.pkts) : IsData(new.pkts[i].pkt) => i \in 1..len
  BY <1>0, <1>1
<1>3. \A i \in 1..len : i \in 1..Len(new.pkts)
  BY <1>0, <1>1
<1>4. \A k : InQueue(new, k) <=> InQueue(queue, k)
  BY <1>1, <1>2, <1>3 DEF InQueue
<1>5. SortedQueue(new)
  BY <1>1, <1>2 DEF InOrder, SortedQueue
<1>6. Apart(new, d, frs)
  BY <1>1, <1>4 DEF Apart, InOrder
<1>7. \A k : Held(new, d, frs, k) <=> Held(queue, d, frs, k)
  BY <1>1, <1>4 DEF Held
<1> QED BY <1>1, <1>5, <1>6, <1>7 DEF InOrder, new

--------------------------------------------------------------------------------
(* What is on its way is what the watcher still misses of the current serial.    *)

\* Where s goes on in generation g.
Onward(s, g) == IF at[s][1] = g /\ at[s][2] # 0 THEN at[s][2] + 1 ELSE from[g]

\* The stream has yet to join the generation begun last.
Joining(s) == s \in rd.todo /\ rd.pc \in {"flush", "flushed", "discontinuity"}

Joined(s) ==
  IF Joining(s) THEN Len(from) = q[s].serial + 1 /\ from[Len(from)] = rd.pos
  ELSE Len(from) = q[s].serial

\* What is held begins where s goes on, and has no gap.
Gapless(s, queue, d, frs, p) ==
  \A k : Held(queue, d, frs, k) =>
    k \in Rest(s, p) /\ \A j \in Rest(s, p) : j < k => Held(queue, d, frs, j)

\* It reaches to where the file has been read.
UpTo(s, queue, d, frs, p, pos) ==
  p <= pos /\ \A j \in Rest(s, p) : j < pos <=> Held(queue, d, frs, j)

Content(s) ==
  /\ InOrder(q[s], dec[s], frames[s])
  /\ Gapless(s, q[s], dec[s], frames[s], Onward(s, q[s].serial))
  /\ ~Joining(s) => UpTo(s, q[s], dec[s], frames[s], Onward(s, q[s].serial), rd.pos)

\* Serials grow from the frame shown last through the frame queue to the decoder.
Serials(s) ==
  /\ at[s][1] \in Nat \ {0} /\ at[s][2] \in 0..Len(Media) /\ at[s][1] <= q[s].serial
  /\ at[s][1] <= IF dec[s].pkt_serial = 0 THEN 1 ELSE dec[s].pkt_serial
  /\ dec[s].pc = "push" => dec[s].pkt_serial # 0
  /\ \A i \in 1..Len(frames[s]) :
       at[s][1] <= frames[s][i].serial /\ frames[s][i].serial <= dec[s].pkt_serial
  /\ \A i, j \in 1..Len(frames[s]) : i < j => frames[s][i].serial <= frames[s][j].serial

\* A frame that has passed the test of its serial comes next in its generation, and if
\* that is over, no frame of an older one has been shown since.
DueNext(s) ==
  out[s] = "due" =>
    /\ IsFirst(frames[s][1].pos, Rest(s, Onward(s, frames[s][1].serial)))
    /\ frames[s][1].serial # q[s].serial => ~late[s]

Track(s) == Content(s) /\ Joined(s) /\ Serials(s) /\ DueNext(s)

Tracks ==
  /\ at \in [Streams -> Nat \X (0..Len(Media))] /\ late \in [Streams -> BOOLEAN]
  /\ \A s \in Streams : Track(s)

LEMMA StreamTypes ==
  ASSUME Types, Flow, NEW s \in Streams
  PROVE  /\ q[s] \in Queues /\ dec[s] \in Decoders /\ frames[s] \in Seq(Pictures)
         /\ Flowing(q[s], dec[s]) /\ q[s].serial \in Nat /\ q[s].serial > 0
         /\ dec[s].pkt_serial \in Nat /\ dec[s].pkt_serial <= q[s].serial
         /\ q[s].serial <= Len(from) /\ Len(from) \in Nat
         /\ \A g \in 1..Len(from) : from[g] \in Positions /\ from[g] \in Nat
         /\ Len(frames[s]) \in Nat
         /\ out[s] = "due" => Len(frames[s]) > 0
<1>1. /\ q[s] \in Queues /\ dec[s] \in Decoders /\ frames[s] \in Seq(Pictures)
      /\ Flowing(q[s], dec[s]) /\ q[s].serial <= Len(from) /\ from \in Seq(Positions)
      /\ out[s] = "due" => frames[s] # <<>>
  BY DEF Types, Flow, Stream
<1>2. /\ q[s].serial \in Nat /\ dec[s].pkt_serial \in Nat /\ q[s].serial > 0
      /\ dec[s].pkt_serial <= q[s].serial
  BY <1>1, QueueFields, DecoderFields DEF Flowing, Ordered
<1>3. /\ Len(from) \in Nat /\ \A g \in 1..Len(from) : from[g] \in Positions
      /\ Len(frames[s]) \in Nat /\ (frames[s] # <<>> => Len(frames[s]) > 0)
  BY <1>1, ElementOfSeq, LenProperties, EmptySeq
<1>4. \A p \in Positions : p \in Nat
  BY FileTyping DEF Positions
<1> QED BY <1>1, <1>2, <1>3, <1>4

LEMMA FirstPicture ==
  ASSUME NEW frs \in Seq(Pictures), Len(frs) > 0
  PROVE  1 \in 1..Len(frs) /\ frs[1] \in Pictures
<1>1. 1 \in 1..Len(frs)
  OBVIOUS
<1> QED BY <1>1, ElementOfSeq

LEMMA ContentKept ==
  ASSUME NEW s \in Streams, Content(s), InOrder(q'[s], dec'[s], frames'[s]),
         \A k : Held(q'[s], dec'[s], frames'[s], k) <=> Held(q[s], dec[s], frames[s], k),
         q'[s].serial = q[s].serial, at'[s] = at[s],
         from'[q[s].serial] = from[q[s].serial],
         ~Joining(s)' => ~Joining(s) /\ rd'.pos = rd.pos
  PROVE  Content(s)'
<1>1. Onward(s, q[s].serial)' = Onward(s, q[s].serial)
  BY DEF Onward
<1> DEFINE p == Onward(s, q[s].serial)
<1>2. Gapless(s, q'[s], dec'[s], frames'[s], p)
  BY DEF Content, Gapless
<1>3. ~Joining(s)' => UpTo(s, q'[s], dec'[s], frames'[s], p, rd'.pos)
  BY DEF Content, UpTo
<1> QED BY <1>1, <1>2, <1>3 DEF Content

\* A stream that a step leaves alone.
LEMMA AsideTrack ==
  ASSUME NEW s \in Streams, Track(s), q'[s] = q[s], dec'[s] = dec[s],
         frames'[s] = frames[s], out'[s] = out[s], at'[s] = at[s], late'[s] = late[s],
         UNCHANGED from, Joining(s)' <=> Joining(s), rd'.pos = rd.pos
  PROVE  Track(s)'
<1>1. Content(s)'
  BY ContentKept DEF Track, Content
<1>2. Joined(s)'
  BY DEF Track, Joined
<1>3. Serials(s)'
  BY DEF Track, Serials
<1>4. Onward(s, frames[s][1].serial)' = Onward(s, frames[s][1].serial)
  BY DEF Onward
<1>5. DueNext(s)'
  BY <1>4 DEF Track, DueNext, Onward
<1> QED BY <1>1, <1>2, <1>3, <1>5 DEF Track

\* Steps of the read thread that move no packets and begin nothing.
Idling ==
  \/ ReadTop \/ ReadSought \/ ReadRebuffer \/ ReadRoom \/ ReadOver \/ ReadComplete
  \/ ReadCheck \/ ReadEnd \/ ReadBroken \/ ReadEof
  \/ \E s \in Streams : ReadDrained(s)
  \/ ReadSeek /\ rd'.pc = "sought"
  \/ ReadPacket /\ rd'.pc = "store"

LEMMA IdlingReads ==
  ASSUME Types, Idling
  PROVE  /\ UNCHANGED <<q, dec, frames, out, from, at, late>> /\ rd'.pos = rd.pos
         /\ rd.pc \notin {"flush", "flushed", "discontinuity"}
         /\ rd'.pc \notin {"flush", "flushed", "discontinuity"}
<1> rd \in Readers
  BY ReaderFields
<1>1. CASE ReadTop \/ ReadRebuffer \/ ReadComplete \/ ReadCheck
  <2>1. \E pc \in {"seek", "room", "read", "top"} : Goto(pc)
    BY <1>1 DEF ReadTop, ReadRebuffer, ReadComplete, ReadCheck
  <2> QED BY <1>1, <2>1, GotoFields
      DEF ReadTop, ReadRebuffer, ReadComplete, ReadCheck, history
<1>2. CASE ReadSought \/ ReadEof \/ ReadBroken
  BY <1>2 DEF ReadSought, ReadEof, ReadBroken, Readers, history
<1>3. CASE ReadRoom
  BY <1>3 DEF ReadRoom, Goto, Readers, history
<1>4. CASE ReadOver
  BY <1>4 DEF ReadOver, Goto, Readers, history
<1>5. CASE ReadEnd
  BY <1>5 DEF ReadEnd, Goto, Readers, history
<1>6. CASE \E s \in Streams : ReadDrained(s)
  BY <1>6 DEF ReadDrained, Goto, After, Readers, history
<1>7. CASE ReadSeek /\ rd'.pc = "sought"
  <2>1. Goto("sought") /\ UNCHANGED from
    BY <1>7 DEF ReadSeek, Readers
  <2> QED BY <1>7, <2>1, GotoFields DEF ReadSeek
<1>8. CASE ReadPacket /\ rd'.pc = "store"
  BY <1>8 DEF ReadPacket, Readers
<1> QED BY <1>1, <1>2, <1>3, <1>4, <1>5, <1>6, <1>7, <1>8 DEF Idling

LEMMA IdlingTracks == ASSUME Types, Tracks, Idling PROVE Tracks'
<1> SUFFICES ASSUME NEW s \in Streams PROVE Track(s)'
  BY IdlingReads DEF Tracks
<1>1. ~Joining(s) /\ ~Joining(s)'
  BY IdlingReads DEF Joining
<1> QED BY <1>1, IdlingReads, AsideTrack DEF Tracks

\* A seek that succeeds, or a discontinuity, begins a generation.
LEMMA BeginsTracks ==
  ASSUME Types, Flow, Tracks, NEW p \in Positions, from' = Append(from, p), rd'.pos = p,
         rd'.todo = Streams, rd'.pc \in {"flush", "flushed", "discontinuity"},
         rd.pc \notin {"flush", "flushed", "discontinuity"},
         UNCHANGED <<q, dec, frames, out, at, late>>
  PROVE  Tracks'
<1> SUFFICES ASSUME NEW s \in Streams PROVE Track(s)'
  BY DEF Tracks
<1>1. Track(s)
  BY DEF Tracks
<1>2. /\ Len(from') = Len(from) + 1 /\ from'[Len(from) + 1] = p
      /\ \A g \in 1..Len(from) : from'[g] = from[g]
  BY AppendProperties DEF Types
<1>3. Joining(s)' /\ ~Joining(s)
  BY DEF Joining
<1>4. Len(from) = q[s].serial /\ q[s].serial \in 1..Len(from)
  BY <1>1, <1>3, StreamTypes DEF Track, Joined
<1>5. Content(s)'
  BY <1>1, <1>2, <1>3, <1>4, ContentKept DEF Track, Content
<1>6. Joined(s)'
  BY <1>2, <1>3, <1>4 DEF Joined
<1>7. Serials(s)'
  BY <1>1 DEF Track, Serials
<1>8. DueNext(s)'
  <2> SUFFICES ASSUME out[s] = "due" PROVE DueNext(s)'
    BY DEF DueNext
  <2>1. frames[s][1].serial \in 1..Len(from)
    <3>1. Len(frames[s]) > 0 /\ Len(frames[s]) \in Nat /\ frames[s] \in Seq(Pictures)
      BY StreamTypes
    <3>2. 1 \in 1..Len(frames[s]) /\ frames[s][1] \in Pictures
      BY <3>1, FirstPicture
    <3>3. at[s][1] <= frames[s][1].serial /\ frames[s][1].serial <= dec[s].pkt_serial
      BY <1>1, <3>2 DEF Track, Serials
    <3>4. at[s][1] \in Nat \ {0} /\ frames[s][1].serial \in Nat
      BY <1>1, <3>2 DEF Track, Serials, Pictures
    <3> QED BY <1>4, <3>3, <3>4, StreamTypes
  <2>2. Onward(s, frames[s][1].serial)' = Onward(s, frames[s][1].serial)
    BY <1>2, <2>1 DEF Onward
  <2> QED BY <1>1, <2>2 DEF Track, DueNext
<1> QED BY <1>5, <1>6, <1>7, <1>8 DEF Track

LEMMA ReadSeekTracks == ASSUME Types, Flow, Tracks, ReadSeek PROVE Tracks'
<1>1. CASE Goto("sought") /\ UNCHANGED from
  <2>1. rd'.pc = "sought"
    BY <1>1, GotoFields
  <2> QED BY <2>1, IdlingTracks DEF Idling
<1>2. CASE /\ rd' = [rd EXCEPT !.pc = "flush", !.todo = Streams, !.pos = is.seek_pos]
           /\ from' = Append(from, is.seek_pos)
  <2>1. rd'.pc = "flush" /\ rd'.todo = Streams /\ rd'.pos = is.seek_pos
    BY <1>2, ReaderFields DEF Readers
  <2> QED BY <1>2, <2>1, SeekPosition, BeginsTracks DEF ReadSeek
<1> QED BY <1>1, <1>2 DEF ReadSeek

LEMMA ReadPacketTracks == ASSUME Types, Flow, Tracks, ReadPacket PROVE Tracks'
<1>1. CASE rd.pos \notin Discontinuities
  <2>1. rd'.pc = "store"
    BY <1>1, ReaderFields DEF ReadPacket, Readers
  <2> QED BY <2>1, IdlingTracks DEF Idling
<1>2. CASE rd.pos \in Discontinuities
  <2>1. /\ rd'.pc = "discontinuity" /\ rd'.todo = Streams /\ rd'.pos = rd.pos
        /\ from' = Append(from, rd.pos) /\ rd.pos \in Positions
    BY <1>2, ReaderFields DEF ReadPacket, Readers
  <2> QED BY <2>1, BeginsTracks DEF ReadPacket
<1> QED BY <1>1, <1>2

\* The parts of Track that speak of neither the packet queue's content nor the codec.
LEMMA RestOfTrack ==
  ASSUME Types, Flow, Tracks, NEW s \in Streams, q'[s].serial = q[s].serial,
         dec'[s].pkt_serial = dec[s].pkt_serial,
         dec'[s].pc = "push" => dec[s].pc = "push" \/ dec[s].pkt_serial # 0,
         UNCHANGED <<frames, out, at, late, from>>
  PROVE  Serials(s)' /\ DueNext(s)'
<1>1. Track(s)
  BY DEF Tracks
<1>2. Serials(s)'
  BY <1>1 DEF Track, Serials
<1>3. \A g : Onward(s, g)' = Onward(s, g)
  BY DEF Onward
<1>4. DueNext(s)'
  BY <1>1, <1>3 DEF Track, DueNext
<1> QED BY <1>2, <1>4

LEMMA ReadFlushTracks ==
  ASSUME Types, Flow, Tracks, NEW s \in Streams, ReadFlush(s) PROVE Tracks'
<1>1. /\ rd'.pc = "flushed" /\ rd.pc = "flush" /\ rd'.pos = rd.pos /\ rd'.todo = rd.todo
      /\ UNCHANGED <<dec, frames, out, from, at, late>>
  BY GotoFields DEF ReadFlush, history
<1>2. q' = [q EXCEPT ![s] = PacketFlush(q[s])] /\ s \in rd.todo
  BY DEF ReadFlush, AudioFirst
<1> SUFFICES ASSUME NEW r \in Streams PROVE Track(r)'
  BY <1>1 DEF Tracks
<1>3. Track(r) /\ (Joining(r)' <=> Joining(r))
  BY <1>1 DEF Tracks, Joining
<1>4. CASE r # s
  <2>1. q'[r] = q[r]
    BY <1>2, <1>4 DEF Types
  <2> QED BY <1>1, <1>3, <2>1, AsideTrack
<1>5. CASE r = s
  <2> DEFINE new == PacketFlush(q[s])
             p == Onward(s, q[s].serial)
  <2>1. q'[s] = new /\ new.serial = q[s].serial
    BY <1>2, StreamTypes, FlushFacts DEF Types
  <2>2. Joining(s) /\ Joining(s)'
    BY <1>1, <1>2 DEF Joining
  <2>3. /\ InOrder(new, dec[s], frames[s])
        /\ \A k : Held(new, dec[s], frames[s], k) => Held(q[s], dec[s], frames[s], k)
        /\ \A j, k : /\ Held(new, dec[s], frames[s], k) /\ Held(q[s], dec[s], frames[s], j)
                     /\ j < k
                     => Held(new, dec[s], frames[s], j)
    BY <1>3, <1>5, StreamTypes, EmptiesInOrder DEF Track, Content
  <2> HIDE DEF new
  <2>4. Gapless(s, new, dec[s], frames[s], p)
    BY <1>3, <1>5, <2>3 DEF Track, Content, Gapless
  <2>5. Onward(s, q[s].serial)' = p
    BY <1>1, <2>1 DEF Onward
  <2>6. Content(s)'
    BY <1>1, <2>1, <2>2, <2>3, <2>4, <2>5 DEF Content
  <2>7. Joined(s)'
    BY <1>1, <1>3, <1>5, <2>1 DEF Track, Joined
  <2> QED BY <1>1, <1>5, <2>1, <2>6, <2>7, RestOfTrack DEF Track
<1> QED BY <1>4, <1>5

LEMMA PutFlushTracks ==
  ASSUME Types, Flow, Tracks, NEW s \in Streams, AudioFirst(s), PutFlush(s),
         rd.pc \in {"flushed", "discontinuity"}, UNCHANGED <<dec, frames, out, at, from>>,
         rd'.pos = rd.pos, rd'.todo = rd.todo \ {s},
         \/ rd.pc = "flushed" /\ rd'.pc = IF rd.todo = {s} THEN "sought" ELSE "flush"
         \/ rd.pc = "discontinuity"
            /\ rd'.pc = IF rd.todo = {s} THEN "store" ELSE "discontinuity"
  PROVE  Tracks'
<1> DEFINE new == PacketPut(q[s], FlushPacket)
<1>1. q' = [q EXCEPT ![s] = new] /\ late' = [late EXCEPT ![s] = FALSE] /\ s \in rd.todo
  BY DEF PutFlush, AudioFirst
<1> SUFFICES ASSUME NEW r \in Streams PROVE Track(r)'
  <2>1. late' \in [Streams -> BOOLEAN]
    BY <1>1 DEF Tracks
  <2> QED BY <2>1 DEF Tracks
<1>2. Track(r)
  BY DEF Tracks
<1> HIDE DEF new
<1>3. CASE r # s
  <2>1. q'[r] = q[r] /\ late'[r] = late[r]
    BY <1>1, <1>3 DEF Types, Tracks
  <2>2. r \in rd'.todo <=> r \in rd.todo
    BY <1>3
  <2>3. r \in rd.todo => rd.todo # {s}
    BY <1>3
  <2>4. Joining(r)' <=> Joining(r)
    BY <2>2, <2>3 DEF Joining
  <2> QED BY <1>2, <2>1, <2>4, AsideTrack
<1>4. CASE r = s
  <2>1. q'[s] = new /\ late'[s] = FALSE /\ new.serial = q[s].serial + 1
    BY <1>1, StreamTypes, PutFacts, PacketsTyping DEF Types, Tracks, new
  <2>2. Joining(s) /\ ~Joining(s)'
    BY <1>1 DEF Joining
  <2>3. Len(from) = q[s].serial + 1 /\ from[Len(from)] = rd.pos
    BY <1>2, <1>4, <2>2 DEF Track, Joined
  <2>4. Joined(s)'
    BY <2>1, <2>2, <2>3 DEF Joined
  <2>5. InOrder(new, dec[s], frames[s]) /\ \A k : ~Held(new, dec[s], frames[s], k)
    BY <1>2, <1>4, StreamTypes, BeginsInOrder DEF Track, Content, Serials, new
  <2>6. Onward(s, q[s].serial)' = rd.pos
    <3>1. at[s][1] # q[s].serial + 1
      BY <1>2, <1>4, StreamTypes DEF Track, Serials
    <3> QED BY <2>1, <2>3, <3>1 DEF Onward
  <2>7. Content(s)'
    <3>1. Gapless(s, new, dec[s], frames[s], rd.pos)
      BY <2>5 DEF Gapless
    <3>2. UpTo(s, new, dec[s], frames[s], rd.pos, rd.pos)
      <4>1. rd.pos \in Nat /\ Len(Media) \in Nat
        BY ReaderFields, FileTyping
      <4>2. rd.pos <= rd.pos /\ \A j \in Rest(s, rd.pos) : ~(j < rd.pos)
        BY <4>1 DEF Rest
      <4> QED BY <2>5, <4>2 DEF UpTo
    <3> QED BY <2>1, <2>5, <2>6, <3>1, <3>2 DEF Content
  <2>8. Serials(s)'
    <3>1. at[s][1] <= new.serial
      BY <1>2, <1>4, <2>1, StreamTypes DEF Track, Serials
    <3> QED BY <1>2, <1>4, <2>1, <3>1 DEF Track, Serials
  <2>9. DueNext(s)'
    <3>1. \A g : Onward(s, g)' = Onward(s, g)
      BY DEF Onward
    <3> QED BY <1>2, <1>4, <2>1, <3>1 DEF Track, DueNext
  <2> QED BY <1>4, <2>4, <2>7, <2>8, <2>9 DEF Track
<1> QED BY <1>3, <1>4

LEMMA ReadFlushedTracks ==
  ASSUME Types, Flow, Tracks, NEW s \in Streams, ReadFlushed(s) PROVE Tracks'
<1>1. After(s, "flush", "sought")
  BY DEF ReadFlushed
<1> QED BY <1>1, AfterTyping, PcsTyping, PutFlushTracks DEF ReadFlushed

LEMMA ReadDiscontinuityTracks ==
  ASSUME Types, Flow, Tracks, NEW s \in Streams, ReadDiscontinuity(s) PROVE Tracks'
<1>1. After(s, "discontinuity", "store")
  BY DEF ReadDiscontinuity
<1> QED BY <1>1, AfterTyping, PcsTyping, PutFlushTracks DEF ReadDiscontinuity

LEMMA ReadStoreTracks == ASSUME Types, Flow, Tracks, ReadStore PROVE Tracks'
<1>a. /\ rd.pos \in 1..Len(Media) /\ Media[rd.pos] \in Streams /\ Len(Media) \in Nat
      /\ rd.pos \in 0..EndPacket /\ rd.pos # FlushPacket
  BY ReaderFields, FileTyping DEF ReadStore, Types, Positions, EndPacket, FlushPacket
<1>b. PICK s \in Streams : s = Media[rd.pos]
  BY <1>a
<1> DEFINE new == PacketPut(q[s], rd.pos)
           p == Onward(s, q[s].serial)
<1>0. /\ rd.pos \in 1..Len(Media) /\ Media[rd.pos] = s /\ Len(Media) \in Nat
      /\ rd.pos \in 0..EndPacket /\ rd.pos # FlushPacket
  BY <1>a, <1>b
<1>1. /\ rd.pc = "store" /\ rd'.pc = "check" /\ rd'.pos = rd.pos + 1
      /\ q' = [q EXCEPT ![s] = new]
      /\ UNCHANGED <<dec, frames, out, from, at, late>>
  BY <1>b, ReaderFields DEF ReadStore, Readers, history
<1> SUFFICES ASSUME NEW r \in Streams PROVE Track(r)'
  BY <1>1 DEF Tracks
<1>2. Track(r) /\ ~Joining(r) /\ ~Joining(r)'
  BY <1>1 DEF Tracks, Joining
<1> HIDE DEF new, p
<1>3. CASE r # s
  <2>1. q'[r] = q[r]
    BY <1>1, <1>3 DEF Types
  <2>2. UpTo(r, q[r], dec[r], frames[r], Onward(r, q[r].serial), rd.pos)
    BY <1>2 DEF Track, Content
  <2>3. UpTo(r, q[r], dec[r], frames[r], Onward(r, q[r].serial), rd.pos + 1)
    <3>1. \A g : Onward(r, g) \in Nat \/ Onward(r, g) = from[g]
      BY <1>2 DEF Onward, Track, Serials
    <3>2. Onward(r, q[r].serial) \in Nat
      BY <3>1, StreamTypes
    <3>3. \A j \in Rest(r, Onward(r, q[r].serial)) : j < rd.pos + 1 <=> j < rd.pos
      BY <1>0, <1>3, <3>2 DEF Rest
    <3> QED BY <1>0, <2>2, <3>2, <3>3 DEF UpTo
  <2>4. Onward(r, q[r].serial)' = Onward(r, q[r].serial)
    BY <1>1, <2>1 DEF Onward
  <2>5. Content(r)'
    BY <1>1, <1>2, <2>1, <2>3, <2>4 DEF Track, Content
  <2>6. Joined(r)'
    BY <1>1, <1>2, <2>1 DEF Track, Joined
  <2> QED BY <1>1, <2>1, <2>5, <2>6, RestOfTrack DEF Track
<1>4. CASE r = s
  <2>0. /\ InOrder(q[s], dec[s], frames[s]) /\ Gapless(s, q[s], dec[s], frames[s], p)
        /\ UpTo(s, q[s], dec[s], frames[s], p, rd.pos)
    BY <1>2, <1>4 DEF Track, Content, p
  <2>1. q'[s] = new /\ new.serial = q[s].serial
    BY <1>0, <1>1, StreamTypes, PutFacts DEF Types, new
  <2>p. p \in Nat /\ p <= rd.pos
    <3>1. \A g : Onward(s, g) \in Nat \/ Onward(s, g) = from[g]
      BY <1>2, <1>4 DEF Onward, Track, Serials
    <3> QED BY <1>0, <2>0, <3>1, StreamTypes DEF UpTo, p
  <2>2. \A k : Held(q[s], dec[s], frames[s], k) => k < rd.pos
    BY <2>0 DEF Gapless, UpTo
  <2>3. /\ InOrder(new, dec[s], frames[s])
        /\ \A k : Held(new, dec[s], frames[s], k)
                    <=> Held(q[s], dec[s], frames[s], k) \/ k = rd.pos
    BY <1>0, <2>0, <2>2, StreamTypes, PutsInOrder DEF new
  <2>r. rd.pos \in Rest(s, p)
    BY <1>0, <2>p DEF Rest
  <2>4. Gapless(s, new, dec[s], frames[s], p)
    BY <2>0, <2>3, <2>r DEF Gapless, UpTo
  <2>5. UpTo(s, new, dec[s], frames[s], p, rd.pos + 1)
    <3>1. p <= rd.pos + 1
      BY <1>0, <2>p
    <3>2. \A j \in Rest(s, p) : j < rd.pos + 1 <=> j < rd.pos \/ j = rd.pos
      BY <1>0, <2>p DEF Rest
    <3> QED BY <2>0, <2>3, <3>1, <3>2 DEF UpTo
  <2>6. Onward(s, q[s].serial)' = p
    BY <1>1, <2>1 DEF Onward, p
  <2>7. Content(s)'
    BY <1>1, <2>1, <2>3, <2>4, <2>5, <2>6 DEF Content
  <2>8. Joined(s)'
    BY <1>1, <1>2, <1>4, <2>1 DEF Track, Joined
  <2> QED BY <1>0, <1>1, <1>4, <2>1, <2>7, <2>8, RestOfTrack DEF Track
<1> QED BY <1>3, <1>4

LEMMA ReadNullTracks ==
  ASSUME Types, Flow, Tracks, NEW s \in Streams, ReadNull(s) PROVE Tracks'
<1> DEFINE new == PutEnd(q[s], rd.broken)
<1>1. /\ rd.pc = "null" /\ rd'.pc \in {"null", "eof"} /\ rd'.pos = rd.pos
      /\ UNCHANGED <<dec, frames, out, from, at, late>> /\ q' = [q EXCEPT ![s] = new]
  BY AfterTyping, PcsTyping DEF ReadNull, history
<1> SUFFICES ASSUME NEW r \in Streams PROVE Track(r)'
  BY <1>1 DEF Tracks
<1>2. Track(r) /\ ~Joining(r) /\ ~Joining(r)'
  BY <1>1 DEF Tracks, Joining
<1>3. CASE r # s
  <2>1. q'[r] = q[r]
    BY <1>1, <1>3 DEF Types
  <2> QED BY <1>1, <1>2, <2>1, AsideTrack
<1>4. CASE r = s
  <2>0. q[s] \in Queues /\ dec[s] \in Decoders /\ frames[s] \in Seq(Pictures)
        /\ InOrder(q[s], dec[s], frames[s])
    BY <1>2, <1>4, StreamTypes DEF Track, Content
  <2> DEFINE once == PacketPut(q[s], EndPacket)
  <2>a. once \in Queues /\ once.serial = q[s].serial
    BY <2>0, PutFacts, PacketsTyping, EndNotFlush
  <2>b. /\ InOrder(once, dec[s], frames[s])
        /\ \A k : Held(once, dec[s], frames[s], k) <=> Held(q[s], dec[s], frames[s], k)
    BY <2>0, EndsInOrder
  <2>1. /\ once \in Queues /\ once.serial = q[s].serial
        /\ InOrder(once, dec[s], frames[s])
        /\ \A k : Held(once, dec[s], frames[s], k) <=> Held(q[s], dec[s], frames[s], k)
    BY <2>a, <2>b
  <2> DEFINE twice == PacketPut(once, EndPacket)
  <2> HIDE DEF once
  <2>2. /\ twice.serial = q[s].serial /\ InOrder(twice, dec[s], frames[s])
        /\ \A k : Held(twice, dec[s], frames[s], k) <=> Held(q[s], dec[s], frames[s], k)
    <3>1. twice.serial = once.serial
      BY <2>1, PutFacts, PacketsTyping, EndNotFlush
    <3>2. /\ InOrder(twice, dec[s], frames[s])
          /\ \A k : Held(twice, dec[s], frames[s], k) <=> Held(once, dec[s], frames[s], k)
      BY <2>0, <2>1, EndsInOrder
    <3> QED BY <2>1, <3>1, <3>2
  <2> HIDE DEF twice
  <2>3. new = once \/ new = twice
    BY DEF PutEnd, once, twice
  <2>4. q'[s] = new
    BY <1>1 DEF Types
  <2> HIDE DEF new
  <2>5. /\ q'[s].serial = q[s].serial /\ InOrder(q'[s], dec[s], frames[s])
        /\ \A k : Held(q'[s], dec[s], frames[s], k) <=> Held(q[s], dec[s], frames[s], k)
    BY <2>1, <2>2, <2>3, <2>4
  <2>6. Content(s)'
    BY <1>1, <1>2, <1>4, <2>5, ContentKept DEF Track
  <2>7. Joined(s)'
    BY <1>1, <1>2, <1>4, <2>5 DEF Track, Joined
  <2> QED BY <1>1, <1>4, <2>5, <2>6, <2>7, RestOfTrack DEF Track
<1> QED BY <1>3, <1>4

\* A step of a decoder that moves packets on, as far as the frame queue.
LEMMA DecoderTracks ==
  ASSUME Types, Flow, Tracks, NEW s \in Streams, NEW queue \in Queues, NEW d \in Decoders,
         q' = [q EXCEPT ![s] = queue], dec' = [dec EXCEPT ![s] = d],
         queue.serial = q[s].serial, \A r \in Streams : r # s => frames'[r] = frames[r],
         NEW frs \in Seq(Pictures), frames'[s] = frs, InOrder(queue, d, frs),
         \A k : Held(queue, d, frs, k) <=> Held(q[s], dec[s], frames[s], k),
         dec[s].pkt_serial <= d.pkt_serial, d.pc = "push" => d.pkt_serial # 0,
         Len(frames[s]) <= Len(frs), \A i \in 1..Len(frames[s]) : frs[i] = frames[s][i],
         \A i \in 1..Len(frs) :
           i > Len(frames[s]) => frs[i].serial = d.pkt_serial /\ d.pkt_serial # 0,
         UNCHANGED <<rd, out, at, late, from>>
  PROVE  Tracks'
<1> SUFFICES ASSUME NEW r \in Streams PROVE Track(r)'
  BY DEF Tracks
<1>1. Track(r) /\ (Joining(r)' <=> Joining(r))
  BY DEF Tracks, Joining
<1>2. CASE r # s
  <2>1. q'[r] = q[r] /\ dec'[r] = dec[r] /\ frames'[r] = frames[r]
    BY <1>2 DEF Types
  <2> QED BY <1>1, <2>1, AsideTrack
<1>3. CASE r = s
  <2>1. q'[s] = queue /\ dec'[s] = d
    BY DEF Types
  <2>2. Content(s)'
    BY <1>1, <1>3, <2>1, ContentKept DEF Track
  <2>3. Joined(s)'
    BY <1>1, <1>3, <2>1 DEF Track, Joined
  <2>0. /\ at[s][1] \in Nat \ {0} /\ dec[s].pkt_serial \in Nat /\ d.pkt_serial \in Nat
        /\ Len(frames[s]) \in Nat /\ Len(frs) \in Nat
        /\ \A i \in 1..Len(frs) : frs[i].serial \in Nat
    <3>1. \A i \in 1..Len(frs) : frs[i] \in Pictures
      BY ElementOfSeq
    <3>2. Len(frs) \in Nat
      OBVIOUS
    <3>3. at[s][1] \in Nat \ {0}
      BY <1>1, <1>3 DEF Track, Serials
    <3> QED BY <3>1, <3>2, <3>3, StreamTypes, DecoderFields DEF Pictures
  <2>4. Serials(s)'
    <3>1. at[s][1] <= IF d.pkt_serial = 0 THEN 1 ELSE d.pkt_serial
      BY <1>1, <1>3, <2>0 DEF Track, Serials
    <3>2. ASSUME NEW i \in 1..Len(frs)
          PROVE  at[s][1] <= frs[i].serial /\ frs[i].serial <= d.pkt_serial
      <4>1. CASE i \in 1..Len(frames[s])
        BY <1>1, <1>3, <2>0, <4>1 DEF Track, Serials
      <4>2. CASE i \notin 1..Len(frames[s])
        <5>1. i > Len(frames[s])
          BY <2>0, <4>2
        <5> QED BY <2>0, <3>1, <5>1
      <4> QED BY <4>1, <4>2
    <3>3. ASSUME NEW i \in 1..Len(frs), NEW j \in 1..Len(frs), i < j
          PROVE  frs[i].serial <= frs[j].serial
      <4>1. CASE j \in 1..Len(frames[s])
        <5>1. i \in 1..Len(frames[s])
          BY <2>0, <3>3, <4>1
        <5> QED BY <1>1, <1>3, <3>3, <4>1, <5>1 DEF Track, Serials
      <4>2. CASE j \notin 1..Len(frames[s])
        <5>1. j > Len(frames[s])
          BY <2>0, <4>2
        <5> QED BY <3>2, <5>1
      <4> QED BY <4>1, <4>2
    <3> QED BY <1>1, <1>3, <2>1, <3>1, <3>2, <3>3 DEF Track, Serials
  <2>5. DueNext(s)'
    <3> SUFFICES ASSUME out[s] = "due" PROVE DueNext(s)'
      BY DEF DueNext
    <3>1. frs[1] = frames[s][1]
      <4>1. Len(frames[s]) > 0
        BY StreamTypes
      <4> QED BY <2>0, <4>1
    <3>2. \A g : Onward(s, g)' = Onward(s, g)
      BY DEF Onward
    <3> QED BY <1>1, <1>3, <2>1, <3>1, <3>2 DEF Track, DueNext
  <2> QED BY <1>3, <2>2, <2>3, <2>4, <2>5 DEF Track
<1> QED BY <1>2, <1>3

\* One that leaves the queues alone.
LEMMA CodecTracks ==
  ASSUME Types, Flow, Tracks, NEW s \in Streams, NEW d \in Decoders,
         dec' = [dec EXCEPT ![s] = d], InOrder(q[s], d, frames[s]),
         \A k : Held(q[s], d, frames[s], k) <=> Held(q[s], dec[s], frames[s], k),
         dec[s].pkt_serial = d.pkt_serial, d.pc = "push" => d.pkt_serial # 0,
         UNCHANGED <<q, rd, frames, out, at, late, from>>
  PROVE  Tracks'
<1>1. /\ q' = [q EXCEPT ![s] = q[s]] /\ q[s] \in Queues
      /\ frames'[s] = frames[s] /\ frames[s] \in Seq(Pictures)
      /\ Len(frames[s]) \in Nat /\ dec[s].pkt_serial \in Nat
  BY KeptQueue, StreamTypes
<1>2. /\ Len(frames[s]) <= Len(frames[s]) /\ dec[s].pkt_serial <= d.pkt_serial
      /\ \A i \in 1..Len(frames[s]) : ~(i > Len(frames[s]))
  BY <1>1
<1> QED BY <1>1, <1>2, DecoderTracks

LEMMA TrackFacts ==
  ASSUME Types, Flow, Tracks, NEW s \in Streams
  PROVE  /\ InOrder(q[s], dec[s], frames[s]) /\ Serials(s) /\ Content(s) /\ Joined(s)
         /\ DueNext(s)
BY DEF Tracks, Track, Content

LEMMA WaitsTracks ==
  ASSUME Types, Flow, Tracks, NEW s \in Streams,
         NEW pc \in {"push", "get", "wait", "starved"}, dec' = [dec EXCEPT ![s].pc = pc],
         dec[s].pc \in {"decode", "get", "starved"},
         pc = "push" => dec[s].pkt_serial = q[s].serial,
         UNCHANGED <<q, rd, frames, out, at, late, from>>
  PROVE  Tracks'
<1> DEFINE d == [dec[s] EXCEPT !.pc = pc]
<1>1. /\ d \in Decoders /\ dec' = [dec EXCEPT ![s] = d] /\ d.pc = pc
      /\ d.codec = dec[s].codec /\ d.pkt_serial = dec[s].pkt_serial /\ d.pkt = dec[s].pkt
  BY StreamTypes DEF Decoders
<1> HIDE DEF d
<1>2. /\ InOrder(q[s], d, frames[s])
      /\ \A k : Held(q[s], d, frames[s], k) <=> Held(q[s], dec[s], frames[s], k)
  BY <1>1, StreamTypes, TrackFacts, KeepsPlaces
<1>3. d.pc = "push" => d.pkt_serial # 0
  BY <1>1, StreamTypes
<1> QED BY <1>1, <1>2, <1>3, CodecTracks

LEMMA ReceiveTracks ==
  ASSUME Types, Flow, Tracks, NEW s \in Streams, Receive(s),
         UNCHANGED <<rd, out, at, late, from>>
  PROVE  Tracks'
<1>0. dec[s].pc = "decode" /\ UNCHANGED <<q, frames>>
  BY DEF Receive
<1>1. CASE \E pc \in {"push", "get"} :
             /\ dec' = [dec EXCEPT ![s].pc = pc]
             /\ pc = "push" => dec[s].pkt_serial = q[s].serial
  BY <1>0, <1>1, WaitsTracks
<1>2. CASE dec' = [dec EXCEPT ![s].finished = dec[s].pkt_serial, ![s].draining = FALSE]
  <2> DEFINE d == [dec[s] EXCEPT !.finished = dec[s].pkt_serial, !.draining = FALSE]
  <2>1. /\ d \in Decoders /\ d.pc = dec[s].pc
        /\ d.codec = dec[s].codec /\ d.pkt_serial = dec[s].pkt_serial /\ d.pkt = dec[s].pkt
    BY StreamTypes DEF Decoders
  <2>2. dec' = [dec EXCEPT ![s] = d]
    BY <1>2
  <2> HIDE DEF d
  <2>3. /\ InOrder(q[s], d, frames[s])
        /\ \A k : Held(q[s], d, frames[s], k) <=> Held(q[s], dec[s], frames[s], k)
    BY <2>1, StreamTypes, TrackFacts, KeepsPlaces
  <2> QED BY <1>0, <2>1, <2>2, <2>3, CodecTracks
<1> QED BY <1>1, <1>2 DEF Receive

LEMMA StarveTracks ==
  ASSUME Types, Flow, Tracks, NEW s \in Streams, Starve(s) \/ StartBuffering(s),
         UNCHANGED <<rd, out, at, late, from>>
  PROVE  Tracks'
<1> PICK pc \in {"wait", "starved"} : dec' = [dec EXCEPT ![s].pc = pc]
  BY DEF Starve, StartBuffering
<1>1. dec[s].pc \in {"get", "starved"} /\ UNCHANGED <<q, frames>>
  BY DEF Starve, StartBuffering
<1> QED BY <1>1, WaitsTracks

LEMMA PushTracks ==
  ASSUME Types, Flow, Tracks, NEW s \in Streams, Push(s),
         UNCHANGED <<rd, out, at, late, from>>
  PROVE  Tracks'
<1> DEFINE f == [pos |-> dec[s].codec[1], serial |-> dec[s].pkt_serial]
           frs == Append(frames[s], f)
           d == [dec[s] EXCEPT !.pc = "decode", !.codec = Tail(dec[s].codec)]
<1>0. /\ dec[s].codec # <<>> /\ dec[s].codec \in Seq(1..Len(Media)) /\ dec[s].pc = "push"
      /\ dec[s].pkt_serial # 0 /\ UNCHANGED q
  BY PushFacts, StreamTypes, DecoderFields, TrackFacts DEF Push, Serials
<1>1. /\ Head(dec[s].codec) = dec[s].codec[1] /\ dec[s].codec[1] \in 1..Len(Media)
      /\ Len(dec[s].codec) > 0
      /\ \A i \in 1..Len(Tail(dec[s].codec)) : Tail(dec[s].codec)[i] = dec[s].codec[i + 1]
  BY <1>0, TailFacts
<1>2. f \in Pictures
  BY <1>1, StreamTypes DEF Pictures
<1>3. /\ Tail(dec[s].codec) \in Seq(1..Len(Media))
      /\ Len(Tail(dec[s].codec)) = Len(dec[s].codec) - 1
      /\ \A r \in Streams : r # s => frames'[r] = frames[r]
      /\ dec' = [dec EXCEPT ![s] = d]
  BY PushFacts
<1>4. /\ d \in Decoders /\ d.pc = "decode" /\ d.codec = Tail(dec[s].codec)
      /\ d.pkt_serial = dec[s].pkt_serial
  BY <1>3, StreamTypes DEF Decoders
<1>5. f.serial = dec[s].pkt_serial
  OBVIOUS
<1> HIDE DEF d
<1>6. frames' = [frames EXCEPT ![s] = frs]
  BY <1>1 DEF Push
<1>f. f = [pos |-> dec[s].codec[1], serial |-> dec[s].pkt_serial]
  OBVIOUS
<1> HIDE DEF f
<1>7. /\ frs \in Seq(Pictures) /\ Len(frs) = Len(frames[s]) + 1
      /\ \A i \in 1..Len(frames[s]) : frs[i] = frames[s][i]
      /\ frs[Len(frames[s]) + 1] = f
  BY <1>2, StreamTypes, AppendProperties
<1>8. frames'[s] = frs
  BY <1>6 DEF Types
<1> HIDE DEF frs
<1>9. /\ InOrder(q[s], d, frs)
      /\ \A k : Held(q[s], d, frs, k) <=> Held(q[s], dec[s], frames[s], k)
  <2>1. /\ Len(d.codec) = Len(dec[s].codec) - 1
        /\ \A i \in 1..Len(d.codec) : d.codec[i] = dec[s].codec[i + 1]
    BY <1>1, <1>3, <1>4
  <2> QED BY <1>0, <1>1, <1>4, <1>7, <1>f, <2>1, StreamTypes, TrackFacts, PushesInOrder
<1>10. /\ Len(frames[s]) <= Len(frs) /\ dec[s].pkt_serial <= d.pkt_serial
       /\ \A i \in 1..Len(frs) :
            i > Len(frames[s]) => frs[i].serial = d.pkt_serial /\ d.pkt_serial # 0
  <2>1. Len(frames[s]) \in Nat /\ dec[s].pkt_serial \in Nat
    BY StreamTypes
  <2>2. \A i \in 1..Len(frs) : i > Len(frames[s]) => i = Len(frames[s]) + 1
    BY <1>7, <2>1
  <2> QED BY <1>0, <1>4, <1>5, <1>7, <2>1, <2>2
<1>11. q' = [q EXCEPT ![s] = q[s]] /\ q[s] \in Queues
  BY <1>0, KeptQueue, StreamTypes
<1> QED BY <1>3, <1>4, <1>7, <1>8, <1>9, <1>10, <1>11, DecoderTracks

LEMMA DequeueTracks ==
  ASSUME Types, Flow, Tracks, NEW s \in Streams, dec[s].pc \in {"get", "wait"}, Dequeue(s),
         UNCHANGED <<rd, out, at, late, from>>
  PROVE  Tracks'
<1> DEFINE n == [q[s] EXCEPT !.pkts = Tail(q[s].pkts)]
           p == q[s].pkts[1]
           d == [dec[s] EXCEPT !.pkt = p.pkt, !.pkt_serial = p.serial,
                   !.pc = IF PacketBuffering /\ dec[s].finished = p.serial
                          THEN "get" ELSE "got"]
<1>0. /\ n \in Queues /\ n.serial = q[s].serial /\ q' = [q EXCEPT ![s] = n]
      /\ q[s].pkts # <<>> /\ n.pkts = Tail(q[s].pkts)
      /\ Len(q[s].pkts) \in Nat /\ Len(Tail(q[s].pkts)) = Len(q[s].pkts) - 1
      /\ Len(q[s].pkts) > 0
      /\ \A i \in 1..Len(Tail(q[s].pkts)) : Tail(q[s].pkts)[i] = q[s].pkts[i + 1]
  BY DequeueFacts
<1>1. d \in Decoders /\ dec' = [dec EXCEPT ![s] = d]
  BY DequeueFacts
<1>2. /\ d.pkt = p.pkt /\ d.pkt_serial = p.serial /\ d.codec = dec[s].codec
      /\ \/ d.pc = "get" /\ dec[s].finished = p.serial
         \/ d.pc = "got"
  BY StreamTypes DEF Decoders
<1>3. UNCHANGED frames
  BY DEF Dequeue
<1> HIDE DEF n, d
<1>4. /\ Len(q[s].pkts) = Len(n.pkts) + 1
      /\ \A i \in 1..Len(n.pkts) : n.pkts[i] = q[s].pkts[i + 1]
  BY <1>0
<1>5. /\ InOrder(n, d, frames[s])
      /\ \A k : Held(n, d, frames[s], k) <=> Held(q[s], dec[s], frames[s], k)
  BY <1>0, <1>1, <1>2, <1>4, StreamTypes, TrackFacts, TakesInOrder
<1>6. dec[s].pkt_serial <= d.pkt_serial
  <2>1. 1 \in 1..Len(q[s].pkts)
    BY <1>0
  <2> QED BY <1>2, <2>1, StreamTypes DEF Flowing, Ordered
<1>7. /\ Len(frames[s]) <= Len(frames[s]) /\ frames'[s] = frames[s]
      /\ \A i \in 1..Len(frames[s]) : ~(i > Len(frames[s]))
  BY <1>3, StreamTypes
<1> QED BY <1>0, <1>1, <1>2, <1>3, <1>5, <1>6, <1>7, StreamTypes, DecoderTracks

LEMMA SendTracks ==
  ASSUME Types, Flow, Tracks, NEW s \in Streams, Send(s), Types',
         UNCHANGED <<rd, out, at, late, from>>
  PROVE  Tracks'
<1> DEFINE d == dec[s]
<1>1. /\ d.pc = "got" /\ UNCHANGED <<q, frames>> /\ dec'[s] \in Decoders
      /\ dec' = [dec EXCEPT ![s] = dec'[s]] /\ d \in Decoders
  BY StreamTypes DEF Send, Types
<1>2. CASE d.pkt_serial # q[s].serial
  <2> DEFINE e == [d EXCEPT !.pc = "get"]
  <2>1. dec' = [dec EXCEPT ![s] = e]
    BY <1>2 DEF Send
  <2>2. /\ e \in Decoders /\ e.pc = "get" /\ e.codec = d.codec /\ e.pkt = d.pkt
        /\ e.pkt_serial = d.pkt_serial
    BY <1>1 DEF Decoders
  <2> HIDE DEF e
  <2>3. /\ InOrder(q[s], e, frames[s])
        /\ \A k : Held(q[s], e, frames[s], k) <=> Held(q[s], d, frames[s], k)
    BY <1>1, <1>2, <2>2, StreamTypes, TrackFacts, KeepsPlaces
  <2> QED BY <1>1, <2>1, <2>2, <2>3, CodecTracks
<1>3. CASE d.pkt_serial = q[s].serial /\ d.pkt = FlushPacket
  <2> DEFINE e == [FlushCodec(d) EXCEPT !.pc = "decode"]
  <2>1. dec' = [dec EXCEPT ![s] = e]
    BY <1>3 DEF Send
  <2>2. e.pc = "decode" /\ e.codec = <<>> /\ e.pkt_serial = d.pkt_serial
    BY <1>1 DEF FlushCodec, Decoders
  <2>e. e \in Decoders
    <3>1. dec'[s] = e
      BY <2>1 DEF Types
    <3> QED BY <1>1, <3>1
  <2> HIDE DEF e
  <2>f. Len(e.codec) = 0 /\ Fresh(d)
    BY <1>1, <1>3, <2>2, EmptySeq DEF Fresh
  <2>3. /\ InOrder(q[s], e, frames[s])
        /\ \A k : Held(q[s], e, frames[s], k) <=> Held(q[s], d, frames[s], k)
    BY <1>1, <2>2, <2>e, <2>f, StreamTypes, TrackFacts, FlushesInOrder
  <2> QED BY <1>1, <2>1, <2>2, <2>e, <2>3, CodecTracks
<1>4. CASE d.pkt_serial = q[s].serial /\ d.pkt = EndPacket
  <2> DEFINE e == [d EXCEPT !.pc = "decode", !.draining = TRUE]
  <2>1. dec' = [dec EXCEPT ![s] = e]
    BY <1>4, EndNotFlush DEF Send
  <2>2. /\ e \in Decoders /\ e.pc = "decode" /\ e.codec = d.codec /\ e.pkt = d.pkt
        /\ e.pkt_serial = d.pkt_serial
    BY <1>1 DEF Decoders
  <2> HIDE DEF e
  <2>3. /\ InOrder(q[s], e, frames[s])
        /\ \A k : Held(q[s], e, frames[s], k) <=> Held(q[s], d, frames[s], k)
    BY <1>1, <1>4, <2>2, StreamTypes, TrackFacts, KeepsPlaces
  <2> QED BY <1>1, <2>1, <2>2, <2>3, CodecTracks
<1>5. CASE d.pkt_serial = q[s].serial /\ IsData(d.pkt)
  <2> DEFINE e == [d EXCEPT !.pc = "decode", !.codec = Append(d.codec, d.pkt)]
  <2>1. dec' = [dec EXCEPT ![s] = e]
    <3>1. d.pkt # FlushPacket /\ d.pkt # EndPacket
      BY <1>5 DEF IsData
    <3> QED BY <1>5, <3>1 DEF Send
  <2>2. d.pkt \in 1..Len(Media) /\ d.codec \in Seq(1..Len(Media))
    BY <1>1, <1>5, FileTyping DEF IsData, Decoders, FlushPacket, EndPacket
  <2>3. /\ Len(Append(d.codec, d.pkt)) = Len(d.codec) + 1
        /\ \A i \in 1..Len(d.codec) : Append(d.codec, d.pkt)[i] = d.codec[i]
        /\ Append(d.codec, d.pkt)[Len(d.codec) + 1] = d.pkt
    BY <2>2, AppendProperties
  <2>4. /\ e.pc = "decode" /\ e.pkt_serial = d.pkt_serial
        /\ e.codec = Append(d.codec, d.pkt)
    BY <1>1 DEF Decoders
  <2>e. e \in Decoders
    <3>1. dec'[s] = e
      BY <2>1 DEF Types
    <3> QED BY <1>1, <3>1
  <2> HIDE DEF e
  <2>5. /\ InOrder(q[s], e, frames[s])
        /\ \A k : Held(q[s], e, frames[s], k) <=> Held(q[s], d, frames[s], k)
    BY <1>1, <1>5, <2>3, <2>4, <2>e, StreamTypes, TrackFacts, SendsInOrder
  <2> QED BY <1>1, <2>1, <2>4, <2>e, <2>5, CodecTracks
<1> QED BY <1>2, <1>3, <1>4, <1>5 DEF IsData

LEMMA DecodingTracks ==
  ASSUME Types, Flow, Tracks, Types', NEW s \in Streams, Decoder(s) PROVE Tracks'
BY ReceiveTracks, PushTracks, StarveTracks, SendTracks, DequeueTracks DEF Decoder, history

\* The first frame of the current serial comes next.
LEMMA HeadFirst ==
  ASSUME Types, Flow, Tracks, NEW s \in Streams, Len(frames[s]) > 0,
         frames[s][1].serial = q[s].serial
  PROVE  IsFirst(frames[s][1].pos, Rest(s, Onward(s, q[s].serial)))
<1> DEFINE f == frames[s][1]
           p == Onward(s, q[s].serial)
<1>1. /\ Held(q[s], dec[s], frames[s], f.pos)
      /\ \A k : Held(q[s], dec[s], frames[s], k) => f.pos <= k
  <2>0. frames[s] \in Seq(Pictures) /\ frames[s] # <<>>
    BY StreamTypes, EmptySeq
  <2>1. /\ Tail(frames[s]) \in Seq(Pictures) /\ Len(frames[s]) = Len(Tail(frames[s])) + 1
        /\ \A i \in 1..Len(Tail(frames[s])) : Tail(frames[s])[i] = frames[s][i + 1]
    <3>1. Len(Tail(frames[s])) = Len(frames[s]) - 1 /\ Len(frames[s]) \in Nat
      BY <2>0, TailFacts
    <3> QED BY <2>0, <3>1, TailFacts
  <2> QED BY <2>1, StreamTypes, TrackFacts, LeavesInOrder
<1>2. Gapless(s, q[s], dec[s], frames[s], p)
  BY TrackFacts DEF Content
<1>3. f.pos \in Rest(s, p) /\ \A j \in Rest(s, p) : j < f.pos => f.pos <= j
  BY <1>1, <1>2 DEF Gapless
<1>4. f.pos \in Nat /\ \A j \in Rest(s, p) : j \in Nat
  <2>1. f.pos \in Nat
    <3>1. frames[s] \in Seq(Pictures)
      BY StreamTypes
    <3>2. f \in Pictures
      BY <3>1, FirstPicture
    <3> QED BY <3>2 DEF Pictures
  <2>2. p \in Nat
    <3>1. p = from[q[s].serial] \/ p = at[s][2] + 1
      BY DEF Onward
    <3> QED BY <3>1, StreamTypes, TrackFacts DEF Serials
  <2> QED BY <2>1, <2>2, FileTyping DEF Rest
<1> HIDE DEF f, p
<1>5. \A j \in Rest(s, p) : f.pos <= j
  BY <1>3, <1>4
<1> QED BY <1>3, <1>5 DEF IsFirst, f, p

LEMMA TakesFrame ==
  ASSUME Types, Flow, Tracks, NEW s \in Streams, Take(s), frames[s] # <<>>
  PROVE  /\ frames' = [frames EXCEPT ![s] = frames'[s]]
         /\ frames'[s] \in Seq(Pictures) /\ frames[s] \in Seq(Pictures)
         /\ Len(frames'[s]) \in Nat
         /\ Len(frames[s]) = Len(frames'[s]) + 1 /\ Len(frames[s]) > 0
         /\ \A i \in 1..Len(frames'[s]) : frames'[s][i] = frames[s][i + 1]
         /\ Head(frames[s]) = frames[s][1] /\ frames[s][1] \in Pictures
         /\ \A r \in Streams : r # s => frames'[r] = frames[r]
<1>1. frames[s] \in Seq(Pictures) /\ frames'[s] = Tail(frames[s])
  BY DEF Types, Take
<1>2. /\ Tail(frames[s]) \in Seq(Pictures) /\ Len(Tail(frames[s])) = Len(frames[s]) - 1
      /\ \A i \in 1..Len(Tail(frames[s])) : Tail(frames[s])[i] = frames[s][i + 1]
      /\ Len(frames[s]) \in Nat /\ Len(frames[s]) > 0 /\ Head(frames[s]) = frames[s][1]
  BY <1>1, TailFacts
<1>3. frames[s][1] \in Pictures
  BY <1>1, <1>2, FirstPicture
<1>4. /\ frames' = [frames EXCEPT ![s] = frames'[s]]
      /\ \A r \in Streams : r # s => frames'[r] = frames[r]
  BY DEF Types, Take
<1>5. Len(frames'[s]) \in Nat /\ Len(frames[s]) = Len(frames'[s]) + 1
  BY <1>1, <1>2
<1> QED BY <1>1, <1>2, <1>3, <1>4, <1>5

\* A frame leaves the queue, shown or not.
LEMMA TakeTracks ==
  ASSUME Types, Flow, Tracks, NEW s \in Streams, Take(s), frames[s] # <<>>,
         out'[s] # "due", \A r \in Streams : r # s => out'[r] = out[r],
         \/ frames[s][1].serial # q[s].serial /\ UNCHANGED <<at, late>>
         \/ /\ at' = [at EXCEPT ![s] = <<frames[s][1].serial, frames[s][1].pos>>]
            /\ late' \in [Streams -> BOOLEAN]
            /\ \A r \in Streams : r # s => late'[r] = late[r],
         UNCHANGED <<rd, q, dec, from>>
  PROVE  Tracks'
<1> DEFINE f == frames[s][1]
           n == q[s].serial
           p == Onward(s, n)
           new == frames'[s]
<1>0. /\ f.pos \in 1..Len(Media) /\ f.pos \in Nat /\ f.serial \in Nat /\ Len(Media) \in Nat
      /\ n \in Nat /\ dec[s].pkt_serial \in Nat /\ dec[s].pkt_serial <= n
      /\ Len(new) \in Nat /\ Len(frames[s]) = Len(new) + 1
      /\ \A i \in 1..Len(new) : new[i] = frames[s][i + 1]
      /\ rd.pos \in Nat
  <2>1. f.pos \in 1..Len(Media) /\ f.serial \in Nat /\ Len(Media) \in Nat
    BY TakesFrame, FileTyping DEF Pictures
  <2>2. rd.pos \in Nat
    BY FileTyping DEF Types, Readers, Positions
  <2>3. f.pos \in Nat
    BY <2>1
  <2> QED BY <2>1, <2>2, <2>3, TakesFrame, StreamTypes
<1>s. /\ at[s][1] \in Nat \ {0} /\ at[s][1] <= f.serial /\ f.serial <= dec[s].pkt_serial
      /\ \A i \in 1..Len(new) : /\ f.serial <= new[i].serial
                                /\ new[i].serial <= dec[s].pkt_serial
                                /\ at[s][1] <= new[i].serial
      /\ \A i, j \in 1..Len(new) : i < j => new[i].serial <= new[j].serial
  <2>1. Serials(s) /\ 1 \in 1..Len(frames[s])
    BY TrackFacts, <1>0
  <2>2. \A i \in 1..Len(new) : i + 1 \in 1..Len(frames[s]) /\ 1 < i + 1
    BY <1>0
  <2>3. \A i, j \in 1..Len(new) : i < j => i + 1 < j + 1
    BY <1>0
  <2> QED BY <1>0, <2>1, <2>2, <2>3 DEF Serials
<1>t. /\ at \in [Streams -> Nat \X (0..Len(Media))]
      /\ at' \in [Streams -> Nat \X (0..Len(Media))] /\ late' \in [Streams -> BOOLEAN]
  <2>1. <<f.serial, f.pos>> \in Nat \X (0..Len(Media))
    BY <1>0
  <2>2. at \in [Streams -> Nat \X (0..Len(Media))] /\ late \in [Streams -> BOOLEAN]
    BY DEF Tracks
  <2> HIDE DEF f
  <2>3. \/ UNCHANGED <<at, late>>
        \/ /\ at' = [at EXCEPT ![s] = <<f.serial, f.pos>>]
           /\ late' \in [Streams -> BOOLEAN]
    BY DEF f
  <2> QED BY <2>1, <2>2, <2>3
<1>o. /\ InOrder(q[s], dec[s], new)
      /\ f.serial # n =>
           \A k : Held(q[s], dec[s], new, k) <=> Held(q[s], dec[s], frames[s], k)
      /\ f.serial = n =>
           /\ Held(q[s], dec[s], frames[s], f.pos)
           /\ \A k : Held(q[s], dec[s], new, k)
                       <=> Held(q[s], dec[s], frames[s], k) /\ f.pos < k
  BY TakesFrame, StreamTypes, TrackFacts, LeavesInOrder
<1> SUFFICES ASSUME NEW r \in Streams PROVE Track(r)'
  BY <1>t DEF Tracks
<1>1. Track(r) /\ (Joining(r)' <=> Joining(r))
  BY DEF Tracks, Joining
<1>2. CASE r # s
  <2>1. frames'[r] = frames[r] /\ out'[r] = out[r] /\ at'[r] = at[r] /\ late'[r] = late[r]
    BY <1>2, <1>t, TakesFrame
  <2> QED BY <1>1, <2>1, AsideTrack
<1>3. CASE r = s
  <2>0. /\ InOrder(q[s], dec[s], frames[s]) /\ Gapless(s, q[s], dec[s], frames[s], p)
        /\ ~Joining(s) => UpTo(s, q[s], dec[s], frames[s], p, rd.pos)
    BY TrackFacts DEF Content
  <2>a. at'[s] = at[s] \/ (at'[s][1] = f.serial /\ at'[s][2] = f.pos)
    <3> DEFINE pair == <<f.serial, f.pos>>
    <3>1. pair[1] = f.serial /\ pair[2] = f.pos
      OBVIOUS
    <3> HIDE DEF pair, f
    <3>2. at'[s] = at[s] \/ at'[s] = pair
      BY <1>t DEF pair, f
    <3> QED BY <3>1, <3>2
  <2>u. rd' = rd /\ q' = q /\ dec' = dec /\ from' = from
    OBVIOUS
  <2>1. ASSUME f.serial # n PROVE Content(s)'
    <3>1. Onward(s, n)' = p
      <4>1. at[s][1] # n /\ at'[s][1] # n
        BY <1>0, <1>s, <2>1, <2>a
      <4> QED BY <4>1 DEF Onward
    <3>2. Gapless(s, q[s], dec[s], new, p)
      BY <1>o, <2>0, <2>1 DEF Gapless
    <3>3. ~Joining(s) => UpTo(s, q[s], dec[s], new, p, rd.pos)
      BY <1>o, <2>0, <2>1 DEF UpTo
    <3> HIDE DEF f, p
    <3> QED BY <1>1, <1>3, <1>o, <2>u, <3>1, <3>2, <3>3 DEF Content
  <2>2. ASSUME f.serial = n PROVE Content(s)'
    <3>0. at'[s][1] = n /\ at'[s][2] = f.pos
      <4> DEFINE pair == <<f.serial, f.pos>>
      <4>1. pair[1] = f.serial /\ pair[2] = f.pos
        OBVIOUS
      <4> HIDE DEF pair, f
      <4>2. at'[s] = pair
        BY <1>t, <2>2 DEF pair, f
      <4> QED BY <2>2, <4>1, <4>2
    <3>1. Onward(s, n)' = f.pos + 1
      BY <1>0, <3>0 DEF Onward
    <3>2. f.pos \in Rest(s, p) /\ p \in Nat
      <4>1. p = from[n] \/ p = at[s][2] + 1
        BY DEF Onward
      <4>2. p \in Nat
        BY <4>1, StreamTypes, TrackFacts DEF Serials
      <4> QED BY <1>o, <2>0, <2>2, <4>2 DEF Gapless
    <3>3. \A k : k \in Rest(s, f.pos + 1) <=> k \in Rest(s, p) /\ f.pos < k
      BY <1>0, <3>2 DEF Rest
    <3>4. Gapless(s, q[s], dec[s], new, f.pos + 1)
      BY <1>o, <2>0, <2>2, <3>3 DEF Gapless
    <3>5. ~Joining(s) => UpTo(s, q[s], dec[s], new, f.pos + 1, rd.pos)
      <4> SUFFICES ASSUME ~Joining(s) PROVE UpTo(s, q[s], dec[s], new, f.pos + 1, rd.pos)
        OBVIOUS
      <4>1. UpTo(s, q[s], dec[s], frames[s], p, rd.pos)
        BY <2>0
      <4>2. f.pos < rd.pos
        BY <1>o, <2>2, <3>2, <4>1 DEF UpTo
      <4>3. f.pos + 1 <= rd.pos
        BY <1>0, <4>2
      <4> QED BY <1>o, <2>2, <3>3, <4>1, <4>3 DEF UpTo
    <3> HIDE DEF f
    <3> QED BY <1>1, <1>3, <1>o, <2>u, <3>1, <3>4, <3>5 DEF Content
  <2>3. Content(s)'
    BY <2>1, <2>2
  <2>4. Joined(s)'
    BY <1>1, <1>3 DEF Track, Joined
  <2>5. Serials(s)'
    <3>1. Serials(s) /\ at'[s][2] \in 0..Len(Media)
      <4>1. at'[s] \in Nat \X (0..Len(Media))
        BY <1>t
      <4> QED BY <4>1, TrackFacts
    <3>2. /\ at'[s][1] \in Nat \ {0} /\ at'[s][1] <= dec[s].pkt_serial
          /\ \A i \in 1..Len(new) : at'[s][1] <= new[i].serial
      BY <1>0, <1>s, <2>a
    <3>3. at'[s][1] <= n /\ dec[s].pkt_serial # 0
      BY <1>0, <3>2
    <3> HIDE DEF f
    <3> QED BY <1>s, <3>1, <3>2, <3>3 DEF Serials
  <2>6. DueNext(s)'
    BY DEF DueNext
  <2> QED BY <1>3, <2>3, <2>4, <2>5, <2>6 DEF Track
<1> QED BY <1>2, <1>3

\* One that takes none.
LEMMA LooksTracks ==
  ASSUME Types, Flow, Tracks, NEW s \in Streams, \A r \in Streams : r # s => out'[r] = out[r],
         out'[s] = "due" => Len(frames[s]) > 0 /\ frames[s][1].serial = q[s].serial,
         UNCHANGED <<rd, q, dec, frames, at, late, from>>
  PROVE  Tracks'
<1> SUFFICES ASSUME NEW r \in Streams PROVE Track(r)'
  BY DEF Tracks
<1>1. Track(r) /\ (Joining(r)' <=> Joining(r))
  BY DEF Tracks, Joining
<1>2. CASE r # s
  BY <1>1, <1>2, AsideTrack
<1>3. CASE r = s
  <2>1. \A g : Onward(s, g)' = Onward(s, g)
    BY DEF Onward
  <2>2. Content(s)' /\ Joined(s)' /\ Serials(s)'
    BY <1>1, <1>3, <2>1, ContentKept DEF Track, Content, Joined, Serials
  <2>3. DueNext(s)'
    BY <2>1, HeadFirst DEF DueNext
  <2> QED BY <1>3, <2>2, <2>3 DEF Track
<1> QED BY <1>2, <1>3

LEMMA OutputTracks == ASSUME Types, Flow, Tracks, NEW s \in Streams, Output(s) PROVE Tracks'
<1>0. out \in [Streams -> {"idle", "due", "shown", "read"}] /\ UNCHANGED <<rd, q, dec, from>>
      /\ late \in [Streams -> BOOLEAN] /\ at \in [Streams -> Nat \X (0..Len(Media))]
  BY DEF Types, Output, Tracks
<1>1. CASE s = "video" /\ VideoSkip
  <2>1. Take(s) /\ frames[s] # <<>> /\ UNCHANGED <<out, at, late>> /\ out'[s] # "due"
        /\ Stale(s)
    BY <1>1 DEF VideoSkip
  <2>2. frames[s][1].serial # q[s].serial
    BY <2>1, TakesFrame DEF Stale
  <2> QED BY <1>0, <2>1, <2>2, TakeTracks
<1>2. CASE s = "video" /\ VideoDue
  <2>1. /\ frames[s] # <<>> /\ ~Stale(s) /\ UNCHANGED <<frames, at, late>>
        /\ \A r \in Streams : r # s => out'[r] = out[r]
    BY <1>0, <1>2 DEF VideoDue
  <2>2. Len(frames[s]) > 0 /\ frames[s][1].serial = q[s].serial
    <3>1. frames[s] \in Seq(Pictures)
      BY StreamTypes
    <3> QED BY <2>1, <3>1, TailFacts DEF Stale
  <2> QED BY <1>0, <2>1, <2>2, LooksTracks
<1>3. CASE s = "video" /\ VideoShow
  <2>1. /\ Take(s) /\ Render(s) /\ out'[s] # "due" /\ out[s] = "due"
        /\ \A r \in Streams : r # s => out'[r] = out[r]
    BY <1>0, <1>3 DEF VideoShow
  <2>2. frames[s] # <<>>
    BY <2>1 DEF Types
  <2>3. /\ at' = [at EXCEPT ![s] = <<frames[s][1].serial, frames[s][1].pos>>]
        /\ late' \in [Streams -> BOOLEAN] /\ \A r \in Streams : r # s => late'[r] = late[r]
    <3>1. Head(frames[s]) = frames[s][1]
      BY <2>1, <2>2, TakesFrame
    <3>2. \E b \in BOOLEAN : late' = [late EXCEPT ![s] = b]
      BY <1>0, <2>1 DEF Render
    <3> QED BY <1>0, <2>1, <3>1, <3>2 DEF Render
  <2> QED BY <1>0, <2>1, <2>2, <2>3, TakeTracks
<1>4. CASE s = "video" /\ VideoStep
  <2>1. /\ \A r \in Streams : r # s => out'[r] = out[r]
        /\ out'[s] # "due" /\ UNCHANGED <<frames, at, late>>
    BY <1>0, <1>4 DEF VideoStep
  <2> QED BY <1>0, <2>1, LooksTracks
<1>5. CASE s = "audio" /\ AudioAsk
  <2>1. /\ \A r \in Streams : r # s => out'[r] = out[r]
        /\ out'[s] # "due" /\ UNCHANGED <<frames, at, late>>
    BY <1>0, <1>5 DEF AudioAsk
  <2> QED BY <1>0, <2>1, LooksTracks
<1>6. CASE s = "audio" /\ AudioTake
  <2>1. /\ Take(s) /\ frames[s] # <<>> /\ out'[s] # "due"
        /\ \A r \in Streams : r # s => out'[r] = out[r]
    BY <1>0, <1>6 DEF AudioTake
  <2>h. Head(frames[s]) = frames[s][1]
    BY <2>1, TakesFrame
  <2>2. CASE Stale(s)
    <3>1. frames[s][1].serial # q[s].serial /\ UNCHANGED <<at, late>>
      BY <1>6, <2>2, <2>h DEF AudioTake, Stale
    <3> QED BY <1>0, <2>1, <3>1, TakeTracks
  <2>3. CASE ~Stale(s)
    <3>1. Render(s)
      BY <1>6, <2>3 DEF AudioTake
    <3>2. \E b \in BOOLEAN : late' = [late EXCEPT ![s] = b]
      BY <1>0, <3>1 DEF Render
    <3>3. /\ at' = [at EXCEPT ![s] = <<frames[s][1].serial, frames[s][1].pos>>]
          /\ late' \in [Streams -> BOOLEAN] /\ \A r \in Streams : r # s => late'[r] = late[r]
      BY <1>0, <2>h, <3>1, <3>2 DEF Render
    <3> QED BY <1>0, <2>1, <3>3, TakeTracks
  <2> QED BY <2>2, <2>3
<1> QED BY <1>1, <1>2, <1>3, <1>4, <1>5, <1>6 DEF Output

LEMMA InitTracks == ASSUME Init PROVE Tracks
<1>0. Types /\ Flow
  BY InitTypes, InitFlow
<1>1. at \in [Streams -> Nat \X (0..Len(Media))] /\ late \in [Streams -> BOOLEAN]
  BY FileTyping DEF Init
<1> SUFFICES ASSUME NEW s \in Streams PROVE Track(s)
  BY <1>1 DEF Tracks
<1>2. /\ q[s].serial = 1 /\ Len(q[s].pkts) = 1 /\ q[s].pkts[1].pkt = FlushPacket
      /\ dec[s].pc = "decode" /\ dec[s].pkt_serial = 0 /\ dec[s].codec = <<>>
      /\ frames[s] = <<>> /\ out[s] = "idle" /\ at[s][1] = 1 /\ at[s][2] = 0
      /\ rd.pos = 1 /\ rd.pc = "top" /\ Len(from) = 1 /\ from[1] = 1
  <2>1. q[s].serial = 1 /\ Len(q[s].pkts) = 1 /\ q[s].pkts[1].pkt = FlushPacket
    BY InitQueues
  <2>2. at[s] = <<1, 0>> /\ frames[s] = <<>> /\ out[s] = "idle" /\ from = <<1>>
    BY DEF Init
  <2>3. dec[s].pc = "decode" /\ dec[s].pkt_serial = 0 /\ dec[s].codec = <<>>
    BY DEF Init
  <2>4. rd.pos = 1 /\ rd.pc = "top"
    BY DEF Init
  <2> QED BY <2>1, <2>2, <2>3, <2>4
<1>3. Len(frames[s]) = 0 /\ Len(dec[s].codec) = 0
  BY <1>2, EmptySeq
<1>4. \A n, k : ~InFrames(frames[s], n, k) /\ ~InCodec(dec[s], n, k) /\ ~InHand(dec[s], n, k)
  BY <1>2, <1>3 DEF InFrames, InCodec, InHand
<1>5. \A k : ~InQueue(q[s], k)
  BY <1>2 DEF InQueue, IsData
<1>6. \A k : ~Held(q[s], dec[s], frames[s], k)
  BY <1>4, <1>5 DEF Held
<1>7. InOrder(q[s], dec[s], frames[s])
  <2>1. SortedFrames(frames[s], q[s].serial) /\ SortedCodec(dec[s])
    BY <1>3 DEF SortedFrames, SortedCodec
  <2>2. SortedQueue(q[s])
    BY <1>2 DEF SortedQueue
  <2>3. Apart(q[s], dec[s], frames[s])
    BY <1>4 DEF Apart
  <2> QED BY <2>1, <2>2, <2>3 DEF InOrder
<1>8. Onward(s, q[s].serial) = 1
  BY <1>2 DEF Onward
<1>9. Gapless(s, q[s], dec[s], frames[s], 1)
  BY <1>6 DEF Gapless
<1>10. UpTo(s, q[s], dec[s], frames[s], 1, rd.pos)
  BY <1>2, <1>6, FileTyping DEF UpTo, Rest
<1>11. Content(s)
  BY <1>7, <1>8, <1>9, <1>10 DEF Content
<1>12. Joined(s)
  BY <1>2 DEF Joined, Joining
<1>13. Serials(s)
  BY <1>2, <1>3, FileTyping DEF Serials
<1>14. DueNext(s)
  BY <1>2 DEF DueNext
<1> QED BY <1>11, <1>12, <1>13, <1>14 DEF Track

LEMMA TracksStep == ASSUME Types, Types', Flow, Tracks, [Next]_vars PROVE Tracks'
<1>1. CASE Application \/ UNCHANGED vars
  <2>1. UNCHANGED <<rd, q, dec, frames, out, from, at, late>>
    BY <1>1 DEF Application, vars, history
  <2> SUFFICES ASSUME NEW s \in Streams PROVE Track(s)'
    BY <2>1 DEF Tracks
  <2>2. Track(s) /\ (Joining(s)' <=> Joining(s))
    BY <2>1 DEF Tracks, Joining
  <2> QED BY <2>1, <2>2, AsideTrack
<1>2. CASE ReadThread
  <2>1. CASE \E s \in Streams : \/ ReadFlush(s) \/ ReadFlushed(s)
                                \/ ReadDiscontinuity(s) \/ ReadNull(s)
    BY <2>1, ReadFlushTracks, ReadFlushedTracks, ReadDiscontinuityTracks, ReadNullTracks
  <2>2. CASE ReadSeek \/ ReadPacket \/ ReadStore
    BY <2>2, ReadSeekTracks, ReadPacketTracks, ReadStoreTracks
  <2>3. CASE \/ ReadTop \/ ReadSought \/ ReadRebuffer \/ ReadRoom \/ ReadOver
             \/ ReadComplete \/ ReadCheck \/ ReadEnd \/ ReadBroken \/ ReadEof
             \/ \E s \in Streams : ReadDrained(s)
    BY <2>3, IdlingTracks DEF Idling
  <2> QED BY <1>2, <2>1, <2>2, <2>3 DEF ReadThread
<1>3. CASE \E s \in Streams : Decoder(s)
  BY <1>3, DecodingTracks
<1>4. CASE \E s \in Streams : Output(s)
  BY <1>4, OutputTracks
<1> QED BY <1>1, <1>2, <1>3, <1>4 DEF Next

--------------------------------------------------------------------------------
(* What the end of the stream is announced on. *)

Finished(s) == dec[s].finished = q[s].serial
Done(s) == Finished(s) /\ frames[s] = <<>>

\* The streams that the read thread has found drained stay so.
AtTheEnd ==
  /\ rd.pc = "drained2" => \A s \in Streams : AudioFirst(s) => Finished(s)
  /\ rd.pc \in {"drained1", "drained2", "over", "complete"} =>
       \A s \in Streams \ rd.todo : Done(s)
  /\ rd.pc \in {"over", "complete"} => rd.todo = {}

Flags ==
  /\ ended # "no" => rd.completed
  /\ rd.pc = "complete" => rd.completed /\ ended = "no"
  /\ rd.broken /\ rd.pc \notin {"null", "eof"} => rd.error

\* A decoder that has finished has no frame left to push, and no flush packet to act on.
LEMMA DecoderKeeps ==
  ASSUME Types, Flow, NEW s \in Streams, Decoder(s), NEW r \in Streams, Finished(r)
  PROVE  Finished(r)' /\ (Done(r) => Done(r)')
<1>1. /\ Decodes(q[s], dec[s]) /\ dec[s].pkt_serial <= q[s].serial
      /\ dec[s].pkt_serial \in Nat /\ q[s].serial \in Nat /\ dec[s].finished \in Nat
      /\ dec[s] \in Decoders /\ q[s] \in Queues
  BY StreamTypes, DecoderFields DEF Flowing
<1>2. CASE Receive(s)
  <2>1. UNCHANGED <<q, frames>>
    BY <1>2 DEF Receive
  <2>2. CASE \E pc \in {"push", "get"} : dec' = [dec EXCEPT ![s].pc = pc]
    <3>1. dec'[r].finished = dec[r].finished
      BY <2>2, StreamTypes DEF Types, Decoders
    <3> QED BY <2>1, <3>1 DEF Finished, Done
  <2>3. CASE /\ dec' = [dec EXCEPT ![s].finished = dec[s].pkt_serial, ![s].draining = FALSE]
             /\ dec[s].pkt_serial = q[s].serial
    <3>1. CASE r = s
      <4>1. dec'[r].finished = q[s].serial
        BY <2>3, <3>1, StreamTypes DEF Types, Decoders
      <4> QED BY <2>1, <3>1, <4>1 DEF Finished, Done
    <3>2. CASE r # s
      <4>1. dec'[r] = dec[r]
        BY <2>3, <3>2 DEF Types
      <4> QED BY <2>1, <4>1 DEF Finished, Done
    <3> QED BY <3>1, <3>2
  <2> QED BY <1>2, <2>2, <2>3 DEF Receive
<1>3. CASE Push(s)
  <2>1. r # s
    <3>1. dec[s].codec # <<>>
      BY <1>3, PushFacts
    <3> QED BY <1>1, <3>1 DEF Decodes, Finished
  <2>2. q'[r] = q[r] /\ dec'[r] = dec[r] /\ frames'[r] = frames[r]
    BY <1>3, <2>1 DEF Push, Types
  <2> QED BY <2>2 DEF Finished, Done
<1>4. CASE Dequeue(s)
  <2>1. q'[r].serial = q[r].serial /\ dec'[r].finished = dec[r].finished /\ frames' = frames
    BY <1>4, StreamTypes DEF Dequeue, Types, Queues, Decoders
  <2> QED BY <2>1 DEF Finished, Done
<1>5. CASE Starve(s) \/ StartBuffering(s)
  <2> PICK pc \in {"wait", "starved"} : dec' = [dec EXCEPT ![s].pc = pc]
    BY <1>5 DEF Starve, StartBuffering
  <2>1. dec'[r].finished = dec[r].finished /\ UNCHANGED <<q, frames>>
    BY <1>5, StreamTypes DEF Types, Decoders, Starve, StartBuffering
  <2> QED BY <2>1 DEF Finished, Done
<1>6. CASE Send(s)
  <2>1. UNCHANGED <<q, frames>> /\ dec[s].pc = "got"
    BY <1>6 DEF Send
  <2>2. CASE r # s
    <3>1. dec'[r] = dec[r]
      BY <1>6, <2>2 DEF Send, Types
    <3> QED BY <2>1, <3>1 DEF Finished, Done
  <2>3. CASE r = s
    <3>1. ~(dec[s].pkt = FlushPacket /\ dec[s].pkt_serial = q[s].serial)
      BY <1>1, <2>1, <2>3 DEF Decodes, Fresh, Finished
    <3>2. dec'[s].finished = dec[s].finished
      <4>1. dec'[s] = IF dec[s].pkt_serial # q[s].serial THEN [dec[s] EXCEPT !.pc = "get"]
                      ELSE IF dec[s].pkt = EndPacket
                      THEN [dec[s] EXCEPT !.pc = "decode", !.draining = TRUE]
                      ELSE [dec[s] EXCEPT !.pc = "decode",
                                          !.codec = Append(@, dec[s].pkt)]
        BY <1>6, <3>1 DEF Send, Types
      <4> QED BY <1>1, <4>1 DEF Decoders
    <3> QED BY <2>1, <2>3, <3>2 DEF Finished, Done
  <2> QED BY <2>2, <2>3
<1> QED BY <1>2, <1>3, <1>4, <1>5, <1>6 DEF Decoder

LEMMA OutputKeeps ==
  ASSUME Types, Flow, NEW s \in Streams, Output(s), NEW r \in Streams
  PROVE  (Finished(r) => Finished(r)') /\ (Done(r) => Done(r)')
<1>1. UNCHANGED <<q, dec>>
  BY DEF Output
<1>2. UNCHANGED frames \/ (frames[s] # <<>> /\ Take(s))
  BY DEF Output, VideoSkip, VideoDue, VideoShow, VideoStep, AudioAsk, AudioTake, Types
<1>3. CASE UNCHANGED frames
  BY <1>1, <1>3 DEF Finished, Done
<1>4. CASE frames[s] # <<>> /\ Take(s)
  <2>1. r # s => frames'[r] = frames[r]
    BY <1>4, TakesFrame DEF Take, Types
  <2> QED BY <1>1, <1>4, <2>1 DEF Finished, Done
<1> QED BY <1>2, <1>3, <1>4

LEMMA OthersAnnounce ==
  ASSUME Types, Flow, AtTheEnd, Flags,
         \/ Application \/ UNCHANGED vars \/ \E s \in Streams : Decoder(s) \/ Output(s)
  PROVE  AtTheEnd' /\ Flags'
<1>1. UNCHANGED <<rd, ended>>
  BY DEF Application, vars, Decoder, Output, history
<1>2. ASSUME NEW r \in Streams PROVE (Finished(r) => Finished(r)') /\ (Done(r) => Done(r)')
  <2>1. CASE Application \/ UNCHANGED vars
    BY <2>1 DEF Application, vars, Finished, Done
  <2>2. CASE \E s \in Streams : Decoder(s)
    BY <2>2, DecoderKeeps DEF Done
  <2>3. CASE \E s \in Streams : Output(s)
    BY <2>3, OutputKeeps
  <2> QED BY <2>1, <2>2, <2>3
<1>3. AtTheEnd'
  BY <1>1, <1>2 DEF AtTheEnd, AudioFirst
<1>4. Flags'
  BY <1>1 DEF Flags
<1> QED BY <1>3, <1>4

LEMMA KeepsFlags ==
  ASSUME Flags, ended' = ended, rd'.completed = rd.completed, rd'.broken = rd.broken,
         rd'.error = rd.error, rd'.pc # "complete",
         rd.pc \in {"null", "eof"} => rd'.pc \in {"null", "eof"}
  PROVE  Flags'
BY DEF Flags

LEMMA GotoFlags ==
  ASSUME Types, NEW pc, Goto(pc)
  PROVE  /\ rd'.pc = pc /\ rd'.completed = rd.completed /\ rd'.broken = rd.broken
         /\ rd'.error = rd.error /\ rd'.todo = rd.todo
BY DEF Types, Readers, Goto

LEMMA AfterFlags ==
  ASSUME Types, NEW s, NEW again, NEW next, After(s, again, next)
  PROVE  /\ rd'.pc = IF rd.todo = {s} THEN next ELSE again
         /\ rd'.completed = rd.completed /\ rd'.broken = rd.broken
         /\ rd'.error = rd.error /\ rd'.todo = rd.todo \ {s}
BY DEF Types, After, Readers

LEMMA ReadThreadFlags == ASSUME Types, Flags, ReadThread PROVE Flags'
<1> rd \in Readers
  BY ReaderFields
<1>1. CASE ReadTop \/ ReadRebuffer \/ ReadCheck
  <2>1. \E pc \in {"seek", "room", "top"} : Goto(pc)
    BY <1>1 DEF ReadTop, ReadRebuffer, ReadCheck
  <2>2. rd.pc \notin {"null", "eof"} /\ ended' = ended
    BY <1>1 DEF ReadTop, ReadRebuffer, ReadCheck, history
  <2> QED BY <2>1, <2>2, GotoFlags, KeepsFlags
<1>2. CASE ReadSeek \/ ReadPacket \/ ReadStore \/ ReadRoom
  <2>1. rd.pc \notin {"null", "eof"} /\ ended' = ended
    BY <1>2 DEF ReadSeek, ReadPacket, ReadStore, ReadRoom, history
  <2>2. /\ rd'.completed = rd.completed /\ rd'.broken = rd.broken /\ rd'.error = rd.error
        /\ rd'.pc # "complete"
    BY <1>2 DEF ReadSeek, ReadPacket, ReadStore, ReadRoom, Goto, Readers
  <2> QED BY <2>1, <2>2, KeepsFlags
<1>3. CASE ReadSought
  BY <1>3 DEF ReadSought, Flags, Readers
<1>4. CASE ReadOver
  <2>1. CASE Goto("top") \/ rd' = [rd EXCEPT !.pc = "read", !.loop = @ - 1]
    <3>1. /\ rd'.completed = rd.completed /\ rd'.broken = rd.broken /\ rd'.error = rd.error
          /\ rd'.pc \in {"top", "read"}
      BY <2>1 DEF Goto, Readers
    <3> QED BY <1>4, <3>1, KeepsFlags DEF ReadOver, history
  <2>2. CASE ~rd.completed /\ rd' = [rd EXCEPT !.pc = "complete", !.completed = TRUE]
    <3>1. /\ rd'.completed /\ rd'.broken = rd.broken /\ rd'.error = rd.error
          /\ rd'.pc = "complete"
      BY <2>2 DEF Readers
    <3> QED BY <1>4, <2>2, <3>1 DEF ReadOver, history, Flags
  <2> QED BY <1>4, <2>1, <2>2 DEF ReadOver
<1>5. CASE ReadComplete
  BY <1>5, GotoFlags DEF ReadComplete, Flags
<1>6. CASE ReadEnd
  <2>1. /\ rd'.completed = rd.completed /\ rd'.broken = rd.broken /\ rd'.error = rd.error
        /\ rd'.pc \in {"null", "eof"}
    BY <1>6 DEF ReadEnd, Goto, Readers
  <2> QED BY <1>6, <2>1, KeepsFlags DEF ReadEnd, history
<1>7. CASE ReadBroken
  <2>1. rd'.completed = rd.completed /\ rd'.pc = "null"
    BY <1>7 DEF ReadBroken, Readers
  <2> QED BY <1>7, <2>1 DEF ReadBroken, history, Flags
<1>8. CASE ReadEof
  <2>1. /\ rd'.completed = rd.completed /\ rd'.pc = "top" /\ rd'.broken = rd.broken
        /\ rd'.error = rd.broken
    BY <1>8 DEF ReadEof, Readers
  <2> QED BY <1>8, <2>1 DEF ReadEof, history, Flags
<1>9. CASE \E s \in Streams : \/ ReadFlush(s) \/ ReadFlushed(s) \/ ReadDrained(s)
                              \/ ReadDiscontinuity(s)
  <2> PICK s \in Streams : \/ ReadFlush(s) \/ ReadFlushed(s) \/ ReadDrained(s)
                           \/ ReadDiscontinuity(s)
    BY <1>9
  <2>1. \/ \E pc \in {"flushed", "drained2", "read"} : Goto(pc)
        \/ \E again \in {"flush", "drained1", "discontinuity"} :
             \E next \in {"sought", "over", "store"} : After(s, again, next)
    BY DEF ReadFlush, ReadFlushed, ReadDrained, ReadDiscontinuity
  <2>2. rd.pc \notin {"null", "eof"} /\ ended' = ended
    BY DEF ReadFlush, ReadFlushed, ReadDrained, ReadDiscontinuity, history
  <2> QED BY <2>1, <2>2, GotoFlags, AfterFlags, KeepsFlags
<1>10. CASE \E s \in Streams : ReadNull(s)
  <2> PICK s \in Streams : ReadNull(s)
    BY <1>10
  <2>1. After(s, "null", "eof") /\ ended' = ended
    BY DEF ReadNull, history
  <2> QED BY <2>1, AfterFlags, KeepsFlags
<1> QED BY <1>1, <1>2, <1>3, <1>4, <1>5, <1>6, <1>7, <1>8, <1>9, <1>10 DEF ReadThread

LEMMA ReadThreadEnd == ASSUME Types, AtTheEnd, ReadThread PROVE AtTheEnd'
<1> rd \in Readers
  BY ReaderFields
<1> DEFINE near == {"drained1", "drained2", "over", "complete"}
<1>0. rd'.pc \notin near => AtTheEnd'
  BY DEF AtTheEnd
<1>1. CASE ReadTop \/ ReadRebuffer \/ ReadCheck \/ ReadComplete
  <2>1. \E pc \in {"seek", "room", "top", "read"} : Goto(pc)
    BY <1>1 DEF ReadTop, ReadRebuffer, ReadCheck, ReadComplete
  <2> QED BY <1>0, <2>1, GotoFlags
<1>2. CASE ReadSeek \/ ReadPacket \/ ReadStore \/ ReadSought \/ ReadEnd \/ ReadBroken \/ ReadEof
  <2>1. rd'.pc \notin near
    BY <1>2 DEF ReadSeek, ReadPacket, ReadStore, ReadSought, ReadEnd, ReadBroken, ReadEof,
                Goto, Readers
  <2> QED BY <1>0, <2>1
<1>3. CASE ReadRoom
  <2>1. CASE \E pc \in {"top", "read"} : Goto(pc)
    BY <1>0, <2>1, GotoFlags
  <2>2. CASE rd' = [rd EXCEPT !.pc = "drained1", !.todo = Streams]
    <3>1. rd'.pc = "drained1" /\ rd'.todo = Streams
      BY <2>2 DEF Readers
    <3> QED BY <3>1 DEF AtTheEnd
  <2> QED BY <1>3, <2>1, <2>2 DEF ReadRoom
<1>4. CASE ReadOver
  <2>0. rd.pc = "over" /\ UNCHANGED <<q, dec, frames>>
    BY <1>4 DEF ReadOver
  <2>1. rd'.todo = rd.todo /\ (rd'.pc \in near => rd'.pc = "complete")
    BY <1>4 DEF ReadOver, Goto, Readers
  <2>2. \A s : Done(s)' <=> Done(s)
    BY <2>0 DEF Done, Finished
  <2> QED BY <1>0, <2>0, <2>1, <2>2 DEF AtTheEnd
<1>5. CASE \E s \in Streams : ReadFlush(s) \/ ReadFlushed(s) \/ ReadDiscontinuity(s) \/ ReadNull(s)
  <2> PICK s \in Streams : ReadFlush(s) \/ ReadFlushed(s) \/ ReadDiscontinuity(s) \/ ReadNull(s)
    BY <1>5
  <2>1. \/ Goto("flushed")
        \/ \E again \in {"flush", "discontinuity", "null"} :
             \E next \in {"sought", "store", "eof"} : After(s, again, next)
    BY DEF ReadFlush, ReadFlushed, ReadDiscontinuity, ReadNull
  <2> QED BY <1>0, <2>1, GotoFlags, AfterFlags
<1>6. CASE \E s \in Streams : ReadDrained(s)
  <2> PICK s \in Streams : ReadDrained(s)
    BY <1>6
  <2>0. AudioFirst(s) /\ UNCHANGED <<q, dec, frames>> /\ s \in rd.todo
    BY DEF ReadDrained, AudioFirst
  <2>1. \A r : (Done(r)' <=> Done(r)) /\ (Finished(r)' <=> Finished(r))
    BY <2>0 DEF Done, Finished
  <2>2. CASE rd.pc = "drained1"
    <3>1. CASE Finished(s)
      <4>1. Goto("drained2")
        BY <2>2, <3>1 DEF ReadDrained, Drained, Finished
      <4>2. rd'.pc = "drained2" /\ rd'.todo = rd.todo
        BY <4>1, GotoFlags
      <4>3. ASSUME NEW r \in Streams, AudioFirst(r)' PROVE Finished(r)'
        <5>1. AudioFirst(r)
          BY <4>2, <4>3 DEF AudioFirst
        <5>2. r = s
          BY <2>0, <5>1, OneFirst
        <5> QED BY <2>1, <3>1, <5>2
      <4> QED BY <2>1, <2>2, <4>2, <4>3 DEF AtTheEnd
    <3>2. CASE ~Finished(s)
      <4>1. Goto("read")
        BY <2>2, <3>2 DEF ReadDrained, Drained, Finished
      <4> QED BY <1>0, <4>1, GotoFlags
    <3> QED BY <3>1, <3>2
  <2>3. CASE rd.pc = "drained2"
    <3>1. CASE frames[s] = <<>>
      <4>1. After(s, "drained1", "over")
        BY <2>3, <3>1 DEF ReadDrained, Drained
      <4>2. /\ rd'.pc = IF rd.todo = {s} THEN "over" ELSE "drained1"
            /\ rd'.todo = rd.todo \ {s}
        BY <4>1, AfterFlags
      <4>3. Done(s)
        BY <2>0, <2>3, <3>1 DEF AtTheEnd, Done
      <4>4. \A r \in Streams \ rd'.todo : Done(r)'
        BY <2>1, <2>3, <4>2, <4>3 DEF AtTheEnd
      <4> QED BY <4>2, <4>4 DEF AtTheEnd
    <3>2. CASE frames[s] # <<>>
      <4>1. Goto("read")
        BY <2>3, <3>2 DEF ReadDrained, Drained
      <4> QED BY <1>0, <4>1, GotoFlags
    <3> QED BY <3>1, <3>2
  <2> QED BY <2>2, <2>3 DEF ReadDrained
<1> QED BY <1>1, <1>2, <1>3, <1>4, <1>5, <1>6 DEF ReadThread

LEMMA InitAnnounced == ASSUME Init PROVE AtTheEnd /\ Flags
BY DEF Init, AtTheEnd, Flags

LEMMA AnnouncedStep ==
  ASSUME Types, Flow, AtTheEnd, Flags, [Next]_vars PROVE AtTheEnd' /\ Flags'
BY OthersAnnounce, ReadThreadFlags, ReadThreadEnd DEF Next

--------------------------------------------------------------------------------
(* Every step is one the watcher was promised. *)

\* The generation each stream has joined.
Current == [s \in Streams |-> q[s].serial]

Watched == Types /\ Flow /\ Tracks /\ AtTheEnd /\ Flags

LEMMA LeftIsOnward ==
  \A s, g : Promise!Left(s, g) = Rest(s, Onward(s, g))
BY DEF Promise!Left, Promise!Rest, Rest, Onward

LEMMA Unseen ==
  ASSUME UNCHANGED <<from, at, late, ended>>, \A s \in Streams : q'[s].serial = q[s].serial
  PROVE  UNCHANGED Promise!playbackVars
<1>1. Current' = Current
  BY DEF Current
<1> QED BY <1>1 DEF Promise!playbackVars, Current

LEMMA InitPromised == ASSUME Init PROVE Promise!PlaybackInit
<1>1. \A s \in Streams : q[s].serial = 1
  BY InitQueues
<1>2. from = <<1>> /\ at = [s \in Streams |-> <<1, 0>>] /\ late = [s \in Streams |-> FALSE]
      /\ ended = "no"
  BY DEF Init
<1> QED BY <1>1, <1>2 DEF Promise!PlaybackInit

\* The flush packet that a seek or a discontinuity puts in a queue.
LEMMA FlushJoins ==
  ASSUME Watched, NEW s \in Streams, ReadFlushed(s) \/ ReadDiscontinuity(s)
  PROVE  Promise!Join(s)
<1>0. Types /\ Flow /\ Tracks
  BY DEF Watched
<1>1. /\ PutFlush(s) /\ UNCHANGED <<from, at, ended>> /\ Joining(s)
  BY DEF ReadFlushed, ReadDiscontinuity, Joining, AudioFirst
<1>2. Len(from) = q[s].serial + 1 /\ q[s].serial \in Nat
  BY <1>0, <1>1, TrackFacts, StreamTypes DEF Joined
<1>3. /\ q'[s].serial = q[s].serial + 1
      /\ \A r \in Streams : r # s => q'[r].serial = q[r].serial
  <2> DEFINE new == PacketPut(q[s], FlushPacket)
  <2>1. new.serial = q[s].serial + 1
    BY <1>0, StreamTypes, PutFacts, PacketsTyping
  <2> HIDE DEF new
  <2>2. q' = [q EXCEPT ![s] = new]
    BY <1>1 DEF PutFlush, new
  <2> QED BY <1>0, <2>1, <2>2 DEF Types
<1>4. Current' = [Current EXCEPT ![s] = @ + 1] /\ Current[s] < Len(from)
  <2>1. Current[s] = q[s].serial
    BY DEF Current
  <2>2. \A r \in Streams : q'[r].serial = IF r = s THEN Current[s] + 1 ELSE q[r].serial
    BY <1>3, <2>1
  <2>3. Current' = [Current EXCEPT ![s] = @ + 1]
    BY <2>2 DEF Current
  <2> QED BY <1>2, <2>1, <2>3
<1>5. late' = [late EXCEPT ![s] = FALSE]
  BY <1>1 DEF PutFlush
<1> QED BY <1>1, <1>4, <1>5 DEF Promise!Join, Current

LEMMA SeekBegins ==
  ASSUME Watched, ReadSeek \/ ReadPacket
  PROVE  Promise!NewGeneration \/ UNCHANGED Promise!playbackVars
<1>0. Types
  BY DEF Watched
<1>1. UNCHANGED <<q, at, late, ended>>
  BY DEF ReadSeek, ReadPacket
<1>2. CASE UNCHANGED from
  BY <1>1, <1>2, Unseen
<1>3. CASE \E p \in Positions : from' = Append(from, p)
  <2>1. Current' = Current
    BY <1>1 DEF Current
  <2>2. Promise!NewGeneration
    BY <1>1, <1>3, <2>1 DEF Promise!NewGeneration, Promise!Positions, Positions, Current
  <2> QED BY <2>2
<1>4. UNCHANGED from \/ \E p \in Positions : from' = Append(from, p)
  BY <1>0, SeekPosition, ReaderFields DEF ReadSeek, ReadPacket
<1> QED BY <1>2, <1>3, <1>4

\* A frame that goes on where the stream was left, or begins its generation.
LEMMA RenderPresents ==
  ASSUME Watched, NEW s \in Streams, Len(frames[s]) > 0, Head(frames[s]) = frames[s][1],
         Render(s), UNCHANGED <<q, from, ended>>,
         IsFirst(frames[s][1].pos, Rest(s, Onward(s, frames[s][1].serial))),
         frames[s][1].serial # q[s].serial => ~late[s]
  PROVE  \E g \in at[s][1]..Current[s] : Promise!Present(s, g)
<1> DEFINE f == frames[s][1]
<1>0. Types /\ Flow /\ Tracks
  BY DEF Watched
<1>1. /\ f \in Pictures /\ at[s][1] <= f.serial /\ f.serial <= dec[s].pkt_serial
      /\ at[s][1] \in Nat
  <2>1. 1 \in 1..Len(frames[s]) /\ f \in Pictures
    BY <1>0, StreamTypes, FirstPicture
  <2> QED BY <1>0, <2>1, TrackFacts DEF Serials
<1>2. f.pos \in 1..Len(Media) /\ f.serial \in Nat
  BY <1>1 DEF Pictures
<1>3. f.serial \in at[s][1]..Current[s]
  BY <1>0, <1>1, <1>2, StreamTypes DEF Current
<1>4. /\ at' = [at EXCEPT ![s] = <<f.serial, f.pos>>]
      /\ late' = [late EXCEPT ![s] = @ \/ f.serial # q[s].serial]
  BY DEF Render
<1>5. late \in [Streams -> BOOLEAN] /\ Current' = Current
  BY <1>0 DEF Tracks, Current
<1> HIDE DEF f
<1>6. \/ f.serial = Current[s] /\ UNCHANGED late
      \/ ~late[s] /\ late' = [late EXCEPT ![s] = TRUE]
  <2>1. CASE f.serial = q[s].serial
    <3>1. late' = late
      BY <1>4, <1>5, <2>1
    <3> QED BY <2>1, <3>1 DEF Current
  <2>2. CASE f.serial # q[s].serial
    <3>1. ~late[s]
      BY <2>2 DEF f
    <3>2. late' = [late EXCEPT ![s] = TRUE]
      BY <1>4, <2>2
    <3> QED BY <3>1, <3>2
  <2> QED BY <2>1, <2>2
<1>7. Promise!IsFirst(f.pos, Promise!Left(s, f.serial))
  BY LeftIsOnward DEF Promise!IsFirst, IsFirst, f
<1>8. Promise!Present(s, f.serial)
  BY <1>2, <1>4, <1>5, <1>6, <1>7 DEF Promise!Present, Current
<1> QED BY <1>3, <1>8

LEMMA OutputPromised ==
  ASSUME Watched, NEW s \in Streams, Output(s)
  PROVE  \/ \E g \in at[s][1]..Current[s] : Promise!Present(s, g)
         \/ UNCHANGED Promise!playbackVars
<1>0. Types /\ Flow /\ Tracks /\ UNCHANGED <<q, from, ended>>
  BY DEF Watched, Output
<1>1. CASE UNCHANGED <<at, late>>
  BY <1>0, <1>1, Unseen
<1>2. CASE s = "video" /\ VideoShow
  <2>1. out[s] = "due" /\ Render(s)
    BY <1>2 DEF VideoShow
  <2>2. Len(frames[s]) > 0 /\ frames[s] \in Seq(Pictures)
    BY <1>0, <2>1, StreamTypes
  <2>3. Head(frames[s]) = frames[s][1]
    BY <2>2
  <2>4. DueNext(s)
    BY <1>0, TrackFacts
  <2> QED BY <1>0, <2>1, <2>2, <2>3, <2>4, RenderPresents DEF DueNext
<1>3. CASE s = "audio" /\ AudioTake /\ ~Stale("audio")
  <2>1. Render(s) /\ ~Stale(s) /\ frames[s] # <<>>
    BY <1>3 DEF AudioTake
  <2>2. frames[s] \in Seq(Pictures)
    BY <1>0, StreamTypes
  <2>3. Head(frames[s]) = frames[s][1] /\ Len(frames[s]) > 0
    BY <2>1, <2>2, TailFacts
  <2>4. frames[s][1].serial = q[s].serial
    BY <2>1, <2>3 DEF Stale
  <2>5. IsFirst(frames[s][1].pos, Rest(s, Onward(s, frames[s][1].serial)))
    BY <1>0, <2>3, <2>4, HeadFirst
  <2> QED BY <1>0, <2>1, <2>3, <2>4, <2>5, RenderPresents
<1>4. UNCHANGED <<at, late>> \/ (s = "video" /\ VideoShow)
      \/ (s = "audio" /\ AudioTake /\ ~Stale("audio"))
  BY DEF Output, VideoSkip, VideoDue, VideoStep, AudioAsk, AudioTake
<1> QED BY <1>1, <1>2, <1>3, <1>4

\* A stream that is done has nothing left to present of a file that is read to its end.
LEMMA DoneLeavesNothing ==
  ASSUME Watched, NEW s \in Streams, Done(s), ~Joining(s), ~rd.broken
  PROVE  Len(from) = q[s].serial /\ Promise!Left(s, q[s].serial) = {}
<1>0. Types /\ Flow /\ Tracks
  BY DEF Watched
<1> DEFINE p == Onward(s, q[s].serial)
<1>1. /\ Decodes(q[s], dec[s]) /\ dec[s] \in Decoders /\ q[s] \in Queues
      /\ dec[s].pkt_serial <= q[s].serial /\ dec[s].pkt_serial \in Nat
      /\ q[s].serial \in Nat /\ dec[s].finished \in Nat /\ Stream(s)
  BY <1>0, StreamTypes, DecoderFields DEF Flowing, Flow
<1>2. dec[s].finished = q[s].serial /\ Len(frames[s]) = 0 /\ dec[s].codec = <<>>
  BY <1>1, EmptySeq DEF Done, Finished, Decodes
<1>3. dec[s].pkt_serial = q[s].serial /\ ~Fresh(dec[s])
  BY <1>1, <1>2 DEF Decodes
<1>4. MetEnd(dec[s], q[s].serial)
  BY <1>2, <1>3 DEF MetEnd
<1>5. rd.pos > Len(Media)
  BY <1>1, <1>4 DEF Stream, Ended, Joining
<1>6. \A k : ~Held(q[s], dec[s], frames[s], k)
  <2>1. \A n, k : ~InFrames(frames[s], n, k)
    BY <1>2 DEF InFrames
  <2>2. \A n, k : ~InCodec(dec[s], n, k)
    BY <1>2, EmptySeq DEF InCodec
  <2>3. \A n, k : ~InHand(dec[s], n, k)
    BY <1>1, <1>4 DEF Decodes, InHand
  <2>4. \A k : ~InQueue(q[s], k)
    BY <1>1, <1>4 DEF Decodes, InQueue, IsData
  <2> QED BY <2>1, <2>2, <2>3, <2>4 DEF Held
<1>7. \A j \in Rest(s, p) : ~(j < rd.pos)
  BY <1>0, <1>6, TrackFacts DEF Content, UpTo
<1>8. Rest(s, p) = {}
  <2>1. p \in Nat
    <3>1. p = from[q[s].serial] \/ p = at[s][2] + 1
      BY DEF Onward
    <3> QED BY <1>0, <3>1, StreamTypes, TrackFacts DEF Serials
  <2>2. rd.pos \in Nat /\ Len(Media) \in Nat
    BY <1>0, ReaderFields, FileTyping
  <2> HIDE DEF p
  <2>3. \A j \in Rest(s, p) : j <= Len(Media) /\ j \in Nat
    BY <2>1, <2>2 DEF Rest
  <2>4. \A j \in Rest(s, p) : FALSE
    BY <1>5, <1>7, <2>2, <2>3
  <2> QED BY <2>4
<1> QED BY <1>0, <1>8, LeftIsOnward, TrackFacts DEF Joined

LEMMA CompletePromised ==
  ASSUME Watched, ReadComplete PROVE Promise!Complete \/ Promise!Fail
<1>0. /\ rd.pc = "complete" /\ ended = "no" /\ UNCHANGED <<q, from, at, late>>
      /\ ended' = IF rd.error THEN "error" ELSE "completed"
      /\ rd.broken => rd.error
      /\ \A s \in Streams : Done(s) /\ ~Joining(s)
  BY DEF Watched, ReadComplete, Flags, AtTheEnd, Joining
<1>1. Current' = Current
  BY <1>0 DEF Current
<1>2. CASE rd.error
  BY <1>0, <1>1, <1>2 DEF Promise!Fail, Current
<1>3. CASE ~rd.error
  <2>1. \A s \in Streams : Current[s] = Len(from) /\ Promise!Left(s, Current[s]) = {}
    BY <1>0, <1>3, DoneLeavesNothing DEF Current
  <2> QED BY <1>0, <1>1, <1>3, <2>1 DEF Promise!Complete, Current
<1> QED BY <1>2, <1>3

\* No other step shows.
LEMMA OthersUnseen ==
  ASSUME Watched,
         \/ Application \/ UNCHANGED vars \/ \E s \in Streams : Decoder(s)
         \/ ReadTop \/ ReadRebuffer \/ ReadRoom \/ ReadOver \/ ReadStore \/ ReadCheck
         \/ ReadEnd \/ ReadBroken \/ ReadEof
         \/ \E s \in Streams : ReadFlush(s) \/ ReadDrained(s) \/ ReadNull(s)
  PROVE  UNCHANGED Promise!playbackVars
<1>0. Types /\ Flow /\ q \in [Streams -> Queues]
  BY DEF Watched, Types
<1>1. UNCHANGED <<from, at, late, ended>>
  BY DEF Application, vars, Decoder, history, ReadTop, ReadRebuffer, ReadRoom, ReadOver,
     ReadStore, ReadCheck, ReadEnd, ReadBroken, ReadEof, ReadFlush, ReadDrained, ReadNull
<1>2. \A r \in Streams : q'[r].serial = q[r].serial
  <2>1. CASE UNCHANGED q
    BY <2>1
  <2>2. CASE ReadStore
    <3>a. rd.pos \in 1..Len(Media) /\ Media[rd.pos] \in Streams
      BY <1>0, <2>2, ReaderFields, FileTyping DEF ReadStore, Types, Positions
    <3>b. PICK s \in Streams : s = Media[rd.pos]
      BY <3>a
    <3> DEFINE new == PacketPut(q[s], rd.pos)
    <3>1. rd.pos \in 0..EndPacket /\ rd.pos # FlushPacket
      BY <3>a, FileTyping DEF EndPacket, FlushPacket
    <3>2. new.serial = q[s].serial
      BY <1>0, <3>1, StreamTypes, PutFacts
    <3>3. q' = [q EXCEPT ![s] = new]
      BY <2>2, <3>b DEF ReadStore
    <3> HIDE DEF new
    <3> QED BY <1>0, <3>2, <3>3
  <2>3. CASE \E s \in Streams : ReadFlush(s)
    <3> PICK s \in Streams : ReadFlush(s)
      BY <2>3
    <3> DEFINE new == PacketFlush(q[s])
    <3>1. new.serial = q[s].serial
      BY <1>0, StreamTypes, FlushFacts
    <3>2. q' = [q EXCEPT ![s] = new]
      BY DEF ReadFlush
    <3> HIDE DEF new
    <3> QED BY <1>0, <3>1, <3>2
  <2>4. CASE \E s \in Streams : ReadNull(s)
    <3> PICK s \in Streams : ReadNull(s)
      BY <2>4
    <3> DEFINE new  == PutEnd(q[s], rd.broken)
               once == PacketPut(q[s], EndPacket)
               twice == PacketPut(once, EndPacket)
    <3>1. once \in Queues /\ once.serial = q[s].serial
      BY <1>0, StreamTypes, PutFacts, PacketsTyping, EndNotFlush
    <3> HIDE DEF once
    <3>2. twice.serial = once.serial
      BY <3>1, PutFacts, PacketsTyping, EndNotFlush
    <3> HIDE DEF twice
    <3>3. new = once \/ new = twice
      BY DEF PutEnd, once, twice
    <3>4. q' = [q EXCEPT ![s] = new]
      BY DEF ReadNull
    <3> HIDE DEF new
    <3> QED BY <1>0, <3>1, <3>2, <3>3, <3>4
  <2>5. CASE \E s \in Streams : Decoder(s) /\ Dequeue(s)
    <3> PICK s \in Streams : Dequeue(s)
      BY <2>5
    <3> DEFINE new == [q[s] EXCEPT !.pkts = Tail(q[s].pkts)]
    <3>1. new.serial = q[s].serial /\ q' = [q EXCEPT ![s] = new]
      BY <1>0, DequeueFacts
    <3> HIDE DEF new
    <3> QED BY <1>0, <3>1
  <2>6. \/ UNCHANGED q \/ ReadStore
        \/ \E s \in Streams : ReadFlush(s) \/ ReadNull(s) \/ (Decoder(s) /\ Dequeue(s))
    BY DEF Application, vars, Decoder, Receive, Push, Starve, StartBuffering, Send, ReadTop,
       ReadRebuffer, ReadRoom, ReadOver, ReadCheck, ReadEnd, ReadBroken, ReadEof, ReadDrained
  <2> QED BY <2>1, <2>2, <2>3, <2>4, <2>5, <2>6
<1> QED BY <1>1, <1>2, Unseen

LEMMA StepPromised ==
  Watched /\ [Next]_vars => [Promise!PlaybackNext]_(Promise!playbackVars)
<1> SUFFICES ASSUME Watched, [Next]_vars
             PROVE  Promise!PlaybackNext \/ UNCHANGED Promise!playbackVars
  OBVIOUS
<1>1. CASE \/ Application \/ UNCHANGED vars \/ \E s \in Streams : Decoder(s)
           \/ ReadTop \/ ReadRebuffer \/ ReadRoom \/ ReadOver \/ ReadStore \/ ReadCheck
           \/ ReadEnd \/ ReadBroken \/ ReadEof
           \/ \E s \in Streams : ReadFlush(s) \/ ReadDrained(s) \/ ReadNull(s)
  BY <1>1, OthersUnseen
<1>2. CASE \E s \in Streams : ReadFlushed(s) \/ ReadDiscontinuity(s)
  BY <1>2, FlushJoins DEF Promise!PlaybackNext
<1>3. CASE ReadSeek \/ ReadPacket
  BY <1>3, SeekBegins DEF Promise!PlaybackNext
<1>4. CASE ReadSought
  <2>1. ended' = "no" /\ UNCHANGED <<q, from, at, late>> /\ Current' = Current
    BY <1>4 DEF ReadSought, Current
  <2>2. CASE ended = "no"
    BY <2>1, <2>2, Unseen
  <2>3. CASE ended # "no"
    BY <2>1, <2>3 DEF Promise!PlaybackNext, Promise!Resume, Current
  <2> QED BY <2>2, <2>3
<1>5. CASE ReadComplete
  BY <1>5, CompletePromised DEF Promise!PlaybackNext
<1>6. CASE \E s \in Streams : Output(s)
  BY <1>6, OutputPromised DEF Promise!PlaybackNext, Current
<1> QED BY <1>1, <1>2, <1>3, <1>4, <1>5, <1>6 DEF Next, ReadThread

--------------------------------------------------------------------------------
(* Why a stream stands still. *)

\* Neither the pictures nor the sound are held unless a pause was asked for or the
\* buffers are being filled.
HeldForAReason == is.paused \/ is.aout_paused => is.pause_req \/ is.buffering_on

\* A frame step is pending within a pause only: it would silence a stream that plays.
StepOnlyInPause == is.step => is.pause_req

Reasoned(i) == i.paused \/ i.aout_paused => i.pause_req \/ i.buffering_on

\* A start that waits for a seek to end a pause was asked for after the end, and no step
\* is left over there.
Restarts ==
  /\ is.auto_resume /\ is.pause_req => is.seek_req /\ rd.completed
  /\ rd.completed /\ rd.pc # "complete" => ~is.step

Pauses == Reasoned(is) /\ StepOnlyInPause /\ Restarts

LEMMA Updates ==
  ASSUME NEW i \in Controls
  PROVE  LET j == StreamUpdatePause(i)
         IN  /\ Reasoned(j) /\ j.step = i.step /\ j.pause_req = i.pause_req
             /\ j.auto_resume = i.auto_resume /\ j.seek_req = i.seek_req
             /\ j.buffering_on = i.buffering_on
BY DEF Controls, StreamUpdatePause, StreamTogglePause, Reasoned

LEMMA Toggles ==
  ASSUME NEW i \in Controls, NEW on \in BOOLEAN
  PROVE  LET j == TogglePause(i, on)
         IN  /\ Reasoned(j) /\ ~j.step /\ j.pause_req = on /\ j.auto_resume = ~on
             /\ j.seek_req = i.seek_req
<1> DEFINE a == [i EXCEPT !.pause_req = on, !.auto_resume = ~on]
           b == StreamUpdatePause(a)
<1>1. a \in Controls /\ a.pause_req = on /\ a.auto_resume = ~on /\ a.seek_req = i.seek_req
  BY DEF Controls
<1> HIDE DEF a
<1>2. /\ b \in Controls /\ Reasoned(b) /\ b.pause_req = on /\ b.auto_resume = ~on
      /\ b.seek_req = i.seek_req
  BY <1>1, Updates, UpdatingTyping
<1>3. TogglePause(i, on) = [b EXCEPT !.step = FALSE]
  BY DEF TogglePause, a
<1> HIDE DEF b
<1> QED BY <1>2, <1>3 DEF Controls, Reasoned

LEMMA Buffers ==
  ASSUME NEW i \in Controls, NEW on \in BOOLEAN, Reasoned(i)
  PROVE  LET j == ToggleBuffering(i, on)
         IN  /\ Reasoned(j) /\ j.step = i.step /\ j.pause_req = i.pause_req
             /\ j.auto_resume = i.auto_resume /\ j.seek_req = i.seek_req
<1> DEFINE a == [i EXCEPT !.buffering_on = on]
           b == StreamUpdatePause(a)
<1>1. /\ a \in Controls /\ a.step = i.step /\ a.pause_req = i.pause_req
      /\ a.auto_resume = i.auto_resume /\ a.seek_req = i.seek_req
  BY DEF Controls
<1> HIDE DEF a
<1>2. /\ Reasoned(b) /\ b.step = i.step /\ b.pause_req = i.pause_req
      /\ b.auto_resume = i.auto_resume /\ b.seek_req = i.seek_req
  BY <1>1, Updates
<1>3. ToggleBuffering(i, on) = b \/ ToggleBuffering(i, on) = i
  BY DEF ToggleBuffering, a
<1> HIDE DEF b
<1> QED BY <1>2, <1>3

\* What a seek does to the pause: the frame it asks for is one within a pause.
LEMMA Plays ==
  ASSUME NEW i \in Controls, Reasoned(i), i.step => i.pause_req,
         i.auto_resume /\ i.pause_req => ~i.step
  PROVE  LET j == SeekPlay(i)
         IN  Reasoned(j) /\ (j.step => j.pause_req) /\ ~(j.auto_resume /\ j.pause_req)
<1> DEFINE a == [i EXCEPT !.pause_req = FALSE, !.auto_resume = FALSE,
                          !.buffering_on = PacketBuffering \/ @]
           k == IF i.auto_resume THEN StreamUpdatePause(a) ELSE i
           b == [k EXCEPT !.step = TRUE]
<1>1. a \in Controls /\ ~a.pause_req /\ ~a.auto_resume /\ a.step = i.step
  BY PipelineAssumption DEF Controls
<1> HIDE DEF a
<1>2. /\ k \in Controls /\ Reasoned(k) /\ (k.step => k.pause_req) /\ ~k.auto_resume
  BY <1>1, Updates, UpdatingTyping DEF Controls
<1>3. SeekPlay(i) = IF ~k.pause_req THEN k
                    ELSE IF k.paused THEN StreamTogglePause(b, FALSE) ELSE b
  BY DEF SeekPlay, StepToNextFrame, a
<1> HIDE DEF k
<1> QED BY <1>2, <1>3 DEF Controls, StreamTogglePause, Reasoned

\* A step that leaves the pause alone, with the read thread where it was or not at the end.
LEMMA PausesKept ==
  ASSUME Pauses, Reasoned(is'), is'.step = is.step, is'.pause_req = is.pause_req,
         is'.auto_resume = is.auto_resume, is'.seek_req = is.seek_req,
         rd'.completed = rd.completed, rd.pc # "complete"
  PROVE  Pauses'
BY DEF Pauses, StepOnlyInPause, Restarts, Reasoned

LEMMA PausesStep ==
  ASSUME Types, Pauses, [Next]_vars PROVE Pauses'
<1>0. is \in Controls /\ rd \in Readers /\ Reasoned(is)
  BY DEF Types, Pauses
<1>a. ASSUME NEW on \in BOOLEAN, UNCHANGED rd, is' = TogglePause(is, on) PROVE Pauses'
  BY <1>0, <1>a, Toggles DEF Pauses, StepOnlyInPause, Restarts, Reasoned
<1>b. ASSUME UNCHANGED rd, Reasoned(is'), is'.step = is.step,
             is'.pause_req = is.pause_req, is'.auto_resume = is.auto_resume,
             is'.seek_req = is.seek_req \/ is'.seek_req
      PROVE  Pauses'
  BY <1>b DEF Pauses, StepOnlyInPause, Restarts, Reasoned
<1>1. CASE Application
  <2>1. CASE StartPlaying \/ PausePlaying
    BY <1>1, <1>a, <2>1 DEF Application, StartPlaying, PausePlaying
  <2>2. CASE SeekTo
    <3>1. PICK p \in SeekTargets : is' = StreamSeek(is, p)
      BY <2>2 DEF SeekTo
    <3>2. /\ is'.step = is.step /\ is'.pause_req = is.pause_req /\ is'.seek_req
          /\ is'.auto_resume = is.auto_resume /\ Reasoned(is')
      BY <1>0, <3>1 DEF StreamSeek, Controls, Reasoned
    <3> QED BY <1>1, <1>b, <3>2 DEF Application
  <2>3. CASE StartFrom
    <3> DEFINE a == [is EXCEPT !.auto_resume = TRUE]
               b == ToggleBuffering(a, TRUE)
    <3>1. a \in Controls /\ Reasoned(a) /\ a.step = is.step /\ a.pause_req = is.pause_req
      BY <1>0 DEF Controls, Reasoned
    <3> HIDE DEF a
    <3>2. /\ b \in Controls /\ Reasoned(b) /\ b.step = is.step /\ b.pause_req = is.pause_req
      BY <3>1, Buffers, BufferingTyping
    <3> HIDE DEF b
    <3>3. is' = StreamSeek(b, 1) /\ rd.completed /\ UNCHANGED rd
      BY <1>1, <2>3 DEF StartFrom, Application, a, b
    <3>4. /\ Reasoned(is') /\ is'.step = is.step /\ is'.pause_req = is.pause_req
          /\ is'.seek_req
      BY <3>2, <3>3 DEF StreamSeek, Controls, Reasoned
    <3> QED BY <3>3, <3>4 DEF Pauses, StepOnlyInPause, Restarts, Reasoned
  <2> QED BY <1>1, <2>1, <2>2, <2>3 DEF Application
<1>2. CASE ReadThread
  <2>1. CASE ReadSought
    <3> DEFINE a == [is EXCEPT !.seek_req = FALSE]
    <3>1. /\ a \in Controls /\ Reasoned(a) /\ (a.step => a.pause_req)
          /\ a.auto_resume /\ a.pause_req => ~a.step
      BY <1>0, <2>1 DEF Controls, Reasoned, Pauses, StepOnlyInPause, Restarts, ReadSought
    <3>2. is' = SeekPlay(a) /\ ~rd'.completed
      BY <1>0, <2>1 DEF ReadSought, Readers
    <3> HIDE DEF a
    <3>3. /\ Reasoned(is') /\ (is'.step => is'.pause_req)
          /\ ~(is'.auto_resume /\ is'.pause_req)
      BY <3>1, <3>2, Plays
    <3> QED BY <3>2, <3>3 DEF Pauses, StepOnlyInPause, Restarts, Reasoned
  <2>2. CASE ReadOver
    <3>1. CASE rd.loop > 1 /\ is' = StreamSeek(is, 1) /\ rd'.completed = rd.completed
      <4>1. /\ is'.step = is.step /\ is'.pause_req = is.pause_req /\ is'.seek_req
            /\ is'.auto_resume = is.auto_resume /\ Reasoned(is')
        BY <1>0, <3>1 DEF StreamSeek, Controls, Reasoned
      <4> QED BY <2>2, <3>1, <4>1 DEF Pauses, StepOnlyInPause, Restarts, Reasoned, ReadOver
    <3>2. CASE UNCHANGED is /\ rd'.completed = rd.completed
      BY <1>0, <2>2, <3>2, PausesKept DEF ReadOver
    <3>3. CASE /\ rd'.pc = "complete"
               /\ is' = ToggleBuffering([is EXCEPT !.auto_resume = FALSE], FALSE)
      <4> DEFINE a == [is EXCEPT !.auto_resume = FALSE]
      <4>1. /\ a \in Controls /\ Reasoned(a) /\ a.step = is.step /\ ~a.auto_resume
            /\ a.pause_req = is.pause_req
        BY <1>0 DEF Controls, Reasoned
      <4>2. is' = ToggleBuffering(a, FALSE)
        BY <3>3
      <4> HIDE DEF a
      <4>3. /\ Reasoned(is') /\ is'.step = is.step /\ ~is'.auto_resume
            /\ is'.pause_req = is.pause_req
        BY <4>1, <4>2, Buffers
      <4> QED BY <3>3, <4>3 DEF Pauses, StepOnlyInPause, Restarts, Reasoned
    <3> QED BY <1>0, <2>2, <3>1, <3>2, <3>3 DEF ReadOver, Goto, Readers
  <2>3. CASE ReadComplete
    <3>1. rd'.completed = rd.completed /\ is' = TogglePause(is, TRUE)
      BY <1>0, <2>3 DEF ReadComplete, Goto, Readers
    <3>2. Reasoned(is') /\ ~is'.step /\ is'.pause_req /\ ~is'.auto_resume
      BY <1>0, <3>1, Toggles
    <3> QED BY <3>2 DEF Pauses, StepOnlyInPause, Restarts, Reasoned
  <2>4. CASE \/ ReadTop \/ ReadRebuffer \/ ReadRoom \/ ReadCheck \/ ReadEnd \/ ReadBroken
             \/ ReadEof
    <3>1. rd'.completed = rd.completed /\ rd.pc # "complete"
      BY <1>0, <2>4 DEF ReadTop, ReadRebuffer, ReadRoom, ReadCheck, ReadEnd, ReadBroken,
         ReadEof, Goto, Readers
    <3>2. is' = is \/ \E on \in BOOLEAN : is' = ToggleBuffering(is, on)
      BY <2>4 DEF ReadTop, ReadRebuffer, ReadRoom, ReadCheck, ReadEnd, ReadBroken, ReadEof,
         CheckBuffering
    <3>3. /\ Reasoned(is') /\ is'.step = is.step /\ is'.pause_req = is.pause_req
          /\ is'.auto_resume = is.auto_resume /\ is'.seek_req = is.seek_req
      BY <1>0, <3>2, Buffers
    <3> QED BY <3>1, <3>3, PausesKept
  <2>5. CASE ReadSeek \/ ReadPacket \/ ReadStore
    <3>1. rd'.completed = rd.completed /\ rd.pc # "complete" /\ UNCHANGED is
      BY <1>0, <2>5 DEF ReadSeek, ReadPacket, ReadStore, Goto, Readers
    <3> QED BY <1>0, <3>1, PausesKept
  <2>6. CASE \E s \in Streams : \/ ReadFlush(s) \/ ReadFlushed(s) \/ ReadDrained(s)
                                \/ ReadDiscontinuity(s) \/ ReadNull(s)
    <3> PICK s \in Streams : \/ ReadFlush(s) \/ ReadFlushed(s) \/ ReadDrained(s)
                             \/ ReadDiscontinuity(s) \/ ReadNull(s)
      BY <2>6
    <3>1. UNCHANGED is /\ rd.pc # "complete"
      BY DEF ReadFlush, ReadFlushed, ReadDrained, ReadDiscontinuity, ReadNull
    <3>2. \/ \E pc \in {"flushed", "drained2", "read"} : Goto(pc)
          \/ \E again \in {"flush", "drained1", "discontinuity", "null"} :
               \E next \in {"sought", "over", "store", "eof"} : After(s, again, next)
      BY DEF ReadFlush, ReadFlushed, ReadDrained, ReadDiscontinuity, ReadNull
    <3>3. rd'.completed = rd.completed
      BY <3>2, GotoFlags, AfterFlags
    <3> QED BY <1>0, <3>1, <3>3, PausesKept
  <2> QED BY <1>2, <2>1, <2>2, <2>3, <2>4, <2>5, <2>6 DEF ReadThread
<1>3. CASE \E s \in Streams : Decoder(s)
  <2>1. is' = is \/ is' = ToggleBuffering(is, TRUE)
    BY <1>3 DEF Decoder, Receive, Push, Dequeue, Starve, StartBuffering, Send
  <2>2. /\ Reasoned(is') /\ is'.step = is.step /\ is'.pause_req = is.pause_req
        /\ is'.auto_resume = is.auto_resume /\ is'.seek_req = is.seek_req
    BY <1>0, <2>1, Buffers
  <2> QED BY <1>3, <1>b, <2>2 DEF Decoder
<1>4. CASE \E s \in Streams : Output(s)
  <2>1. UNCHANGED rd
    BY <1>4 DEF Output
  <2>2. CASE UNCHANGED is
    BY <1>0, <1>b, <2>1, <2>2
  <2>3. CASE VideoStep
    <3> DEFINE i == [is EXCEPT !.step = FALSE]
    <3>1. /\ i \in Controls /\ Reasoned(i) /\ ~i.step /\ i.pause_req = is.pause_req
          /\ i.auto_resume = is.auto_resume /\ i.seek_req = is.seek_req
      BY <1>0 DEF Controls, Reasoned
    <3>2. is' = is \/ is' = i \/ is' = StreamUpdatePause(i)
      BY <2>3 DEF VideoStep
    <3> HIDE DEF i
    <3>3. /\ Reasoned(is') /\ (is'.step => is.step) /\ is'.pause_req = is.pause_req
          /\ is'.auto_resume = is.auto_resume /\ is'.seek_req = is.seek_req
      BY <1>0, <3>1, <3>2, Updates
    <3> QED BY <2>1, <3>3 DEF Pauses, StepOnlyInPause, Restarts, Reasoned
  <2> QED BY <1>4, <2>2, <2>3 DEF Output, VideoSkip, VideoDue, VideoShow, AudioAsk, AudioTake
<1>5. CASE UNCHANGED vars
  BY <1>0, <1>5, <1>b DEF vars
<1> QED BY <1>1, <1>2, <1>3, <1>4, <1>5 DEF Next

LEMMA InitPauses == ASSUME Init PROVE Pauses
<1>1. /\ is.paused = is.pause_req /\ is.aout_paused = is.pause_req /\ ~is.step
      /\ ~is.auto_resume
  BY DEF Init
<1> QED BY <1>1 DEF Pauses, StepOnlyInPause, Restarts, Reasoned

--------------------------------------------------------------------------------
(* The end of the file on its way to the decoders. *)

\* Once the read thread has met the end of its input, and until a seek takes that back,
\* the null packet is queued for every decoder, held by it, or has been acted on: the
\* packet is put once, and nothing puts it again (ff_ffplay.c:3623).
NoEndIsLost ==
  rd.eof /\ rd.pc \notin {"flush", "flushed", "sought"} =>
    \A s \in Streams : Ended(q[s], dec[s])

\* A decoder that drains its codec asks for no packet before it has finished.
Drains(queue, d) ==
  d.draining /\ d.pkt_serial = queue.serial /\ ~Fresh(d) => d.pc \in {"decode", "push"}

Ends ==
  /\ rd.eof => rd.pc \notin {"discontinuity", "store"}
  /\ NoEndIsLost
  /\ rd.pc = "eof" => \A s \in Streams : Ended(q[s], dec[s])
  /\ rd.pc = "null" => \A s \in Streams \ rd.todo : Ended(q[s], dec[s])
  /\ \A s \in Streams : Drains(q[s], dec[s])

LEMMA TakesEnd ==
  ASSUME NEW queue \in Queues, NEW n \in Queues, NEW d \in Decoders, NEW e \in Decoders,
         Flowing(queue, d), Drains(queue, d), d.pc \in {"get", "wait"},
         Len(queue.pkts) = Len(n.pkts) + 1, n.serial = queue.serial,
         \A i \in 1..Len(n.pkts) : n.pkts[i] = queue.pkts[i + 1],
         e.pkt = queue.pkts[1].pkt, e.pkt_serial = queue.pkts[1].serial,
         e.finished = d.finished, e.draining = d.draining,
         \/ e.pc = "get" /\ d.finished = queue.pkts[1].serial
         \/ e.pc = "got"
  PROVE  (Ended(queue, d) => Ended(n, e)) /\ Drains(n, e)
<1>0. /\ Len(queue.pkts) \in Nat /\ Len(n.pkts) \in Nat /\ queue.serial \in Nat
      /\ d.pkt_serial \in Nat /\ e.pkt_serial \in Nat /\ d.finished \in Nat
      /\ 1 \in 1..Len(queue.pkts)
  BY QueueFields, DecoderFields
<1>1. /\ d.pkt_serial <= e.pkt_serial /\ e.pkt_serial <= queue.serial
      /\ IF e.pkt = FlushPacket THEN d.pkt_serial < e.pkt_serial
         ELSE e.pkt_serial = d.pkt_serial
      /\ d.finished <= d.pkt_serial
  BY <1>0 DEF Flowing, Ordered, Decodes
<1>2. MetEnd(d, queue.serial) => MetEnd(e, n.serial)
  BY <1>0, <1>1 DEF MetEnd, Fresh
<1>3. ASSUME NEW i \in 1..Len(queue.pkts), queue.pkts[i].pkt = EndPacket,
             queue.pkts[i].serial = queue.serial
      PROVE  Ended(n, e)
  <2>1. CASE i = 1
    BY <1>3, <2>1, EndNotFlush DEF Ended, MetEnd, Fresh
  <2>2. CASE i # 1
    <3>1. i - 1 \in 1..Len(n.pkts) /\ i = (i - 1) + 1
      BY <1>0, <2>2
    <3>2. n.pkts[i - 1] = queue.pkts[i]
      BY <3>1
    <3> QED BY <1>3, <3>1, <3>2 DEF Ended
  <2> QED BY <2>1, <2>2
<1>4. Ended(queue, d) => Ended(n, e)
  BY <1>2, <1>3 DEF Ended
<1>5. Drains(n, e)
  BY <1>0, <1>1 DEF Drains, Fresh
<1> QED BY <1>4, <1>5

LEMMA DequeueEnds ==
  ASSUME Types, Flow, NEW s \in Streams, Drains(q[s], dec[s]),
         dec[s].pc \in {"get", "wait"}, Dequeue(s)
  PROVE  (Ended(q[s], dec[s]) => Ended(q'[s], dec'[s])) /\ Drains(q'[s], dec'[s])
<1> DEFINE n == [q[s] EXCEPT !.pkts = Tail(q[s].pkts)]
           p == q[s].pkts[1]
           d == [dec[s] EXCEPT !.pkt = p.pkt, !.pkt_serial = p.serial,
                   !.pc = IF PacketBuffering /\ dec[s].finished = p.serial
                          THEN "get" ELSE "got"]
<1>1. /\ n \in Queues /\ n.serial = q[s].serial /\ q' = [q EXCEPT ![s] = n]
      /\ n.pkts = Tail(q[s].pkts) /\ Len(q[s].pkts) \in Nat
      /\ Len(Tail(q[s].pkts)) = Len(q[s].pkts) - 1
      /\ \A i \in 1..Len(Tail(q[s].pkts)) : Tail(q[s].pkts)[i] = q[s].pkts[i + 1]
  BY DequeueFacts, Zenon
<1>2. d \in Decoders /\ dec' = [dec EXCEPT ![s] = d]
  BY DequeueFacts, Zenon
<1>3. /\ d.pkt = p.pkt /\ d.pkt_serial = p.serial /\ d.finished = dec[s].finished
      /\ d.draining = dec[s].draining
      /\ \/ d.pc = "get" /\ dec[s].finished = p.serial
         \/ d.pc = "got"
  BY StreamFacts DEF Decoders
<1> HIDE DEF n, d
<1>4. q'[s] = n /\ dec'[s] = d
  BY <1>1, <1>2, StreamFacts
<1>5. /\ Len(q[s].pkts) = Len(n.pkts) + 1
      /\ \A i \in 1..Len(n.pkts) : n.pkts[i] = q[s].pkts[i + 1]
  BY <1>1
<1> QED BY <1>1, <1>2, <1>3, <1>4, <1>5, StreamFacts, TakesEnd

\* What a decoder does brings the end nearer.
LEMMA DecoderEnds ==
  ASSUME Types, Flow, NEW s \in Streams, Decoder(s), Drains(q[s], dec[s])
  PROVE  (Ended(q[s], dec[s]) => Ended(q'[s], dec'[s])) /\ Drains(q'[s], dec'[s])
<1>0. /\ q[s] \in Queues /\ dec[s] \in Decoders /\ Flowing(q[s], dec[s])
      /\ q \in [Streams -> Queues] /\ dec \in [Streams -> Decoders]
  BY StreamFacts
<1>a. ASSUME q'[s] = q[s], dec'[s].pkt_serial = dec[s].pkt_serial,
             dec[s].pkt_serial = q[s].serial /\ ~Fresh(dec[s]) =>
               /\ ~Fresh(dec'[s])
               /\ dec[s].finished = q[s].serial => dec'[s].finished = q[s].serial
               /\ dec[s].draining => dec'[s].draining \/ dec'[s].finished = q[s].serial
               /\ dec[s].pc = "got" /\ dec[s].pkt = EndPacket => dec'[s].draining,
             \/ dec'[s].pc \in {"decode", "push"}
             \/ dec'[s].pkt_serial # q[s].serial
             \/ ~dec'[s].draining
      PROVE  (Ended(q[s], dec[s]) => Ended(q'[s], dec'[s])) /\ Drains(q'[s], dec'[s])
  BY <1>a DEF Ended, MetEnd, Drains
<1>1. CASE Receive(s)
  <2>1. q'[s] = q[s] /\ dec[s].pc = "decode"
    BY <1>1 DEF Receive
  <2>2. CASE \E pc \in {"push", "get"} :
               /\ dec' = [dec EXCEPT ![s].pc = pc]
               /\ \/ pc = "push" \/ ~dec[s].draining \/ dec[s].pkt_serial # q[s].serial
    <3>1. /\ dec'[s].pkt_serial = dec[s].pkt_serial /\ dec'[s].finished = dec[s].finished
          /\ dec'[s].draining = dec[s].draining /\ dec'[s].pc \in {"push", "get"}
          /\ \/ dec'[s].pc = "push" \/ ~dec[s].draining \/ dec[s].pkt_serial # q[s].serial
      BY <1>0, <2>2 DEF Decoders
    <3> QED BY <1>a, <2>1, <3>1 DEF Fresh
  <2>3. CASE /\ dec' = [dec EXCEPT ![s].finished = dec[s].pkt_serial, ![s].draining = FALSE]
             /\ dec[s].pkt_serial = q[s].serial
    <3>1. /\ dec'[s].pkt_serial = dec[s].pkt_serial /\ dec'[s].finished = dec[s].pkt_serial
          /\ ~dec'[s].draining /\ dec'[s].pc = "decode"
      BY <1>0, <2>1, <2>3 DEF Decoders
    <3> QED BY <1>a, <2>1, <2>3, <3>1 DEF Fresh
  <2> QED BY <1>1, <2>2, <2>3 DEF Receive
<1>2. CASE Push(s)
  <2>1. q'[s] = q[s] /\ dec[s].pc = "push"
    BY <1>2 DEF Push
  <2>2. /\ dec'[s].pkt_serial = dec[s].pkt_serial /\ dec'[s].finished = dec[s].finished
        /\ dec'[s].draining = dec[s].draining /\ dec'[s].pc = "decode"
    <3>1. dec'[s] = [dec[s] EXCEPT !.pc = "decode", !.codec = Tail(@)]
      BY <1>0, <1>2 DEF Push
    <3> QED BY <1>0, <3>1 DEF Decoders
  <2> QED BY <1>a, <2>1, <2>2 DEF Fresh
<1>3. CASE Starve(s) \/ StartBuffering(s)
  <2>1. q'[s] = q[s] /\ dec[s].pc \in {"get", "starved"}
    BY <1>3 DEF Starve, StartBuffering
  <2>2. PICK pc \in {"wait", "starved"} : dec' = [dec EXCEPT ![s].pc = pc]
    BY <1>3 DEF Starve, StartBuffering
  <2>3. /\ dec'[s].pkt_serial = dec[s].pkt_serial /\ dec'[s].finished = dec[s].finished
        /\ dec'[s].draining = dec[s].draining /\ dec'[s].pc \in {"wait", "starved"}
    BY <1>0, <2>2 DEF Decoders
  <2> QED BY <1>a, <2>1, <2>3 DEF Fresh, Drains
<1>4. CASE dec[s].pc \in {"get", "wait"} /\ Dequeue(s)
  BY <1>0, <1>4, DequeueEnds
<1>5. CASE Send(s)
  <2>1. q'[s] = q[s] /\ dec[s].pc = "got"
    BY <1>5 DEF Send
  <2>2. CASE dec[s].pkt_serial # q[s].serial
    <3>1. dec'[s] = [dec[s] EXCEPT !.pc = "get"]
      BY <1>0, <1>5, <2>2 DEF Send
    <3>2. dec'[s].pkt_serial = dec[s].pkt_serial
      BY <1>0, <3>1 DEF Decoders
    <3> QED BY <1>a, <2>1, <2>2, <3>2
  <2>3. CASE dec[s].pkt_serial = q[s].serial /\ dec[s].pkt = FlushPacket
    <3>1. dec'[s] = [FlushCodec(dec[s]) EXCEPT !.pc = "decode"]
      BY <1>0, <1>5, <2>3 DEF Send
    <3>2. dec'[s].pkt_serial = dec[s].pkt_serial /\ dec'[s].pc = "decode"
      BY <1>0, <3>1 DEF Decoders, FlushCodec
    <3> QED BY <1>a, <2>1, <2>3, <3>2 DEF Fresh
  <2>4. CASE dec[s].pkt_serial = q[s].serial /\ dec[s].pkt # FlushPacket
    <3>1. \/ dec'[s] = [dec[s] EXCEPT !.pc = "decode", !.draining = TRUE]
          \/ /\ dec[s].pkt # EndPacket
             /\ dec'[s] = [dec[s] EXCEPT !.pc = "decode", !.codec = Append(@, dec[s].pkt)]
      BY <1>0, <1>5, <2>4 DEF Send
    <3>2. /\ dec'[s].pkt_serial = dec[s].pkt_serial /\ dec'[s].finished = dec[s].finished
          /\ dec'[s].pc = "decode" /\ (dec[s].draining => dec'[s].draining)
          /\ dec[s].pkt = EndPacket => dec'[s].draining
      BY <1>0, <3>1 DEF Decoders
    <3> QED BY <1>a, <2>1, <3>2 DEF Fresh
  <2> QED BY <2>2, <2>3, <2>4
<1> QED BY <1>1, <1>2, <1>3, <1>4, <1>5 DEF Decoder

\* A queue that keeps its serial, or begins a new one, leaves the decoder draining.
LEMMA DrainsKept ==
  ASSUME Types, Flow, Ends, UNCHANGED dec, NEW s \in Streams, NEW queue \in Queues,
         queue.serial >= q[s].serial, q' = [q EXCEPT ![s] = queue]
  PROVE  /\ \A r \in Streams : Drains(q'[r], dec'[r])
         /\ \A r \in Streams : r # s => q'[r] = q[r]
         /\ q'[s] = queue
<1>1. /\ q'[s] = queue /\ \A r \in Streams : r # s => q'[r] = q[r]
  BY StreamFacts
<1>2. /\ queue.serial \in Nat /\ q[s].serial \in Nat /\ dec[s].pkt_serial \in Nat
      /\ dec[s].pkt_serial <= q[s].serial
  BY StreamTypes, QueueFields
<1>3. Drains(queue, dec[s])
  BY <1>2 DEF Ends, Drains
<1> QED BY <1>1, <1>3 DEF Ends

\* A step of the read thread that puts nothing in a queue, away from a seek and the end.
LEMMA EndsKept ==
  ASSUME Ends, UNCHANGED <<q, dec>>, rd'.eof = rd.eof,
         rd.pc \notin {"flush", "flushed", "sought"},
         rd'.pc \notin {"discontinuity", "store", "null", "eof"}
  PROVE  Ends'
BY DEF Ends, NoEndIsLost

LEMMA ReadThreadEnds == ASSUME Types, Flow, Ends, ReadThread PROVE Ends'
<1>0. rd \in Readers /\ UNCHANGED dec
  BY ReaderFields DEF ReadThread, ReadTop, ReadSeek, ReadSought, ReadRebuffer, ReadRoom,
     ReadOver, ReadComplete, ReadPacket, ReadStore, ReadCheck, ReadEnd, ReadBroken, ReadEof,
     ReadFlush, ReadFlushed, ReadDrained, ReadDiscontinuity, ReadNull
<1>a. \A pc : Goto(pc) => rd'.pc = pc /\ rd'.eof = rd.eof /\ rd'.todo = rd.todo
  BY <1>0 DEF Goto, Readers
<1>b. ASSUME NEW s, NEW again, NEW next, After(s, again, next)
      PROVE  /\ rd'.pc = IF rd.todo = {s} THEN next ELSE again
             /\ rd'.eof = rd.eof /\ rd'.todo = rd.todo \ {s}
  BY <1>0, <1>b DEF After, Readers
<1>1. CASE ReadTop \/ ReadSeek \/ ReadRebuffer \/ ReadCheck \/ ReadComplete
  <2>1. rd'.eof = rd.eof
    BY <1>0, <1>1, <1>a DEF ReadTop, ReadSeek, ReadRebuffer, ReadCheck, ReadComplete, Readers
  <2>2. rd'.pc \in {"seek", "room", "top", "read", "flush", "sought"}
    BY <1>0, <1>1, <1>a DEF ReadTop, ReadSeek, ReadRebuffer, ReadCheck, ReadComplete, Readers
  <2>3. UNCHANGED <<q, dec>> /\ rd.pc \notin {"flush", "flushed", "sought"}
    BY <1>1 DEF ReadTop, ReadSeek, ReadRebuffer, ReadCheck, ReadComplete
  <2> QED BY <2>1, <2>2, <2>3, EndsKept
<1>2. CASE ReadRoom \/ ReadOver
  <2>1. rd'.eof = rd.eof /\ rd'.pc \in {"top", "read", "drained1", "complete"}
    BY <1>0, <1>2, <1>a DEF ReadRoom, ReadOver, Readers
  <2>2. UNCHANGED <<q, dec>> /\ rd.pc \notin {"flush", "flushed", "sought"}
    BY <1>2 DEF ReadRoom, ReadOver
  <2> QED BY <2>1, <2>2, EndsKept
<1>3. CASE \E s \in Streams : ReadDrained(s)
  <2> PICK s \in Streams : ReadDrained(s)
    BY <1>3
  <2>1. \/ \E pc \in {"drained2", "read"} : Goto(pc)
        \/ After(s, "drained1", "over")
    BY DEF ReadDrained
  <2>2. rd'.eof = rd.eof /\ rd'.pc \in {"drained1", "drained2", "read", "over"}
    BY <1>a, <1>b, <2>1
  <2>3. UNCHANGED <<q, dec>> /\ rd.pc \notin {"flush", "flushed", "sought"}
    BY DEF ReadDrained
  <2> QED BY <2>2, <2>3, EndsKept
<1>4. CASE ReadSought \/ ReadPacket
  <2>1. ~rd'.eof /\ rd'.pc \in {"rebuffer", "discontinuity", "store"} /\ UNCHANGED <<q, dec>>
    BY <1>0, <1>4 DEF ReadSought, ReadPacket, Readers
  <2> QED BY <2>1 DEF Ends, NoEndIsLost
<1>5. CASE ReadEnd \/ ReadBroken
  <2>1. rd.pc = "read" /\ UNCHANGED <<q, dec>> /\ rd'.eof = rd.eof
    BY <1>0, <1>5 DEF ReadEnd, ReadBroken, Goto, Readers
  <2>2. (rd'.pc = "eof" /\ rd.eof) \/ (rd'.pc = "null" /\ rd'.todo = Streams)
    BY <1>0, <1>5 DEF ReadEnd, ReadBroken, Goto, Readers
  <2> QED BY <2>1, <2>2 DEF Ends, NoEndIsLost
<1>6. CASE ReadEof
  <2>1. rd'.pc = "top" /\ rd.pc = "eof" /\ UNCHANGED <<q, dec>>
    BY <1>0, <1>6 DEF ReadEof, Readers
  <2> QED BY <2>1 DEF Ends, NoEndIsLost
<1>7. CASE \E s \in Streams : ReadFlush(s)
  <2> PICK s \in Streams : ReadFlush(s)
    BY <1>7
  <2> DEFINE new == PacketFlush(q[s])
  <2>1. new \in Queues /\ new.serial >= q[s].serial
    <3>1. new \in Queues /\ new.serial = q[s].serial /\ q[s].serial \in Nat
      BY StreamTypes, FlushFacts
    <3> HIDE DEF new
    <3> QED BY <3>1
  <2>2. q' = [q EXCEPT ![s] = new] /\ rd'.pc = "flushed"
    BY <1>a DEF ReadFlush
  <2> HIDE DEF new
  <2>3. \A r \in Streams : Drains(q'[r], dec'[r])
    BY <1>0, <2>1, <2>2, DrainsKept
  <2> QED BY <2>2, <2>3 DEF Ends, NoEndIsLost
<1>8. CASE \E s \in Streams : ReadFlushed(s) \/ ReadDiscontinuity(s)
  <2> PICK s \in Streams : ReadFlushed(s) \/ ReadDiscontinuity(s)
    BY <1>8
  <2> DEFINE new == PacketPut(q[s], FlushPacket)
  <2>1. new \in Queues /\ new.serial >= q[s].serial
    <3>1. new \in Queues /\ new.serial = q[s].serial + 1 /\ q[s].serial \in Nat
      BY StreamTypes, PutFacts, PacketsTyping
    <3> HIDE DEF new
    <3> QED BY <3>1
  <2>2. q' = [q EXCEPT ![s] = new]
    BY DEF ReadFlushed, ReadDiscontinuity, PutFlush
  <2>3. \/ rd'.pc \in {"flush", "sought"}
        \/ ~rd'.eof /\ rd'.pc \in {"discontinuity", "store"}
    <3>1. CASE ReadFlushed(s)
      BY <1>b, <3>1 DEF ReadFlushed
    <3>2. CASE ReadDiscontinuity(s)
      BY <1>b, <3>2 DEF ReadDiscontinuity, Ends
    <3> QED BY <3>1, <3>2
  <2> HIDE DEF new
  <2>4. \A r \in Streams : Drains(q'[r], dec'[r])
    BY <1>0, <2>1, <2>2, DrainsKept
  <2> QED BY <2>3, <2>4 DEF Ends, NoEndIsLost
<1>9. CASE ReadStore
  <2>1. rd.pos \in 1..Len(Media) /\ Media[rd.pos] \in Streams
    BY <1>9, ReaderFields, FileTyping DEF ReadStore, Types, Positions
  <2>2. PICK s \in Streams : s = Media[rd.pos]
    BY <2>1
  <2> DEFINE new == PacketPut(q[s], rd.pos)
  <2>3. rd.pos \in 0..EndPacket /\ rd.pos # FlushPacket
    BY <2>1, FileTyping DEF EndPacket, FlushPacket
  <2>4. new \in Queues /\ new.serial >= q[s].serial
    <3>1. new \in Queues /\ new.serial = q[s].serial /\ q[s].serial \in Nat
      BY <2>3, StreamTypes, PutFacts
    <3> HIDE DEF new
    <3> QED BY <3>1
  <2>5. q' = [q EXCEPT ![s] = new]
    BY <1>9, <2>2 DEF ReadStore
  <2>6. ~rd'.eof /\ rd'.pc = "check"
    BY <1>0, <1>9 DEF ReadStore, Readers, Ends
  <2> HIDE DEF new
  <2>7. \A r \in Streams : Drains(q'[r], dec'[r])
    BY <1>0, <2>4, <2>5, DrainsKept
  <2> QED BY <2>6, <2>7 DEF Ends, NoEndIsLost
<1>10. CASE \E s \in Streams : ReadNull(s)
  <2> PICK s \in Streams : ReadNull(s)
    BY <1>10
  <2> DEFINE new  == PutEnd(q[s], rd.broken)
             once == PacketPut(q[s], EndPacket)
             twice == PacketPut(once, EndPacket)
             IsEnded(queue) == \E i \in 1..Len(queue.pkts) :
               queue.pkts[i].pkt = EndPacket /\ queue.pkts[i].serial = queue.serial
  <2>1. once \in Queues /\ once.serial = q[s].serial /\ IsEnded(once) /\ q[s].serial \in Nat
    <3>1. /\ once \in Queues /\ once.serial = q[s].serial
          /\ Len(once.pkts) = Len(q[s].pkts) + 1
          /\ once.pkts[Len(q[s].pkts) + 1] = [pkt |-> EndPacket, serial |-> once.serial]
      BY StreamTypes, PutFacts, PacketsTyping, EndNotFlush
    <3>2. Len(q[s].pkts) \in Nat /\ q[s].serial \in Nat
      BY StreamTypes, QueueFields
    <3> HIDE DEF once
    <3> QED BY <3>1, <3>2
  <2> HIDE DEF once
  <2>2. twice \in Queues /\ twice.serial = once.serial /\ IsEnded(twice)
    <3>1. /\ twice \in Queues /\ twice.serial = once.serial
          /\ Len(twice.pkts) = Len(once.pkts) + 1
          /\ twice.pkts[Len(once.pkts) + 1] = [pkt |-> EndPacket, serial |-> twice.serial]
      BY <2>1, PutFacts, PacketsTyping, EndNotFlush
    <3>2. Len(once.pkts) \in Nat
      BY <2>1, QueueFields
    <3> HIDE DEF twice
    <3> QED BY <3>1, <3>2
  <2> HIDE DEF twice
  <2>3. new = once \/ new = twice
    BY DEF PutEnd, once, twice
  <2>4. q' = [q EXCEPT ![s] = new] /\ rd.pc = "null"
    BY DEF ReadNull
  <2>5. /\ rd'.pc = (IF rd.todo = {s} THEN "eof" ELSE "null")
        /\ rd'.eof = rd.eof /\ rd'.todo = rd.todo \ {s}
    BY <1>b DEF ReadNull
  <2> HIDE DEF new
  <2>6. new \in Queues /\ new.serial >= q[s].serial /\ IsEnded(new)
    BY <2>1, <2>2, <2>3
  <2>7. /\ \A r \in Streams : Drains(q'[r], dec'[r])
        /\ \A r \in Streams : r # s => q'[r] = q[r]
        /\ q'[s] = new
    BY <1>0, <2>1, <2>4, <2>6, DrainsKept
  <2>8. Ended(q'[s], dec'[s])
    BY <2>6, <2>7 DEF Ended
  <2>9. \A r \in Streams : Ended(q[r], dec[r]) => Ended(q'[r], dec'[r])
    BY <1>0, <2>7, <2>8
  <2> HIDE DEF IsEnded
  <2> QED BY <2>4, <2>5, <2>7, <2>8, <2>9 DEF Ends, NoEndIsLost
<1> QED BY <1>1, <1>2, <1>3, <1>4, <1>5, <1>6, <1>7, <1>8, <1>9, <1>10 DEF ReadThread

LEMMA EndsStep == ASSUME Types, Flow, Ends, [Next]_vars PROVE Ends'
<1>1. CASE ReadThread
  BY <1>1, ReadThreadEnds
<1>2. CASE \E s \in Streams : Decoder(s)
  <2> PICK s \in Streams : Decoder(s)
    BY <1>2
  <2>1. (Ended(q[s], dec[s]) => Ended(q'[s], dec'[s])) /\ Drains(q'[s], dec'[s])
    BY DecoderEnds DEF Ends
  <2>2. ASSUME NEW r \in Streams, r # s PROVE q'[r] = q[r] /\ dec'[r] = dec[r]
    BY <2>2 DEF Decoder, Receive, Push, Starve, StartBuffering, Send, Dequeue, Types
  <2>3. UNCHANGED rd
    BY DEF Decoder
  <2> QED BY <2>1, <2>2, <2>3 DEF Ends, NoEndIsLost
<1>3. CASE Application \/ UNCHANGED vars \/ \E s \in Streams : Output(s)
  <2>1. UNCHANGED <<rd, q, dec>>
    BY <1>3 DEF Application, Output, vars
  <2> QED BY <2>1 DEF Ends, NoEndIsLost
<1> QED BY <1>1, <1>2, <1>3 DEF Next

LEMMA InitEnds == ASSUME Init PROVE Ends
<1>1. ~rd.eof /\ rd.pc = "top" /\ \A s \in Streams : ~dec[s].draining
  BY DEF Init
<1> QED BY <1>1 DEF Ends, NoEndIsLost, Drains

--------------------------------------------------------------------------------
(* No standstill. *)

\* The decoder has something to do: its steps' guards, an empty packet queue being none.
CanDecode(s) ==
  \/ dec[s].pc \in {"decode", "got", "starved"}
  \/ dec[s].pc = "push" /\ Len(frames[s]) < FrameSlots
  \/ dec[s].pc \in {"get", "wait"} /\ q[s].pkts # <<>>

\* The refresh thread, or the audio callback, has a frame to take or to finish with.
CanShow(s) ==
  IF s = "video"
  THEN out[s] # "idle" \/ (frames[s] # <<>> /\ (Stale(s) \/ ~is.paused))
  ELSE /\ frames[s] # <<>>
       /\ out[s] = "read" \/ (~is.aout_paused /\ ~is.paused /\ ~is.step)

\* Unless a pause or the filling of the buffers holds it, the pipeline moves.  With the
\* packet queues full the read thread sleeps (ff_ffplay.c:3549), and somebody empties them;
\* at the end of the file it polls until every stream is done (3563), and each that is not
\* has a decoder or an output at work.
NeverStuck ==
  ~is.pause_req /\ ~is.buffering_on =>
    /\ QueuesFull => \E s \in Streams : CanDecode(s) \/ CanShow(s)
    /\ rd.eof /\ rd.pc \notin {"flush", "flushed", "sought"} =>
         \A s \in Streams : Done(s) \/ CanDecode(s) \/ CanShow(s)

LEMMA Unheld ==
  ASSUME Types, Pauses, ~is.pause_req, ~is.buffering_on, NEW s \in Streams
  PROVE  /\ frames[s] # <<>> => CanShow(s)
         /\ dec[s].pc \notin {"get", "wait"} => CanDecode(s) \/ CanShow(s)
         /\ q[s].pkts # <<>> => CanDecode(s) \/ CanShow(s)
<1>1. ~is.paused /\ ~is.aout_paused /\ ~is.step
  BY DEF Pauses, Reasoned, StepOnlyInPause, Types, Controls
<1>2. frames[s] # <<>> => CanShow(s)
  BY <1>1 DEF CanShow
<1>3. ASSUME ~(Len(frames[s]) < FrameSlots) PROVE frames[s] # <<>>
  BY <1>3, ConstantsTyping, EmptySeq, PipelineAssumption
<1>4. dec[s].pc \in {"decode", "push", "get", "wait", "starved", "got"}
  BY DecoderFields DEF Types
<1> QED BY <1>2, <1>3, <1>4 DEF CanDecode

LEMMA Unstuck ==
  ASSUME Types, Flow, Pauses, Ends PROVE NeverStuck
<1> SUFFICES ASSUME ~is.pause_req, ~is.buffering_on
             PROVE  /\ QueuesFull => \E s \in Streams : CanDecode(s) \/ CanShow(s)
                    /\ rd.eof /\ rd.pc \notin {"flush", "flushed", "sought"} =>
                         \A s \in Streams : Done(s) \/ CanDecode(s) \/ CanShow(s)
  BY DEF NeverStuck
<1>1. ASSUME QueuesFull PROVE \E s \in Streams : CanDecode(s) \/ CanShow(s)
  <2>1. \A s \in Streams : q[s].pkts = <<>> => Size(s) = 0
    BY EmptySeq DEF Size
  <2>2. \A s \in {"audio", "video"} : s \notin Streams => Size(s) = 0
    BY DEF Size
  <2>3. ASSUME \A s \in Streams : q[s].pkts = <<>> PROVE FALSE
    <3>1. Size("audio") = 0 /\ Size("video") = 0 /\ \A s \in Streams : Size(s) = 0
      BY <2>1, <2>2, <2>3
    <3>2. PICK s \in Streams : TRUE
      BY PipelineAssumption
    <3>3. MaxBufferSize \in Nat /\ MinFrames \in Nat
      BY PipelineAssumption
    <3> QED BY <1>1, <3>1, <3>2, <3>3 DEF QueuesFull
  <2> QED BY <2>3, Unheld
<1>2. ASSUME rd.eof, rd.pc \notin {"flush", "flushed", "sought"}, NEW s \in Streams
      PROVE  Done(s) \/ CanDecode(s) \/ CanShow(s)
  <2>1. Ended(q[s], dec[s]) /\ Drains(q[s], dec[s]) /\ q[s] \in Queues
    BY <1>2, StreamFacts DEF Ends, NoEndIsLost
  <2>2. CASE q[s].pkts # <<>> \/ dec[s].pc \notin {"get", "wait"} \/ frames[s] # <<>>
    BY <2>2, Unheld
  <2>3. CASE q[s].pkts = <<>> /\ dec[s].pc \in {"get", "wait"} /\ frames[s] = <<>>
    <3>1. MetEnd(dec[s], q[s].serial)
      BY <2>1, <2>3, QueueFields DEF Ended
    <3>2. dec[s].finished = q[s].serial
      BY <2>1, <2>3, <3>1 DEF MetEnd, Drains
    <3> QED BY <2>3, <3>2 DEF Done, Finished
  <2> QED BY <2>2, <2>3
<1> QED BY <1>1, <1>2

--------------------------------------------------------------------------------
(* No step backwards. *)

Later(new, old) == new[1] > old[1] \/ (new[1] = old[1] /\ new[2] > old[2])

\* A stream shows a frame of a newer serial, or one further on in the file: never one it
\* has shown, nor one of a serial it has left.
NeverBackwards == [][\A s \in Streams : at'[s] # at[s] => Later(at'[s], at[s])]_vars

LEMMA PresentsLater ==
  ASSUME Watched, NEW s \in Streams, NEW g \in at[s][1]..Current[s], Promise!Present(s, g),
         NEW r \in Streams, at'[r] # at[r]
  PROVE  Later(at'[r], at[r])
<1>1. PICK k \in 1..Len(Media) : /\ Promise!IsFirst(k, Promise!Left(s, g))
                                 /\ at' = [at EXCEPT ![s] = <<g, k>>]
  BY DEF Promise!Present
<1>2. at \in [Streams -> Nat \X Nat] /\ q[s].serial \in Nat
  BY StreamTypes DEF Watched, Tracks, Track, Serials
<1>3. r = s /\ at'[s] = <<g, k>>
  BY <1>1, <1>2
<1>4. at[s][1] \in Nat /\ at[s][2] \in Nat /\ Current[s] \in Nat
  BY <1>2 DEF Current
<1>5. g \in Nat /\ at[s][1] <= g
  BY <1>4
<1>6. k \in Rest(s, Onward(s, g)) /\ k \in Nat /\ k >= 1
  BY <1>1, LeftIsOnward, FileTyping DEF Promise!IsFirst
<1>7. at[s][1] = g => k > at[s][2]
  BY <1>4, <1>6, FileTyping DEF Onward, Rest
<1> QED BY <1>3, <1>4, <1>5, <1>6, <1>7 DEF Later

--------------------------------------------------------------------------------
(* The theorems. *)

LEMMA Invariance == Spec => []IInv
<1>1. Init => IInv
  BY InitTypes, InitFlow, InitSmall DEF IInv
<1>2. IInv /\ [Next]_vars => IInv'
  BY TypesStep, FlowStep, SmallStep DEF IInv
<1> QED BY <1>1, <1>2, PTL DEF Spec

LEMMA TypesImply == IInv => TypeOK
<1> SUFFICES ASSUME Types, Flow PROVE TypeOK
  BY DEF IInv
<1>1. is \in Controls /\ from \in Seq(Positions)
  BY DEF Types
<1>2. ASSUME NEW s \in Streams
      PROVE  /\ q[s].serial \in 1..Len(from)
             /\ \A i \in DOMAIN q[s].pkts :
                  /\ q[s].pkts[i] \in Packet
                  /\ q[s].pkts[i].serial <= q[s].serial
             /\ dec[s].finished <= dec[s].pkt_serial /\ dec[s].pkt_serial <= q[s].serial
             /\ Len(dec[s].codec) <= CodecDelay + 1
             /\ Len(frames[s]) <= FrameSlots
  <2>1. Stream(s) /\ q[s] \in Queues /\ Len(from) \in Nat
    BY LenProperties DEF Types, Flow
  <2>2. q[s].serial \in Nat /\ q[s].pkts \in Seq(Packet) /\ q[s].serial > 0
    BY <2>1, QueueFields DEF Stream, Flowing
  <2>3. ASSUME NEW i \in DOMAIN q[s].pkts
        PROVE  q[s].pkts[i] \in Packet /\ q[s].pkts[i].serial <= q[s].serial
    <3>1. i \in 1..Len(q[s].pkts)
      BY <2>2, LenProperties
    <3>2. q[s].pkts[i] \in Packet
      BY <2>2, <3>1, ElementOfSeq
    <3>3. q[s].pkts[i].serial <= q[s].serial
      BY <2>1, <3>1 DEF Stream, Flowing, Ordered
    <3> QED BY <3>2, <3>3
  <2> QED BY <2>1, <2>2, <2>3 DEF Stream, Flowing, Ordered, Decodes
<1> QED BY <1>1, <1>2, ReaderFields DEF TypeOK, Controls

LEMMA FlowImplies == IInv => FinishedIsFinal
<1> SUFFICES ASSUME Types, Flow, NEW s \in Streams, dec[s].finished = q[s].serial,
                    rd.pc \notin {"flush", "flushed", "discontinuity", "store"}
             PROVE  /\ dec[s].codec = <<>>
                    /\ \A i \in DOMAIN q[s].pkts :
                         q[s].pkts[i].pkt \in {FlushPacket, EndPacket}
                    /\ rd.broken \/ Rest(s, rd.pos) = {}
  BY DEF FinishedIsFinal, IInv
<1>1. /\ Stream(s) /\ Flowing(q[s], dec[s]) /\ Ordered(q[s], dec[s].pkt_serial)
      /\ Decodes(q[s], dec[s]) /\ dec[s] \in Decoders /\ q[s] \in Queues
  BY DEF Types, Flow, Stream, Flowing
<1>2. dec[s].pkt_serial = q[s].serial /\ ~Fresh(dec[s])
  BY <1>1, DecoderFields, QueueFields DEF Ordered, Decodes
<1>3. MetEnd(dec[s], q[s].serial)
  BY <1>2 DEF MetEnd
<1>4. \A i \in 1..Len(q[s].pkts) : q[s].pkts[i].pkt = EndPacket
  BY <1>1, <1>3 DEF Decodes
<1>5. DOMAIN q[s].pkts = 1..Len(q[s].pkts)
  <2>1. q[s].pkts \in Seq(Packet)
    BY <1>1, QueueFields
  <2> QED BY <2>1, LenProperties
<1>6. dec[s].codec = <<>>
  BY <1>1 DEF Decodes
<1>7. rd.broken \/ rd.pos > Len(Media)
  BY <1>1, <1>3 DEF Stream, Ended
<1>8. rd.pos > Len(Media) => Rest(s, rd.pos) = {}
  BY ReaderFields, FileTyping DEF Rest
<1> QED BY <1>4, <1>5, <1>6, <1>7, <1>8

\* Serials, queues, codecs and frame queues are in their ranges.
THEOREM Typing == Spec => []TypeOK
BY Invariance, TypesImply, PTL

\* A decoder that has finished the current serial leaves nothing of it behind, with any
\* number of seeks, discontinuities and read errors.
THEOREM EndIsFinal == Spec => []FinishedIsFinal
BY Invariance, FlowImplies, PTL

\* The packet queues stay within the limit and what one pass of the read thread, and one
\* more for each seek, adds to it.
THEOREM QueuesStaySmall == Spec => []QueuesBounded
<1>1. IInv => QueuesBounded
  BY SmallImplies DEF IInv
<1> QED BY <1>1, Invariance, PTL

\* Whatever the file, the options, the seeks and the order of the threads' steps, the
\* stream engine presents what Playback promises.
THEOREM Implements == Spec => IsPlayback
<1>1. Init => Watched /\ Promise!PlaybackInit
  BY InitTypes, InitFlow, InitTracks, InitAnnounced, InitPromised DEF Watched
<1>2. Watched /\ [Next]_vars => Watched'
  BY TypesStep, FlowStep, TracksStep, AnnouncedStep DEF Watched
<1>3. Watched /\ [Next]_vars => [Promise!PlaybackNext]_(Promise!playbackVars)
  BY StepPromised
<1> QED BY <1>1, <1>2, <1>3, PTL DEF Spec, IsPlayback, Promise!PlaybackSpec

\* Nothing holds the pictures or the sound but a pause that was asked for and the filling
\* of the buffers, however pauses, seeks, steps and restarts meet.
THEOREM NothingElseHolds == Spec => []HeldForAReason
<1>1. Init => Types /\ Pauses
  BY InitTypes, InitPauses
<1>2. Types /\ Pauses /\ [Next]_vars => Types' /\ Pauses'
  BY TypesStep, PausesStep
<1>3. Pauses => HeldForAReason
  BY DEF Pauses, HeldForAReason, Reasoned
<1> QED BY <1>1, <1>2, <1>3, PTL DEF Spec

\* The audio callback is never silenced by a step once the stream plays again.
THEOREM StepsStayInPause == Spec => []StepOnlyInPause
<1>1. Init => Types /\ Pauses
  BY InitTypes, InitPauses
<1>2. Types /\ Pauses /\ [Next]_vars => Types' /\ Pauses'
  BY TypesStep, PausesStep
<1>3. Pauses => StepOnlyInPause
  BY DEF Pauses
<1> QED BY <1>1, <1>2, <1>3, PTL DEF Spec

\* The null packet of the end of the file reaches every decoder, whatever seeks came before
\* and wherever they went.
THEOREM EndIsDelivered == Spec => []NoEndIsLost
<1>1. Init => Types /\ Flow /\ Ends
  BY InitTypes, InitFlow, InitEnds
<1>2. Types /\ Flow /\ Ends /\ [Next]_vars => Types' /\ Flow' /\ Ends'
  BY TypesStep, FlowStep, EndsStep
<1>3. Ends => NoEndIsLost
  BY DEF Ends
<1> QED BY <1>1, <1>2, <1>3, PTL DEF Spec

\* A stream that is to play and is not filling its buffers has a thread at work: the read
\* thread, the decoders and the outputs never wait for one another in a circle.
THEOREM PipelineMoves == Spec => []NeverStuck
<1>1. Init => Types /\ Flow /\ Pauses /\ Ends
  BY InitTypes, InitFlow, InitPauses, InitEnds
<1>2. Types /\ Flow /\ Pauses /\ Ends /\ [Next]_vars => Types' /\ Flow' /\ Pauses' /\ Ends'
  BY TypesStep, FlowStep, PausesStep, EndsStep
<1>3. Types /\ Flow /\ Pauses /\ Ends => NeverStuck
  BY Unstuck
<1> QED BY <1>1, <1>2, <1>3, PTL DEF Spec

\* Whatever seeks are asked for, no stream goes back within a serial, or to an older one.
THEOREM ShowsForward == Spec => NeverBackwards
<1>1. Init => Watched
  BY InitTypes, InitFlow, InitTracks, InitAnnounced DEF Watched
<1>2. Watched /\ [Next]_vars => Watched'
  BY TypesStep, FlowStep, TracksStep, AnnouncedStep DEF Watched
<1>3. Watched /\ [Next]_vars
        => [\A s \in Streams : at'[s] # at[s] => Later(at'[s], at[s])]_vars
  <2> SUFFICES ASSUME Watched, [Next]_vars, NEW s \in Streams, at'[s] # at[s]
               PROVE  Later(at'[s], at[s])
    OBVIOUS
  <2>1. Promise!PlaybackNext
    BY StepPromised DEF Promise!playbackVars
  <2> QED BY <2>1, PresentsLater DEF Promise!PlaybackNext, Promise!Join,
             Promise!NewGeneration, Promise!Resume, Promise!Complete, Promise!Fail, Current
<1> QED BY <1>1, <1>2, <1>3, PTL DEF Spec, NeverBackwards
================================================================================
