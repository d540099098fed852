---------------------------- MODULE StreamPipeline ----------------------------
(***************************************************************************)
(* The stream engine of ff_ffplay.c while a file plays: the read thread    *)
(* fills a packet queue per stream, a decoder per stream turns packets     *)
(* into frames, the refresh thread shows pictures and the audio callback   *)
(* takes samples.  A seek empties the packet queues and begins a new       *)
(* serial; packets and frames of an older serial are recognised by it and  *)
(* dropped.  The serial, finished and nb_remaining are read without locks. *)
(*                                                                         *)
(* Opening, closing and the messages are in IjkMediaPlayer, the frame      *)
(* queue's own locking is in FrameQueue.  Here a section under play_mutex  *)
(* or a queue's mutex is one step, and so is an unlocked read together     *)
(* with what its thread then does to its own data.                         *)
(***************************************************************************)
EXTENDS MediaFile, FiniteSets

CONSTANTS
  PacketBuffering,   \* the packet-buffering option
  MaxBufferSize,     \* dcc.max_buffer_size; every packet counts 1
  MinFrames,         \* dcc.min_frames
  MinMinFrames,      \* MIN_MIN_FRAMES
  FrameSlots,        \* frames a frame queue holds that have not been taken
  CodecDelay,        \* packets a codec may keep before it returns a frame
  Discontinuities,   \* positions whose packet has AV_PKT_FLAG_DISCONTINUITY
  MayBreak,          \* whether the input may fail for good (ic->pb->error)
  Calls,             \* the calls the application makes: "start", "pause", "seek", "restart"
  SeekTargets,       \* positions the application seeks to
  LoopCount,         \* setLoopCount; 0, play for ever, is left out
  MaxSeeks           \* bound on the seeks the application asks for

ASSUME PipelineAssumption ==
  /\ Streams \subseteq {"audio", "video"} /\ Streams # {}
  /\ {PacketBuffering, MayBreak} \subseteq BOOLEAN
  /\ {MaxBufferSize, MinFrames, MinMinFrames, CodecDelay, MaxSeeks} \subseteq Nat
  /\ {FrameSlots, LoopCount} \subseteq Nat \ {0}
  /\ Discontinuities \subseteq 1..Len(Media)
  /\ Calls \subseteq {"start", "pause", "seek", "restart"}
  /\ SeekTargets \subseteq Positions

VARIABLES
  is,      \* the fields of VideoState that play_mutex guards, and aout's pause
  rd,      \* the read thread and the fields it owns; seek_req is shared
  q,       \* q[s]: the packet queue (audioq, videoq)
  dec,     \* dec[s]: the decoder (auddec, viddec) and its thread
  frames,  \* frames[s]: sampq, pictq, without the frame on show
  out,     \* out[s]: where the refresh thread and the audio callback are
  seeks,   \* seeks asked for so far
  from, at, late, ended   \* history, read by no action: see Playback

history == <<from, at, late, ended>>
vars == <<is, rd, q, dec, frames, out, seeks, history>>

\* The promise; a stream joins a generation when its flush packet is queued.
Promise == INSTANCE Playback WITH current <- [s \in Streams |-> q[s].serial]

-----------------------------------------------------------------------------
(* Pausing: pure functions of the fields under play_mutex.                 *)

\* stream_toggle_pause_l: during a step the audio output is left alone.
StreamTogglePause(i, on) ==
  IF i.step /\ (i.pause_req \/ i.buffering_on)
  THEN [i EXCEPT !.paused = on]
  ELSE [i EXCEPT !.paused = on, !.aout_paused = on]

StreamUpdatePause(i) ==
  StreamTogglePause(i, ~i.step /\ (i.pause_req \/ i.buffering_on))

TogglePause(i, on) ==
  [StreamUpdatePause([i EXCEPT !.pause_req = on, !.auto_resume = ~on])
     EXCEPT !.step = FALSE]

StepToNextFrame(i) ==
  IF i.paused THEN StreamTogglePause([i EXCEPT !.step = TRUE], FALSE)
  ELSE [i EXCEPT !.step = TRUE]

ToggleBuffering(i, on) ==
  IF PacketBuffering /\ i.buffering_on # on
  THEN StreamUpdatePause([i EXCEPT !.buffering_on = on])
  ELSE i

-----------------------------------------------------------------------------
(* Packet queues.  A packet of the file is its position; 0 is the flush    *)
(* packet and EndPacket the null packet that drains a codec.               *)

FlushPacket == 0
EndPacket   == Len(Media) + 1
Packet      == [pkt : 0..EndPacket, serial : Nat]

\* packet_queue_put: the flush packet begins a new serial.
PacketPut(queue, p) ==
  LET serial == IF p = FlushPacket THEN queue.serial + 1 ELSE queue.serial
  IN  [serial |-> serial,
       pkts   |-> Append(queue.pkts, [pkt |-> p, serial |-> serial])]

PacketFlush(queue) == [queue EXCEPT !.pkts = <<>>]

\* packet_queue_put_nullpacket, as often as the failed read asks for it.
PutEnd(queue, twice) ==
  IF twice THEN PacketPut(PacketPut(queue, EndPacket), EndPacket)
  ELSE PacketPut(queue, EndPacket)

Size(s) == IF s \in Streams THEN Len(q[s].pkts) ELSE 0

\* Mutant of QueuesFull: only before the end of the file.
QueuesFullBeforeEof == ~rd.eof /\ Size("audio") + Size("video") > MaxBufferSize

\* The read thread's test for full queues.
QueuesFull ==
  \/ Size("audio") + Size("video") > MaxBufferSize
  \/ \A s \in Streams : Size(s) > MinFrames

\* is->buffer_indicator_queue
Indicator == IF "audio" \in Streams THEN "audio" ELSE "video"

\* ffp_check_buffering_l; whether the water mark is reached is left open.
CheckBuffering(i) ==
  IF Size(Indicator) > 0 /\ \A s \in Streams : Size(s) >= MinMinFrames
  THEN {i, ToggleBuffering(i, FALSE)} ELSE {i}

-----------------------------------------------------------------------------
(* The read thread's loop begins: at once, or when a start has ended its   *)
(* wait, in which case a pause may have followed.                          *)
Init ==
  /\ \E paused \in BOOLEAN :
       is = [pause_req |-> paused, paused |-> paused, aout_paused |-> paused,
             step |-> FALSE, buffering_on |-> FALSE, auto_resume |-> FALSE,
             seek_req |-> FALSE, seek_pos |-> 1]
  /\ rd = [pc |-> "top", todo |-> {}, pos |-> 1, loop |-> LoopCount, eof |-> FALSE,
           completed |-> FALSE, error |-> FALSE, broken |-> FALSE]
  /\ q = [s \in Streams |-> PacketPut([serial |-> 0, pkts |-> <<>>], FlushPacket)]
  /\ dec = [s \in Streams |-> [pc |-> "decode", pkt |-> FlushPacket, pkt_serial |-> 0,
                               finished |-> 0, codec |-> <<>>, draining |-> FALSE]]
  /\ frames = [s \in Streams |-> <<>>]
  /\ out = [s \in Streams |-> "idle"]
  /\ seeks = 0
  /\ from = <<1>>
  /\ at = [s \in Streams |-> <<1, 0>>]
  /\ late = [s \in Streams |-> FALSE]
  /\ ended = "no"

-----------------------------------------------------------------------------
(* The message loop's calls (ffp_start_l, ffp_pause_l, ffp_seek_to_l,      *)
(* ffp_start_from_l).                                                      *)

StartPlaying == "start" \in Calls /\ is' = TogglePause(is, FALSE)
PausePlaying == "pause" \in Calls /\ is' = TogglePause(is, TRUE)

\* stream_seek: dropped while another seek is pending.
StreamSeek(i, p) ==
  IF i.seek_req THEN i ELSE [i EXCEPT !.seek_req = TRUE, !.seek_pos = p]

SeekTo ==
  /\ "seek" \in Calls /\ seeks < MaxSeeks
  /\ \E p \in SeekTargets : is' = StreamSeek(is, p)

\* A restart from the beginning, asked for once completion was announced.
StartFrom ==
  /\ "restart" \in Calls /\ seeks < MaxSeeks
  /\ rd.completed /\ rd.pc # "complete" /\ ~rd.error
  /\ is' = StreamSeek(ToggleBuffering([is EXCEPT !.auto_resume = TRUE], TRUE), 1)

Application ==
  /\ \/ StartPlaying /\ UNCHANGED seeks
     \/ PausePlaying /\ UNCHANGED seeks
     \/ SeekTo /\ seeks' = seeks + 1
     \/ StartFrom /\ seeks' = seeks + 1
  /\ UNCHANGED <<rd, q, dec, frames, out, history>>

-----------------------------------------------------------------------------
(* The read thread.  rd.todo holds the streams the current step has left.  *)

Goto(pc) == rd' = [rd EXCEPT !.pc = pc]

\* The order the code goes through the streams in.
AudioFirst(s) == s \in rd.todo /\ (s = "audio" \/ "audio" \notin rd.todo)
VideoFirst(s) == s \in rd.todo /\ (s = "video" \/ "video" \notin rd.todo)

After(s, again, next) ==
  rd' = [rd EXCEPT !.todo = @ \ {s}, !.pc = IF rd.todo = {s} THEN next ELSE again]

\* The top of the loop: a seek request is served first.
ReadTop ==
  /\ rd.pc = "top"
  /\ IF is.seek_req
     THEN Goto("seek") /\ is' = ToggleBuffering(is, TRUE)
     ELSE Goto("room") /\ UNCHANGED is
  /\ UNCHANGED <<q, dec, frames, out, history>>

\* avformat_seek_file; a failed one leaves the input where it is.
ReadSeek ==
  /\ rd.pc = "seek"
  /\ \/ /\ rd' = [rd EXCEPT !.pc = "flush", !.todo = Streams, !.pos = is.seek_pos]
        /\ from' = Append(from, is.seek_pos)
     \/ Goto("sought") /\ UNCHANGED from
  /\ UNCHANGED <<is, q, dec, frames, out, at, late, ended>>

PutFlush(s) ==
  /\ q' = [q EXCEPT ![s] = PacketPut(@, FlushPacket)]
  /\ late' = [late EXCEPT ![s] = FALSE]

ReadFlush(s) ==
  /\ rd.pc = "flush" /\ AudioFirst(s)
  /\ q' = [q EXCEPT ![s] = PacketFlush(@)]
  /\ Goto("flushed")
  /\ UNCHANGED <<is, dec, frames, out, history>>

ReadFlushed(s) ==
  /\ rd.pc = "flushed" /\ AudioFirst(s)
  /\ PutFlush(s)
  /\ After(s, "flush", "sought")
  /\ UNCHANGED <<is, dec, frames, out, from, at, ended>>

\* auto_resume ends a pause, and a seek within a pause shows one frame.
SeekPlay(i) ==
  LET resumed ==
        IF i.auto_resume
        THEN StreamUpdatePause([i EXCEPT !.pause_req = FALSE, !.auto_resume = FALSE,
                                !.buffering_on = PacketBuffering \/ @])
        ELSE i
  IN  IF resumed.pause_req THEN StepToNextFrame(resumed) ELSE resumed

ReadSought ==
  /\ rd.pc = "sought"
  /\ is' = SeekPlay([is EXCEPT !.seek_req = FALSE])
  /\ rd' = [rd EXCEPT !.pc = "rebuffer", !.eof = FALSE, !.completed = FALSE]
  /\ ended' = "no"
  /\ UNCHANGED <<q, dec, frames, out, from, at, late>>

ReadRebuffer ==
  /\ rd.pc = "rebuffer"
  /\ is' = ToggleBuffering(is, TRUE)
  /\ Goto("room")
  /\ UNCHANGED <<q, dec, frames, out, history>>

\* Full queues end buffering; the thread sleeps 10 ms and starts over.
ReadRoom ==
  /\ rd.pc = "room"
  /\ IF ~is.seek_req /\ QueuesFull
     THEN /\ is' = IF rd.eof THEN is ELSE ToggleBuffering(is, FALSE)
          /\ Goto("top")
     ELSE /\ UNCHANGED is
          /\ IF is.paused /\ ~rd.completed THEN Goto("read")
             ELSE rd' = [rd EXCEPT !.pc = "drained1", !.todo = Streams]
  /\ UNCHANGED <<q, dec, frames, out, history>>

\* Mutant of Drained: the frame queue is looked at first.
DrainedSwapped(s, i) == IF i = 1 THEN frames[s] = <<>> ELSE dec[s].finished = q[s].serial

\* Mutant of Drained: the frame on show counts as remaining.
DrainedWithShown(s, i) ==
  IF i = 1 THEN dec[s].finished = q[s].serial ELSE frames[s] = <<>> /\ at[s][2] = 0

\* The end of the stream: these are read one by one, in this order.
Drained(s, i) == IF i = 1 THEN dec[s].finished = q[s].serial ELSE frames[s] = <<>>

ReadDrained(s) ==
  /\ AudioFirst(s)
  /\ \/ /\ rd.pc = "drained1"
        /\ Goto(IF Drained(s, 1) THEN "drained2" ELSE "read")
     \/ /\ rd.pc = "drained2"
        /\ IF Drained(s, 2) THEN After(s, "drained1", "over") ELSE Goto("read")
  /\ UNCHANGED <<is, q, dec, frames, out, history>>

\* Play again, wait for a seek, or stop.
ReadOver ==
  /\ rd.pc = "over"
  /\ \/ /\ rd.loop > 1
        /\ rd' = [rd EXCEPT !.pc = "read", !.loop = @ - 1]
        /\ is' = StreamSeek(is, 1)
     \/ /\ rd.loop = 1 /\ rd.completed /\ is.seek_req
        /\ Goto("top") /\ UNCHANGED is
     \/ /\ rd.loop = 1 /\ ~rd.completed
        /\ rd' = [rd EXCEPT !.pc = "complete", !.completed = TRUE]
        /\ is' = ToggleBuffering([is EXCEPT !.auto_resume = FALSE], FALSE)
  /\ UNCHANGED <<q, dec, frames, out, history>>

\* toggle_pause, and FFP_MSG_COMPLETED or FFP_MSG_ERROR.
ReadComplete ==
  /\ rd.pc = "complete"
  /\ is' = TogglePause(is, TRUE)
  /\ ended' = IF rd.error THEN "error" ELSE "completed"
  /\ Goto("read")
  /\ UNCHANGED <<q, dec, frames, out, from, at, late>>

\* av_read_frame returns a packet.
ReadPacket ==
  /\ rd.pc = "read" /\ ~rd.broken /\ rd.pos <= Len(Media)
  /\ IF rd.pos \in Discontinuities
     THEN /\ rd' = [rd EXCEPT !.pc = "discontinuity", !.todo = Streams, !.eof = FALSE]
          /\ from' = Append(from, rd.pos)
     ELSE rd' = [rd EXCEPT !.pc = "store", !.eof = FALSE] /\ UNCHANGED from
  /\ UNCHANGED <<is, q, dec, frames, out, at, late, ended>>

ReadDiscontinuity(s) ==
  /\ rd.pc = "discontinuity" /\ AudioFirst(s)
  /\ PutFlush(s)
  /\ After(s, "discontinuity", "store")
  /\ UNCHANGED <<is, dec, frames, out, from, at, ended>>

ReadStore ==
  /\ rd.pc = "store"
  /\ q' = [q EXCEPT ![Media[rd.pos]] = PacketPut(@, rd.pos)]
  /\ rd' = [rd EXCEPT !.pc = "check", !.pos = @ + 1]
  /\ UNCHANGED <<is, dec, frames, out, history>>

\* The check of the buffers after a packet, made from time to time.
ReadCheck ==
  /\ rd.pc = "check"
  /\ is' \in CheckBuffering(is)
  /\ Goto("top")
  /\ UNCHANGED <<q, dec, frames, out, history>>

\* av_read_frame fails at the end of the file.
ReadEnd ==
  /\ rd.pc = "read" /\ ~rd.broken /\ rd.pos > Len(Media)
  /\ IF rd.eof THEN Goto("eof") /\ UNCHANGED is
     ELSE /\ rd' = [rd EXCEPT !.pc = "null", !.todo = Streams]
          /\ is' \in CheckBuffering(is)
  /\ UNCHANGED <<q, dec, frames, out, history>>

\* av_read_frame fails on a broken input, from now on each time.
ReadBroken ==
  /\ rd.pc = "read" /\ (MayBreak \/ rd.broken)
  /\ rd' = [rd EXCEPT !.pc = "null", !.todo = Streams, !.broken = TRUE]
  /\ is' \in IF rd.eof THEN {is} ELSE CheckBuffering(is)
  /\ UNCHANGED <<q, dec, frames, out, history>>

ReadNull(s) ==
  /\ rd.pc = "null" /\ VideoFirst(s)
  /\ q' = [q EXCEPT ![s] = PutEnd(@, rd.broken)]
  /\ After(s, "null", "eof")
  /\ UNCHANGED <<is, dec, frames, out, history>>

\* Mutant of ReadEof: buffering is left to the water marks.
ReadEofKeepsBuffering ==
  /\ rd.pc = "eof"
  /\ rd' = [rd EXCEPT !.pc = "top", !.eof = TRUE, !.error = rd.broken]
  /\ UNCHANGED <<is, q, dec, frames, out, history>>

ReadEof ==
  /\ rd.pc = "eof"
  /\ rd' = [rd EXCEPT !.pc = "top", !.eof = TRUE, !.error = rd.broken]
  /\ is' = ToggleBuffering(is, FALSE)
  /\ UNCHANGED <<q, dec, frames, out, history>>

ReadThread ==
  /\ \/ ReadTop \/ ReadSeek \/ ReadSought \/ ReadRebuffer \/ ReadRoom
     \/ ReadOver \/ ReadComplete \/ ReadPacket \/ ReadStore \/ ReadCheck
     \/ ReadEnd \/ ReadBroken \/ ReadEof
     \/ \E s \in Streams : \/ ReadFlush(s) \/ ReadFlushed(s) \/ ReadDrained(s)
                           \/ ReadDiscontinuity(s) \/ ReadNull(s)
  /\ UNCHANGED seeks

-----------------------------------------------------------------------------
(* The decoders: decoder_decode_frame in a loop with the push of its frame. *)

\* Mutant of AtEnd: the end of the file comes before the last frame.
AtEndEarly(d) == d.draining

\* AVERROR_EOF: the codec has been sent the null packet and has no frame left.
AtEnd(d) == d.draining /\ d.codec = <<>>

\* The codec's answer to avcodec_receive_frame.
Receive(s) ==
  /\ dec[s].pc = "decode"
  /\ \/ /\ dec[s].pkt_serial = q[s].serial /\ dec[s].codec # <<>>
        /\ dec' = [dec EXCEPT ![s].pc = "push"]
     \/ /\ dec[s].pkt_serial = q[s].serial /\ AtEnd(dec[s])
        /\ dec' = [dec EXCEPT ![s].finished = dec[s].pkt_serial, ![s].draining = FALSE]
     \/ /\ dec[s].pkt_serial = q[s].serial
        /\ ~dec[s].draining /\ Len(dec[s].codec) <= CodecDelay
        /\ dec' = [dec EXCEPT ![s].pc = "get"]
     \/ /\ dec[s].pkt_serial # q[s].serial
        /\ dec' = [dec EXCEPT ![s].pc = "get"]
  /\ UNCHANGED <<is, q, frames>>

\* Mutant of Push: the decoder does not wait for a free slot.
PushNoWait(s) ==
  /\ dec[s].pc = "push"
  /\ frames' = [frames EXCEPT ![s] =
       Append(@, [pos |-> Head(dec[s].codec), serial |-> dec[s].pkt_serial])]
  /\ dec' = [dec EXCEPT ![s].pc = "decode", ![s].codec = Tail(@)]
  /\ UNCHANGED <<is, q>>

\* The frame keeps the serial of the packet the decoder took last.
Push(s) ==
  /\ dec[s].pc = "push" /\ Len(frames[s]) < FrameSlots
  /\ frames' = [frames EXCEPT ![s] =
       Append(@, [pos |-> Head(dec[s].codec), serial |-> dec[s].pkt_serial])]
  /\ dec' = [dec EXCEPT ![s].pc = "decode", ![s].codec = Tail(@)]
  /\ UNCHANGED <<is, q>>

\* packet_queue_get; what follows the end of a serial is dropped when buffering.
Dequeue(s) ==
  LET p == Head(q[s].pkts)
  IN  /\ q[s].pkts # <<>>
      /\ q' = [q EXCEPT ![s].pkts = Tail(@)]
      /\ dec' = [dec EXCEPT ![s].pkt = p.pkt, ![s].pkt_serial = p.serial,
           ![s].pc = IF PacketBuffering /\ dec[s].finished = p.serial
                     THEN "get" ELSE "got"]
      /\ UNCHANGED <<is, frames>>

\* packet_queue_get_or_buffering, on an empty queue.
Starve(s) ==
  /\ dec[s].pc = "get" /\ PacketBuffering /\ q[s].pkts = <<>>
  /\ dec' = [dec EXCEPT ![s].pc =
       IF s = Indicator /\ dec[s].finished = 0 THEN "starved" ELSE "wait"]
  /\ UNCHANGED <<is, q, frames>>

StartBuffering(s) ==
  /\ dec[s].pc = "starved"
  /\ is' = ToggleBuffering(is, TRUE)
  /\ dec' = [dec EXCEPT ![s].pc = "wait"]
  /\ UNCHANGED <<q, frames>>

\* avcodec_flush_buffers, and a new serial has not finished.
FlushCodec(d) == [d EXCEPT !.codec = <<>>, !.draining = FALSE, !.finished = 0]

\* A packet of an older serial is dropped; the others go to the codec.
Send(s) ==
  LET d == dec[s]
  IN  /\ d.pc = "got"
      /\ dec' = [dec EXCEPT ![s] =
           IF d.pkt_serial # q[s].serial THEN [d EXCEPT !.pc = "get"]
           ELSE IF d.pkt = FlushPacket
           THEN [FlushCodec(d) EXCEPT !.pc = "decode"]
           ELSE IF d.pkt = EndPacket
           THEN [d EXCEPT !.pc = "decode", !.draining = TRUE]
           ELSE [d EXCEPT !.pc = "decode", !.codec = Append(@, d.pkt)]]
      /\ UNCHANGED <<is, q, frames>>

Decoder(s) ==
  /\ \/ Receive(s) \/ Push(s) \/ Starve(s) \/ StartBuffering(s) \/ Send(s)
     \/ dec[s].pc \in {"get", "wait"} /\ Dequeue(s)
  /\ UNCHANGED <<rd, out, seeks, history>>

-----------------------------------------------------------------------------
(* The refresh thread (video_refresh) and the audio callback.              *)

Take(s) == frames' = [frames EXCEPT ![s] = Tail(@)]

\* Mutant of Stale: every frame is shown.
NeverStale(s) == FALSE

Stale(s) == Head(frames[s]).serial # q[s].serial

Render(s) ==
  LET f == Head(frames[s])
  IN  /\ at' = [at EXCEPT ![s] = <<f.serial, f.pos>>]
      /\ late' = [late EXCEPT ![s] = @ \/ f.serial # q[s].serial]

\* A frame of an older serial is taken and not shown.
VideoSkip ==
  /\ out["video"] = "idle" /\ frames["video"] # <<>> /\ Stale("video")
  /\ Take("video")
  /\ UNCHANGED <<is, out, at, late>>

\* Past the tests of the serial, of is->paused and of the frame timer.
VideoDue ==
  /\ out["video"] = "idle" /\ frames["video"] # <<>> /\ ~Stale("video")
  /\ ~is.paused
  /\ out' = [out EXCEPT !["video"] = "due"]
  /\ UNCHANGED <<is, frames, at, late>>

VideoShow ==
  /\ out["video"] = "due"
  /\ Take("video") /\ Render("video")
  /\ out' = [out EXCEPT !["video"] = "shown"]
  /\ UNCHANGED is

\* A frame shown ends the step.
VideoStep ==
  /\ out["video"] = "shown"
  /\ is' = IF ~is.step THEN is
           ELSE LET i == [is EXCEPT !.step = FALSE]
                IN  IF i.paused THEN i ELSE StreamUpdatePause(i)
  /\ out' = [out EXCEPT !["video"] = "idle"]
  /\ UNCHANGED <<frames, at, late>>

\* The callback outputs silence while paused or stepping.
AudioAsk ==
  /\ out["audio"] = "idle"
  /\ ~is.aout_paused /\ ~is.paused /\ ~is.step
  /\ out' = [out EXCEPT !["audio"] = "read"]
  /\ UNCHANGED <<is, frames, at, late>>

\* It takes frames until one of the queue's serial comes.
AudioTake ==
  /\ out["audio"] = "read" /\ frames["audio"] # <<>>
  /\ Take("audio")
  /\ IF Stale("audio") THEN UNCHANGED <<out, at, late>>
     ELSE Render("audio") /\ out' = [out EXCEPT !["audio"] = "idle"]
  /\ UNCHANGED is

Output(s) ==
  /\ \/ s = "video" /\ (VideoSkip \/ VideoDue \/ VideoShow \/ VideoStep)
     \/ s = "audio" /\ (AudioAsk \/ AudioTake)
  /\ UNCHANGED <<rd, q, dec, seeks, from, ended>>

-----------------------------------------------------------------------------
Next ==
  \/ Application
  \/ ReadThread
  \/ \E s \in Streams : Decoder(s) \/ Output(s)

\* Every thread runs; the application owes nothing.
Spec ==
  /\ Init /\ [][Next]_vars
  /\ WF_vars(ReadThread)
  /\ \A s \in Streams : WF_vars(Decoder(s)) /\ WF_vars(Output(s))

-----------------------------------------------------------------------------
RdPcs == {"top", "seek", "flush", "flushed", "sought", "rebuffer", "room", "drained1",
          "drained2", "over", "complete", "read", "discontinuity", "store", "check",
          "null", "eof"}

TypeOK ==
  /\ is \in [pause_req : BOOLEAN, paused : BOOLEAN, aout_paused : BOOLEAN,
             step : BOOLEAN, buffering_on : BOOLEAN, auto_resume : BOOLEAN,
             seek_req : BOOLEAN, seek_pos : Positions]
  /\ rd.pc \in RdPcs /\ rd.todo \subseteq Streams /\ rd.pos \in Positions
  /\ \A s \in Streams :
       /\ q[s].serial \in 1..Len(from)
       /\ \A i \in DOMAIN q[s].pkts :
            /\ q[s].pkts[i] \in Packet
            /\ q[s].pkts[i].serial <= q[s].serial
       /\ dec[s].finished <= dec[s].pkt_serial /\ dec[s].pkt_serial <= q[s].serial
       /\ Len(dec[s].codec) <= CodecDelay + 1
       /\ Len(frames[s]) <= FrameSlots
  /\ from \in Seq(Positions)

\* The queues stop growing: however long an input stays broken, they hold no
\* more than the limit, what one pass of the read thread adds to it, and one
\* pass more for each seek, which lets a pass by the test for full queues
\* (ff_ffplay.c:3542) and which need not empty the queues when it fails.
QueuesBounded ==
  Size("audio") + Size("video")
    <= MaxBufferSize + 2 * Cardinality(Streams) * (1 + seeks)

\* A decoder that has finished the current serial leaves nothing of it behind:
\* not in its codec, not in the packet queue, not unread in the file.  The end
\* of the stream is decided on it (ff_ffplay.c:3563).
FinishedIsFinal ==
  \A s \in Streams :
    dec[s].finished = q[s].serial /\ rd.pc \notin {"flush", "flushed", "discontinuity", "store"} =>
      /\ dec[s].codec = <<>>
      /\ \A i \in DOMAIN q[s].pkts : q[s].pkts[i].pkt \in {FlushPacket, EndPacket}
      /\ rd.broken \/ Rest(s, rd.pos) = {}

\* Every stream is presented in order and without a gap from where the last
\* seek went, at most one frame of an older serial is shown after the flush
\* (the test at ff_ffplay.c:1340), and completion is announced after the last
\* frame and not before (3563-3567).
IsPlayback == Promise!PlaybackSpec

\* Buffering ends, whatever pauses, seeks and empty queues begin it.
BufferingEnds == is.buffering_on ~> ~is.buffering_on

\* A stream that is not paused comes to its end, unless it is paused first.
PlaybackEnds == ~is.pause_req ~> (is.pause_req \/ rd.completed)

\* The frame that ends a step within a pause is one of the seek that asked for it
\* (one seek, no discontinuity).
StepShowsNewFrame ==
  [][out["video"] = "shown" /\ out'["video"] = "idle" /\ is.step
       => at["video"][1] = Len(from)]_vars
================================================================================
