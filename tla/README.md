# Verification of ijkplayer

TLA+ models of the player core of this repository, TLC runs that check them on small
instances, and proofs checked by TLAPS. Paths below are relative to
`src/IjkPlayerDebug/app/src/main/cpp/`.

## 1. The system

ijkplayer is FFmpeg's `ffplay` turned into a media player with Android's MediaPlayer
API. One player has these threads:

| thread | code | what it does |
|---|---|---|
| application threads | `ijkplayer/android/ijkplayer_jni.c` | call the player, each under a reference |
| message loop (`ff_msg_loop`) | `ijkmp_get_msg`, `message_loop_n` | takes messages off the queue, changes the state, posts events to Java |
| read thread (`ff_read`) | `read_thread` in `ijkplayer/ff_ffplay.c` | opens, reads packets, seeks, reports the end |
| decoders | `audio_thread`, `video_thread`, `subtitle_thread` | packets to frames |
| refresh thread (`ff_vout`) | `video_refresh_thread` | shows pictures and subtitles, polling |
| audio output | `sdl_audio_callback` | asks for samples, blocking |
| I/O background threads | `ijkavformat/ijkasync.c`, `ijkiocache.c`, `ijkavutil/ijkthreadpool.c` | read ahead of the read thread |

### Components, their state and what makes them correct

* **Player object** (`ijkplayer.c`, `ijkplayer.h`). State: `mp_state`, `seek_req`,
  `seek_msec`, `restart*`, `ref_count`, under `mp->mutex` except the count. Calls only queue
  requests (`FFP_REQ_START`, `FFP_REQ_PAUSE`, `FFP_REQ_SEEK`); the message loop carries
  them out. Correct if the state agrees with the stream, if no state changes after a stop,
  and if the player is freed once, after its last user; a message thread is one until it has
  returned, since its `SDL_Thread` lies in the player (`ijksdl/ijksdl_thread.c:41`).
* **Message queue** (`ff_ffmsg_queue.h`). A FIFO with an abort flag, under its own mutex. A
  message is taken off before `mp->mutex` is locked.
* **JNI layer** (`android/ijkplayer_jni.c`). `jni_get_media_player` takes a reference under
  `g_clazz.mutex`; `release` shuts down, clears `weak_thiz`, takes the player from the Java
  object and drops its references.
* **Stream engine** (`ff_ffplay.c`). `VideoState`: packet queues with serial numbers,
  decoders with `finished`, frame queues, `pause_req`/`step`/`buffering_on`/`paused` under
  `play_mutex`, `seek_req`, `abort_request`. Correct if what was read before a seek is not
  shown after it, if completion is reported once everything was shown, if seeks are
  answered, and if a close joins every thread.
* **Frame queues** (`ff_ffplay.c:684-796`). A ring per stream; indices written outside the
  mutex, one condition variable. Correct if it is a FIFO, if the decoder never writes a slot
  in use, if the frame on show stays, and if nobody sleeps through a wake-up.
* **Accurate seek** (`ff_ffplay.c:1531-1655`, `2028-2150`, `3466-3483`, `4447-4452`). After a seek
  each decoder drops frames up to the target and then waits for the other, with a timeout.
  State: `audio_accurate_seek_req`, `video_accurate_seek_req`, `seek_pos`,
  `accurate_seek_start_time`, the last pts of each stream, the drop counters, all under
  `accurate_seek_mutex` only while a decoder waits or is done. Correct if a seek is completed once, if both streams
  resume from the target together, and if no frame is held for ever.
* **Async protocol** (`ijkplayer/ijkavformat/ijkasync.c`). A ring buffer with history between a
  background thread and the reader; `logical_pos`, a seek request and its completion, the
  error and end flags, one mutex and two condition variables. Correct if the caller cannot
  tell it from the file, if nobody sleeps while it has something to do, and if calls return.
* **Cached I/O** (`ijkavformat/ijkiocache.c`, `ijkiomanager.c`). A tree of cached ranges, a
  cache file whose descriptor and offset are shared, the two positions of reader and task, a map
  of the tree saved by the manager and parsed by the next. Correct if every range is the
  file's, over flushes, crashes and a cache file that shrank, and if the caller cannot tell it from the file.
* **Thread pool and containers** (`ijkavutil/`). A ring of tasks that grows, a count of threads,
  three shutdown states, one mutex and one condition variable. The player makes it with five
  threads and five slots (`ijkiomanager.c:50`), so it can grow, and destroys it with
  `IMMEDIATE_SHUTDOWN` (151). Correct if accepted tasks run once and in order, if no worker sleeps
  while tasks wait, and if a destroy ends. The tree (`ijktree.c`) is the ordered map of `IOCache`.
* **MediaCodec decoder node, audio and video output, clocks, URL hooks, Java API, example
  application, vendored libraries**: see section 8.

### Hard behaviours

Reference counting across JNI calls, the loop and `reset`; shutdown without the mutex;
messages handled after the call that overtook them; `auto_resume`, `step` and `pause_req`
shared by three threads; queue indices outside mutexes; one signal for several sleepers;
serial numbers compared without locks; end of stream decided from four unlocked reads; two
decoders that wait for each other while both requests and the target change; background
threads that work outside their mutex; a file descriptor's offset shared and remembered; a
map on disk older than the file it describes; rings that lap.
`PROJECT.json` lists them one by one with their lines.

## 2. Modules

| module | models | state and actions |
|---|---|---|
| `MessageQueue` | `ff_ffmsg_queue.h` | one function per operation, each one section of `q->mutex` |
| `IjkMediaPlayer` | `ijkplayer.c`, the JNI calls, the messages of `read_thread` | below |
| `MCPlayer` | - | instance of `IjkMediaPlayer` for TLC |
| `IjkMediaPlayerProofs` | - | theorems about `IjkMediaPlayer` |
| `PlayerSessionProofs` | - | theorems about `IjkMediaPlayer` with one application thread |
| `FrameFifo` | what a frame queue promises | `Push`, `Take` |
| `FrameQueue` | a frame queue with its writer, reader and closer | below |
| `MCFrameQueue` | - | instance for TLC |
| `FrameQueueProofs` | - | theorems about `FrameQueue`, its refinement of `FrameFifo` among them |
| `MediaFile` | the file: the stream of each packet | constants and positions |
| `Playback` | what the engine promises whoever watches | `NewGeneration`, `Join`, `Present`, `Complete`, `Fail`, `Resume` |
| `StreamPipeline` | read thread, packet queues, decoders, refresh thread, audio callback | below |
| `MCPipeline` | - | instances of `StreamPipeline` for TLC |
| `StreamPipelineProofs` | - | theorems about `StreamPipeline` |
| `AccurateSeek` | the filters of both decoders, the read thread's seek, the stop | below |
| `AccurateSeekProofs` | - | theorems about `AccurateSeek` |
| `FileReader` | what a reader of a file sees, whatever protocol is below | `Deliver`, `End`, `Fail`, `Move`, `Restart` |
| `AsyncIO` | `ijkasync.c` | below |
| `AsyncIOProofs` | - | theorems about `AsyncIO`, its refinement of `FileReader` among them |
| `IOCache` | `ijkiocache.c` with the manager's open, save, parse and destroy | below |
| `IOCacheProofs` | - | theorems about `IOCache`, its refinement of `FileReader` among them |
| `ThreadPool` | `ijkthreadpool.c` | below |
| `ThreadPoolProofs` | - | theorems about `ThreadPool` |
| `MCAccurateSeek`, `MCAsyncIO`, `MCIOCache`, `MCThreadPool` | - | instances for TLC |

`FrameFifo`, `Playback` and `FileReader` are abstract specifications: `FrameQueue` implements the first,
`StreamPipeline` the second, `AsyncIO` and `IOCache` both implement the third, each through an
`INSTANCE ... WITH` or an instance over variables of the same name.

**IjkMediaPlayer.** `mp_state` is the field; `mp` holds the other fields `mp->mutex` guards;
`jobj` is the Java object's `mNativeMediaPlayer` and whether `weak_thiz` is set; `ffp` and
`is` are the fields of `FFPlayer` and `VideoState` that the read thread and the player
share; `read.pc`, `pc` and `hand` say where each thread is and which message it holds.
`calls`, `resetting`, `life` and `read.errored` are bookkeeping.
A JNI call is `Enter` (the reference), the call's own action, `DecRef`. A section under
`mp->mutex` is one step (`Handle*`, `Start`, `SeekTo`, ...), except `ijkmp_stop_l`
(`Stop`, `StopAbort`), whose middle the read thread can see, so `MutexFree` keeps others
out. `ijkmp_shutdown` takes no mutex and is three to four steps (`Shutdown*`). A message thread that
has dropped its reference is at "return", or at "return_freed" if it freed the player itself, until
`SDL_RunThread` has written its retval into `mp->_msg_thread` (`LoopReturn`); `Destroy` waits for that of
the thread started last, unless it is the thread itself. The read
thread's steps follow the order of `read_thread`, one step for each write or message.
`is.paused` is kept as the code keeps it: recomputed by `stream_update_pause_l`, with `step`
cleared only afterwards.
`Drain` stands for reading and playing everything to the end of the file or to an error; it
is not fair, as playing may take for ever.

**FrameQueue.** `queue`, `rindex`, `rindex_shown`, `windex`, `size` are the fields of the
C struct. Each write outside `f->mutex` is a step (`Fill`, `PushIndex`, `NextShow`,
`NextIndex`), each section under it one (`PeekWritable`, `PushSize`, `PeekReadable`,
`NextSize`). `waiting` is the set of threads asleep on `f->cond`; `Signal` wakes any one.
`Abort`, `AbortSignal`, `Join`, `JoinAout` are `stream_component_close`, `Reopen` is
`decoder_start`, which leaves the frame queue as it was. `stream` says whose queue it is: picture
and sample queues keep the last frame, the subtitle queue does not; the sample queue's reader
waits, the others poll.

**StreamPipeline.** `is` holds the fields under `play_mutex` with `seek_req` and the audio
output's pause; `rd` is the read thread with the fields it owns (`eof`, `completed`,
`error`, the input's position and health); `q[s]` is a packet queue, `dec[s]` a decoder with
its codec (the packets it has not given a frame for), `frames[s]` a frame queue as the FIFO
that `FrameQueue` implements, `out[s]` where the refresh thread or the audio callback is.
A packet is its position in the file, 0 the flush packet, `EndPacket` the null packet. The
actions `Read*` follow `read_thread` from top to bottom; `Receive`, `Send`, `Starve`,
`Dequeue`, `Push` are `decoder_decode_frame` and the push after it; `Video*` are
`video_refresh`, cut between its serial test and the showing of the frame, and between that
and the end of the step; `Audio*` are `audio_decode_frame`. A section under `play_mutex` or
a packet queue's mutex is one step, and the unlocked tests of the end (`Drained`), of the
serial and of the queue sizes are steps of their own. Whether a water mark is reached, when a frame
is due and whether a seek or a read fails are left open.
`from`, `at`, `late` and `ended` are history: where each generation began, the last frame of
each stream, whether an old frame came after the flush, what was announced. They are the
variables of `Playback`; `current` is mapped to the packet queues' serials. A failed seek begins no
generation; a discontinuity begins one where the input stands.

**AccurateSeek.** A frame is its position; `Deviation` is `MAX_DEVIATION` (by how much a frame may
miss the target), `Level` the 100 ms by which one decoder may be ahead of the other; `start` is
`accurate_seek_start_time`: unset, running, or past `accurate_seek_timeout`. `SetSeekPos` and `SetSeekReq` are
`stream_seek`; `SeekFile`, `Flush`, `Seeked` and `Arm` the read thread's seek in its order, the two queues one after the
other. A decoder's filter is cut where the code reads shared fields without the mutex: `Decode`, the test of
the request and of the target (`Test`, `Pass`), the loop that keeps the decoders level (`LeaveLevel`), the comparison before
the mutex (`There`), the section under it up to the wait (`ReachTarget`, `GiveUp`), the wait's end by signal
(`Woken`) or by timeout (`WaitTimesOut`), and the locals put back (`Reset`). `Abort` and `AbortSignal` are
`ffp_stop_l`. A seek that fails in `avformat_seek_file` still arms the filter, and a frame decoded before the
flush may still be in a decoder's hand and end the request early, as in the code. `armed`, `seen`, `timed_out`,
`crossed`, `completes` are history.

**FileReader** has a position and the answer to the last call, and the steps `Deliver`, `End`, `Fail`, `Move` and
`Restart`: the bytes that follow the position, the end at the end only, a failure that moves nothing, a seek. It is what libavformat
relies on in a protocol.

**AsyncIO.** The variables are the fields of `Context` under their names. `fifo` is the content of the
ring's `AVFifoBuffer` and `read_pos` the place in it; a byte is
its offset in the file, so a byte out of place is visible. A section under the mutex is one step; the
inner read into the ring runs without it: `FindRoom` lets go of the mutex, `Fill` reads, `Filled` takes the
mutex again. `Read*` are `async_read_internal`, `Seek*`, `RequestSeek`, `AwaitSeek` are
`async_seek`, `SeekInner` is the thread's side of it. `asleep` is the set of threads inside
`pthread_cond_wait`; a signal takes its thread out of it. The inner protocol may read less than asked, and may fail to
read or to seek.

**IOCache.** `disk` is the content of the cache file, each byte an offset of the media file, so that
a range that points at the wrong place shows; `tree_info` is the tree as a set of entries
(`Floor`, `NextStart`, `Holding` are its find); `fd_pos` is the descriptor's offset and `cache_physical_pos`
what the context believes of it. `Sync*` are the mode without a task, in which the caller fetches what it misses;
`Read*`, `Seek*` and the task's steps are the other mode, the task's tests
outside the mutex being steps of their own. `Open`, `Close`, `Closed`, `Destroy` are the calls with what the manager saves and parses in
them; `Die` leaves `disk` and
`map` and nothing else, and `Shorten` is the cache file found cut short in the next session. `stale` marks a map whose
process died after the cache file was filled again from its start: after a flush, or after an open that found the
file too short for the map (607-615: the tree is dropped, the map stays on disk).

**ThreadPool.** `queue`, `queue_size`, `queue_head`, `queue_tail`, `pending_count`, `shutdown` are the fields; a slot never
written holds `Garbage`, so that memory `realloc` gave is told from a task. `Add` is one section of the
mutex with the growth inside it, which may fail; a worker sleeps, wants the lock, runs a task or has left; `Destroy`
sets the shutdown and wakes everybody, `Joined` is the end of its joins. `task` is what each worker took last, and tasks are numbered
as accepted.

## 3. Runs

| run | question | instance |
|---|---|---|
| `player_one` | state against stream, seeks answered, release returns | 1 caller, 4 calls, both values of start-on-prepared; 335,104 states |
| `player_shared` | references and lifetime under two callers, seeks past the end, a looping stream | 2 callers, 1 releaser, 5 calls; 4,772,089 states |
| `stopped_player` | STOPPED stays STOPPED | violated |
| `frame_queue` | exclusion, kept frame, wake-ups, close and reopen, refinement of `FrameFifo`, for all three streams | 4 slots, 6 frame numbers; 10,133 states |
| `pipeline_video` | a buffered stream under every call, looped: refinement of `Playback`, liveness | 2 packets, a codec with delay, 1 seek or restart |
| `pipeline_both` | two streams, a discontinuity, an input that breaks: refinement, bounded queues | 2 packets, 1 seek, no buffering |
| `accurate_seek` | completions, the rendezvous and the waits of accurate seek | positions 1 and 2, 2 seeks; 950,286 states |
| `accurate_seek_early` | accurate seek is given up after its timeout only | violated |
| `async_io` | the async protocol is a file reader, no one sleeps in vain, calls return | 5 bytes, ring of 2 + 1; 311,538 states |
| `thread_pool` | order, once, wake-ups, both shutdowns | 3 workers, ring of 3, 8 tasks; 68,438 states |
| `thread_pool_growth` | tasks stay in order in a ring that grows | violated |
| `io_cache` | ranges over flush, crash and truncation; the cache is a file reader; calls return | 3 bytes, 3 opens; 1,936,581 states |

Properties: `RefCountExact` - the count is the number of holders; `FreedIsUnused` -
no call and no loop is inside a freed player, and the message thread that was joined has returned; `PausedIsPaused` - state PAUSED means a pause request;
`StartedIsRunning` - state STARTED over a paused stream is about to be resolved;
`SeekIsAnswered` - a reported seek target is given up again; `ReleaseFrees` - release and
reset come back with the player freed; `WriterAlone`, `ShownIsKept`, `NoLostWakeup`,
`AbortFinishes`, `IsFifo` - section 1; `IsPlayback` - every stream is presented in order and
without a gap from where its generation began, one frame of an older generation may come after the
flush and no more, and completion is announced once nothing is left; `FinishedIsFinal` - a
decoder that has finished the current serial has nothing of it left in codec, queue or file;
`QueuesBounded` - null packets of a broken input do not pile up; `BufferingEnds` -
buffering is switched off again; `PlaybackEnds` - a stream that stays unpaused completes;
`CompletesOnce` - an accurate seek is reported done at most once; `ResumeTogether` - neither
stream goes on from the target before the other is there, a timeout or another seek apart; `StopWakesDecoders` - a stop leaves no decoder
waiting for its timeout; `FramesAreReleased` - no frame is held for ever;
`SleepersHaveNothingToDo`, `SleepersHaveAPartner` - a thread asleep has nothing to do, or
somebody who will signal it; `IsFileReader` - reads and seeks answer as those of a plain file; `CallsReturn` -
every call (of the cache, every read and seek) comes back; `RangesAreOfTheFile` - what the tree says is
in the cache file is there; `PendingInOrder`, `TakenOnce` - the ring between head and tail is what was
accepted and not yet taken, in order, and no task is run twice or made up; `IdleWorkersAreWoken` - no worker
sleeps while more tasks wait than workers are up for them; `AcceptedTasksRun`, `DestroyReturns` - what they say.

`IsPlayback` allows the one late frame because the code does: `video_refresh` tests the
serial without the queue's mutex. `FreedIsUnused` excepts one write, the retval of a message thread that nobody joined (section 5).
`PlaybackEnds` is content with `rd.completed`, as a
start handled after the end waits for a seek to play again. `IsFileReader` of `IOCache` allows one
early end of file (`EarlyEnd`): the task sets `io_eof_reached` before `io_error` for a read that failed, and
sets no error at all for a seek that failed (`ijkiocache.c:420-450`). `RangesAreOfTheFile` excepts a
map out of date when the process dies. A flush makes it so, and so does an open that passes the map
over because the cache file was cut short (`ijkiocache.c:608-615`): neither touches the map on disk, which
a later session believes once the file is long enough again. Closing and pausing the
cache are not in its `CallsReturn`: the task tests the abort and then waits without testing again
(510-514), so that the signal of a close (1088-1092) can be lost and the close wait for ever.

Eight more configurations are kept beside these: `PlayerPrepareAgain`, `PlayerPrepareRace`, `PlayerPauseTwice`,
`PlayerLostStart`, `PlayerLateReturn` (`MCPlayer`), `PipelineStep`, `PipelineStall` (`MCPipeline`), `AsyncIODrain`
(`MCAsyncIO`). Each ends in the violation that section 5
describes.

## 4. Bounds and fairness

**Player and frames.** `MaxCalls` bounds the calls: four reach prepare, one request and a release;
five across two threads add the calls that race it. `player_one` has one
caller, as what it says of state and stream is about one session (section 6 proves it for any number of calls). `Loops` has two message threads: a third prepare
is refused or ends in the failed assertion. `Positions` needs one target inside the file and one past its
end. A ring of four slots with one on show leaves three, enough for both off-by-ones and for a
writer and a reader that are both between two writes; frame numbers are
reused after six, more than the ring holds.

**Pipelines.** `MaxBufferSize` counts packets: with two packets in the file and null
packets besides, the limit is reached. `FrameSlots` is one frame beyond the one on show, so
decoders block. `CodecDelay` makes the codec drain at the end. `pipeline_video` buffers
with one stream, where buffering does end; with two it may not (`PipelineStall`, whose file is
longer so that one queue is full while the other is empty). `pipeline_both` therefore has no
buffering, and it leaves out the calls that only pause, which `pipeline_video` has. `MaxSeeks`
is one: a seek meets every stage of the pipeline, its own flush, the loop's seek and the end.

**Accurate seek.** Two positions, beside "no frame yet", put a frame before, at and after a target; a second seek abandons the first
at each of its stages. `Deviation` is 0 where it only widens what passes and 1 in the early run, where the tolerance decides.
The timeout may come at any moment the clock runs.

**Async protocol.** Five bytes through a ring of three, in inner reads of two, lap the ring, leave short reads
and a last chunk; one byte of history and `ShortSeek` 2 let a seek go back inside the history, skip ahead inside and outside the ring, and
restart the thread; every read has every legal length up to `MaxRead`.

**Cache.** Three bytes and a capacity of three force a flush; reads of two cross the border of two entries;
three opens, of either kind, around a save, a crash and a truncation: a map passed over by the second session is
believed by the third. Four bytes (3.5 million states) pass too, without `CallsReturn`. `MaxCapacity > Forwards + Chunk` is assumed: below it the task flushes
what it has just fetched and never rests.

**Thread pool.** Three slots and eight tasks lap the ring more than twice. The ring does not grow in
`thread_pool` because its order is lost when it does (`thread_pool_growth`).

Message counts, references and threads are otherwise unbounded.

**Deadlock** is checked except in five instances that really stop: `pipeline_both`, where the application only seeks,
so that the system stops after the last frame of a paused or finished file; the two of accurate seek, which
end when the file and the seeks are used up; those of the pool, which end with its
destruction; and `io_cache`, which ends when its last open is closed or its close hangs (above).
`Next` of the player has a stuttering disjunct for
a system with no calls left, so a deadlock there means a thread stuck inside a call; `AsyncIO`'s likewise.

**Fairness.** Weak fairness on each thread's steps: the scheduler runs threads that can
run, mutexes are held for bounded sections. None on callers making calls, on the stream
reaching its end, on a stream being closed or opened, nor on an idle reader. In the pipelines the read thread, each
decoder and each output are fair: they loop until the close, sleeping with timeouts or on
conditions that are signalled when what they wait for comes; the application is not. In accurate seek time passes, since
`SDL_CondWaitTimeout` has a timeout; nothing says that a stream has another frame. In the I/O modules the inner protocol
returns (its interrupt callback and its own timeouts make it) and the calling thread goes on inside a call. A task of the pool
returns, or a destroy could not. A process with a failed
assertion does nothing more.

## 5. What the violated configurations show

Each of the first three states a sentence of the repository and TLC finds the code's behaviour against it;
`PROJECT.json` quotes the lines.

1. `stopped_player`: a COMPLETED in the loop's hand at the time of `stop` makes the stopped
   player COMPLETED.
2. `accurate_seek_early`: the comment at `ff_ffplay.c:1574` gives accurate seek up when the key frame is too
   far. `accurate_seek_start_time` is only set while the other stream's request is still set, so a decoder that
   comes last compares the clock with zero and gives up on its first frame.
3. `thread_pool_growth`: `realloc` grows the ring without moving what has wrapped. Slots never written come
   between head and tail, and tasks fall out.

The other configurations show behaviours of the same kind:

4. `PlayerPrepareAgain`: stop keeps `ffp->is`; prepare asserts it is NULL. `ijkplayer.h` allows
   the sequence.
5. `PlayerPrepareRace`: a prepare that holds a reference opens a stream after the shutdown; its loop is
   then the last user for ever.
6. `PlayerPauseTwice`: `toggle_pause_l` computes `paused` before it clears `step`. A pause
   that comes between a paused seek and its frame leaves `paused = 0`.
7. `PipelineStep`: the refresh thread tests a frame's serial, a paused seek flushes the queues and
   asks for a step, the refresh thread shows that frame and ends the step.
8. `PlayerLostStart`: with accurate seek a seek past the end completes at once, while the read thread is still between
   its test of `auto_resume` and the clearing (`ff_ffplay.c:3418-3420`). A start handled in between restarts the
   stream and sets `auto_resume`, which is then cleared: the state is STARTED, the stream stays paused.
9. `PipelineStall`: a decoder that found its queue empty switches buffering on after the read
   thread, at the end of the file, switched it off; queues over the limit then keep the read thread
   from ever doing so again. It needs a queue within a packet or two of `max_buffer_size`.
10. `PlayerLateReturn`: `SDL_RunThread` executes `thread->retval = thread->func(...)` (`ijksdl_thread.c:41`), and `thread` is
    `&mp->_msg_thread` (`ijkplayer.c:412`). A loop that drops the last reference frees the player inside `func`: its
    `SDL_WaitThread` on itself fails at once, and the write that follows goes to freed memory. The comment at
    `ijkplayer.c:413` has the thread detached inside its loop; nothing detaches it. The other way there is an earlier
    prepare's thread, which `mp->msg_thread` no longer names: it takes a prepare that comes between another thread's closing
    of the stream and the end of its release.
11. `AsyncIODrain`: `ring_drain` asserts `offset <= -ring_size(ring)` (`ijkasync.c:153`); a fast seek backwards that goes back
    by fewer bytes than are ahead contradicts it. `av_assert2` is compiled out by default, and the bytes such a seek
    makes the caller read are the right ones (`IsFileReader`): it is the assertion that is wrong.

One disagreement needs no run: `ijkplayer.h:71` and `93` let preparing and playing end in
`MP_STATE_ERROR`, and nothing turns `FFP_MSG_ERROR` into it (`ijkplayer.c:706-796`).

## 6. Proofs

All for every value of the constants that satisfies the modules' named assumptions.

**IjkMediaPlayerProofs.** `ControlTyping`, `RefCounting` (`RefCountExact`) and
`NoUseAfterFree` (`FreedIsUnused`) follow from one inductive invariant `IInv`. The
invariants are not inductive alone: the count is compared with the cardinality of a set
of thread positions, so `IInv` ties each position to what the thread holds (a thread
inside a shutdown either still has its reference or was the last), says that a stream is open only
while somebody can close it, and that after the count reached zero no position that holds a
reference is left. Lemmas give the change of the cardinalities when one thread moves
(`FiniteSetTheorems`); then one step per action. `NoUseAfterFree` also needs `Joined`: once the player is freed, the
thread that was joined is past its last write, and nobody is left who could start another. `PreparedOnceUntouched`
(`FreedIsUntouched`) says when the write of `PlayerLateReturn` cannot come too late: the player is prepared once (`PreparesOnce`)
and an application thread drops its last reference (`AppFrees`). `Typing` (`TypeOK`) adds the queue's messages. What
`msg_queue_remove` leaves (`Without`) is a recursive function over the queue; the library's induction theorems cannot be
used on it (they take an operator), but the least counterexample can: `NatLessThanWellFounded` and `WFMin` give
it for any set of numbers (`Least`).

Two properties of section 5 fail for one reason only, which these theorems name. `OnlyStoppedAsserts`: the assertion of
`ffp_prepare_async_l` fails only when a stopped player is prepared again, so that a player that is never prepared
again never meets it (`PreparedOnceIsSafe`, which states `PreparedWithoutStream` under that condition), however its threads
race. `StopEndsMessages`: after `ijkmp_stop` nothing is taken off the queue, and only a PREPARED or COMPLETED already in a
loop's hand may move the player; when a stop meets none (`StopsEmptyHanded`), `StoppedUntilPrepared` holds (`StopHolds`).
Both rest on `Fresh` (a player not yet prepared has no stream) and `StoppedQueue` (a stopped one has an aborted queue).

Two more say why release ends: `DestroyGoesThrough` - when a thread comes to free the player every other message thread, those of earlier
prepares included, has dropped its reference and at most its return left, which waits for nothing; `CloseWaitsForReader` - with one releaser (`OneReleaser`, the assumption
of the Java API; two would both find the stream), a thread that comes to the join of the read thread finds the stream open and told
to stop.

**PlayerSessionProofs.** `PauseHolds` (`PausedIsPaused`) and `StartHolds` (`StartedIsRunning`), for any number of calls and
message threads, and one application thread, as `MediaPlayer` objects are meant to be used: both
properties speak of *the* stream, and with one caller there is one (`Behind`: none is opened after it, `Before`: nothing
but FLUSH is on its way ahead of it). With two, TLC refutes `PausedIsPaused` after six calls: the second
stops and prepares again between the first's join of the read thread and the last of its release, and the PREPARED of the
first stream pauses the state of the second. `Still` is the invariant behind the pause: a stream that is not to play (paused,
stopped, in the middle of a stop, or prepared and not to start by itself) is asked to pause and no seek will resume
it. It needs `Waits` and `PreparedOnce`: PREPARED comes once, and until it is handled a player that does
not start by itself gets past the wait loop by an abort only. `StartHolds` is about what a start may lose. `NoRestartYet` says
that while the read thread has yet to clear `auto_resume` nothing has completed that could be restarted;
this is where it needs `PastEnd = {}`, without which it is false (`PlayerLostStart`). `AbortSeen` and `StopSeen` say who has
aborted what when a queue that would have carried the message is aborted.

`SeekNeverForgotten` (`SeekOnItsWay`) is the safety half of `SeekIsAnswered`: the target that the application is told is in a
request that will be accepted, with the read thread, in its report or in the message, at every moment until it is given up.
Each hand-over is one where it could be dropped; a target past the end is, and is excepted (hazards). `ReleaseCloses` (`ReleasedIsClosed`) is that of
`ReleaseEndsPlayback`; `PlayerPrepareRace` shows that it needs the one thread. `PauseStandsStill` is `PausedStandsStill` under the
condition that a pause or a stop does not come between a paused seek and its frame (`FrameBeforePause`): `PlayerPauseTwice` is all
there is against it. `Stands` is its invariant: a stream asked to pause stands, has a frame to show, or is
still being opened.

**FrameQueueProofs.** `Typing`, `SlotExclusion` (`WriterAlone`), `ShownFrameKept`
(`ShownIsKept`) and `WakeupsArrive` (`NoLostWakeup`). The strengthening relates the three
indices: `windex` is `rindex` plus the frames in the ring, modulo the size, corrected for a
writer between `PushIndex` and `PushSize` and a reader between `NextIndex` and `NextSize`; and a sleeper's test
is still true of the state. `Implements` shows that the queue is a `FrameFifo` (`IsFifo`), whose content is
read off the ring from `rindex` and the kept frame on. It needs one fact more (`Written`): between
the write of a slot and the new size, the slot at `windex` holds the writer's frame, behind every pending one. Push and
next map to `Push` and `Take`, every other step to a stutter.

**AccurateSeekProofs.** `Typing`, `StopWakes` (`StopWakesDecoders`), `OneCompletion` (`CompletesOnce`) and
`OutputsResumeTogether` (`ResumeTogether`). The invariant counts where the requested seeks are
(`Requests`: armed, in `seek_req`, or in the hands of the seeker or the read thread). `Frames` ties each decoder
to the last seek: a frame tested since its arming is of its target and still has its request to clear, one tested
before leaves the request alone. With `Done` (whoever posts clears last) and `Called` (who
wakes a decoder is done) the two properties are inductive; neither is without. `NobodyWaitsInVain`
(`SleepersAreAwaited`) is the safety half of `FramesAreReleased`: a decoder asleep has cleared its request, the other
is awake and has its own still to clear, and with it the signal to give.

**ThreadPoolProofs.** `Typing` and `WorkersAreWoken` (`IdleWorkersAreWoken`) for every pool. `OrderUntilWrappedGrowth`
(`PendingInOrder`) and `OnceUntilWrappedGrowth` (`TakenOnce`) for every pool whose ring is not wrapped when it grows
(`GrowsStraight`): `thread_pool_growth` shows what happens when it is, and the theorems that nothing else goes wrong. A ring that
cannot grow (`QueueSize = MaxQueue`, the `thread_pool` run) is the special case `FirstInFirstOut` and `TasksRunOnce`. The tail is the head
plus the pending count, modulo the size; what lies between is the last `pending_count` of the
accepted tasks, and stays so when slots are put behind it. `TakenOnce` alone is not inductive: the last task of an idle worker is
nobody else's either (`LastTasks`). The wake-ups are inductive with the typing; their lemmas give the cardinality of the
sets of workers asleep and up when a signal or a step moves one of them. `DestroyLeavesNothing` (`NothingLeftBehind`): the
pool is freed after the last worker has left, and a leisurely shutdown leaves no accepted task untaken.

**AsyncIOProofs.** `Typing`, `NobodySleepsInVain` (`SleepersHaveNothingToDo`) and `Implements`:
`AsyncIO` implements `FileReader` for every file, ring and read size. The invariant has, beside the typing, `Threads` (what
each position of the two threads implies: what was tested before the mutex was let go is still true,
since only the other thread's requests change meanwhile), `Content` (the ring holds consecutive
bytes that end where the inner protocol stands) and `Place` (the byte
at `read_pos` is the one at the caller's position, unless a seek is on its way). The refinement
goes one action at a time: most steps stutter, those that hand bytes to the caller are `Deliver`, and an end is answered
only at the end.

**IOCacheProofs.** `Typing`, `RangesHold` (`RangesAreOfTheFile`), `PartnersWake`
(`SleepersHaveAPartner`) and `Implements` (`IsFileReader`), over any number of sessions. No bound of the
run is used but the assumptions of `IOCache`. What makes the ranges inductive: `Offsets` (the synchronous mode
follows the file descriptor, and the task's remembered offset is always at the end of what is kept, so that the
offset the read path forgets is never the one it needs), `Fetched` (what the task has read and not yet stored goes where the tree
has nothing), and `Contents`, which says the same of the saved map as of the tree, as long as the map is not
outdated: a session may take it over. `EnteredGood` is the lemma behind both ways to store. For `Implements`,
`Place` ties the caller's position to `read_logical_pos` except during a seek, and `Ahead` says that the
bytes between the reader and the task are in the tree, so that a reader that finds nothing at the
reported end is at the end, or behind a failure (`EarlyEnd`).

**StreamPipelineProofs.** `Typing`, `EndIsFinal` (`FinishedIsFinal`) and `QueuesStaySmall` (`QueuesBounded`), from
`IInv`, which has three parts besides the ranges. `Flow` is about what a queue may hold: serials grow along it, each
begins with its flush packet, nothing but null packets follows a null packet of the same serial, and a decoder that met the
end of a serial leaves only null packets of it behind, while the read thread's input is at its end or broken until the next flush.
This is why a finished serial cannot be resumed. `Small` gives the bound: what a queue holds plus what the
rest of this pass of the read loop may still append stays below the limit the loop tests, plus the share of one pass for
each seek ever made: a seek lets a pass go by that test, and one that fails flushes nothing. The bound is per stream, since a seek flushes the queues one after
the other and the second may be full while the first is empty. `Types` does the rest.

`Implements` (`IsPlayback`): the pipeline keeps the promise of `Playback`, whatever the file, the options, the seeks and the order of the threads'
steps. A packet of the current serial is in one of four places, the packet queue, the decoder's hand, the codec or
the frame queue (`Held`). `InOrder` says that file order runs through all four, `Gapless` and `UpTo` that what is held is exactly what
the watcher still misses up to the read position, `Joined` that a stream's serial is the generation it has joined, and `Serials` that
serials grow from the frame shown last to the decoder. One lemma per move shows that it keeps the places in order
(`SendsInOrder`, `PushesInOrder`, ...), one per action that it keeps `Tracks`. `DueNext` is about the frame that has
passed the test of its serial and is not yet shown: it is the next one of its generation even if a flush came
meanwhile. That is why one late frame is promised and no more. `AtTheEnd` is about the four unlocked reads
that decide the end: what was read of a stream as finished and empty is still so when completion is announced,
since a decoder that has finished has nothing to push and, without a seek, nothing to flush.
`ShowsForward` (`NeverBackwards`) follows: what a stream shows next is of a newer serial, or further on in the file.

The last group says why a stream stands still. `NothingElseHolds` (`HeldForAReason`) and `StepsStayInPause`
(`StepOnlyInPause`): pictures and sound are held only by a pause that was asked for or by buffering, and a frame step is pending
in a pause only, where it does not silence the sound. Their invariant `Pauses` has to say who may restart a stream after
its end (`Restarts`). `EndIsDelivered` (`NoEndIsLost`): after the end of the input the null packet, put once, is queued for every decoder, held
by it or acted on, until a seek; `Drains` keeps a draining decoder from asking for packets before it has finished. From
these `PipelineMoves` (`NeverStuck`), the safety half of `PlaybackEnds`: unless paused or buffering, full queues have a decoder
or an output that can empty them, and at the end of the file each stream is done or has one at work.
`PipelineStall` is what buffering may do instead.

Model-checked only: liveness everywhere (`SeekIsAnswered`, `ReleaseFrees`, `AbortFinishes`, `BufferingEnds`,
`PlaybackEnds`, `FramesAreReleased`, `CallsReturn`, `AcceptedTasksRun`, `DestroyReturns`), which is out of
the prover's reach; for `SeekIsAnswered`, `PlaybackEnds`, `FramesAreReleased` and the joins of `ReleaseFrees` the theorems
above show that the work is never lost and has somebody to do it, and TLC that the somebody does. Every safety
property and every refinement that a passing run checks is proved. `accurate_seek_early` and
`PipelineStep` have no theorem: the first is a comparison with an unset clock, the second the unlocked test of a serial.

## 7. What comes next

1. `IOCache` with several contexts on one descriptor, pause and resume, and failing writes.
2. Two releasers, and handlers of requests split between the test of `ffp->is` and its use.
3. The MediaCodec decoder node as a second decoder of `StreamPipeline`; the retry loop of `ijkurlhook.c`.

## 8. Not modelled

Options, properties, metadata, statistics and logging; clocks and synchronisation
(floating-point time); MediaCodec (a second video decoder); audio and video output beyond the callback; URL
hooks; Java and the example application. Most of the repository's lines are vendored headers
(FFmpeg, OpenSSL, libyuv) and generated bindings, which have no behaviour to model. Inside the modelled parts:

* Player and engine: the
  PLAYBACK_STATE_CHANGED, buffering and information messages, which change no state; `seek_at_start`,
  `autoexit`, `render_wait_start`; endless loops (`setLoopCount(0)`); subtitles and frame dropping in
  `StreamPipeline`, attached pictures, the play
  range, reads that fail for a moment; in `IjkMediaPlayer`, buffering as a second reason for
  `is->paused` (it is in `StreamPipeline`); two threads calling release at once; the recycle
  lists; what the late write of section 5 does to memory that has been freed. `msg_queue_abort` signals one waiter, and in the
  model every loop may see the abort: with two loops asleep, which takes a prepare that races a release, the code may leave one.
* Accurate seek: frames without a timestamp; files with one stream, where nothing waits; a codec that
  reports no frame while the other decoder waits.
* Async protocol: `AVSEEK_SIZE`, negative targets, the dump of statistics.
* Cache: a seek past the end; several contexts on one descriptor (each with its own idea of the offset); pause
  and resume (resume clears neither `io_eof_reached` nor `io_error`, 1168-1177); a shared map; `only_read_file`;
  errors of the cache file and its recreation (`ijkio_cache_file_error`); a length that is not known; `ijkiocache` beside other protocols.
* Pool: a thread that cannot be created (`ijk_threadpool_create` then destroys the pool with flag 0, which wakes nobody
  to leave); a second destroy, which leaves the mutex locked; spurious wake-ups, which every wait in
  this code either tests again or is a polling loop; the balancing of the AVL tree.
