---------------------------- MODULE IjkMediaPlayer ----------------------------
(***************************************************************************)
(* The player object of ijkplayer.c as its threads see it: application     *)
(* threads that call in through android/ijkplayer_jni.c, the message loop  *)
(* (ijkmp_get_msg under message_loop_n) and the part of ff_ffplay.c's      *)
(* read_thread that talks to them.                                         *)
(*                                                                         *)
(* A section under mp->mutex is one step unless it contains another        *)
(* thread's window (ijkmp_stop_l).  Steps without mp->mutex - taking a     *)
(* message off the queue, ijkmp_shutdown, the read thread - interleave.    *)
(***************************************************************************)
EXTENDS Naturals, FiniteSets, MessageQueue

CONSTANTS
  Apps,             \* threads that call the JNI functions
  Releasers,        \* those of them that may call release() or reset()
  Loops,            \* message threads; one is started by each prepare_async
  Positions,        \* seek targets, in msec; only PastEnd tells them apart
  PastEnd,          \* those at or past the duration, with enable_accurate_seek on
  StartOnPrepared,  \* values of the start-on-prepared option, set before prepare
  LoopCounts,       \* values of setLoopCount; 0, play for ever, is left out
  MaxCalls          \* bound on the JNI calls made in a behaviour

ASSUME PlayerAssumption ==
  /\ IsFiniteSet(Apps) /\ IsFiniteSet(Loops)
  /\ Releasers \subseteq Apps
  /\ Apps \cap Loops = {}
  /\ Positions \subseteq Nat /\ 0 \in Positions
  /\ PastEnd \subseteq Positions \ {0}
  /\ StartOnPrepared \subseteq BOOLEAN
  /\ LoopCounts \subseteq Nat \ {0}
  /\ MaxCalls \in Nat

VARIABLES
  mp_state,   \* mp->mp_state
  mp,         \* the other fields mp->mutex guards
  msg_queue,  \* ffp->msg_queue
  ref_count,  \* mp->ref_count
  jobj,       \* the Java object: mNativeMediaPlayer set, and mp->weak_thiz set
  ffp,        \* FFPlayer fields shared with the read thread
  is,         \* the VideoState ffp->is; ~is.open is a NULL pointer
  read,       \* read_thread; read.errored is history: it has reported an error
  pc,         \* where each application thread and message thread is
  hand,       \* the message a message thread has taken off the queue
  resetting,  \* the application threads inside reset() around its release()
  life,       \* "live", "freed" by ijkmp_destroy, "aborted" by a failed assert
  calls       \* JNI calls made so far

vars == <<mp_state, mp, msg_queue, ref_count, jobj, ffp, is, read, pc, hand,
          resetting, life, calls>>

Threads == Apps \cup Loops

MpStates == {"IDLE", "INITIALIZED", "ASYNC_PREPARING", "PREPARED", "STARTED",
             "PAUSED", "COMPLETED", "STOPPED", "ERROR"}

Kinds == {"FLUSH", "ERROR", "PREPARED", "COMPLETED", "SEEK_COMPLETE",
          "REQ_START", "REQ_PAUSE", "REQ_SEEK"}

Message == [what : Kinds, arg1 : Positions]
Msg(what) == [what |-> what, arg1 |-> 0]

JniOps == {"set_data_source", "prepare_async", "start", "pause", "seek_to", "stop"}

ShutdownPcs == {"shutdown", "shutdown_abort", "shutdown_wait", "shutdown_join"}

AppPcs == {"idle", "stop_abort", "reset", "unweak", "unpeer", "dec_old", "dec",
           "destroy"} \cup JniOps \cup ShutdownPcs

LoopPcs == {"none", "begin", "get", "handle", "post", "dec", "destroy", "return",
            "return_freed", "exited"} \cup ShutdownPcs

\* Of a thread that is in no call, and of one that is not yet or no longer in
\* message_loop.
OutsidePcs == {"idle", "none", "return", "return_freed", "exited"}

\* Where the read thread is: "none" while ffp->is is NULL.
ReadPcs == {"none", "open", "prepared", "wait_start", "auto_resume", "resumed",
            "loop", "seek", "seek_done", "seek_play", "seek_notify", "body",
            "complete_pause", "complete_notify", "fail", "exit"}

\* In read_thread's for (;;), from the first test of abort_request on.
ReadLoopPcs == {"loop", "seek", "seek_done", "seek_play", "seek_notify", "body",
                "complete_pause", "complete_notify"}

NoStream == [open |-> FALSE, abort_request |-> FALSE, pause_req |-> FALSE,
             paused |-> FALSE, step |-> FALSE, seek_req |-> FALSE, drained |-> FALSE]

\* native_setup has returned: the Java object holds the one reference.
Init ==
  /\ mp_state = "IDLE"
  /\ mp = [restart |-> FALSE, restart_from_beginning |-> FALSE,
           seek_req |-> FALSE, seek_msec |-> 0, msg_thread |-> {}]
  /\ msg_queue = InitQueue
  /\ ref_count = 1
  /\ jobj = [mNativeMediaPlayer |-> TRUE, weak_thiz |-> TRUE]
  /\ \E b \in StartOnPrepared, n \in LoopCounts :
       ffp = [start_on_prepared |-> b, loop |-> n, prepared |-> FALSE,
              auto_resume |-> FALSE, error |-> FALSE]
  /\ is = NoStream
  /\ read = [pc |-> "none", completed |-> FALSE, errored |-> FALSE]
  /\ pc = [t \in Threads |-> IF t \in Apps THEN "idle" ELSE "none"]
  /\ hand = [l \in Loops |-> Msg("FLUSH")]
  /\ resetting = {}
  /\ life = "live"
  /\ calls = 0

--------------------------------------------------------------------------------
(* Pieces of handlers.                                                         *)

Goto(t, label) == pc' = [pc EXCEPT ![t] = label]

\* mp->mutex: ijkmp_stop_l is the one section that takes more than one step.
MutexFree == \A a \in Apps : pc[a] # "stop_abort"

\* ikjmp_chkst_start_l, ikjmp_chkst_pause_l and ikjmp_chkst_seek_l accept these.
Controllable == mp_state \in {"PREPARED", "STARTED", "PAUSED", "COMPLETED"}

\* toggle_pause_l, which clears step only after stream_update_pause_l has read it.
TogglePauseStream(s, on) ==
  [s EXCEPT !.pause_req = on, !.paused = on /\ ~s.step, !.step = FALSE]

\* Mutant of TogglePause: the stream's flags only, an auto_resume survives.
TogglePauseKeepsResume(on) == is' = TogglePauseStream(is, on) /\ UNCHANGED ffp

\* toggle_pause: one section under play_mutex.
TogglePause(on) ==
  /\ is' = TogglePauseStream(is, on)
  /\ ffp' = [ffp EXCEPT !.auto_resume = ~on]

\* stream_seek: the request's target, which a request already pending keeps, is
\* data no property tells apart.
StreamSeek == is' = [is EXCEPT !.seek_req = TRUE]

\* ffp_stop_l up to msg_queue_abort.
StopStream ==
  IF is.open
  THEN /\ is' = TogglePauseStream([is EXCEPT !.abort_request = TRUE], TRUE)
       /\ ffp' = [ffp EXCEPT !.auto_resume = FALSE]
  ELSE UNCHANGED <<is, ffp>>

--------------------------------------------------------------------------------
(* Application threads.                                                        *)

\* jni_get_media_player: under g_clazz.mutex, takes a reference if there is one.
Enter(a, op) ==
  /\ pc[a] = "idle"
  /\ jobj.mNativeMediaPlayer
  /\ calls < MaxCalls
  /\ op \in {"shutdown", "reset"} => a \in Releasers
  /\ calls' = calls + 1
  /\ ref_count' = ref_count + 1
  /\ Goto(a, op)
  /\ UNCHANGED <<mp_state, mp, msg_queue, jobj, ffp, is, read, hand, resetting, life>>

SetDataSource(a) ==
  /\ pc[a] = "set_data_source" /\ MutexFree
  /\ mp_state' = IF mp_state = "IDLE" THEN "INITIALIZED" ELSE mp_state
  /\ Goto(a, "dec")
  /\ UNCHANGED <<mp, msg_queue, ref_count, jobj, ffp, is, read, hand, resetting, life, calls>>

\* A call in a state it is not allowed in returns EIJK_INVALID_STATE.
Refuse(a, op, allowed) ==
  /\ pc[a] = op /\ MutexFree
  /\ mp_state \notin allowed
  /\ Goto(a, "dec")
  /\ UNCHANGED <<mp_state, mp, msg_queue, ref_count, jobj, ffp, is, read, hand,
                 resetting, life, calls>>

\* ijkmp_prepare_async_l: the message thread l is started, then
\* ffp_prepare_async_l asserts that there is no stream and opens one; without an
\* audio output, or when stream_open runs out of memory, it fails.
PrepareAsync(a, l) ==
  /\ pc[a] = "prepare_async" /\ MutexFree
  /\ mp_state \in {"INITIALIZED", "STOPPED"}
  /\ pc[l] = "none"
  /\ msg_queue' = StartQueue(msg_queue, Msg("FLUSH"))
  /\ ref_count' = ref_count + 1
  /\ mp' = [mp EXCEPT !.msg_thread = {l}]
  /\ pc' = [pc EXCEPT ![a] = "dec", ![l] = "begin"]
  /\ \/ /\ is.open                              \* assert(!ffp->is)
        /\ life' = "aborted"
        /\ mp_state' = "ASYNC_PREPARING"
        /\ UNCHANGED <<is, read>>
     \/ /\ ~is.open
        /\ mp_state' = "ASYNC_PREPARING"
        /\ is' = [NoStream EXCEPT !.open = TRUE,
                                  !.pause_req = ~ffp.start_on_prepared]
        /\ read' = [pc |-> "open", completed |-> FALSE, errored |-> FALSE]
        /\ UNCHANGED life
     \/ /\ ~is.open
        /\ mp_state' = "ERROR"
        /\ UNCHANGED <<is, read, life>>
  /\ UNCHANGED <<jobj, ffp, hand, resetting, calls>>

\* ijkmp_start_l and ijkmp_pause_l: the last of the two to be asked for wins.
RequestPlay(a, op, what) ==
  /\ pc[a] = op /\ MutexFree
  /\ Controllable
  /\ msg_queue' = Put(RemoveKind(RemoveKind(msg_queue, "REQ_START"), "REQ_PAUSE"),
                      Msg(what))
  /\ Goto(a, "dec")
  /\ UNCHANGED <<mp_state, mp, ref_count, jobj, ffp, is, read, hand, resetting, life, calls>>

Start(a) == RequestPlay(a, "start", "REQ_START")
Pause(a) == RequestPlay(a, "pause", "REQ_PAUSE")

\* ijkmp_seek_to_l: from here on the target is what get_current_position reports.
SeekTo(a, pos) ==
  /\ pc[a] = "seek_to" /\ MutexFree
  /\ Controllable
  /\ mp' = [mp EXCEPT !.seek_req = TRUE, !.seek_msec = pos]
  /\ msg_queue' = Put(RemoveKind(msg_queue, "REQ_SEEK"),
                      [what |-> "REQ_SEEK", arg1 |-> pos])
  /\ Goto(a, "dec")
  /\ UNCHANGED <<mp_state, ref_count, jobj, ffp, is, read, hand, resetting, life, calls>>

Stoppable == {"ASYNC_PREPARING", "PREPARED", "STARTED", "PAUSED", "COMPLETED",
              "STOPPED"}

\* ijkmp_stop_l up to ffp_stop_l's abort_request; the read thread can see it and
\* still queue messages before the queue is aborted.
Stop(a) ==
  /\ pc[a] = "stop" /\ MutexFree
  /\ mp_state \in Stoppable
  /\ msg_queue' = RemoveKind(RemoveKind(msg_queue, "REQ_START"), "REQ_PAUSE")
  /\ StopStream
  /\ Goto(a, "stop_abort")
  /\ UNCHANGED <<mp_state, mp, ref_count, jobj, read, hand, resetting, life, calls>>

\* The rest of ijkmp_stop_l.
StopAbort(a) ==
  /\ pc[a] = "stop_abort"
  /\ msg_queue' = Abort(msg_queue)
  /\ mp_state' = "STOPPED"
  /\ Goto(a, "dec")
  /\ UNCHANGED <<mp, ref_count, jobj, ffp, is, read, hand, resetting, life, calls>>

\* IjkMediaPlayer_reset: keeps its own reference around a release.
Reset(a) ==
  /\ pc[a] = "reset"
  /\ jobj' = [jobj EXCEPT !.weak_thiz = FALSE]
  /\ IF jobj.mNativeMediaPlayer
       THEN /\ ref_count' = ref_count + 1
            /\ resetting' = resetting \cup {a}
            /\ Goto(a, "shutdown")
       ELSE /\ UNCHANGED <<ref_count, resetting>>
            /\ Goto(a, "dec")
  /\ UNCHANGED <<mp_state, mp, msg_queue, ffp, is, read, hand, life, calls>>

\* IjkMediaPlayer_release after ijkmp_shutdown: ijkmp_set_weak_thiz(mp, NULL).
Unweak(a) ==
  /\ pc[a] = "unweak"
  /\ jobj' = [jobj EXCEPT !.weak_thiz = FALSE]
  /\ Goto(a, "unpeer")
  /\ UNCHANGED <<mp_state, mp, msg_queue, ref_count, ffp, is, read, hand,
                 resetting, life, calls>>

\* jni_set_media_player(NULL): the Java object lets go of the player, whose
\* reference this thread then drops.
Unpeer(a) ==
  /\ pc[a] = "unpeer"
  /\ jobj' = [jobj EXCEPT !.mNativeMediaPlayer = FALSE]
  /\ Goto(a, IF jobj.mNativeMediaPlayer THEN "dec_old" ELSE "dec")
  /\ UNCHANGED <<mp_state, mp, msg_queue, ref_count, ffp, is, read, hand,
                 resetting, life, calls>>

--------------------------------------------------------------------------------
(* Dropping a reference; the thread that drops the last one shuts down and     *)
(* frees the player, whichever thread that is.                                 *)

\* Mutant of AfterDec: release drops the Java object's reference, not its own.
AfterDecOfObject(t) ==
  IF t \in resetting THEN "dec" ELSE IF t \in Apps THEN "idle" ELSE "return"

\* The first reference a releasing thread drops is the Java object's, the next
\* its own, the last that of the reset() around it.  A message thread has still to
\* return from message_loop.
AfterDec(t) ==
  IF pc[t] = "dec_old" \/ t \in resetting THEN "dec"
  ELSE IF t \in Apps THEN "idle" ELSE "return"

DecRef(t) ==
  /\ pc[t] \in {"dec", "dec_old"}
  /\ ref_count' = ref_count - 1
  /\ Goto(t, IF ref_count = 1 THEN "shutdown" ELSE AfterDec(t))
  /\ resetting' = IF pc[t] = "dec" THEN resetting \ {t} ELSE resetting
  /\ UNCHANGED <<mp_state, mp, msg_queue, jobj, ffp, is, read, hand, life, calls>>

\* ijkmp_shutdown_l, without mp->mutex: ffp_stop_l ...
Shutdown(t) ==
  /\ pc[t] = "shutdown"
  /\ StopStream
  /\ Goto(t, "shutdown_abort")
  /\ UNCHANGED <<mp_state, mp, msg_queue, ref_count, jobj, read, hand, resetting,
                 life, calls>>

ShutdownAbort(t) ==
  /\ pc[t] = "shutdown_abort"
  /\ msg_queue' = Abort(msg_queue)
  /\ Goto(t, "shutdown_wait")
  /\ UNCHANGED <<mp_state, mp, ref_count, jobj, ffp, is, read, hand, resetting,
                 life, calls>>

\* Mutant of AfterShutdown: the last reference goes through the rest of a release.
AfterShutdownRelease == "unweak"

\* A release goes on with the Java object, the last reference with the memory.
AfterShutdown == IF ref_count = 0 THEN "destroy" ELSE "unweak"

\* ... then ffp_wait_stop_l: stops again what has been opened meanwhile, ...
ShutdownWait(t) ==
  /\ pc[t] = "shutdown_wait"
  /\ StopStream
  /\ IF is.open
       THEN msg_queue' = Abort(msg_queue) /\ Goto(t, "shutdown_join")
       ELSE UNCHANGED msg_queue /\ Goto(t, AfterShutdown)
  /\ UNCHANGED <<mp_state, mp, ref_count, jobj, read, hand, resetting, life, calls>>

\* ... and in stream_close waits for the read thread before ffp->is is freed.
ShutdownJoin(t) ==
  /\ pc[t] = "shutdown_join"
  /\ read.pc = "exit"
  /\ is' = NoStream
  /\ read' = [read EXCEPT !.pc = "none"]
  /\ Goto(t, AfterShutdown)
  /\ UNCHANGED <<mp_state, mp, msg_queue, ref_count, jobj, ffp, hand, resetting,
                 life, calls>>

\* The memory goes; a message thread that frees it has still to return, too.
Free(t) ==
  /\ life' = "freed"
  /\ Goto(t, IF t \in Apps THEN "idle" ELSE "return_freed")
  /\ UNCHANGED <<mp_state, mp, msg_queue, ref_count, jobj, ffp, is, read, hand,
                 resetting, calls>>

\* Mutant of Destroy: the message thread is taken for detached (ijkplayer.c:413).
DestroyUnjoined(t) == pc[t] = "destroy" /\ Free(t)

\* ijkmp_destroy: SDL_WaitThread on the message thread started last, which on a
\* thread's own handle returns at once.
Destroy(t) ==
  /\ pc[t] = "destroy"
  /\ \A l \in mp.msg_thread : l = t \/ pc[l] = "exited"
  /\ Free(t)

--------------------------------------------------------------------------------
(* Message threads: message_loop, message_loop_n and ijkmp_get_msg.            *)

\* message_loop_n gives up when weak_thiz is gone already.
LoopBegin(l) ==
  /\ pc[l] = "begin"
  /\ Goto(l, IF jobj.weak_thiz THEN "get" ELSE "dec")
  /\ UNCHANGED <<mp_state, mp, msg_queue, ref_count, jobj, ffp, is, read, hand,
                 resetting, life, calls>>

\* msg_queue_get: the message leaves the queue before mp->mutex is taken.
LoopGet(l) ==
  /\ pc[l] = "get"
  /\ GetReady(msg_queue)
  /\ hand' = [hand EXCEPT ![l] = Head(msg_queue.msgs)]
  /\ msg_queue' = [msg_queue EXCEPT !.msgs = Tail(@)]
  /\ Goto(l, "handle")
  /\ UNCHANGED <<mp_state, mp, ref_count, jobj, ffp, is, read, resetting, life, calls>>

LoopAborted(l) ==
  /\ pc[l] = "get"
  /\ GetAborted(msg_queue)
  /\ Goto(l, "dec")
  /\ UNCHANGED <<mp_state, mp, msg_queue, ref_count, jobj, ffp, is, read, hand,
                 resetting, life, calls>>

Handling(l, what) == pc[l] = "handle" /\ hand[l].what = what /\ MutexFree

HandlePrepared(l) ==
  /\ Handling(l, "PREPARED")
  /\ mp_state' = IF ~ffp.start_on_prepared THEN "PAUSED"
                 ELSE IF mp_state = "ASYNC_PREPARING" THEN "PREPARED"
                 ELSE mp_state
  /\ Goto(l, "post")
  /\ UNCHANGED <<mp, msg_queue, ref_count, jobj, ffp, is, read, hand, resetting,
                 life, calls>>

HandleCompleted(l) ==
  /\ Handling(l, "COMPLETED")
  /\ mp' = [mp EXCEPT !.restart = TRUE, !.restart_from_beginning = TRUE]
  /\ mp_state' = "COMPLETED"
  /\ Goto(l, "post")
  /\ UNCHANGED <<msg_queue, ref_count, jobj, ffp, is, read, hand, resetting, life, calls>>

HandleSeekComplete(l) ==
  /\ Handling(l, "SEEK_COMPLETE")
  /\ mp' = [mp EXCEPT !.seek_req = FALSE, !.seek_msec = 0]
  /\ Goto(l, "post")
  /\ UNCHANGED <<mp_state, msg_queue, ref_count, jobj, ffp, is, read, hand,
                 resetting, life, calls>>

\* Messages ijkmp_get_msg only passes on; FFP_MSG_ERROR is one of them.
HandleOther(l) ==
  /\ \E what \in {"FLUSH", "ERROR"} : Handling(l, what)
  /\ Goto(l, "post")
  /\ UNCHANGED <<mp_state, mp, msg_queue, ref_count, jobj, ffp, is, read, hand,
                 resetting, life, calls>>

\* ffp_start_from_l after a completion, else ffp_start_l; both fail without a
\* stream and leave the state alone.
HandleStart(l) ==
  /\ Handling(l, "REQ_START")
  /\ Goto(l, "get")
  /\ IF ~Controllable THEN UNCHANGED <<mp_state, mp, ffp, is>>
     ELSE /\ mp' = [mp EXCEPT !.restart = FALSE, !.restart_from_beginning = FALSE]
          /\ \/ /\ ~is.open
                /\ UNCHANGED <<mp_state, ffp, is>>
             \/ /\ is.open
                /\ mp_state' = "STARTED"
                /\ IF mp.restart /\ mp.restart_from_beginning
                     THEN /\ ffp' = [ffp EXCEPT !.auto_resume = TRUE]
                          /\ StreamSeek
                     ELSE TogglePause(FALSE)
  /\ UNCHANGED <<msg_queue, ref_count, jobj, read, hand, resetting, life, calls>>

HandlePause(l) ==
  /\ Handling(l, "REQ_PAUSE")
  /\ Goto(l, "get")
  /\ IF Controllable /\ is.open
       THEN mp_state' = "PAUSED" /\ TogglePause(TRUE)
       ELSE UNCHANGED <<mp_state, ffp, is>>
  /\ UNCHANGED <<mp, msg_queue, ref_count, jobj, read, hand, resetting, life, calls>>

\* ffp_seek_to_l: with accurate seek, a target past the end completes at once.
HandleSeek(l) ==
  /\ Handling(l, "REQ_SEEK")
  /\ Goto(l, "get")
  /\ IF ~Controllable THEN UNCHANGED <<mp, msg_queue, ffp, is>>
     ELSE /\ mp' = [mp EXCEPT !.restart_from_beginning = FALSE]
          /\ \/ /\ ~is.open
                /\ UNCHANGED <<msg_queue, ffp, is>>
             \/ /\ is.open /\ hand[l].arg1 \in PastEnd
                /\ TogglePause(TRUE)
                /\ msg_queue' = Put(msg_queue, Msg("COMPLETED"))
             \/ /\ is.open /\ hand[l].arg1 \notin PastEnd
                /\ StreamSeek
                /\ UNCHANGED <<msg_queue, ffp>>
  /\ UNCHANGED <<mp_state, ref_count, jobj, read, hand, resetting, life, calls>>

\* SDL_RunThread after message_loop, which has dropped its reference: the write of
\* thread->retval, where thread is &mp->_msg_thread.
LoopReturn(l) ==
  /\ pc[l] \in {"return", "return_freed"}
  /\ Goto(l, "exited")
  /\ UNCHANGED <<mp_state, mp, msg_queue, ref_count, jobj, ffp, is, read, hand,
                 resetting, life, calls>>

\* post_event: hands the event to the Java listener, without any lock.
LoopPost(l) ==
  /\ pc[l] = "post"
  /\ Goto(l, "get")
  /\ UNCHANGED <<mp_state, mp, msg_queue, ref_count, jobj, ffp, is, read, hand,
                 resetting, life, calls>>
--------------------------------------------------------------------------------
(* The read thread.                                                            *)

ReadAt(label) == read.pc = label
ReadGoto(label) == read' = [read EXCEPT !.pc = label]
ReadFrame == UNCHANGED <<mp_state, mp, ref_count, jobj, pc, hand, resetting, life, calls>>

\* Opening the input and its streams; abort_request or an error makes it fail.
ReadOpen ==
  /\ ReadAt("open")
  /\ \/ /\ ReadGoto("prepared")
        /\ IF ffp.start_on_prepared THEN UNCHANGED <<is, ffp>> ELSE TogglePause(TRUE)
     \/ /\ ReadGoto("fail")
        /\ UNCHANGED <<is, ffp>>
  /\ UNCHANGED msg_queue /\ ReadFrame

ReadPrepared ==
  /\ ReadAt("prepared")
  /\ ffp' = [ffp EXCEPT !.prepared = TRUE]
  /\ msg_queue' = Put(msg_queue, Msg("PREPARED"))
  /\ ReadGoto(IF ffp.start_on_prepared THEN "auto_resume" ELSE "wait_start")
  /\ UNCHANGED is /\ ReadFrame

\* The 20 ms poll of pause_req after FFP_MSG_PREPARED.
ReadWaitStart ==
  /\ ReadAt("wait_start")
  /\ ~is.pause_req \/ is.abort_request
  /\ ReadGoto("auto_resume")
  /\ UNCHANGED <<msg_queue, is, ffp>> /\ ReadFrame

\* auto_resume is read, and below reset, without play_mutex.
ReadAutoResume ==
  /\ ReadAt("auto_resume")
  /\ IF ffp.auto_resume
       THEN msg_queue' = Put(msg_queue, Msg("REQ_START")) /\ ReadGoto("resumed")
       ELSE UNCHANGED msg_queue /\ ReadGoto("loop")
  /\ UNCHANGED <<is, ffp>> /\ ReadFrame

ReadResumed ==
  /\ ReadAt("resumed")
  /\ ffp' = [ffp EXCEPT !.auto_resume = FALSE]
  /\ ReadGoto("loop")
  /\ UNCHANGED <<msg_queue, is>> /\ ReadFrame

\* The top of the for (;;).
ReadLoop ==
  /\ ReadAt("loop")
  /\ ReadGoto(IF is.abort_request THEN "fail" ELSE IF is.seek_req THEN "seek" ELSE "body")
  /\ UNCHANGED <<msg_queue, is, ffp>> /\ ReadFrame

\* avformat_seek_file and, when it succeeds, the flush of the packet queues.
ReadSeek ==
  /\ ReadAt("seek")
  /\ \E drained \in {FALSE, is.drained} : is' = [is EXCEPT !.drained = drained]
  /\ ReadGoto("seek_done")
  /\ UNCHANGED <<msg_queue, ffp>> /\ ReadFrame

\* The request is cleared long after its target was read.
ReadSeekDone ==
  /\ ReadAt("seek_done")
  /\ is' = [is EXCEPT !.seek_req = FALSE]
  /\ read' = [read EXCEPT !.pc = "seek_play", !.completed = FALSE]
  /\ UNCHANGED <<msg_queue, ffp>> /\ ReadFrame

\* Mutant of ReadSeekPlay: auto_resume is cleared and not acted on.
ReadSeekPlayNoResume ==
  /\ ReadAt("seek_play")
  /\ is' = [is EXCEPT !.paused = FALSE, !.step = @ \/ is.pause_req]
  /\ ffp' = [ffp EXCEPT !.auto_resume = FALSE]
  /\ ReadGoto("seek_notify")
  /\ UNCHANGED msg_queue /\ ReadFrame

\* One section under play_mutex: auto_resume plays on, a pause shows one frame.
ReadSeekPlay ==
  /\ ReadAt("seek_play")
  /\ LET pause_req == is.pause_req /\ ~ffp.auto_resume
     IN  is' = [is EXCEPT !.pause_req = pause_req, !.step = @ \/ pause_req,
                          !.paused = @ /\ ~is.pause_req /\ ~ffp.auto_resume]
  /\ ffp' = [ffp EXCEPT !.auto_resume = FALSE]
  /\ ReadGoto("seek_notify")
  /\ UNCHANGED msg_queue /\ ReadFrame

ReadSeekNotify ==
  /\ ReadAt("seek_notify")
  /\ msg_queue' = Put(msg_queue, Msg("SEEK_COMPLETE"))
  /\ ReadGoto("body")
  /\ UNCHANGED <<is, ffp>> /\ ReadFrame

AtEnd == is.drained /\ (~is.paused \/ read.completed)

\* The rest of an iteration that finds the stream not at its end: wait for room
\* in the queues, or read and queue a packet.
ReadPacket ==
  /\ ReadAt("body") /\ ~AtEnd
  /\ ReadGoto("loop")
  /\ UNCHANGED <<msg_queue, is, ffp>> /\ ReadFrame

\* The end of the stream with loops left: seek to the start.
ReadRewind ==
  /\ ReadAt("body") /\ AtEnd
  /\ ffp.loop # 1
  /\ ffp' = [ffp EXCEPT !.loop = @ - 1]
  /\ StreamSeek
  /\ ReadGoto("loop")
  /\ UNCHANGED msg_queue /\ ReadFrame

\* The end of the stream, reported already: wait for a seek or the abort.
ReadIdle ==
  /\ ReadAt("body") /\ AtEnd
  /\ ffp.loop = 1 /\ read.completed
  /\ is.abort_request \/ is.seek_req
  /\ ReadGoto("loop")
  /\ UNCHANGED <<msg_queue, is, ffp>> /\ ReadFrame

\* The end of the stream for the first time: completed = 1, auto_resume = 0, ...
ReadComplete ==
  /\ ReadAt("body") /\ AtEnd
  /\ ffp.loop = 1 /\ ~read.completed
  /\ ffp' = [ffp EXCEPT !.auto_resume = FALSE]
  /\ read' = [read EXCEPT !.pc = "complete_pause", !.completed = TRUE]
  /\ UNCHANGED <<msg_queue, is>> /\ ReadFrame

\* ... toggle_pause(ffp, 1), ...
ReadCompletePause ==
  /\ ReadAt("complete_pause")
  /\ TogglePause(TRUE)
  /\ ReadGoto("complete_notify")
  /\ UNCHANGED msg_queue /\ ReadFrame

\* ... and the report, an error when reading stopped on one.
ReadCompleteNotify ==
  /\ ReadAt("complete_notify")
  /\ msg_queue' = Put(msg_queue, Msg(IF ffp.error THEN "ERROR" ELSE "COMPLETED"))
  /\ read' = [read EXCEPT !.pc = "loop", !.errored = @ \/ ffp.error]
  /\ UNCHANGED <<is, ffp>> /\ ReadFrame

ReadFail ==
  /\ ReadAt("fail")
  /\ msg_queue' = IF ~ffp.prepared \/ ~is.abort_request
                  THEN Put(msg_queue, Msg("ERROR")) ELSE msg_queue
  /\ ReadGoto("exit")
  /\ UNCHANGED <<is, ffp>> /\ ReadFrame

\* The decoders, the refresh thread and the audio callback play out everything up
\* to the end of the file, or to the error reading stopped on.
Drain ==
  /\ read.pc \in {"loop", "seek", "body"}
  /\ ~is.drained /\ ~is.paused
  /\ is' = [is EXCEPT !.drained = TRUE]
  /\ \E e \in BOOLEAN : ffp' = [ffp EXCEPT !.error = e]
  /\ UNCHANGED <<msg_queue, read>> /\ ReadFrame

\* video_refresh has shown the frame a paused seek asked for.
StepShown ==
  /\ is.open /\ is.step /\ ~is.paused
  /\ is' = [is EXCEPT !.step = FALSE, !.paused = is.pause_req]
  /\ UNCHANGED <<msg_queue, ffp, read>> /\ ReadFrame

--------------------------------------------------------------------------------

AppStep(a) ==
  \/ SetDataSource(a)
  \/ \E l \in Loops : PrepareAsync(a, l)
  \/ Start(a) \/ Pause(a) \/ Stop(a) \/ StopAbort(a)
  \/ \E pos \in Positions : SeekTo(a, pos)
  \/ Refuse(a, "prepare_async", {"INITIALIZED", "STOPPED"})
  \/ \E op \in {"start", "pause", "seek_to"} :
       Refuse(a, op, {"PREPARED", "STARTED", "PAUSED", "COMPLETED"})
  \/ Refuse(a, "stop", Stoppable)
  \/ Reset(a) \/ Unweak(a) \/ Unpeer(a)

ThreadStep(t) ==
  \/ DecRef(t) \/ Shutdown(t) \/ ShutdownAbort(t) \/ ShutdownWait(t)
  \/ ShutdownJoin(t) \/ Destroy(t)

LoopStep(l) ==
  \/ LoopBegin(l) \/ LoopGet(l) \/ LoopAborted(l) \/ LoopPost(l)
  \/ HandlePrepared(l) \/ HandleCompleted(l) \/ HandleSeekComplete(l)
  \/ HandleOther(l) \/ HandleStart(l) \/ HandlePause(l) \/ HandleSeek(l)
  \/ LoopReturn(l)

ReadStep ==
  \/ ReadOpen \/ ReadPrepared \/ ReadWaitStart \/ ReadAutoResume \/ ReadResumed
  \/ ReadLoop \/ ReadSeek \/ ReadSeekDone \/ ReadSeekPlay \/ ReadSeekNotify
  \/ ReadPacket \/ ReadRewind \/ ReadIdle \/ ReadComplete \/ ReadCompletePause
  \/ ReadCompleteNotify \/ ReadFail

\* A failed assertion ends the process.
Step ==
  /\ life # "aborted"
  /\ \/ \E a \in Apps, op \in JniOps \cup {"shutdown", "reset"} : Enter(a, op)
     \/ \E a \in Apps : AppStep(a)
     \/ \E t \in Threads : ThreadStep(t)
     \/ \E l \in Loops : LoopStep(l)
     \/ ReadStep \/ Drain \/ StepShown

\* No application thread is inside a call and none will make another.
Quiet ==
  \/ life = "aborted"
  \/ /\ \A a \in Apps : pc[a] = "idle"
     /\ calls = MaxCalls \/ ~jobj.mNativeMediaPlayer

Next == Step \/ (Quiet /\ UNCHANGED vars)

\* Every thread that can run does: calls finish, the loop and the read thread
\* go on, the refresh thread shows frames.  Nothing says the application calls.
Fairness ==
  /\ \A a \in Apps : WF_vars(life # "aborted" /\ AppStep(a))
  /\ \A t \in Threads : WF_vars(life # "aborted" /\ ThreadStep(t))
  /\ \A l \in Loops : WF_vars(life # "aborted" /\ LoopStep(l))
  /\ WF_vars(life # "aborted" /\ ReadStep)
  /\ WF_vars(life # "aborted" /\ StepShown)

Spec == Init /\ [][Next]_vars /\ Fairness

--------------------------------------------------------------------------------

MpFields == [restart : BOOLEAN, restart_from_beginning : BOOLEAN, seek_req : BOOLEAN,
             seek_msec : Positions, msg_thread : SUBSET Loops]
JavaFields == [mNativeMediaPlayer : BOOLEAN, weak_thiz : BOOLEAN]
FfpFields == [start_on_prepared : BOOLEAN, loop : Nat \ {0}, prepared : BOOLEAN,
              auto_resume : BOOLEAN, error : BOOLEAN]
StreamFields == [open : BOOLEAN, abort_request : BOOLEAN, pause_req : BOOLEAN,
                 paused : BOOLEAN, step : BOOLEAN, seek_req : BOOLEAN, drained : BOOLEAN]
ReadFields == [pc : ReadPcs, completed : BOOLEAN, errored : BOOLEAN]

PcTypeOK ==
  /\ pc \in [Threads -> AppPcs \cup LoopPcs]
  /\ \A a \in Apps : pc[a] \in AppPcs
  /\ \A l \in Loops : pc[l] \in LoopPcs

ControlTypeOK ==
  /\ mp_state \in MpStates
  /\ mp \in MpFields
  /\ ref_count \in Nat
  /\ jobj \in JavaFields
  /\ ffp \in FfpFields
  /\ is \in StreamFields
  /\ read \in ReadFields
  /\ PcTypeOK
  /\ resetting \subseteq Apps
  /\ life \in {"live", "freed", "aborted"}
  /\ calls \in 0..MaxCalls

QueueTypeOK == msg_queue \in Queue(Message) /\ hand \in [Loops -> Message]

TypeOK == ControlTypeOK /\ QueueTypeOK

\* The references that exist: one per thread inside a call or a message loop, a
\* second for a reset() around its release(), the Java object's own, and that one
\* again while the thread that took it from the object has not dropped it.
\* A thread that runs the shutdown of the last reference holds none.
Holding(t) ==
  /\ pc[t] \notin OutsidePcs \cup {"destroy"}
  /\ pc[t] \in ShutdownPcs => ref_count > 0

Dropping == {t \in Threads : pc[t] = "dec_old"}

\* ref_count is the number of references there are: the count that decides who
\* frees the player is never ahead of or behind the threads that still use it
\* (ijkmp_inc_ref, ijkmp_dec_ref and their callers).
RefCountExact ==
  ref_count = Cardinality({t \in Threads : Holding(t)}) + Cardinality(resetting)
              + Cardinality(Dropping) + (IF jobj.mNativeMediaPlayer THEN 1 ELSE 0)

\* Once ijkmp_destroy has freed the player no call and no message loop is inside it,
\* no stream is open and the Java object no longer points to it.  One write may still
\* come, SDL_RunThread's of the retval, from the message thread that freed the player
\* itself and from those of earlier prepares, which nobody joins; never from the
\* thread that SDL_WaitThread was called for.
FreedIsUnused ==
  life = "freed" =>
    /\ \A t \in Threads : pc[t] \in OutsidePcs
    /\ \A l \in mp.msg_thread : pc[l] # "return"
    /\ ~is.open
    /\ ~jobj.mNativeMediaPlayer

\* A player whose state says PAUSED has a stream that is asked to pause: neither
\* the auto_resume of a seek nor a late message undoes a handled pause
\* (ijkmp_get_msg's FFP_REQ_PAUSE against read_thread's auto_resume).
PausedIsPaused ==
  mp_state = "PAUSED" /\ is.open => is.pause_req

Pending(what) ==
  \/ Holds(msg_queue, what)
  \/ \E l \in Loops : pc[l] = "handle" /\ hand[l].what = what

\* A player whose state says STARTED while its stream is asked to pause is about
\* to change one of the two: a restart's seek will resume the stream, or the read
\* thread's completion or a request is still to be handled; otherwise reading
\* stopped on an error, or the stream is being stopped.
StartedIsRunning ==
  mp_state = "STARTED" /\ is.open /\ is.pause_req =>
    \/ ffp.auto_resume /\ (is.seek_req \/ read.pc \in {"seek_done", "seek_play"})
    \/ read.pc \in {"complete_pause", "complete_notify"}
    \/ \E what \in {"COMPLETED", "REQ_START", "REQ_PAUSE"} : Pending(what)
    \/ read.errored
    \/ is.abort_request

\* A target that get_current_position reports is given up again: the seek is
\* answered, or the stream stopped, or no seek will be handled before a start.
SeekIsAnswered ==
  (mp.seek_req /\ mp.seek_msec \notin PastEnd /\ read.pc \in ReadLoopPcs) ~>
    \/ ~mp.seek_req
    \/ mp.seek_msec \in PastEnd
    \/ is.abort_request \/ ~is.open
    \/ life = "aborted"

\* release() and reset() come back and the player they shut down is freed.
ReleaseFrees ==
  \A a \in Releasers :
    pc[a] = "shutdown" ~> (life \in {"freed", "aborted"} /\ pc[a] = "idle")

--------------------------------------------------------------------------------
(* What the repository's comments and assertions say and the code does not do.  *)

\* ijkplayer.c:60, freep: nobody writes into the player any more.
FreedIsUntouched ==
  life = "freed" => \A l \in Loops : pc[l] \notin {"return", "return_freed"}

\* ff_ffplay.c:4326, assert(!ffp->is): a player is prepared without a stream.
PreparedWithoutStream == life # "aborted"

\* ijkplayer.h:122-129: a stopped player stays stopped until it is prepared again
\* (or that fails); no message queued before the stop changes its state.
StoppedUntilPrepared ==
  [][mp_state = "STOPPED" => mp_state' \in {"STOPPED", "ASYNC_PREPARING", "ERROR"}]_vars

\* ff_ffplay.c:1192, "pause or resume the video": once a pause is handled the video
\* stands still, but for the one frame a seek asks for.
PausedStandsStill == mp_state = "PAUSED" /\ is.open => is.paused \/ is.step

\* ijkplayer_jni.c:381, "explicit shutdown mp, in case it is not the last mp-ref
\* here": once release() has taken the player from the Java object, its stream closes.
ReleaseEndsPlayback == ~jobj.mNativeMediaPlayer ~> (~is.open \/ life = "aborted")
================================================================================
