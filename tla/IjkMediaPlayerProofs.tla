------------------------- MODULE IjkMediaPlayerProofs -------------------------
(***************************************************************************)
(* Theorems about IjkMediaPlayer for any number of application threads,    *)
(* message threads and calls: the reference count; types, those of the     *)
(* message queue included; when a stopped player stays stopped and its     *)
(* assertion holds; and that freeing the player and closing its stream     *)
(* wait for nobody who will not come.                                      *)
(***************************************************************************)
EXTENDS IjkMediaPlayer, TLAPS, FiniteSetTheorems, SequenceTheorems, WellFoundedInduction

--------------------------------------------------------------------------------
(* Types.                                                                      *)

LEMMA GotoApp ==
  ASSUME PcTypeOK, NEW a \in Apps, NEW x \in AppPcs, Goto(a, x)
  PROVE  PcTypeOK'
  BY PlayerAssumption DEF PlayerAssumption, PcTypeOK, Goto, Threads

LEMMA GotoLoop ==
  ASSUME PcTypeOK, NEW l \in Loops, NEW x \in LoopPcs, Goto(l, x)
  PROVE  PcTypeOK'
  BY PlayerAssumption DEF PlayerAssumption, PcTypeOK, Goto, Threads

LEMMA GotoEither ==
  ASSUME PcTypeOK, NEW t \in Threads, NEW x, Goto(t, x),
         t \in Apps => x \in AppPcs, t \in Loops => x \in LoopPcs
  PROVE  PcTypeOK'
  BY GotoApp, GotoLoop DEF Threads

LEMMA InitTypes == Init => ControlTypeOK
  BY PlayerAssumption, SMTT(30) DEF PlayerAssumption, Init, ControlTypeOK, PcTypeOK, MpStates,
                                    NoStream,
     MpFields, JavaFields, FfpFields, StreamFields, ReadFields,
     Threads, ReadPcs, ReadLoopPcs, AppPcs, LoopPcs, JniOps, ShutdownPcs

LEMMA ToggledStream ==
  ASSUME NEW s \in StreamFields, NEW on \in BOOLEAN
  PROVE  /\ TogglePauseStream(s, on) \in StreamFields
         /\ TogglePauseStream(s, on).open = s.open
<1>1. (on /\ ~s.step) \in BOOLEAN
  OBVIOUS
<1>2. \A b \in BOOLEAN :
        [s EXCEPT !.pause_req = on, !.paused = b, !.step = FALSE] \in StreamFields
  BY DEF StreamFields
<1>3. TogglePauseStream(s, on) \in StreamFields
  BY <1>1, <1>2 DEF TogglePauseStream
<1>4. TogglePauseStream(s, on).open = s.open
  BY DEF TogglePauseStream, StreamFields
<1> QED
  BY <1>3, <1>4

LEMMA StoppedStream ==
  ASSUME is \in StreamFields
  PROVE  /\ [is EXCEPT !.abort_request = TRUE] \in StreamFields
         /\ [is EXCEPT !.abort_request = TRUE].open = is.open
  BY DEF StreamFields

LEMMA PieceTypes ==
  ASSUME is \in StreamFields, ffp \in FfpFields
  PROVE  /\ StopStream => is' \in StreamFields /\ ffp' \in FfpFields
         /\ \A on \in BOOLEAN : TogglePause(on) => is' \in StreamFields /\ ffp' \in FfpFields
         /\ StreamSeek => is' \in StreamFields
         /\ NoStream \in StreamFields
<1>1. StopStream => is' \in StreamFields /\ ffp' \in FfpFields
  <2>1. StopStream => is' \in StreamFields
    BY ToggledStream, StoppedStream DEF StopStream
  <2>2. StopStream => ffp' \in FfpFields
    BY DEF StopStream, FfpFields
  <2> QED
    BY <2>1, <2>2
<1>2. \A on \in BOOLEAN : TogglePause(on) => is' \in StreamFields /\ ffp' \in FfpFields
  <2>1. \A on \in BOOLEAN : TogglePause(on) => is' \in StreamFields
    BY ToggledStream DEF TogglePause
  <2>2. \A on \in BOOLEAN : TogglePause(on) => ffp' \in FfpFields
    BY DEF TogglePause, FfpFields
  <2> QED
    BY <2>1, <2>2
<1>3. StreamSeek => is' \in StreamFields
  BY DEF StreamSeek, StreamFields
<1>4. NoStream \in StreamFields
  BY DEF NoStream, StreamFields
<1> QED
  BY <1>1, <1>2, <1>3, <1>4

LEMMA AppTypes == ASSUME ControlTypeOK, NEW a \in Apps, AppStep(a) PROVE ControlTypeOK'
<1> USE GotoApp, PieceTypes DEF ControlTypeOK
<1>0. /\ "dec" \in AppPcs /\ "stop_abort" \in AppPcs /\ "shutdown" \in AppPcs
      /\ "unpeer" \in AppPcs /\ "dec_old" \in AppPcs
  BY DEF AppPcs, ShutdownPcs, JniOps
<1>1. CASE SetDataSource(a)
  BY <1>0, <1>1 DEF SetDataSource, MpStates
<1>2. ASSUME NEW l \in Loops, PrepareAsync(a, l) PROVE ControlTypeOK'
  <2>1. PcTypeOK'
    <3>1. /\ pc' = [pc EXCEPT ![a] = "dec", ![l] = "begin"]
          /\ a # l /\ a \in Threads /\ l \in Threads
      BY <1>2, PlayerAssumption DEF PrepareAsync, Threads, PlayerAssumption
    <3>2. "begin" \in LoopPcs
      BY DEF LoopPcs
    <3> QED
      BY <1>0, <3>1, <3>2, PlayerAssumption DEF PcTypeOK, PlayerAssumption, Threads
  <2>2. /\ mp' \in MpFields
        /\ ref_count' \in Nat
    BY <1>2 DEF PrepareAsync, MpFields
  <2>3. is' \in StreamFields
    BY <1>2 DEF PrepareAsync, NoStream, StreamFields, FfpFields
  <2>4. read' \in ReadFields
    <3>1. CASE read' = [pc |-> "open", completed |-> FALSE, errored |-> FALSE]
      BY <3>1 DEF ReadPcs, ReadFields
    <3> QED
      BY <1>2, <3>1 DEF PrepareAsync
  <2>5. mp_state' \in MpStates /\ life' \in {"live", "freed", "aborted"}
    BY <1>2 DEF PrepareAsync, MpStates
  <2> QED
    BY <1>2, <2>1, <2>2, <2>3, <2>4, <2>5 DEF PrepareAsync
<1>3. CASE Start(a) \/ Pause(a)
  BY <1>0, <1>3 DEF Start, Pause, RequestPlay
<1>4. CASE Stop(a)
  BY <1>0, <1>4 DEF Stop
<1>5. CASE StopAbort(a)
  BY <1>0, <1>5 DEF StopAbort, MpStates
<1>6. CASE \E pos \in Positions : SeekTo(a, pos)
  <2>1. mp' \in MpFields
    BY <1>6 DEF SeekTo, MpFields
  <2> QED
    BY <1>0, <1>6, <2>1 DEF SeekTo
<1>7. ASSUME NEW op, NEW s, Refuse(a, op, s) PROVE ControlTypeOK'
  BY <1>0, <1>7 DEF Refuse
<1>8. CASE Reset(a)
  <2>1. PcTypeOK' /\ resetting' \subseteq Apps /\ ref_count' \in Nat
    BY <1>0, <1>8 DEF Reset
  <2>2. jobj' \in JavaFields
    BY <1>8 DEF Reset, JavaFields
  <2> QED
    BY <1>8, <2>1, <2>2 DEF Reset
<1>9. CASE Unweak(a)
  <2>1. jobj' \in JavaFields
    BY <1>9 DEF Unweak, JavaFields
  <2> QED
    BY <1>0, <1>9, <2>1 DEF Unweak
<1>10. CASE Unpeer(a)
  <2>1. (IF jobj.mNativeMediaPlayer THEN "dec_old" ELSE "dec") \in AppPcs
    BY <1>0
  <2>2. jobj' \in JavaFields
    BY <1>10 DEF Unpeer, JavaFields
  <2> QED
    BY <1>10, <2>1, <2>2 DEF Unpeer
<1> QED
  BY <1>1, <1>2, <1>3, <1>4, <1>5, <1>6, <1>7, <1>8, <1>9, <1>10 DEF AppStep

LEMMA ThreadTypes ==
  ASSUME ControlTypeOK, NEW t \in Threads, ThreadStep(t),
         pc[t] \in {"dec", "dec_old"} => ref_count > 0,
         t \in Loops /\ pc[t] \in ShutdownPcs => ref_count = 0
  PROVE  ControlTypeOK'
<1> USE GotoEither, PieceTypes DEF ControlTypeOK
<1>0. /\ {"dec", "destroy"} \cup ShutdownPcs \subseteq AppPcs
      /\ {"dec", "destroy"} \cup ShutdownPcs \subseteq LoopPcs
      /\ "idle" \in AppPcs /\ "unweak" \in AppPcs /\ {"return", "return_freed"} \subseteq LoopPcs
      /\ {"shutdown", "shutdown_abort", "shutdown_wait", "shutdown_join"} = ShutdownPcs
  BY DEF AppPcs, LoopPcs, ShutdownPcs
<1>a. t \in Apps => t \notin Loops
  BY PlayerAssumption DEF PlayerAssumption
<1>b. /\ t \in Apps => AfterShutdown \in AppPcs
      /\ pc[t] \in ShutdownPcs /\ t \in Loops => AfterShutdown \in LoopPcs
  BY <1>0 DEF AfterShutdown
<1>1. CASE DecRef(t)
  <2>1. /\ t \in Apps => AfterDec(t) \in AppPcs
        /\ t \in Loops => AfterDec(t) \in LoopPcs
    BY <1>0, <1>a DEF AfterDec
  <2>2. PcTypeOK'
    BY <1>0, <1>1, <2>1 DEF DecRef
  <2>3. ref_count' \in Nat
    BY <1>1 DEF DecRef
  <2> QED
    BY <1>1, <2>2, <2>3 DEF DecRef
<1>2. CASE Shutdown(t)
  BY <1>0, <1>2 DEF Shutdown
<1>3. CASE ShutdownAbort(t)
  BY <1>0, <1>3 DEF ShutdownAbort
<1>4. CASE ShutdownWait(t)
  <2>1. PcTypeOK'
    BY <1>0, <1>4, <1>b DEF ShutdownWait
  <2> QED
    BY <1>4, <2>1 DEF ShutdownWait
<1>5. CASE ShutdownJoin(t)
  <2>1. PcTypeOK'
    BY <1>0, <1>5, <1>b DEF ShutdownJoin
  <2>2. read' \in ReadFields
    BY <1>5 DEF ShutdownJoin, ReadPcs, ReadFields
  <2> QED
    BY <1>5, <2>1, <2>2 DEF ShutdownJoin
<1>6. CASE Destroy(t)
  <2>1. PcTypeOK'
    BY <1>0, <1>6, <1>a DEF Destroy, Free
  <2> QED
    BY <1>6, <2>1 DEF Destroy, Free
<1> QED
  BY <1>1, <1>2, <1>3, <1>4, <1>5, <1>6 DEF ThreadStep

LEMMA LoopTypes ==
  ASSUME ControlTypeOK, NEW l \in Loops, LoopStep(l) PROVE ControlTypeOK'
<1> USE GotoLoop, PieceTypes DEF ControlTypeOK
<1>0. {"get", "dec", "handle", "post", "exited"} \subseteq LoopPcs
  BY DEF LoopPcs
<1>1. CASE LoopBegin(l) \/ LoopGet(l) \/ LoopAborted(l) \/ LoopPost(l) \/ LoopReturn(l)
  <2>1. PcTypeOK'
    BY <1>0, <1>1 DEF LoopBegin, LoopGet, LoopAborted, LoopPost, LoopReturn
  <2> QED
    BY <1>1, <2>1 DEF LoopBegin, LoopGet, LoopAborted, LoopPost, LoopReturn
<1>2. CASE HandlePrepared(l)
  BY <1>0, <1>2 DEF HandlePrepared, MpStates
<1>3. CASE HandleCompleted(l)
  <2>1. mp' \in MpFields
    BY <1>3 DEF HandleCompleted, MpFields
  <2> QED
    BY <1>0, <1>3, <2>1 DEF HandleCompleted, MpStates
<1>4. CASE HandleSeekComplete(l)
  <2>1. mp' \in MpFields
    BY <1>4, PlayerAssumption DEF HandleSeekComplete, MpFields, PlayerAssumption
  <2> QED
    BY <1>0, <1>4, <2>1 DEF HandleSeekComplete
<1>5. CASE HandleOther(l)
  BY <1>0, <1>5 DEF HandleOther
<1>6. CASE HandleStart(l)
  <2>1. mp' \in MpFields /\ mp_state' \in MpStates
    BY <1>6 DEF HandleStart, MpFields, MpStates
  <2>2. is' \in StreamFields
    BY <1>6 DEF HandleStart
  <2>3. ffp' \in FfpFields
    BY <1>6 DEF HandleStart, FfpFields, TogglePause
  <2> QED
    BY <1>0, <1>6, <2>1, <2>2, <2>3 DEF HandleStart
<1>7. CASE HandlePause(l)
  <2>1. mp_state' \in MpStates
    BY <1>7 DEF HandlePause, MpStates
  <2> QED
    BY <1>0, <1>7, <2>1 DEF HandlePause
<1>8. CASE HandleSeek(l)
  <2>1. mp' \in MpFields
    BY <1>8 DEF HandleSeek, MpFields
  <2>2. is' \in StreamFields /\ ffp' \in FfpFields
    BY <1>8 DEF HandleSeek
  <2> QED
    BY <1>0, <1>8, <2>1, <2>2 DEF HandleSeek
<1> QED
  BY <1>1, <1>2, <1>3, <1>4, <1>5, <1>6, <1>7, <1>8 DEF LoopStep

LEMMA ReadTypes ==
  ASSUME ControlTypeOK, ReadStep \/ Drain \/ StepShown PROVE ControlTypeOK'
<1> USE PieceTypes DEF ControlTypeOK
<1>0. ASSUME NEW label \in ReadPcs PROVE ReadGoto(label) => read' \in ReadFields
  BY DEF ReadGoto, ReadFields
<1>a. ReadFrame => UNCHANGED <<mp_state, mp, ref_count, jobj, pc, resetting, life, calls>>
  BY DEF ReadFrame
<1>b. ASSUME UNCHANGED <<mp_state, mp, ref_count, jobj, pc, resetting, life, calls>>,
             is' \in StreamFields, ffp' \in FfpFields, read' \in ReadFields
      PROVE  ControlTypeOK'
  BY <1>b DEF PcTypeOK
<1>1. CASE ReadOpen
  BY <1>1, <1>0, <1>a, <1>b DEF ReadOpen, ReadPcs
<1>2. CASE ReadPrepared
  <2>1. ffp' \in FfpFields
    BY <1>2 DEF ReadPrepared, FfpFields
  <2> QED
    BY <1>2, <1>0, <1>a, <1>b, <2>1 DEF ReadPrepared, ReadPcs
<1>3. CASE ReadWaitStart
  BY <1>3, <1>0, <1>a, <1>b DEF ReadWaitStart, ReadPcs
<1>4. CASE ReadAutoResume
  BY <1>4, <1>0, <1>a, <1>b DEF ReadAutoResume, ReadPcs
<1>5. CASE ReadResumed
  <2>1. ffp' \in FfpFields
    BY <1>5 DEF ReadResumed, FfpFields
  <2> QED
    BY <1>5, <1>0, <1>a, <1>b, <2>1 DEF ReadResumed, ReadPcs
<1>6. CASE ReadLoop
  BY <1>6, <1>0, <1>a, <1>b DEF ReadLoop, ReadPcs
<1>7. CASE ReadSeek
  <2>1. is' \in StreamFields
    BY <1>7 DEF ReadSeek, StreamFields
  <2> QED
    BY <1>7, <1>0, <1>a, <1>b, <2>1 DEF ReadSeek, ReadPcs
<1>8. CASE ReadSeekDone
  <2>1. is' \in StreamFields
    BY <1>8 DEF ReadSeekDone, StreamFields
  <2>2. read' \in ReadFields
    BY <1>8 DEF ReadSeekDone, ReadFields, ReadPcs
  <2> QED
    BY <1>8, <1>a, <1>b, <2>1, <2>2 DEF ReadSeekDone
<1>9. CASE ReadSeekPlay
  <2>1. is' \in StreamFields
    <3> DEFINE pause_req == is.pause_req /\ ~ffp.auto_resume
               step == is.step \/ pause_req
               paused == is.paused /\ ~is.pause_req /\ ~ffp.auto_resume
    <3>1. is' = [is EXCEPT !.pause_req = pause_req, !.step = step, !.paused = paused]
      BY <1>9, is \in StreamFields DEF ReadSeekPlay, StreamFields
    <3>2. pause_req \in BOOLEAN /\ step \in BOOLEAN /\ paused \in BOOLEAN
      OBVIOUS
    <3> HIDE DEF pause_req, step, paused
    <3> QED
      BY <3>1, <3>2, is \in StreamFields DEF StreamFields
  <2>2. ffp' \in FfpFields
    BY <1>9 DEF ReadSeekPlay, FfpFields
  <2> QED
    BY <1>9, <1>0, <1>a, <1>b, <2>1, <2>2 DEF ReadSeekPlay, ReadPcs
<1>10. CASE ReadSeekNotify
  BY <1>10, <1>0, <1>a, <1>b DEF ReadSeekNotify, ReadPcs
<1>11. CASE ReadPacket \/ ReadIdle
  BY <1>11, <1>0, <1>a, <1>b DEF ReadPacket, ReadIdle, ReadPcs
<1>12. CASE ReadRewind
  <2>1. ffp' \in FfpFields
    BY <1>12 DEF ReadRewind, FfpFields
  <2> QED
    BY <1>12, <1>0, <1>a, <1>b, <2>1 DEF ReadRewind, ReadPcs
<1>13. CASE ReadComplete
  <2>1. ffp' \in FfpFields
    BY <1>13 DEF ReadComplete, FfpFields
  <2>2. read' \in ReadFields
    BY <1>13 DEF ReadComplete, ReadFields, ReadPcs
  <2> QED
    BY <1>13, <1>a, <1>b, <2>1, <2>2 DEF ReadComplete
<1>14. CASE ReadCompletePause
  BY <1>14, <1>0, <1>a, <1>b DEF ReadCompletePause, ReadPcs
<1>15. CASE ReadCompleteNotify
  <2>1. read' \in ReadFields
    BY <1>15 DEF ReadCompleteNotify, ReadFields, ReadPcs, FfpFields
  <2> QED
    BY <1>15, <1>a, <1>b, <2>1 DEF ReadCompleteNotify
<1>16. CASE ReadFail
  BY <1>16, <1>0, <1>a, <1>b DEF ReadFail, ReadPcs
<1>17. CASE Drain
  <2>1. is' \in StreamFields
    BY <1>17 DEF Drain, StreamFields
  <2>2. ffp' \in FfpFields
    BY <1>17 DEF Drain, FfpFields
  <2> QED
    BY <1>17, <1>a, <1>b, <2>1, <2>2 DEF Drain
<1>18. CASE StepShown
  <2>1. is' \in StreamFields
    BY <1>18 DEF StepShown, StreamFields
  <2> QED
    BY <1>18, <1>a, <1>b, <2>1 DEF StepShown
<1> QED
  BY <1>1, <1>2, <1>3, <1>4, <1>5, <1>6, <1>7, <1>8, <1>9, <1>10, <1>11, <1>12, <1>13,
     <1>14, <1>15, <1>16, <1>17, <1>18 DEF ReadStep

--------------------------------------------------------------------------------
(* The reference count.                                                        *)

\* A thread that holds the player for a reset() is somewhere in the release inside.
InRelease == ShutdownPcs \cup {"unweak", "unpeer", "dec_old", "dec"}
ResetReleases == \A a \in resetting : pc[a] \in InRelease

\* A thread that has dropped the last reference and is freeing the player.
Reaping(t) == pc[t] = "destroy" \/ (pc[t] \in ShutdownPcs /\ ref_count = 0)

\* There is one at most; a message thread shuts down for no other reason; the
\* stream is closed before the memory goes; and after it nothing is left.
ReaperAlone ==
  /\ \A t, u \in Threads : Reaping(t) /\ Reaping(u) => t = u
  /\ \A t \in Threads : pc[t] = "destroy" => ref_count = 0 /\ ~is.open
  /\ \A l \in Loops : pc[l] \in ShutdownPcs => ref_count = 0
  /\ life = "freed" => ref_count = 0 /\ ~is.open /\ \A t \in Threads : ~Reaping(t)

IInv == ControlTypeOK /\ ResetReleases /\ RefCountExact /\ ReaperAlone

Holders == {t \in Threads : Holding(t)}
Peer == IF jobj.mNativeMediaPlayer THEN 1 ELSE 0

Exact == ref_count = Cardinality(Holders) + Cardinality(resetting) + Cardinality(Dropping) + Peer

LEMMA ExactForm == (RefCountExact <=> Exact) /\ (RefCountExact' <=> Exact')
  BY DEF RefCountExact, Exact, Holders, Peer

LEMMA Counts ==
  ASSUME ControlTypeOK
  PROVE  /\ IsFiniteSet(Holders) /\ Cardinality(Holders) \in Nat
         /\ IsFiniteSet(Dropping) /\ Cardinality(Dropping) \in Nat
         /\ IsFiniteSet(resetting) /\ Cardinality(resetting) \in Nat
         /\ Peer \in {0, 1}
<1>1. IsFiniteSet(Threads)
  BY PlayerAssumption, FS_Union DEF PlayerAssumption, Threads
<1>2. Holders \in SUBSET Threads /\ Dropping \in SUBSET Threads
  BY DEF Holders, Dropping
<1>3. resetting \in SUBSET Apps /\ IsFiniteSet(Apps)
  BY PlayerAssumption DEF PlayerAssumption, ControlTypeOK
<1>4. IsFiniteSet(Holders) /\ IsFiniteSet(Dropping) /\ IsFiniteSet(resetting)
  BY <1>1, <1>2, <1>3, FS_Subset
<1> QED
  BY <1>4, FS_CardinalityType DEF Peer

\* The exact count read backwards: whoever holds a reference keeps it above zero,
\* and at zero nobody does.
LEMMA NoneAtZero ==
  ASSUME ControlTypeOK, RefCountExact
  PROVE  /\ \A t \in Threads : Holding(t) => ref_count > 0
         /\ jobj.mNativeMediaPlayer => ref_count > 0
         /\ ref_count = 0 => Holders = {} /\ resetting = {} /\ Dropping = {}
<1>1. ref_count = Cardinality(Holders) + Cardinality(resetting) + Cardinality(Dropping) + Peer
  BY DEF RefCountExact, Holders, Peer
<1>2. ref_count = 0 => /\ Cardinality(Holders) = 0 /\ Cardinality(resetting) = 0
                       /\ Cardinality(Dropping) = 0 /\ Peer = 0
  BY <1>1, Counts
<1>3. ref_count = 0 => Holders = {} /\ resetting = {} /\ Dropping = {}
  BY <1>2, Counts, FS_EmptySet
<1>4. ref_count \in Nat
  BY DEF ControlTypeOK
<1>5. jobj.mNativeMediaPlayer => ref_count > 0
  BY <1>2, <1>4 DEF Peer
<1> QED
  BY <1>3, <1>4, <1>5 DEF Holders

\* Steps that neither take nor drop a reference.
LEMMA SameHolders ==
  ASSUME IInv, UNCHANGED <<ref_count, resetting>>,
         jobj.mNativeMediaPlayer' = jobj.mNativeMediaPlayer,
         \A t \in Threads : /\ Holding(t)' <=> Holding(t)
                            /\ pc'[t] = "dec_old" <=> pc[t] = "dec_old"
  PROVE  RefCountExact'
<1>1. Holders' = Holders /\ Dropping' = Dropping /\ Peer' = Peer
  BY DEF Holders, Dropping, Peer
<1> QED
  BY <1>1 DEF IInv, RefCountExact, Holders, Peer

\* The labels of a thread that holds one reference and is not about to drop it.
PlainPcs == (AppPcs \cup LoopPcs)
              \ (ShutdownPcs \cup OutsidePcs \cup {"destroy", "dec_old"})

\* A thread moves on with the reference it holds.
PlainMove(t, x) ==
  /\ pc[t] \in PlainPcs /\ x \in PlainPcs
  /\ Goto(t, x)
  /\ pc[t] \in InRelease => x \in InRelease
  /\ UNCHANGED <<ref_count, resetting, life>>
  /\ jobj.mNativeMediaPlayer' = jobj.mNativeMediaPlayer
  /\ is'.open => is.open

LEMMA PlainMoveKeeps ==
  ASSUME IInv, NEW t \in Threads, NEW x, PlainMove(t, x)
  PROVE  ResetReleases' /\ RefCountExact' /\ ReaperAlone'
<1> USE DEF PlainMove
<1>1. \A u \in Threads : pc'[u] = IF u = t THEN x ELSE pc[u]
  BY DEF IInv, ControlTypeOK, PcTypeOK, Goto
<1>2. /\ pc[t] \notin ShutdownPcs \cup OutsidePcs \cup {"destroy", "dec_old"}
      /\ x \notin ShutdownPcs \cup OutsidePcs \cup {"destroy", "dec_old"}
  BY DEF PlainPcs
<1>3. \A u \in Threads : /\ Holding(u)' <=> Holding(u)
                         /\ Reaping(u)' <=> Reaping(u)
                         /\ pc'[u] = "dec_old" <=> pc[u] = "dec_old"
                         /\ pc'[u] = "destroy" <=> pc[u] = "destroy"
                         /\ pc'[u] \in ShutdownPcs <=> pc[u] \in ShutdownPcs
  BY <1>1, <1>2 DEF Holding, Reaping, OutsidePcs
<1>4. RefCountExact'
  BY <1>3, SameHolders
<1>5. ResetReleases'
  BY <1>1 DEF IInv, ResetReleases, ControlTypeOK, Threads
<1>6. ReaperAlone'
  BY <1>3 DEF IInv, ReaperAlone, Threads
<1> QED
  BY <1>4, <1>5, <1>6

\* A step of the read thread, or of nobody.
LEMMA StillKeeps ==
  ASSUME IInv, UNCHANGED <<pc, ref_count, resetting, jobj, life>>, is'.open => is.open
  PROVE  ResetReleases' /\ RefCountExact' /\ ReaperAlone'
<1>1. \A u \in Threads : /\ Holding(u)' <=> Holding(u)
                         /\ Reaping(u)' <=> Reaping(u)
  BY DEF Holding, OutsidePcs, Reaping
<1>2. RefCountExact'
  BY <1>1, SameHolders
<1>3. ReaperAlone'
  BY <1>1 DEF IInv, ReaperAlone
<1> QED
  BY <1>2, <1>3 DEF IInv, ResetReleases

LEMMA PlainLabels ==
  /\ JniOps \cup {"stop_abort", "reset", "unweak", "unpeer", "dec", "begin", "get",
                 "handle", "post"} \subseteq PlainPcs
  /\ (JniOps \cup {"stop_abort", "reset", "begin", "get", "handle", "post"})
       \cap InRelease = {}
  /\ {"unweak", "unpeer", "dec"} \subseteq InRelease
  BY DEF PlainPcs, OutsidePcs, InRelease, JniOps, ShutdownPcs, AppPcs, LoopPcs

LEMMA PiecesOpen ==
  ASSUME is \in StreamFields
  PROVE  /\ StopStream => is'.open = is.open
         /\ \A on \in BOOLEAN : TogglePause(on) => is'.open = is.open
         /\ StreamSeek => is'.open = is.open
<1>1. StopStream => is'.open = is.open
  BY ToggledStream, StoppedStream DEF StopStream
<1>2. \A on \in BOOLEAN : TogglePause(on) => is'.open = is.open
  BY ToggledStream DEF TogglePause
<1>3. StreamSeek => is'.open = is.open
  BY DEF StreamSeek, StreamFields
<1> QED
  BY <1>1, <1>2, <1>3

LEMMA EnterKeeps ==
  ASSUME IInv, NEW a \in Apps, NEW op \in JniOps \cup {"shutdown", "reset"}, Enter(a, op)
  PROVE  IInv'
<1> USE DEF Enter
<1>1. /\ a \in Threads /\ ref_count \in Nat /\ ref_count > 0
      /\ \A u \in Threads : pc'[u] = IF u = a THEN op ELSE pc[u]
  BY NoneAtZero DEF IInv, ControlTypeOK, PcTypeOK, Goto, Threads
<1>2. op \notin OutsidePcs \cup {"destroy", "dec_old"}
  BY DEF JniOps, OutsidePcs
<1>3. ControlTypeOK'
  <2>1. op \in AppPcs
    BY DEF AppPcs, JniOps, ShutdownPcs
  <2> QED
    BY <2>1, GotoApp, PlayerAssumption DEF IInv, ControlTypeOK, PlayerAssumption
<1>4. RefCountExact'
  <2>1. Holders' = Holders \cup {a} /\ a \notin Holders
    BY <1>1, <1>2 DEF Holders, Holding, OutsidePcs
  <2>2. Dropping' = Dropping /\ Peer' = Peer
    BY <1>1, <1>2 DEF Dropping, Peer
  <2>3. Cardinality(Holders') = Cardinality(Holders) + 1
    BY <2>1, Counts, FS_AddElement DEF IInv
  <2> QED
    BY <2>2, <2>3, Counts, ExactForm DEF IInv, Exact
<1>5. ResetReleases'
  <2>1. a \notin resetting
    BY DEF IInv, ResetReleases, InRelease, ShutdownPcs
  <2> QED
    BY <1>1, <2>1 DEF IInv, ResetReleases, ControlTypeOK, Threads
<1>6. ReaperAlone'
  <2>1. \A u \in Threads : ~Reaping(u) /\ ~Reaping(u)'
    BY <1>1, <1>2 DEF IInv, ReaperAlone, Reaping
  <2>2. \A l \in Loops : pc'[l] \notin ShutdownPcs
    BY <1>1, PlayerAssumption DEF IInv, ReaperAlone, PlayerAssumption, Threads
  <2> QED
    BY <1>1, <2>1, <2>2 DEF IInv, ReaperAlone, Reaping
<1> QED
  BY <1>3, <1>4, <1>5, <1>6 DEF IInv

LEMMA AppKeeps ==
  ASSUME IInv, NEW a \in Apps, AppStep(a)
  PROVE  ResetReleases' /\ RefCountExact' /\ ReaperAlone'
<1> USE DEF IInv
<1>0. /\ a \in Threads /\ ref_count \in Nat /\ is \in StreamFields /\ jobj \in JavaFields
      /\ resetting \subseteq Apps
  BY DEF ControlTypeOK, Threads
<1>1. ASSUME NEW x, PlainMove(a, x) PROVE ResetReleases' /\ RefCountExact' /\ ReaperAlone'
  BY <1>0, <1>1, PlainMoveKeeps
<1>2. CASE SetDataSource(a)
  BY <1>1, <1>2, PlainLabels DEF SetDataSource, PlainMove, JniOps
<1>3. ASSUME NEW l \in Loops, PrepareAsync(a, l)
      PROVE  ResetReleases' /\ RefCountExact' /\ ReaperAlone'
  <2>1. /\ pc[a] = "prepare_async" /\ pc[l] = "none" /\ life' \in {life, "aborted"}
        /\ ref_count' = ref_count + 1 /\ UNCHANGED <<jobj, resetting>>
    BY <1>3 DEF PrepareAsync
  <2>2. /\ a # l /\ l \in Threads /\ a \notin Loops
        /\ \A u \in Threads :
             pc'[u] = IF u = a THEN "dec" ELSE IF u = l THEN "begin" ELSE pc[u]
    <3>1. pc' = [pc EXCEPT ![a] = "dec", ![l] = "begin"]
      BY <1>3 DEF PrepareAsync
    <3> QED
      BY <1>0, <3>1, PlayerAssumption DEF PlayerAssumption, ControlTypeOK, PcTypeOK, Threads
  <2>3. Holding(a) /\ ~Holding(l)
    BY <2>1 DEF Holding, OutsidePcs, ShutdownPcs
  <2>4. ref_count > 0
    BY <1>0, <2>3, NoneAtZero
  <2>5. RefCountExact'
    <3>1. \A u \in Threads : Holding(u)' <=> u = l \/ Holding(u)
      BY <1>0, <2>1, <2>2, <2>3, <2>4 DEF Holding, OutsidePcs, ShutdownPcs
    <3>2. Holders' = Holders \cup {l} /\ l \notin Holders
      BY <2>2, <2>3, <3>1 DEF Holders
    <3>3. Dropping' = Dropping
      BY <2>1, <2>2 DEF Dropping
    <3>4. Peer' = Peer
      BY <2>1 DEF Peer
    <3>5. Cardinality(Holders') = Cardinality(Holders) + 1
      BY <3>2, Counts, FS_AddElement
    <3> QED
      BY <2>1, <3>3, <3>4, <3>5, Counts, ExactForm DEF Exact
  <2>6. ResetReleases'
    <3>1. a \notin resetting
      BY <2>1 DEF ResetReleases, InRelease, ShutdownPcs
    <3> QED
      BY <1>0, <2>1, <2>2, <3>1, PlayerAssumption DEF ResetReleases, PlayerAssumption, Threads
  <2>7. ReaperAlone'
    <3>1. \A u \in Threads : ~Reaping(u)
      BY <2>4 DEF ReaperAlone, Reaping
    <3>2. \A u \in Threads : ~Reaping(u)'
      BY <1>0, <2>1, <2>2, <2>4, <3>1 DEF Reaping, ShutdownPcs
    <3>3. life' # "freed"
      BY <2>1, <2>4 DEF ReaperAlone
    <3>4. \A k \in Loops : pc'[k] \notin ShutdownPcs
      BY <2>2, <2>4 DEF ReaperAlone, ShutdownPcs, Threads
    <3> QED
      BY <3>2, <3>3, <3>4 DEF ReaperAlone, Reaping
  <2> QED
    BY <2>5, <2>6, <2>7
<1>4. CASE Start(a) \/ Pause(a)
  BY <1>1, <1>4, PlainLabels DEF Start, Pause, RequestPlay, PlainMove, JniOps
<1>5. CASE Stop(a)
  BY <1>0, <1>1, <1>5, PlainLabels, PiecesOpen DEF Stop, PlainMove, JniOps
<1>6. CASE StopAbort(a)
  BY <1>1, <1>6, PlainLabels DEF StopAbort, PlainMove
<1>7. CASE \E pos \in Positions : SeekTo(a, pos)
  BY <1>1, <1>7, PlainLabels DEF SeekTo, PlainMove, JniOps
<1>8. ASSUME NEW op \in JniOps, NEW s, Refuse(a, op, s)
      PROVE  ResetReleases' /\ RefCountExact' /\ ReaperAlone'
  BY <1>1, <1>8, PlainLabels DEF Refuse, PlainMove
<1>9. CASE Reset(a)
  <2>0. \A b \in BOOLEAN :
          [jobj EXCEPT !.weak_thiz = b].mNativeMediaPlayer = jobj.mNativeMediaPlayer
    BY <1>0 DEF JavaFields
  <2>1. CASE ~jobj.mNativeMediaPlayer
    BY <1>1, <1>9, <2>0, <2>1, PlainLabels DEF Reset, PlainMove
  <2>2. CASE jobj.mNativeMediaPlayer
    <3>1. /\ ref_count > 0 /\ a \notin resetting
          /\ \A u \in Threads : pc'[u] = IF u = a THEN "shutdown" ELSE pc[u]
      BY <1>0, <1>9, <2>2, NoneAtZero
      DEF Reset, ControlTypeOK, PcTypeOK, Goto, ResetReleases, InRelease, ShutdownPcs
    <3>2. RefCountExact'
      <4>1. Holders' = Holders
        BY <1>0, <1>9, <2>2, <3>1 DEF Reset, Holders, Holding, OutsidePcs, ShutdownPcs
      <4>2. /\ Dropping' = Dropping /\ Peer' = Peer
            /\ resetting' = resetting \cup {a} /\ ref_count' = ref_count + 1
        BY <1>9, <2>0, <2>2, <3>1 DEF Reset, Dropping, Peer
      <4>3. Cardinality(resetting') = Cardinality(resetting) + 1
        BY <3>1, <4>2, Counts, FS_AddElement
      <4> QED
        BY <4>1, <4>2, <4>3, Counts, ExactForm DEF Exact
    <3>3. ResetReleases'
      BY <1>0, <1>9, <2>2, <3>1 DEF Reset, ResetReleases, InRelease, ShutdownPcs, Threads
    <3>4. ReaperAlone'
      <4>1. \A u \in Threads : ~Reaping(u) /\ ~Reaping(u)'
        BY <1>0, <1>9, <2>2, <3>1 DEF Reset, ReaperAlone, Reaping
      <4>2. \A k \in Loops : pc'[k] \notin ShutdownPcs
        BY <1>0, <3>1, PlayerAssumption DEF ReaperAlone, PlayerAssumption, Threads
      <4> QED
        BY <1>9, <3>1, <4>1, <4>2 DEF Reset, ReaperAlone, Reaping
    <3> QED
      BY <3>2, <3>3, <3>4
  <2> QED
    BY <2>1, <2>2
<1>10. CASE Unweak(a)
  BY <1>0, <1>1, <1>10, PlainLabels DEF Unweak, PlainMove, JavaFields
<1>11. CASE Unpeer(a)
  <2>1. /\ jobj'.mNativeMediaPlayer = FALSE
        /\ UNCHANGED <<ref_count, resetting, is, life>>
        /\ \A u \in Threads : pc'[u] = IF u = a
              THEN IF jobj.mNativeMediaPlayer THEN "dec_old" ELSE "dec" ELSE pc[u]
    BY <1>0, <1>11 DEF Unpeer, JavaFields, ControlTypeOK, PcTypeOK, Goto
  <2>2. CASE ~jobj.mNativeMediaPlayer
    <3>1. PlainMove(a, "dec")
      BY <1>0, <1>11, <2>1, <2>2, PlainLabels DEF Unpeer, PlainMove, JavaFields
    <3> QED
      BY <1>1, <3>1
  <2>3. CASE jobj.mNativeMediaPlayer
    <3>1. RefCountExact'
      <4>1. Holders' = Holders
        BY <1>11, <2>1, <2>3 DEF Unpeer, Holders, Holding, OutsidePcs, ShutdownPcs
      <4>2. Dropping' = Dropping \cup {a} /\ a \notin Dropping /\ Peer' = 0 /\ Peer = 1
        BY <1>0, <1>11, <2>1, <2>3 DEF Unpeer, Dropping, Peer
      <4>3. Cardinality(Dropping') = Cardinality(Dropping) + 1
        BY <4>2, Counts, FS_AddElement
      <4> QED
        BY <2>1, <4>1, <4>2, <4>3, Counts, ExactForm DEF Exact
    <3>2. ResetReleases'
      BY <1>0, <2>1, <2>3 DEF ResetReleases, InRelease, Threads
    <3>3. ReaperAlone'
      <4>1. \A u \in Threads : Reaping(u)' <=> Reaping(u)
        BY <1>11, <2>1, <2>3 DEF Unpeer, Reaping, ShutdownPcs
      <4> QED
        BY <1>11, <2>1, <2>3, <4>1, PlayerAssumption
        DEF Unpeer, ReaperAlone, ShutdownPcs, PlayerAssumption, Threads
    <3> QED
      BY <3>1, <3>2, <3>3
  <2> QED
    BY <2>2, <2>3
<1> QED
  BY <1>2, <1>3, <1>4, <1>5, <1>6, <1>7, <1>8, <1>9, <1>10, <1>11 DEF AppStep, JniOps

LEMMA DecRefKeeps ==
  ASSUME IInv, NEW t \in Threads, DecRef(t)
  PROVE  ResetReleases' /\ RefCountExact' /\ ReaperAlone'
<1> USE DEF IInv
<1> DEFINE x == IF ref_count = 1 THEN "shutdown" ELSE AfterDec(t)
<1>1. /\ pc[t] \in {"dec", "dec_old"}
      /\ ref_count' = ref_count - 1 /\ UNCHANGED <<jobj, is, life>>
      /\ resetting' = IF pc[t] = "dec" THEN resetting \ {t} ELSE resetting
  BY DEF DecRef
<1>2. \A u \in Threads : pc'[u] = IF u = t THEN x ELSE pc[u]
  BY DEF DecRef, ControlTypeOK, PcTypeOK, Goto
<1>3. /\ ref_count \in Nat /\ ref_count > 0 /\ Holding(t) /\ t \in Holders
      /\ resetting \subseteq Apps
  <2>1. Holding(t)
    BY <1>1 DEF Holding, OutsidePcs, ShutdownPcs
  <2> QED
    BY <2>1, NoneAtZero DEF ControlTypeOK, Holders
<1>4. \A u \in Threads : ~Reaping(u)
  BY <1>3 DEF ReaperAlone, Reaping
<1>5. CASE ref_count = 1
  <2>1. Holders = {t} /\ Dropping = {} /\ resetting = {} /\ Peer = 0
    <3>1. Cardinality(Holders \ {t}) = Cardinality(Holders) - 1 /\ IsFiniteSet(Holders \ {t})
      BY <1>3, Counts, FS_RemoveElement
    <3>2. Cardinality(Holders \ {t}) \in Nat
      BY <3>1, FS_CardinalityType
    <3>3. /\ Cardinality(Holders \ {t}) = 0 /\ Cardinality(resetting) = 0
          /\ Cardinality(Dropping) = 0 /\ Peer = 0
      BY <1>5, <3>1, <3>2, Counts, ExactForm DEF Exact
    <3>4. Holders \ {t} = {} /\ Dropping = {} /\ resetting = {}
      BY <3>1, <3>3, Counts, FS_EmptySet
    <3> QED
      BY <1>3, <3>3, <3>4
  <2>2. \A u \in Threads : pc'[u] = IF u = t THEN "shutdown" ELSE pc[u]
    BY <1>2, <1>5
  <2>3. /\ ref_count' = 0 /\ resetting' = {}
    BY <1>1, <1>3, <1>5, <2>1
  <2>4. \A u \in Threads : u # t => ~Holding(u) /\ pc[u] \notin {"dec", "dec_old"}
    BY <2>1 DEF Holders, Holding, OutsidePcs, ShutdownPcs
  <2>5. \A u \in Threads : ~Holding(u)' /\ pc'[u] # "dec_old"
    BY <1>5, <2>2, <2>3, <2>4 DEF Holding, OutsidePcs, ShutdownPcs
  <2>6. RefCountExact'
    <3>1. Holders' = {} /\ Dropping' = {} /\ Peer' = 0
      BY <1>1, <2>1, <2>5 DEF Holders, Dropping, Peer
    <3> QED
      BY <2>3, <3>1, FS_EmptySet, ExactForm DEF Exact
  <2>7. ResetReleases'
    BY <2>3 DEF ResetReleases
  <2>8. ReaperAlone'
    <3>1. \A u \in Threads : pc[u] \notin ShutdownPcs \/ u = t
      BY <1>5, <2>4 DEF Holding, OutsidePcs, ShutdownPcs
    <3>2. \A u \in Threads : Reaping(u)' => u = t
      BY <1>4, <2>2, <3>1 DEF Reaping
    <3>3. \A u \in Threads : pc'[u] # "destroy"
      BY <1>4, <2>2 DEF Reaping
    <3>4. life' # "freed"
      BY <1>1, <1>3 DEF ReaperAlone
    <3> QED
      BY <2>3, <3>2, <3>3, <3>4 DEF ReaperAlone
  <2> QED
    BY <2>6, <2>7, <2>8
<1>6. CASE ref_count # 1
  <2>1. /\ ref_count' > 0 /\ ref_count' \in Nat
        /\ \A u \in Threads : pc'[u] = IF u = t THEN AfterDec(t) ELSE pc[u]
    BY <1>1, <1>2, <1>3, <1>6
  <2>2. \A u \in Threads : u # t => (Holding(u)' <=> Holding(u))
    BY <1>3, <2>1 DEF Holding, OutsidePcs
  <2>3. AfterDec(t) \in {"dec", "idle", "return"}
    BY DEF AfterDec
  <2>4. ResetReleases'
    <3>1. t \in resetting' => AfterDec(t) = "dec"
      BY <1>1 DEF AfterDec
    <3> QED
      BY <1>1, <1>3, <2>1, <3>1 DEF ResetReleases, InRelease, Threads
  <2>5. ReaperAlone'
    <3>1. \A u \in Threads : ~Reaping(u)' /\ pc'[u] # "destroy"
      BY <1>4, <2>1, <2>3 DEF Reaping, ShutdownPcs
    <3>2. \A l \in Loops : pc'[l] \notin ShutdownPcs
      BY <1>3, <2>1, <2>3 DEF ReaperAlone, ShutdownPcs, Threads
    <3>3. life' # "freed"
      BY <1>1, <1>3 DEF ReaperAlone
    <3> QED
      BY <3>1, <3>2, <3>3 DEF ReaperAlone
  <2>6. Peer' = Peer
    BY <1>1 DEF Peer
  <2>7. CASE pc[t] = "dec_old"
    <3>1. AfterDec(t) = "dec" /\ resetting' = resetting
      BY <1>1, <2>7 DEF AfterDec
    <3>2. Holders' = Holders
      BY <1>3, <2>1, <2>2, <3>1 DEF Holders, Holding, OutsidePcs, ShutdownPcs
    <3>3. Dropping' = Dropping \ {t} /\ t \in Dropping
      BY <2>1, <2>7, <3>1 DEF Dropping
    <3>4. Cardinality(Dropping') = Cardinality(Dropping) - 1
      BY <3>3, Counts, FS_RemoveElement
    <3>5. ref_count' = Cardinality(Holders) + Cardinality(resetting)
                         + (Cardinality(Dropping) - 1) + Peer
      BY <1>1, <1>3, Counts, ExactForm DEF Exact
    <3>6. RefCountExact'
      BY <2>6, <3>1, <3>2, <3>4, <3>5, ExactForm DEF Exact
    <3> QED
      BY <2>4, <2>5, <3>6
  <2>8. CASE pc[t] = "dec"
    <3>1. Dropping' = Dropping /\ resetting' = resetting \ {t}
      BY <1>1, <2>1, <2>3, <2>8 DEF Dropping
    <3>2. CASE t \in resetting
      <4>1. AfterDec(t) = "dec"
        BY <3>2 DEF AfterDec
      <4>2. Holders' = Holders
        BY <1>3, <2>1, <2>2, <4>1 DEF Holders, Holding, OutsidePcs, ShutdownPcs
      <4>3. Cardinality(resetting') = Cardinality(resetting) - 1
        BY <3>1, <3>2, Counts, FS_RemoveElement
      <4> QED
        BY <1>1, <1>3, <2>4, <2>5, <2>6, <3>1, <4>2, <4>3, Counts, ExactForm DEF Exact
    <3>3. CASE t \notin resetting
      <4>1. AfterDec(t) \in {"idle", "return"}
        BY <2>8, <3>3 DEF AfterDec
      <4>2. ~Holding(t)'
        BY <2>1, <4>1 DEF Holding, OutsidePcs
      <4>3. Holders' = Holders \ {t}
        BY <2>2, <4>2 DEF Holders
      <4>4. Cardinality(Holders') = Cardinality(Holders) - 1
        BY <1>3, <4>3, Counts, FS_RemoveElement
      <4>5. resetting' = resetting
        BY <3>1, <3>3
      <4>6. ref_count' = (Cardinality(Holders) - 1) + Cardinality(resetting)
                           + Cardinality(Dropping) + Peer
        BY <1>1, <1>3, Counts, ExactForm DEF Exact
      <4>7. RefCountExact'
        BY <2>6, <3>1, <4>4, <4>5, <4>6, ExactForm DEF Exact
      <4> QED
        BY <2>4, <2>5, <4>7
    <3> QED
      BY <3>2, <3>3
  <2> QED
    BY <1>1, <2>7, <2>8
<1> QED
  BY <1>5, <1>6

\* The steps of a shutdown, whoever runs it.
LEMMA ShutdownKeeps ==
  ASSUME IInv, NEW t \in Threads, NEW x, Goto(t, x), pc[t] \in ShutdownPcs,
         x \in ShutdownPcs \/ x = AfterShutdown,
         x = "destroy" => ~is'.open,
         UNCHANGED <<ref_count, resetting, jobj, life>>, is'.open => is.open
  PROVE  ResetReleases' /\ RefCountExact' /\ ReaperAlone'
<1> USE DEF IInv
<1>1. \A u \in Threads : pc'[u] = IF u = t THEN x ELSE pc[u]
  BY DEF ControlTypeOK, PcTypeOK, Goto
<1>2. ref_count \in Nat /\ resetting \subseteq Apps
  BY DEF ControlTypeOK
<1>3. /\ x \in ShutdownPcs \cup {"destroy", "unweak"}
      /\ x = "destroy" => ref_count = 0
      /\ x = "unweak" => ref_count > 0
  BY <1>2 DEF AfterShutdown, ShutdownPcs
<1>4. \A u \in Threads : /\ Holding(u)' <=> Holding(u)
                         /\ Reaping(u)' <=> Reaping(u)
                         /\ pc'[u] = "dec_old" <=> pc[u] = "dec_old"
  BY <1>1, <1>2, <1>3 DEF Holding, OutsidePcs, Reaping, ShutdownPcs
<1>5. RefCountExact'
  BY <1>4, SameHolders
<1>6. ResetReleases'
  <2>1. ref_count = 0 => resetting = {}
    BY NoneAtZero
  <2>2. t \in resetting => x # "destroy"
    BY <1>3, <2>1
  <2> QED
    BY <1>1, <1>2, <1>3, <2>2 DEF ResetReleases, InRelease, Threads
<1>7. ReaperAlone'
  <2>1. \A u \in Threads : pc'[u] = "destroy" => ref_count' = 0 /\ ~is'.open
    BY <1>1, <1>3 DEF ReaperAlone
  <2>2. \A l \in Loops : pc'[l] \in ShutdownPcs => ref_count' = 0
    BY <1>1 DEF ReaperAlone, Threads
  <2> QED
    BY <1>4, <2>1, <2>2 DEF ReaperAlone
<1> QED
  BY <1>5, <1>6, <1>7

LEMMA DestroyKeeps ==
  ASSUME IInv, NEW t \in Threads, Destroy(t)
  PROVE  ResetReleases' /\ RefCountExact' /\ ReaperAlone'
<1> USE DEF IInv
<1>1. /\ pc[t] = "destroy" /\ UNCHANGED <<ref_count, resetting, jobj, is>>
      /\ \A u \in Threads :
           pc'[u] = IF u = t THEN IF t \in Apps THEN "idle" ELSE "return_freed" ELSE pc[u]
  BY DEF Destroy, Free, ControlTypeOK, PcTypeOK, Goto
<1>2. ref_count = 0 /\ ~is.open /\ Reaping(t)
  BY <1>1 DEF ReaperAlone, Reaping
<1>3. \A u \in Threads : ~Reaping(u)' /\ pc'[u] # "destroy"
  BY <1>1, <1>2 DEF ReaperAlone, Reaping, ShutdownPcs
<1>4. \A u \in Threads : (Holding(u)' <=> Holding(u)) /\ (pc'[u] = "dec_old" <=> pc[u] = "dec_old")
  BY <1>1 DEF Holding, OutsidePcs
<1>5. RefCountExact'
  BY <1>1, <1>4, SameHolders
<1>6. ResetReleases'
  BY <1>1, <1>2, NoneAtZero DEF ResetReleases
<1>7. ReaperAlone'
  BY <1>1, <1>2, <1>3 DEF ReaperAlone
<1> QED
  BY <1>5, <1>6, <1>7

LEMMA ThreadKeeps ==
  ASSUME IInv, NEW t \in Threads, ThreadStep(t)
  PROVE  ResetReleases' /\ RefCountExact' /\ ReaperAlone'
<1> USE DEF IInv
<1>0. /\ is \in StreamFields
      /\ {"shutdown", "shutdown_abort", "shutdown_wait", "shutdown_join"} = ShutdownPcs
  BY DEF ControlTypeOK, ShutdownPcs
<1>1. CASE Shutdown(t)
  BY <1>0, <1>1, ShutdownKeeps, PiecesOpen DEF Shutdown
<1>2. CASE ShutdownAbort(t)
  BY <1>0, <1>2, ShutdownKeeps DEF ShutdownAbort
<1>3. CASE ShutdownWait(t)
  <2>1. CASE is.open
    BY <1>0, <1>3, <2>1, ShutdownKeeps DEF ShutdownWait
  <2>2. CASE ~is.open
    <3>1. is' = is
      BY <1>3, <2>2 DEF ShutdownWait, StopStream
    <3> QED
      BY <1>0, <1>3, <2>2, <3>1, ShutdownKeeps DEF ShutdownWait
  <2> QED
    BY <2>1, <2>2
<1>4. CASE ShutdownJoin(t)
  <2>1. ~is'.open
    BY <1>4 DEF ShutdownJoin, NoStream
  <2> QED
    BY <1>0, <1>4, <2>1, ShutdownKeeps DEF ShutdownJoin
<1> QED
  BY <1>1, <1>2, <1>3, <1>4, DecRefKeeps, DestroyKeeps DEF ThreadStep

LEMMA LoopKeeps ==
  ASSUME IInv, NEW l \in Loops, LoopStep(l)
  PROVE  ResetReleases' /\ RefCountExact' /\ ReaperAlone'
<1> USE DEF IInv
<1>0. l \in Threads /\ is \in StreamFields
  BY DEF ControlTypeOK, Threads
<1>1. ASSUME NEW x, PlainMove(l, x) PROVE ResetReleases' /\ RefCountExact' /\ ReaperAlone'
  BY <1>0, <1>1, PlainMoveKeeps
<1>2. CASE LoopBegin(l) \/ LoopGet(l) \/ LoopAborted(l) \/ LoopPost(l)
  BY <1>1, <1>2, PlainLabels DEF LoopBegin, LoopGet, LoopAborted, LoopPost, PlainMove
<1>r. CASE LoopReturn(l)
  <2>1. /\ \A u \in Threads : pc'[u] = IF u = l THEN "exited" ELSE pc[u]
        /\ pc[l] \in {"return", "return_freed"}
        /\ UNCHANGED <<ref_count, resetting, jobj, is, life>>
    BY <1>r DEF LoopReturn, ControlTypeOK, PcTypeOK, Goto
  <2>2. \A u \in Threads : /\ Holding(u)' <=> Holding(u)
                           /\ Reaping(u)' <=> Reaping(u)
                           /\ pc'[u] = "dec_old" <=> pc[u] = "dec_old"
                           /\ pc'[u] = "destroy" <=> pc[u] = "destroy"
                           /\ pc'[u] \in ShutdownPcs <=> pc[u] \in ShutdownPcs
    BY <2>1 DEF Holding, Reaping, OutsidePcs, ShutdownPcs
  <2>3. RefCountExact'
    BY <2>1, <2>2, SameHolders
  <2>4. ResetReleases'
    BY <1>0, <2>1, PlayerAssumption
    DEF ResetReleases, ControlTypeOK, Threads, PlayerAssumption
  <2>5. ReaperAlone'
    BY <2>1, <2>2 DEF ReaperAlone, Threads
  <2> QED
    BY <2>3, <2>4, <2>5
<1>3. CASE HandlePrepared(l) \/ HandleCompleted(l) \/ HandleSeekComplete(l) \/ HandleOther(l)
  BY <1>1, <1>3, PlainLabels
  DEF HandlePrepared, HandleCompleted, HandleSeekComplete, HandleOther, Handling, PlainMove
<1>4. CASE HandleStart(l)
  <2>1. is'.open => is.open
    BY <1>0, <1>4, PiecesOpen DEF HandleStart
  <2> QED
    BY <1>1, <1>4, <2>1, PlainLabels DEF HandleStart, Handling, PlainMove
<1>5. CASE HandlePause(l)
  <2>1. is'.open => is.open
    BY <1>0, <1>5, PiecesOpen DEF HandlePause
  <2> QED
    BY <1>1, <1>5, <2>1, PlainLabels DEF HandlePause, Handling, PlainMove
<1>6. CASE HandleSeek(l)
  <2>1. is'.open => is.open
    BY <1>0, <1>6, PiecesOpen DEF HandleSeek
  <2> QED
    BY <1>1, <1>6, <2>1, PlainLabels DEF HandleSeek, Handling, PlainMove
<1> QED
  BY <1>2, <1>r, <1>3, <1>4, <1>5, <1>6 DEF LoopStep

LEMMA ReadKeeps ==
  ASSUME IInv, ReadStep \/ Drain \/ StepShown
  PROVE  ResetReleases' /\ RefCountExact' /\ ReaperAlone'
<1>1. UNCHANGED <<pc, ref_count, resetting, jobj, life>>
  BY DEF ReadStep, Drain, StepShown, ReadFrame, ReadOpen, ReadPrepared, ReadWaitStart,
     ReadAutoResume, ReadResumed, ReadLoop, ReadSeek, ReadSeekDone, ReadSeekPlay,
     ReadSeekNotify, ReadPacket, ReadRewind, ReadIdle, ReadComplete, ReadCompletePause,
     ReadCompleteNotify, ReadFail
<1>2. is \in StreamFields
  BY DEF IInv, ControlTypeOK
<1>3. is'.open => is.open
  <2>1. CASE ReadOpen \/ ReadRewind \/ ReadCompletePause
    BY <1>2, <2>1, PiecesOpen DEF ReadOpen, ReadRewind, ReadCompletePause
  <2>2. CASE ReadSeek \/ ReadSeekDone \/ ReadSeekPlay \/ Drain \/ StepShown
    BY <1>2, <2>2 DEF ReadSeek, ReadSeekDone, ReadSeekPlay, Drain, StepShown, StreamFields
  <2> QED
    BY <2>1, <2>2 DEF ReadStep, ReadPrepared, ReadWaitStart, ReadAutoResume, ReadResumed,
       ReadLoop, ReadSeekNotify, ReadPacket, ReadIdle, ReadComplete, ReadCompleteNotify, ReadFail
<1> QED
  BY <1>1, <1>3, StillKeeps

--------------------------------------------------------------------------------
(* The theorems.                                                               *)

LEMMA InitIInv == Init => IInv
<1> SUFFICES ASSUME Init PROVE IInv
  OBVIOUS
<1>1. \A t \in Threads : pc[t] \in {"idle", "none"}
  BY DEF Init
<1>2. ref_count = 1 /\ resetting = {} /\ life = "live" /\ jobj.mNativeMediaPlayer
  BY DEF Init
<1>3. RefCountExact
  <2>1. Holders = {} /\ Dropping = {} /\ Peer = 1
    BY <1>1, <1>2 DEF Holders, Holding, OutsidePcs, Dropping, Peer
  <2> QED
    BY <1>2, <2>1, FS_EmptySet, ExactForm DEF Exact
<1>4. \A t \in Threads : pc[t] \notin ShutdownPcs /\ pc[t] # "destroy"
  BY <1>1 DEF ShutdownPcs
<1>5. ReaperAlone
  BY <1>2, <1>4 DEF ReaperAlone, Reaping, Threads
<1> QED
  BY <1>2, <1>3, <1>5, InitTypes DEF IInv, ResetReleases

LEMMA NextIInv == IInv /\ [Next]_vars => IInv'
<1> SUFFICES ASSUME IInv, [Next]_vars PROVE IInv'
  OBVIOUS
<1>1. ASSUME NEW a \in Apps, NEW op \in JniOps \cup {"shutdown", "reset"}, Enter(a, op)
      PROVE  IInv'
  BY <1>1, EnterKeeps
<1>2. ASSUME NEW a \in Apps, AppStep(a) PROVE IInv'
  BY <1>2, AppTypes, AppKeeps DEF IInv
<1>3. ASSUME NEW t \in Threads, ThreadStep(t) PROVE IInv'
  <2>1. pc[t] \in {"dec", "dec_old"} => ref_count > 0
    BY NoneAtZero DEF IInv, Holding, OutsidePcs, ShutdownPcs
  <2>2. t \in Loops /\ pc[t] \in ShutdownPcs => ref_count = 0
    BY DEF IInv, ReaperAlone
  <2> QED
    BY <1>3, <2>1, <2>2, ThreadTypes, ThreadKeeps DEF IInv
<1>4. ASSUME NEW l \in Loops, LoopStep(l) PROVE IInv'
  BY <1>4, LoopTypes, LoopKeeps DEF IInv
<1>5. ASSUME ReadStep \/ Drain \/ StepShown PROVE IInv'
  BY <1>5, ReadTypes, ReadKeeps DEF IInv
<1>6. CASE UNCHANGED vars
  <2>1. ResetReleases' /\ RefCountExact' /\ ReaperAlone'
    BY <1>6, StillKeeps DEF vars
  <2>2. ControlTypeOK'
    BY <1>6 DEF vars, IInv, ControlTypeOK, PcTypeOK
  <2> QED
    BY <2>1, <2>2 DEF IInv
<1> QED
  BY <1>1, <1>2, <1>3, <1>4, <1>5, <1>6 DEF Next, Step

\* The references, the open stream and the places of the threads stay tied together.
THEOREM Invariant == Spec => []IInv
<1>1. Init => IInv
  BY InitIInv
<1>2. IInv /\ [Next]_vars => IInv'
  BY NextIInv
<1> QED
  BY <1>1, <1>2, PTL DEF Spec

\* Every field the player's threads steer by keeps its type, however many threads
\* and calls there are; in particular ref_count never goes below zero.
THEOREM ControlTyping == Spec => []ControlTypeOK
<1>1. IInv => ControlTypeOK
  BY DEF IInv
<1> QED
  BY <1>1, Invariant, PTL

\* ijkmp_inc_ref and ijkmp_dec_ref count exactly the references there are.
THEOREM RefCounting == Spec => []RefCountExact
<1>1. IInv => RefCountExact
  BY DEF IInv
<1> QED
  BY <1>1, Invariant, PTL

\* Once the player is freed, the message thread started last, which ijkmp_destroy joins,
\* has returned altogether, unless it is the one that freed the player.
Joined == life = "freed" => \A l \in mp.msg_thread : pc[l] # "return"

LEMMA JoinedKept == ASSUME IInv, Joined, [Next]_vars PROVE Joined'
<1>0. /\ pc \in [Threads -> AppPcs \cup LoopPcs]
      /\ mp \in MpFields /\ mp.msg_thread \subseteq Loops /\ Loops \subseteq Threads
  BY DEF IInv, ControlTypeOK, PcTypeOK, MpFields, Threads
<1>1. CASE life = "freed"
  <2>1. \A t \in Threads : pc[t] \in OutsidePcs
    <3>1. ref_count = 0 /\ \A t \in Threads : ~Holding(t) /\ ~Reaping(t)
      BY <1>1, NoneAtZero DEF IInv, ReaperAlone, Holders
    <3> QED
      BY <3>1 DEF Holding, Reaping, OutsidePcs
  <2>2. mp'.msg_thread = mp.msg_thread /\ \A l \in Loops : pc[l] # "return" => pc'[l] # "return"
    <3>1. ASSUME NEW a \in Apps, NEW op \in JniOps \cup {"shutdown", "reset"}, Enter(a, op)
          PROVE  FALSE
      BY <1>1, <3>1, NoneAtZero DEF Enter, IInv, ReaperAlone
    <3>2. ASSUME NEW a \in Apps, AppStep(a) PROVE FALSE
      BY <2>1, <3>2 DEF AppStep, SetDataSource, PrepareAsync, Start, Pause, RequestPlay, SeekTo,
         Refuse, Stop, StopAbort, Reset, Unweak, Unpeer, OutsidePcs, Threads
    <3>3. ASSUME NEW t \in Threads, ThreadStep(t) PROVE FALSE
      BY <2>1, <3>3 DEF ThreadStep, DecRef, Shutdown, ShutdownAbort, ShutdownWait,
         ShutdownJoin, Destroy, OutsidePcs
    <3>4. ASSUME NEW l \in Loops, LoopStep(l) PROVE LoopReturn(l)
      BY <1>0, <2>1, <3>4 DEF LoopStep, LoopBegin, LoopGet, LoopAborted, LoopPost,
         HandlePrepared, HandleCompleted, HandleSeekComplete, HandleOther, HandleStart,
         HandlePause, HandleSeek, Handling, OutsidePcs
    <3>5. ASSUME NEW l \in Loops, LoopReturn(l)
          PROVE  mp' = mp /\ pc' = [pc EXCEPT ![l] = "exited"]
      BY <3>5 DEF LoopReturn, Goto
    <3>6. ASSUME ReadStep \/ Drain \/ StepShown PROVE UNCHANGED <<mp, pc>>
      BY <3>6 DEF ReadStep, Drain, StepShown, ReadFrame, ReadOpen, ReadPrepared, ReadWaitStart,
         ReadAutoResume, ReadResumed, ReadLoop, ReadSeek, ReadSeekDone, ReadSeekPlay,
         ReadSeekNotify, ReadPacket, ReadRewind, ReadIdle, ReadComplete, ReadCompletePause,
         ReadCompleteNotify, ReadFail
    <3>7. CASE \E l \in Loops : LoopReturn(l)
      BY <1>0, <3>5, <3>7
    <3>8. CASE UNCHANGED <<mp, pc>>
      BY <3>8
    <3> QED
      BY <3>1, <3>2, <3>3, <3>4, <3>6, <3>7, <3>8 DEF Next, Step, vars
  <2> QED
    BY <1>0, <1>1, <2>2 DEF Joined
<1>2. CASE life # "freed"
  <2>1. ASSUME life' = "freed" PROVE \E t \in Threads : Destroy(t)
    <3>1. life' # life
      BY <1>2, <2>1
    <3>2. ASSUME NEW a \in Apps, NEW op \in JniOps \cup {"shutdown", "reset"}, Enter(a, op)
          PROVE  UNCHANGED life
      BY <3>2 DEF Enter
    <3>3. ASSUME NEW a \in Apps, AppStep(a) PROVE life' # "freed"
      BY <1>2, <3>3 DEF AppStep, SetDataSource, PrepareAsync, Start, Pause, RequestPlay, SeekTo,
         Refuse, Stop, StopAbort, Reset, Unweak, Unpeer
    <3>4. ASSUME NEW t \in Threads, ThreadStep(t), ~Destroy(t) PROVE UNCHANGED life
      BY <3>4 DEF ThreadStep, DecRef, Shutdown, ShutdownAbort, ShutdownWait, ShutdownJoin
    <3>5. ASSUME NEW l \in Loops, LoopStep(l) PROVE UNCHANGED life
      BY <3>5 DEF LoopStep, LoopBegin, LoopGet, LoopAborted, LoopPost, LoopReturn,
         HandlePrepared, HandleCompleted, HandleSeekComplete, HandleOther, HandleStart,
         HandlePause, HandleSeek
    <3>6. ASSUME ReadStep \/ Drain \/ StepShown PROVE UNCHANGED life
      BY <3>6 DEF ReadStep, Drain, StepShown, ReadFrame, ReadOpen, ReadPrepared, ReadWaitStart,
         ReadAutoResume, ReadResumed, ReadLoop, ReadSeek, ReadSeekDone, ReadSeekPlay,
         ReadSeekNotify, ReadPacket, ReadRewind, ReadIdle, ReadComplete, ReadCompletePause,
         ReadCompleteNotify, ReadFail
    <3> QED
      BY <2>1, <3>1, <3>2, <3>3, <3>4, <3>5, <3>6 DEF Next, Step, vars
  <2>2. ASSUME NEW t \in Threads, Destroy(t) PROVE Joined'
    <3>1. /\ \A l \in mp.msg_thread : l = t \/ pc[l] = "exited"
          /\ mp' = mp
          /\ \E x \in {"idle", "return_freed"} : pc' = [pc EXCEPT ![t] = x]
      BY <2>2 DEF Destroy, Free, Goto
    <3> QED
      BY <1>0, <3>1 DEF Joined
  <2> QED
    BY <2>1, <2>2 DEF Joined
<1> QED
  BY <1>1, <1>2

LEMMA FreedAndJoined == ASSUME IInv, Joined PROVE FreedIsUnused
<1> SUFFICES ASSUME life = "freed" PROVE FreedIsUnused
  BY DEF FreedIsUnused
<1>1. ref_count = 0 /\ ~is.open /\ \A t \in Threads : ~Reaping(t)
  BY DEF IInv, ReaperAlone
<1>2. ~jobj.mNativeMediaPlayer /\ \A t \in Threads : ~Holding(t)
  BY <1>1, NoneAtZero DEF IInv, Holders
<1>3. \A t \in Threads : pc[t] \in OutsidePcs
  BY <1>1, <1>2 DEF Holding, Reaping
<1> QED
  BY <1>1, <1>2, <1>3 DEF FreedIsUnused, Joined

\* ijkmp_destroy never frees a player some call or message loop is still inside of, one
\* whose stream is open, that the Java object still points to, or into which the message
\* thread it has joined could still write its retval.
THEOREM NoUseAfterFree == Spec => []FreedIsUnused
<1>1. Init => IInv /\ Joined
  BY InitIInv DEF Init, Joined
<1>2. IInv /\ Joined /\ [Next]_vars => IInv' /\ Joined'
  BY NextIInv, JoinedKept
<1>3. IInv /\ Joined => FreedIsUnused
  BY FreedAndJoined
<1> QED
  BY <1>1, <1>2, <1>3, PTL DEF Spec


--------------------------------------------------------------------------------
(* The message queue: what msg_queue_remove leaves, and the other operations.   *)

\* Every non-empty set of naturals has a least element: induction without an operator.
LEMMA Least ==
  ASSUME NEW T, T \subseteq Nat, T # {}
  PROVE  \E n \in T : \A m \in T : n <= m
<1> DEFINE R == OpToRel(<, Nat)
<1>1. IsWellFoundedOn(R, Nat)
  BY NatLessThanWellFounded
<1>2. \A x, y \in Nat : <<x, y>> \in R <=> x < y
  BY DEF OpToRel
<1> HIDE DEF R
<1>3. PICK x \in T : \A y \in T : ~ (<<y, x>> \in R)
  BY <1>1, WFMin
<1>4. \A y \in T : ~ (y < x)
  BY <1>2, <1>3
<1> QED
  BY <1>4

\* One step of the recursion in Without.
KeepNext(f, i, msgs, what) ==
  IF i = 0 THEN <<>>
  ELSE IF msgs[i].what = what THEN f[i - 1] ELSE Append(f[i - 1], msgs[i])

\* The recursion has a solution up to each length.
LEMMA KeptExists ==
  ASSUME NEW msgs, NEW what, NEW n \in Nat
  PROVE  \E f : f = [i \in 0..n |-> KeepNext(f, i, msgs, what)]
<1> DEFINE Good(m) == \E f : f = [i \in 0..m |-> KeepNext(f, i, msgs, what)]
           Bad == {m \in Nat : ~ Good(m)}
<1>1. SUFFICES ASSUME Bad # {} PROVE FALSE
  OBVIOUS
<1>2. PICK m \in Bad : \A k \in Bad : m <= k
  BY <1>1, Least
<1>3. CASE m = 0
  <2>1. [i \in 0..0 |-> <<>>] = [i \in 0..0 |-> KeepNext([j \in 0..0 |-> <<>>], i, msgs, what)]
    BY DEF KeepNext
  <2> QED
    BY <1>2, <1>3, <2>1
<1>4. CASE m # 0
  <2>1. m \in Nat /\ m - 1 \in Nat /\ Good(m - 1)
    BY <1>2, <1>4
  <2>2. PICK f : f = [i \in 0..(m - 1) |-> KeepNext(f, i, msgs, what)]
    BY <2>1
  <2> DEFINE g == [i \in 0..m |-> IF i < m THEN f[i] ELSE KeepNext(f, m, msgs, what)]
  <2>3. ASSUME NEW i \in 0..m PROVE g[i] = KeepNext(g, i, msgs, what)
    <3>1. g[i] = KeepNext(f, i, msgs, what)
      <4>1. CASE i < m
        <5>1. i \in 0..(m - 1)
          BY <2>1, <2>3, <4>1
        <5>2. f[i] = KeepNext(f, i, msgs, what)
          BY <2>2, <5>1, Zenon
        <5> QED
          BY <4>1, <5>2
      <4>2. CASE i = m
        BY <4>2, <2>1
      <4> QED
        BY <2>1, <2>3, <4>1, <4>2
    <3>2. i # 0 => g[i - 1] = f[i - 1]
      BY <2>1, <2>3
    <3> QED
      BY <3>1, <3>2, Zenon DEF KeepNext
  <2>4. g = [i \in 0..m |-> KeepNext(g, i, msgs, what)]
    <3> DEFINE h == [i \in 0..m |-> KeepNext(g, i, msgs, what)]
    <3>1. \A i \in 0..m : h[i] = g[i]
      BY <2>3
    <3>2. DOMAIN h = 0..m /\ DOMAIN g = 0..m
      OBVIOUS
    <3>3. h = [i \in DOMAIN h |-> h[i]] /\ g = [i \in DOMAIN g |-> g[i]]
      OBVIOUS
    <3> HIDE DEF h, g
    <3>4. h = g
      BY <3>1, <3>2, <3>3, Zenon
    <3> QED
      BY <3>4 DEF h
  <2>5. Good(m)
    BY <2>4
  <2> QED
    BY <1>2, <2>5
<1> QED
  BY <1>3, <1>4

Kept(msgs, what) ==
  CHOOSE f : f = [i \in 0..Len(msgs) |-> KeepNext(f, i, msgs, what)]

LEMMA KeptUnfolds ==
  ASSUME NEW M, NEW msgs \in Seq(M), NEW what
  PROVE  /\ Without(msgs, what) = Kept(msgs, what)[Len(msgs)]
         /\ Kept(msgs, what)[0] = <<>>
         /\ \A i \in 1..Len(msgs) :
              Kept(msgs, what)[i] = IF msgs[i].what = what THEN Kept(msgs, what)[i - 1]
                                    ELSE Append(Kept(msgs, what)[i - 1], msgs[i])
<1> DEFINE f == Kept(msgs, what)
<1>1. Len(msgs) \in Nat
  OBVIOUS
<1>2. Without(msgs, what) = f[Len(msgs)]
  BY Zenon DEF Without, Kept, KeepNext
<1>a. \E g : g = [i \in 0..Len(msgs) |-> KeepNext(g, i, msgs, what)]
  <2>1. \A n \in Nat : \E g : g = [i \in 0..n |-> KeepNext(g, i, msgs, what)]
    BY KeptExists, SMTT(30)
  <2> QED
    BY <1>1, <2>1, Zenon
<1>3. f = [i \in 0..Len(msgs) |-> KeepNext(f, i, msgs, what)]
  BY <1>a, Zenon DEF Kept
<1> HIDE DEF f
<1>4. \A i \in 0..Len(msgs) : f[i] = KeepNext(f, i, msgs, what)
  BY <1>3, Zenon
<1>5. f[0] = <<>>
  BY <1>1, <1>4 DEF KeepNext
<1>6. ASSUME NEW i \in 1..Len(msgs)
      PROVE  f[i] = IF msgs[i].what = what THEN f[i - 1] ELSE Append(f[i - 1], msgs[i])
  BY <1>1, <1>4 DEF KeepNext
<1> QED
  BY <1>2, <1>5, <1>6 DEF f

\* The messages of other kinds, each once and in their order.
Sifts(kept, msgs, what, n, at) ==
  /\ at \in [1..Len(kept) -> 1..n]
  /\ \A i \in 1..Len(kept) : kept[i] = msgs[at[i]] /\ kept[i].what # what
  /\ \A i, j \in 1..Len(kept) : i < j => at[i] < at[j]
  /\ \A k \in 1..n : msgs[k].what # what => \E i \in 1..Len(kept) : at[i] = k

LEMMA WithoutSifts ==
  ASSUME NEW M, NEW msgs \in Seq(M), NEW what
  PROVE  /\ Without(msgs, what) \in Seq(M)
         /\ \E at : Sifts(Without(msgs, what), msgs, what, Len(msgs), at)
<1> DEFINE f == Kept(msgs, what)
           Good(m) == f[m] \in Seq(M) /\ \E at : Sifts(f[m], msgs, what, m, at)
           Bad == {m \in 0..Len(msgs) : ~ Good(m)}
<1>0. /\ f[0] = <<>>
      /\ \A i \in 1..Len(msgs) : f[i] = IF msgs[i].what = what THEN f[i - 1]
                                        ELSE Append(f[i - 1], msgs[i])
  BY KeptUnfolds
<1> HIDE DEF f
<1>1. SUFFICES ASSUME Bad # {} PROVE FALSE
  BY KeptUnfolds DEF f
<1>a. Bad \subseteq Nat
  OBVIOUS
<1>2. PICK m \in Bad : \A k \in Bad : m <= k
  <2> HIDE DEF Bad
  <2> QED
    BY <1>1, <1>a, Least
<1>3. CASE m = 0
  <2>1. Sifts(<<>>, msgs, what, 0, <<>>)
    BY DEF Sifts
  <2>2. Good(0)
    BY <1>0, <2>1
  <2> QED
    BY <1>2, <1>3, <2>2
<1>4. CASE m # 0
  <2>1. m \in 1..Len(msgs) /\ m - 1 \in 0..Len(msgs) /\ Good(m - 1)
    BY <1>2, <1>4
  <2> DEFINE old == f[m - 1]
  <2>2. PICK at : Sifts(old, msgs, what, m - 1, at)
    BY <2>1
  <2>3. old \in Seq(M) /\ Len(old) \in Nat
    BY <2>1
  <2>4. f[m] = IF msgs[m].what = what THEN old ELSE Append(old, msgs[m])
    BY <1>0, <2>1
  <2>5. msgs[m] \in M
    BY <2>1
  <2> HIDE DEF old
  <2>6. CASE msgs[m].what = what
    <3>1. Sifts(old, msgs, what, m, at)
      BY <2>1, <2>2, <2>3, <2>6 DEF Sifts
    <3> QED
      BY <1>2, <2>3, <2>4, <2>6, <3>1
  <2>7. CASE msgs[m].what # what
    <3> DEFINE new == Append(old, msgs[m])
               ext == [i \in 1..Len(new) |-> IF i <= Len(old) THEN at[i] ELSE m]
    <3>1. /\ new \in Seq(M) /\ Len(new) = Len(old) + 1
          /\ \A i \in 1..Len(old) : new[i] = old[i]
          /\ new[Len(new)] = msgs[m]
      BY <2>3, <2>5
    <3> HIDE DEF new
    <3>a. \A i \in 1..Len(new) : ext[i] = IF i <= Len(old) THEN at[i] ELSE m
      OBVIOUS
    <3>b. DOMAIN ext = 1..Len(new) /\ ext = [i \in DOMAIN ext |-> ext[i]]
      OBVIOUS
    <3> HIDE DEF ext
    <3>2. /\ \A i \in 1..Len(old) : ext[i] = at[i] /\ at[i] \in 1..(m - 1)
          /\ ext[Len(new)] = m
      <4>1. \A i \in 1..Len(old) : at[i] \in 1..(m - 1)
        BY <2>2 DEF Sifts
      <4>2. \A i \in 1..Len(old) : i \in 1..Len(new) /\ i <= Len(old)
        BY <2>3, <3>1
      <4>3. Len(new) \in 1..Len(new) /\ ~ (Len(new) <= Len(old))
        BY <2>3, <3>1
      <4> QED
        BY <3>a, <4>1, <4>2, <4>3
    <3>3. ext \in [1..Len(new) -> 1..m]
      <4>1. \A i \in 1..Len(new) : ext[i] \in 1..m
        BY <2>1, <2>3, <3>1, <3>2
      <4> QED
        BY <3>b, <4>1
    <3>4. \A i \in 1..Len(new) : new[i] = msgs[ext[i]] /\ new[i].what # what
      BY <2>2, <2>3, <2>7, <3>1, <3>2 DEF Sifts
    <3>5. \A i, j \in 1..Len(new) : i < j => ext[i] < ext[j]
      <4> SUFFICES ASSUME NEW i \in 1..Len(new), NEW j \in 1..Len(new), i < j
                   PROVE  ext[i] < ext[j]
        OBVIOUS
      <4>a. i \in 1..Len(old)
        BY <2>3, <3>1
      <4>1. i \in 1..Len(old) /\ ext[i] \in 1..(m - 1)
        BY <3>2, <4>a
      <4>2. CASE j = Len(new)
        BY <2>1, <3>2, <4>1, <4>2
      <4>3. CASE j # Len(new)
        <5>1. j \in 1..Len(old)
          BY <2>3, <3>1, <4>3
        <5> QED
          BY <2>2, <3>2, <4>1, <5>1 DEF Sifts
      <4> QED
        BY <4>2, <4>3
    <3>6. ASSUME NEW k \in 1..m, msgs[k].what # what
          PROVE  \E i \in 1..Len(new) : ext[i] = k
      <4>1. CASE k = m
        BY <2>3, <3>1, <3>2, <4>1
      <4>2. CASE k # m
        <5>1. k \in 1..(m - 1)
          BY <2>1, <4>2
        <5>2. PICK i \in 1..Len(old) : at[i] = k
          BY <2>2, <3>6, <5>1 DEF Sifts
        <5>3. i \in 1..Len(new) /\ ext[i] = k
          BY <2>3, <3>1, <3>2, <5>2
        <5> QED
          BY <5>3
      <4> QED
        BY <4>1, <4>2
    <3>7. Sifts(new, msgs, what, m, ext)
      BY <3>3, <3>4, <3>5, <3>6 DEF Sifts
    <3>8. f[m] = new
      BY <2>4, <2>7 DEF new
    <3> QED
      BY <1>2, <3>1, <3>7, <3>8
  <2> QED
    BY <2>6, <2>7
<1> QED
  BY <1>3, <1>4

--------------------------------------------------------------------------------
(* The operations of the message queue.                                        *)

\* There is at most one message of the kind.
Single(q, what) ==
  \A i, j \in DOMAIN q.msgs : q.msgs[i].what = what /\ q.msgs[j].what = what => i = j

LEMMA PutFacts ==
  ASSUME NEW q \in Queue(Message), NEW m \in Message
  PROVE  /\ Put(q, m) \in Queue(Message)
         /\ Put(q, m).abort_request = q.abort_request
         /\ \A what : Holds(Put(q, m), what) <=>
                        Holds(q, what) \/ (~q.abort_request /\ m.what = what)
         /\ \A what : Single(q, what) /\ (m.what # what \/ ~Holds(q, what))
                        => Single(Put(q, m), what)
<1>1. CASE q.abort_request
  BY <1>1 DEF Put
<1>2. CASE ~q.abort_request
  <2> DEFINE r == Put(q, m)
  <2>1. /\ r \in Queue(Message)
        /\ r.abort_request = q.abort_request /\ r.msgs = Append(q.msgs, m)
    BY <1>2 DEF Put, Queue
  <2>2. q.msgs \in Seq(Message) /\ q.abort_request \in BOOLEAN
    BY DEF Queue
  <2> HIDE DEF r
  <2>3. /\ DOMAIN q.msgs = 1..Len(q.msgs) /\ DOMAIN r.msgs = 1..(Len(q.msgs) + 1)
        /\ Len(q.msgs) \in Nat
        /\ \A i \in 1..Len(q.msgs) : r.msgs[i] = q.msgs[i]
        /\ r.msgs[Len(q.msgs) + 1] = m
    BY <2>1, <2>2
  <2>4. \A what : Holds(r, what) <=> Holds(q, what) \/ m.what = what
    BY <2>3 DEF Holds
  <2>5. ASSUME NEW what, Single(q, what), m.what # what \/ ~Holds(q, what)
        PROVE  Single(r, what)
    <3>1. CASE m.what # what
      <4>1. \A i \in 1..(Len(q.msgs) + 1) : r.msgs[i].what = what =>
              i \in 1..Len(q.msgs) /\ q.msgs[i].what = what
        BY <2>3, <3>1
      <4> QED
        BY <2>3, <2>5, <4>1 DEF Single
    <3>2. CASE ~Holds(q, what)
      <4>1. \A i \in 1..Len(q.msgs) : r.msgs[i].what # what
        BY <2>3, <3>2, Zenon DEF Holds
      <4>2. \A i \in 1..(Len(q.msgs) + 1) : i \in 1..Len(q.msgs) \/ i = Len(q.msgs) + 1
        BY <2>3
      <4> QED
        BY <2>3, <4>1, <4>2, Zenon DEF Single
    <3> QED
      BY <2>5, <3>1, <3>2
  <2> QED
    BY <1>2, <2>1, <2>4, <2>5 DEF r
<1> QED
  BY <1>1, <1>2

LEMMA RemoveFacts ==
  ASSUME NEW q \in Queue(Message), NEW kind
  PROVE  /\ RemoveKind(q, kind) \in Queue(Message)
         /\ RemoveKind(q, kind).abort_request = q.abort_request
         /\ \A what : Holds(RemoveKind(q, kind), what) => Holds(q, what)
         /\ \A what : what # kind /\ Holds(q, what) => Holds(RemoveKind(q, kind), what)
         /\ \A what : Single(q, what) => Single(RemoveKind(q, kind), what)
<1>1. CASE q.abort_request
  BY <1>1 DEF RemoveKind
<1>2. CASE ~q.abort_request
  <2> DEFINE r == RemoveKind(q, kind)
             kept == Without(q.msgs, kind)
  <2>1. q.msgs \in Seq(Message) /\ q.abort_request \in BOOLEAN
    BY DEF Queue
  <2>2. kept \in Seq(Message) /\ \E at : Sifts(kept, q.msgs, kind, Len(q.msgs), at)
    BY <2>1, WithoutSifts
  <2>3. r \in Queue(Message) /\ r.abort_request = q.abort_request /\ r.msgs = kept
    BY <1>2, <2>2 DEF RemoveKind, Queue
  <2> HIDE DEF r, kept
  <2>4. PICK at : Sifts(kept, q.msgs, kind, Len(q.msgs), at)
    BY <2>2
  <2>5. /\ DOMAIN q.msgs = 1..Len(q.msgs) /\ DOMAIN r.msgs = 1..Len(kept)
        /\ Len(q.msgs) \in Nat /\ Len(kept) \in Nat
        /\ \A i \in 1..Len(kept) : at[i] \in 1..Len(q.msgs) /\ r.msgs[i] = q.msgs[at[i]]
        /\ \A i, j \in 1..Len(kept) : i < j => at[i] < at[j]
        /\ \A k \in 1..Len(q.msgs) : q.msgs[k].what # kind => \E i \in 1..Len(kept) : at[i] = k
    <3>1. /\ DOMAIN q.msgs = 1..Len(q.msgs) /\ DOMAIN r.msgs = 1..Len(kept)
          /\ Len(q.msgs) \in Nat /\ Len(kept) \in Nat
      BY <2>1, <2>2, <2>3
    <3>2. \A i \in 1..Len(kept) : at[i] \in 1..Len(q.msgs) /\ r.msgs[i] = q.msgs[at[i]]
      BY <2>3, <2>4 DEF Sifts
    <3> QED
      BY <2>4, <3>1, <3>2 DEF Sifts
  <2>6. \A what : Holds(r, what) => Holds(q, what)
    BY <2>5 DEF Holds
  <2>7. ASSUME NEW what, what # kind, Holds(q, what) PROVE Holds(r, what)
    <3>1. PICK k \in 1..Len(q.msgs) : q.msgs[k].what = what
      BY <2>5, <2>7 DEF Holds
    <3>2. PICK i \in 1..Len(kept) : at[i] = k
      BY <2>5, <2>7, <3>1
    <3>3. r.msgs[i].what = what
      BY <2>5, <3>1, <3>2
    <3> QED
      BY <2>5, <3>3 DEF Holds
  <2>8. ASSUME NEW what, Single(q, what) PROVE Single(r, what)
    <3> SUFFICES ASSUME NEW i \in 1..Len(kept), NEW j \in 1..Len(kept),
                        r.msgs[i].what = what, r.msgs[j].what = what
                 PROVE  i = j
      BY <2>5 DEF Single
    <3>0. /\ at[i] \in DOMAIN q.msgs /\ at[j] \in DOMAIN q.msgs
          /\ q.msgs[at[i]].what = what /\ q.msgs[at[j]].what = what
      BY <2>5
    <3>1. at[i] = at[j]
      BY <2>8, <3>0 DEF Single
    <3>2. at[i] \in Nat /\ at[j] \in Nat
      BY <2>5
    <3> QED
      BY <2>5, <3>1, <3>2
  <2> QED
    BY <2>3, <2>6, <2>7, <2>8 DEF r
<1> QED
  BY <1>1, <1>2

LEMMA TakeFacts ==
  ASSUME NEW q \in Queue(Message), q.msgs # <<>>,
         NEW r, r = [q EXCEPT !.msgs = Tail(@)]
  PROVE  /\ r \in Queue(Message) /\ Head(q.msgs) \in Message
         /\ r.abort_request = q.abort_request
         /\ \A what : Holds(q, what) <=> Head(q.msgs).what = what \/ Holds(r, what)
         /\ \A what : Single(q, what) =>
              Single(r, what) /\ (Head(q.msgs).what = what => ~Holds(r, what))
<1>1. q.msgs \in Seq(Message) /\ q.abort_request \in BOOLEAN
  BY DEF Queue
<1>2. /\ r \in Queue(Message) /\ r.abort_request = q.abort_request
      /\ r.msgs = Tail(q.msgs) /\ Head(q.msgs) \in Message
  <2>1. r.msgs = Tail(q.msgs) /\ r.abort_request = q.abort_request
    BY DEF Queue
  <2>2. Tail(q.msgs) \in Seq(Message) /\ Head(q.msgs) \in Message
    BY <1>1
  <2> QED
    BY <1>1, <2>1, <2>2 DEF Queue
<1>3. /\ DOMAIN q.msgs = 1..Len(q.msgs) /\ DOMAIN r.msgs = 1..(Len(q.msgs) - 1)
      /\ Len(q.msgs) \in Nat /\ Len(q.msgs) > 0
      /\ \A i \in 1..(Len(q.msgs) - 1) : r.msgs[i] = q.msgs[i + 1]
      /\ Head(q.msgs) = q.msgs[1]
  <2> DEFINE s == q.msgs
  <2>1. s \in Seq(Message) /\ s # <<>>
    BY <1>1
  <2> HIDE DEF s
  <2>2. /\ DOMAIN s = 1..Len(s) /\ DOMAIN Tail(s) = 1..(Len(s) - 1)
        /\ Len(s) \in Nat /\ Len(s) > 0 /\ Head(s) = s[1]
    BY <2>1
  <2>3. \A i \in 1..(Len(s) - 1) : Tail(s)[i] = s[i + 1]
    BY <2>1, <2>2
  <2> QED
    BY <1>2, <2>2, <2>3 DEF s
<1>4. \A k \in 1..Len(q.msgs) :
        k = 1 \/ (k - 1 \in 1..(Len(q.msgs) - 1) /\ r.msgs[k - 1] = q.msgs[k])
  BY <1>3
<1>5. \A i \in 1..(Len(q.msgs) - 1) : i + 1 \in 1..Len(q.msgs) /\ i + 1 # 1
  BY <1>3
<1>6. ASSUME NEW what PROVE Holds(q, what) <=> Head(q.msgs).what = what \/ Holds(r, what)
  <2>1. Holds(r, what) => Holds(q, what)
    BY <1>3, <1>5 DEF Holds
  <2>2. Head(q.msgs).what = what => Holds(q, what)
    BY <1>3 DEF Holds
  <2>3. Holds(q, what) => Head(q.msgs).what = what \/ Holds(r, what)
    BY <1>3, <1>4 DEF Holds
  <2> QED
    BY <2>1, <2>2, <2>3
<1>7. ASSUME NEW what, Single(q, what) PROVE Single(r, what)
  <2> SUFFICES ASSUME NEW i \in 1..(Len(q.msgs) - 1), NEW j \in 1..(Len(q.msgs) - 1),
                      r.msgs[i].what = what, r.msgs[j].what = what
               PROVE  i = j
    BY <1>3 DEF Single
  <2>1. i + 1 = j + 1
    BY <1>3, <1>5, <1>7 DEF Single
  <2> QED
    BY <2>1
<1>8. ASSUME NEW what, Single(q, what), Head(q.msgs).what = what PROVE ~Holds(r, what)
  <2> SUFFICES ASSUME NEW i \in 1..(Len(q.msgs) - 1), r.msgs[i].what = what PROVE FALSE
    BY <1>3 DEF Holds
  <2>1. i + 1 = 1
    BY <1>3, <1>5, <1>8 DEF Single
  <2> QED
    BY <1>5, <2>1
<1> QED
  BY <1>2, <1>6, <1>7, <1>8

LEMMA AbortFacts ==
  ASSUME NEW q \in Queue(Message)
  PROVE  /\ Abort(q) \in Queue(Message)
         /\ Abort(q).msgs = q.msgs
         /\ \A what : Holds(Abort(q), what) <=> Holds(q, what)
         /\ \A what : Single(q, what) => Single(Abort(q), what)
<1>1. Abort(q) \in Queue(Message) /\ Abort(q).msgs = q.msgs
  BY DEF Abort, Queue
<1> HIDE DEF Abort
<1> QED
  BY <1>1 DEF Holds, Single

LEMMA StartFacts ==
  ASSUME NEW q \in Queue(Message), NEW m \in Message
  PROVE  /\ StartQueue(q, m) \in Queue(Message)
         /\ ~StartQueue(q, m).abort_request
         /\ \A what : Holds(StartQueue(q, m), what) <=> Holds(q, what) \/ m.what = what
         /\ \A what : Single(q, what) /\ m.what # what => Single(StartQueue(q, m), what)
<1> DEFINE r == [q EXCEPT !.abort_request = FALSE]
<1>1. r \in Queue(Message) /\ r.msgs = q.msgs /\ ~r.abort_request
  BY DEF Queue
<1>2. StartQueue(q, m) = Put(r, m)
  BY DEF StartQueue
<1> HIDE DEF r
<1>3. \A what : (Holds(r, what) <=> Holds(q, what)) /\ (Single(r, what) <=> Single(q, what))
  BY <1>1 DEF Holds, Single
<1> QED
  BY <1>1, <1>2, <1>3, PutFacts

--------------------------------------------------------------------------------
(* Which messages are on their way: in the queue or in a message thread's hand. *)

InHand(l, what) == pc[l] = "handle" /\ hand[l].what = what

\* There is at most one FFP_MSG_PREPARED.
OnePrepared ==
  /\ Single(msg_queue, "PREPARED")
  /\ \A l \in Loops : InHand(l, "PREPARED") =>
       /\ ~Holds(msg_queue, "PREPARED")
       /\ \A k \in Loops : InHand(k, "PREPARED") => k = l

\* The step adds messages of the kinds in new and no others.
Adds(new) ==
  /\ \A what : Pending(what)' => Pending(what) \/ what \in new
  /\ OnePrepared /\ ("PREPARED" \in new => ~Pending("PREPARED")) => OnePrepared'

\* Nor does it lose one of the kind.
Keeps(what) == Pending(what) => Pending(what)'

LEMMA MessageTyping ==
  /\ \A what \in Kinds : Msg(what) \in Message /\ Msg(what).what = what
  /\ \A pos \in Positions : [what |-> "REQ_SEEK", arg1 |-> pos] \in Message
  BY PlayerAssumption DEF PlayerAssumption, Msg, Message, Kinds

\* A step that changes the queue at most.
LEMMA QueueStep ==
  ASSUME QueueTypeOK, UNCHANGED hand, NEW new,
         \A l \in Loops : pc'[l] = "handle" <=> pc[l] = "handle",
         msg_queue' \in Queue(Message),
         \A what : Holds(msg_queue', what) => Holds(msg_queue, what) \/ what \in new,
         Single(msg_queue, "PREPARED") /\ ("PREPARED" \in new => ~Holds(msg_queue, "PREPARED"))
           => Single(msg_queue', "PREPARED")
  PROVE  /\ QueueTypeOK' /\ Adds(new)
         /\ \A what : (Holds(msg_queue, what) => Holds(msg_queue', what)) => Keeps(what)
<1>1. QueueTypeOK'
  BY DEF QueueTypeOK
<1>2. \A l \in Loops : \A what : InHand(l, what)' <=> InHand(l, what)
  BY DEF InHand
<1>3. \A what : Pending(what) <=> Holds(msg_queue, what) \/ \E l \in Loops : InHand(l, what)
  BY DEF Pending, InHand
<1>4. \A what : Pending(what)' <=> Holds(msg_queue', what) \/ \E l \in Loops : InHand(l, what)'
  BY DEF Pending, InHand
<1>5. ASSUME OnePrepared, "PREPARED" \in new => ~Pending("PREPARED")
      PROVE  OnePrepared'
  BY <1>2, <1>3, <1>5 DEF OnePrepared
<1> QED
  BY <1>1, <1>2, <1>3, <1>4, <1>5 DEF Adds, Keeps

\* A message thread takes the next message.
LEMMA TakeStep ==
  ASSUME QueueTypeOK, PcTypeOK, NEW l \in Loops, LoopGet(l)
  PROVE  QueueTypeOK' /\ Adds({}) /\ \A what : Keeps(what)
<1>1. /\ pc[l] = "get" /\ GetReady(msg_queue)
      /\ msg_queue' = [msg_queue EXCEPT !.msgs = Tail(@)]
      /\ hand' = [hand EXCEPT ![l] = Head(msg_queue.msgs)]
      /\ pc' = [pc EXCEPT ![l] = "handle"]
  BY DEF LoopGet, Goto
<1>2. /\ msg_queue' \in Queue(Message) /\ Head(msg_queue.msgs) \in Message
      /\ \A what : Holds(msg_queue, what) <=>
                     Head(msg_queue.msgs).what = what \/ Holds(msg_queue', what)
      /\ \A what : Single(msg_queue, what) =>
           /\ Single(msg_queue', what)
           /\ Head(msg_queue.msgs).what = what => ~Holds(msg_queue', what)
  <2>1. msg_queue \in Queue(Message) /\ msg_queue.msgs # <<>>
    BY <1>1 DEF QueueTypeOK, GetReady
  <2> QED
    BY <1>1, <2>1, TakeFacts
<1>3. QueueTypeOK'
  BY <1>1, <1>2 DEF QueueTypeOK
<1>4. \A k \in Loops : /\ pc'[k] = IF k = l THEN "handle" ELSE pc[k]
                       /\ hand'[k] = IF k = l THEN Head(msg_queue.msgs) ELSE hand[k]
  BY <1>1 DEF PcTypeOK, QueueTypeOK, Threads
<1>5. ASSUME NEW what, NEW k \in Loops
      PROVE  /\ k = l => (InHand(k, what)' <=> Head(msg_queue.msgs).what = what)
             /\ k # l => (InHand(k, what)' <=> InHand(k, what))
             /\ ~InHand(l, what)
  BY <1>1, <1>4 DEF InHand
<1>6. \A what : Pending(what) <=> Holds(msg_queue, what) \/ \E k \in Loops : InHand(k, what)
  BY DEF Pending, InHand
<1>7. \A what : Pending(what)' <=> Holds(msg_queue', what) \/ \E k \in Loops : InHand(k, what)'
  BY DEF Pending, InHand
<1>8. \A what : Pending(what)' <=> Pending(what)
  BY <1>2, <1>5, <1>6, <1>7
<1>9. ASSUME OnePrepared PROVE OnePrepared'
  BY <1>2, <1>5, <1>9 DEF OnePrepared
<1> QED
  BY <1>3, <1>8, <1>9 DEF Adds, Keeps

\* It has handled its message, which may have put others in the queue.
LEMMA HandledStep ==
  ASSUME QueueTypeOK, PcTypeOK, NEW l \in Loops, NEW what, Handling(l, what),
         NEW x, Goto(l, x), x # "handle", UNCHANGED hand, NEW new,
         msg_queue' \in Queue(Message), "PREPARED" \notin new,
         \A k : Holds(msg_queue', k) => Holds(msg_queue, k) \/ k \in new,
         \A k : Holds(msg_queue, k) => Holds(msg_queue', k),
         Single(msg_queue, "PREPARED") => Single(msg_queue', "PREPARED")
  PROVE  /\ QueueTypeOK' /\ Adds(new)
         /\ \A k : k # what => Keeps(k)
         /\ OnePrepared /\ what = "PREPARED" => ~Pending("PREPARED")'
<1>1. QueueTypeOK'
  BY DEF QueueTypeOK
<1>2. \A k \in Loops : pc'[k] = IF k = l THEN x ELSE pc[k]
  BY DEF PcTypeOK, Goto, Threads
<1>3. ASSUME NEW k \in Loops, NEW y
      PROVE  /\ InHand(k, y)' <=> k # l /\ InHand(k, y)
             /\ InHand(l, y) <=> y = what
  BY <1>2 DEF InHand, Handling
<1>4. \A y : Pending(y) <=> Holds(msg_queue, y) \/ \E k \in Loops : InHand(k, y)
  BY DEF Pending, InHand
<1>5. \A y : Pending(y)' <=> Holds(msg_queue', y) \/ \E k \in Loops : InHand(k, y)'
  BY DEF Pending, InHand
<1>6. ASSUME OnePrepared PROVE OnePrepared'
  BY <1>3, <1>6 DEF OnePrepared
<1>7. ASSUME OnePrepared, what = "PREPARED" PROVE ~Pending("PREPARED")'
  <2>1. InHand(l, "PREPARED")
    BY <1>3, <1>7
  <2> QED
    BY <1>3, <1>5, <1>7, <2>1 DEF OnePrepared
<1> QED
  BY <1>1, <1>3, <1>4, <1>5, <1>6, <1>7 DEF Adds, Keeps

\* What each operation on the queue adds and loses.
LEMMA QueueOperations ==
  ASSUME QueueTypeOK, UNCHANGED hand,
         \A l \in Loops : pc'[l] = "handle" <=> pc[l] = "handle"
  PROVE  /\ msg_queue' = msg_queue => QueueTypeOK' /\ Adds({}) /\ \A what : Keeps(what)
         /\ \A k \in Kinds : msg_queue' = Put(msg_queue, Msg(k)) =>
              /\ QueueTypeOK' /\ Adds({k}) /\ \A what : Keeps(what)
              /\ ~msg_queue.abort_request => Pending(k)'
         /\ msg_queue' = Abort(msg_queue) => QueueTypeOK' /\ Adds({}) /\ \A what : Keeps(what)
<1>0. msg_queue \in Queue(Message)
  BY DEF QueueTypeOK
<1>1. ASSUME msg_queue' = msg_queue PROVE QueueTypeOK' /\ Adds({}) /\ \A what : Keeps(what)
  <2>1. /\ msg_queue' \in Queue(Message)
        /\ \A what : Holds(msg_queue', what) <=> Holds(msg_queue, what)
        /\ Single(msg_queue, "PREPARED") => Single(msg_queue', "PREPARED")
    BY <1>0, <1>1
  <2> QED
    BY <2>1, QueueStep
<1>2. ASSUME NEW k \in Kinds, msg_queue' = Put(msg_queue, Msg(k))
      PROVE  /\ QueueTypeOK' /\ Adds({k}) /\ \A what : Keeps(what)
             /\ ~msg_queue.abort_request => Pending(k)'
  <2>1. Msg(k) \in Message /\ Msg(k).what = k
    BY MessageTyping
  <2>2. /\ msg_queue' \in Queue(Message)
        /\ \A what : Holds(msg_queue', what) <=>
                       Holds(msg_queue, what) \/ (~msg_queue.abort_request /\ k = what)
        /\ \A what : Single(msg_queue, what) /\ (k # what \/ ~Holds(msg_queue, what))
                       => Single(msg_queue', what)
    BY <1>0, <1>2, <2>1, PutFacts
  <2>3. /\ \A what : Holds(msg_queue', what) => Holds(msg_queue, what) \/ what \in {k}
        /\ \A what : Holds(msg_queue, what) => Holds(msg_queue', what)
        /\ Single(msg_queue, "PREPARED") /\ ("PREPARED" \in {k} => ~Holds(msg_queue, "PREPARED"))
             => Single(msg_queue', "PREPARED")
    BY <2>2
  <2>4. QueueTypeOK' /\ Adds({k}) /\ \A what : Keeps(what)
    BY <2>2, <2>3, QueueStep
  <2>5. ~msg_queue.abort_request => Pending(k)'
    BY <2>2 DEF Pending
  <2> QED
    BY <2>4, <2>5
<1>3. ASSUME msg_queue' = Abort(msg_queue)
      PROVE  QueueTypeOK' /\ Adds({}) /\ \A what : Keeps(what)
  <2>1. /\ msg_queue' \in Queue(Message)
        /\ \A what : Holds(msg_queue', what) <=> Holds(msg_queue, what)
        /\ Single(msg_queue, "PREPARED") => Single(msg_queue', "PREPARED")
    BY <1>0, <1>3, AbortFacts
  <2> QED
    BY <2>1, QueueStep
<1> QED
  BY <1>1, <1>2, <1>3

\* What the queue's operations make of it is a queue of messages.
LEMMA QueueClosed ==
  ASSUME NEW q \in Queue(Message)
  PROVE  /\ \A m \in Message : /\ Put(q, m) \in Queue(Message)
                               /\ StartQueue(q, m) \in Queue(Message)
         /\ \A k : RemoveKind(q, k) \in Queue(Message)
         /\ Abort(q) \in Queue(Message)
  BY PutFacts, StartFacts, RemoveFacts, AbortFacts

LEMMA QueueTypes ==
  ASSUME IInv, QueueTypeOK, [Next]_vars PROVE QueueTypeOK'
<1>0. msg_queue \in Queue(Message) /\ hand \in [Loops -> Message] /\ PcTypeOK
  BY DEF QueueTypeOK, IInv, ControlTypeOK
<1>a. /\ \A k \in Kinds : Msg(k) \in Message
      /\ \A pos \in Positions : [what |-> "REQ_SEEK", arg1 |-> pos] \in Message
      /\ {"FLUSH", "ERROR", "PREPARED", "COMPLETED", "SEEK_COMPLETE", "REQ_START", "REQ_PAUSE"}
           \subseteq Kinds
  BY MessageTyping DEF Kinds
<1>b. UNCHANGED hand /\ msg_queue' \in Queue(Message) => QueueTypeOK'
  BY <1>0 DEF QueueTypeOK
<1>1. ASSUME NEW a \in Apps, NEW op, Enter(a, op) PROVE QueueTypeOK'
  BY <1>0, <1>1, <1>b DEF Enter
<1>2. ASSUME NEW a \in Apps, AppStep(a) PROVE QueueTypeOK'
  <2>1. CASE \E l \in Loops : PrepareAsync(a, l)
    <3>1. StartQueue(msg_queue, Msg("FLUSH")) \in Queue(Message)
      BY <1>0, <1>a, QueueClosed
    <3> QED
      BY <1>b, <2>1, <3>1 DEF PrepareAsync
  <2>2. CASE Start(a) \/ Pause(a)
    <3>1. PICK what \in {"REQ_START", "REQ_PAUSE"} : \E op : RequestPlay(a, op, what)
      BY <2>2 DEF Start, Pause
    <3>2. RemoveKind(RemoveKind(msg_queue, "REQ_START"), "REQ_PAUSE") \in Queue(Message)
      BY <1>0, QueueClosed
    <3> QED
      BY <1>a, <1>b, <3>1, <3>2, QueueClosed DEF RequestPlay
  <2>3. CASE Stop(a) \/ StopAbort(a)
    <3>1. RemoveKind(msg_queue, "REQ_START") \in Queue(Message)
      BY <1>0, QueueClosed
    <3>2. RemoveKind(RemoveKind(msg_queue, "REQ_START"), "REQ_PAUSE") \in Queue(Message)
      BY <3>1, QueueClosed
    <3>3. Abort(msg_queue) \in Queue(Message)
      BY <1>0, QueueClosed
    <3> QED
      BY <1>b, <2>3, <3>2, <3>3 DEF Stop, StopAbort
  <2>4. ASSUME NEW pos \in Positions, SeekTo(a, pos) PROVE QueueTypeOK'
    <3>1. RemoveKind(msg_queue, "REQ_SEEK") \in Queue(Message)
      BY <1>0, QueueClosed
    <3> QED
      BY <1>a, <1>b, <2>4, <3>1, QueueClosed DEF SeekTo
  <2>5. CASE UNCHANGED <<msg_queue, hand>>
    BY <1>0, <1>b, <2>5
  <2> QED
    BY <1>2, <2>1, <2>2, <2>3, <2>4, <2>5
       DEF AppStep, SetDataSource, Refuse, Reset, Unweak, Unpeer
<1>3. ASSUME NEW t \in Threads, ThreadStep(t) PROVE QueueTypeOK'
  <2>1. UNCHANGED hand /\ msg_queue' \in {msg_queue, Abort(msg_queue)}
    BY <1>3 DEF ThreadStep, DecRef, Shutdown, ShutdownAbort, ShutdownWait,
       ShutdownJoin, Destroy, Free
  <2> QED
    BY <1>0, <1>b, <2>1, QueueClosed
<1>4. ASSUME NEW l \in Loops, LoopStep(l) PROVE QueueTypeOK'
  <2>1. CASE LoopGet(l)
    BY <1>0, <2>1, TakeStep
  <2>2. CASE HandleSeek(l)
    <3>1. Put(msg_queue, Msg("COMPLETED")) \in Queue(Message)
      BY <1>0, <1>a, QueueClosed
    <3> QED
      BY <1>0, <1>b, <2>2, <3>1 DEF HandleSeek
  <2>3. CASE UNCHANGED <<msg_queue, hand>>
    BY <1>0, <1>b, <2>3
  <2> QED
    BY <1>4, <2>1, <2>2, <2>3 DEF LoopStep, LoopBegin, LoopAborted, LoopPost, LoopReturn,
       HandlePrepared, HandleCompleted, HandleSeekComplete, HandleOther, HandleStart,
       HandlePause
<1>5. ASSUME ReadStep \/ Drain \/ StepShown PROVE QueueTypeOK'
  <2>1. UNCHANGED hand
    BY <1>5 DEF ReadStep, Drain, StepShown, ReadFrame, ReadOpen, ReadPrepared, ReadWaitStart,
       ReadAutoResume, ReadResumed, ReadLoop, ReadSeek, ReadSeekDone, ReadSeekPlay,
       ReadSeekNotify, ReadPacket, ReadRewind, ReadIdle, ReadComplete, ReadCompletePause,
       ReadCompleteNotify, ReadFail
  <2>2. \/ UNCHANGED msg_queue
        \/ \E k \in Kinds : msg_queue' = Put(msg_queue, Msg(k))
    BY <1>5, <1>a DEF ReadStep, Drain, StepShown, ReadFrame, ReadOpen, ReadPrepared,
       ReadWaitStart, ReadAutoResume, ReadResumed, ReadLoop, ReadSeek, ReadSeekDone,
       ReadSeekPlay, ReadSeekNotify, ReadPacket, ReadRewind, ReadIdle, ReadComplete,
       ReadCompletePause, ReadCompleteNotify, ReadFail
  <2>3. \A k \in Kinds : Put(msg_queue, Msg(k)) \in Queue(Message)
    BY <1>0, <1>a, QueueClosed
  <2> QED
    BY <1>0, <1>b, <2>1, <2>2, <2>3
<1>6. CASE UNCHANGED vars
  BY <1>0, <1>6, <1>b DEF vars
<1> QED
  BY <1>1, <1>2, <1>3, <1>4, <1>5, <1>6 DEF Next, Step

LEMMA EmptyQueue ==
  Init => QueueTypeOK /\ Single(msg_queue, "PREPARED") /\ \A what : ~Pending(what)
<1> SUFFICES ASSUME Init
             PROVE  QueueTypeOK /\ Single(msg_queue, "PREPARED") /\ \A what : ~Pending(what)
  OBVIOUS
<1>1. /\ msg_queue = InitQueue
      /\ hand = [l \in Loops |-> Msg("FLUSH")]
      /\ pc = [t \in Threads |-> IF t \in Apps THEN "idle" ELSE "none"]
  BY DEF Init
<1>2. QueueTypeOK
  BY <1>1, MessageTyping DEF QueueTypeOK, Queue, InitQueue, Kinds
<1>3. DOMAIN msg_queue.msgs = {}
  BY <1>1 DEF InitQueue
<1>4. \A l \in Loops : pc[l] # "handle"
  BY <1>1 DEF Threads
<1> QED
  BY <1>2, <1>3, <1>4 DEF Single, Pending, Holds

\* Whatever the application's threads do, every field keeps its type and the queue
\* only ever holds messages of the kinds ijkmp_get_msg knows.
THEOREM Typing == Spec => []TypeOK
<1>1. Init => IInv /\ QueueTypeOK
  BY InitIInv, EmptyQueue
<1>2. IInv /\ QueueTypeOK /\ [Next]_vars => IInv' /\ QueueTypeOK'
  BY NextIInv, QueueTypes
<1>3. IInv /\ QueueTypeOK => TypeOK
  BY DEF TypeOK, IInv
<1> QED
  BY <1>1, <1>2, <1>3, PTL DEF Spec
--------------------------------------------------------------------------------
(* Stopping and preparing again: when PreparedWithoutStream and                *)
(* StoppedUntilPrepared hold.                                                  *)

\* Only ijkmp_prepare_async_l opens a stream, and it leaves these states for good.
Fresh == mp_state \in {"IDLE", "INITIALIZED"} => ~is.open

\* The queue is started again by ijkmp_prepare_async_l only.
StoppedQueue == mp_state = "STOPPED" => msg_queue.abort_request

\* A message that moves the player whatever its state is waits for mp->mutex.
MovingInHand == \E l \in Loops : InHand(l, "PREPARED") \/ InHand(l, "COMPLETED")

\* Who may change the state, the stream's being open and the queue's being aborted.
LEMMA WhoMoves ==
  ASSUME IInv, QueueTypeOK, [Next]_vars,
         \A a \in Apps, l \in Loops : ~PrepareAsync(a, l)
  PROVE  /\ is'.open => is.open
         /\ life' = "aborted" => life = "aborted"
         /\ mp_state' \in {"IDLE", "INITIALIZED"} => mp_state \in {"IDLE", "INITIALIZED"}
         /\ msg_queue.abort_request => msg_queue'.abort_request
         /\ mp_state' = "STOPPED" /\ mp_state # "STOPPED" => msg_queue'.abort_request
         /\ mp_state = "STOPPED" => mp_state' = "STOPPED" \/ MovingInHand
<1>0. is \in StreamFields /\ msg_queue \in Queue(Message)
  BY DEF IInv, ControlTypeOK, QueueTypeOK
<1>a. /\ \A m : Put(msg_queue, m).abort_request = msg_queue.abort_request
      /\ \A k : RemoveKind(msg_queue, k).abort_request = msg_queue.abort_request
      /\ Abort(msg_queue).abort_request
  BY <1>0 DEF Put, RemoveKind, Abort, Queue
<1>b. \A k, j, m : /\ msg_queue.abort_request => RemoveKind(msg_queue, k) = msg_queue
                   /\ msg_queue.abort_request => Put(msg_queue, m) = msg_queue
  BY DEF RemoveKind, Put
<1>c. /\ StopStream => is'.open = is.open
      /\ \A on \in BOOLEAN : TogglePause(on) => is'.open = is.open
      /\ StreamSeek => is'.open = is.open
  BY <1>0, PiecesOpen
<1>1. ASSUME NEW a \in Apps, NEW op, Enter(a, op)
      PROVE  UNCHANGED <<mp_state, is, life, msg_queue>>
  BY <1>1 DEF Enter
<1>2. ASSUME NEW a \in Apps, AppStep(a)
      PROVE  /\ is'.open = is.open /\ life' = life
             /\ msg_queue.abort_request => msg_queue'.abort_request
             /\ mp_state' \in {"IDLE", "INITIALIZED"} => mp_state \in {"IDLE", "INITIALIZED"}
             /\ mp_state' = "STOPPED" /\ mp_state # "STOPPED" => msg_queue'.abort_request
             /\ mp_state = "STOPPED" => mp_state' = "STOPPED"
  <2>1. CASE SetDataSource(a) \/ Reset(a) \/ Unweak(a) \/ Unpeer(a)
    BY <2>1 DEF SetDataSource, Reset, Unweak, Unpeer
  <2>2. CASE Start(a) \/ Pause(a)
    BY <1>b, <2>2 DEF Start, Pause, RequestPlay
  <2>3. CASE Stop(a)
    BY <1>b, <1>c, <2>3 DEF Stop
  <2>4. CASE StopAbort(a)
    BY <1>a, <2>4 DEF StopAbort
  <2>5. CASE \E pos \in Positions : SeekTo(a, pos)
    BY <1>b, <2>5 DEF SeekTo
  <2>6. ASSUME NEW op, NEW s, Refuse(a, op, s)
        PROVE  UNCHANGED <<mp_state, is, life, msg_queue>>
    BY <2>6 DEF Refuse
  <2> QED
    BY <1>2, <2>1, <2>2, <2>3, <2>4, <2>5, <2>6 DEF AppStep
<1>3. ASSUME NEW t \in Threads, ThreadStep(t)
      PROVE  /\ is'.open => is.open
             /\ life' = "aborted" => life = "aborted"
             /\ mp_state' = mp_state
             /\ msg_queue.abort_request => msg_queue'.abort_request
  <2>1. CASE DecRef(t) \/ Destroy(t) \/ Shutdown(t) \/ ShutdownAbort(t)
    BY <1>a, <1>c, <2>1 DEF DecRef, Destroy, Free, Shutdown, ShutdownAbort
  <2>2. CASE ShutdownWait(t)
    BY <1>a, <1>c, <2>2 DEF ShutdownWait
  <2>3. CASE ShutdownJoin(t)
    BY <2>3 DEF ShutdownJoin, NoStream
  <2> QED
    BY <1>3, <2>1, <2>2, <2>3 DEF ThreadStep
<1>4. ASSUME NEW l \in Loops, LoopStep(l)
      PROVE  /\ is'.open = is.open /\ life' = life
             /\ msg_queue.abort_request => msg_queue'.abort_request
             /\ mp_state' \in {"IDLE", "INITIALIZED"} => mp_state \in {"IDLE", "INITIALIZED"}
             /\ mp_state' = "STOPPED" => mp_state = "STOPPED"
             /\ mp_state = "STOPPED" => mp_state' = "STOPPED" \/ MovingInHand
  <2>1. CASE LoopBegin(l) \/ LoopGet(l) \/ LoopAborted(l) \/ LoopPost(l) \/ LoopReturn(l)
    BY <2>1 DEF LoopBegin, LoopGet, GetReady, LoopAborted, LoopPost, LoopReturn
  <2>2. CASE HandlePrepared(l) \/ HandleCompleted(l)
    BY <2>2 DEF HandlePrepared, HandleCompleted, Handling, MovingInHand, InHand
  <2>3. CASE HandleSeekComplete(l) \/ HandleOther(l)
    BY <2>3 DEF HandleSeekComplete, HandleOther
  <2>4. CASE HandleStart(l)
    BY <1>c, <2>4 DEF HandleStart, Controllable
  <2>5. CASE HandlePause(l)
    BY <1>c, <2>5 DEF HandlePause, Controllable
  <2>6. CASE HandleSeek(l)
    BY <1>a, <1>c, <2>6 DEF HandleSeek
  <2> QED
    BY <1>4, <2>1, <2>2, <2>3, <2>4, <2>5, <2>6 DEF LoopStep
<1>5. ASSUME ReadStep \/ Drain \/ StepShown
      PROVE  /\ is'.open = is.open
             /\ UNCHANGED <<mp_state, life>>
             /\ msg_queue.abort_request => msg_queue'.abort_request
  <2>1. UNCHANGED <<mp_state, life>>
    BY <1>5 DEF ReadStep, Drain, StepShown, ReadFrame, ReadOpen, ReadPrepared, ReadWaitStart,
       ReadAutoResume, ReadResumed, ReadLoop, ReadSeek, ReadSeekDone, ReadSeekPlay,
       ReadSeekNotify, ReadPacket, ReadRewind, ReadIdle, ReadComplete, ReadCompletePause,
       ReadCompleteNotify, ReadFail
  <2>2. msg_queue' = msg_queue \/ \E m : msg_queue' = Put(msg_queue, m)
    BY <1>5 DEF ReadStep, Drain, StepShown, ReadOpen, ReadPrepared, ReadWaitStart,
       ReadAutoResume, ReadResumed, ReadLoop, ReadSeek, ReadSeekDone, ReadSeekPlay,
       ReadSeekNotify, ReadPacket, ReadRewind, ReadIdle, ReadComplete, ReadCompletePause,
       ReadCompleteNotify, ReadFail
  <2>3. is'.open = is.open
    <3>1. CASE ReadOpen \/ ReadRewind \/ ReadCompletePause
      BY <1>c, <3>1 DEF ReadOpen, ReadRewind, ReadCompletePause
    <3>2. CASE ReadSeek \/ ReadSeekDone \/ ReadSeekPlay \/ Drain \/ StepShown
      BY <1>0, <3>2 DEF ReadSeek, ReadSeekDone, ReadSeekPlay, Drain, StepShown, StreamFields
    <3> QED
      BY <1>5, <3>1, <3>2 DEF ReadStep, ReadPrepared, ReadWaitStart, ReadAutoResume,
         ReadResumed, ReadLoop, ReadSeekNotify, ReadPacket, ReadIdle, ReadComplete,
         ReadCompleteNotify, ReadFail
  <2> QED
    BY <1>a, <2>1, <2>2, <2>3
<1>6. CASE UNCHANGED vars
  BY <1>6 DEF vars
<1> QED
  BY <1>1, <1>2, <1>3, <1>4, <1>5, <1>6 DEF Next, Step
\* What a prepare does, and that it is of a player that is new or stopped.
LEMMA PrepareMoves ==
  ASSUME PcTypeOK, NEW a \in Apps, NEW l \in Loops, PrepareAsync(a, l)
  PROVE  /\ mp_state \in {"INITIALIZED", "STOPPED"}
         /\ mp_state' \in {"ASYNC_PREPARING", "ERROR"}
         /\ life' = "aborted" => life = "aborted" \/ (is.open /\ mp_state' = "ASYNC_PREPARING")
         /\ UNCHANGED hand /\ \A k \in Loops : pc'[k] = "handle" => pc[k] = "handle"
<1>1. \A k \in Loops : pc'[k] = IF k = l THEN "begin" ELSE pc[k]
  BY PlayerAssumption DEF PrepareAsync, PlayerAssumption, PcTypeOK, Threads
<1>2. \A k \in Loops : pc'[k] = "handle" => pc[k] = "handle"
  BY <1>1
<1>3. /\ mp_state \in {"INITIALIZED", "STOPPED"} /\ UNCHANGED hand
      /\ mp_state' \in {"ASYNC_PREPARING", "ERROR"}
      /\ (is.open /\ mp_state' = "ASYNC_PREPARING") \/ life' = life
  BY DEF PrepareAsync
<1> QED
  BY <1>2, <1>3

LEMMA FreshKept ==
  ASSUME IInv, QueueTypeOK, Fresh, StoppedQueue, [Next]_vars
  PROVE  Fresh' /\ StoppedQueue'
<1>1. ASSUME NEW a \in Apps, NEW l \in Loops, PrepareAsync(a, l) PROVE Fresh' /\ StoppedQueue'
  BY <1>1, PrepareMoves DEF IInv, ControlTypeOK, Fresh, StoppedQueue
<1>2. CASE \A a \in Apps, l \in Loops : ~PrepareAsync(a, l)
  BY <1>2, WhoMoves DEF Fresh, StoppedQueue
<1> QED
  BY <1>1, <1>2

\* A player not yet prepared has no stream, and a stopped one an aborted queue (Fresh,
\* StoppedQueue).
THEOREM FreshAndStopped == Spec => [](IInv /\ QueueTypeOK /\ Fresh /\ StoppedQueue)
<1>1. Init => IInv /\ QueueTypeOK /\ Fresh /\ StoppedQueue
  <2>1. Init => is = NoStream /\ mp_state = "IDLE"
    BY DEF Init
  <2>2. ~NoStream.open
    BY DEF NoStream
  <2>3. Init => Fresh /\ StoppedQueue
    BY <2>1, <2>2 DEF Fresh, StoppedQueue
  <2> QED
    BY <2>3, InitIInv, EmptyQueue
<1>2. IInv /\ QueueTypeOK /\ Fresh /\ StoppedQueue /\ [Next]_vars
        => IInv' /\ QueueTypeOK' /\ Fresh' /\ StoppedQueue'
  BY NextIInv, QueueTypes, FreshKept
<1> QED
  BY <1>1, <1>2, PTL DEF Spec

\* The assertion assert(!ffp->is) of ffp_prepare_async_l (ff_ffplay.c:4326) fails for
\* one reason only: ijkmp_stop keeps the stream, and the stopped player is prepared
\* again.  No race of calls on a player that was never stopped reaches it.
AssertAfterStop == [][life' = "aborted" => life = "aborted" \/ mp_state = "STOPPED"]_vars

\* Whatever the number of threads and calls: a race of prepares alone does not abort
\* (AssertAfterStop).
THEOREM OnlyStoppedAsserts == Spec => AssertAfterStop
<1>1. ASSUME IInv, QueueTypeOK, Fresh, [Next]_vars
      PROVE  life' = "aborted" => life = "aborted" \/ mp_state = "STOPPED"
  <2>1. ASSUME NEW a \in Apps, NEW l \in Loops, PrepareAsync(a, l), life' = "aborted"
        PROVE  life = "aborted" \/ mp_state = "STOPPED"
    BY <1>1, <2>1, PrepareMoves DEF IInv, ControlTypeOK, Fresh
  <2> QED
    BY <1>1, <2>1, WhoMoves
<1> QED
  BY <1>1, FreshAndStopped, PTL DEF Spec, AssertAfterStop

\* The application makes a new player rather than prepare a stopped one.
NeverPreparedAgain == [][mp_state = "STOPPED" => mp_state' # "ASYNC_PREPARING"]_vars

\* Such an application never runs into the assertion, whatever its threads race for.
THEOREM PreparedOnceIsSafe == Spec /\ NeverPreparedAgain => []PreparedWithoutStream
<1>1. Init => PreparedWithoutStream
  BY DEF Init, PreparedWithoutStream
<1>2. ASSUME IInv, QueueTypeOK, Fresh, PreparedWithoutStream, [Next]_vars,
             [mp_state = "STOPPED" => mp_state' # "ASYNC_PREPARING"]_vars
      PROVE  PreparedWithoutStream'
  <2>1. ASSUME NEW a \in Apps, NEW l \in Loops, PrepareAsync(a, l) PROVE life' # "aborted"
    <3> SUFFICES ASSUME life' = "aborted" PROVE FALSE
      OBVIOUS
    <3>1. is.open /\ mp_state = "STOPPED" /\ mp_state' = "ASYNC_PREPARING"
      BY <1>2, <2>1, PrepareMoves DEF IInv, ControlTypeOK, Fresh, PreparedWithoutStream
    <3> QED
      BY <1>2, <3>1 DEF vars
  <2>2. CASE \A a \in Apps, l \in Loops : ~PrepareAsync(a, l)
    BY <1>2, <2>2, WhoMoves DEF PreparedWithoutStream
  <2> QED
    BY <2>1, <2>2 DEF PreparedWithoutStream
<1> QED
  BY <1>1, <1>2, FreshAndStopped, PTL DEF Spec, NeverPreparedAgain

\* msg_queue_abort in ijkmp_stop keeps every message thread from another message: what
\* a stopped player still handles, and what may move it (ijkmp_get_msg, 716 and 722),
\* is a message taken off the queue before the stop.
StoppedTakesNothing ==
  [][mp_state = "STOPPED" =>
       /\ \A l \in Loops : pc'[l] = "handle" => pc[l] = "handle" /\ hand'[l] = hand[l]
       /\ mp_state' \notin {"STOPPED", "ASYNC_PREPARING", "ERROR"} => MovingInHand]_vars

LEMMA NothingTaken ==
  ASSUME IInv, QueueTypeOK, msg_queue.abort_request, [Next]_vars, NEW l \in Loops,
         pc'[l] = "handle"
  PROVE  pc[l] = "handle" /\ hand'[l] = hand[l]
<1>0. pc \in [Threads -> AppPcs \cup LoopPcs] /\ l \in Threads /\ l \notin Apps
  BY PlayerAssumption DEF IInv, ControlTypeOK, PcTypeOK, PlayerAssumption, Threads
<1>1. ASSUME NEW a \in Apps, NEW op, Enter(a, op) PROVE UNCHANGED hand /\ pc'[l] = pc[l]
  BY <1>0, <1>1 DEF Enter, Goto
<1>2. ASSUME NEW a \in Apps, AppStep(a)
      PROVE  UNCHANGED hand /\ (pc'[l] = "handle" => pc[l] = "handle")
  <2>1. ASSUME NEW k \in Loops, PrepareAsync(a, k)
        PROVE  UNCHANGED hand /\ (pc'[l] = "handle" => pc[l] = "handle")
    BY <2>1, PrepareMoves DEF IInv, ControlTypeOK
  <2>2. ASSUME NEW x, Goto(a, x) PROVE pc'[l] = pc[l]
    BY <1>0, <2>2 DEF Goto
  <2>3. CASE SetDataSource(a) \/ Reset(a) \/ Unweak(a) \/ Unpeer(a) \/ Stop(a) \/ StopAbort(a)
    BY <2>2, <2>3 DEF SetDataSource, Stop, StopAbort, Reset, Unweak, Unpeer
  <2>4. CASE Start(a) \/ Pause(a) \/ \E pos \in Positions : SeekTo(a, pos)
    <3>1. Goto(a, "dec") /\ UNCHANGED hand
      BY <2>4, Zenon DEF Start, Pause, RequestPlay, SeekTo
    <3> QED
      BY <2>2, <3>1
  <2>5. ASSUME NEW op, NEW s, Refuse(a, op, s) PROVE UNCHANGED hand /\ pc'[l] = pc[l]
    BY <2>2, <2>5 DEF Refuse
  <2> QED
    BY <1>2, <2>1, <2>3, <2>4, <2>5 DEF AppStep
<1>3. ASSUME NEW t \in Threads, ThreadStep(t)
      PROVE  UNCHANGED hand /\ (pc'[l] = "handle" => pc[l] = "handle")
  <2>1. ASSUME NEW x, x # "handle", Goto(t, x) PROVE pc'[l] = "handle" => pc[l] = "handle"
    BY <1>0, <2>1 DEF Goto
  <2>2. AfterDec(t) # "handle" /\ AfterShutdown # "handle"
    BY DEF AfterDec, AfterShutdown
  <2> QED
    BY <1>3, <2>1, <2>2 DEF ThreadStep, DecRef, Shutdown, ShutdownAbort, ShutdownWait,
       ShutdownJoin, Destroy, Free
<1>4. ASSUME NEW k \in Loops, LoopStep(k)
      PROVE  UNCHANGED hand /\ (pc'[l] = "handle" => pc[l] = "handle")
  <2>1. ~LoopGet(k)
    BY DEF LoopGet, GetReady
  <2>2. ASSUME NEW x, x # "handle", Goto(k, x) PROVE pc'[l] = "handle" => pc[l] = "handle"
    BY <1>0, <2>2 DEF Goto
  <2> QED
    BY <1>4, <2>1, <2>2 DEF LoopStep, LoopBegin, LoopAborted, LoopPost, LoopReturn, HandlePrepared,
       HandleCompleted, HandleSeekComplete, HandleOther, HandleStart, HandlePause, HandleSeek
<1>5. ASSUME ReadStep \/ Drain \/ StepShown PROVE UNCHANGED <<hand, pc>>
  BY <1>5 DEF ReadStep, Drain, StepShown, ReadFrame, ReadOpen, ReadPrepared, ReadWaitStart,
     ReadAutoResume, ReadResumed, ReadLoop, ReadSeek, ReadSeekDone, ReadSeekPlay,
     ReadSeekNotify, ReadPacket, ReadRewind, ReadIdle, ReadComplete, ReadCompletePause,
     ReadCompleteNotify, ReadFail
<1>6. CASE UNCHANGED vars
  BY <1>6 DEF vars
<1> QED
  BY <1>1, <1>2, <1>3, <1>4, <1>5, <1>6 DEF Next, Step

LEMMA StoppedStep ==
  ASSUME IInv, QueueTypeOK, StoppedQueue, [Next]_vars, mp_state = "STOPPED"
  PROVE  /\ \A l \in Loops : pc'[l] = "handle" => pc[l] = "handle" /\ hand'[l] = hand[l]
         /\ mp_state' \notin {"STOPPED", "ASYNC_PREPARING", "ERROR"} => MovingInHand
<1>1. \A l \in Loops : pc'[l] = "handle" => pc[l] = "handle" /\ hand'[l] = hand[l]
  BY NothingTaken DEF StoppedQueue
<1>2. mp_state' \notin {"STOPPED", "ASYNC_PREPARING", "ERROR"} => MovingInHand
  BY WhoMoves, PrepareMoves DEF IInv, ControlTypeOK
<1> QED
  BY <1>1, <1>2

\* After ijkmp_stop no message is taken off the queue, and PREPARED or COMPLETED in hand
\* is all that may move the player (StoppedTakesNothing).
THEOREM StopEndsMessages == Spec => StoppedTakesNothing
<1>1. IInv /\ QueueTypeOK /\ StoppedQueue /\ [Next]_vars
        => [mp_state = "STOPPED" =>
              /\ \A l \in Loops : pc'[l] = "handle" => pc[l] = "handle" /\ hand'[l] = hand[l]
              /\ mp_state' \notin {"STOPPED", "ASYNC_PREPARING", "ERROR"} => MovingInHand]_vars
  BY StoppedStep
<1> QED
  BY <1>1, FreshAndStopped, PTL DEF Spec, StoppedTakesNothing

\* No message thread waits for mp->mutex with such a message when ijkmp_stop is done.
StopsEmptyHanded == [][mp_state # "STOPPED" /\ mp_state' = "STOPPED" => ~MovingInHand']_vars

\* Then the stopped player stays stopped until it is prepared again, as ijkplayer.h says:
\* the message in hand is the one way out of MP_STATE_STOPPED the header does not have.
THEOREM StopHolds == Spec /\ StopsEmptyHanded => StoppedUntilPrepared
<1> DEFINE Empty == mp_state = "STOPPED" => ~MovingInHand
<1>1. Init => Empty
  BY DEF Init
<1>2. ASSUME IInv, QueueTypeOK, StoppedQueue, Empty, [Next]_vars,
             [mp_state # "STOPPED" /\ mp_state' = "STOPPED" => ~MovingInHand']_vars
      PROVE  /\ Empty'
             /\ [mp_state = "STOPPED" =>
                   mp_state' \in {"STOPPED", "ASYNC_PREPARING", "ERROR"}]_vars
  <2>1. CASE UNCHANGED vars
    BY <1>2, <2>1 DEF vars, MovingInHand, InHand
  <2>2. CASE mp_state = "STOPPED"
    <3>1. ~MovingInHand /\ ~MovingInHand'
      BY <1>2, <2>2, StoppedStep DEF MovingInHand, InHand
    <3> QED
      BY <1>2, <2>2, <3>1, StoppedStep
  <2>3. CASE mp_state # "STOPPED" /\ ~UNCHANGED vars
    BY <1>2, <2>3
  <2> QED
    BY <2>1, <2>2, <2>3
<1> HIDE DEF Empty
<1> QED
  BY <1>1, <1>2, FreshAndStopped, PTL DEF Spec, StopsEmptyHanded, StoppedUntilPrepared

--------------------------------------------------------------------------------
(* Waiting for the other threads in ijkmp_destroy and in stream_close.          *)

Started == \A l \in mp.msg_thread : pc[l] # "none"

LEMMA StartedKept == ASSUME IInv, Started, [Next]_vars PROVE Started'
<1>0. /\ pc \in [Threads -> AppPcs \cup LoopPcs] /\ Apps \cap Loops = {}
      /\ mp \in MpFields /\ mp.msg_thread \subseteq Loops
  BY PlayerAssumption DEF IInv, ControlTypeOK, PcTypeOK, PlayerAssumption, MpFields
<1>a. ASSUME NEW t \in Threads, NEW x, x # "none", Goto(t, x), mp'.msg_thread = mp.msg_thread
      PROVE  Started'
  BY <1>0, <1>a DEF Started, Goto, Threads
<1>1. ASSUME NEW a \in Apps, NEW op \in JniOps \cup {"shutdown", "reset"}, Enter(a, op)
      PROVE  Started'
  <2>1. op # "none" /\ a \in Threads
    BY DEF JniOps, Threads
  <2> QED
    BY <1>1, <1>a, <2>1 DEF Enter
<1>2. ASSUME NEW a \in Apps, AppStep(a) PROVE Started'
  <2>0. a \in Threads
    BY DEF Threads
  <2>1. ASSUME NEW l \in Loops, PrepareAsync(a, l) PROVE Started'
    <3>1. mp'.msg_thread = {l} /\ pc'[l] = "begin"
      BY <1>0, <2>1 DEF PrepareAsync, MpFields, Threads
    <3> QED
      BY <3>1 DEF Started
  <2>2. ASSUME NEW pos \in Positions, SeekTo(a, pos) PROVE Started'
    <3>1. mp'.msg_thread = mp.msg_thread
      BY <1>0, <2>2 DEF SeekTo, MpFields
    <3> QED
      BY <1>a, <2>0, <2>2, <3>1 DEF SeekTo
  <2> QED
    BY <1>2, <1>a, <2>0, <2>1, <2>2 DEF AppStep, SetDataSource, Start, Pause, RequestPlay,
       Stop, StopAbort, Refuse, Reset, Unweak, Unpeer
<1>3. ASSUME NEW t \in Threads, ThreadStep(t) PROVE Started'
  <2>1. AfterDec(t) # "none" /\ AfterShutdown # "none"
    BY DEF AfterDec, AfterShutdown
  <2> QED
    BY <1>3, <1>a, <2>1 DEF ThreadStep, DecRef, Shutdown, ShutdownAbort, ShutdownWait,
       ShutdownJoin, Destroy, Free
<1>4. ASSUME NEW l \in Loops, LoopStep(l) PROVE Started'
  <2>0. l \in Threads
    BY DEF Threads
  <2>1. mp'.msg_thread = mp.msg_thread
    BY <1>0, <1>4 DEF LoopStep, LoopBegin, LoopGet, LoopAborted, LoopPost,
       LoopReturn, HandlePrepared, HandleCompleted, HandleSeekComplete, HandleOther,
       HandleStart, HandlePause, HandleSeek, MpFields
  <2> QED
    BY <1>4, <1>a, <2>0, <2>1 DEF LoopStep, LoopBegin, LoopGet, LoopAborted, LoopPost, LoopReturn,
       HandlePrepared, HandleCompleted, HandleSeekComplete, HandleOther, HandleStart,
       HandlePause, HandleSeek
<1>5. ASSUME ReadStep \/ Drain \/ StepShown PROVE UNCHANGED <<mp, pc>>
  BY <1>5 DEF ReadStep, Drain, StepShown, ReadFrame, ReadOpen, ReadPrepared, ReadWaitStart,
     ReadAutoResume, ReadResumed, ReadLoop, ReadSeek, ReadSeekDone, ReadSeekPlay,
     ReadSeekNotify, ReadPacket, ReadRewind, ReadIdle, ReadComplete, ReadCompletePause,
     ReadCompleteNotify, ReadFail
<1>6. CASE UNCHANGED vars
  BY <1>6 DEF vars, Started
<1> QED
  BY <1>1, <1>2, <1>3, <1>4, <1>5, <1>6 DEF Next, Step, Started

\* The thread that frees the player is not held up: every message thread has dropped
\* its reference, so that the one SDL_WaitThread in ijkmp_destroy waits for, unless it
\* is the waiting thread itself, has at most its return left, which waits for nothing.
\* The player has not been freed before.
DestroyWaitsForReturn ==
  \A t \in Threads : pc[t] = "destroy" =>
    /\ \A l \in mp.msg_thread : l = t \/ pc[l] \in {"return", "exited"}
    /\ \A l \in Loops : l = t \/ pc[l] \in {"none", "return", "exited"}
    /\ life # "freed"

\* Only the free leaves a message thread at "return_freed".
FreesFirst == \A l \in Loops : pc[l] = "return_freed" => life = "freed"

LEMMA FreesFirstKept == ASSUME IInv, FreesFirst, [Next]_vars PROVE FreesFirst'
<1>0. /\ pc \in [Threads -> AppPcs \cup LoopPcs] /\ Loops \subseteq Threads
      /\ Apps \cap Loops = {} /\ Apps \subseteq Threads
  BY PlayerAssumption DEF IInv, ControlTypeOK, PcTypeOK, PlayerAssumption, Threads
<1>a. ASSUME NEW t \in Threads, NEW x, x # "return_freed", Goto(t, x),
             life = "freed" => life' = "freed"
      PROVE  FreesFirst'
  BY <1>0, <1>a DEF FreesFirst, Goto
<1>1. ASSUME NEW a \in Apps, NEW op \in JniOps \cup {"shutdown", "reset"}, Enter(a, op)
      PROVE  FreesFirst'
  <2>1. op # "return_freed"
    BY DEF JniOps
  <2> QED
    BY <1>0, <1>1, <1>a, <2>1 DEF Enter
<1>2. ASSUME NEW a \in Apps, AppStep(a) PROVE FreesFirst'
  <2>1. ASSUME NEW l \in Loops, PrepareAsync(a, l) PROVE FreesFirst'
    <3>1. pc' = [pc EXCEPT ![a] = "dec", ![l] = "begin"] /\ pc[a] = "prepare_async"
      BY <2>1 DEF PrepareAsync
    <3>2. life # "freed"
      <4>1. Holding(a)
        BY <3>1, <1>0, NoneAtZero DEF Holding, OutsidePcs, ShutdownPcs
      <4> QED
        BY <1>0, <4>1, NoneAtZero DEF IInv, ReaperAlone, Holders
    <3> QED
      BY <1>0, <3>1, <3>2 DEF FreesFirst
  <2> QED
    BY <1>0, <1>2, <1>a, <2>1 DEF AppStep, SetDataSource, SeekTo, Start, Pause, RequestPlay,
       Stop, StopAbort, Refuse, Reset, Unweak, Unpeer
<1>3. ASSUME NEW t \in Threads, ThreadStep(t) PROVE FreesFirst'
  <2>1. AfterDec(t) # "return_freed" /\ AfterShutdown # "return_freed"
    BY DEF AfterDec, AfterShutdown
  <2>2. CASE Destroy(t)
    BY <2>2 DEF Destroy, Free, FreesFirst
  <2> QED
    BY <1>3, <1>a, <2>1, <2>2 DEF ThreadStep, DecRef, Shutdown, ShutdownAbort, ShutdownWait,
       ShutdownJoin
<1>4. ASSUME NEW l \in Loops, LoopStep(l) PROVE FreesFirst'
  BY <1>0, <1>4, <1>a DEF LoopStep, LoopBegin, LoopGet, LoopAborted, LoopPost, LoopReturn,
     HandlePrepared, HandleCompleted, HandleSeekComplete, HandleOther, HandleStart,
     HandlePause, HandleSeek
<1>5. ASSUME ReadStep \/ Drain \/ StepShown PROVE UNCHANGED <<life, pc>>
  BY <1>5 DEF ReadStep, Drain, StepShown, ReadFrame, ReadOpen, ReadPrepared, ReadWaitStart,
     ReadAutoResume, ReadResumed, ReadLoop, ReadSeek, ReadSeekDone, ReadSeekPlay,
     ReadSeekNotify, ReadPacket, ReadRewind, ReadIdle, ReadComplete, ReadCompletePause,
     ReadCompleteNotify, ReadFail
<1>6. CASE UNCHANGED vars
  BY <1>6 DEF vars, FreesFirst
<1> QED
  BY <1>1, <1>2, <1>3, <1>4, <1>5, <1>6 DEF Next, Step, FreesFirst

\* ijkmp_dec_ref's last caller comes through ijkmp_destroy, whichever thread that is and
\* however many loops there were (DestroyWaitsForReturn).
THEOREM DestroyGoesThrough == Spec => []DestroyWaitsForReturn
<1>1. Init => IInv /\ Started /\ FreesFirst
  <2>1. Init => mp.msg_thread = {} /\ \A l \in Loops : pc[l] # "return_freed"
    BY DEF Init, Threads
  <2> QED
    BY <2>1, InitIInv DEF Started, FreesFirst
<1>2. IInv /\ Started /\ FreesFirst /\ [Next]_vars => IInv' /\ Started' /\ FreesFirst'
  BY NextIInv, StartedKept, FreesFirstKept
<1>3. ASSUME IInv, Started, FreesFirst PROVE DestroyWaitsForReturn
  <2> SUFFICES ASSUME NEW t \in Threads, pc[t] = "destroy"
               PROVE  /\ \A l \in mp.msg_thread : l = t \/ pc[l] \in {"return", "exited"}
                      /\ \A l \in Loops : l = t \/ pc[l] \in {"none", "return", "exited"}
                      /\ life # "freed"
    BY DEF DestroyWaitsForReturn
  <2>1. Reaping(t) /\ ref_count = 0 /\ life # "freed"
    BY <1>3 DEF IInv, ReaperAlone, Reaping
  <2>2. ASSUME NEW l \in Loops, l # t PROVE pc[l] \in {"none", "return", "exited"}
    <3>1. ~Holding(l) /\ l \in Threads
      BY <1>3, <2>1, NoneAtZero DEF IInv, Holders, Threads
    <3>2. ~Reaping(l)
      BY <1>3, <2>1, <2>2, <3>1 DEF IInv, ReaperAlone
    <3>3. pc[l] # "idle" /\ pc[l] # "return_freed"
      BY <1>3, <2>1 DEF IInv, ControlTypeOK, PcTypeOK, LoopPcs, ShutdownPcs, FreesFirst
    <3> QED
      BY <2>1, <3>1, <3>2, <3>3 DEF Holding, OutsidePcs, Reaping
  <2>3. mp.msg_thread \subseteq Loops
    BY <1>3 DEF IInv, ControlTypeOK, MpFields
  <2> QED
    BY <1>3, <2>1, <2>2, <2>3 DEF Started
<1> QED
  BY <1>1, <1>2, <1>3, PTL DEF Spec

--------------------------------------------------------------------------------
(* The write of thread->retval, when it cannot come too late.                   *)

\* The application does not prepare a player again that it has stopped.
PreparesOnce == mp_state = "STOPPED" => mp_state' \notin {"ASYNC_PREPARING", "ERROR"}

\* The last reference is an application thread's.
AppFrees == \A l \in Loops : pc[l] # "destroy"

\* There is one message thread at most, the one ijkmp_destroy joins.
OneLoop ==
  /\ mp_state \in {"IDLE", "INITIALIZED"} => \A l \in Loops : pc[l] = "none"
  /\ \A l \in Loops : pc[l] # "none" => l \in mp.msg_thread
  /\ \A l \in Loops : pc[l] # "return_freed"

LEMMA OneLoopKept ==
  ASSUME IInv, OneLoop, AppFrees, [PreparesOnce]_vars, [Next]_vars
  PROVE  OneLoop'
<1>0. /\ pc \in [Threads -> AppPcs \cup LoopPcs] /\ Loops \subseteq Threads
      /\ Apps \cap Loops = {} /\ Apps \subseteq Threads /\ mp \in MpFields
  BY PlayerAssumption DEF IInv, ControlTypeOK, PcTypeOK, PlayerAssumption, Threads
\* An application thread's step, then a message thread's.
<1>a. ASSUME NEW a \in Apps, NEW x, Goto(a, x), mp'.msg_thread = mp.msg_thread,
             mp_state' \in {"IDLE", "INITIALIZED"} => mp_state \in {"IDLE", "INITIALIZED"}
      PROVE  OneLoop'
  <2>1. \A l \in Loops : pc'[l] = pc[l]
    BY <1>0, <1>a DEF Goto
  <2> QED
    BY <1>a, <2>1 DEF OneLoop
<1>b. ASSUME NEW l \in Loops, NEW x, Goto(l, x), pc[l] # "none", x # "return_freed",
             mp'.msg_thread = mp.msg_thread,
             mp_state' \in {"IDLE", "INITIALIZED"} => mp_state' = mp_state
      PROVE  OneLoop'
  <2>1. \A k \in Loops : pc'[k] = IF k = l THEN x ELSE pc[k]
    BY <1>0, <1>b DEF Goto
  <2> QED
    BY <1>b, <2>1 DEF OneLoop
<1>1. ASSUME NEW a \in Apps, NEW op \in JniOps \cup {"shutdown", "reset"}, Enter(a, op)
      PROVE  OneLoop'
  BY <1>1, <1>a DEF Enter
<1>2. ASSUME NEW a \in Apps, AppStep(a) PROVE OneLoop'
  <2>1. ASSUME NEW l \in Loops, PrepareAsync(a, l) PROVE OneLoop'
    <3>1. /\ mp_state' \in {"ASYNC_PREPARING", "ERROR"} /\ mp'.msg_thread = {l}
          /\ mp_state \in {"INITIALIZED", "STOPPED"}
          /\ pc' = [pc EXCEPT ![a] = "dec", ![l] = "begin"]
      BY <1>0, <2>1 DEF PrepareAsync, MpFields
    <3>2. mp_state = "INITIALIZED"
      BY <3>1 DEF PreparesOnce, vars
    <3>3. \A k \in Loops : pc[k] = "none" /\ (pc'[k] = IF k = l THEN "begin" ELSE "none")
      BY <1>0, <3>1, <3>2 DEF OneLoop
    <3>4. \A k \in Loops : pc'[k] # "none" => k \in mp'.msg_thread
      BY <3>1, <3>3
    <3>5. \A k \in Loops : pc'[k] # "return_freed"
      BY <3>3
    <3>6. mp_state' \notin {"IDLE", "INITIALIZED"}
      BY <3>1
    <3> QED
      BY <3>4, <3>5, <3>6 DEF OneLoop
  <2>2. ASSUME NEW pos \in Positions, SeekTo(a, pos) PROVE OneLoop'
    <3>1. mp'.msg_thread = mp.msg_thread
      BY <1>0, <2>2 DEF SeekTo, MpFields
    <3> QED
      BY <1>a, <2>2, <3>1 DEF SeekTo
  <2>3. CASE SetDataSource(a)
    BY <1>a, <2>3 DEF SetDataSource
  <2>4. CASE StopAbort(a)
    BY <1>a, <2>4 DEF StopAbort
  <2> QED
    BY <1>2, <1>a, <2>1, <2>2, <2>3, <2>4 DEF AppStep, Start, Pause, RequestPlay, Stop,
       Refuse, Reset, Unweak, Unpeer
<1>3. ASSUME NEW t \in Threads, ThreadStep(t) PROVE OneLoop'
  <2>1. /\ \E x : Goto(t, x) /\ (x = "return_freed" => t \in Apps \/ Destroy(t))
        /\ UNCHANGED <<mp, mp_state>> /\ pc[t] # "none"
    <3>1. AfterDec(t) # "return_freed" /\ AfterShutdown # "return_freed"
      BY DEF AfterDec, AfterShutdown
    <3>2. CASE DecRef(t)
      BY <3>1, <3>2 DEF DecRef
    <3>3. CASE Destroy(t)
      BY <3>3 DEF Destroy, Free
    <3>4. CASE Shutdown(t) \/ ShutdownAbort(t) \/ ShutdownWait(t) \/ ShutdownJoin(t)
      <4>1. pc[t] # "none" /\ UNCHANGED <<mp, mp_state>>
        BY <3>4 DEF Shutdown, ShutdownAbort, ShutdownWait, ShutdownJoin
      <4>2. \E x \in {"shutdown_abort", "shutdown_wait", "shutdown_join", AfterShutdown} :
              Goto(t, x)
        BY <3>4 DEF Shutdown, ShutdownAbort, ShutdownWait, ShutdownJoin
      <4> QED
        BY <3>1, <4>1, <4>2
    <3> QED
      BY <1>3, <3>2, <3>3, <3>4 DEF ThreadStep
  <2>2. t \in Loops => ~Destroy(t)
    BY DEF AppFrees, Destroy
  <2> QED
    BY <1>0, <1>a, <1>b, <2>1, <2>2 DEF Threads
<1>4. ASSUME NEW l \in Loops, LoopStep(l) PROVE OneLoop'
  <2>1. \E x \in {"get", "dec", "handle", "post", "exited"} : Goto(l, x)
    BY <1>4 DEF LoopStep, LoopBegin, LoopGet, LoopAborted, LoopPost, LoopReturn, HandlePrepared,
       HandleCompleted, HandleSeekComplete, HandleOther, HandleStart, HandlePause, HandleSeek
  <2>2. pc[l] # "none" /\ mp'.msg_thread = mp.msg_thread
    BY <1>0, <1>4 DEF LoopStep, LoopBegin, LoopGet, LoopAborted, LoopPost,
       LoopReturn, HandlePrepared, HandleCompleted, HandleSeekComplete, HandleOther,
       HandleStart, HandlePause, HandleSeek, Handling, MpFields
  <2>3. mp_state' \in {mp_state, "PAUSED", "PREPARED", "COMPLETED", "STARTED"}
    BY <1>4 DEF LoopStep, LoopBegin, LoopGet, LoopAborted, LoopPost, LoopReturn, HandlePrepared,
       HandleCompleted, HandleSeekComplete, HandleOther, HandleStart, HandlePause, HandleSeek
  <2> QED
    BY <1>b, <2>1, <2>2, <2>3
<1>5. ASSUME ReadStep \/ Drain \/ StepShown PROVE UNCHANGED <<mp, mp_state, pc>>
  BY <1>5 DEF ReadStep, Drain, StepShown, ReadFrame, ReadOpen, ReadPrepared, ReadWaitStart,
     ReadAutoResume, ReadResumed, ReadLoop, ReadSeek, ReadSeekDone, ReadSeekPlay,
     ReadSeekNotify, ReadPacket, ReadRewind, ReadIdle, ReadComplete, ReadCompletePause,
     ReadCompleteNotify, ReadFail
<1>6. CASE UNCHANGED vars
  BY <1>6 DEF vars, OneLoop
<1> QED
  BY <1>1, <1>2, <1>3, <1>4, <1>5, <1>6 DEF Next, Step, OneLoop

\* A player that is prepared once and freed by an application thread is not written into
\* once it is freed: ijkmp_destroy has waited for the one message thread, to its very
\* end.  Without either condition FreedIsUntouched does not hold.
THEOREM PreparedOnceUntouched ==
  Spec /\ [][PreparesOnce]_vars /\ []AppFrees => []FreedIsUntouched
<1>1. Init => IInv /\ Joined /\ OneLoop
  <2>1. Init => mp.msg_thread = {} /\ \A l \in Loops : pc[l] = "none"
    BY PlayerAssumption DEF Init, Threads, PlayerAssumption
  <2> QED
    BY <2>1, InitIInv DEF Init, Joined, OneLoop
<1>2. IInv /\ Joined /\ OneLoop /\ AppFrees /\ [PreparesOnce]_vars /\ [Next]_vars
        => IInv' /\ Joined' /\ OneLoop'
  BY NextIInv, JoinedKept, OneLoopKept
<1>3. Joined /\ OneLoop => FreedIsUntouched
  BY DEF Joined, OneLoop, FreedIsUntouched
<1> QED
  BY <1>1, <1>2, <1>3, PTL DEF Spec
--------------------------------------------------------------------------------
(* Closing the stream: one releaser. *)

\* One thread at most calls release() or reset().
OneReleaser == \A a, b \in Releasers : a = b

\* Any other thread only comes to ijkmp_shutdown_l with the last reference.
LastOnly ==
  /\ \A a \in Apps : pc[a] \in {"reset", "unweak", "unpeer", "dec_old"} => a \in Releasers
  /\ \A a \in Apps \ Releasers : pc[a] \in ShutdownPcs => ref_count = 0

\* A thread that has come to SDL_WaitThread on the read thread, in stream_close, finds
\* the stream still there and told to stop: nobody else closes it meanwhile, so that
\* the wait ends with the read thread's last step and the stream is closed once.
JoinsItsReader ==
  \A t \in Threads : pc[t] = "shutdown_join" =>
    is.open /\ is.abort_request /\ read.pc # "none"

\* A stream has a read thread.
HasReader == is.open <=> read.pc # "none"

LEMMA OneShutsDown ==
  ASSUME OneReleaser, IInv, LastOnly, NEW t \in Threads, NEW u \in Threads,
         pc[t] \in ShutdownPcs, pc[u] \in ShutdownPcs
  PROVE  t = u
<1>1. CASE ref_count = 0
  BY <1>1 DEF IInv, ReaperAlone, Reaping
<1>2. CASE ref_count # 0
  <2>1. t \in Releasers /\ u \in Releasers
    BY <1>2 DEF IInv, ReaperAlone, LastOnly, Threads
  <2> QED
    BY <2>1 DEF OneReleaser
<1> QED
  BY <1>1, <1>2

\* The places of the calls that take part in a release.
ReleasePcs == ShutdownPcs \cup {"reset", "unweak", "unpeer", "dec_old"}

LEMMA LastOnlyKept == ASSUME IInv, LastOnly, [Next]_vars PROVE LastOnly'
<1>0. /\ pc \in [Threads -> AppPcs \cup LoopPcs] /\ Apps \cap Loops = {}
      /\ Apps \subseteq Threads /\ ref_count \in Nat
      /\ JniOps \cap ReleasePcs = {} /\ "shutdown" \in ShutdownPcs
  BY PlayerAssumption DEF IInv, ControlTypeOK, PcTypeOK, PlayerAssumption, Threads, JniOps,
     ReleasePcs, ShutdownPcs
<1>a. \A t \in Threads : pc[t] \notin OutsidePcs \cup {"destroy"} \cup ShutdownPcs
        => ref_count > 0
  BY NoneAtZero DEF IInv, Holding, OutsidePcs
<1>b. ASSUME NEW t \in Threads, NEW x, Goto(t, x), x \notin ReleasePcs,
             ref_count = 0 => ref_count' = 0
      PROVE  LastOnly'
  BY <1>0, <1>b DEF LastOnly, Goto, ReleasePcs
<1>c. ASSUME NEW a \in Releasers, NEW x, Goto(a, x), ref_count = 0 => ref_count' = 0
      PROVE  LastOnly'
  BY <1>0, <1>c DEF LastOnly, Goto
<1>1. ASSUME NEW a \in Apps, NEW op \in JniOps \cup {"shutdown", "reset"}, Enter(a, op)
      PROVE  LastOnly'
  <2>1. a \in Threads /\ Goto(a, op) /\ ref_count > 0
    BY <1>1, NoneAtZero DEF Enter, Threads, IInv
  <2>2. CASE op \in JniOps
    BY <1>0, <1>b, <2>1, <2>2
  <2>3. CASE op \in {"shutdown", "reset"}
    <3>1. a \in Releasers
      BY <1>1, <2>3 DEF Enter
    <3> QED
      BY <1>c, <2>1, <3>1
  <2> QED
    BY <2>2, <2>3
<1>2. ASSUME NEW a \in Apps, AppStep(a) PROVE LastOnly'
  <2>0. a \in Threads /\ "dec" \notin ReleasePcs /\ "stop_abort" \notin ReleasePcs
    BY DEF Threads, ReleasePcs, ShutdownPcs
  <2>1. ASSUME NEW l \in Loops, PrepareAsync(a, l) PROVE LastOnly'
    <3>1. pc[a] = "prepare_async" /\ pc' = [pc EXCEPT ![a] = "dec", ![l] = "begin"]
      BY <2>1 DEF PrepareAsync
    <3>2. ref_count > 0
      BY <1>a, <2>0, <3>1 DEF ShutdownPcs, OutsidePcs
    <3> QED
      BY <1>0, <3>1, <3>2 DEF LastOnly, ShutdownPcs
  <2>2. CASE SetDataSource(a) \/ Start(a) \/ Pause(a) \/ \E pos \in Positions : SeekTo(a, pos)
    <3>1. Goto(a, "dec") /\ UNCHANGED ref_count
      BY <2>2, Zenon DEF SetDataSource, Start, Pause, RequestPlay, SeekTo
    <3> QED
      BY <1>b, <2>0, <3>1
  <2>3. CASE Stop(a) \/ StopAbort(a)
    BY <1>b, <2>0, <2>3 DEF Stop, StopAbort
  <2>4. ASSUME NEW op, NEW s, Refuse(a, op, s) PROVE LastOnly'
    BY <1>b, <2>0, <2>4 DEF Refuse
  <2>5. CASE Reset(a) \/ Unweak(a) \/ Unpeer(a)
    <3>1. a \in Releasers
      BY <2>5 DEF LastOnly, Reset, Unweak, Unpeer
    <3>2. ref_count > 0
      BY <1>a, <2>0, <2>5 DEF Reset, Unweak, Unpeer, ShutdownPcs, OutsidePcs
    <3>3. \E x : Goto(a, x)
      BY <2>5 DEF Reset, Unweak, Unpeer
    <3> QED
      BY <1>c, <3>1, <3>2, <3>3
  <2> QED
    BY <1>2, <2>1, <2>2, <2>3, <2>4, <2>5 DEF AppStep
<1>3. ASSUME NEW t \in Threads, ThreadStep(t) PROVE LastOnly'
  <2>1. CASE DecRef(t)
    <3>1. ref_count > 0 /\ ref_count' = ref_count - 1
      BY <1>a, <2>1 DEF DecRef, ShutdownPcs, OutsidePcs
    <3>2. CASE ref_count = 1
      <4>1. ref_count' = 0 /\ Goto(t, "shutdown")
        BY <2>1, <3>1, <3>2 DEF DecRef
      <4> QED
        BY <1>0, <4>1 DEF LastOnly, Goto, ShutdownPcs
    <3>3. CASE ref_count # 1
      <4>1. Goto(t, AfterDec(t)) /\ AfterDec(t) \notin ReleasePcs
        BY <2>1, <3>3 DEF DecRef, AfterDec, ReleasePcs, ShutdownPcs
      <4> QED
        BY <1>b, <3>1, <4>1
    <3> QED
      BY <3>2, <3>3
  <2>2. CASE Destroy(t)
    <3>1. UNCHANGED ref_count /\ \E x \in {"idle", "return_freed"} : Goto(t, x)
      BY <2>2 DEF Destroy, Free
    <3> QED
      BY <1>b, <3>1 DEF ReleasePcs, ShutdownPcs
  <2>3. CASE Shutdown(t) \/ ShutdownAbort(t) \/ ShutdownWait(t) \/ ShutdownJoin(t)
    <3>1. /\ UNCHANGED ref_count /\ pc[t] \in ShutdownPcs
          /\ \E x : Goto(t, x) /\ (x \in ShutdownPcs \/ x = AfterShutdown)
      BY <2>3 DEF Shutdown, ShutdownAbort, ShutdownWait, ShutdownJoin, ShutdownPcs
    <3>2. AfterShutdown = IF ref_count = 0 THEN "destroy" ELSE "unweak"
      BY DEF AfterShutdown
    <3>3. CASE t \in Releasers
      BY <1>c, <3>1, <3>3
    <3>4. CASE t \notin Releasers
      <4>1. ref_count = 0
        BY <3>1, <3>4 DEF LastOnly, IInv, ReaperAlone, Threads
      <4>2. PICK x : Goto(t, x) /\ (x \in ShutdownPcs \/ x = "destroy")
        BY <3>1, <3>2, <4>1
      <4>3. x \notin {"reset", "unweak", "unpeer", "dec_old"}
        BY <4>2 DEF ShutdownPcs
      <4> QED
        BY <1>0, <3>1, <4>1, <4>2, <4>3 DEF LastOnly, Goto
    <3> QED
      BY <3>3, <3>4
  <2> QED
    BY <1>3, <2>1, <2>2, <2>3 DEF ThreadStep
<1>4. ASSUME NEW l \in Loops, LoopStep(l) PROVE LastOnly'
  <2>1. UNCHANGED ref_count /\ \E x \in {"get", "dec", "handle", "post", "exited"} : Goto(l, x)
    BY <1>4 DEF LoopStep, LoopBegin, LoopGet, LoopAborted, LoopPost, LoopReturn, HandlePrepared,
       HandleCompleted, HandleSeekComplete, HandleOther, HandleStart, HandlePause, HandleSeek
  <2> QED
    BY <1>b, <2>1 DEF ReleasePcs, ShutdownPcs, Threads
<1>5. ASSUME ReadStep \/ Drain \/ StepShown PROVE UNCHANGED <<pc, ref_count>>
  BY <1>5 DEF ReadStep, Drain, StepShown, ReadFrame, ReadOpen, ReadPrepared, ReadWaitStart,
     ReadAutoResume, ReadResumed, ReadLoop, ReadSeek, ReadSeekDone, ReadSeekPlay,
     ReadSeekNotify, ReadPacket, ReadRewind, ReadIdle, ReadComplete, ReadCompletePause,
     ReadCompleteNotify, ReadFail
<1>6. CASE UNCHANGED vars
  BY <1>6 DEF vars, LastOnly
<1> QED
  BY <1>1, <1>2, <1>3, <1>4, <1>5, <1>6 DEF Next, Step, LastOnly

\* What a step does to the stream and its read thread, but for opening and closing.
LEMMA ReaderMoves ==
  ASSUME IInv, HasReader, [Next]_vars,
         \A a \in Apps, l \in Loops : ~PrepareAsync(a, l),
         \A t \in Threads : ~ShutdownJoin(t)
  PROVE  /\ is'.open = is.open
         /\ is.abort_request => is'.abort_request
         /\ read'.pc = "none" <=> read.pc = "none"
         /\ \A t \in Threads : pc'[t] = "shutdown_join" =>
              pc[t] = "shutdown_join" \/ (is'.open /\ is'.abort_request)
<1>0. is \in StreamFields /\ read \in ReadFields /\ pc \in [Threads -> AppPcs \cup LoopPcs]
  BY DEF IInv, ControlTypeOK, PcTypeOK
<1>a. ASSUME NEW s \in StreamFields, NEW on \in BOOLEAN
      PROVE  /\ TogglePauseStream(s, on).open = s.open
             /\ TogglePauseStream(s, on).abort_request = s.abort_request
  BY DEF TogglePauseStream, StreamFields
<1>b. /\ StopStream => /\ is'.open = is.open
                       /\ is.abort_request => is'.abort_request
                       /\ is.open => is'.abort_request
      /\ \A on \in BOOLEAN : TogglePause(on) =>
           is'.open = is.open /\ is'.abort_request = is.abort_request
      /\ StreamSeek => is'.open = is.open /\ is'.abort_request = is.abort_request
  <2>1. [is EXCEPT !.abort_request = TRUE] \in StreamFields
    BY <1>0, StoppedStream
  <2>2. /\ [is EXCEPT !.abort_request = TRUE].open = is.open
        /\ [is EXCEPT !.abort_request = TRUE].abort_request
    BY <1>0 DEF StreamFields
  <2>3. StreamSeek => is'.open = is.open /\ is'.abort_request = is.abort_request
    BY <1>0 DEF StreamSeek, StreamFields
  <2>4. \A on \in BOOLEAN : TogglePause(on) =>
           is'.open = is.open /\ is'.abort_request = is.abort_request
    BY <1>0, <1>a DEF TogglePause
  <2>5. StopStream => is' = is \/ is' = TogglePauseStream([is EXCEPT !.abort_request = TRUE], TRUE)
    BY DEF StopStream
  <2>6. StopStream /\ is.open
          => is' = TogglePauseStream([is EXCEPT !.abort_request = TRUE], TRUE)
    BY DEF StopStream
  <2> QED
    BY <1>a, <2>1, <2>2, <2>3, <2>4, <2>5, <2>6
<1>c. ASSUME NEW t \in Threads, NEW x, x # "shutdown_join", Goto(t, x)
      PROVE  \A u \in Threads : pc'[u] = "shutdown_join" => pc[u] = "shutdown_join"
  BY <1>0, <1>c DEF Goto
<1>d. Apps \subseteq Threads /\ Loops \subseteq Threads
  BY DEF Threads
<1>1. ASSUME NEW a \in Apps, NEW op \in JniOps \cup {"shutdown", "reset"}, Enter(a, op)
      PROVE  /\ UNCHANGED <<is, read>>
             /\ \A u \in Threads : pc'[u] = "shutdown_join" => pc[u] = "shutdown_join"
  BY <1>1, <1>c, <1>d DEF Enter, JniOps
<1>2. ASSUME NEW a \in Apps, AppStep(a)
      PROVE  /\ is'.open = is.open /\ UNCHANGED read
             /\ is.abort_request => is'.abort_request
             /\ \A u \in Threads : pc'[u] = "shutdown_join" => pc[u] = "shutdown_join"
  <2>1. CASE SetDataSource(a) \/ Reset(a) \/ Unweak(a) \/ Unpeer(a) \/ StopAbort(a)
    BY <1>c, <1>d, <2>1 DEF SetDataSource, Reset, Unweak, Unpeer, StopAbort
  <2>2. CASE Start(a) \/ Pause(a) \/ \E pos \in Positions : SeekTo(a, pos)
    <3>1. Goto(a, "dec") /\ UNCHANGED <<is, read>>
      BY <2>2, Zenon DEF Start, Pause, RequestPlay, SeekTo
    <3> QED
      BY <1>c, <1>d, <3>1
  <2>3. CASE Stop(a)
    BY <1>b, <1>c, <1>d, <2>3 DEF Stop
  <2>4. ASSUME NEW op, NEW s, Refuse(a, op, s)
        PROVE  /\ UNCHANGED <<is, read>>
               /\ \A u \in Threads : pc'[u] = "shutdown_join" => pc[u] = "shutdown_join"
    BY <1>c, <1>d, <2>4 DEF Refuse
  <2> QED
    BY <1>2, <2>1, <2>2, <2>3, <2>4 DEF AppStep
<1>3. ASSUME NEW t \in Threads, ThreadStep(t)
      PROVE  /\ is'.open = is.open /\ UNCHANGED read
             /\ is.abort_request => is'.abort_request
             /\ \A u \in Threads : pc'[u] = "shutdown_join" =>
                  pc[u] = "shutdown_join" \/ (is'.open /\ is'.abort_request)
  <2>0. AfterDec(t) # "shutdown_join" /\ AfterShutdown # "shutdown_join"
    BY DEF AfterDec, AfterShutdown
  <2>1. CASE DecRef(t) \/ Destroy(t) \/ ShutdownAbort(t)
    BY <1>c, <2>0, <2>1 DEF DecRef, Destroy, Free, ShutdownAbort
  <2>2. CASE Shutdown(t)
    BY <1>b, <1>c, <2>2 DEF Shutdown
  <2>3. CASE ShutdownWait(t)
    BY <1>b, <1>c, <2>0, <2>3 DEF ShutdownWait
  <2> QED
    BY <1>3, <2>1, <2>2, <2>3 DEF ThreadStep
<1>4. ASSUME NEW l \in Loops, LoopStep(l)
      PROVE  /\ is'.open = is.open /\ UNCHANGED read
             /\ is.abort_request => is'.abort_request
             /\ \A u \in Threads : pc'[u] = "shutdown_join" => pc[u] = "shutdown_join"
  <2>1. \E x \in {"get", "dec", "handle", "post", "exited"} : Goto(l, x)
    BY <1>4 DEF LoopStep, LoopBegin, LoopGet, LoopAborted, LoopPost, LoopReturn, HandlePrepared,
       HandleCompleted, HandleSeekComplete, HandleOther, HandleStart, HandlePause, HandleSeek
  <2>2. \A u \in Threads : pc'[u] = "shutdown_join" => pc[u] = "shutdown_join"
    BY <1>c, <1>d, <2>1
  <2>3. CASE HandleStart(l) \/ HandlePause(l) \/ HandleSeek(l)
    BY <1>b, <2>2, <2>3 DEF HandleStart, HandlePause, HandleSeek
  <2> QED
    BY <1>4, <2>2, <2>3 DEF LoopStep, LoopBegin, LoopGet, LoopAborted, LoopPost, LoopReturn,
       HandlePrepared, HandleCompleted, HandleSeekComplete, HandleOther
<1>5. ASSUME ReadStep \/ Drain \/ StepShown
      PROVE  /\ is'.open = is.open /\ is'.abort_request = is.abort_request
             /\ read'.pc = "none" <=> read.pc = "none"
             /\ UNCHANGED pc
  <2>1. UNCHANGED pc
    BY <1>5 DEF ReadStep, Drain, StepShown, ReadFrame, ReadOpen, ReadPrepared, ReadWaitStart,
       ReadAutoResume, ReadResumed, ReadLoop, ReadSeek, ReadSeekDone, ReadSeekPlay,
       ReadSeekNotify, ReadPacket, ReadRewind, ReadIdle, ReadComplete, ReadCompletePause,
       ReadCompleteNotify, ReadFail
  <2>2. is'.open = is.open /\ is'.abort_request = is.abort_request
    <3>1. CASE ReadOpen \/ ReadRewind \/ ReadCompletePause
      BY <1>b, <3>1 DEF ReadOpen, ReadRewind, ReadCompletePause
    <3>2. CASE ReadSeek \/ ReadSeekDone \/ ReadSeekPlay \/ Drain \/ StepShown
      BY <1>0, <3>2 DEF ReadSeek, ReadSeekDone, ReadSeekPlay, Drain, StepShown, StreamFields
    <3> QED
      BY <1>5, <3>1, <3>2 DEF ReadStep, ReadPrepared, ReadWaitStart, ReadAutoResume,
         ReadResumed, ReadLoop, ReadSeekNotify, ReadPacket, ReadIdle, ReadComplete,
         ReadCompleteNotify, ReadFail
  <2>3. CASE Drain \/ StepShown
    BY <2>1, <2>2, <2>3 DEF Drain, StepShown
  <2>4. CASE ReadStep
    <3>1. read.pc # "none"
      BY <2>4 DEF ReadStep, ReadAt, ReadOpen, ReadPrepared, ReadWaitStart, ReadAutoResume,
         ReadResumed, ReadLoop, ReadSeek, ReadSeekDone, ReadSeekPlay, ReadSeekNotify,
         ReadPacket, ReadRewind, ReadIdle, ReadComplete, ReadCompletePause,
         ReadCompleteNotify, ReadFail
    <3>2. ASSUME NEW x, x # "none", ReadGoto(x) PROVE read'.pc # "none"
      BY <1>0, <3>2 DEF ReadGoto, ReadFields
    <3>3. ASSUME ReadSeekDone \/ ReadComplete \/ ReadCompleteNotify PROVE read'.pc # "none"
      BY <1>0, <3>3 DEF ReadSeekDone, ReadComplete, ReadCompleteNotify, ReadFields
    <3>4. read'.pc # "none"
      BY <2>4, <3>2, <3>3 DEF ReadStep, ReadOpen, ReadPrepared, ReadWaitStart,
         ReadAutoResume, ReadResumed, ReadLoop, ReadSeek, ReadSeekPlay, ReadSeekNotify,
         ReadPacket, ReadRewind, ReadIdle, ReadCompletePause, ReadFail
    <3> QED
      BY <2>1, <2>2, <3>1, <3>4
  <2> QED
    BY <1>5, <2>3, <2>4
<1>6. CASE UNCHANGED vars
  BY <1>6 DEF vars
<1> QED
  BY <1>1, <1>2, <1>3, <1>4, <1>5, <1>6 DEF Next, Step

LEMMA JoinKept ==
  ASSUME OneReleaser, IInv, LastOnly, HasReader, JoinsItsReader, [Next]_vars
  PROVE  HasReader' /\ JoinsItsReader'
<1>0. /\ read \in ReadFields /\ pc \in [Threads -> AppPcs \cup LoopPcs]
      /\ "shutdown_join" \in ShutdownPcs
  BY DEF IInv, ControlTypeOK, PcTypeOK, ShutdownPcs
<1>1. ASSUME NEW a \in Apps, NEW l \in Loops, PrepareAsync(a, l)
      PROVE  HasReader' /\ JoinsItsReader'
  <2>1. \A t \in Threads : pc'[t] = "shutdown_join" => pc[t] = "shutdown_join"
    BY <1>0, <1>1 DEF PrepareAsync
  <2>2. CASE UNCHANGED <<is, read>>
    BY <2>1, <2>2 DEF HasReader, JoinsItsReader
  <2>3. CASE ~is.open /\ ~UNCHANGED <<is, read>>
    <3>1. /\ is' = [NoStream EXCEPT !.open = TRUE, !.pause_req = ~ffp.start_on_prepared]
          /\ read' = [pc |-> "open", completed |-> FALSE, errored |-> FALSE]
      BY <1>1, <2>3 DEF PrepareAsync
    <3>3. is'.open /\ read'.pc = "open"
      BY <3>1 DEF NoStream
    <3>2. \A t \in Threads : pc'[t] # "shutdown_join"
      BY <2>1, <2>3 DEF JoinsItsReader
    <3> QED
      BY <3>2, <3>3 DEF HasReader, JoinsItsReader
  <2> QED
    BY <1>1, <2>2, <2>3 DEF PrepareAsync
<1>2. ASSUME NEW t \in Threads, ShutdownJoin(t)
      PROVE  HasReader' /\ JoinsItsReader'
  <2>1. ~is'.open /\ read'.pc = "none" /\ pc[t] = "shutdown_join"
    BY <1>0, <1>2 DEF ShutdownJoin, NoStream, ReadFields
  <2>2. \A u \in Threads : pc[u] = "shutdown_join" => u = t
    BY <1>0, <2>1, OneShutsDown
  <2>3. AfterShutdown # "shutdown_join"
    BY DEF AfterShutdown
  <2>4. \A u \in Threads : pc'[u] # "shutdown_join"
    BY <1>0, <1>2, <2>2, <2>3 DEF ShutdownJoin, Goto
  <2> QED
    BY <2>1, <2>4 DEF HasReader, JoinsItsReader
<1>3. CASE /\ \A a \in Apps, l \in Loops : ~PrepareAsync(a, l)
           /\ \A t \in Threads : ~ShutdownJoin(t)
  BY <1>3, ReaderMoves DEF HasReader, JoinsItsReader
<1> QED
  BY <1>1, <1>2, <1>3

\* With one thread that releases, closing the stream waits for the read thread it stops
\* and for nobody else; with two, both would find the stream and close it.
THEOREM CloseWaitsForReader == ASSUME OneReleaser PROVE Spec => []JoinsItsReader
<1>1. Init => IInv /\ LastOnly /\ HasReader /\ JoinsItsReader
  <2>1. ASSUME Init PROVE /\ \A t \in Threads : pc[t] \in {"idle", "none"}
                          /\ Apps \subseteq Threads
                          /\ is = NoStream /\ read.pc = "none"
    BY <2>1 DEF Init, Threads
  <2>2. ~NoStream.open
    BY DEF NoStream
  <2> QED
    BY <2>1, <2>2, InitIInv DEF LastOnly, HasReader, JoinsItsReader, ShutdownPcs
<1>2. IInv /\ LastOnly /\ HasReader /\ JoinsItsReader /\ [Next]_vars
        => IInv' /\ LastOnly' /\ HasReader' /\ JoinsItsReader'
  BY NextIInv, LastOnlyKept, JoinKept
<1> QED
  BY <1>1, <1>2, PTL DEF Spec
================================================================================
