------------------------- MODULE PlayerSessionProofs -------------------------
(***************************************************************************)
(* Theorems about IjkMediaPlayer driven by one application thread, which   *)
(* is how the Java API is used: what the state says and what the stream    *)
(* does stay together, however many calls are made and message threads     *)
(* started.                                                                *)
(*                                                                         *)
(* It also shows what needs no assumption on the targets: no seek the code *)
(* accepted is ever dropped from all of its stations (SeekNeverForgotten), *)
(* release() leaves no stream open (ReleaseCloses), and a pause stands     *)
(* still unless another follows it before a paused seek's frame is shown   *)
(* (PauseStandsStill).                                                     *)
(*                                                                         *)
(* With two application threads PausedIsPaused fails: one stops and        *)
(* prepares again while the other's release() has closed the first stream, *)
(* and the FFP_MSG_PREPARED of that stream is handled for the second.      *)
(* With a seek past the end StartedIsRunning fails: see NoRestartYet.      *)
(***************************************************************************)
EXTENDS IjkMediaPlayerProofs

--------------------------------------------------------------------------------
(* One application thread: the player has one stream in its life.              *)

Unopened == mp_state \in {"IDLE", "INITIALIZED", "ERROR"}

\* The application's calls are over, or about to be.
Gone == \A a \in Apps :
  \/ pc[a] \in {"unweak", "unpeer"}
  \/ ~jobj.mNativeMediaPlayer /\ pc[a] \notin JniOps \cup {"stop_abort", "reset"}

\* Before the stream nothing but FLUSH messages is on its way.
Before ==
  Unopened => /\ read.pc = "none" /\ ~is.open /\ MutexFree
              /\ \A what \in Kinds \ {"FLUSH"} : ~Pending(what)
              /\ ~ffp.auto_resume /\ ~mp.restart

\* No stream is opened after it.
Behind == ~is.open /\ ~Unopened => Gone

\* A stream that is not to play is asked to pause, and no seek will resume it.
Still ==
  /\ is.open
  /\ \/ mp_state \in {"PAUSED", "STOPPED"}
     \/ ~MutexFree
     \/ mp_state = "ASYNC_PREPARING" /\ ~ffp.start_on_prepared
  => is.pause_req /\ ~ffp.auto_resume

\* Until FFP_MSG_PREPARED is handled, a player that does not start by itself waits
\* for it.
Unprepared ==
  /\ is.open /\ ~ffp.start_on_prepared
  /\ read.pc \in {"open", "prepared"} \/ Pending("PREPARED")

UnpreparedPcs == {"open", "prepared", "wait_start", "auto_resume", "loop", "fail", "exit"}

Waits ==
  Unprepared =>
    /\ mp_state \in {"ASYNC_PREPARING", "STOPPED"}
    /\ ~Pending("COMPLETED")
    /\ read.pc \in UnpreparedPcs
    /\ read.pc \in {"auto_resume", "loop"} => is.abort_request

PreparedOnce ==
  OnePrepared /\ (read.pc \in {"open", "prepared"} => ~Pending("PREPARED"))

Session ==
  /\ life # "aborted" => Before /\ Behind /\ Still /\ Waits /\ PreparedOnce
  /\ life = "aborted" => mp_state = "ASYNC_PREPARING"

Whole == IInv /\ QueueTypeOK /\ Session

\* A step of the application or of a message thread that leaves the stream alone.
LEMMA AsideStep ==
  ASSUME Whole, life # "aborted", life' # "aborted", NEW new, Adds(new),
         UNCHANGED <<mp_state, ffp, is, read>>, mp'.restart => mp.restart,
         new \cap {"PREPARED", "COMPLETED"} = {}, new # {} => ~Unopened,
         MutexFree => MutexFree', Behind => Behind'
  PROVE  Session'
<1> USE DEF Whole, Session
<1>1. /\ Before /\ Behind /\ Still /\ Waits /\ PreparedOnce
      /\ \A what : Pending(what)' => Pending(what) \/ what \in new
      /\ OnePrepared'
  BY DEF Adds, PreparedOnce
<1>2. Before'
  BY <1>1 DEF Before, Unopened
<1>3. Still'
  BY <1>1 DEF Still
<1>4. Waits'
  BY <1>1 DEF Waits, Unprepared
<1>5. PreparedOnce'
  BY <1>1 DEF PreparedOnce
<1> QED
  BY <1>1, <1>2, <1>3, <1>4, <1>5

\* A step of the read thread or of the decoders.
LEMMA StreamStep ==
  ASSUME Whole, life # "aborted", NEW new, Adds(new), ReadFrame, ~Unopened,
         is'.open = is.open, ffp'.start_on_prepared = ffp.start_on_prepared,
         is.pause_req /\ ~ffp.auto_resume => is'.pause_req /\ ~ffp'.auto_resume,
         "PREPARED" \in new => read.pc = "prepared",
         read'.pc \in {"open", "prepared"} =>
           read.pc \in {"open", "prepared"} /\ "PREPARED" \notin new,
         Unprepared =>
           /\ "COMPLETED" \notin new
           /\ read'.pc \in UnpreparedPcs
           /\ read'.pc \in {"auto_resume", "loop"} => is'.abort_request
  PROVE  Session'
<1> USE DEF Whole, Session, ReadFrame
<1>1. /\ Before /\ Behind /\ Still /\ Waits /\ PreparedOnce
      /\ \A what : Pending(what)' => Pending(what) \/ what \in new
  BY DEF Adds
<1>2. UNCHANGED <<mp_state, mp, pc, jobj, life>>
  OBVIOUS
<1>3. ~Unopened'
  BY <1>2 DEF Unopened
<1>4. Behind'
  BY <1>1, <1>2 DEF Behind, Unopened, Gone
<1>5. Still'
  BY <1>1, <1>2 DEF Still, MutexFree
<1>6. (Unprepared' => Unprepared)
  <2>1. Pending("PREPARED")' => Pending("PREPARED") \/ read.pc = "prepared"
    BY <1>1
  <2> QED
    BY <2>1 DEF Unprepared
<1>7. Waits'
  BY <1>1, <1>2, <1>6 DEF Waits
<1>8. PreparedOnce'
  <2>1. "PREPARED" \in new => ~Pending("PREPARED")
    BY <1>1 DEF PreparedOnce
  <2>2. OnePrepared'
    BY <1>1, <2>1 DEF Adds, PreparedOnce
  <2>3. read'.pc \in {"open", "prepared"} => ~Pending("PREPARED")'
    BY <1>1 DEF PreparedOnce
  <2> QED
    BY <2>2, <2>3 DEF PreparedOnce
<1> QED
  BY <1>2, <1>3, <1>4, <1>5, <1>7, <1>8 DEF Before

LEMMA ToggleFacts ==
  ASSUME is \in StreamFields, ffp \in FfpFields
  PROVE  /\ \A on \in BOOLEAN : TogglePause(on) =>
              /\ is'.pause_req = on /\ ffp'.auto_resume = ~on
              /\ is'.open = is.open /\ is'.abort_request = is.abort_request
              /\ is'.seek_req = is.seek_req
              /\ ffp'.start_on_prepared = ffp.start_on_prepared
         /\ StopStream =>
              /\ is'.open = is.open /\ ffp'.start_on_prepared = ffp.start_on_prepared
              /\ is.open => is'.pause_req /\ ~ffp'.auto_resume /\ is'.abort_request
              /\ ~is.open => UNCHANGED <<is, ffp>>
         /\ StreamSeek =>
              /\ is'.pause_req = is.pause_req /\ is'.open = is.open /\ is'.seek_req
              /\ is'.abort_request = is.abort_request
<1>1. ASSUME NEW s \in StreamFields, NEW on \in BOOLEAN
      PROVE  /\ TogglePauseStream(s, on).pause_req = on
             /\ TogglePauseStream(s, on).open = s.open
             /\ TogglePauseStream(s, on).abort_request = s.abort_request
             /\ TogglePauseStream(s, on).seek_req = s.seek_req
  BY DEF TogglePauseStream, StreamFields
<1>2. \A on \in BOOLEAN : TogglePause(on) =>
              /\ is'.pause_req = on /\ ffp'.auto_resume = ~on
              /\ is'.open = is.open /\ is'.abort_request = is.abort_request
              /\ is'.seek_req = is.seek_req
              /\ ffp'.start_on_prepared = ffp.start_on_prepared
  BY <1>1 DEF TogglePause, FfpFields
<1>3. ASSUME StopStream
      PROVE   /\ is'.open = is.open /\ ffp'.start_on_prepared = ffp.start_on_prepared
              /\ is.open => is'.pause_req /\ ~ffp'.auto_resume /\ is'.abort_request
              /\ ~is.open => UNCHANGED <<is, ffp>>
  <2> DEFINE s == [is EXCEPT !.abort_request = TRUE]
  <2>1. s \in StreamFields /\ s.open = is.open /\ s.abort_request
    BY DEF StreamFields
  <2>2. CASE is.open
    <3>1. is' = TogglePauseStream(s, TRUE) /\ ffp' = [ffp EXCEPT !.auto_resume = FALSE]
      BY <1>3, <2>2 DEF StopStream
    <3> HIDE DEF s
    <3> QED
      BY <1>1, <2>1, <2>2, <3>1 DEF FfpFields
  <2>3. CASE ~is.open
    BY <1>3, <2>3 DEF StopStream
  <2> QED
    BY <2>2, <2>3
<1>4. StreamSeek =>
              /\ is'.pause_req = is.pause_req /\ is'.open = is.open /\ is'.seek_req
              /\ is'.abort_request = is.abort_request
  BY DEF StreamSeek, StreamFields
<1> QED
  BY <1>2, <1>3, <1>4

\* What the queue operations of the calls add and lose.
LEMMA RequestQueue ==
  ASSUME QueueTypeOK, UNCHANGED hand,
         \A l \in Loops : pc'[l] = "handle" <=> pc[l] = "handle"
  PROVE  /\ \A what \in {"REQ_START", "REQ_PAUSE"} :
              msg_queue' = Put(RemoveKind(RemoveKind(msg_queue, "REQ_START"), "REQ_PAUSE"),
                               Msg(what))
              => /\ QueueTypeOK' /\ Adds({what}) /\ Keeps("COMPLETED")
                 /\ msg_queue'.abort_request = msg_queue.abort_request
                 /\ IF msg_queue.abort_request THEN \A k : Keeps(k) ELSE Pending(what)'
         /\ \A pos \in Positions :
              msg_queue' = Put(RemoveKind(msg_queue, "REQ_SEEK"),
                               [what |-> "REQ_SEEK", arg1 |-> pos])
              => /\ QueueTypeOK' /\ Adds({"REQ_SEEK"})
                 /\ msg_queue'.abort_request = msg_queue.abort_request
                 /\ \A k : k # "REQ_SEEK" => Keeps(k)
         /\ msg_queue' = RemoveKind(RemoveKind(msg_queue, "REQ_START"), "REQ_PAUSE")
              => /\ QueueTypeOK' /\ Adds({})
                 /\ msg_queue'.abort_request = msg_queue.abort_request
<1> DEFINE r == RemoveKind(RemoveKind(msg_queue, "REQ_START"), "REQ_PAUSE")
           u == RemoveKind(msg_queue, "REQ_SEEK")
<1>0. msg_queue \in Queue(Message)
  BY DEF QueueTypeOK
<1>1. /\ r \in Queue(Message) /\ r.abort_request = msg_queue.abort_request
      /\ \A k : Holds(r, k) => Holds(msg_queue, k)
      /\ \A k : k \notin {"REQ_START", "REQ_PAUSE"} /\ Holds(msg_queue, k) => Holds(r, k)
      /\ \A k : Single(msg_queue, k) => Single(r, k)
  <2> DEFINE v == RemoveKind(msg_queue, "REQ_START")
  <2>1. /\ v \in Queue(Message) /\ v.abort_request = msg_queue.abort_request
        /\ \A k : Holds(v, k) => Holds(msg_queue, k)
        /\ \A k : k # "REQ_START" /\ Holds(msg_queue, k) => Holds(v, k)
        /\ \A k : Single(msg_queue, k) => Single(v, k)
    BY <1>0, RemoveFacts
  <2>2. r = RemoveKind(v, "REQ_PAUSE")
    OBVIOUS
  <2> HIDE DEF v, r
  <2>3. /\ r \in Queue(Message) /\ r.abort_request = v.abort_request
        /\ \A k : Holds(r, k) => Holds(v, k)
        /\ \A k : k # "REQ_PAUSE" /\ Holds(v, k) => Holds(r, k)
        /\ \A k : Single(v, k) => Single(r, k)
    BY <2>1, <2>2, RemoveFacts
  <2> QED
    BY <2>1, <2>3
<1>2. msg_queue.abort_request => r = msg_queue
  BY DEF RemoveKind
<1>3. /\ u \in Queue(Message) /\ u.abort_request = msg_queue.abort_request
      /\ \A k : Holds(u, k) => Holds(msg_queue, k)
      /\ \A k : k # "REQ_SEEK" /\ Holds(msg_queue, k) => Holds(u, k)
      /\ \A k : Single(msg_queue, k) => Single(u, k)
  BY <1>0, RemoveFacts
<1> HIDE DEF r, u
<1>4. ASSUME NEW what \in {"REQ_START", "REQ_PAUSE"}, msg_queue' = Put(r, Msg(what))
      PROVE  /\ QueueTypeOK' /\ Adds({what}) /\ Keeps("COMPLETED")
             /\ msg_queue'.abort_request = msg_queue.abort_request
             /\ IF msg_queue.abort_request THEN \A k : Keeps(k) ELSE Pending(what)'
  <2>1. Msg(what) \in Message /\ Msg(what).what = what
    BY MessageTyping DEF Kinds
  <2>2. /\ msg_queue' \in Queue(Message) /\ msg_queue'.abort_request = r.abort_request
        /\ \A k : Holds(msg_queue', k) <=> Holds(r, k) \/ (~r.abort_request /\ what = k)
        /\ \A k : Single(r, k) /\ (what # k \/ ~Holds(r, k)) => Single(msg_queue', k)
    BY <1>1, <1>4, <2>1, PutFacts
  <2>3. /\ QueueTypeOK' /\ Adds({what})
        /\ \A k : (Holds(msg_queue, k) => Holds(msg_queue', k)) => Keeps(k)
    <3>1. \A k : Holds(msg_queue', k) => Holds(msg_queue, k) \/ k \in {what}
      BY <1>1, <2>2
    <3>2. Single(msg_queue, "PREPARED") => Single(msg_queue', "PREPARED")
      BY <1>1, <1>4, <2>2
    <3> QED
      BY <2>2, <3>1, <3>2, QueueStep
  <2>4. Keeps("COMPLETED")
    BY <1>1, <2>2, <2>3
  <2>5. CASE msg_queue.abort_request
    <3>1. \A k : Holds(msg_queue, k) => Holds(msg_queue', k)
      BY <1>2, <2>2, <2>5
    <3> QED
      BY <1>1, <2>2, <2>3, <2>4, <2>5, <3>1
  <2>6. CASE ~msg_queue.abort_request
    <3>1. Holds(msg_queue', what)
      BY <1>1, <2>2, <2>6
    <3> QED
      BY <1>1, <2>2, <2>3, <2>4, <2>6, <3>1 DEF Pending
  <2> QED
    BY <2>5, <2>6
<1>5. ASSUME NEW pos \in Positions, msg_queue' = Put(u, [what |-> "REQ_SEEK", arg1 |-> pos])
      PROVE  /\ QueueTypeOK' /\ Adds({"REQ_SEEK"})
             /\ msg_queue'.abort_request = msg_queue.abort_request
             /\ \A k : k # "REQ_SEEK" => Keeps(k)
  <2> DEFINE m == [what |-> "REQ_SEEK", arg1 |-> pos]
  <2>1. m \in Message /\ m.what = "REQ_SEEK"
    BY MessageTyping
  <2>a. msg_queue' = Put(u, m)
    BY <1>5
  <2> HIDE DEF m
  <2>2. /\ msg_queue' \in Queue(Message) /\ msg_queue'.abort_request = u.abort_request
        /\ \A k : Holds(msg_queue', k) <=> Holds(u, k) \/ (~u.abort_request /\ "REQ_SEEK" = k)
        /\ \A k : Single(u, k) /\ ("REQ_SEEK" # k \/ ~Holds(u, k)) => Single(msg_queue', k)
    BY <1>3, <2>1, <2>a, PutFacts
  <2>3. /\ QueueTypeOK' /\ Adds({"REQ_SEEK"})
        /\ \A k : (Holds(msg_queue, k) => Holds(msg_queue', k)) => Keeps(k)
    <3>1. \A k : Holds(msg_queue', k) => Holds(msg_queue, k) \/ k \in {"REQ_SEEK"}
      BY <1>3, <2>2
    <3>2. Single(msg_queue, "PREPARED") => Single(msg_queue', "PREPARED")
      BY <1>3, <2>2
    <3> QED
      BY <2>2, <3>1, <3>2, QueueStep
  <2> QED
    BY <1>3, <2>2, <2>3
<1>6. ASSUME msg_queue' = r
      PROVE  /\ QueueTypeOK' /\ Adds({})
             /\ msg_queue'.abort_request = msg_queue.abort_request
  <2>1. /\ msg_queue' \in Queue(Message)
        /\ \A k : Holds(msg_queue', k) => Holds(msg_queue, k) \/ k \in {}
        /\ Single(msg_queue, "PREPARED") => Single(msg_queue', "PREPARED")
    BY <1>1, <1>6
  <2> QED
    BY <1>1, <1>6, <2>1, QueueStep
<1> QED
  BY <1>4, <1>5, <1>6 DEF r, u

\* A stop of the stream, by a call or a shutdown.
LEMMA StoppingStep ==
  ASSUME Whole, life # "aborted", life' # "aborted", Adds({}), StopStream,
         UNCHANGED <<mp_state, mp, read>>,
         Unopened => MutexFree', Behind => Behind'
  PROVE  Session'
<1> USE DEF Whole, Session
<1>0. is \in StreamFields /\ ffp \in FfpFields
  BY DEF IInv, ControlTypeOK
<1>1. /\ Before /\ Behind /\ Still /\ Waits /\ PreparedOnce
      /\ \A what : Pending(what)' => Pending(what)
      /\ OnePrepared'
  BY DEF Adds, PreparedOnce
<1>2. /\ is'.open = is.open /\ ffp'.start_on_prepared = ffp.start_on_prepared
      /\ is.open => is'.pause_req /\ ~ffp'.auto_resume /\ is'.abort_request
      /\ ~is.open => UNCHANGED <<is, ffp>>
  BY <1>0, ToggleFacts
<1>3. Before'
  BY <1>1, <1>2 DEF Before, Unopened
<1>4. Still'
  BY <1>2 DEF Still
<1>5. Waits'
  BY <1>1, <1>2 DEF Waits, Unprepared
<1>6. PreparedOnce'
  BY <1>1 DEF PreparedOnce
<1> QED
  BY <1>1, <1>3, <1>4, <1>5, <1>6

\* A call goes on, or begins.
LEMMA CallStep ==
  ASSUME Whole, NEW a, Apps = {a}, NEW x, Goto(a, x),
         x \notin {"handle"}, UNCHANGED <<mp_state, is>>,
         jobj'.mNativeMediaPlayer => jobj.mNativeMediaPlayer,
         pc[a] = "idle" => jobj.mNativeMediaPlayer,
         x \in JniOps \cup {"stop_abort", "reset"} => pc[a] \in JniOps \cup {"idle", "stop_abort"},
         pc[a] \in {"unweak", "unpeer"} => x = "unpeer" \/ ~jobj'.mNativeMediaPlayer
  PROVE  /\ \A l \in Loops : pc'[l] = pc[l]
         /\ (MutexFree <=> pc[a] # "stop_abort") /\ (MutexFree' <=> x # "stop_abort")
         /\ Behind => Behind'
<1> USE DEF Whole, IInv, ControlTypeOK
<1>1. a \in Threads /\ a \in Apps /\ a \notin Loops
  BY PlayerAssumption DEF PlayerAssumption, Threads
<1>2. \A t \in Threads : pc'[t] = IF t = a THEN x ELSE pc[t]
  BY DEF PcTypeOK, Goto
<1>3. /\ \A l \in Loops : pc'[l] = pc[l]
      /\ pc'[a] = x
  BY <1>1, <1>2 DEF Threads
<1>4. (MutexFree <=> pc[a] # "stop_abort") /\ (MutexFree' <=> x # "stop_abort")
  BY <1>3 DEF MutexFree
<1>5. Gone => Gone'
  <2> SUFFICES ASSUME Gone PROVE Gone'
    OBVIOUS
  <2>1. /\ pc[a] \in {"unweak", "unpeer"}
           \/ (~jobj.mNativeMediaPlayer /\ pc[a] \notin JniOps \cup {"stop_abort", "reset"})
    BY DEF Gone
  <2>2. CASE pc[a] \in {"unweak", "unpeer"}
    BY <1>3, <2>2 DEF Gone, JniOps
  <2>3. CASE ~jobj.mNativeMediaPlayer /\ pc[a] \notin JniOps \cup {"stop_abort", "reset"}
    BY <1>3, <2>3 DEF Gone, JniOps
  <2> QED
    BY <2>1, <2>2, <2>3
<1>6. Behind => Behind'
  BY <1>5 DEF Behind, Unopened
<1> QED
  BY <1>3, <1>4, <1>6

LEMMA EnterSession ==
  ASSUME Whole, life # "aborted", NEW a, Apps = {a},
         NEW op \in JniOps \cup {"shutdown", "reset"}, Enter(a, op)
  PROVE  QueueTypeOK' /\ Session'
<1>1. /\ pc[a] = "idle" /\ jobj.mNativeMediaPlayer /\ Goto(a, op)
      /\ UNCHANGED <<mp_state, mp, msg_queue, jobj, ffp, is, read, hand, life>>
  BY DEF Enter
<1>2. op # "handle" /\ op # "stop_abort"
  BY DEF JniOps
<1>3. /\ \A l \in Loops : pc'[l] = pc[l]
      /\ MutexFree' /\ (Behind => Behind')
  BY <1>1, <1>2, CallStep
<1>4. QueueTypeOK' /\ Adds({})
  BY <1>1, <1>3, QueueOperations DEF Whole
<1>5. Session'
  BY <1>1, <1>3, <1>4, AsideStep
<1> QED
  BY <1>4, <1>5

\* prepare_async starts the queue again and a message thread.
LEMMA PrepareFacts ==
  ASSUME Whole, NEW a, Apps = {a}, NEW l \in Loops, PrepareAsync(a, l)
  PROVE  /\ pc[a] = "prepare_async" /\ mp_state \in {"INITIALIZED", "STOPPED"}
         /\ mp'.restart = mp.restart /\ UNCHANGED <<jobj, ffp, hand>>
         /\ \A t \in Threads : pc'[t] = IF t = l THEN "begin" ELSE IF t = a THEN "dec" ELSE pc[t]
         /\ pc'[a] = "dec" /\ MutexFree' /\ ~Gone
         /\ QueueTypeOK' /\ Adds({"FLUSH"}) /\ ~msg_queue'.abort_request
<1>1. /\ pc[a] = "prepare_async" /\ mp_state \in {"INITIALIZED", "STOPPED"} /\ pc[l] = "none"
      /\ msg_queue' = StartQueue(msg_queue, Msg("FLUSH"))
      /\ mp' = [mp EXCEPT !.msg_thread = {l}]
      /\ pc' = [pc EXCEPT ![a] = "dec", ![l] = "begin"]
      /\ UNCHANGED <<jobj, ffp, hand>>
  BY DEF PrepareAsync
<1>2. \A t \in Threads : pc'[t] = IF t = l THEN "begin" ELSE IF t = a THEN "dec" ELSE pc[t]
  BY <1>1 DEF Whole, IInv, ControlTypeOK, PcTypeOK
<1>3. a \in Threads /\ a \notin Loops
  BY PlayerAssumption DEF PlayerAssumption, Threads
<1>4. /\ \A k \in Loops : pc'[k] = "handle" <=> pc[k] = "handle"
      /\ pc'[a] = "dec" /\ MutexFree' /\ ~Gone
  <2>1. pc'[a] = "dec"
    BY <1>2, <1>3
  <2>2. \A k \in Loops : pc'[k] = "handle" <=> pc[k] = "handle"
    <3>1. pc[l] = "none"
      BY <1>1
    <3>2. \A k \in Loops : k \in Threads /\ k # a
      BY <1>3 DEF Threads
    <3> QED
      BY <1>2, <3>1, <3>2
  <2>3. MutexFree'
    BY <2>1 DEF MutexFree
  <2>4. pc[a] \in JniOps /\ pc[a] \notin {"unweak", "unpeer"}
    BY <1>1 DEF JniOps
  <2>5. ~Gone
    BY <2>4 DEF Gone
  <2> QED
    BY <2>1, <2>2, <2>3, <2>5
<1>5. QueueTypeOK' /\ Adds({"FLUSH"}) /\ ~msg_queue'.abort_request
  <2>1. Msg("FLUSH") \in Message /\ Msg("FLUSH").what = "FLUSH"
    BY MessageTyping DEF Kinds
  <2>2. msg_queue \in Queue(Message)
    BY DEF Whole, QueueTypeOK
  <2>3. /\ msg_queue' \in Queue(Message) /\ ~msg_queue'.abort_request
        /\ \A what : Holds(msg_queue', what) <=> Holds(msg_queue, what) \/ "FLUSH" = what
        /\ Single(msg_queue, "PREPARED") => Single(msg_queue', "PREPARED")
    BY <1>1, <2>1, <2>2, StartFacts
  <2>4. \A what : Holds(msg_queue', what) => Holds(msg_queue, what) \/ what \in {"FLUSH"}
    BY <2>3
  <2> QED
    BY <1>1, <1>4, <2>3, <2>4, QueueStep DEF Whole
<1>6. mp'.restart = mp.restart
  BY <1>1 DEF Whole, IInv, ControlTypeOK, MpFields
<1> QED
  BY <1>1, <1>2, <1>4, <1>5, <1>6

LEMMA AppSession ==
  ASSUME Whole, life # "aborted", NEW a, Apps = {a}, AppStep(a)
  PROVE  QueueTypeOK' /\ Session'
<1>0. /\ is \in StreamFields /\ ffp \in FfpFields /\ jobj \in JavaFields /\ QueueTypeOK
      /\ Before /\ Behind /\ Still /\ Waits /\ PreparedOnce
  BY DEF Whole, IInv, ControlTypeOK, Session
\* The steps between the calls' beginnings and ends.
<1>a. ASSUME NEW x \in {"dec", "stop_abort"}, pc[a] \in JniOps \cup {"stop_abort", "reset"},
             Goto(a, x), UNCHANGED <<mp_state, is>>,
             jobj'.mNativeMediaPlayer => jobj.mNativeMediaPlayer,
             x = "stop_abort" => pc[a] \in JniOps
      PROVE  /\ \A l \in Loops : pc'[l] = pc[l]
             /\ (MutexFree <=> pc[a] # "stop_abort") /\ (MutexFree' <=> x # "stop_abort")
             /\ Behind => Behind'
  <2>1. /\ pc[a] \notin {"idle", "unweak", "unpeer"} /\ x # "handle"
        /\ x \notin JniOps \cup {"reset"}
    BY <1>a DEF JniOps
  <2> QED
    BY <1>a, <2>1, CallStep
<1>1. CASE SetDataSource(a)
  <2>1. /\ pc[a] \in JniOps /\ pc[a] # "stop_abort" /\ Goto(a, "dec")
        /\ mp_state' = IF mp_state = "IDLE" THEN "INITIALIZED" ELSE mp_state
        /\ UNCHANGED <<mp, msg_queue, jobj, ffp, is, read, hand, life>>
    BY <1>1 DEF SetDataSource, JniOps
  <2>2. /\ \A l \in Loops : pc'[l] = pc[l]
        /\ MutexFree' /\ (Gone => Gone')
    <3>1. \A t \in Threads : pc'[t] = IF t = a THEN "dec" ELSE pc[t]
      BY <2>1 DEF Whole, IInv, ControlTypeOK, PcTypeOK, Goto
    <3>2. a \in Threads /\ a \notin Loops
      BY PlayerAssumption DEF PlayerAssumption, Threads
    <3>3. pc'[a] = "dec" /\ \A l \in Loops : pc'[l] = pc[l]
      BY <3>1, <3>2 DEF Threads
    <3>4. MutexFree'
      BY <3>3 DEF MutexFree
    <3>5. ~Gone
      BY <2>1 DEF Gone, JniOps
    <3> QED
      BY <3>3, <3>4, <3>5
  <2>3. QueueTypeOK' /\ Adds({})
    BY <1>0, <2>1, <2>2, QueueOperations
  <2>4. Unopened' <=> Unopened
    BY <2>1 DEF Unopened
  <2>5. /\ \A what : Pending(what)' => Pending(what)
        /\ OnePrepared'
    BY <1>0, <2>3 DEF Adds, PreparedOnce
  <2>6. Before' /\ Behind'
    BY <1>0, <2>1, <2>2, <2>4, <2>5 DEF Before, Behind
  <2>7. Still'
    BY <1>0, <2>1, <2>2 DEF Still, MutexFree
  <2>8. Waits'
    BY <1>0, <2>1, <2>5 DEF Waits, Unprepared
  <2>9. PreparedOnce'
    BY <1>0, <2>1, <2>5 DEF PreparedOnce
  <2> QED
    BY <2>1, <2>3, <2>6, <2>7, <2>8, <2>9 DEF Session
<1>2. ASSUME NEW l \in Loops, PrepareAsync(a, l) PROVE QueueTypeOK' /\ Session'
  <2>1. /\ mp'.restart = mp.restart /\ UNCHANGED <<jobj, ffp, hand>>
        /\ pc'[a] = "dec" /\ MutexFree' /\ ~Gone
        /\ QueueTypeOK' /\ Adds({"FLUSH"})
    BY <1>2, PrepareFacts
  <2>2. CASE is.open
    <3>1. life' = "aborted" /\ mp_state' = "ASYNC_PREPARING"
      BY <1>2, <2>2 DEF PrepareAsync
    <3> QED
      BY <2>1, <3>1 DEF Session
  <2>3. CASE ~is.open
    <3>1. Unopened
      BY <1>0, <2>1, <2>3 DEF Behind
    <3>2. /\ life' = life
          /\ \A what \in Kinds \ {"FLUSH"} : ~Pending(what)'
          /\ OnePrepared' /\ ~mp'.restart /\ ~ffp'.auto_resume
      BY <1>0, <1>2, <2>1, <2>3, <3>1 DEF PrepareAsync, Adds, Before, PreparedOnce
    <3>3. ~Pending("PREPARED")' /\ ~Pending("COMPLETED")'
      BY <3>2 DEF Kinds
    <3>4. CASE /\ mp_state' = "ASYNC_PREPARING"
               /\ is' = [NoStream EXCEPT !.open = TRUE, !.pause_req = ~ffp.start_on_prepared]
               /\ read' = [pc |-> "open", completed |-> FALSE, errored |-> FALSE]
      <4>1. is'.open /\ (is'.pause_req <=> ~ffp.start_on_prepared) /\ read'.pc = "open"
        BY <1>0, <3>4 DEF NoStream, FfpFields
      <4>2. Before' /\ Behind'
        BY <3>4, <4>1 DEF Before, Behind, Unopened
      <4>3. Still'
        BY <2>1, <3>2, <3>4, <4>1 DEF Still
      <4>4. Waits' /\ PreparedOnce'
        BY <3>2, <3>3, <3>4, <4>1 DEF Waits, PreparedOnce, UnpreparedPcs
      <4> QED
        BY <2>1, <3>2, <4>2, <4>3, <4>4 DEF Session
    <3>5. CASE mp_state' = "ERROR" /\ UNCHANGED <<is, read>>
      <4>1. Before' /\ Behind'
        BY <1>0, <2>1, <2>3, <3>1, <3>2, <3>5 DEF Before, Behind, Unopened
      <4>2. Still' /\ Waits'
        BY <2>3, <3>5 DEF Still, Waits, Unprepared
      <4>3. PreparedOnce'
        BY <3>2, <3>3 DEF PreparedOnce
      <4> QED
        BY <2>1, <3>2, <3>5, <4>1, <4>2, <4>3 DEF Session
    <3> QED
      BY <1>2, <2>3, <3>4, <3>5 DEF PrepareAsync
  <2> QED
    BY <2>2, <2>3
<1>3. ASSUME NEW op \in JniOps, NEW what \in {"REQ_START", "REQ_PAUSE"}, RequestPlay(a, op, what)
      PROVE  QueueTypeOK' /\ Session'
  <2>1. /\ pc[a] \in JniOps /\ Goto(a, "dec") /\ Controllable
        /\ msg_queue' = Put(RemoveKind(RemoveKind(msg_queue, "REQ_START"), "REQ_PAUSE"), Msg(what))
        /\ UNCHANGED <<mp_state, mp, jobj, ffp, is, read, hand, life>>
    BY <1>3 DEF RequestPlay
  <2>2. (\A l \in Loops : pc'[l] = pc[l]) /\ MutexFree' /\ (Behind => Behind')
    BY <2>1, <1>a
  <2>3. QueueTypeOK' /\ Adds({what})
    BY <1>0, <2>1, <2>2, RequestQueue
  <2>4. Session'
    BY <2>1, <2>2, <2>3, AsideStep DEF Controllable, Unopened
  <2> QED
    BY <2>3, <2>4
<1>4. ASSUME NEW pos \in Positions, SeekTo(a, pos) PROVE QueueTypeOK' /\ Session'
  <2>1. /\ pc[a] \in JniOps /\ Goto(a, "dec") /\ Controllable
        /\ msg_queue' = Put(RemoveKind(msg_queue, "REQ_SEEK"), [what |-> "REQ_SEEK", arg1 |-> pos])
        /\ mp' = [mp EXCEPT !.seek_req = TRUE, !.seek_msec = pos]
        /\ UNCHANGED <<mp_state, jobj, ffp, is, read, hand, life>>
    BY <1>4 DEF SeekTo, JniOps
  <2>2. (\A l \in Loops : pc'[l] = pc[l]) /\ MutexFree' /\ (Behind => Behind')
    BY <2>1, <1>a
  <2>3. QueueTypeOK' /\ Adds({"REQ_SEEK"})
    BY <1>0, <2>1, <2>2, RequestQueue
  <2>4. mp'.restart = mp.restart
    BY <2>1 DEF Whole, IInv, ControlTypeOK, MpFields
  <2>5. Session'
    BY <2>1, <2>2, <2>3, <2>4, AsideStep DEF Controllable, Unopened
  <2> QED
    BY <2>3, <2>5
<1>5. CASE Stop(a)
  <2>1. /\ pc[a] \in JniOps /\ Goto(a, "stop_abort") /\ mp_state \in Stoppable
        /\ msg_queue' = RemoveKind(RemoveKind(msg_queue, "REQ_START"), "REQ_PAUSE")
        /\ StopStream
        /\ UNCHANGED <<mp_state, mp, jobj, read, hand, life>>
    BY <1>5 DEF Stop, JniOps
  <2>2. (\A l \in Loops : pc'[l] = pc[l]) /\ ~Gone
    <3>1. \A t \in Threads : pc'[t] = IF t = a THEN "stop_abort" ELSE pc[t]
      BY <2>1 DEF Whole, IInv, ControlTypeOK, PcTypeOK, Goto
    <3>2. a \notin Loops
      BY PlayerAssumption DEF PlayerAssumption
    <3> QED
      BY <2>1, <3>1, <3>2 DEF Threads, Gone, JniOps
  <2>3. QueueTypeOK' /\ Adds({})
    BY <1>0, <2>1, <2>2, RequestQueue
  <2>4. Behind'
    BY <1>0, <2>1, <2>2, ToggleFacts DEF Behind, Unopened
  <2>5. ~Unopened
    BY <2>1 DEF Unopened, Stoppable
  <2>6. Session'
    BY <2>1, <2>3, <2>4, <2>5, StoppingStep
  <2> QED
    BY <2>3, <2>6
<1>6. CASE StopAbort(a)
  <2>1. /\ pc[a] = "stop_abort" /\ Goto(a, "dec") /\ mp_state' = "STOPPED"
        /\ msg_queue' = Abort(msg_queue)
        /\ UNCHANGED <<mp, jobj, ffp, is, read, hand, life>>
    BY <1>6 DEF StopAbort
  <2>2. (\A l \in Loops : pc'[l] = pc[l]) /\ ~Gone /\ ~MutexFree
    <3>1. \A t \in Threads : pc'[t] = IF t = a THEN "dec" ELSE pc[t]
      BY <2>1 DEF Whole, IInv, ControlTypeOK, PcTypeOK, Goto
    <3>2. a \notin Loops
      BY PlayerAssumption DEF PlayerAssumption
    <3> QED
      BY <2>1, <3>1, <3>2 DEF Threads, Gone, JniOps, MutexFree
  <2>3. QueueTypeOK' /\ Adds({})
    BY <1>0, <2>1, <2>2, QueueOperations
  <2>4. ~Unopened /\ is.open
    BY <1>0, <2>2 DEF Before, Behind
  <2>5. Before' /\ Behind' /\ Still'
    BY <1>0, <2>1, <2>2, <2>4 DEF Before, Behind, Still, Unopened
  <2>6. Waits' /\ PreparedOnce'
    <3>1. (\A what : Pending(what)' => Pending(what)) /\ OnePrepared'
      BY <1>0, <2>3 DEF Adds, PreparedOnce
    <3> QED
      BY <1>0, <2>1, <3>1 DEF Waits, Unprepared, PreparedOnce
  <2> QED
    BY <2>1, <2>3, <2>5, <2>6 DEF Session
<1>7. ASSUME NEW op \in JniOps, NEW s, Refuse(a, op, s) PROVE QueueTypeOK' /\ Session'
  <2>1. /\ pc[a] \in JniOps /\ Goto(a, "dec")
        /\ UNCHANGED <<mp_state, mp, msg_queue, jobj, ffp, is, read, hand, life>>
    BY <1>7 DEF Refuse
  <2>2. (\A l \in Loops : pc'[l] = pc[l]) /\ MutexFree' /\ (Behind => Behind')
    BY <2>1, <1>a
  <2>3. QueueTypeOK' /\ Adds({})
    BY <1>0, <2>1, <2>2, QueueOperations
  <2>4. Session'
    BY <2>1, <2>2, <2>3, AsideStep
  <2> QED
    BY <2>3, <2>4
<1>8. ASSUME NEW x \in {"shutdown", "dec", "dec_old", "unpeer"},
             pc[a] \in {"reset", "unweak", "unpeer"},
             Goto(a, x), jobj'.mNativeMediaPlayer => jobj.mNativeMediaPlayer,
             pc[a] \in {"unweak", "unpeer"} => x = "unpeer" \/ ~jobj'.mNativeMediaPlayer,
             UNCHANGED <<mp_state, mp, msg_queue, ffp, is, read, hand, life>>
      PROVE  QueueTypeOK' /\ Session'
  <2>1. x \notin JniOps \cup {"stop_abort", "reset", "handle"}
    BY DEF JniOps
  <2>2. (\A l \in Loops : pc'[l] = pc[l]) /\ MutexFree' /\ (Behind => Behind')
    BY <1>8, <2>1, CallStep
  <2>3. QueueTypeOK' /\ Adds({})
    BY <1>0, <1>8, <2>2, QueueOperations
  <2>4. Session'
    BY <1>8, <2>2, <2>3, AsideStep
  <2> QED
    BY <2>3, <2>4
<1>9. CASE Reset(a)
  <2>1. jobj'.mNativeMediaPlayer => jobj.mNativeMediaPlayer
    BY <1>0, <1>9 DEF Reset, JavaFields
  <2> QED
    BY <1>8, <1>9, <2>1 DEF Reset
<1>10. CASE Unweak(a)
  <2>1. jobj'.mNativeMediaPlayer => jobj.mNativeMediaPlayer
    BY <1>0, <1>10 DEF Unweak, JavaFields
  <2> QED
    BY <1>8, <1>10, <2>1 DEF Unweak
<1>11. CASE Unpeer(a)
  <2>1. ~jobj'.mNativeMediaPlayer
    BY <1>0, <1>11 DEF Unpeer, JavaFields
  <2> QED
    BY <1>8, <1>11, <2>1 DEF Unpeer
<1>12. Start(a) \/ Pause(a) =>
         \E op \in JniOps : \E what \in {"REQ_START", "REQ_PAUSE"} : RequestPlay(a, op, what)
  BY DEF Start, Pause, JniOps
<1> QED
  BY <1>1, <1>2, <1>3, <1>4, <1>5, <1>6, <1>7, <1>9, <1>10, <1>11, <1>12 DEF AppStep, JniOps

\* Where a thread that drops a reference or shuts the player down goes next.
ThreadPcs ==
  {"dec", "dec_old", "idle", "return", "return_freed", "destroy", "unweak"} \cup ShutdownPcs

LEMMA ThreadMoves ==
  ASSUME Whole, NEW a, Apps = {a}, NEW t \in Threads, NEW x \in ThreadPcs,
         Goto(t, x), pc[t] \in {"dec", "dec_old", "destroy"} \cup ShutdownPcs,
         pc[t] \in {"idle", "unweak"} => x = "idle",
         jobj' = jobj
  PROVE  /\ \A l \in Loops : pc'[l] = "handle" <=> pc[l] = "handle"
         /\ MutexFree <=> MutexFree'
         /\ Gone => Gone'
<1> USE DEF Whole, IInv, ControlTypeOK
<1>1. \A u \in Threads : pc'[u] = IF u = t THEN x ELSE pc[u]
  BY DEF PcTypeOK, Goto
<1>2. /\ x \notin {"handle", "stop_abort", "reset", "unpeer"} \cup JniOps
      /\ pc[t] \notin {"handle", "stop_abort", "unweak", "unpeer"}
  BY DEF ThreadPcs, ShutdownPcs, JniOps
<1>3. \A l \in Loops : pc'[l] = "handle" <=> pc[l] = "handle"
  BY <1>1, <1>2 DEF Threads
<1>4. MutexFree <=> MutexFree'
  BY <1>1, <1>2 DEF MutexFree, Threads
<1>5. Gone => Gone'
  BY <1>1, <1>2 DEF Gone, Threads
<1> QED
  BY <1>3, <1>4, <1>5

LEMMA ThreadSession ==
  ASSUME Whole, life # "aborted", NEW a, Apps = {a}, NEW t \in Threads, ThreadStep(t)
  PROVE  QueueTypeOK' /\ Session'
<1>0. /\ is \in StreamFields /\ ffp \in FfpFields /\ jobj \in JavaFields /\ QueueTypeOK
      /\ Before /\ Behind /\ Still /\ Waits /\ PreparedOnce
  BY DEF Whole, IInv, ControlTypeOK, Session
<1>a. ASSUME NEW x \in ThreadPcs, Goto(t, x),
             pc[t] \in {"dec", "dec_old", "destroy"} \cup ShutdownPcs,
             UNCHANGED <<mp_state, mp, jobj, ffp, is, read, hand>>,
             msg_queue' \in {msg_queue, Abort(msg_queue)},
             life' # "aborted"
      PROVE  QueueTypeOK' /\ Session'
  <2>1. /\ \A l \in Loops : pc'[l] = "handle" <=> pc[l] = "handle"
        /\ MutexFree <=> MutexFree'
        /\ Gone => Gone'
    BY <1>a, ThreadMoves DEF ShutdownPcs
  <2>2. QueueTypeOK' /\ Adds({})
    BY <1>0, <1>a, <2>1, QueueOperations
  <2>3. Behind => Behind'
    BY <1>a, <2>1 DEF Behind, Unopened
  <2> QED
    BY <1>a, <2>1, <2>2, <2>3, AsideStep
<1>b. ASSUME NEW x \in ThreadPcs, Goto(t, x), pc[t] \in ShutdownPcs, StopStream,
             UNCHANGED <<mp_state, mp, jobj, read, hand, life>>,
             msg_queue' \in {msg_queue, Abort(msg_queue)}
      PROVE  QueueTypeOK' /\ Session'
  <2>1. /\ \A l \in Loops : pc'[l] = "handle" <=> pc[l] = "handle"
        /\ MutexFree <=> MutexFree'
        /\ Gone => Gone'
    BY <1>b, ThreadMoves DEF ShutdownPcs
  <2>2. QueueTypeOK' /\ Adds({})
    BY <1>0, <1>b, <2>1, QueueOperations
  <2>3. is'.open = is.open
    BY <1>0, <1>b, ToggleFacts
  <2>4. Behind => Behind'
    BY <1>b, <2>1, <2>3 DEF Behind, Unopened
  <2>5. Unopened => MutexFree'
    BY <1>0, <2>1 DEF Before
  <2> QED
    BY <1>b, <2>2, <2>4, <2>5, StoppingStep
<1>c. {"shutdown", "shutdown_abort", "shutdown_wait", "shutdown_join"} = ShutdownPcs
  BY DEF ShutdownPcs
<1>d. /\ {"shutdown", "shutdown_abort", "shutdown_wait", "shutdown_join",
           "dec", "dec_old", "idle", "return", "return_freed", "destroy",
           "unweak"} = ThreadPcs
      /\ AfterShutdown \in ThreadPcs /\ AfterDec(t) \in ThreadPcs
  BY DEF ShutdownPcs, ThreadPcs, AfterShutdown, AfterDec
<1>1. CASE DecRef(t)
  <2>1. (IF ref_count = 1 THEN "shutdown" ELSE AfterDec(t)) \in ThreadPcs
    BY <1>d
  <2> QED
    BY <1>1, <1>a, <2>1 DEF DecRef
<1>2. CASE Shutdown(t)
  BY <1>2, <1>b, <1>c, <1>d DEF Shutdown
<1>3. CASE ShutdownAbort(t)
  BY <1>3, <1>a, <1>c, <1>d DEF ShutdownAbort
<1>4. CASE ShutdownWait(t)
  <2>1. \E x \in ThreadPcs : Goto(t, x)
    BY <1>4, <1>d DEF ShutdownWait
  <2>2. msg_queue' \in {msg_queue, Abort(msg_queue)}
    BY <1>4 DEF ShutdownWait
  <2> QED
    BY <1>4, <1>b, <1>c, <2>1, <2>2 DEF ShutdownWait
<1>5. CASE ShutdownJoin(t)
  <2>1. /\ pc[t] = "shutdown_join" /\ read.pc = "exit" /\ is' = NoStream
        /\ read'.pc = "none" /\ Goto(t, AfterShutdown)
        /\ UNCHANGED <<mp_state, mp, msg_queue, ref_count, jobj, ffp, hand, life>>
    <3>1. read'.pc = "none"
      BY <1>5 DEF ShutdownJoin, Whole, IInv, ControlTypeOK, ReadFields
    <3> QED
      BY <1>5, <3>1 DEF ShutdownJoin
  <2>2. /\ \A l \in Loops : pc'[l] = "handle" <=> pc[l] = "handle"
        /\ MutexFree <=> MutexFree'
    BY <1>c, <1>d, <2>1, ThreadMoves
  <2>3. QueueTypeOK' /\ Adds({})
    BY <1>0, <2>1, <2>2, QueueOperations
  <2>4. Gone'
    <3>1. \A u \in Threads : pc'[u] = IF u = t THEN AfterShutdown ELSE pc[u]
      BY <2>1 DEF Whole, IInv, ControlTypeOK, PcTypeOK, Goto
    <3>2. a \in Threads
      BY PlayerAssumption DEF PlayerAssumption, Threads
    <3>3. CASE ref_count = 0
      <4>1. ~jobj.mNativeMediaPlayer /\ Holders = {}
        BY <3>3, NoneAtZero DEF Whole, IInv
      <4>2. ~Holding(a)
        BY <3>2, <4>1 DEF Holders
      <4>3. pc[a] \in OutsidePcs \cup {"destroy"} \cup ShutdownPcs
        BY <3>3, <4>2 DEF Holding, OutsidePcs
      <4>4. pc'[a] \in OutsidePcs \cup {"destroy"} \cup ShutdownPcs
        BY <3>1, <3>2, <3>3, <4>3 DEF AfterShutdown
      <4> QED
        BY <2>1, <4>1, <4>4 DEF Gone, JniOps, OutsidePcs, ShutdownPcs
    <3>4. CASE ref_count # 0
      <4>1. t = a
        BY <1>c, <2>1, <3>4 DEF Whole, IInv, ReaperAlone, Threads
      <4>2. pc'[a] = "unweak"
        BY <3>1, <3>2, <3>4, <4>1 DEF AfterShutdown
      <4> QED
        BY <4>2 DEF Gone
    <3> QED
      BY <3>3, <3>4
  <2>5. ~is'.open
    BY <2>1 DEF NoStream
  <2>6. /\ \A what : Pending(what)' => Pending(what)
        /\ OnePrepared'
    BY <1>0, <2>3 DEF Adds, PreparedOnce
  <2>7. Before'
    BY <1>0, <2>1, <2>2, <2>5, <2>6 DEF Before, Unopened
  <2>8. Behind' /\ Still' /\ Waits'
    BY <2>4, <2>5 DEF Behind, Still, Waits, Unprepared
  <2>9. PreparedOnce'
    BY <2>1, <2>6 DEF PreparedOnce
  <2> QED
    BY <2>1, <2>3, <2>7, <2>8, <2>9 DEF Session
<1>6. CASE Destroy(t)
  <2>1. (IF t \in Apps THEN "idle" ELSE "return_freed") \in ThreadPcs
    BY <1>d
  <2> QED
    BY <1>6, <1>a, <2>1 DEF Destroy, Free
<1> QED
  BY <1>1, <1>2, <1>3, <1>4, <1>5, <1>6 DEF ThreadStep

\* A message thread moves on.
LEMMA LoopMoves ==
  ASSUME IInv, NEW l \in Loops, NEW x \in LoopPcs, Goto(l, x), jobj' = jobj
  PROVE  /\ \A k \in Loops : k # l => pc'[k] = pc[k]
         /\ pc'[l] = x
         /\ MutexFree <=> MutexFree'
         /\ Gone <=> Gone'
<1> USE DEF IInv, ControlTypeOK
<1>1. \A u \in Threads : pc'[u] = IF u = l THEN x ELSE pc[u]
  BY DEF PcTypeOK, Goto
<1>2. \A u \in Apps : pc'[u] = pc[u]
  BY <1>1, PlayerAssumption DEF Threads, PlayerAssumption
<1> QED
  BY <1>1, <1>2 DEF MutexFree, Gone, Threads

\* A message is handled: what follows for the rest of the state is left to the cases.
LEMMA HandlerQueue ==
  ASSUME IInv, QueueTypeOK, NEW l \in Loops, NEW what, Handling(l, what),
         NEW x \in {"get", "post"}, Goto(l, x), UNCHANGED <<hand, jobj>>,
         msg_queue' \in {msg_queue, Put(msg_queue, Msg("COMPLETED"))}
  PROVE  /\ QueueTypeOK' /\ Adds({"COMPLETED"}) /\ \A k : k # what => Keeps(k)
         /\ msg_queue' = msg_queue => Adds({})
         /\ OnePrepared /\ what = "PREPARED" => ~Pending("PREPARED")'
         /\ MutexFree /\ MutexFree' /\ (Gone <=> Gone')
<1>1. QueueTypeOK /\ PcTypeOK /\ msg_queue \in Queue(Message)
  BY DEF IInv, ControlTypeOK, QueueTypeOK
<1>2. x \in LoopPcs /\ x # "handle"
  BY DEF LoopPcs
<1>3. MutexFree /\ MutexFree' /\ (Gone <=> Gone')
  BY <1>2, LoopMoves DEF Handling
<1>4. ASSUME NEW new, msg_queue' \in Queue(Message), "PREPARED" \notin new,
             \A k : Holds(msg_queue', k) => Holds(msg_queue, k) \/ k \in new,
             \A k : Holds(msg_queue, k) => Holds(msg_queue', k),
             Single(msg_queue, "PREPARED") => Single(msg_queue', "PREPARED")
      PROVE  /\ QueueTypeOK' /\ Adds(new) /\ \A k : k # what => Keeps(k)
             /\ OnePrepared /\ what = "PREPARED" => ~Pending("PREPARED")'
  BY <1>1, <1>2, <1>4, HandledStep
<1>5. CASE msg_queue' = msg_queue
  <2>1. /\ QueueTypeOK' /\ Adds({}) /\ \A k : k # what => Keeps(k)
        /\ OnePrepared /\ what = "PREPARED" => ~Pending("PREPARED")'
    BY <1>1, <1>4, <1>5
  <2>2. Adds({"COMPLETED"})
    BY <2>1 DEF Adds
  <2> QED
    BY <1>3, <2>1, <2>2
<1>6. CASE msg_queue' = Put(msg_queue, Msg("COMPLETED"))
  <2>1. Msg("COMPLETED") \in Message /\ Msg("COMPLETED").what = "COMPLETED"
    BY MessageTyping DEF Kinds
  <2>2. /\ msg_queue' \in Queue(Message)
        /\ \A k : Holds(msg_queue', k) => Holds(msg_queue, k) \/ k \in {"COMPLETED"}
        /\ \A k : Holds(msg_queue, k) => Holds(msg_queue', k)
        /\ Single(msg_queue, "PREPARED") => Single(msg_queue', "PREPARED")
    BY <1>1, <1>6, <2>1, PutFacts
  <2>3. /\ QueueTypeOK' /\ Adds({"COMPLETED"}) /\ \A k : k # what => Keeps(k)
        /\ OnePrepared /\ what = "PREPARED" => ~Pending("PREPARED")'
    BY <1>4, <2>2
  <2>4. msg_queue' # msg_queue \/ msg_queue' = msg_queue
    OBVIOUS
  <2> QED
    BY <1>3, <1>5, <2>1, <2>3
<1> QED
  BY <1>5, <1>6

\* A message is handled that a player still to be prepared does not get to.
LEMMA HandledSession ==
  ASSUME Whole, life # "aborted", life' # "aborted", NEW new, Adds(new),
         "PREPARED" \notin new, ~Unopened', ~Unopened, MutexFree', Gone <=> Gone',
         read' = read, is'.open = is.open, Still', ~Unprepared'
  PROVE  Session'
<1>1. Before /\ Behind /\ Still /\ Waits /\ PreparedOnce
  BY DEF Whole, Session
<1>2. Before' /\ Behind'
  BY <1>1 DEF Before, Behind
<1>3. Waits'
  BY DEF Waits
<1>4. PreparedOnce'
  <2>1. OnePrepared' /\ (Pending("PREPARED")' => Pending("PREPARED"))
    BY <1>1 DEF Adds, PreparedOnce
  <2> QED
    BY <1>1, <2>1 DEF PreparedOnce
<1> QED
  BY <1>1, <1>2, <1>3, <1>4 DEF Session

LEMMA LoopSession ==
  ASSUME Whole, life # "aborted", NEW l \in Loops, LoopStep(l)
  PROVE  QueueTypeOK' /\ Session'
<1>0. /\ is \in StreamFields /\ ffp \in FfpFields /\ mp \in MpFields /\ QueueTypeOK /\ IInv
      /\ PcTypeOK /\ Before /\ Behind /\ Still /\ Waits /\ PreparedOnce
  BY DEF Whole, IInv, ControlTypeOK, Session
<1>1. ASSUME NEW x \in {"get", "dec", "post", "exited"}, Goto(l, x), pc[l] # "handle",
             UNCHANGED <<mp_state, mp, msg_queue, jobj, ffp, is, read, hand, life>>
      PROVE  QueueTypeOK' /\ Session'
  <2>1. x \in LoopPcs /\ x # "handle"
    BY DEF LoopPcs
  <2>2. /\ \A k \in Loops : pc'[k] = "handle" <=> pc[k] = "handle"
        /\ MutexFree <=> MutexFree'
        /\ Gone <=> Gone'
    BY <1>0, <1>1, <2>1, LoopMoves
  <2>3. QueueTypeOK' /\ Adds({})
    BY <1>0, <1>1, <2>2, QueueOperations
  <2>4. Behind => Behind'
    BY <1>1, <2>2 DEF Behind, Unopened
  <2> QED
    BY <1>1, <2>2, <2>3, <2>4, AsideStep
<1>2. CASE LoopGet(l)
  <2>1. /\ QueueTypeOK' /\ Adds({}) /\ Goto(l, "handle")
        /\ UNCHANGED <<mp_state, mp, jobj, ffp, is, read, life>>
    BY <1>0, <1>2, TakeStep DEF LoopGet
  <2>2. "handle" \in LoopPcs
    BY DEF LoopPcs
  <2>3. (MutexFree <=> MutexFree') /\ (Gone <=> Gone')
    BY <1>0, <2>1, <2>2, LoopMoves
  <2>4. Behind => Behind'
    BY <2>1, <2>3 DEF Behind, Unopened
  <2> QED
    BY <2>1, <2>3, <2>4, AsideStep
\* A message is passed on, or not acted on.
<1>3. ASSUME NEW what, Handling(l, what), NEW x \in {"get", "post"}, Goto(l, x),
             mp'.restart => mp.restart,
             UNCHANGED <<mp_state, msg_queue, jobj, ffp, is, read, hand, life>>
      PROVE  QueueTypeOK' /\ Session'
  <2>1. /\ QueueTypeOK' /\ Adds({})
        /\ MutexFree /\ MutexFree' /\ (Gone <=> Gone')
    BY <1>0, <1>3, HandlerQueue
  <2>2. Behind => Behind'
    BY <1>3, <2>1 DEF Behind, Unopened
  <2> QED
    BY <1>3, <2>1, <2>2, AsideStep
\* What else can be in hand, and when.
<1>4. ASSUME NEW what, Handling(l, what)
      PROVE  /\ Pending(what)
             /\ what \in Kinds \ {"FLUSH"} => ~Unopened
             /\ what = "PREPARED" => read.pc \notin {"open", "prepared"}
             /\ what = "COMPLETED" => ~Unprepared
             /\ Controllable => ~Unprepared
  <2>1. Pending(what)
    BY <1>4 DEF Handling, Pending
  <2>2. Controllable => mp_state \notin {"ASYNC_PREPARING", "STOPPED"}
    BY DEF Controllable
  <2> QED
    BY <1>0, <2>1, <2>2 DEF Before, Waits, PreparedOnce
<1>a. {"PREPARED", "COMPLETED", "REQ_START", "REQ_PAUSE", "REQ_SEEK"} \subseteq Kinds \ {"FLUSH"}
  BY DEF Kinds
<1>5. CASE HandlePrepared(l)
  <2>1. /\ Handling(l, "PREPARED") /\ Goto(l, "post")
        /\ UNCHANGED <<mp, msg_queue, jobj, ffp, is, read, hand, life>>
        /\ mp_state' = IF ~ffp.start_on_prepared THEN "PAUSED"
                       ELSE IF mp_state = "ASYNC_PREPARING" THEN "PREPARED" ELSE mp_state
    BY <1>5 DEF HandlePrepared
  <2>2. /\ Pending("PREPARED") /\ ~Unopened /\ read.pc \notin {"open", "prepared"}
    BY <1>4, <1>a, <2>1
  <2>3. /\ QueueTypeOK' /\ Adds({}) /\ ~Pending("PREPARED")'
        /\ MutexFree /\ MutexFree' /\ (Gone <=> Gone')
    BY <1>0, <2>1, HandlerQueue DEF PreparedOnce
  <2>4. ~Unprepared' /\ ~Unopened'
    BY <2>1, <2>2, <2>3 DEF Unprepared, Unopened
  <2>5. Still'
    <3>1. is.open /\ ~ffp.start_on_prepared => is.pause_req /\ ~ffp.auto_resume
      BY <1>0, <2>2 DEF Waits, Unprepared, Still
    <3> QED
      BY <1>0, <2>1, <2>3, <3>1 DEF Still
  <2> QED
    BY <2>1, <2>2, <2>3, <2>4, <2>5, HandledSession
<1>6. CASE HandleCompleted(l)
  <2>1. /\ Handling(l, "COMPLETED") /\ Goto(l, "post") /\ mp_state' = "COMPLETED"
        /\ UNCHANGED <<msg_queue, jobj, ffp, is, read, hand, life>>
    BY <1>6 DEF HandleCompleted
  <2>2. ~Unopened /\ ~Unprepared
    BY <1>4, <1>a, <2>1
  <2>3. /\ QueueTypeOK' /\ Adds({})
        /\ MutexFree /\ MutexFree' /\ (Gone <=> Gone')
    BY <1>0, <2>1, HandlerQueue
  <2>4. ~Unprepared' /\ ~Unopened'
    BY <2>1, <2>2, <2>3 DEF Unprepared, Unopened, Adds
  <2>5. Still'
    BY <2>1, <2>3 DEF Still
  <2> QED
    BY <2>1, <2>2, <2>3, <2>4, <2>5, HandledSession
<1>7. CASE HandleSeekComplete(l)
  <2>1. mp'.restart = mp.restart
    BY <1>0, <1>7 DEF HandleSeekComplete, MpFields
  <2> QED
    BY <1>3, <1>7, <2>1 DEF HandleSeekComplete
<1>8. CASE HandleOther(l)
  BY <1>3, <1>8 DEF HandleOther
<1>9. CASE HandleStart(l)
  <2>1. /\ Handling(l, "REQ_START") /\ Goto(l, "get")
        /\ UNCHANGED <<msg_queue, jobj, read, hand, life>>
    BY <1>9 DEF HandleStart
  <2>2. mp'.restart => mp.restart
    BY <1>0, <1>9 DEF HandleStart, MpFields
  <2>3. CASE UNCHANGED <<mp_state, ffp, is>>
    BY <1>3, <2>1, <2>2, <2>3
  <2>4. CASE /\ Controllable /\ is.open /\ mp_state' = "STARTED"
             /\ \/ ffp' = [ffp EXCEPT !.auto_resume = TRUE] /\ StreamSeek
                \/ TogglePause(FALSE)
    <3>1. ~Unopened /\ ~Unprepared
      BY <1>4, <1>a, <2>1, <2>4
    <3>2. /\ QueueTypeOK' /\ Adds({})
          /\ MutexFree /\ MutexFree' /\ (Gone <=> Gone')
      BY <1>0, <2>1, HandlerQueue
    <3>3. is'.open = is.open /\ ffp'.start_on_prepared = ffp.start_on_prepared
      BY <1>0, <2>4, ToggleFacts DEF FfpFields
    <3>4. ~Unprepared' /\ ~Unopened' /\ Still'
      BY <2>1, <2>4, <3>1, <3>2, <3>3 DEF Unprepared, Unopened, Adds, Still
    <3> QED
      BY <2>1, <3>1, <3>2, <3>3, <3>4, HandledSession
  <2> QED
    BY <1>9, <2>3, <2>4 DEF HandleStart
<1>10. CASE HandlePause(l)
  <2>1. /\ Handling(l, "REQ_PAUSE") /\ Goto(l, "get")
        /\ UNCHANGED <<mp, msg_queue, jobj, read, hand, life>>
    BY <1>10 DEF HandlePause
  <2>2. CASE UNCHANGED <<mp_state, ffp, is>>
    BY <1>3, <2>1, <2>2
  <2>3. CASE Controllable /\ is.open /\ mp_state' = "PAUSED" /\ TogglePause(TRUE)
    <3>1. ~Unopened /\ ~Unprepared
      BY <1>4, <1>a, <2>1, <2>3
    <3>2. /\ QueueTypeOK' /\ Adds({})
          /\ MutexFree /\ MutexFree' /\ (Gone <=> Gone')
      BY <1>0, <2>1, HandlerQueue
    <3>3. /\ is'.open = is.open /\ ffp'.start_on_prepared = ffp.start_on_prepared
          /\ is'.pause_req /\ ~ffp'.auto_resume
      BY <1>0, <2>3, ToggleFacts
    <3>4. ~Unprepared' /\ ~Unopened' /\ Still'
      BY <2>1, <2>3, <3>1, <3>2, <3>3 DEF Unprepared, Unopened, Adds, Still
    <3> QED
      BY <2>1, <3>1, <3>2, <3>3, <3>4, HandledSession
  <2> QED
    BY <1>10, <2>2, <2>3 DEF HandlePause
<1>11. CASE HandleSeek(l)
  <2>1. /\ Handling(l, "REQ_SEEK") /\ Goto(l, "get")
        /\ UNCHANGED <<mp_state, jobj, read, hand, life>>
    BY <1>11 DEF HandleSeek
  <2>2. mp'.restart => mp.restart
    BY <1>0, <1>11 DEF HandleSeek, MpFields
  <2>3. CASE UNCHANGED <<msg_queue, ffp, is>>
    BY <1>3, <2>1, <2>2, <2>3
  <2>4. CASE /\ Controllable /\ is.open
             /\ \/ TogglePause(TRUE) /\ msg_queue' = Put(msg_queue, Msg("COMPLETED"))
                \/ StreamSeek /\ UNCHANGED <<msg_queue, ffp>>
    <3>1. ~Unopened /\ ~Unprepared
      BY <1>4, <1>a, <2>1, <2>4
    <3>2. /\ QueueTypeOK' /\ Adds({"COMPLETED"})
          /\ MutexFree /\ MutexFree' /\ (Gone <=> Gone')
      BY <1>0, <2>1, <2>4, HandlerQueue
    <3>3. /\ is'.open = is.open /\ ffp'.start_on_prepared = ffp.start_on_prepared
          /\ is.pause_req /\ ~ffp.auto_resume => is'.pause_req /\ ~ffp'.auto_resume
      BY <1>0, <2>4, ToggleFacts
    <3>4. ~Unprepared' /\ ~Unopened'
      BY <2>1, <3>1, <3>2, <3>3 DEF Unprepared, Unopened, Adds
    <3>5. Still'
      BY <1>0, <2>1, <3>2, <3>3 DEF Still
    <3> QED
      BY <2>1, <3>1, <3>2, <3>3, <3>4, <3>5, HandledSession
  <2> QED
    BY <1>11, <2>3, <2>4 DEF HandleSeek
<1> QED
  BY <1>1, <1>2, <1>5, <1>6, <1>7, <1>8, <1>9, <1>10, <1>11
     DEF LoopStep, LoopBegin, LoopAborted, LoopPost, LoopReturn

LEMMA ReadSession ==
  ASSUME Whole, life # "aborted", ReadStep \/ Drain \/ StepShown
  PROVE  QueueTypeOK' /\ Session'
<1> USE DEF UnpreparedPcs
<1>0. /\ is \in StreamFields /\ ffp \in FfpFields /\ read \in ReadFields /\ QueueTypeOK
      /\ Before /\ Behind /\ Still /\ Waits /\ PreparedOnce
  BY DEF Whole, IInv, ControlTypeOK, Session
<1>1. read.pc # "none" \/ is.open => ~Unopened
  BY <1>0 DEF Before
\* What a player still to be prepared has, and where its read thread is.
<1>2. Unprepared =>
        /\ is.pause_req /\ ~ffp.auto_resume /\ is.open /\ ~ffp.start_on_prepared
        /\ read.pc \in UnpreparedPcs
        /\ read.pc \in {"auto_resume", "loop"} => is.abort_request
  BY <1>0 DEF Waits, Unprepared, Still
<1>a. \A label \in ReadPcs : ReadGoto(label) => read'.pc = label
  BY <1>0 DEF ReadGoto, ReadFields
<1>b. ReadFrame => UNCHANGED <<hand, pc, life>>
  BY DEF ReadFrame
\* A step that leaves the queue alone, and one that puts a message in it.
<1>3. ASSUME ReadFrame, UNCHANGED msg_queue, ~Unopened,
             is'.open = is.open, ffp'.start_on_prepared = ffp.start_on_prepared,
             is.pause_req /\ ~ffp.auto_resume => is'.pause_req /\ ~ffp'.auto_resume,
             read'.pc \in {"open", "prepared"} => read.pc \in {"open", "prepared"},
             Unprepared =>
               /\ read'.pc \in UnpreparedPcs
               /\ read'.pc \in {"auto_resume", "loop"} => is'.abort_request
      PROVE  QueueTypeOK' /\ Session'
  <2>1. QueueTypeOK' /\ Adds({})
    BY <1>0, <1>3, <1>b, QueueOperations
  <2> QED
    BY <1>3, <2>1, StreamStep
<1>4. ASSUME ReadFrame, NEW k \in Kinds, msg_queue' = Put(msg_queue, Msg(k)), ~Unopened,
             UNCHANGED is, ffp'.start_on_prepared = ffp.start_on_prepared,
             ~ffp.auto_resume => ~ffp'.auto_resume,
             k = "PREPARED" => read.pc = "prepared",
             read'.pc \notin {"open", "prepared"},
             Unprepared =>
               /\ k # "COMPLETED"
               /\ read'.pc \in UnpreparedPcs
               /\ read'.pc \in {"auto_resume", "loop"} => is.abort_request
      PROVE  QueueTypeOK' /\ Session'
  <2>1. QueueTypeOK' /\ Adds({k})
    BY <1>0, <1>4, <1>b, QueueOperations
  <2> QED
    BY <1>4, <2>1, StreamStep
<1>5. CASE ReadOpen
  <2>1. /\ read.pc = "open" /\ ReadFrame /\ UNCHANGED msg_queue
        /\ UNCHANGED <<is, ffp>> \/ TogglePause(TRUE)
    BY <1>5 DEF ReadOpen, ReadAt
  <2>2. read'.pc \in {"prepared", "fail"}
    BY <1>5, <1>a DEF ReadOpen, ReadPcs
  <2>3. /\ is'.open = is.open /\ ffp'.start_on_prepared = ffp.start_on_prepared
        /\ is.pause_req /\ ~ffp.auto_resume => is'.pause_req /\ ~ffp'.auto_resume
    BY <1>0, <2>1, ToggleFacts
  <2> QED
    BY <1>1, <1>3, <2>1, <2>2, <2>3
<1>6. CASE ReadPrepared
  <2>1. /\ read.pc = "prepared" /\ ReadFrame /\ UNCHANGED is
        /\ msg_queue' = Put(msg_queue, Msg("PREPARED"))
        /\ ffp'.start_on_prepared = ffp.start_on_prepared /\ ffp'.auto_resume = ffp.auto_resume
    BY <1>0, <1>6 DEF ReadPrepared, ReadAt, FfpFields
  <2>2. /\ read'.pc \in {"auto_resume", "wait_start"}
        /\ ~ffp.start_on_prepared => read'.pc = "wait_start"
    BY <1>6, <1>a DEF ReadPrepared, ReadPcs
  <2>3. "PREPARED" \in Kinds
    BY DEF Kinds
  <2> QED
    BY <1>1, <1>2, <1>4, <2>1, <2>2, <2>3
<1>7. CASE ReadWaitStart
  <2>1. read'.pc = "auto_resume"
    BY <1>7, <1>a DEF ReadWaitStart, ReadPcs
  <2> QED
    BY <1>1, <1>2, <1>3, <1>7, <2>1 DEF ReadWaitStart, ReadAt
<1>8. CASE ReadAutoResume
  <2>1. CASE ffp.auto_resume
    <3>1. read'.pc = "resumed" /\ "REQ_START" \in Kinds
      BY <1>8, <1>a, <2>1 DEF ReadAutoResume, ReadPcs, Kinds
    <3> QED
      BY <1>1, <1>2, <1>4, <1>8, <2>1, <3>1 DEF ReadAutoResume, ReadAt
  <2>2. CASE ~ffp.auto_resume
    <3>1. read'.pc = "loop"
      BY <1>8, <1>a, <2>2 DEF ReadAutoResume, ReadPcs
    <3> QED
      BY <1>1, <1>2, <1>3, <1>8, <2>2, <3>1 DEF ReadAutoResume, ReadAt
  <2> QED
    BY <2>1, <2>2
\* Places a player still to be prepared is not at.
<1>9. CASE ReadLoop
  <2>1. /\ read.pc = "loop" /\ read'.pc \in {"fail", "seek", "body"}
        /\ is.abort_request => read'.pc = "fail"
    BY <1>9, <1>a DEF ReadLoop, ReadAt, ReadPcs
  <2> QED
    BY <1>1, <1>2, <1>3, <1>9, <2>1 DEF ReadLoop
<1>10. CASE ReadResumed \/ ReadComplete
  <2>1. /\ read.pc \in {"resumed", "body"} /\ ReadFrame /\ UNCHANGED <<msg_queue, is>>
        /\ ffp'.start_on_prepared = ffp.start_on_prepared /\ ~ffp'.auto_resume
    BY <1>0, <1>10 DEF ReadResumed, ReadComplete, ReadAt, FfpFields
  <2>2. read'.pc \in {"loop", "complete_pause"}
    BY <1>0, <1>10, <1>a DEF ReadResumed, ReadComplete, ReadPcs, ReadFields
  <2> QED
    BY <1>1, <1>2, <1>3, <2>1, <2>2
<1>11. CASE ReadSeek \/ ReadSeekDone
  <2>1. /\ read.pc \in {"seek", "seek_done"} /\ ReadFrame /\ UNCHANGED <<msg_queue, ffp>>
        /\ is'.open = is.open /\ is'.pause_req = is.pause_req
    BY <1>0, <1>11 DEF ReadSeek, ReadSeekDone, ReadAt, StreamFields
  <2>2. read'.pc \in {"seek_done", "seek_play"}
    BY <1>0, <1>11, <1>a DEF ReadSeek, ReadSeekDone, ReadPcs, ReadFields
  <2> QED
    BY <1>1, <1>2, <1>3, <2>1, <2>2
<1>12. CASE ReadSeekPlay
  <2>1. /\ read.pc = "seek_play" /\ ReadFrame /\ UNCHANGED msg_queue
        /\ ffp'.start_on_prepared = ffp.start_on_prepared /\ ~ffp'.auto_resume
        /\ is'.open = is.open /\ is'.pause_req = (is.pause_req /\ ~ffp.auto_resume)
    BY <1>0, <1>12 DEF ReadSeekPlay, ReadAt, FfpFields, StreamFields
  <2>2. read'.pc = "seek_notify"
    BY <1>12, <1>a DEF ReadSeekPlay, ReadPcs
  <2> QED
    BY <1>1, <1>2, <1>3, <2>1, <2>2
<1>13. CASE ReadSeekNotify
  <2>1. read'.pc = "body" /\ "SEEK_COMPLETE" \in Kinds
    BY <1>13, <1>a DEF ReadSeekNotify, ReadPcs, Kinds
  <2> QED
    BY <1>1, <1>2, <1>4, <1>13, <2>1 DEF ReadSeekNotify, ReadAt
<1>14. CASE ReadPacket \/ ReadIdle
  <2>1. read.pc = "body" /\ read'.pc = "loop"
    BY <1>14, <1>a DEF ReadPacket, ReadIdle, ReadPcs, ReadAt
  <2> QED
    BY <1>1, <1>2, <1>3, <1>14, <2>1 DEF ReadPacket, ReadIdle
<1>15. CASE ReadRewind
  <2>1. read.pc = "body" /\ read'.pc = "loop"
    BY <1>15, <1>a DEF ReadRewind, ReadPcs, ReadAt
  <2>2. /\ is'.pause_req = is.pause_req /\ is'.open = is.open
        /\ ffp'.start_on_prepared = ffp.start_on_prepared /\ ffp'.auto_resume = ffp.auto_resume
    BY <1>0, <1>15, ToggleFacts DEF ReadRewind, FfpFields
  <2> QED
    BY <1>1, <1>2, <1>3, <1>15, <2>1, <2>2 DEF ReadRewind
<1>16. CASE ReadCompletePause
  <2>1. read.pc = "complete_pause" /\ read'.pc = "complete_notify"
    BY <1>16, <1>a DEF ReadCompletePause, ReadPcs, ReadAt
  <2>2. /\ is'.pause_req /\ ~ffp'.auto_resume /\ is'.open = is.open
        /\ ffp'.start_on_prepared = ffp.start_on_prepared
    BY <1>0, <1>16, ToggleFacts DEF ReadCompletePause
  <2> QED
    BY <1>1, <1>2, <1>3, <1>16, <2>1, <2>2 DEF ReadCompletePause
<1>17. CASE ReadCompleteNotify
  <2>1. read.pc = "complete_notify" /\ read'.pc = "loop"
    BY <1>0, <1>17 DEF ReadCompleteNotify, ReadAt, ReadFields
  <2>2. /\ (IF ffp.error THEN "ERROR" ELSE "COMPLETED") \in Kinds
        /\ (IF ffp.error THEN "ERROR" ELSE "COMPLETED") # "PREPARED"
    BY DEF Kinds
  <2> QED
    BY <1>1, <1>2, <1>4, <1>17, <2>1, <2>2 DEF ReadCompleteNotify
<1>18. CASE ReadFail
  <2>1. read.pc = "fail" /\ read'.pc = "exit" /\ "ERROR" \in Kinds
    BY <1>18, <1>a DEF ReadFail, ReadAt, ReadPcs, Kinds
  <2>2. CASE UNCHANGED msg_queue
    BY <1>1, <1>2, <1>3, <1>18, <2>1, <2>2 DEF ReadFail
  <2>3. CASE msg_queue' = Put(msg_queue, Msg("ERROR"))
    BY <1>1, <1>2, <1>4, <1>18, <2>1, <2>3 DEF ReadFail
  <2> QED
    BY <1>18, <2>2, <2>3 DEF ReadFail
<1>19. CASE Drain
  <2>1. /\ is'.pause_req = is.pause_req /\ is'.open = is.open
        /\ is'.abort_request = is.abort_request
        /\ ffp'.start_on_prepared = ffp.start_on_prepared /\ ffp'.auto_resume = ffp.auto_resume
        /\ read' = read /\ read.pc # "none" /\ ReadFrame /\ UNCHANGED msg_queue
    BY <1>0, <1>19 DEF Drain, StreamFields, FfpFields
  <2> QED
    BY <1>1, <1>2, <1>3, <2>1
<1>20. CASE StepShown
  <2>1. /\ is'.pause_req = is.pause_req /\ is'.open = is.open
        /\ is'.abort_request = is.abort_request
        /\ UNCHANGED <<read, ffp, msg_queue>> /\ is.open /\ ReadFrame
    BY <1>0, <1>20 DEF StepShown, StreamFields
  <2> QED
    BY <1>1, <1>2, <1>3, <2>1
<1> QED
  BY <1>5, <1>6, <1>7, <1>8, <1>9, <1>10, <1>11, <1>12, <1>13, <1>14, <1>15, <1>16, <1>17,
     <1>18, <1>19, <1>20 DEF ReadStep

LEMMA InitSession == Init => Session
<1> SUFFICES ASSUME Init PROVE Session
  OBVIOUS
<1>1. /\ mp_state = "IDLE" /\ ~mp.restart /\ ~ffp.auto_resume /\ ~is.open /\ read.pc = "none"
      /\ life = "live" /\ pc = [t \in Threads |-> IF t \in Apps THEN "idle" ELSE "none"]
  BY DEF Init, NoStream
<1>2. Single(msg_queue, "PREPARED") /\ \A what : ~Pending(what)
  BY EmptyQueue
<1>3. MutexFree /\ \A l \in Loops : pc[l] # "handle"
  BY <1>1, PlayerAssumption DEF MutexFree, Threads, PlayerAssumption
<1> QED
  BY <1>1, <1>2, <1>3 DEF Session, Before, Behind, Still, Waits, Unprepared, PreparedOnce,
     OnePrepared, Unopened, InHand

LEMMA NextSession ==
  ASSUME NEW a, Apps = {a}, Whole, [Next]_vars PROVE Whole'
<1>1. IInv' /\ QueueTypeOK'
  BY NextIInv, QueueTypes DEF Whole
<1>2. CASE UNCHANGED vars
  <2>1. UNCHANGED <<mp_state, mp, msg_queue, jobj, ffp, is, read, pc, hand, life>>
    BY <1>2 DEF vars
  <2>2. /\ \A what : Pending(what)' <=> Pending(what)
        /\ OnePrepared' <=> OnePrepared
    BY <2>1 DEF Pending, OnePrepared, InHand, Holds, Single
  <2>3. (MutexFree' <=> MutexFree) /\ (Gone' <=> Gone)
    BY <2>1 DEF MutexFree, Gone
  <2>4. Session'
    BY <2>1, <2>2, <2>3 DEF Whole, Session, Before, Behind, Still, Waits, Unprepared,
       PreparedOnce, Unopened
  <2> QED
    BY <1>1, <2>4 DEF Whole
<1>3. CASE Step
  <2>1. life # "aborted"
    BY <1>3 DEF Step
  <2>2. ASSUME NEW b \in Apps, NEW op \in JniOps \cup {"shutdown", "reset"}, Enter(b, op)
        PROVE  Session'
    BY <2>1, <2>2, EnterSession
  <2>3. ASSUME NEW b \in Apps, AppStep(b) PROVE Session'
    BY <2>1, <2>3, AppSession
  <2>4. ASSUME NEW t \in Threads, ThreadStep(t) PROVE Session'
    BY <2>1, <2>4, ThreadSession
  <2>5. ASSUME NEW l \in Loops, LoopStep(l) PROVE Session'
    BY <2>1, <2>5, LoopSession
  <2>6. ASSUME ReadStep \/ Drain \/ StepShown PROVE Session'
    BY <2>1, <2>6, ReadSession
  <2> QED
    BY <1>1, <1>3, <2>2, <2>3, <2>4, <2>5, <2>6 DEF Step, Whole
<1> QED
  BY <1>1, <1>2, <1>3 DEF Next, Whole

\* One application thread: once a pause is handled, the stream stays asked to pause for
\* as long as the state says PAUSED.  Neither read_thread's auto_resume and its queued
\* FFP_REQ_START (ff_ffplay.c:3418) nor a message from before the pause undoes it.
THEOREM PauseHolds == ASSUME NEW a, Apps = {a} PROVE Spec => []PausedIsPaused
<1>1. Init => Whole
  BY InitIInv, EmptyQueue, InitSession DEF Whole
<1>2. Whole /\ [Next]_vars => Whole'
  BY NextSession
<1>3. Whole => PausedIsPaused
  BY DEF Whole, Session, Still, PausedIsPaused
<1> QED
  BY <1>1, <1>2, <1>3, PTL DEF Spec

--------------------------------------------------------------------------------
(* And no seek that completes at once: a player that says STARTED is running.  *)

\* Before the read thread's for (;;).
EarlyPcs == {"open", "prepared", "wait_start", "auto_resume", "resumed"}

\* Past ffp_stop_l's abort_request, with the queue or the stream still to go.
StoppingPcs == {"stop_abort", "shutdown_abort", "shutdown_wait", "shutdown_join"}

\* Nothing has completed yet that a start could restart.
NoRestartYet ==
  is.open /\ read.pc \in EarlyPcs =>
    ~Pending("COMPLETED") /\ ~mp.restart /\ ~(is.pause_req /\ ffp.auto_resume)

\* The queue is aborted after the stream, and the stream by who stops it.
AbortSeen == is.open /\ msg_queue.abort_request => is.abort_request
StopSeen == \A t \in Threads : is.open /\ pc[t] \in StoppingPcs => is.abort_request

\* What StartedIsRunning allows.
Excused ==
  \/ ffp.auto_resume /\ (is.seek_req \/ read.pc \in {"seek_done", "seek_play"})
  \/ read.pc \in {"complete_pause", "complete_notify"}
  \/ \E what \in {"COMPLETED", "REQ_START", "REQ_PAUSE"} : Pending(what)
  \/ read.errored

Halted == mp_state = "STARTED" /\ is.open /\ is.pause_req /\ ~is.abort_request

Running == NoRestartYet /\ AbortSeen /\ StopSeen /\ (Halted => Excused)

Runs == life # "aborted" => Running

LEMMA RunsMeans == (Halted => Excused) => StartedIsRunning
  BY DEF Halted, Excused, StartedIsRunning

\* A step that leaves the stream alone and loses none of the messages that excuse it.
LEMMA AsideRuns ==
  ASSUME Running, NEW new, Adds(new), "COMPLETED" \notin new,
         UNCHANGED <<ffp, is, read>>, mp'.restart => mp.restart,
         mp_state' = "STARTED" => mp_state = "STARTED",
         \/ Keeps("COMPLETED") /\ Keeps("REQ_START") /\ Keeps("REQ_PAUSE")
         \/ Pending("REQ_START")' \/ Pending("REQ_PAUSE")'
         \/ is.abort_request \/ mp_state' # "STARTED" \/ ~is.open,
         msg_queue'.abort_request =>
           msg_queue.abort_request \/ ~is.open \/ is.abort_request,
         \A t \in Threads : pc'[t] \in StoppingPcs =>
           pc[t] \in StoppingPcs \/ ~is.open \/ is.abort_request
  PROVE  Running'
<1>1. NoRestartYet'
  BY DEF Running, NoRestartYet, Adds
<1>2. AbortSeen' /\ StopSeen'
  BY DEF Running, AbortSeen, StopSeen
<1>3. Halted' => Excused'
  <2> SUFFICES ASSUME Halted' PROVE Excused'
    OBVIOUS
  <2>1. Halted /\ Excused
    BY DEF Running, Halted
  <2> QED
    BY <2>1 DEF Halted, Excused, Keeps
<1> QED
  BY <1>1, <1>2, <1>3 DEF Running

\* A stream that is being stopped, or is no longer there.
LEMMA StoppedRuns ==
  ASSUME Running, ~is'.open \/ is'.abort_request,
         NEW new, Adds(new), "COMPLETED" \notin new, mp'.restart => mp.restart,
         is'.open => is.open /\ read'.pc = read.pc /\ ~ffp'.auto_resume
  PROVE  Running'
<1>1. NoRestartYet'
  BY DEF Running, NoRestartYet, Adds
<1>2. AbortSeen' /\ StopSeen' /\ ~Halted'
  BY DEF AbortSeen, StopSeen, Halted
<1> QED
  BY <1>1, <1>2 DEF Running

\* A step of the read thread, or of the decoders.
LEMMA StreamRuns ==
  ASSUME Running, ReadFrame, NEW new, Adds(new),
         is'.open = is.open, is'.abort_request = is.abort_request,
         msg_queue'.abort_request = msg_queue.abort_request,
         is.open /\ read'.pc \in EarlyPcs =>
           /\ read.pc \in EarlyPcs /\ "COMPLETED" \notin new
           /\ is'.pause_req /\ ffp'.auto_resume => is.pause_req /\ ffp.auto_resume,
         Halted' => Excused'
  PROVE  Running'
<1>1. UNCHANGED <<mp, pc>>
  BY DEF ReadFrame
<1>2. NoRestartYet'
  BY <1>1 DEF Running, NoRestartYet, Adds
<1>3. AbortSeen' /\ StopSeen'
  BY <1>1 DEF Running, AbortSeen, StopSeen
<1> QED
  BY <1>2, <1>3 DEF Running

\* A message is handled.
LEMMA HandledRuns ==
  ASSUME Running, Adds({}), read' = read,
         is'.open = is.open, is'.abort_request = is.abort_request,
         msg_queue'.abort_request = msg_queue.abort_request,
         is.open /\ read.pc \in EarlyPcs =>
           /\ mp'.restart => mp.restart
           /\ is'.pause_req /\ ffp'.auto_resume => is.pause_req /\ ffp.auto_resume,
         \A t \in Threads : pc'[t] \in StoppingPcs => pc[t] \in StoppingPcs,
         Halted' => Excused'
  PROVE  Running'
<1>1. NoRestartYet'
  BY DEF Running, NoRestartYet, Adds
<1>2. AbortSeen' /\ StopSeen'
  BY DEF Running, AbortSeen, StopSeen
<1> QED
  BY <1>1, <1>2 DEF Running

LEMMA Aborts ==
  ASSUME NEW q \in Queue(Message)
  PROVE  /\ \A m \in Message : Put(q, m).abort_request = q.abort_request
         /\ \A k : RemoveKind(q, k).abort_request = q.abort_request
  BY PutFacts, RemoveFacts

LEMMA AppRuns ==
  ASSUME Whole, Running, life # "aborted", NEW a, Apps = {a},
         \/ \E op \in JniOps \cup {"shutdown", "reset"} : Enter(a, op)
         \/ AppStep(a)
  PROVE  Runs'
<1>0. /\ is \in StreamFields /\ ffp \in FfpFields /\ jobj \in JavaFields /\ mp \in MpFields
      /\ QueueTypeOK /\ msg_queue \in Queue(Message) /\ Before /\ Behind
      /\ a \in Threads /\ a \notin Loops
  BY PlayerAssumption
     DEF Whole, IInv, ControlTypeOK, Session, QueueTypeOK, PlayerAssumption, Threads
\* A call goes on with a queue that excuses what it did.
<1>a. ASSUME NEW x, Goto(a, x), x # "handle", pc[a] # "handle"
      PROVE  /\ \A l \in Loops : pc'[l] = "handle" <=> pc[l] = "handle"
             /\ x \notin StoppingPcs =>
                  \A t \in Threads : pc'[t] \in StoppingPcs => pc[t] \in StoppingPcs
  <2>1. \A t \in Threads : pc'[t] = IF t = a THEN x ELSE pc[t]
    BY <1>a DEF Whole, IInv, ControlTypeOK, PcTypeOK, Goto
  <2> QED
    BY <1>0, <2>1 DEF Threads
<1>b. ASSUME NEW x, Goto(a, x), x \notin StoppingPcs \cup {"handle"}, pc[a] # "handle",
             UNCHANGED <<mp_state, msg_queue, ffp, is, read, hand>>,
             mp'.restart = mp.restart
      PROVE  Running'
  <2>1. /\ \A l \in Loops : pc'[l] = "handle" <=> pc[l] = "handle"
        /\ \A t \in Threads : pc'[t] \in StoppingPcs => pc[t] \in StoppingPcs
    BY <1>a, <1>b
  <2>2. Adds({}) /\ \A what : Keeps(what)
    BY <1>0, <1>b, <2>1, QueueOperations
  <2> QED
    BY <1>b, <2>1, <2>2, AsideRuns
<1>1. CASE \E op \in JniOps \cup {"shutdown", "reset"} : Enter(a, op)
  <2>1. PICK op \in JniOps \cup {"shutdown", "reset"} : Enter(a, op)
    BY <1>1
  <2>2. op \notin StoppingPcs \cup {"handle"}
    BY DEF JniOps, StoppingPcs
  <2> QED
    BY <1>b, <2>1, <2>2 DEF Enter, Runs
<1>2. CASE SetDataSource(a)
  <2>1. /\ pc[a] = "set_data_source" /\ Goto(a, "dec")
        /\ UNCHANGED <<mp, msg_queue, ffp, is, read, hand>>
        /\ mp_state' = "STARTED" => mp_state = "STARTED"
    BY <1>2 DEF SetDataSource
  <2>2. /\ \A l \in Loops : pc'[l] = "handle" <=> pc[l] = "handle"
        /\ \A t \in Threads : pc'[t] \in StoppingPcs => pc[t] \in StoppingPcs
    BY <1>a, <2>1 DEF StoppingPcs
  <2>3. Adds({}) /\ \A what : Keeps(what)
    BY <1>0, <2>1, <2>2, QueueOperations
  <2> QED
    BY <2>1, <2>2, <2>3, AsideRuns DEF Runs
<1>3. ASSUME NEW l \in Loops, PrepareAsync(a, l) PROVE Runs'
  <2>1. /\ pc[a] = "prepare_async" /\ mp'.restart = mp.restart /\ ffp' = ffp
        /\ \A t \in Threads : pc'[t] = IF t = l THEN "begin" ELSE IF t = a THEN "dec" ELSE pc[t]
        /\ ~Gone /\ Adds({"FLUSH"}) /\ ~msg_queue'.abort_request
    BY <1>3, PrepareFacts
  <2>2. CASE is.open
    BY <1>3, <2>2 DEF PrepareAsync, Runs
  <2>3. CASE ~is.open /\ UNCHANGED is
    BY <2>1, <2>3, StoppedRuns DEF Runs
  <2>4. CASE /\ ~is.open /\ mp_state' = "ASYNC_PREPARING"
             /\ is' = [NoStream EXCEPT !.open = TRUE, !.pause_req = ~ffp.start_on_prepared]
    <3>1. /\ Unopened /\ ~mp.restart /\ ~ffp.auto_resume /\ ~Pending("COMPLETED")
      BY <1>0, <2>1, <2>4 DEF Before, Behind, Kinds
    <3>2. NoRestartYet'
      BY <2>1, <3>1 DEF NoRestartYet, Adds
    <3>3. AbortSeen' /\ ~Halted'
      BY <2>1, <2>4 DEF AbortSeen, Halted
    <3>4. ref_count # 0
      <4>1. Holding(a) => ref_count > 0
        BY <1>0, NoneAtZero DEF Whole, IInv
      <4> QED
        BY <2>1, <4>1 DEF Holding, OutsidePcs, ShutdownPcs
    <3>5. \A t \in Threads : pc'[t] \notin StoppingPcs
      <4>1. ASSUME NEW t \in Loops PROVE pc[t] \notin StoppingPcs
        <5>1. pc[t] \notin ShutdownPcs
          BY <3>4 DEF Whole, IInv, ReaperAlone
        <5>2. pc[t] # "stop_abort"
          BY DEF Whole, IInv, ControlTypeOK, PcTypeOK, LoopPcs, ShutdownPcs
        <5> QED
          BY <5>1, <5>2 DEF StoppingPcs, ShutdownPcs
      <4> QED
        BY <2>1, <4>1 DEF Threads, StoppingPcs
    <3> QED
      BY <3>2, <3>3, <3>5 DEF StopSeen, Running, Runs
  <2> QED
    BY <1>3, <2>2, <2>3, <2>4 DEF PrepareAsync
<1>4. ASSUME NEW op \in JniOps, NEW what \in {"REQ_START", "REQ_PAUSE"}, RequestPlay(a, op, what)
      PROVE  Runs'
  <2>1. /\ pc[a] \in JniOps /\ Goto(a, "dec")
        /\ msg_queue' = Put(RemoveKind(RemoveKind(msg_queue, "REQ_START"), "REQ_PAUSE"), Msg(what))
        /\ UNCHANGED <<mp_state, mp, ffp, is, read, hand>>
    BY <1>4 DEF RequestPlay
  <2>2. /\ \A l \in Loops : pc'[l] = "handle" <=> pc[l] = "handle"
        /\ \A t \in Threads : pc'[t] \in StoppingPcs => pc[t] \in StoppingPcs
    BY <1>a, <2>1 DEF StoppingPcs, JniOps
  <2>3. /\ Adds({what}) /\ Keeps("COMPLETED") /\ msg_queue'.abort_request = msg_queue.abort_request
        /\ IF msg_queue.abort_request THEN \A k : Keeps(k) ELSE Pending(what)'
    BY <1>0, <2>1, <2>2, RequestQueue
  <2>4. \/ Keeps("COMPLETED") /\ Keeps("REQ_START") /\ Keeps("REQ_PAUSE")
        \/ Pending("REQ_START")' \/ Pending("REQ_PAUSE")'
    BY <2>3
  <2> QED
    BY <2>1, <2>2, <2>3, <2>4, AsideRuns DEF Runs
<1>5. ASSUME NEW pos \in Positions, SeekTo(a, pos) PROVE Runs'
  <2>1. /\ pc[a] = "seek_to" /\ Goto(a, "dec")
        /\ msg_queue' = Put(RemoveKind(msg_queue, "REQ_SEEK"), [what |-> "REQ_SEEK", arg1 |-> pos])
        /\ UNCHANGED <<mp_state, ffp, is, read, hand>>
        /\ mp'.restart = mp.restart
    BY <1>0, <1>5 DEF SeekTo, MpFields
  <2>2. /\ \A l \in Loops : pc'[l] = "handle" <=> pc[l] = "handle"
        /\ \A t \in Threads : pc'[t] \in StoppingPcs => pc[t] \in StoppingPcs
    BY <1>a, <2>1 DEF StoppingPcs
  <2>3. /\ Adds({"REQ_SEEK"}) /\ msg_queue'.abort_request = msg_queue.abort_request
        /\ Keeps("COMPLETED") /\ Keeps("REQ_START") /\ Keeps("REQ_PAUSE")
    BY <1>0, <2>1, <2>2, RequestQueue
  <2> QED
    BY <2>1, <2>2, <2>3, AsideRuns DEF Runs
<1>6. CASE Stop(a)
  <2>1. /\ pc[a] = "stop" /\ Goto(a, "stop_abort") /\ StopStream
        /\ msg_queue' = RemoveKind(RemoveKind(msg_queue, "REQ_START"), "REQ_PAUSE")
        /\ UNCHANGED <<mp, read, hand>>
    BY <1>6 DEF Stop
  <2>2. \A l \in Loops : pc'[l] = "handle" <=> pc[l] = "handle"
    BY <1>a, <2>1
  <2>3. Adds({})
    BY <1>0, <2>1, <2>2, RequestQueue
  <2>4. /\ is'.open = is.open
        /\ is.open => is'.abort_request /\ ~ffp'.auto_resume
    BY <1>0, <2>1, ToggleFacts
  <2> QED
    BY <2>1, <2>3, <2>4, StoppedRuns DEF Runs
<1>7. CASE StopAbort(a)
  <2>1. /\ pc[a] = "stop_abort" /\ Goto(a, "dec") /\ msg_queue' = Abort(msg_queue)
        /\ mp_state' = "STOPPED" /\ UNCHANGED <<mp, ffp, is, read, hand>>
    BY <1>7 DEF StopAbort
  <2>2. /\ \A l \in Loops : pc'[l] = "handle" <=> pc[l] = "handle"
        /\ \A t \in Threads : pc'[t] \in StoppingPcs => pc[t] \in StoppingPcs
    BY <1>a, <2>1 DEF StoppingPcs
  <2>3. Adds({})
    BY <1>0, <2>1, <2>2, QueueOperations
  <2>4. ~is.open \/ is.abort_request
    BY <1>0, <2>1 DEF Running, StopSeen, StoppingPcs
  <2> QED
    BY <2>1, <2>2, <2>3, <2>4, AsideRuns DEF Runs
<1>8. ASSUME NEW op \in JniOps, NEW s, Refuse(a, op, s) PROVE Runs'
  <2>1. op # "handle" /\ "dec" \notin StoppingPcs \cup {"handle"}
    BY DEF JniOps, StoppingPcs
  <2> QED
    BY <1>8, <1>b, <2>1 DEF Refuse, Runs
<1>9. CASE Reset(a) \/ Unweak(a) \/ Unpeer(a)
  <2>1. /\ {"shutdown", "dec", "dec_old", "unpeer"} \cap (StoppingPcs \cup {"handle"}) = {}
    BY DEF StoppingPcs
  <2>2. \E x \in {"shutdown", "dec", "dec_old", "unpeer"} : Goto(a, x)
    BY <1>9 DEF Reset, Unweak, Unpeer
  <2> QED
    BY <1>9, <1>b, <2>1, <2>2 DEF Reset, Unweak, Unpeer, Runs
<1>10. Start(a) \/ Pause(a) =>
         \E op \in JniOps : \E what \in {"REQ_START", "REQ_PAUSE"} : RequestPlay(a, op, what)
  BY DEF Start, Pause, JniOps
<1> QED
  BY <1>1, <1>2, <1>3, <1>4, <1>5, <1>6, <1>7, <1>8, <1>9, <1>10 DEF AppStep, JniOps

LEMMA ThreadRuns ==
  ASSUME Whole, Running, life # "aborted", NEW a, Apps = {a}, NEW t \in Threads, ThreadStep(t)
  PROVE  Runs'
<1>0. is \in StreamFields /\ ffp \in FfpFields /\ QueueTypeOK
  BY DEF Whole, IInv, ControlTypeOK
<1>a. ASSUME NEW x \in ThreadPcs, Goto(t, x)
      PROVE  \A u \in Threads : pc'[u] = IF u = t THEN x ELSE pc[u]
  BY <1>a DEF Whole, IInv, ControlTypeOK, PcTypeOK, Goto
<1>b. ASSUME NEW x \in ThreadPcs, Goto(t, x), UNCHANGED hand,
             pc[t] \in {"dec", "dec_old", "destroy"} \cup ShutdownPcs,
             msg_queue' \in {msg_queue, Abort(msg_queue)}
      PROVE  Adds({}) /\ \A what : Keeps(what)
  <2>1. /\ x # "handle" /\ pc[t] # "handle"
    BY <1>b DEF ThreadPcs, ShutdownPcs
  <2>2. \A l \in Loops : pc'[l] = "handle" <=> pc[l] = "handle"
    BY <1>a, <1>b, <2>1 DEF Threads
  <2> QED
    BY <1>0, <1>b, <2>2, QueueOperations
<1>c. {"shutdown", "shutdown_abort", "shutdown_wait", "shutdown_join"} = ShutdownPcs
  BY DEF ShutdownPcs
<1>d. /\ {"shutdown", "shutdown_abort", "shutdown_wait", "shutdown_join",
           "dec", "dec_old", "idle", "return", "return_freed", "destroy",
           "unweak"} = ThreadPcs
      /\ AfterShutdown \in ThreadPcs
      /\ AfterDec(t) \in {"dec", "idle", "return"}
  BY DEF ShutdownPcs, ThreadPcs, AfterShutdown, AfterDec
\* The stream is stopped, or gone.
<1>e. ASSUME NEW x \in ThreadPcs, Goto(t, x), UNCHANGED <<mp, hand>>,
             pc[t] \in ShutdownPcs, msg_queue' \in {msg_queue, Abort(msg_queue)},
             (StopStream /\ read' = read) \/ ~is'.open
      PROVE  Running'
  <2>1. Adds({})
    BY <1>b, <1>e
  <2>2. /\ ~is'.open \/ is'.abort_request
        /\ is'.open => is.open /\ read'.pc = read.pc /\ ~ffp'.auto_resume
    BY <1>0, <1>e, ToggleFacts
  <2> QED
    BY <1>e, <2>1, <2>2, StoppedRuns
<1>1. CASE DecRef(t) \/ Destroy(t)
  <2>1. PICK x \in {"shutdown", "dec", "idle", "return", "return_freed"} : Goto(t, x)
    BY <1>1, <1>d DEF DecRef, Destroy, Free
  <2>2. x \in ThreadPcs /\ x \notin StoppingPcs
    BY <1>d DEF StoppingPcs
  <2>3. /\ UNCHANGED <<mp_state, mp, msg_queue, ffp, is, read, hand>>
        /\ pc[t] \in {"dec", "dec_old", "destroy"}
    BY <1>1 DEF DecRef, Destroy, Free
  <2>4. Adds({}) /\ \A what : Keeps(what)
    BY <1>b, <2>1, <2>2, <2>3
  <2>5. \A u \in Threads : pc'[u] \in StoppingPcs => pc[u] \in StoppingPcs
    BY <1>a, <2>1, <2>2
  <2> QED
    BY <2>3, <2>4, <2>5, AsideRuns DEF Runs
<1>2. CASE Shutdown(t)
  BY <1>2, <1>c, <1>d, <1>e DEF Shutdown, Runs
<1>3. CASE ShutdownAbort(t)
  <2>1. /\ pc[t] = "shutdown_abort" /\ Goto(t, "shutdown_wait") /\ msg_queue' = Abort(msg_queue)
        /\ UNCHANGED <<mp_state, mp, ffp, is, read, hand>>
    BY <1>3 DEF ShutdownAbort
  <2>2. Adds({}) /\ \A what : Keeps(what)
    BY <1>b, <1>c, <1>d, <2>1
  <2>3. ~is.open \/ is.abort_request
    BY <2>1 DEF Running, StopSeen, StoppingPcs
  <2> QED
    BY <2>1, <2>2, <2>3, AsideRuns DEF Runs
<1>4. CASE ShutdownWait(t)
  <2>1. \E x \in ThreadPcs : Goto(t, x)
    BY <1>4, <1>d DEF ShutdownWait
  <2>2. msg_queue' \in {msg_queue, Abort(msg_queue)}
    BY <1>4 DEF ShutdownWait
  <2> QED
    BY <1>4, <1>c, <1>e, <2>1, <2>2 DEF ShutdownWait, Runs
<1>5. CASE ShutdownJoin(t)
  <2>1. ~is'.open
    BY <1>5 DEF ShutdownJoin, NoStream
  <2> QED
    BY <1>5, <1>c, <1>d, <1>e, <2>1 DEF ShutdownJoin, Runs
<1> QED
  BY <1>1, <1>2, <1>3, <1>4, <1>5 DEF ThreadStep

LEMMA LoopRuns ==
  ASSUME Whole, Running, life # "aborted", PastEnd = {}, NEW l \in Loops, LoopStep(l)
  PROVE  Runs'
<1>0. /\ is \in StreamFields /\ ffp \in FfpFields /\ mp \in MpFields /\ PcTypeOK
      /\ QueueTypeOK /\ msg_queue \in Queue(Message) /\ IInv /\ l \in Threads
  BY DEF Whole, IInv, ControlTypeOK, QueueTypeOK, Threads
<1>a. ASSUME NEW x \in {"get", "dec", "post", "handle", "exited"}, Goto(l, x)
      PROVE  \A t \in Threads : pc'[t] \in StoppingPcs => pc[t] \in StoppingPcs
  <2>1. \A t \in Threads : pc'[t] = IF t = l THEN x ELSE pc[t]
    BY <1>0, <1>a DEF PcTypeOK, Goto
  <2> QED
    BY <2>1 DEF StoppingPcs
<1>1. ASSUME NEW x \in {"get", "dec", "post", "exited"}, Goto(l, x), pc[l] # "handle",
             UNCHANGED <<mp_state, mp, msg_queue, jobj, ffp, is, read, hand>>
      PROVE  Running'
  <2>1. x \in LoopPcs /\ x # "handle"
    BY DEF LoopPcs
  <2>2. \A k \in Loops : pc'[k] = "handle" <=> pc[k] = "handle"
    BY <1>0, <1>1, <2>1, LoopMoves
  <2>3. Adds({}) /\ \A what : Keeps(what)
    BY <1>0, <1>1, <2>2, QueueOperations
  <2>4. \A t \in Threads : pc'[t] \in StoppingPcs => pc[t] \in StoppingPcs
    BY <1>1, <1>a
  <2> QED
    BY <1>1, <2>3, <2>4, AsideRuns
<1>2. CASE LoopGet(l)
  <2>1. /\ Adds({}) /\ Goto(l, "handle") /\ \A what : Keeps(what)
        /\ UNCHANGED <<mp_state, mp, ffp, is, read>>
    BY <1>0, <1>2, TakeStep DEF LoopGet
  <2>2. msg_queue'.abort_request = msg_queue.abort_request
    BY <1>0, <1>2 DEF LoopGet, Queue
  <2>3. \A t \in Threads : pc'[t] \in StoppingPcs => pc[t] \in StoppingPcs
    BY <1>a, <2>1
  <2> QED
    BY <2>1, <2>2, <2>3, AsideRuns DEF Runs
\* A message is passed on, or not acted on; the last case is a request refused.
<1>3. ASSUME NEW what, Handling(l, what), NEW x \in {"get", "post"}, Goto(l, x),
             mp'.restart => mp.restart, mp_state' = "STARTED" => mp_state = "STARTED",
             UNCHANGED <<msg_queue, jobj, ffp, is, read, hand>>,
             \/ what \notin {"COMPLETED", "REQ_START", "REQ_PAUSE"}
             \/ mp_state' # "STARTED" \/ ~is.open
      PROVE  Running'
  <2>1. Adds({}) /\ \A k : k # what => Keeps(k)
    BY <1>0, <1>3, HandlerQueue
  <2>2. \A t \in Threads : pc'[t] \in StoppingPcs => pc[t] \in StoppingPcs
    BY <1>3, <1>a
  <2> QED
    BY <1>3, <2>1, <2>2, AsideRuns
<1>4. CASE HandlePrepared(l)
  BY <1>3, <1>4 DEF HandlePrepared, Runs
<1>5. CASE HandleCompleted(l)
  <2>1. /\ Handling(l, "COMPLETED") /\ Goto(l, "post") /\ mp_state' = "COMPLETED"
        /\ UNCHANGED <<msg_queue, jobj, ffp, is, read, hand>>
    BY <1>5 DEF HandleCompleted
  <2>2. Adds({})
    BY <1>0, <2>1, HandlerQueue
  <2>3. Pending("COMPLETED")
    BY <2>1 DEF Handling, Pending
  <2>4. ~(is.open /\ read.pc \in EarlyPcs)
    BY <2>3 DEF Running, NoRestartYet
  <2>5. \A t \in Threads : pc'[t] \in StoppingPcs => pc[t] \in StoppingPcs
    BY <1>a, <2>1
  <2>6. ~Halted'
    BY <2>1 DEF Halted
  <2> QED
    BY <2>1, <2>2, <2>4, <2>5, <2>6, HandledRuns DEF Runs
<1>6. CASE HandleSeekComplete(l)
  <2>1. mp'.restart = mp.restart
    BY <1>0, <1>6 DEF HandleSeekComplete, MpFields
  <2> QED
    BY <1>3, <1>6, <2>1 DEF HandleSeekComplete, Runs
<1>7. CASE HandleOther(l)
  BY <1>3, <1>7 DEF HandleOther, Runs
<1>8. CASE HandleStart(l)
  <2>1. /\ Handling(l, "REQ_START") /\ Goto(l, "get")
        /\ UNCHANGED <<msg_queue, jobj, read, hand>>
    BY <1>8 DEF HandleStart
  <2>2. mp'.restart => mp.restart
    BY <1>0, <1>8 DEF HandleStart, MpFields
  <2>3. CASE ~Controllable \/ ~is.open
    <3>1. UNCHANGED <<mp_state, ffp, is>> /\ (mp_state' # "STARTED" \/ ~is.open)
      BY <1>8, <2>3 DEF HandleStart, Controllable
    <3> QED
      BY <1>3, <2>1, <2>2, <3>1 DEF Runs
  <2>4. CASE Controllable /\ is.open
    <3>1. /\ mp_state' = "STARTED"
          /\ \/ mp.restart /\ ffp' = [ffp EXCEPT !.auto_resume = TRUE] /\ StreamSeek
             \/ TogglePause(FALSE)
      BY <1>8, <2>4 DEF HandleStart
    <3>2. Adds({})
      BY <1>0, <2>1, HandlerQueue
    <3>3. /\ is'.open = is.open /\ is'.abort_request = is.abort_request
          /\ ~is'.pause_req \/ (mp.restart /\ ffp'.auto_resume /\ is'.seek_req)
      BY <1>0, <3>1, ToggleFacts DEF FfpFields
    <3>4. Halted' => Excused'
      BY <3>3 DEF Halted, Excused
    <3>5. is.open /\ read.pc \in EarlyPcs => ~mp.restart
      BY DEF Running, NoRestartYet
    <3>6. \A t \in Threads : pc'[t] \in StoppingPcs => pc[t] \in StoppingPcs
      BY <1>a, <2>1
    <3> QED
      BY <2>1, <2>2, <3>2, <3>3, <3>4, <3>5, <3>6, HandledRuns DEF Runs
  <2> QED
    BY <2>3, <2>4
<1>9. CASE HandlePause(l)
  <2>1. /\ Handling(l, "REQ_PAUSE") /\ Goto(l, "get")
        /\ UNCHANGED <<mp, msg_queue, jobj, read, hand>>
    BY <1>9 DEF HandlePause
  <2>2. CASE ~Controllable \/ ~is.open
    <3>1. UNCHANGED <<mp_state, ffp, is>> /\ (mp_state' # "STARTED" \/ ~is.open)
      BY <1>9, <2>2 DEF HandlePause, Controllable
    <3> QED
      BY <1>3, <2>1, <3>1 DEF Runs
  <2>3. CASE Controllable /\ is.open
    <3>1. mp_state' = "PAUSED" /\ TogglePause(TRUE)
      BY <1>9, <2>3 DEF HandlePause
    <3>2. Adds({})
      BY <1>0, <2>1, HandlerQueue
    <3>3. /\ is'.open = is.open /\ is'.abort_request = is.abort_request /\ ~ffp'.auto_resume
      BY <1>0, <3>1, ToggleFacts
    <3>4. ~Halted' /\ \A t \in Threads : pc'[t] \in StoppingPcs => pc[t] \in StoppingPcs
      BY <1>a, <2>1, <3>1 DEF Halted
    <3> QED
      BY <2>1, <3>2, <3>3, <3>4, HandledRuns DEF Runs
  <2> QED
    BY <2>2, <2>3
<1>10. CASE HandleSeek(l)
  <2>1. /\ Handling(l, "REQ_SEEK") /\ Goto(l, "get")
        /\ UNCHANGED <<mp_state, jobj, read, hand>>
    BY <1>10 DEF HandleSeek
  <2>2. mp'.restart => mp.restart
    BY <1>0, <1>10 DEF HandleSeek, MpFields
  <2>3. CASE UNCHANGED <<msg_queue, ffp, is>>
    BY <1>3, <2>1, <2>2, <2>3 DEF Runs
  <2>4. CASE is.open /\ StreamSeek /\ UNCHANGED <<msg_queue, ffp>>
    <3>1. Adds({}) /\ \A k : k # "REQ_SEEK" => Keeps(k)
      BY <1>0, <2>1, <2>4, HandlerQueue
    <3>2. /\ is'.open = is.open /\ is'.abort_request = is.abort_request
          /\ is'.pause_req = is.pause_req /\ is'.seek_req
      BY <1>0, <2>4, ToggleFacts
    <3>3. \A t \in Threads : pc'[t] \in StoppingPcs => pc[t] \in StoppingPcs
      BY <1>a, <2>1
    <3>4. Halted' => Excused'
      BY <2>1, <2>4, <3>1, <3>2 DEF Running, Halted, Excused, Keeps
    <3> QED
      BY <2>1, <2>2, <2>4, <3>1, <3>2, <3>3, <3>4, HandledRuns DEF Runs
  <2> QED
    BY <1>10, <2>3, <2>4 DEF HandleSeek
<1> QED
  BY <1>1, <1>2, <1>4, <1>5, <1>6, <1>7, <1>8, <1>9, <1>10
     DEF LoopStep, LoopBegin, LoopAborted, LoopPost, LoopReturn, Runs

LEMMA ReadRuns ==
  ASSUME Whole, Running, life # "aborted", ReadStep \/ Drain \/ StepShown
  PROVE  Running'
<1>0. /\ is \in StreamFields /\ ffp \in FfpFields /\ read \in ReadFields /\ QueueTypeOK
      /\ msg_queue \in Queue(Message) /\ Waits
  BY DEF Whole, IInv, ControlTypeOK, Session, QueueTypeOK
<1>a. \A label \in ReadPcs : ReadGoto(label) => read'.pc = label /\ read'.errored = read.errored
  BY <1>0 DEF ReadGoto, ReadFields
<1>b. ReadFrame => UNCHANGED <<hand, pc, mp_state>>
  BY DEF ReadFrame
<1>c. Halted => Excused
  BY DEF Running
\* The queue is left alone, and nothing that excuses a halted player is undone; or it
\* is excused anyhow.
<1>1. ASSUME ReadFrame, UNCHANGED msg_queue,
             is'.open = is.open, is'.abort_request = is.abort_request,
             is.open /\ read'.pc \in EarlyPcs =>
               /\ read.pc \in EarlyPcs
               /\ is'.pause_req /\ ffp'.auto_resume => is.pause_req /\ ffp.auto_resume,
             \/ ~Halted'
             \/ read'.pc \in {"complete_pause", "complete_notify"}
             \/ /\ is'.pause_req => is.pause_req
                /\ ffp.auto_resume /\ (is.seek_req \/ read.pc \in {"seek_done", "seek_play"}) =>
                     ffp'.auto_resume /\ (is'.seek_req \/ read'.pc \in {"seek_done", "seek_play"})
                /\ read.pc \notin {"complete_pause", "complete_notify"}
                /\ read.errored => read'.errored
      PROVE  Running'
  <2>1. Adds({}) /\ \A what : Keeps(what)
    BY <1>0, <1>1, <1>b, QueueOperations
  <2>2. Halted' => Excused'
    <3> SUFFICES ASSUME Halted', read'.pc \notin {"complete_pause", "complete_notify"}
                 PROVE  Excused'
      BY DEF Excused
    <3>1. Halted
      BY <1>1, <1>b DEF Halted
    <3> QED
      BY <1>1, <1>c, <2>1, <3>1 DEF Excused, Keeps
  <2> QED
    BY <1>1, <2>1, <2>2, StreamRuns
\* A message is put in the queue.
<1>2. ASSUME ReadFrame, NEW k \in Kinds, msg_queue' = Put(msg_queue, Msg(k)), UNCHANGED is,
             ffp'.auto_resume = ffp.auto_resume,
             is.open /\ read'.pc \in EarlyPcs => read.pc \in EarlyPcs /\ k # "COMPLETED",
             read.pc \notin {"seek_done", "seek_play"},
             read.errored => read'.errored,
             \/ read.pc \notin {"complete_pause", "complete_notify"}
             \/ read'.errored
             \/ k = "COMPLETED"
      PROVE  Running'
  <2>1. Adds({k}) /\ (\A what : Keeps(what)) /\ (~msg_queue.abort_request => Pending(k)')
    BY <1>0, <1>2, <1>b, QueueOperations
  <2>2. msg_queue'.abort_request = msg_queue.abort_request
    BY <1>0, <1>2, MessageTyping, Aborts
  <2>3. Halted' => Excused'
    <3> SUFFICES ASSUME Halted' PROVE Excused'
      OBVIOUS
    <3>1. Halted /\ Excused /\ ~msg_queue.abort_request
      BY <1>2, <1>b, <1>c DEF Halted, Running, AbortSeen
    <3> QED
      BY <1>2, <2>1, <3>1 DEF Excused, Keeps
  <2> QED
    BY <1>2, <2>1, <2>2, <2>3, StreamRuns
<1>3. CASE ReadOpen
  <2>1. /\ read.pc = "open" /\ ReadFrame /\ UNCHANGED msg_queue
        /\ \/ UNCHANGED <<is, ffp>>
           \/ ~ffp.start_on_prepared /\ TogglePause(TRUE)
    BY <1>3 DEF ReadOpen, ReadAt
  <2>2. read'.pc \in {"prepared", "fail"} /\ read'.errored = read.errored
    BY <1>3, <1>a DEF ReadOpen, ReadPcs
  <2>3. CASE UNCHANGED <<is, ffp>>
    BY <1>1, <2>1, <2>2, <2>3 DEF EarlyPcs
  <2>4. CASE ~ffp.start_on_prepared /\ TogglePause(TRUE)
    <3>1. /\ is'.open = is.open /\ is'.abort_request = is.abort_request /\ ~ffp'.auto_resume
      BY <1>0, <2>4, ToggleFacts
    <3>2. ~Halted'
      BY <1>0, <1>b, <2>1, <2>4, <3>1 DEF Waits, Unprepared, Halted
    <3> QED
      BY <1>1, <2>1, <2>2, <3>1, <3>2 DEF EarlyPcs
  <2> QED
    BY <2>1, <2>3, <2>4
<1>4. CASE ReadPrepared
  <2>1. /\ read.pc = "prepared" /\ ReadFrame /\ UNCHANGED is
        /\ msg_queue' = Put(msg_queue, Msg("PREPARED")) /\ "PREPARED" \in Kinds
        /\ ffp'.auto_resume = ffp.auto_resume
    BY <1>0, <1>4 DEF ReadPrepared, ReadAt, FfpFields, Kinds
  <2>2. read'.pc \in {"auto_resume", "wait_start"} /\ read'.errored = read.errored
    BY <1>4, <1>a DEF ReadPrepared, ReadPcs
  <2> QED
    BY <1>2, <2>1, <2>2 DEF EarlyPcs
<1>5. CASE ReadWaitStart
  <2>1. read'.pc = "auto_resume" /\ read'.errored = read.errored
    BY <1>5, <1>a DEF ReadWaitStart, ReadPcs
  <2> QED
    BY <1>1, <1>5, <2>1 DEF ReadWaitStart, ReadAt, EarlyPcs
<1>6. CASE ReadAutoResume
  <2>1. /\ read.pc = "auto_resume" /\ ReadFrame /\ UNCHANGED <<is, ffp>>
        /\ UNCHANGED msg_queue \/ msg_queue' = Put(msg_queue, Msg("REQ_START"))
    BY <1>6 DEF ReadAutoResume, ReadAt
  <2>2. read'.pc \in {"resumed", "loop"} /\ read'.errored = read.errored
    BY <1>6, <1>a DEF ReadAutoResume, ReadPcs
  <2>3. "REQ_START" \in Kinds
    BY DEF Kinds
  <2> QED
    BY <1>1, <1>2, <2>1, <2>2, <2>3 DEF EarlyPcs
<1>7. CASE ReadResumed
  <2>1. /\ read.pc = "resumed" /\ ReadFrame /\ UNCHANGED <<msg_queue, is>>
        /\ read'.pc = "loop" /\ read'.errored = read.errored
    BY <1>7, <1>a DEF ReadResumed, ReadAt, ReadPcs
  <2>2. is.open /\ is.pause_req => ~ffp.auto_resume
    BY <2>1 DEF Running, NoRestartYet, EarlyPcs
  <2>3. Halted' => ~ffp.auto_resume
    BY <2>1, <2>2 DEF Halted
  <2> QED
    BY <1>1, <2>1, <2>3 DEF EarlyPcs
<1>8. CASE ReadLoop \/ ReadSeek \/ ReadSeekDone
  <2>1. /\ ReadFrame /\ UNCHANGED <<msg_queue, ffp>> /\ read.pc \in {"loop", "seek", "seek_done"}
        /\ is'.open = is.open /\ is'.abort_request = is.abort_request
        /\ is'.pause_req = is.pause_req
        /\ is'.seek_req = is.seek_req \/ read.pc = "seek_done"
    BY <1>0, <1>8 DEF ReadLoop, ReadSeek, ReadSeekDone, ReadAt, StreamFields
  <2>2. /\ read'.pc \in {"fail", "seek", "body", "seek_done", "seek_play"}
        /\ read'.errored = read.errored
        /\ read.pc = "seek_done" => read'.pc = "seek_play"
    BY <1>0, <1>8, <1>a DEF ReadLoop, ReadSeek, ReadSeekDone, ReadAt, ReadPcs, ReadFields
  <2> QED
    BY <1>1, <2>1, <2>2 DEF EarlyPcs
<1>9. CASE ReadSeekPlay
  <2>1. /\ read.pc = "seek_play" /\ ReadFrame /\ UNCHANGED msg_queue
        /\ is'.open = is.open /\ is'.abort_request = is.abort_request
        /\ is'.pause_req = (is.pause_req /\ ~ffp.auto_resume)
    BY <1>0, <1>9 DEF ReadSeekPlay, ReadAt, StreamFields
  <2>2. read'.pc = "seek_notify" /\ read'.errored = read.errored
    BY <1>9, <1>a DEF ReadSeekPlay, ReadPcs
  <2>3. Halted' => ~ffp.auto_resume
    BY <2>1 DEF Halted
  <2> QED
    BY <1>1, <2>1, <2>2, <2>3 DEF EarlyPcs
<1>10. CASE ReadSeekNotify
  <2>1. /\ read'.pc = "body" /\ read'.errored = read.errored /\ "SEEK_COMPLETE" \in Kinds
    BY <1>10, <1>a DEF ReadSeekNotify, ReadPcs, Kinds
  <2> QED
    BY <1>2, <1>10, <2>1 DEF ReadSeekNotify, ReadAt, EarlyPcs
<1>11. CASE ReadPacket \/ ReadIdle
  <2>1. read.pc = "body" /\ read'.pc = "loop" /\ read'.errored = read.errored
    BY <1>11, <1>a DEF ReadPacket, ReadIdle, ReadPcs, ReadAt
  <2> QED
    BY <1>1, <1>11, <2>1 DEF ReadPacket, ReadIdle, EarlyPcs
<1>12. CASE ReadRewind
  <2>1. read.pc = "body" /\ read'.pc = "loop" /\ read'.errored = read.errored
    BY <1>12, <1>a DEF ReadRewind, ReadPcs, ReadAt
  <2>2. /\ is'.pause_req = is.pause_req /\ is'.open = is.open /\ is'.seek_req
        /\ is'.abort_request = is.abort_request /\ ffp'.auto_resume = ffp.auto_resume
    BY <1>0, <1>12, ToggleFacts DEF ReadRewind, FfpFields
  <2> QED
    BY <1>1, <1>12, <2>1, <2>2 DEF ReadRewind, EarlyPcs
<1>13. CASE ReadComplete
  <2>1. read'.pc = "complete_pause"
    BY <1>0, <1>13 DEF ReadComplete, ReadFields
  <2> QED
    BY <1>1, <1>13, <2>1 DEF ReadComplete, EarlyPcs
<1>14. CASE ReadCompletePause
  <2>1. read'.pc = "complete_notify"
    BY <1>14, <1>a DEF ReadCompletePause, ReadPcs
  <2>2. is'.open = is.open /\ is'.abort_request = is.abort_request
    BY <1>0, <1>14, ToggleFacts DEF ReadCompletePause
  <2> QED
    BY <1>1, <1>14, <2>1, <2>2 DEF ReadCompletePause, EarlyPcs
<1>15. CASE ReadCompleteNotify
  <2>1. /\ read.pc = "complete_notify" /\ read'.pc = "loop"
        /\ read'.errored = (read.errored \/ ffp.error)
    BY <1>0, <1>15 DEF ReadCompleteNotify, ReadAt, ReadFields
  <2>2. \E k \in {"ERROR", "COMPLETED"} :
          /\ msg_queue' = Put(msg_queue, Msg(k)) /\ (k = "ERROR" => ffp.error)
    BY <1>15 DEF ReadCompleteNotify
  <2>3. {"ERROR", "COMPLETED"} \subseteq Kinds
    BY DEF Kinds
  <2> QED
    BY <1>2, <1>15, <2>1, <2>2, <2>3 DEF ReadCompleteNotify, EarlyPcs
<1>16. CASE ReadFail
  <2>1. /\ read.pc = "fail" /\ read'.pc = "exit" /\ read'.errored = read.errored
        /\ "ERROR" \in Kinds
    BY <1>16, <1>a DEF ReadFail, ReadAt, ReadPcs, Kinds
  <2>2. CASE UNCHANGED msg_queue
    BY <1>1, <1>16, <2>1, <2>2 DEF ReadFail, EarlyPcs
  <2>3. CASE msg_queue' = Put(msg_queue, Msg("ERROR"))
    BY <1>2, <1>16, <2>1, <2>3 DEF ReadFail, EarlyPcs
  <2> QED
    BY <1>16, <2>2, <2>3 DEF ReadFail
<1>17. CASE Drain
  <2>1. /\ is'.pause_req = is.pause_req /\ is'.open = is.open /\ is'.seek_req = is.seek_req
        /\ is'.abort_request = is.abort_request /\ ffp'.auto_resume = ffp.auto_resume
        /\ read' = read /\ read.pc \in {"loop", "seek", "body"}
        /\ ReadFrame /\ UNCHANGED msg_queue
    BY <1>0, <1>17 DEF Drain, StreamFields, FfpFields
  <2> QED
    BY <1>1, <2>1 DEF EarlyPcs
<1>18. CASE StepShown
  <2>1. /\ is'.pause_req = is.pause_req /\ is'.open = is.open /\ is'.seek_req = is.seek_req
        /\ is'.abort_request = is.abort_request
        /\ UNCHANGED <<read, ffp, msg_queue>> /\ ReadFrame
    BY <1>0, <1>18 DEF StepShown, StreamFields
  <2> QED
    BY <1>1, <2>1
<1> QED
  BY <1>3, <1>4, <1>5, <1>6, <1>7, <1>8, <1>9, <1>10, <1>11, <1>12, <1>13, <1>14, <1>15, <1>16,
     <1>17, <1>18 DEF ReadStep

LEMMA NextRuns ==
  ASSUME NEW a, Apps = {a}, PastEnd = {}, Whole, Runs, [Next]_vars PROVE Runs'
<1>1. CASE UNCHANGED vars
  <2>1. UNCHANGED <<mp_state, mp, msg_queue, ffp, is, read, pc, hand, life>>
    BY <1>1 DEF vars
  <2>2. \A what : Pending(what)' <=> Pending(what)
    BY <2>1 DEF Pending, Holds
  <2> QED
    BY <2>1, <2>2 DEF Runs, Running, NoRestartYet, AbortSeen, StopSeen, Halted, Excused
<1>2. CASE Step
  <2>1. life # "aborted" /\ Running
    BY <1>2 DEF Step, Runs
  <2>2. ASSUME NEW b \in Apps, NEW op \in JniOps \cup {"shutdown", "reset"}, Enter(b, op)
        PROVE  Runs'
    BY <2>1, <2>2, AppRuns
  <2>3. ASSUME NEW b \in Apps, AppStep(b) PROVE Runs'
    BY <2>1, <2>3, AppRuns
  <2>4. ASSUME NEW t \in Threads, ThreadStep(t) PROVE Runs'
    BY <2>1, <2>4, ThreadRuns
  <2>5. ASSUME NEW l \in Loops, LoopStep(l) PROVE Runs'
    BY <2>1, <2>5, LoopRuns
  <2>6. ASSUME ReadStep \/ Drain \/ StepShown PROVE Runs'
    BY <2>1, <2>6, ReadRuns DEF Runs
  <2> QED
    BY <1>2, <2>2, <2>3, <2>4, <2>5, <2>6 DEF Step
<1> QED
  BY <1>1, <1>2 DEF Next

LEMMA InitRuns == Init => Runs
  BY DEF Init, NoStream, Runs, Running, NoRestartYet, AbortSeen, StopSeen, Halted

\* One application thread, and no seek that completes at once: a state that says
\* STARTED over a stream asked to pause is about to change; no start() is lost between
\* ijkmp_get_msg and read_thread, whatever the application does meanwhile.
THEOREM StartHolds ==
  ASSUME NEW a, Apps = {a}, PastEnd = {} PROVE Spec => []StartedIsRunning
<1>1. Init => Whole /\ Runs
  BY InitIInv, EmptyQueue, InitSession, InitRuns DEF Whole
<1>2. Whole /\ Runs /\ [Next]_vars => Whole' /\ Runs'
  BY NextSession, NextRuns
<1>3. Whole /\ Runs => StartedIsRunning
  <2>1. life = "aborted" /\ Whole => mp_state = "ASYNC_PREPARING"
    BY DEF Whole, Session
  <2> QED
    BY <2>1, RunsMeans DEF Runs, Running, StartedIsRunning
<1> QED
  BY <1>1, <1>2, <1>3, PTL DEF Spec

--------------------------------------------------------------------------------
(* A seek that is asked for is on its way: what of SeekIsAnswered is safety.    *)

SeekMsg(pos) == [what |-> "REQ_SEEK", arg1 |-> pos]

Has(q, m) == \E i \in DOMAIN q.msgs : q.msgs[i] = m

\* FFP_REQ_SEEK for this target is in the queue or in a message thread's hand.
Requested(pos) ==
  \/ Has(msg_queue, SeekMsg(pos))
  \/ \E l \in Loops : pc[l] = "handle" /\ hand[l] = SeekMsg(pos)

\* The target that ijkmp_get_current_position reports is being sought: its own request
\* waits to be handled and will be accepted, or the stream has a request and a read
\* thread that comes to it, or that thread is about to report, or the report waits.
SeekOnItsWay ==
  mp.seek_req /\ mp.seek_msec \notin PastEnd /\ is.open /\ ~is.abort_request
    /\ life # "aborted"
  => \/ Requested(mp.seek_msec) /\ Controllable
     \/ is.seek_req /\ read.pc \notin {"none", "fail", "exit"}
     \/ read.pc \in {"seek_play", "seek_notify"}
     \/ Pending("SEEK_COMPLETE")

\* Before the stream is opened, or when it could not be.
OpeningPcs == {"open", "prepared", "fail", "exit"}

\* A stream nobody stops is being prepared until it is, and takes seeks after that.
Seekable ==
  is.open /\ ~is.abort_request =>
    /\ read.pc \in OpeningPcs => /\ mp_state = "ASYNC_PREPARING" /\ ~mp.seek_req
                                 /\ ~Pending("PREPARED") /\ ~Pending("COMPLETED")
    /\ mp.seek_req => Controllable

Sought ==
  mp.seek_req /\ mp.seek_msec \notin PastEnd /\ is.open /\ ~is.abort_request
  => \/ Requested(mp.seek_msec)
     \/ is.seek_req
     \/ read.pc \in {"seek_play", "seek_notify"}
     \/ Pending("SEEK_COMPLETE")

Seeking ==
  /\ HasReader /\ AbortSeen /\ StopSeen
  /\ Unopened => ~mp.seek_req
  /\ Seekable /\ Sought

Seeks == life # "aborted" => Seeking

\* What the queue's operations do to one message.
LEMMA PutHas ==
  ASSUME NEW q \in Queue(Message), NEW m \in Message
  PROVE  /\ \A x : Has(q, x) => Has(Put(q, m), x)
         /\ ~q.abort_request => Has(Put(q, m), m)
<1>1. CASE q.abort_request
  BY <1>1 DEF Put
<1>2. CASE ~q.abort_request
  <2> DEFINE s == q.msgs
  <2>1. s \in Seq(Message) /\ Put(q, m).msgs = Append(s, m)
    BY <1>2 DEF Put, Queue
  <2> HIDE DEF s
  <2>2. /\ DOMAIN s = 1..Len(s) /\ DOMAIN Append(s, m) = 1..(Len(s) + 1) /\ Len(s) \in Nat
        /\ \A i \in 1..Len(s) : Append(s, m)[i] = s[i]
        /\ Append(s, m)[Len(s) + 1] = m
    BY <2>1
  <2> QED
    BY <2>1, <2>2 DEF Has, s
<1> QED
  BY <1>1, <1>2

LEMMA RemoveHas ==
  ASSUME NEW q \in Queue(Message), NEW kind, NEW x, x.what # kind, Has(q, x)
  PROVE  Has(RemoveKind(q, kind), x)
<1>1. CASE q.abort_request
  BY <1>1 DEF RemoveKind
<1>2. CASE ~q.abort_request
  <2> DEFINE s == q.msgs
             kept == Without(s, kind)
  <2>1. s \in Seq(Message) /\ RemoveKind(q, kind).msgs = kept
    BY <1>2 DEF RemoveKind, Queue
  <2>2. kept \in Seq(Message) /\ \E at : Sifts(kept, s, kind, Len(s), at)
    BY <2>1, WithoutSifts
  <2> HIDE DEF s, kept
  <2>3. PICK at : Sifts(kept, s, kind, Len(s), at)
    BY <2>2
  <2>4. PICK k \in 1..Len(s) : s[k] = x
    BY <2>1 DEF Has, s
  <2>5. PICK i \in 1..Len(kept) : at[i] = k
    BY <2>3, <2>4 DEF Sifts
  <2>6. kept[i] = x
    BY <2>3, <2>4, <2>5 DEF Sifts
  <2> QED
    BY <2>1, <2>2, <2>6 DEF Has
<1> QED
  BY <1>1, <1>2

LEMMA TakeHas ==
  ASSUME NEW q \in Queue(Message), q.msgs # <<>>, NEW x, Has(q, x)
  PROVE  x = Head(q.msgs) \/ Has([q EXCEPT !.msgs = Tail(@)], x)
<1> DEFINE s == q.msgs
<1>1. s \in Seq(Message) /\ [q EXCEPT !.msgs = Tail(@)].msgs = Tail(s)
  BY DEF Queue
<1>2. s # <<>>
  OBVIOUS
<1> HIDE DEF s
<1>3. /\ DOMAIN s = 1..Len(s) /\ DOMAIN Tail(s) = 1..(Len(s) - 1) /\ Len(s) \in Nat
      /\ Head(s) = s[1] /\ \A i \in 1..(Len(s) - 1) : Tail(s)[i] = s[i + 1]
  <2>1. /\ DOMAIN s = 1..Len(s) /\ DOMAIN Tail(s) = 1..(Len(s) - 1) /\ Len(s) \in Nat
        /\ Head(s) = s[1]
    BY <1>1, <1>2
  <2>2. \A i \in 1..(Len(s) - 1) : Tail(s)[i] = s[i + 1]
    BY <1>1, <1>2
  <2> QED
    BY <2>1, <2>2
<1>4. PICK k \in 1..Len(s) : s[k] = x
  BY <1>3 DEF Has, s
<1>5. CASE k = 1
  BY <1>3, <1>4, <1>5 DEF s
<1>6. CASE k # 1
  <2>1. k - 1 \in 1..(Len(s) - 1) /\ Tail(s)[k - 1] = x
    BY <1>3, <1>4, <1>6
  <2> QED
    BY <1>1, <1>3, <2>1 DEF Has
<1> QED
  BY <1>5, <1>6 DEF s

\* Requests stay where they are unless they are handled.
LEMMA StaysRequested ==
  ASSUME NEW pos, Requested(pos),
         Has(msg_queue, SeekMsg(pos)) => Has(msg_queue', SeekMsg(pos)),
         \A l \in Loops : pc[l] = "handle" /\ hand[l] = SeekMsg(pos)
           => pc'[l] = "handle" /\ hand'[l] = hand[l]
  PROVE  Requested(pos)'
  BY DEF Requested, SeekMsg

LEMMA QueueKeepsSeeks ==
  ASSUME QueueTypeOK
  PROVE  /\ \A k \in Kinds : msg_queue' \in {msg_queue, Put(msg_queue, Msg(k)), Abort(msg_queue)}
              => \A pos : Has(msg_queue, SeekMsg(pos)) => Has(msg_queue', SeekMsg(pos))
         /\ \A k \in {"REQ_START", "REQ_PAUSE"} :
              msg_queue' = Put(RemoveKind(RemoveKind(msg_queue, "REQ_START"), "REQ_PAUSE"), Msg(k))
              => \A pos : Has(msg_queue, SeekMsg(pos)) => Has(msg_queue', SeekMsg(pos))
<1>0. msg_queue \in Queue(Message) /\ \A pos : SeekMsg(pos).what = "REQ_SEEK"
  BY DEF QueueTypeOK, SeekMsg
<1>1. ASSUME NEW k \in Kinds, NEW pos, Has(msg_queue, SeekMsg(pos))
      PROVE  /\ Has(Put(msg_queue, Msg(k)), SeekMsg(pos))
             /\ Has(Abort(msg_queue), SeekMsg(pos))
  <2>1. Msg(k) \in Message
    BY MessageTyping
  <2>2. Abort(msg_queue).msgs = msg_queue.msgs
    BY <1>0, AbortFacts
  <2> QED
    BY <1>0, <1>1, <2>1, <2>2, PutHas DEF Has
<1>2. ASSUME NEW k \in {"REQ_START", "REQ_PAUSE"}, NEW pos, Has(msg_queue, SeekMsg(pos))
      PROVE  Has(Put(RemoveKind(RemoveKind(msg_queue, "REQ_START"), "REQ_PAUSE"), Msg(k)),
                 SeekMsg(pos))
  <2> DEFINE u == RemoveKind(msg_queue, "REQ_START")
             v == RemoveKind(u, "REQ_PAUSE")
  <2>1. u \in Queue(Message) /\ Has(u, SeekMsg(pos))
    BY <1>0, <1>2, RemoveFacts, RemoveHas
  <2> HIDE DEF u
  <2>2. v \in Queue(Message) /\ Has(v, SeekMsg(pos))
    BY <1>0, <2>1, RemoveFacts, RemoveHas
  <2> HIDE DEF v
  <2>3. Msg(k) \in Message
    BY MessageTyping DEF Kinds
  <2>4. Has(Put(v, Msg(k)), SeekMsg(pos))
    BY <2>2, <2>3, PutHas
  <2> QED
    BY <2>4 DEF u, v
<1> QED
  BY <1>1, <1>2

\* What start() and pause() leave in the queue of what is neither.
LEMMA RequestKeeps ==
  ASSUME QueueTypeOK, UNCHANGED hand, NEW what \in {"REQ_START", "REQ_PAUSE"},
         \A l \in Loops : pc'[l] = "handle" <=> pc[l] = "handle",
         msg_queue' = Put(RemoveKind(RemoveKind(msg_queue, "REQ_START"), "REQ_PAUSE"), Msg(what))
  PROVE  Keeps("SEEK_COMPLETE")
<1> DEFINE u == RemoveKind(msg_queue, "REQ_START")
           v == RemoveKind(u, "REQ_PAUSE")
<1>1. /\ u \in Queue(Message)
      /\ Holds(msg_queue, "SEEK_COMPLETE") => Holds(u, "SEEK_COMPLETE")
  BY RemoveFacts DEF QueueTypeOK
<1> HIDE DEF u
<1>2. /\ v \in Queue(Message)
      /\ Holds(u, "SEEK_COMPLETE") => Holds(v, "SEEK_COMPLETE")
  BY <1>1, RemoveFacts
<1>3. msg_queue' = Put(v, Msg(what)) /\ Msg(what) \in Message
  BY MessageTyping DEF u, Kinds
<1> HIDE DEF v
<1>4. Holds(v, "SEEK_COMPLETE") => Holds(msg_queue', "SEEK_COMPLETE")
  BY <1>2, <1>3, PutFacts
<1> QED
  BY <1>1, <1>2, <1>4 DEF Keeps, Pending

\* A step that leaves the read thread alone and keeps the stream's request.
LEMMA SeekStep ==
  ASSUME Seeking, NEW new, Adds(new), read' = read,
         is'.open = is.open, is'.abort_request = is.abort_request,
         is.seek_req => is'.seek_req,
         Unopened' => Unopened,
         mp'.seek_req => mp.seek_req /\ mp'.seek_msec = mp.seek_msec,
         msg_queue'.abort_request =>
           msg_queue.abort_request \/ ~is.open \/ is.abort_request,
         \A t \in Threads : pc'[t] \in StoppingPcs =>
           pc[t] \in StoppingPcs \/ ~is.open \/ is.abort_request,
         is.open /\ ~is.abort_request =>
           /\ read.pc \in OpeningPcs =>
                UNCHANGED mp_state /\ new \cap {"PREPARED", "COMPLETED"} = {}
           /\ Controllable => Controllable'
           /\ mp'.seek_req /\ mp.seek_msec \notin PastEnd =>
                /\ Requested(mp.seek_msec) => Requested(mp.seek_msec)' \/ is'.seek_req
                /\ Keeps("SEEK_COMPLETE")
  PROVE  Seeking'
<1>1. HasReader' /\ AbortSeen' /\ StopSeen' /\ (Unopened' => ~mp'.seek_req)
  BY DEF Seeking, HasReader, AbortSeen, StopSeen
<1>2. Seekable'
  BY DEF Seeking, Seekable, Adds
<1>3. Sought'
  <2> SUFFICES ASSUME mp'.seek_req, mp'.seek_msec \notin PastEnd, is'.open, ~is'.abort_request
               PROVE  \/ Requested(mp.seek_msec)'
                      \/ is'.seek_req
                      \/ read'.pc \in {"seek_play", "seek_notify"}
                      \/ Pending("SEEK_COMPLETE")'
    <3>1. mp'.seek_req => mp'.seek_msec = mp.seek_msec
      OBVIOUS
    <3> QED
      BY <3>1 DEF Sought, Requested
  <2>1. \/ Requested(mp.seek_msec)
        \/ is.seek_req
        \/ read.pc \in {"seek_play", "seek_notify"}
        \/ Pending("SEEK_COMPLETE")
    BY DEF Seeking, Sought
  <2>2. /\ Requested(mp.seek_msec) => Requested(mp.seek_msec)' \/ is'.seek_req
        /\ Keeps("SEEK_COMPLETE")
    OBVIOUS
  <2> QED
    BY <2>1, <2>2 DEF Keeps
<1> QED
  BY <1>1, <1>2, <1>3 DEF Seeking

\* A stream that is being stopped, or is no longer there.
LEMMA StoppedSeeks ==
  ASSUME ~is'.open \/ is'.abort_request, Unopened' => ~mp'.seek_req, HasReader'
  PROVE  Seeking'
  BY DEF Seeking, AbortSeen, StopSeen, Seekable, Sought

\* A step of the read thread, or of the decoders.
LEMMA StreamSeeks ==
  ASSUME Seeking, ReadFrame, NEW new, Adds(new), Keeps("SEEK_COMPLETE"),
         is'.open = is.open, is'.abort_request = is.abort_request,
         msg_queue'.abort_request = msg_queue.abort_request,
         read'.pc = "none" <=> read.pc = "none",
         \A pos : Requested(pos) => Requested(pos)',
         read'.pc \in OpeningPcs => \/ is.abort_request
                                    \/ /\ read.pc \in OpeningPcs
                                       /\ new \cap {"PREPARED", "COMPLETED"} = {},
         is.open /\ ~is.abort_request
           /\ (is.seek_req \/ read.pc \in {"seek_play", "seek_notify"})
         => \/ is'.seek_req \/ read'.pc \in {"seek_play", "seek_notify"}
            \/ Pending("SEEK_COMPLETE")'
  PROVE  Seeking'
<1>1. UNCHANGED <<mp_state, mp, pc>>
  BY DEF ReadFrame
<1>2. HasReader' /\ AbortSeen' /\ StopSeen' /\ (Unopened' => ~mp'.seek_req)
  BY <1>1 DEF Seeking, HasReader, AbortSeen, StopSeen, Unopened
<1>3. Seekable'
  BY <1>1 DEF Seeking, Seekable, Adds, Controllable
<1>4. Sought'
  <2> SUFFICES ASSUME mp.seek_req, mp.seek_msec \notin PastEnd, is.open, ~is.abort_request
               PROVE  \/ Requested(mp.seek_msec)'
                      \/ is'.seek_req
                      \/ read'.pc \in {"seek_play", "seek_notify"}
                      \/ Pending("SEEK_COMPLETE")'
    BY <1>1 DEF Sought, Requested
  <2>1. \/ Requested(mp.seek_msec)
        \/ is.seek_req
        \/ read.pc \in {"seek_play", "seek_notify"}
        \/ Pending("SEEK_COMPLETE")
    BY DEF Seeking, Sought
  <2>2. Requested(mp.seek_msec) => Requested(mp.seek_msec)'
    BY <1>1 DEF Requested
  <2> QED
    BY <2>1, <2>2 DEF Keeps
<1> QED
  BY <1>2, <1>3, <1>4 DEF Seeking

LEMMA AppSeeks ==
  ASSUME Whole, Seeking, life # "aborted", NEW a, Apps = {a},
         \/ \E op \in JniOps \cup {"shutdown", "reset"} : Enter(a, op)
         \/ AppStep(a)
  PROVE  Seeks'
<1>0. /\ is \in StreamFields /\ ffp \in FfpFields /\ jobj \in JavaFields /\ mp \in MpFields
      /\ QueueTypeOK /\ msg_queue \in Queue(Message) /\ Before /\ Behind
      /\ a \in Threads /\ a \notin Loops
  BY PlayerAssumption
     DEF Whole, IInv, ControlTypeOK, Session, QueueTypeOK, PlayerAssumption, Threads
<1>a. ASSUME NEW x, Goto(a, x), x # "handle", pc[a] # "handle"
      PROVE  /\ \A l \in Loops : pc'[l] = pc[l]
             /\ x \notin StoppingPcs =>
                  \A t \in Threads : pc'[t] \in StoppingPcs => pc[t] \in StoppingPcs
  <2>1. \A t \in Threads : pc'[t] = IF t = a THEN x ELSE pc[t]
    BY <1>a DEF Whole, IInv, ControlTypeOK, PcTypeOK, Goto
  <2> QED
    BY <1>0, <2>1 DEF Threads
\* A call goes on that leaves the stream and the queue alone.
<1>b. ASSUME NEW x, Goto(a, x), x \notin StoppingPcs \cup {"handle"}, pc[a] # "handle",
             UNCHANGED <<mp, msg_queue, is, read, hand>>,
             Unopened' => Unopened, Controllable => Controllable',
             mp_state = "ASYNC_PREPARING" => UNCHANGED mp_state
      PROVE  Seeking'
  <2>1. /\ \A l \in Loops : pc'[l] = pc[l]
        /\ \A t \in Threads : pc'[t] \in StoppingPcs => pc[t] \in StoppingPcs
    BY <1>a, <1>b
  <2>2. Adds({}) /\ \A what : Keeps(what)
    BY <1>0, <1>b, <2>1, QueueOperations
  <2>3. \A pos : Requested(pos) => Requested(pos)'
    BY <1>b, <2>1 DEF Requested
  <2>4. is.open /\ ~is.abort_request /\ read.pc \in OpeningPcs => UNCHANGED mp_state
    BY <1>b DEF Seeking, Seekable
  <2> QED
    BY <1>b, <2>1, <2>2, <2>3, <2>4, SeekStep
<1>1. CASE \E op \in JniOps \cup {"shutdown", "reset"} : Enter(a, op)
  <2>1. PICK op \in JniOps \cup {"shutdown", "reset"} : Enter(a, op)
    BY <1>1
  <2>2. op \notin StoppingPcs \cup {"handle"}
    BY DEF JniOps, StoppingPcs
  <2>3. /\ pc[a] = "idle" /\ Goto(a, op)
        /\ UNCHANGED <<mp_state, mp, msg_queue, is, read, hand>>
    BY <2>1 DEF Enter
  <2> QED
    BY <1>b, <2>2, <2>3 DEF Seeks, Unopened, Controllable
<1>2. CASE SetDataSource(a)
  <2>1. /\ pc[a] = "set_data_source" /\ Goto(a, "dec")
        /\ UNCHANGED <<mp, msg_queue, is, read, hand>>
        /\ mp_state' = IF mp_state = "IDLE" THEN "INITIALIZED" ELSE mp_state
    BY <1>2 DEF SetDataSource
  <2>2. /\ Unopened' => Unopened
        /\ Controllable => Controllable'
        /\ mp_state = "ASYNC_PREPARING" => UNCHANGED mp_state
    BY <2>1 DEF Unopened, Controllable
  <2> QED
    BY <1>b, <2>1, <2>2 DEF Seeks, StoppingPcs
<1>3. ASSUME NEW l \in Loops, PrepareAsync(a, l) PROVE Seeks'
  <2>1. /\ pc[a] = "prepare_async" /\ ffp' = ffp
        /\ \A t \in Threads : pc'[t] = IF t = l THEN "begin" ELSE IF t = a THEN "dec" ELSE pc[t]
        /\ ~Gone /\ Adds({"FLUSH"}) /\ ~msg_queue'.abort_request
    BY <1>3, PrepareFacts
  <2>2. CASE is.open
    BY <1>3, <2>2 DEF PrepareAsync, Seeks
  <2>3. CASE ~is.open
    <3>1. /\ Unopened /\ ~Pending("COMPLETED") /\ ~Pending("PREPARED") /\ ~mp.seek_req
      BY <1>0, <2>1, <2>3 DEF Before, Behind, Kinds, Seeking
    <3>2. ~mp'.seek_req
      BY <1>0, <1>3, <3>1 DEF PrepareAsync, MpFields
    <3>3. CASE UNCHANGED <<is, read>>
      <4>1. HasReader'
        BY <3>3 DEF Seeking, HasReader
      <4> QED
        BY <2>3, <3>2, <3>3, <4>1, StoppedSeeks DEF Seeks
    <3>4. CASE /\ mp_state' = "ASYNC_PREPARING"
               /\ is' = [NoStream EXCEPT !.open = TRUE, !.pause_req = ~ffp.start_on_prepared]
               /\ read' = [pc |-> "open", completed |-> FALSE, errored |-> FALSE]
      <4>1. is'.open /\ read'.pc = "open"
        BY <3>4 DEF NoStream
      <4>2. HasReader' /\ AbortSeen' /\ Sought'
        BY <2>1, <3>2, <4>1 DEF HasReader, AbortSeen, Sought
      <4>3. Seekable'
        BY <2>1, <3>1, <3>2, <3>4 DEF Seekable, Adds
      <4>4. ref_count # 0
        <5>1. Holding(a) => ref_count > 0
          BY <1>0, NoneAtZero DEF Whole, IInv
        <5> QED
          BY <2>1, <5>1 DEF Holding, OutsidePcs, ShutdownPcs
      <4>5. \A t \in Threads : pc'[t] \notin StoppingPcs
        <5>1. ASSUME NEW t \in Loops PROVE pc[t] \notin StoppingPcs
          <6>1. pc[t] \notin ShutdownPcs
            BY <4>4 DEF Whole, IInv, ReaperAlone
          <6>2. pc[t] # "stop_abort"
            BY DEF Whole, IInv, ControlTypeOK, PcTypeOK, LoopPcs, ShutdownPcs
          <6> QED
            BY <6>1, <6>2 DEF StoppingPcs, ShutdownPcs
        <5> QED
          BY <2>1, <5>1 DEF Threads, StoppingPcs
      <4> QED
        BY <3>2, <4>2, <4>3, <4>5 DEF StopSeen, Seeking, Seeks
    <3> QED
      BY <1>3, <2>3, <3>3, <3>4 DEF PrepareAsync
  <2> QED
    BY <2>2, <2>3
<1>4. ASSUME NEW op \in JniOps, NEW what \in {"REQ_START", "REQ_PAUSE"}, RequestPlay(a, op, what)
      PROVE  Seeks'
  <2>1. /\ pc[a] \in JniOps /\ Goto(a, "dec")
        /\ msg_queue' = Put(RemoveKind(RemoveKind(msg_queue, "REQ_START"), "REQ_PAUSE"), Msg(what))
        /\ UNCHANGED <<mp_state, mp, is, read, hand>>
    BY <1>4 DEF RequestPlay
  <2>2. /\ \A l \in Loops : pc'[l] = pc[l]
        /\ \A t \in Threads : pc'[t] \in StoppingPcs => pc[t] \in StoppingPcs
    BY <1>a, <2>1 DEF StoppingPcs, JniOps
  <2>3. Adds({what}) /\ msg_queue'.abort_request = msg_queue.abort_request
    BY <1>0, <2>1, <2>2, RequestQueue
  <2>4. Keeps("SEEK_COMPLETE")
    BY <1>0, <2>1, <2>2, RequestKeeps
  <2>5. \A pos : Has(msg_queue, SeekMsg(pos)) => Has(msg_queue', SeekMsg(pos))
    BY <1>0, <2>1, QueueKeepsSeeks
  <2>6. \A pos : Requested(pos) => Requested(pos)'
    BY <2>1, <2>2, <2>5 DEF Requested
  <2> QED
    BY <2>1, <2>2, <2>3, <2>4, <2>6, SeekStep DEF Seeks, Unopened, Controllable
<1>5. ASSUME NEW pos \in Positions, SeekTo(a, pos) PROVE Seeks'
  <2>1. /\ pc[a] = "seek_to" /\ Goto(a, "dec") /\ Controllable
        /\ msg_queue' = Put(RemoveKind(msg_queue, "REQ_SEEK"), [what |-> "REQ_SEEK", arg1 |-> pos])
        /\ UNCHANGED <<mp_state, is, read, hand>>
        /\ mp'.seek_msec = pos
    BY <1>0, <1>5 DEF SeekTo, MpFields
  <2>2. /\ \A l \in Loops : pc'[l] = pc[l]
        /\ \A t \in Threads : pc'[t] \in StoppingPcs => pc[t] \in StoppingPcs
    BY <1>a, <2>1 DEF StoppingPcs
  <2>3. Adds({"REQ_SEEK"}) /\ msg_queue'.abort_request = msg_queue.abort_request
    BY <1>0, <2>1, <2>2, RequestQueue
  <2>4. HasReader' /\ AbortSeen' /\ StopSeen' /\ ~Unopened'
    BY <2>1, <2>2, <2>3 DEF Seeking, HasReader, AbortSeen, StopSeen, Controllable, Unopened
  <2>5. Seekable'
    BY <2>1, <2>3 DEF Seeking, Seekable, Adds, Controllable
  <2>6. is.open /\ ~is.abort_request => Has(msg_queue', SeekMsg(pos))
    <3> SUFFICES ASSUME is.open, ~is.abort_request PROVE Has(msg_queue', SeekMsg(pos))
      OBVIOUS
    <3> DEFINE u == RemoveKind(msg_queue, "REQ_SEEK")
    <3>1. u \in Queue(Message) /\ ~u.abort_request
      BY <1>0, RemoveFacts DEF Seeking, AbortSeen
    <3>2. SeekMsg(pos) \in Message /\ msg_queue' = Put(u, SeekMsg(pos))
      BY <2>1, MessageTyping DEF SeekMsg
    <3> HIDE DEF u
    <3> QED
      BY <3>1, <3>2, PutHas
  <2>7. Sought'
    BY <2>1, <2>6 DEF Sought, Requested
  <2> QED
    BY <2>4, <2>5, <2>7 DEF Seeking, Seeks
<1>6. CASE Stop(a)
  <2>1. StopStream /\ UNCHANGED <<mp_state, mp, read>>
    BY <1>6 DEF Stop
  <2>2. is'.open = is.open /\ (is.open => is'.abort_request)
    BY <1>0, <2>1, ToggleFacts
  <2>3. HasReader' /\ (Unopened' => ~mp'.seek_req)
    BY <2>1, <2>2 DEF Seeking, HasReader, Unopened
  <2> QED
    BY <2>2, <2>3, StoppedSeeks DEF Seeks
<1>7. CASE StopAbort(a)
  <2>1. /\ pc[a] = "stop_abort" /\ mp_state' = "STOPPED" /\ UNCHANGED <<mp, is, read>>
    BY <1>7 DEF StopAbort
  <2>2. ~is.open \/ is.abort_request
    BY <1>0, <2>1 DEF Seeking, StopSeen, StoppingPcs
  <2>3. HasReader' /\ ~Unopened'
    BY <2>1 DEF Seeking, HasReader, Unopened
  <2> QED
    BY <2>1, <2>2, <2>3, StoppedSeeks DEF Seeks
<1>8. ASSUME NEW op \in JniOps, NEW s, Refuse(a, op, s) PROVE Seeks'
  <2>1. op # "handle" /\ "dec" \notin StoppingPcs \cup {"handle"}
    BY DEF JniOps, StoppingPcs
  <2>2. /\ pc[a] = op /\ Goto(a, "dec")
        /\ UNCHANGED <<mp_state, mp, msg_queue, is, read, hand>>
    BY <1>8 DEF Refuse
  <2> QED
    BY <1>b, <2>1, <2>2 DEF Seeks, Unopened, Controllable
<1>9. CASE Reset(a) \/ Unweak(a) \/ Unpeer(a)
  <2>1. /\ {"shutdown", "dec", "dec_old", "unpeer"} \cap (StoppingPcs \cup {"handle"}) = {}
    BY DEF StoppingPcs
  <2>2. PICK x \in {"shutdown", "dec", "dec_old", "unpeer"} : Goto(a, x)
    BY <1>9 DEF Reset, Unweak, Unpeer
  <2>3. pc[a] # "handle" /\ UNCHANGED <<mp_state, mp, msg_queue, is, read, hand>>
    BY <1>9 DEF Reset, Unweak, Unpeer
  <2> QED
    BY <1>b, <2>1, <2>2, <2>3 DEF Seeks, Unopened, Controllable
<1>10. Start(a) \/ Pause(a) =>
         \E op \in JniOps : \E what \in {"REQ_START", "REQ_PAUSE"} : RequestPlay(a, op, what)
  BY DEF Start, Pause, JniOps
<1> QED
  BY <1>1, <1>2, <1>3, <1>4, <1>5, <1>6, <1>7, <1>8, <1>9, <1>10 DEF AppStep, JniOps

LEMMA ThreadSeeks ==
  ASSUME Whole, Seeking, life # "aborted", NEW a, Apps = {a}, NEW t \in Threads, ThreadStep(t)
  PROVE  Seeking'
<1>0. /\ is \in StreamFields /\ ffp \in FfpFields /\ read \in ReadFields /\ QueueTypeOK
  BY DEF Whole, IInv, ControlTypeOK
<1>c. {"shutdown", "shutdown_abort", "shutdown_wait", "shutdown_join"} = ShutdownPcs
  BY DEF ShutdownPcs
<1>1. CASE DecRef(t) \/ Destroy(t)
  <2>1. PICK x \in {"shutdown", "dec", "idle", "return", "return_freed"} : Goto(t, x)
    BY <1>1 DEF DecRef, Destroy, Free, AfterDec
  <2>2. /\ UNCHANGED <<mp_state, mp, msg_queue, is, read, hand>>
        /\ pc[t] # "handle"
    BY <1>1 DEF DecRef, Destroy, Free
  <2>3. \A u \in Threads : pc'[u] = IF u = t THEN x ELSE pc[u]
    BY <2>1 DEF Whole, IInv, ControlTypeOK, PcTypeOK, Goto
  <2>4. \A l \in Loops : pc'[l] = "handle" <=> pc[l] = "handle"
    BY <2>2, <2>3 DEF Threads
  <2>5. Adds({}) /\ \A what : Keeps(what)
    BY <1>0, <2>2, <2>4, QueueOperations
  <2>6. \A pos : Requested(pos) => Requested(pos)'
    BY <2>2, <2>4 DEF Requested
  <2>7. \A u \in Threads : pc'[u] \in StoppingPcs => pc[u] \in StoppingPcs
    BY <2>3 DEF StoppingPcs
  <2> QED
    BY <2>2, <2>5, <2>6, <2>7, SeekStep DEF Unopened, Controllable
<1>2. CASE Shutdown(t) \/ ShutdownWait(t)
  <2>1. StopStream /\ UNCHANGED <<mp_state, mp, read>>
    BY <1>2 DEF Shutdown, ShutdownWait
  <2>2. is'.open = is.open /\ (is.open => is'.abort_request)
    BY <1>0, <2>1, ToggleFacts
  <2>3. HasReader' /\ (Unopened' => ~mp'.seek_req)
    BY <2>1, <2>2 DEF Seeking, HasReader, Unopened
  <2> QED
    BY <2>2, <2>3, StoppedSeeks
<1>3. CASE ShutdownAbort(t)
  <2>1. pc[t] = "shutdown_abort" /\ UNCHANGED <<mp_state, mp, is, read>>
    BY <1>3 DEF ShutdownAbort
  <2>2. ~is.open \/ is.abort_request
    BY <2>1 DEF Seeking, StopSeen, StoppingPcs
  <2>3. HasReader' /\ (Unopened' => ~mp'.seek_req)
    BY <2>1 DEF Seeking, HasReader, Unopened
  <2> QED
    BY <2>1, <2>2, <2>3, StoppedSeeks
<1>4. CASE ShutdownJoin(t)
  <2>1. /\ ~is'.open /\ read'.pc = "none" /\ UNCHANGED <<mp_state, mp>>
    BY <1>0, <1>4 DEF ShutdownJoin, NoStream, ReadFields
  <2>2. HasReader' /\ (Unopened' => ~mp'.seek_req)
    BY <2>1 DEF Seeking, HasReader, Unopened
  <2> QED
    BY <2>1, <2>2, StoppedSeeks
<1> QED
  BY <1>1, <1>2, <1>3, <1>4 DEF ThreadStep

LEMMA LoopSeeks ==
  ASSUME Whole, Seeking, life # "aborted", NEW l \in Loops, LoopStep(l)
  PROVE  Seeking'
<1>0. /\ is \in StreamFields /\ ffp \in FfpFields /\ mp \in MpFields /\ PcTypeOK
      /\ QueueTypeOK /\ msg_queue \in Queue(Message) /\ IInv /\ l \in Threads
  BY DEF Whole, IInv, ControlTypeOK, QueueTypeOK, Threads
<1>a. ASSUME NEW x, x \in {"get", "dec", "post", "handle", "exited"}, Goto(l, x)
      PROVE  /\ \A t \in Threads : pc'[t] \in StoppingPcs => pc[t] \in StoppingPcs
             /\ \A k \in Loops : pc'[k] = IF k = l THEN x ELSE pc[k]
  <2>1. \A t \in Threads : pc'[t] = IF t = l THEN x ELSE pc[t]
    BY <1>0, <1>a DEF PcTypeOK, Goto
  <2> QED
    BY <1>a, <2>1 DEF StoppingPcs, Threads
<1>1. ASSUME NEW x \in {"get", "dec", "post", "exited"}, Goto(l, x), pc[l] # "handle",
             UNCHANGED <<mp_state, mp, msg_queue, jobj, is, read, hand>>
      PROVE  Seeking'
  <2>1. \A k \in Loops : pc'[k] = "handle" <=> pc[k] = "handle"
    BY <1>1, <1>a
  <2>2. Adds({}) /\ \A what : Keeps(what)
    BY <1>0, <1>1, <2>1, QueueOperations
  <2>3. \A pos : Requested(pos) => Requested(pos)'
    BY <1>1, <2>1 DEF Requested
  <2>4. \A t \in Threads : pc'[t] \in StoppingPcs => pc[t] \in StoppingPcs
    BY <1>1, <1>a
  <2> QED
    BY <1>1, <2>2, <2>3, <2>4, SeekStep DEF Unopened, Controllable
<1>2. CASE LoopGet(l)
  <2>1. /\ Adds({}) /\ Goto(l, "handle") /\ \A what : Keeps(what)
        /\ UNCHANGED <<mp_state, mp, is, read>>
    BY <1>0, <1>2, TakeStep DEF LoopGet
  <2>2. /\ msg_queue' = [msg_queue EXCEPT !.msgs = Tail(@)] /\ msg_queue.msgs # <<>>
        /\ msg_queue'.abort_request = msg_queue.abort_request
        /\ pc[l] = "get"
        /\ \A k \in Loops : hand'[k] = IF k = l THEN Head(msg_queue.msgs) ELSE hand[k]
    BY <1>0, <1>2 DEF LoopGet, GetReady, Queue, QueueTypeOK
  <2>3. /\ \A k \in Loops : pc'[k] = IF k = l THEN "handle" ELSE pc[k]
        /\ \A t \in Threads : pc'[t] \in StoppingPcs => pc[t] \in StoppingPcs
    BY <1>a, <2>1
  <2>4. ASSUME NEW pos, Requested(pos) PROVE Requested(pos)'
    <3>1. CASE Has(msg_queue, SeekMsg(pos))
      <4>1. SeekMsg(pos) = Head(msg_queue.msgs) \/ Has(msg_queue', SeekMsg(pos))
        BY <1>0, <2>2, <3>1, TakeHas
      <4> QED
        BY <2>2, <2>3, <4>1 DEF Requested, SeekMsg
    <3>2. CASE \E k \in Loops : pc[k] = "handle" /\ hand[k] = SeekMsg(pos)
      BY <2>2, <2>3, <3>2 DEF Requested, SeekMsg
    <3> QED
      BY <2>4, <3>1, <3>2 DEF Requested
  <2> QED
    BY <2>1, <2>2, <2>3, <2>4, SeekStep DEF Unopened, Controllable
\* A message is handled: what follows for the target is left to the cases.
<1>3. ASSUME NEW what, Handling(l, what), NEW x \in {"get", "post"}, Goto(l, x),
             UNCHANGED <<jobj, read, hand>>,
             msg_queue' \in {msg_queue, Put(msg_queue, Msg("COMPLETED"))},
             msg_queue' # msg_queue => Controllable,
             is'.open = is.open, is'.abort_request = is.abort_request,
             is.seek_req => is'.seek_req,
             Unopened' => Unopened, Controllable => Controllable',
             mp_state = "ASYNC_PREPARING" =>
               UNCHANGED mp_state \/ what \in {"PREPARED", "COMPLETED"},
             mp'.seek_req => /\ mp.seek_req /\ mp'.seek_msec = mp.seek_msec
                             /\ what # "SEEK_COMPLETE",
             what = "REQ_SEEK" =>
               \/ ~Controllable \/ ~is.open \/ is'.seek_req
               \/ hand[l].arg1 \in PastEnd
      PROVE  Seeking'
  <2>1. /\ Adds({"COMPLETED"}) /\ \A k : k # what => Keeps(k)
        /\ msg_queue' = msg_queue => Adds({})
    BY <1>0, <1>3, HandlerQueue
  <2>2. /\ \A t \in Threads : pc'[t] \in StoppingPcs => pc[t] \in StoppingPcs
        /\ \A k \in Loops : pc'[k] = IF k = l THEN x ELSE pc[k]
    BY <1>3, <1>a
  <2>3. msg_queue'.abort_request = msg_queue.abort_request
    BY <1>0, <1>3, MessageTyping, Aborts DEF Kinds
  <2>4. Pending(what)
    BY <1>3 DEF Handling, Pending
  <2>5. is.open /\ ~is.abort_request /\ read.pc \in OpeningPcs
          => UNCHANGED <<mp_state, msg_queue>>
    BY <1>3, <2>4 DEF Seeking, Seekable, Controllable
  <2>6. ASSUME is.open, ~is.abort_request, mp'.seek_req, mp.seek_msec \notin PastEnd,
               Requested(mp.seek_msec)
        PROVE  Requested(mp.seek_msec)' \/ is'.seek_req
    <3>1. mp'.seek_msec = mp.seek_msec /\ Controllable
      BY <1>3, <2>6 DEF Seeking, Seekable
    <3>2. \A pos : Has(msg_queue, SeekMsg(pos)) => Has(msg_queue', SeekMsg(pos))
      BY <1>0, <1>3, QueueKeepsSeeks DEF Kinds
    <3>3. CASE Has(msg_queue, SeekMsg(mp.seek_msec))
      BY <3>1, <3>2, <3>3 DEF Requested
    <3>4. ASSUME NEW k \in Loops, pc[k] = "handle", hand[k] = SeekMsg(mp.seek_msec)
          PROVE  Requested(mp.seek_msec)' \/ is'.seek_req
      <4>1. CASE k # l
        BY <1>3, <2>2, <3>1, <3>4, <4>1 DEF Requested
      <4>2. CASE k = l
        BY <1>3, <2>6, <3>1, <3>4, <4>2 DEF Handling, SeekMsg
      <4> QED
        BY <4>1, <4>2
    <3> QED
      BY <2>6, <3>3, <3>4 DEF Requested
  <2>7. mp'.seek_req => Keeps("SEEK_COMPLETE")
    BY <1>3, <2>1
  <2>8. CASE msg_queue' = msg_queue
    <3>1. Adds({})
      BY <2>1, <2>8
    <3> QED
      BY <1>3, <2>2, <2>3, <2>5, <2>6, <2>7, <3>1, SeekStep
  <2>9. CASE msg_queue' # msg_queue
    <3>1. ~(is.open /\ ~is.abort_request /\ read.pc \in OpeningPcs)
      BY <2>5, <2>9
    <3> QED
      BY <1>3, <2>1, <2>2, <2>3, <2>6, <2>7, <3>1, SeekStep
  <2> QED
    BY <2>8, <2>9
<1>4. CASE HandlePrepared(l)
  <2>1. /\ Handling(l, "PREPARED") /\ Goto(l, "post")
        /\ UNCHANGED <<mp, msg_queue, jobj, is, read, hand>>
        /\ mp_state' = IF ~ffp.start_on_prepared THEN "PAUSED"
                       ELSE IF mp_state = "ASYNC_PREPARING" THEN "PREPARED" ELSE mp_state
    BY <1>4 DEF HandlePrepared
  <2>2. (Unopened' => Unopened) /\ (Controllable => Controllable')
    BY <2>1 DEF Unopened, Controllable
  <2> QED
    BY <1>3, <2>1, <2>2
<1>5. CASE HandleCompleted(l)
  <2>1. /\ Handling(l, "COMPLETED") /\ Goto(l, "post") /\ mp_state' = "COMPLETED"
        /\ UNCHANGED <<msg_queue, jobj, is, read, hand>>
        /\ mp'.seek_req = mp.seek_req /\ mp'.seek_msec = mp.seek_msec
    BY <1>0, <1>5 DEF HandleCompleted, MpFields
  <2>2. ~Unopened' /\ Controllable'
    BY <2>1 DEF Unopened, Controllable
  <2> QED
    BY <1>3, <2>1, <2>2
<1>6. CASE HandleSeekComplete(l)
  <2>1. /\ Handling(l, "SEEK_COMPLETE") /\ Goto(l, "post")
        /\ UNCHANGED <<mp_state, msg_queue, jobj, is, read, hand>>
        /\ ~mp'.seek_req
    BY <1>0, <1>6 DEF HandleSeekComplete, MpFields
  <2> QED
    BY <1>3, <2>1 DEF Unopened, Controllable
<1>7. CASE HandleOther(l)
  <2>1. PICK what \in {"FLUSH", "ERROR"} : Handling(l, what)
    BY <1>7 DEF HandleOther
  <2>2. Goto(l, "post") /\ UNCHANGED <<mp_state, mp, msg_queue, jobj, is, read, hand>>
    BY <1>7 DEF HandleOther
  <2> QED
    BY <1>3, <2>1, <2>2 DEF Unopened, Controllable
<1>8. CASE HandleStart(l)
  <2>1. /\ Handling(l, "REQ_START") /\ Goto(l, "get")
        /\ UNCHANGED <<msg_queue, jobj, read, hand>>
        /\ mp'.seek_req = mp.seek_req /\ mp'.seek_msec = mp.seek_msec
    BY <1>0, <1>8 DEF HandleStart, MpFields
  <2>2. /\ mp_state' = mp_state \/ (Controllable /\ mp_state' = "STARTED")
        /\ is' = is \/ StreamSeek \/ TogglePause(FALSE)
    BY <1>8 DEF HandleStart
  <2>3. /\ is'.open = is.open /\ is'.abort_request = is.abort_request
        /\ is.seek_req => is'.seek_req
    BY <1>0, <2>2, ToggleFacts
  <2>4. /\ Unopened' => Unopened
        /\ Controllable => Controllable'
        /\ mp_state = "ASYNC_PREPARING" => UNCHANGED mp_state
    BY <2>2 DEF Unopened, Controllable
  <2> QED
    BY <1>3, <2>1, <2>3, <2>4
<1>9. CASE HandlePause(l)
  <2>1. /\ Handling(l, "REQ_PAUSE") /\ Goto(l, "get")
        /\ UNCHANGED <<mp, msg_queue, jobj, read, hand>>
    BY <1>9 DEF HandlePause
  <2>2. /\ mp_state' = mp_state \/ (Controllable /\ mp_state' = "PAUSED")
        /\ is' = is \/ TogglePause(TRUE)
    BY <1>9 DEF HandlePause
  <2>3. /\ is'.open = is.open /\ is'.abort_request = is.abort_request
        /\ is.seek_req => is'.seek_req
    BY <1>0, <2>2, ToggleFacts
  <2>4. /\ Unopened' => Unopened
        /\ Controllable => Controllable'
        /\ mp_state = "ASYNC_PREPARING" => UNCHANGED mp_state
    BY <2>2 DEF Unopened, Controllable
  <2> QED
    BY <1>3, <2>1, <2>3, <2>4
<1>10. CASE HandleSeek(l)
  <2>1. /\ Handling(l, "REQ_SEEK") /\ Goto(l, "get")
        /\ UNCHANGED <<mp_state, jobj, read, hand>>
        /\ mp'.seek_req = mp.seek_req /\ mp'.seek_msec = mp.seek_msec
    BY <1>0, <1>10 DEF HandleSeek, MpFields
  <2>2. \/ UNCHANGED <<msg_queue, is>> /\ (~Controllable \/ ~is.open)
        \/ /\ Controllable /\ hand[l].arg1 \in PastEnd /\ TogglePause(TRUE)
           /\ msg_queue' = Put(msg_queue, Msg("COMPLETED"))
        \/ StreamSeek /\ UNCHANGED msg_queue
    BY <1>10 DEF HandleSeek
  <2>3. /\ is'.open = is.open /\ is'.abort_request = is.abort_request
        /\ is.seek_req => is'.seek_req
        /\ ~Controllable \/ ~is.open \/ is'.seek_req \/ hand[l].arg1 \in PastEnd
    BY <1>0, <2>2, ToggleFacts
  <2>4. msg_queue' = msg_queue \/ (Controllable /\ msg_queue' = Put(msg_queue, Msg("COMPLETED")))
    BY <2>2
  <2> QED
    BY <1>3, <2>1, <2>3, <2>4 DEF Unopened, Controllable
<1> QED
  BY <1>1, <1>2, <1>4, <1>5, <1>6, <1>7, <1>8, <1>9, <1>10
     DEF LoopStep, LoopBegin, LoopAborted, LoopPost, LoopReturn

LEMMA ReadSeeks ==
  ASSUME Whole, Seeking, life # "aborted", ReadStep \/ Drain \/ StepShown
  PROVE  Seeking'
<1>0. /\ is \in StreamFields /\ ffp \in FfpFields /\ read \in ReadFields /\ QueueTypeOK
      /\ msg_queue \in Queue(Message)
  BY DEF Whole, IInv, ControlTypeOK, QueueTypeOK
<1>a. \A label \in ReadPcs : ReadGoto(label) => read'.pc = label
  BY <1>0 DEF ReadGoto, ReadFields
<1>b. ReadFrame => UNCHANGED <<hand, pc, mp_state>>
  BY DEF ReadFrame
\* The queue is left alone.
<1>1. ASSUME ReadFrame, UNCHANGED msg_queue,
             is'.open = is.open, is'.abort_request = is.abort_request,
             read'.pc = "none" <=> read.pc = "none",
             read'.pc \in OpeningPcs => is.abort_request \/ read.pc \in OpeningPcs,
             is.seek_req /\ ~is.abort_request
               => is'.seek_req \/ read'.pc \in {"seek_play", "seek_notify"},
             read.pc \in {"seek_play", "seek_notify"} /\ ~is.abort_request
               => read'.pc \in {"seek_play", "seek_notify"}
      PROVE  Seeking'
  <2>1. Adds({}) /\ \A what : Keeps(what)
    BY <1>0, <1>1, <1>b, QueueOperations
  <2>2. \A pos : Requested(pos) => Requested(pos)'
    BY <1>1, <1>b DEF Requested
  <2> QED
    BY <1>1, <2>1, <2>2, StreamSeeks
\* A message is put in the queue.
<1>2. ASSUME ReadFrame, NEW k \in Kinds, msg_queue' = Put(msg_queue, Msg(k)), UNCHANGED is,
             read'.pc # "none", read.pc # "none",
             read'.pc \in OpeningPcs =>
               is.abort_request \/ (read.pc \in OpeningPcs /\ k \notin {"PREPARED", "COMPLETED"}),
             read.pc \in {"seek_play", "seek_notify"} => k = "SEEK_COMPLETE"
      PROVE  Seeking'
  <2>1. Adds({k}) /\ (\A what : Keeps(what)) /\ (~msg_queue.abort_request => Pending(k)')
    BY <1>0, <1>2, <1>b, QueueOperations
  <2>2. msg_queue'.abort_request = msg_queue.abort_request
    BY <1>0, <1>2, MessageTyping, Aborts
  <2>3. \A pos : Has(msg_queue, SeekMsg(pos)) => Has(msg_queue', SeekMsg(pos))
    BY <1>0, <1>2, QueueKeepsSeeks
  <2>4. \A pos : Requested(pos) => Requested(pos)'
    BY <1>2, <1>b, <2>3 DEF Requested
  <2>5. is.open /\ ~is.abort_request => ~msg_queue.abort_request
    BY DEF Seeking, AbortSeen
  <2> QED
    BY <1>2, <2>1, <2>2, <2>4, <2>5, StreamSeeks
<1>3. CASE ReadOpen
  <2>1. /\ read.pc = "open" /\ ReadFrame /\ UNCHANGED msg_queue
        /\ is' = is \/ TogglePause(TRUE)
    BY <1>3 DEF ReadOpen, ReadAt
  <2>2. read'.pc \in {"prepared", "fail"}
    BY <1>3, <1>a DEF ReadOpen, ReadPcs
  <2>3. is'.open = is.open /\ is'.abort_request = is.abort_request /\ is'.seek_req = is.seek_req
    BY <1>0, <2>1, ToggleFacts
  <2> QED
    BY <1>1, <2>1, <2>2, <2>3 DEF OpeningPcs
<1>4. CASE ReadPrepared
  <2>1. /\ read.pc = "prepared" /\ ReadFrame /\ UNCHANGED is
        /\ msg_queue' = Put(msg_queue, Msg("PREPARED")) /\ "PREPARED" \in Kinds
    BY <1>4 DEF ReadPrepared, ReadAt, Kinds
  <2>2. read'.pc \in {"auto_resume", "wait_start"}
    BY <1>4, <1>a DEF ReadPrepared, ReadPcs
  <2> QED
    BY <1>2, <2>1, <2>2 DEF OpeningPcs
<1>5. CASE ReadWaitStart \/ ReadResumed
  <2>1. /\ read.pc \in {"wait_start", "resumed"} /\ ReadFrame /\ UNCHANGED <<msg_queue, is>>
        /\ read'.pc \in {"auto_resume", "loop"}
    BY <1>5, <1>a DEF ReadWaitStart, ReadResumed, ReadAt, ReadPcs
  <2> QED
    BY <1>1, <2>1 DEF OpeningPcs
<1>6. CASE ReadAutoResume
  <2>1. /\ read.pc = "auto_resume" /\ ReadFrame /\ UNCHANGED is
        /\ UNCHANGED msg_queue \/ msg_queue' = Put(msg_queue, Msg("REQ_START"))
        /\ read'.pc \in {"resumed", "loop"} /\ "REQ_START" \in Kinds
    BY <1>6, <1>a DEF ReadAutoResume, ReadAt, ReadPcs, Kinds
  <2> QED
    BY <1>1, <1>2, <2>1 DEF OpeningPcs
<1>7. CASE ReadLoop \/ ReadPacket \/ ReadIdle
  <2>1. /\ read.pc \in {"loop", "body"} /\ ReadFrame /\ UNCHANGED <<msg_queue, is>>
        /\ read'.pc \in {"seek", "body", "loop", "fail"}
        /\ read'.pc = "fail" => is.abort_request
    BY <1>7, <1>a DEF ReadLoop, ReadPacket, ReadIdle, ReadAt, ReadPcs
  <2> QED
    BY <1>1, <2>1 DEF OpeningPcs
<1>8. CASE ReadSeek \/ ReadSeekDone \/ ReadSeekPlay
  <2>1. /\ read.pc \in {"seek", "seek_done", "seek_play"} /\ ReadFrame /\ UNCHANGED msg_queue
        /\ is'.open = is.open /\ is'.abort_request = is.abort_request
        /\ read.pc = "seek" => is'.seek_req = is.seek_req
        /\ read.pc = "seek_play" => is'.seek_req = is.seek_req
    BY <1>0, <1>8 DEF ReadSeek, ReadSeekDone, ReadSeekPlay, ReadAt, StreamFields
  <2>2. /\ read.pc = "seek" => read'.pc = "seek_done"
        /\ read.pc = "seek_done" => read'.pc = "seek_play"
        /\ read.pc = "seek_play" => read'.pc = "seek_notify"
    BY <1>0, <1>8, <1>a DEF ReadSeek, ReadSeekDone, ReadSeekPlay, ReadAt, ReadPcs, ReadFields
  <2> QED
    BY <1>1, <2>1, <2>2 DEF OpeningPcs
<1>9. CASE ReadSeekNotify
  <2>1. /\ read.pc = "seek_notify" /\ ReadFrame /\ UNCHANGED is
        /\ msg_queue' = Put(msg_queue, Msg("SEEK_COMPLETE")) /\ "SEEK_COMPLETE" \in Kinds
        /\ read'.pc = "body"
    BY <1>9, <1>a DEF ReadSeekNotify, ReadAt, ReadPcs, Kinds
  <2> QED
    BY <1>2, <2>1 DEF OpeningPcs
<1>10. CASE ReadRewind \/ ReadCompletePause
  <2>1. /\ read.pc \in {"body", "complete_pause"} /\ ReadFrame /\ UNCHANGED msg_queue
        /\ read'.pc \in {"loop", "complete_notify"}
        /\ StreamSeek \/ TogglePause(TRUE)
    BY <1>10, <1>a DEF ReadRewind, ReadCompletePause, ReadAt, ReadPcs
  <2>2. /\ is'.open = is.open /\ is'.abort_request = is.abort_request
        /\ is.seek_req => is'.seek_req
    BY <1>0, <2>1, ToggleFacts
  <2> QED
    BY <1>1, <2>1, <2>2 DEF OpeningPcs
<1>11. CASE ReadComplete
  <2>1. read.pc = "body" /\ read'.pc = "complete_pause"
    BY <1>0, <1>11 DEF ReadComplete, ReadAt, ReadFields
  <2> QED
    BY <1>1, <1>11, <2>1 DEF ReadComplete, OpeningPcs
<1>12. CASE ReadCompleteNotify
  <2>1. read.pc = "complete_notify" /\ read'.pc = "loop" /\ ReadFrame /\ UNCHANGED is
    BY <1>0, <1>12 DEF ReadCompleteNotify, ReadAt, ReadFields
  <2>2. PICK k \in {"ERROR", "COMPLETED"} : msg_queue' = Put(msg_queue, Msg(k))
    BY <1>12 DEF ReadCompleteNotify
  <2>3. {"ERROR", "COMPLETED"} \subseteq Kinds
    BY DEF Kinds
  <2> QED
    BY <1>2, <2>1, <2>2, <2>3 DEF OpeningPcs
<1>13. CASE ReadFail
  <2>1. /\ read.pc = "fail" /\ read'.pc = "exit" /\ ReadFrame /\ UNCHANGED is
        /\ UNCHANGED msg_queue \/ msg_queue' = Put(msg_queue, Msg("ERROR"))
        /\ "ERROR" \in Kinds
    BY <1>13, <1>a DEF ReadFail, ReadAt, ReadPcs, Kinds
  <2> QED
    BY <1>1, <1>2, <2>1 DEF OpeningPcs
<1>14. CASE Drain \/ StepShown
  <2>1. /\ is'.open = is.open /\ is'.seek_req = is.seek_req
        /\ is'.abort_request = is.abort_request
        /\ UNCHANGED <<read, msg_queue>> /\ ReadFrame
    BY <1>0, <1>14 DEF Drain, StepShown, StreamFields
  <2> QED
    BY <1>1, <2>1
<1> QED
  BY <1>3, <1>4, <1>5, <1>6, <1>7, <1>8, <1>9, <1>10, <1>11, <1>12, <1>13, <1>14 DEF ReadStep

LEMMA NextSeeks ==
  ASSUME NEW a, Apps = {a}, Whole, Seeks, [Next]_vars PROVE Seeks'
<1>1. CASE UNCHANGED vars
  <2>1. UNCHANGED <<mp_state, mp, msg_queue, is, read, pc, hand, life>>
    BY <1>1 DEF vars
  <2>2. \A what : Pending(what)' <=> Pending(what)
    BY <2>1 DEF Pending, Holds
  <2>3. Requested(mp.seek_msec)' <=> Requested(mp.seek_msec)
    BY <2>1 DEF Requested, Has
  <2> QED
    BY <2>1, <2>2, <2>3
       DEF Seeks, Seeking, HasReader, AbortSeen, StopSeen, Unopened, Seekable, Sought, Controllable
<1>2. CASE Step
  <2>1. life # "aborted" /\ Seeking
    BY <1>2 DEF Step, Seeks
  <2>2. ASSUME NEW b \in Apps, NEW op \in JniOps \cup {"shutdown", "reset"}, Enter(b, op)
        PROVE  Seeks'
    BY <2>1, <2>2, AppSeeks
  <2>3. ASSUME NEW b \in Apps, AppStep(b) PROVE Seeks'
    BY <2>1, <2>3, AppSeeks
  <2>4. ASSUME NEW t \in Threads, ThreadStep(t) PROVE Seeks'
    BY <2>1, <2>4, ThreadSeeks DEF Seeks
  <2>5. ASSUME NEW l \in Loops, LoopStep(l) PROVE Seeks'
    BY <2>1, <2>5, LoopSeeks DEF Seeks
  <2>6. ASSUME ReadStep \/ Drain \/ StepShown PROVE Seeks'
    BY <2>1, <2>6, ReadSeeks DEF Seeks
  <2> QED
    BY <1>2, <2>2, <2>3, <2>4, <2>5, <2>6 DEF Step
<1> QED
  BY <1>1, <1>2 DEF Next

\* One application thread: as long as nobody stops the stream, the target reported to the
\* application is never one that no seek is under way to: no request, no pending seek of
\* read_thread and no FFP_MSG_SEEK_COMPLETE is dropped on the way between ijkmp_seek_to
\* and ijkmp_get_msg, so that SeekIsAnswered is left with the threads' going on.
THEOREM SeekNeverForgotten == ASSUME NEW a, Apps = {a} PROVE Spec => []SeekOnItsWay
<1>1. Init => Whole /\ Seeks
  <2>1. ASSUME Init PROVE /\ ~mp.seek_req /\ ~is.open /\ read.pc = "none"
    BY <2>1 DEF Init, NoStream
  <2>2. Init => Seeks
    BY <2>1 DEF Seeks, Seeking, HasReader, AbortSeen, StopSeen, Seekable, Sought
  <2> QED
    BY <2>2, InitIInv, EmptyQueue, InitSession DEF Whole
<1>2. Whole /\ Seeks /\ [Next]_vars => Whole' /\ Seeks'
  BY NextSession, NextSeeks
<1>3. Whole /\ Seeks => SeekOnItsWay
  BY DEF Seeks, Seeking, HasReader, Seekable, Sought, SeekOnItsWay, OpeningPcs
<1> QED
  BY <1>1, <1>2, <1>3, PTL DEF Spec

--------------------------------------------------------------------------------
(* A player that is released is closed: ReleaseEndsPlayback's safety half.      *)

\* Once release() has taken the player from the Java object its stream is closed
\* already, and nothing opens another: ijkmp_shutdown comes before jni_set_media_player.
ReleasedIsClosed == ~jobj.mNativeMediaPlayer => ~is.open

InCallPcs == JniOps \cup {"stop_abort", "reset"}

Closed ==
  /\ ReleasedIsClosed
  /\ \A a \in Apps : /\ ~jobj.mNativeMediaPlayer => pc[a] \notin InCallPcs
                     /\ pc[a] \in {"unweak", "unpeer"} => ~is.open

LEMMA ClosedKept ==
  ASSUME NEW a, Apps = {a}, Whole, Closed, [Next]_vars PROVE Closed'
<1>0. /\ is \in StreamFields /\ ffp \in FfpFields /\ jobj \in JavaFields
      /\ pc \in [Threads -> AppPcs \cup LoopPcs]
      /\ a \in Threads /\ a \in Apps /\ a \notin Loops
  BY PlayerAssumption DEF Whole, IInv, ControlTypeOK, PcTypeOK, PlayerAssumption, Threads
<1>a. ASSUME is'.open => is.open, UNCHANGED jobj,
             \/ pc'[a] = pc[a]
             \/ pc'[a] \notin InCallPcs \cup {"unweak", "unpeer"}
             \/ pc'[a] = "stop_abort" /\ pc[a] \in InCallPcs
             \/ pc'[a] \in InCallPcs /\ jobj.mNativeMediaPlayer
             \/ pc'[a] \in {"unweak", "unpeer"} /\ (~is'.open \/ pc[a] \in {"unweak", "unpeer"})
      PROVE  Closed'
  BY <1>0, <1>a DEF Closed, ReleasedIsClosed, InCallPcs, JniOps
<1>b. /\ StopStream => is'.open = is.open
      /\ \A on \in BOOLEAN : TogglePause(on) => is'.open = is.open
      /\ StreamSeek => is'.open = is.open
  BY <1>0, PiecesOpen
<1>1. ASSUME NEW op \in JniOps \cup {"shutdown", "reset"}, Enter(a, op) PROVE Closed'
  <2>1. pc'[a] = op /\ jobj.mNativeMediaPlayer /\ UNCHANGED <<jobj, is>>
    BY <1>0, <1>1 DEF Enter, Goto
  <2>2. op \in InCallPcs \/ op \notin InCallPcs \cup {"unweak", "unpeer"}
    BY DEF InCallPcs, JniOps
  <2> QED
    BY <1>a, <2>1, <2>2
<1>2. CASE AppStep(a)
  <2>1. ASSUME NEW l \in Loops, PrepareAsync(a, l) PROVE Closed'
    <3>1. pc[a] = "prepare_async" /\ pc'[a] = "dec" /\ UNCHANGED jobj
      BY <2>1, PrepareFacts
    <3>2. jobj.mNativeMediaPlayer
      BY <1>0, <3>1 DEF Closed, InCallPcs, JniOps
    <3> QED
      BY <3>1, <3>2 DEF Closed, ReleasedIsClosed, InCallPcs, JniOps
  <2>2. CASE SetDataSource(a) \/ Start(a) \/ Pause(a) \/ StopAbort(a)
             \/ \E pos \in Positions : SeekTo(a, pos)
    <3>1. Goto(a, "dec") /\ UNCHANGED <<jobj, is>>
      BY <2>2, Zenon DEF SetDataSource, Start, Pause, RequestPlay, StopAbort, SeekTo
    <3>2. pc'[a] = "dec"
      BY <1>0, <3>1 DEF Goto
    <3> QED
      BY <1>a, <3>1, <3>2 DEF InCallPcs, JniOps
  <2>3. CASE Stop(a)
    <3>1. pc'[a] = "stop_abort" /\ pc[a] = "stop" /\ UNCHANGED jobj /\ is'.open = is.open
      BY <1>0, <1>b, <2>3 DEF Stop, Goto
    <3> QED
      BY <1>a, <3>1 DEF InCallPcs, JniOps
  <2>4. ASSUME NEW op, NEW s, Refuse(a, op, s) PROVE Closed'
    <3>1. pc'[a] = "dec" /\ UNCHANGED <<jobj, is>>
      BY <1>0, <2>4 DEF Refuse, Goto
    <3> QED
      BY <1>a, <3>1 DEF InCallPcs, JniOps
  <2>5. CASE Reset(a)
    <3>1. /\ pc'[a] \in {"shutdown", "dec"} /\ UNCHANGED is
          /\ jobj'.mNativeMediaPlayer = jobj.mNativeMediaPlayer
      BY <1>0, <2>5 DEF Reset, Goto, JavaFields
    <3> QED
      BY <3>1 DEF Closed, ReleasedIsClosed, InCallPcs, JniOps
  <2>6. CASE Unweak(a)
    <3>1. /\ pc[a] = "unweak" /\ pc'[a] = "unpeer" /\ UNCHANGED is
          /\ jobj'.mNativeMediaPlayer = jobj.mNativeMediaPlayer
      BY <1>0, <2>6 DEF Unweak, Goto, JavaFields
    <3> QED
      BY <3>1 DEF Closed, ReleasedIsClosed, InCallPcs, JniOps
  <2>7. CASE Unpeer(a)
    <3>1. /\ pc[a] = "unpeer" /\ pc'[a] \in {"dec_old", "dec"} /\ UNCHANGED is
      BY <1>0, <2>7 DEF Unpeer, Goto
    <3>2. ~is.open
      BY <1>0, <3>1 DEF Closed
    <3> QED
      BY <3>1, <3>2 DEF Closed, ReleasedIsClosed, InCallPcs, JniOps
  <2> QED
    BY <1>2, <2>1, <2>2, <2>3, <2>4, <2>5, <2>6, <2>7 DEF AppStep
<1>3. ASSUME NEW t \in Threads, ThreadStep(t) PROVE Closed'
  <2>1. UNCHANGED jobj
    BY <1>3 DEF ThreadStep, DecRef, Shutdown, ShutdownAbort, ShutdownWait, ShutdownJoin,
       Destroy, Free
  <2>2. CASE t # a
    <3>1. pc'[a] = pc[a]
      BY <1>0, <1>3, <2>2 DEF ThreadStep, DecRef, Shutdown, ShutdownAbort, ShutdownWait,
         ShutdownJoin, Destroy, Free, Goto
    <3>2. is'.open => is.open
      <4>1. is' = is \/ StopStream \/ is' = NoStream
        BY <1>3 DEF ThreadStep, DecRef, Shutdown, ShutdownAbort, ShutdownWait, ShutdownJoin,
           Destroy, Free
      <4>2. ~NoStream.open
        BY DEF NoStream
      <4> QED
        BY <1>b, <4>1, <4>2
    <3> QED
      BY <1>a, <2>1, <3>1, <3>2
  <2>3. CASE t = a
    <3>1. CASE DecRef(t) \/ Destroy(t) \/ ShutdownAbort(t)
      <4>1. pc'[a] \in {"shutdown", "dec", "idle", "return", "shutdown_wait"} /\ UNCHANGED is
        BY <1>0, <2>3, <3>1 DEF DecRef, Destroy, Free, ShutdownAbort, AfterDec, Goto
      <4> QED
        BY <1>a, <2>1, <4>1 DEF InCallPcs, JniOps
    <3>2. CASE Shutdown(t)
      <4>1. pc'[a] = "shutdown_abort" /\ is'.open = is.open
        BY <1>0, <1>b, <2>3, <3>2 DEF Shutdown, Goto
      <4> QED
        BY <1>a, <2>1, <4>1 DEF InCallPcs, JniOps
    <3>3. CASE ShutdownWait(t)
      <4>1. /\ is'.open = is.open
            /\ IF is.open THEN pc'[a] = "shutdown_join" ELSE pc'[a] \in {"destroy", "unweak"}
        BY <1>0, <1>b, <2>3, <3>3 DEF ShutdownWait, AfterShutdown, Goto
      <4> QED
        BY <1>a, <2>1, <4>1 DEF InCallPcs, JniOps
    <3>4. CASE ShutdownJoin(t)
      <4>1. ~is'.open /\ pc'[a] \in {"destroy", "unweak"}
        BY <1>0, <2>3, <3>4 DEF ShutdownJoin, AfterShutdown, Goto, NoStream
      <4> QED
        BY <1>a, <2>1, <4>1 DEF InCallPcs, JniOps
    <3> QED
      BY <1>3, <3>1, <3>2, <3>3, <3>4 DEF ThreadStep
  <2> QED
    BY <2>2, <2>3
<1>4. ASSUME NEW l \in Loops, LoopStep(l) PROVE Closed'
  <2>1. /\ UNCHANGED jobj /\ \E x : Goto(l, x)
        /\ is' = is \/ StreamSeek \/ \E on \in BOOLEAN : TogglePause(on)
    BY <1>4 DEF LoopStep, LoopBegin, LoopGet, LoopAborted, LoopPost, LoopReturn, HandlePrepared,
       HandleCompleted, HandleSeekComplete, HandleOther, HandleStart, HandlePause, HandleSeek
  <2>2. pc'[a] = pc[a]
    BY <1>0, <2>1 DEF Goto
  <2> QED
    BY <1>a, <1>b, <2>1, <2>2
<1>5. ASSUME ReadStep \/ Drain \/ StepShown PROVE Closed'
  <2>1. UNCHANGED <<jobj, pc>>
    BY <1>5 DEF ReadStep, Drain, StepShown, ReadFrame, ReadOpen, ReadPrepared, ReadWaitStart,
       ReadAutoResume, ReadResumed, ReadLoop, ReadSeek, ReadSeekDone, ReadSeekPlay,
       ReadSeekNotify, ReadPacket, ReadRewind, ReadIdle, ReadComplete, ReadCompletePause,
       ReadCompleteNotify, ReadFail
  <2>2. CASE ReadOpen \/ ReadRewind \/ ReadCompletePause
    <3>1. is'.open = is.open
      BY <1>b, <2>2 DEF ReadOpen, ReadRewind, ReadCompletePause
    <3> QED
      BY <1>a, <2>1, <3>1
  <2>3. CASE ReadSeek \/ ReadSeekDone \/ ReadSeekPlay \/ Drain \/ StepShown
    <3>1. is'.open = is.open
      BY <1>0, <2>3 DEF ReadSeek, ReadSeekDone, ReadSeekPlay, Drain, StepShown, StreamFields
    <3> QED
      BY <1>a, <2>1, <3>1
  <2>4. CASE UNCHANGED is
    BY <1>a, <2>1, <2>4
  <2> QED
    BY <1>5, <2>2, <2>3, <2>4 DEF ReadStep, ReadPrepared, ReadWaitStart, ReadAutoResume,
       ReadResumed, ReadLoop, ReadSeekNotify, ReadPacket, ReadIdle, ReadComplete,
       ReadCompleteNotify, ReadFail
<1>6. CASE UNCHANGED vars
  BY <1>6 DEF vars, Closed, ReleasedIsClosed
<1> QED
  BY <1>1, <1>2, <1>3, <1>4, <1>5, <1>6 DEF Next, Step

\* One application thread: a release() leaves no stream behind, open or to be opened;
\* ReleaseEndsPlayback is left with release()'s own coming to an end.
THEOREM ReleaseCloses == ASSUME NEW a, Apps = {a} PROVE Spec => []ReleasedIsClosed
<1>1. Init => Whole /\ Closed
  <2>1. ASSUME Init PROVE Closed
    <3>1. \A b \in Apps : pc[b] = "idle"
      BY <2>1 DEF Init, Threads
    <3>2. ~is.open
      BY <2>1 DEF Init, NoStream
    <3> QED
      BY <3>1, <3>2 DEF Closed, ReleasedIsClosed, InCallPcs, JniOps
  <2> QED
    BY <2>1, InitIInv, EmptyQueue, InitSession DEF Whole
<1>2. Whole /\ Closed /\ [Next]_vars => Whole' /\ Closed'
  BY NextSession, ClosedKept
<1>3. Closed => ReleasedIsClosed
  BY DEF Closed
<1> QED
  BY <1>1, <1>2, <1>3, PTL DEF Spec

--------------------------------------------------------------------------------
(* When a pause stands still: PausedStandsStill and the frame a paused seek     *)
(* asks for.                                                                    *)

\* Once a paused seek has asked for a frame nobody asks for another pause, or stops the
\* stream, before that frame is shown: toggle_pause_l would read step and then clear it.
FrameBeforePause ==
  [][is.step /\ ~is'.step => StepShown \/ ~is'.pause_req \/ ~is'.open]_vars

\* A stream asked to pause stands still or has a frame to show, unless it is still being
\* opened, or failed to be, without start-on-prepared.
Stands ==
  is.open /\ is.pause_req =>
    \/ is.paused \/ is.step
    \/ ~is.abort_request /\ read.pc \in {"open", "fail", "exit"} /\ ~ffp.start_on_prepared

FrameFirst == is.step /\ ~is'.step => StepShown \/ ~is'.pause_req \/ ~is'.open

\* A pause of the stream, with or without its being stopped.
LEMMA PauseStands ==
  ASSUME is \in StreamFields, FrameFirst, NEW s \in StreamFields, NEW on \in BOOLEAN,
         s.step = is.step, is' = TogglePauseStream(s, on)
  PROVE  Stands'
<1>1. /\ is'.pause_req = on /\ is'.paused = (on /\ ~s.step) /\ ~is'.step
  BY DEF TogglePauseStream, StreamFields
<1>2. StepShown => is'.paused = is.pause_req /\ is'.pause_req = is.pause_req
  BY DEF StepShown, StreamFields
<1> QED
  BY <1>1, <1>2 DEF FrameFirst, Stands

\* A step that leaves the pause alone, and the read thread where it was if that counts.
LEMMA StandsStay ==
  ASSUME Stands,
         is'.open = is.open, is'.pause_req = is.pause_req, is'.paused = is.paused,
         is'.step = is.step, is'.abort_request = is.abort_request,
         ffp'.start_on_prepared = ffp.start_on_prepared,
         \/ read'.pc = read.pc
         \/ read'.pc \in {"open", "fail", "exit"}
         \/ read.pc \notin {"open", "fail", "exit"}
         \/ ffp.start_on_prepared
  PROVE  Stands'
  BY DEF Stands

LEMMA StandsKept ==
  ASSUME IInv, Stands, FrameFirst, [Next]_vars PROVE Stands'
<1>0. /\ is \in StreamFields /\ ffp \in FfpFields /\ read \in ReadFields
  BY DEF IInv, ControlTypeOK
<1>a. /\ StreamSeek => /\ is'.open = is.open /\ is'.pause_req = is.pause_req
                       /\ is'.paused = is.paused /\ is'.step = is.step
                       /\ is'.abort_request = is.abort_request
      /\ \A on \in BOOLEAN : TogglePause(on) => Stands'
      /\ StopStream /\ read' = read => Stands'
  <2>1. \A on \in BOOLEAN : TogglePause(on) => Stands'
    BY <1>0, PauseStands DEF TogglePause
  <2>2. ASSUME StopStream, read' = read PROVE Stands'
    <3> DEFINE s == [is EXCEPT !.abort_request = TRUE]
    <3>1. s \in StreamFields /\ s.step = is.step
      BY <1>0 DEF StreamFields
    <3>2. is' = TogglePauseStream(s, TRUE) \/ UNCHANGED <<is, ffp>>
      BY <2>2 DEF StopStream
    <3> HIDE DEF s
    <3>3. CASE UNCHANGED <<is, ffp>>
      BY <2>2, <3>3, StandsStay
    <3> QED
      BY <1>0, <3>1, <3>2, <3>3, PauseStands
  <2> QED
    BY <1>0, <2>1, <2>2 DEF StreamSeek, StreamFields
<1>b. UNCHANGED <<is, ffp, read>> => Stands'
  BY StandsStay
<1>1. ASSUME NEW a \in Apps, NEW op, Enter(a, op) PROVE Stands'
  BY <1>1, <1>b DEF Enter
<1>2. ASSUME NEW a \in Apps, AppStep(a) PROVE Stands'
  <2>1. ASSUME NEW l \in Loops, PrepareAsync(a, l) PROVE Stands'
    <3>1. ffp' = ffp
      BY <2>1 DEF PrepareAsync
    <3>2. CASE UNCHANGED <<is, read>>
      BY <1>b, <3>1, <3>2
    <3>3. CASE /\ is' = [NoStream EXCEPT !.open = TRUE, !.pause_req = ~ffp.start_on_prepared]
               /\ read' = [pc |-> "open", completed |-> FALSE, errored |-> FALSE]
      <4>1. /\ is'.pause_req = ~ffp.start_on_prepared /\ ~is'.abort_request
            /\ read'.pc = "open"
        BY <3>3 DEF NoStream
      <4> QED
        BY <3>1, <4>1 DEF Stands
    <3> QED
      BY <2>1, <3>2, <3>3 DEF PrepareAsync
  <2>2. CASE Stop(a)
    BY <1>a, <2>2 DEF Stop
  <2>3. CASE SetDataSource(a) \/ Start(a) \/ Pause(a) \/ StopAbort(a) \/ Reset(a)
             \/ Unweak(a) \/ Unpeer(a) \/ \E pos \in Positions : SeekTo(a, pos)
    <3>1. UNCHANGED <<is, ffp, read>>
      BY <2>3, Zenon
         DEF SetDataSource, Start, Pause, RequestPlay, StopAbort, SeekTo, Reset, Unweak, Unpeer
    <3> QED
      BY <1>b, <3>1
  <2>4. ASSUME NEW op, NEW s, Refuse(a, op, s) PROVE Stands'
    BY <1>b, <2>4 DEF Refuse
  <2> QED
    BY <1>2, <2>1, <2>2, <2>3, <2>4, Zenon DEF AppStep
<1>3. ASSUME NEW t \in Threads, ThreadStep(t) PROVE Stands'
  <2>1. CASE ShutdownJoin(t)
    <3>1. ~is'.open
      BY <2>1 DEF ShutdownJoin, NoStream
    <3> QED
      BY <3>1 DEF Stands
  <2> QED
    BY <1>3, <1>a, <1>b, <2>1
       DEF ThreadStep, DecRef, Shutdown, ShutdownAbort, ShutdownWait, Destroy, Free
<1>4. ASSUME NEW l \in Loops, LoopStep(l) PROVE Stands'
  <2>1. \/ UNCHANGED <<is, ffp>>
        \/ \E on \in BOOLEAN : TogglePause(on)
        \/ StreamSeek /\ (UNCHANGED ffp \/ ffp' = [ffp EXCEPT !.auto_resume = TRUE])
    BY <1>4 DEF LoopStep, LoopBegin, LoopGet, LoopAborted, LoopPost, LoopReturn, HandlePrepared,
       HandleCompleted, HandleSeekComplete, HandleOther, HandleStart, HandlePause, HandleSeek
  <2>2. UNCHANGED read
    BY <1>4 DEF LoopStep, LoopBegin, LoopGet, LoopAborted, LoopPost, LoopReturn, HandlePrepared,
       HandleCompleted, HandleSeekComplete, HandleOther, HandleStart, HandlePause, HandleSeek
  <2>3. CASE StreamSeek /\ (UNCHANGED ffp \/ ffp' = [ffp EXCEPT !.auto_resume = TRUE])
    <3>1. ffp'.start_on_prepared = ffp.start_on_prepared
      BY <1>0, <2>3 DEF FfpFields
    <3> QED
      BY <1>a, <2>2, <2>3, <3>1, StandsStay
  <2> QED
    BY <1>a, <1>b, <2>1, <2>2, <2>3
<1>5. CASE ReadStep
  <2>a. \A label \in ReadPcs : ReadGoto(label) => read'.pc = label
    BY <1>0 DEF ReadGoto, ReadFields
  <2>1. CASE ReadOpen
    <3>1. read.pc = "open" /\ read'.pc \in {"prepared", "fail"}
      BY <2>1, <2>a DEF ReadOpen, ReadAt, ReadPcs
    <3>2. \/ TogglePause(TRUE)
          \/ UNCHANGED <<is, ffp>> /\ (ffp.start_on_prepared \/ read'.pc = "fail")
      BY <2>1, <2>a DEF ReadOpen, ReadPcs
    <3> QED
      BY <1>a, <3>1, <3>2, StandsStay
  <2>2. CASE ReadCompletePause
    BY <1>a, <2>2 DEF ReadCompletePause
  <2>3. CASE ReadSeekPlay
    <3>1. is'.pause_req => is'.step
      BY <1>0, <2>3 DEF ReadSeekPlay, StreamFields
    <3> QED
      BY <3>1 DEF Stands
  <2>4. CASE ReadFail
    <3>1. read'.pc = "exit" /\ UNCHANGED <<is, ffp>>
      BY <2>4, <2>a DEF ReadFail, ReadPcs
    <3> QED
      BY <3>1, StandsStay
  <2>5. CASE ReadSeek \/ ReadSeekDone \/ ReadRewind
    <3>1. /\ is'.open = is.open /\ is'.pause_req = is.pause_req
          /\ is'.paused = is.paused /\ is'.step = is.step
          /\ is'.abort_request = is.abort_request
          /\ ffp'.start_on_prepared = ffp.start_on_prepared
          /\ read.pc \notin {"open", "fail", "exit"}
      BY <1>0, <1>a, <2>5 DEF ReadSeek, ReadSeekDone, ReadRewind, ReadAt, StreamFields, FfpFields
    <3> QED
      BY <3>1, StandsStay
  <2>6. CASE ReadPrepared \/ ReadWaitStart \/ ReadAutoResume \/ ReadResumed \/ ReadLoop
             \/ ReadSeekNotify \/ ReadPacket \/ ReadIdle \/ ReadComplete \/ ReadCompleteNotify
    <3>1. /\ UNCHANGED is /\ ffp'.start_on_prepared = ffp.start_on_prepared
          /\ read.pc \notin {"open", "fail", "exit"}
      BY <1>0, <2>6 DEF ReadPrepared, ReadWaitStart, ReadAutoResume, ReadResumed, ReadLoop,
         ReadSeekNotify, ReadPacket, ReadIdle, ReadComplete, ReadCompleteNotify, ReadAt, FfpFields
    <3> QED
      BY <3>1, StandsStay
  <2> QED
    BY <1>5, <2>1, <2>2, <2>3, <2>4, <2>5, <2>6 DEF ReadStep
<1>6. CASE Drain
  <2>1. /\ is'.open = is.open /\ is'.pause_req = is.pause_req
        /\ is'.paused = is.paused /\ is'.step = is.step
        /\ is'.abort_request = is.abort_request
        /\ ffp'.start_on_prepared = ffp.start_on_prepared /\ UNCHANGED read
    BY <1>0, <1>6 DEF Drain, StreamFields, FfpFields
  <2> QED
    BY <2>1, StandsStay
<1>7. CASE StepShown
  <2>1. is'.pause_req => is'.paused
    BY <1>0, <1>7 DEF StepShown, StreamFields
  <2> QED
    BY <2>1 DEF Stands
<1>8. CASE UNCHANGED vars
  BY <1>8, <1>b DEF vars
<1> QED
  BY <1>1, <1>2, <1>3, <1>4, <1>5, <1>6, <1>7, <1>8 DEF Next, Step

\* One application thread that pauses and stops at such times only: a player that says
\* PAUSED stands still but for the frame of a seek, as toggle_pause's comment says.  The
\* order of toggle_pause_l's two lines is all that breaks it in PlayerPauseTwice.cfg.
THEOREM PauseStandsStill ==
  ASSUME NEW a, Apps = {a} PROVE Spec /\ FrameBeforePause => []PausedStandsStill
<1>1. Init => Whole /\ Seeks /\ Stands
  <2>1. ASSUME Init PROVE /\ ~mp.seek_req /\ ~is.open /\ read.pc = "none"
    BY <2>1 DEF Init, NoStream
  <2>2. Init => Seeks /\ Stands
    BY <2>1 DEF Seeks, Seeking, HasReader, AbortSeen, StopSeen, Seekable, Sought, Stands
  <2> QED
    BY <2>2, InitIInv, EmptyQueue, InitSession DEF Whole
<1>2. ASSUME Whole, Seeks, Stands, [Next]_vars,
             [is.step /\ ~is'.step => StepShown \/ ~is'.pause_req \/ ~is'.open]_vars
      PROVE  Whole' /\ Seeks' /\ Stands'
  <2>1. FrameFirst
    BY <1>2 DEF FrameFirst, vars
  <2> QED
    BY <1>2, <2>1, NextSession, NextSeeks, StandsKept DEF Whole
<1>3. ASSUME Whole, Seeks, Stands PROVE PausedStandsStill
  <2> SUFFICES ASSUME mp_state = "PAUSED", is.open PROVE is.paused \/ is.step
    BY DEF PausedStandsStill
  <2>1. life # "aborted" /\ is.pause_req
    BY <1>3 DEF Whole, Session, Still
  <2>2. ~is.abort_request => read.pc \notin OpeningPcs
    BY <1>3, <2>1 DEF Seeks, Seeking, Seekable
  <2> QED
    BY <1>3, <2>1, <2>2 DEF Stands, OpeningPcs
<1> QED
  BY <1>1, <1>2, <1>3, PTL DEF Spec, FrameBeforePause
==============================================================================
