----------------------------- MODULE MessageQueue -----------------------------
(***************************************************************************)
(* ff_ffmsg_queue.h: the queue between the player's threads and the        *)
(* message loop.  Every operation holds q->mutex from its first to its     *)
(* last line, so each is one function of the queue.  The recycle list and  *)
(* the payload of a message are memory management and are left out.        *)
(***************************************************************************)
EXTENDS Naturals, Sequences

\* MessageQueue: the fields the operations below read and write.
Queue(Msg) == [abort_request : BOOLEAN, msgs : Seq(Msg)]

\* msg_queue_init: created aborted, so nothing is queued before the first start.
InitQueue == [abort_request |-> TRUE, msgs |-> <<>>]

\* msg_queue_put: an aborted queue drops the message.
Put(q, m) ==
  IF q.abort_request THEN q ELSE [q EXCEPT !.msgs = Append(@, m)]

\* Mutant of RemoveKind: drops every message.
RemoveAll(q, what) == IF q.abort_request THEN q ELSE [q EXCEPT !.msgs = <<>>]

\* The messages of the other kinds, in their order.
Without(msgs, what) ==
  LET kept[i \in 0..Len(msgs)] ==
        IF i = 0 THEN <<>>
        ELSE IF msgs[i].what = what THEN kept[i - 1] ELSE Append(kept[i - 1], msgs[i])
  IN  kept[Len(msgs)]

\* msg_queue_remove: drops every message of one kind, keeps the others in order;
\* does nothing on an aborted queue.
RemoveKind(q, what) ==
  IF q.abort_request THEN q ELSE [q EXCEPT !.msgs = Without(@, what)]

\* msg_queue_abort: what is queued stays queued.
Abort(q) == [q EXCEPT !.abort_request = TRUE]

\* msg_queue_start: what an earlier session left queued stays queued, in front.
StartQueue(q, flush) == Put([q EXCEPT !.abort_request = FALSE], flush)

\* Mutant of GetAborted: a getter sleeps on while messages are left.
GetAbortedWhenEmpty(q) == q.abort_request /\ q.msgs = <<>>

\* msg_queue_get, blocking: the caller sleeps while neither of these holds.  One
\* SDL_CondSignal goes with each put and abort: enough for one message thread.  Of two
\* that sleep, which takes a prepare that races a release, an abort may leave one.
GetAborted(q) == q.abort_request
GetReady(q)   == ~q.abort_request /\ q.msgs # <<>>

Holds(q, what) == \E i \in DOMAIN q.msgs : q.msgs[i].what = what
================================================================================
