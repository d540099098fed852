------------------------------- MODULE IOCache -------------------------------
(***************************************************************************)
(* The "cache:" protocol of ijkiocache.c under ijkiomanager.c: one file    *)
(* read through a cache file, in which a tree of entries says where each   *)
(* range of it is kept.  cache_file_forwards_capacity chooses, per open,   *)
(* between a caller that fetches what it misses itself (0) and a task of   *)
(* the thread pool that fetches ahead of it.  The manager saves the tree   *)
(* in the cache map when it is destroyed and parses it in a later session; *)
(* the process may die at any time.                                        *)
(*                                                                         *)
(* A section under c->file_mutex is one step.  The task tests the abort,   *)
(* the seek, the room and the end without the mutex: each test is a step   *)
(* of its own.  A byte is its offset.  Reads and writes of the cache file  *)
(* do not fail, the map is not shared, and the inner protocol announces    *)
(* the length of the file.                                                 *)
(***************************************************************************)
EXTENDS Integers, Sequences, FiniteSets

CONSTANTS
  FileSize,     \* logical_size
  Forwards,     \* cache_file_forwards_capacity of an asynchronous open
  Chunk,        \* the 4096 bytes of one inner read of the task
  MaxCapacity,  \* cache_max_capacity
  LazySize,     \* the 200 KiB in the cache that put off the inner open
  ReadSizes,    \* bound: what the caller asks for
  SeekTargets,  \* bound: where it seeks to
  MaxOpens      \* bound: opens of the file

ASSUME IOCacheAssumption ==
  /\ FileSize \in Nat \ {0} /\ Forwards \in Nat \ {0} /\ Chunk \in Nat \ {0}
  /\ MaxCapacity \in Nat /\ MaxCapacity > Forwards + Chunk   \* or the task never rests
  /\ \A n \in ReadSizes : MaxCapacity > n
  /\ LazySize \in Nat /\ ReadSizes \subseteq Nat \ {0} /\ SeekTargets \subseteq 0..FileSize
  /\ MaxOpens \in Nat

VARIABLES
  disk,                \* the cache file's bytes
  map,                 \* the trees of the saved cache map, one or none
  manager,             \* the manager lives: its tree and position are in memory
  tree_info, last_physical_pos,
  fd_pos,              \* the offset of the shared file descriptor
  cache_physical_pos,  \* ... as the context remembers it
  forwards,            \* cache_file_forwards_capacity of this open; 0: synchronous
  async_open,          \* the inner protocol is opened when it is first needed
  inner_pos,           \* where it stands: read_inner_pos or file_inner_pos
  read_logical_pos, file_logical_pos,
  io_eof_reached, io_error,
  seek_request, seek_completed, seek_pos,
  abort_request,       \* c->abort_request, or the interrupt callback
  task,                \* where the task of the pool is
  fetched,             \* the bytes it has read and not stored
  caller,              \* where the thread that uses the protocol is
  to_read, dest,       \* what is left of its read, and what it has
  asleep,              \* the threads in pthread_cond_wait
  position, answer,    \* what the calls add up to for the caller: see FileReader
  opens,
  outdated, stale,     \* history: the file is filled again from its start after the map
                       \* was saved; the process died so, and the map saved is of
                       \* another content, until it and what a read has of it
                       \* are dropped;
  failing              \* the inner protocol has failed the task since the last seek

file == <<disk, map>>
memory == <<manager, tree_info, last_physical_pos>>
offsets == <<fd_pos, cache_physical_pos>>
ends == <<io_eof_reached, io_error, failing>>
seeking == <<seek_request, seek_completed, seek_pos>>
session == <<forwards, async_open, opens>>
history == <<outdated, stale>>
call == <<to_read, dest, position, answer>>
vars == <<file, memory, offsets, session, inner_pos, read_logical_pos, file_logical_pos,
          ends, seeking, abort_request, task, fetched, caller, call, asleep, history>>

Reader == INSTANCE FileReader

Least(a, b) == IF a < b THEN a ELSE b
Synchronous == forwards = 0

NoTree == [entries |-> {}, physical_size |-> 0, file_size |-> 0]

--------------------------------------------------------------------------------
(* The tree of entries and the cache file. *)

\* The entry ijk_av_tree_find returns or leaves in next[0], as a set of at most one,
\* and where the one in next[1] starts.
Floor(pos) ==
  {e \in tree_info.entries :
     /\ e.logical <= pos
     /\ \A f \in tree_info.entries : f.logical <= pos => f.logical <= e.logical}

NextStart(pos) ==
  LET above == {e.logical : e \in {f \in tree_info.entries : f.logical > pos}}
  IN IF above = {} THEN FileSize + MaxCapacity
     ELSE CHOOSE l \in above : \A k \in above : l <= k

Holding(pos) == {e \in Floor(pos) : pos < e.logical + e.size}

\* read(): n bytes of the cache file from p on, or what there is.
Kept(p, n) == SubSeq(disk, p + 1, Least(p + n, Len(disk)))

\* write(): over what is there and past the end.
Written(p, bytes) ==
  SubSeq(disk, 1, p) \o bytes \o SubSeq(disk, p + Len(bytes) + 1, Len(disk))

\* The end of add_entry and of sync_add_entry: the range grows the entry it follows in
\* the file and in the cache file, or gets one of its own.
Entered(info, logical, p, n) ==
  LET before == {e \in info.entries :
                   e.logical + e.size = logical /\ e.physical + e.size = p}
      entry == IF before = {} THEN [logical |-> logical, physical |-> p, size |-> n]
               ELSE LET e == CHOOSE e \in before : TRUE IN [e EXCEPT !.size = @ + n]
  IN [info EXCEPT !.entries = (@ \ before) \cup {entry}, !.physical_size = @ + n]

--------------------------------------------------------------------------------
(* Sessions: the manager, open, close, and what may happen to the process. *)

\* A context as calloc leaves it ...
NewContext ==
  /\ inner_pos' = 0 /\ read_logical_pos' = 0 /\ file_logical_pos' = 0
  /\ io_eof_reached' = FALSE /\ io_error' = "none" /\ failing' = FALSE
  /\ seek_request' = FALSE /\ seek_completed' = FALSE /\ seek_pos' = 0
  /\ abort_request' = FALSE
  /\ fetched' = <<>>
  /\ to_read' = 0 /\ dest' = <<>> /\ position' = 0 /\ answer' = Reader!NoAnswer
  /\ asleep' = {}

\* ... is freed, and with it what it remembers of the file descriptor.
NoContext ==
  /\ NewContext
  /\ fd_pos' = 0 /\ cache_physical_pos' = 0 /\ forwards' = 0 /\ async_open' = FALSE
  /\ task' = "off" /\ caller' = "closed"

Init ==
  /\ disk = <<>> /\ map = {}
  /\ manager = FALSE /\ tree_info = NoTree /\ last_physical_pos = 0
  /\ fd_pos = 0 /\ cache_physical_pos = 0
  /\ forwards = 0 /\ async_open = FALSE /\ opens = 0
  /\ inner_pos = 0 /\ read_logical_pos = 0 /\ file_logical_pos = 0
  /\ io_eof_reached = FALSE /\ io_error = "none" /\ failing = FALSE
  /\ seek_request = FALSE /\ seek_completed = FALSE /\ seek_pos = 0
  /\ abort_request = FALSE
  /\ task = "off" /\ fetched = <<>>
  /\ caller = "closed" /\ to_read = 0 /\ dest = <<>>
  /\ position = 0 /\ answer = Reader!NoAnswer
  /\ asleep = {}
  /\ outdated = FALSE /\ stale = FALSE

\* Mutant of Parsed: a map is believed whatever is left of the cache file.
ParsedBlindly == IF map = {} THEN NoTree ELSE CHOOSE info \in map : TRUE

\* What a new manager takes over: nothing if the cache file is shorter than the map
\* says; the map stays where it is.  Without a map the cache file is emptied.
Parsed ==
  LET whole == {info \in map : info.physical_size <= Len(disk)}
  IN IF whole = {} THEN NoTree ELSE CHOOSE info \in whole : TRUE

\* ijkio_manager_io_open and ijkio_cache_open.  Enough in the cache puts off the
\* inner open; without it the tree takes the length from the inner protocol.
Open(capacity) ==
  /\ caller = "closed" /\ opens < MaxOpens
  /\ LET info == IF manager THEN tree_info ELSE Parsed
         last == IF manager THEN last_physical_pos ELSE info.physical_size
         lazy == info.physical_size > LazySize /\ info.file_size > 0
     IN /\ tree_info' = [info EXCEPT !.file_size = FileSize]
        /\ last_physical_pos' = last
        /\ fd_pos' = last /\ cache_physical_pos' = last
        /\ async_open' = lazy
        /\ stale' = (stale /\ info.entries # {})
        /\ outdated' = (outdated \/ (~manager /\ info \notin map))
  /\ disk' = IF ~manager /\ map = {} THEN <<>> ELSE disk
  /\ manager' = TRUE
  /\ forwards' = capacity
  /\ task' = IF capacity > 0 THEN "queued" ELSE "off"
  /\ opens' = opens + 1
  /\ caller' = "idle"
  /\ NewContext
  /\ UNCHANGED map

Close ==
  /\ caller = "idle"
  /\ abort_request' = TRUE
  /\ asleep' = asleep \ {"task"}
  /\ caller' = "closing"
  /\ UNCHANGED <<file, memory, offsets, session, inner_pos, read_logical_pos,
                 file_logical_pos, ends, seeking, task, fetched, call, history>>

Closed ==
  /\ caller = "closing" /\ task = "off"
  /\ NoContext
  /\ UNCHANGED <<file, memory, opens, history>>

\* ijkio_manager_destroy with auto_save_map: the map is written over.
Destroy ==
  /\ caller = "closed" /\ manager
  /\ manager' = FALSE
  /\ map' = {tree_info}
  /\ tree_info' = NoTree /\ last_physical_pos' = 0
  /\ outdated' = FALSE
  /\ UNCHANGED <<disk, offsets, session, inner_pos, read_logical_pos, file_logical_pos,
                 ends, seeking, abort_request, task, fetched, caller, call, asleep,
                 stale>>

\* The process dies.  If it was writing the map, the map is what was written: nothing,
\* or the tree with the first of its entries.
Die ==
  /\ manager
  /\ \/ map' = map /\ stale' = (stale \/ (outdated /\ map # {}))
     \/ /\ caller = "closed"
        /\ \/ map' = {}
           \/ \E l \in 0..FileSize :
                map' = {[tree_info EXCEPT !.entries = {e \in @ : e.logical < l}]}
        /\ stale' = stale
  /\ manager' = FALSE /\ tree_info' = NoTree /\ last_physical_pos' = 0
  /\ outdated' = FALSE
  /\ NoContext
  /\ UNCHANGED <<disk, opens>>

\* Between two sessions the cache file may lose its end.
Shorten ==
  /\ ~manager
  /\ \E n \in 0..Len(disk) - 1 : disk' = SubSeq(disk, 1, n)
  /\ UNCHANGED <<map, memory, offsets, session, inner_pos, read_logical_pos,
                 file_logical_pos, ends, seeking, abort_request, task, fetched, caller,
                 call, asleep, history>>

--------------------------------------------------------------------------------
(* Calls, synchronous. *)

\* A read of n bytes answers, the synchronous one in the step that is made.
Answer(kind, bytes) ==
  /\ answer' = [kind |-> kind, bytes |-> bytes]
  /\ position' = position + Len(bytes)

\* Where the file descriptor is when the range at e for read_logical_pos is read: it
\* is moved unless the context remembers it there.
Target(e) == e.physical + read_logical_pos - e.logical
Moved(target) == IF cache_physical_pos = target THEN fd_pos ELSE target

\* Mutant of SyncRead: the offset is not followed.
SyncReadForgets(n) ==
  /\ caller = "idle" /\ Synchronous
  /\ \E e \in Holding(read_logical_pos) :
       LET from == Moved(Target(e))
           bytes == Kept(from, Least(n, e.logical + e.size - read_logical_pos))
       IN /\ fd_pos' = from + Len(bytes)
          /\ cache_physical_pos' = Target(e)
          /\ read_logical_pos' = read_logical_pos + Len(bytes)
          /\ Answer(IF bytes = <<>> THEN "eof" ELSE "data", bytes)
  /\ UNCHANGED <<file, memory, session, inner_pos, file_logical_pos, ends, seeking,
                 abort_request, task, fetched, caller, to_read, dest, asleep, history>>

\* ijkio_cache_sync_read: from the cache file ...
SyncRead(n) ==
  /\ caller = "idle" /\ Synchronous
  /\ \E e \in Holding(read_logical_pos) :
       LET from == Moved(Target(e))
           bytes == Kept(from, Least(n, e.logical + e.size - read_logical_pos))
       IN /\ fd_pos' = from + Len(bytes)
          /\ cache_physical_pos' = Target(e) + Len(bytes)
          /\ read_logical_pos' = read_logical_pos + Len(bytes)
          /\ Answer(IF bytes = <<>> THEN "eof" ELSE "data", bytes)
  /\ UNCHANGED <<file, memory, session, inner_pos, file_logical_pos, ends, seeking,
                 abort_request, task, fetched, caller, to_read, dest, asleep, history>>

\* ... at the end ...
SyncEnd ==
  /\ caller = "idle" /\ Synchronous
  /\ Holding(read_logical_pos) = {} /\ read_logical_pos >= FileSize
  /\ io_eof_reached' = TRUE
  /\ Answer("eof", <<>>)
  /\ UNCHANGED <<file, memory, offsets, session, inner_pos, read_logical_pos,
                 file_logical_pos, io_error, failing, seeking, abort_request, task,
                 fetched, caller, to_read, dest, asleep, history>>

\* ... or from the inner protocol, which may fail to open, to seek or to read.
SyncMisses ==
  /\ caller = "idle" /\ Synchronous
  /\ Holding(read_logical_pos) = {} /\ read_logical_pos < FileSize

SyncFail ==
  /\ SyncMisses
  /\ Answer("error", <<>>)
  /\ \/ async_open /\ UNCHANGED <<async_open, inner_pos>>
     \/ inner_pos # read_logical_pos /\ async_open' = FALSE /\ UNCHANGED inner_pos
     \/ async_open' = FALSE /\ inner_pos' = read_logical_pos
  /\ UNCHANGED <<file, memory, offsets, forwards, opens, read_logical_pos,
                 file_logical_pos, ends, seeking, abort_request, task, fetched, caller,
                 to_read, dest, asleep, history>>

\* Mutant of Overrun: off by one.
OverrunLate(n) == last_physical_pos + n > MaxCapacity

\* When add_entry calls ijkio_cache_file_overrang, which empties the tree, file_size too.
Overrun(n) == last_physical_pos + n >= MaxCapacity

\* ijkio_cache_sync_read and sync_add_entry.
SyncFetch(n) ==
  /\ SyncMisses
  /\ \E m \in 1..Least(n, NextStart(read_logical_pos) - read_logical_pos) :
       LET bytes == Reader!Bytes(read_logical_pos, m)
           over == Overrun(m)
           p == IF over THEN 0 ELSE last_physical_pos
           at == IF over THEN 0
                 ELSE IF cache_physical_pos # last_physical_pos THEN last_physical_pos
                 ELSE fd_pos
       IN /\ read_logical_pos + m <= FileSize
          /\ disk' = Written(at, bytes)
          /\ fd_pos' = at + m
          /\ cache_physical_pos' = p + m
          /\ last_physical_pos' = p + m
          /\ LET info == IF over THEN NoTree ELSE tree_info
             IN tree_info' = Entered(info, read_logical_pos, p, m)
          /\ io_eof_reached' = (io_eof_reached /\ ~over)
          /\ file_logical_pos' = IF over THEN read_logical_pos ELSE file_logical_pos
          /\ outdated' = (outdated \/ over)
          /\ stale' = (stale /\ ~over)
          /\ inner_pos' = read_logical_pos + m
          /\ read_logical_pos' = read_logical_pos + m
          /\ Answer("data", bytes)
  /\ async_open' = FALSE
  /\ UNCHANGED <<map, manager, forwards, opens, io_error, failing, seeking,
                 abort_request, task, fetched, caller, to_read, dest, asleep>>

SyncSeek(pos) ==
  /\ caller = "idle" /\ Synchronous
  /\ read_logical_pos' = pos
  /\ position' = pos /\ answer' = [kind |-> "moved", bytes |-> <<>>]
  /\ UNCHANGED <<file, memory, offsets, session, inner_pos, file_logical_pos, ends,
                 seeking, abort_request, task, fetched, caller, to_read, dest, asleep,
                 history>>

--------------------------------------------------------------------------------
(* Calls, asynchronous. *)

\* pthread_cond_signal, each condition with one thread that waits on it.
Wake(thread) == asleep' = asleep \ {thread}
WakeAndSleep(thread, self) == asleep' = (asleep \ {thread}) \cup {self}

Awake(thread) == thread \notin asleep

Read(n) ==
  /\ caller = "idle" /\ ~Synchronous
  /\ caller' = "read" /\ to_read' = n /\ dest' = <<>>
  /\ UNCHANGED <<file, memory, offsets, session, inner_pos, read_logical_pos,
                 file_logical_pos, ends, seeking, abort_request, task, fetched, position,
                 answer, asleep, history>>

Reading == caller = "read" /\ Awake("caller")

Return(kind, bytes) ==
  /\ caller' = "idle" /\ to_read' = 0 /\ dest' = <<>>
  /\ Answer(kind, bytes)

ReadInterrupted ==
  /\ Reading /\ abort_request
  /\ Return("error", <<>>)
  /\ Wake("task")
  /\ UNCHANGED <<file, memory, offsets, session, inner_pos, read_logical_pos,
                 file_logical_pos, ends, seeking, abort_request, task, fetched, history>>

\* ijkio_file_read, which does not take note of where it leaves the file descriptor.
ReadBytes ==
  /\ Reading /\ ~abort_request
  /\ \E e \in Holding(read_logical_pos) :
       LET from == Moved(Target(e))
           bytes == Kept(from, Least(to_read, e.logical + e.size - read_logical_pos))
       IN /\ fd_pos' = from + Len(bytes)
          /\ read_logical_pos' = read_logical_pos + Len(bytes)
          /\ IF Len(bytes) = to_read
             THEN /\ Return("data", dest \o bytes)
                  /\ IF ~io_eof_reached /\ file_logical_pos - read_logical_pos' <= forwards
                     THEN Wake("task") ELSE UNCHANGED asleep
             ELSE /\ dest' = dest \o bytes /\ to_read' = to_read - Len(bytes)
                  /\ WakeAndSleep("task", "caller")
                  /\ UNCHANGED <<caller, position, answer>>
  /\ UNCHANGED <<file, memory, cache_physical_pos, session, inner_pos, file_logical_pos,
                 ends, seeking, abort_request, task, fetched, history>>

ReadEnd ==
  /\ Reading /\ ~abort_request /\ Holding(read_logical_pos) = {} /\ io_eof_reached
  /\ LET ended == IF io_error # "none" THEN "error" ELSE "eof"
     IN Return(IF dest # <<>> THEN "data" ELSE ended, dest)
  /\ Wake("task")
  /\ UNCHANGED <<file, memory, offsets, session, inner_pos, read_logical_pos,
                 file_logical_pos, ends, seeking, abort_request, task, fetched, history>>

\* Mutant of ReadWait: the task is not told.
ReadWaitQuietly ==
  /\ Reading /\ ~abort_request /\ Holding(read_logical_pos) = {} /\ ~io_eof_reached
  /\ asleep' = asleep \cup {"caller"}
  /\ UNCHANGED <<file, memory, offsets, session, inner_pos, read_logical_pos,
                 file_logical_pos, ends, seeking, abort_request, task, fetched, caller,
                 call, history>>

ReadWait ==
  /\ Reading /\ ~abort_request /\ Holding(read_logical_pos) = {} /\ ~io_eof_reached
  /\ WakeAndSleep("task", "caller")
  /\ UNCHANGED <<file, memory, offsets, session, inner_pos, read_logical_pos,
                 file_logical_pos, ends, seeking, abort_request, task, fetched, caller,
                 call, history>>

\* ijkio_cache_seek, to its first wait; after an abort there is none, and no signal.
Seek(pos) ==
  /\ caller = "idle" /\ ~Synchronous
  /\ seek_request' = TRUE /\ seek_pos' = pos /\ seek_completed' = FALSE
  /\ IF abort_request THEN UNCHANGED asleep ELSE WakeAndSleep("task", "caller")
  /\ caller' = "seek"
  /\ UNCHANGED <<file, memory, offsets, session, inner_pos, read_logical_pos,
                 file_logical_pos, ends, abort_request, task, fetched, call, history>>

Seeking == caller = "seek" /\ Awake("caller")

SeekInterrupted ==
  /\ Seeking /\ abort_request
  /\ Return("error", <<>>)
  /\ UNCHANGED <<file, memory, offsets, session, inner_pos, read_logical_pos,
                 file_logical_pos, ends, seeking, abort_request, task, fetched, asleep,
                 history>>

SeekWait ==
  /\ Seeking /\ ~abort_request /\ ~seek_completed
  /\ WakeAndSleep("task", "caller")
  /\ UNCHANGED <<file, memory, offsets, session, inner_pos, read_logical_pos,
                 file_logical_pos, ends, seeking, abort_request, task, fetched, caller,
                 call, history>>

SeekDone ==
  /\ Seeking /\ ~abort_request /\ seek_completed
  /\ caller' = "idle"
  /\ position' = seek_pos /\ answer' = [kind |-> "moved", bytes |-> <<>>]
  /\ UNCHANGED <<file, memory, offsets, session, inner_pos, read_logical_pos,
                 file_logical_pos, ends, seeking, abort_request, task, fetched, to_read,
                 dest, asleep, history>>

\* The player's interrupt callback asks every call to end; the synchronous reader
\* does not ask it.
Interrupt ==
  /\ caller # "closed" /\ ~Synchronous /\ ~abort_request
  /\ abort_request' = TRUE
  /\ UNCHANGED <<file, memory, offsets, session, inner_pos, read_logical_pos,
                 file_logical_pos, ends, seeking, task, fetched, caller, call, asleep,
                 history>>

--------------------------------------------------------------------------------
(* The task: ijkio_cache_task and ijkio_cache_write_file. *)

\* A step of the task from one place to the next.
Task(from, to) == task = from /\ Awake("task") /\ task' = to

Start ==
  /\ Task("queued", "loop")
  /\ UNCHANGED <<file, memory, offsets, session, inner_pos, read_logical_pos,
                 file_logical_pos, ends, seeking, abort_request, fetched, caller, call,
                 asleep, history>>

TestAbort ==
  /\ IF abort_request
     THEN /\ Task("loop", "exit")
          /\ io_eof_reached' = TRUE /\ io_error' = "exit" /\ UNCHANGED failing
     ELSE Task("loop", "serve") /\ UNCHANGED ends
  /\ UNCHANGED <<file, memory, offsets, session, inner_pos, read_logical_pos,
                 file_logical_pos, seeking, abort_request, fetched, caller, call, asleep,
                 history>>

Serve ==
  /\ Task("serve", "test")
  /\ IF seek_request
     THEN /\ io_eof_reached' = FALSE /\ io_error' = "none" /\ failing' = FALSE
          /\ seek_completed' = TRUE /\ seek_request' = FALSE
          /\ read_logical_pos' = seek_pos /\ file_logical_pos' = seek_pos
          /\ Wake("caller")
     ELSE UNCHANGED <<ends, seek_completed, seek_request, read_logical_pos,
                      file_logical_pos, asleep>>
  /\ UNCHANGED <<file, memory, offsets, session, inner_pos, seek_pos, abort_request,
                 fetched, caller, call, history>>

FarEnough == file_logical_pos - read_logical_pos > forwards \/ io_eof_reached

\* The test is made without the mutex that Rest takes.
TestRoom ==
  /\ IF FarEnough THEN Task("test", "rest") ELSE Task("test", "write")
  /\ UNCHANGED <<file, memory, offsets, session, inner_pos, read_logical_pos,
                 file_logical_pos, ends, seeking, abort_request, fetched, caller, call,
                 asleep, history>>

Rest ==
  /\ Task("rest", "loop")
  /\ WakeAndSleep("caller", "task")
  /\ UNCHANGED <<file, memory, offsets, session, inner_pos, read_logical_pos,
                 file_logical_pos, ends, seeking, abort_request, fetched, caller, call,
                 history>>

\* Past the range that holds file_logical_pos.
Uncached ==
  LET skipped == {e.logical + e.size : e \in Holding(file_logical_pos)}
  IN IF skipped = {} THEN file_logical_pos ELSE CHOOSE pos \in skipped : TRUE

\* Up to the next range.
Room == Least(Chunk, NextStart(file_logical_pos) - Uncached)

\* Nothing to fetch here: another range starts, or the file ends.
Skip ==
  /\ Task("write", "loop")
  /\ Room = 0 \/ Uncached >= FileSize
  /\ file_logical_pos' = Uncached
  /\ io_eof_reached' = (io_eof_reached \/ Room # 0)
  /\ UNCHANGED <<file, memory, offsets, session, inner_pos, read_logical_pos, io_error,
                 failing, seeking, abort_request, fetched, caller, call, asleep,
                 history>>

Misses == Room > 0 /\ Uncached < FileSize

Fetch ==
  /\ Task("write", "store") /\ Misses
  /\ \E m \in 1..Room :
       /\ Uncached + m <= FileSize
       /\ fetched' = Reader!Bytes(Uncached, m)
       /\ inner_pos' = Uncached + m
  /\ file_logical_pos' = Uncached
  /\ async_open' = FALSE
  /\ UNCHANGED <<file, memory, offsets, forwards, opens, read_logical_pos, ends, seeking,
                 abort_request, caller, call, asleep, history>>

\* The inner protocol fails to seek: the task takes it for the end.
SeekFails ==
  /\ Task("write", "loop") /\ Misses
  /\ inner_pos # Uncached
  /\ file_logical_pos' = Uncached
  /\ async_open' = FALSE
  /\ io_eof_reached' = TRUE /\ failing' = TRUE
  /\ UNCHANGED <<file, memory, offsets, forwards, opens, inner_pos, read_logical_pos,
                 io_error, seeking, abort_request, fetched, caller, call, asleep,
                 history>>

\* It fails to open or to read: the end is set first, the error after it.
FetchFails ==
  /\ Task("write", "failed") /\ Misses
  /\ file_logical_pos' = Uncached
  /\ io_eof_reached' = TRUE /\ failing' = TRUE
  /\ \/ async_open /\ UNCHANGED <<async_open, inner_pos>>
     \/ async_open' = FALSE /\ inner_pos' = Uncached
  /\ UNCHANGED <<file, memory, offsets, forwards, opens, read_logical_pos, io_error,
                 seeking, abort_request, fetched, caller, call, asleep, history>>

SetError ==
  /\ Task("failed", "loop")
  /\ io_error' = "error"
  /\ UNCHANGED <<file, memory, offsets, session, inner_pos, read_logical_pos,
                 file_logical_pos, io_eof_reached, failing, seeking, abort_request,
                 fetched, caller, call, asleep, history>>

\* add_entry, under the mutex: the range is written where the last one ended ...
Store ==
  /\ ~Overrun(Len(fetched))
  /\ Task("store", "announce")
  /\ disk' = Written(last_physical_pos, fetched)
  /\ fd_pos' = last_physical_pos + Len(fetched)
  /\ cache_physical_pos' = fd_pos'
  /\ last_physical_pos' = fd_pos'
  /\ tree_info' = Entered(tree_info, file_logical_pos, last_physical_pos, Len(fetched))
  /\ file_logical_pos' = file_logical_pos + Len(fetched)
  /\ fetched' = <<>>
  /\ UNCHANGED <<map, manager, session, inner_pos, read_logical_pos, ends, seeking,
                 abort_request, caller, call, asleep, history>>

\* Mutant of Flush: the task goes on where it was.
FlushStays ==
  /\ Overrun(Len(fetched))
  /\ Task("store", "loop")
  /\ last_physical_pos' = 0 /\ fd_pos' = 0 /\ cache_physical_pos' = 0
  /\ io_eof_reached' = FALSE
  /\ fetched' = <<>>
  /\ outdated' = TRUE /\ stale' = (stale /\ dest # <<>>)
  /\ UNCHANGED <<file, manager, tree_info, session, inner_pos, read_logical_pos,
                 file_logical_pos, io_error, failing, seeking, abort_request, caller,
                 call, asleep>>

\* ... or, with no room for it, every range is dropped, this one too, and the task goes
\* back to the reader.
Flush ==
  /\ Overrun(Len(fetched))
  /\ Task("store", "loop")
  /\ tree_info' = NoTree
  /\ last_physical_pos' = 0 /\ fd_pos' = 0 /\ cache_physical_pos' = 0
  /\ io_eof_reached' = FALSE
  /\ file_logical_pos' = read_logical_pos
  /\ fetched' = <<>>
  /\ outdated' = TRUE /\ stale' = (stale /\ dest # <<>>)
  /\ UNCHANGED <<file, manager, session, inner_pos, read_logical_pos, io_error, failing,
                 seeking, abort_request, caller, call, asleep>>

Announce ==
  /\ Task("announce", "loop")
  /\ Wake("caller")
  /\ UNCHANGED <<file, memory, offsets, session, inner_pos, read_logical_pos,
                 file_logical_pos, ends, seeking, abort_request, fetched, caller, call,
                 history>>

Exit ==
  /\ Task("exit", "off")
  /\ Wake("caller")
  /\ UNCHANGED <<file, memory, offsets, session, inner_pos, read_logical_pos,
                 file_logical_pos, ends, seeking, abort_request, fetched, caller, call,
                 history>>

--------------------------------------------------------------------------------

Calls ==
  \/ \E capacity \in {0, Forwards} : Open(capacity)
  \/ \E n \in ReadSizes : SyncRead(n) \/ SyncFetch(n) \/ Read(n)
  \/ SyncEnd \/ SyncFail
  \/ \E pos \in SeekTargets : SyncSeek(pos) \/ Seek(pos)
  \/ Close \/ Destroy

InCall ==
  \/ ReadInterrupted \/ ReadBytes \/ ReadEnd \/ ReadWait
  \/ SeekInterrupted \/ SeekWait \/ SeekDone \/ Closed

TaskStep ==
  \/ Start \/ TestAbort \/ Serve \/ TestRoom \/ Rest
  \/ Skip \/ Fetch \/ SeekFails \/ FetchFails \/ SetError
  \/ Store \/ Flush \/ Announce \/ Exit

Next == Calls \/ InCall \/ Interrupt \/ TaskStep \/ Die \/ Shorten

\* Both threads run, the pool takes the task, and the inner protocol comes back.
Fairness == WF_vars(InCall) /\ WF_vars(TaskStep)

Spec == Init /\ [][Next]_vars /\ Fairness

--------------------------------------------------------------------------------

TypeOK ==
  /\ disk \in Seq(0..FileSize - 1) /\ Len(disk) < MaxCapacity
  /\ \A info \in map \cup {tree_info} :
       /\ info.physical_size < MaxCapacity
       /\ \A e \in info.entries :
            /\ e.size > 0 /\ e.logical + e.size <= FileSize
            /\ e.physical + e.size <= info.physical_size
  /\ manager \in BOOLEAN /\ last_physical_pos = tree_info.physical_size
  /\ fd_pos \in 0..Len(disk) \/ caller = "closed"
  /\ forwards \in {0, Forwards} /\ async_open \in BOOLEAN /\ inner_pos \in 0..FileSize
  /\ read_logical_pos \in 0..FileSize /\ file_logical_pos \in 0..FileSize
  /\ io_eof_reached \in BOOLEAN /\ io_error \in {"none", "error", "exit"}
  /\ task \in {"off", "queued", "loop", "serve", "test", "rest", "write", "failed", "store",
               "announce", "exit"}
  /\ caller \in {"closed", "idle", "read", "seek", "closing"}
  /\ to_read \in ReadSizes \cup 0..MaxCapacity /\ asleep \subseteq {"caller", "task"}

\* Every range of the tree is in the cache file, byte for byte, and no two ranges
\* overlap: over both ways to fetch, the reuse of the file after a flush, sessions that
\* end anywhere and a file that was cut short.  Excused is a tree parsed from a map that
\* was out of date when the process died: after a flush, or after an open that passed
\* the map over for a cut file.
RangesAreOfTheFile ==
  ~stale => \A e \in tree_info.entries :
    /\ Kept(e.physical, e.size) = Reader!Bytes(e.logical, e.size)
    /\ \A f \in tree_info.entries \ {e} :
         e.logical + e.size <= f.logical \/ f.logical + f.size <= e.logical

\* Neither thread waits for the other while that one waits: what the reader waits for
\* is under way, and the task sleeps through no request for a seek.
SleepersHaveAPartner ==
  "caller" \in asleep => "task" \notin asleep /\ task # "off"

\* Every read and every seek comes back.  A close may not: see the README.
CallsReturn == caller \in {"read", "seek"} ~> caller \notin {"read", "seek"}

\* ijkio_cache_write_file sets the end before the error, and sets no error for a seek
\* that failed: of an asynchronous read such a failure may be reported as the end.
EarlyEnd ==
  /\ ~Synchronous /\ failing
  /\ answer'.kind = "eof" /\ UNCHANGED position

\* The caller reads the bytes of the file in order from where it has been told it is,
\* whatever part of them comes from the cache file, and is told of the end at the end
\* only, EarlyEnd and a stale map apart.
IsFileReader ==
  Reader!ReaderInit /\ [][Reader!ReaderNext \/ EarlyEnd \/ stale]_Reader!readerVars
================================================================================
