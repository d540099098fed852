---------------------------- MODULE IOCacheProofs ----------------------------
(***************************************************************************)
(* Theorems about IOCache for a file, a cache and a chunk of any size and  *)
(* any number of sessions.                                                 *)
(***************************************************************************)
EXTENDS IOCache, SequenceTheorems, WellFoundedInduction, TLAPS

--------------------------------------------------------------------------------
(* The inductive invariant. *)

Entries == [logical : Nat, physical : Nat, size : Nat]
Trees == [entries : SUBSET Entries, physical_size : Nat, file_size : Nat]

\* The ranges of a tree are in the file and in its part of the cache file.
Within(info) ==
  /\ info \in Trees
  /\ info.physical_size < MaxCapacity
  /\ \A e \in info.entries :
       /\ e.size > 0 /\ e.logical + e.size <= FileSize
       /\ e.physical + e.size <= info.physical_size

Apart(e, logical, n) == e.logical + e.size <= logical \/ logical + n <= e.logical

\* ... do not overlap, and are in the bytes of the cache file what they are in the file.
Good(bytes, info) ==
  /\ \A e, f \in info.entries : e # f => Apart(e, f.logical, f.size)
  /\ \A e \in info.entries : \A i \in 1..e.size : bytes[e.physical + i] = e.logical + i - 1

Types ==
  /\ disk \in Seq(0..FileSize - 1) /\ Len(disk) < MaxCapacity
  /\ Within(tree_info) /\ \A info \in map : Within(info)
  /\ manager \in BOOLEAN /\ last_physical_pos = tree_info.physical_size
  /\ fd_pos \in 0..Len(disk) /\ cache_physical_pos \in Nat
  /\ forwards \in {0, Forwards} /\ async_open \in BOOLEAN /\ inner_pos \in 0..FileSize
  /\ read_logical_pos \in 0..FileSize /\ file_logical_pos \in 0..FileSize
  /\ seek_pos \in 0..FileSize
  /\ io_eof_reached \in BOOLEAN /\ io_error \in {"none", "error", "exit"}
  /\ task \in {"off", "queued", "loop", "serve", "test", "rest", "write", "failed", "store",
               "announce", "exit"}
  /\ caller \in {"closed", "idle", "read", "seek", "closing"}
  /\ to_read \in 0..MaxCapacity /\ asleep \subseteq {"caller", "task"}
  /\ stale \in BOOLEAN /\ outdated \in BOOLEAN /\ abort_request \in BOOLEAN

\* Which thread is where, in which mode.
Threads ==
  /\ ~manager => caller = "closed" /\ tree_info = NoTree /\ ~outdated
  /\ caller = "closed" => forwards = 0 /\ fd_pos = 0 /\ cache_physical_pos = 0
  /\ Synchronous => task = "off" /\ asleep = {} /\ caller \notin {"read", "seek"}
  /\ ~Synchronous /\ task \in {"exit", "off"} => abort_request
  /\ "task" \in asleep => task = "loop"
  /\ "caller" \in asleep => caller \in {"read", "seek"}

\* The descriptor's offset, where it is used: the synchronous mode follows it, the
\* task's is at the end of what is kept.
Offsets ==
  /\ manager => last_physical_pos <= Len(disk)
  /\ Synchronous => cache_physical_pos = fd_pos
  /\ ~Synchronous => cache_physical_pos = last_physical_pos

\* The tree is right, and so is the map, if the session is to take it over, until the
\* cache file is filled again from its start.
Contents ==
  /\ ~stale => Good(disk, tree_info)
  /\ \A info, other \in map : info = other
  /\ ~stale /\ ~outdated =>
       \A info \in map :
         /\ info.physical_size <= Len(disk) => Good(disk, info)
         /\ manager => info.physical_size <= last_physical_pos
  /\ stale /\ manager /\ tree_info.entries = {} => outdated

\* What the task has read goes where there is nothing yet.
Fetched ==
  task = "store" =>
    /\ fetched \in Seq(0..FileSize - 1) /\ fetched # <<>>
    /\ file_logical_pos + Len(fetched) <= FileSize
    /\ fetched = Reader!Bytes(file_logical_pos, Len(fetched))
    /\ ~stale => \A e \in tree_info.entries : Apart(e, file_logical_pos, Len(fetched))

IInv == Types /\ Threads /\ Offsets /\ Contents /\ Fetched /\ SleepersHaveAPartner
--------------------------------------------------------------------------------
(* The bytes. *)

LEMMA Bounds ==
  /\ FileSize \in Nat /\ FileSize > 0 /\ Forwards \in Nat /\ Forwards > 0
  /\ Chunk \in Nat /\ Chunk > 0 /\ MaxCapacity \in Nat /\ MaxCapacity > Chunk
  /\ \A n \in ReadSizes : n \in Nat /\ n > 0 /\ n < MaxCapacity
  /\ SeekTargets \subseteq 0..FileSize
  BY IOCacheAssumption DEF IOCacheAssumption

LEMMA FileBytes ==
  ASSUME NEW from \in Nat, NEW n \in Nat, from + n <= FileSize
  PROVE  /\ Reader!Bytes(from, n) \in Seq(0..FileSize - 1)
         /\ Len(Reader!Bytes(from, n)) = n
         /\ \A i \in 1..n : Reader!Bytes(from, n)[i] = from + i - 1
<1>1. \A i \in 1..n : from + i - 1 \in 0..FileSize - 1
  BY Bounds
<1> QED
  BY <1>1 DEF Reader!Bytes

LEMMA DiskBytes ==
  ASSUME disk \in Seq(0..FileSize - 1)
  PROVE  Len(disk) \in Nat /\ \A i \in 1..Len(disk) : disk[i] \in 0..FileSize - 1
  BY ElementOfSeq, LenProperties

\* What is read from the cache file are its bytes, as many as there are.
LEMMA KeptIs ==
  ASSUME disk \in Seq(0..FileSize - 1), NEW p \in Nat, NEW n \in Nat, p <= Len(disk)
  PROVE  /\ Kept(p, n) \in Seq(0..FileSize - 1)
         /\ Len(Kept(p, n)) \in Nat /\ Len(Kept(p, n)) <= n
         /\ p + Len(Kept(p, n)) <= Len(disk)
         /\ p + n <= Len(disk) => Len(Kept(p, n)) = n
         /\ \A i \in 1..Len(Kept(p, n)) : Kept(p, n)[i] = disk[p + i]
<1> DEFINE last == Least(p + n, Len(disk))
<1>1. Len(disk) \in Nat /\ \A i \in 1..Len(disk) : disk[i] \in 0..FileSize - 1
  BY DiskBytes
<1>2. last \in Nat /\ last <= Len(disk) /\ p <= last /\ last <= p + n
      /\ (p + n <= Len(disk) => last = p + n)
  BY <1>1 DEF Least
<1>3. Kept(p, n) = SubSeq(disk, p + 1, last)
  BY DEF Kept
<1> HIDE DEF last
<1>4. p + 1 \in Int /\ last \in Int /\ \A i \in p + 1 .. last : disk[i] \in 0..FileSize - 1
  BY <1>1, <1>2
<1>5. /\ Kept(p, n) \in Seq(0..FileSize - 1)
      /\ Len(Kept(p, n)) = IF p + 1 <= last THEN last - (p + 1) + 1 ELSE 0
      /\ \A i \in 1 .. last - (p + 1) + 1 : Kept(p, n)[i] = disk[p + 1 + i - 1]
  BY <1>3, <1>4, SubSeqProperties
<1>6. Len(Kept(p, n)) = last - p
  BY <1>2, <1>5
<1>7. \A i \in 1..Len(Kept(p, n)) : Kept(p, n)[i] = disk[p + i]
  <2> TAKE i \in 1..Len(Kept(p, n))
  <2>1. i \in 1 .. last - (p + 1) + 1 /\ p + 1 + i - 1 = p + i
    BY <1>2, <1>6
  <2> QED
    BY <1>5, <2>1
<1> QED
  BY <1>1, <1>2, <1>5, <1>6, <1>7

\* A write replaces the bytes from p on and leaves those before.
LEMMA WrittenIs ==
  ASSUME disk \in Seq(0..FileSize - 1), NEW p \in Nat, p <= Len(disk),
         NEW bytes \in Seq(0..FileSize - 1)
  PROVE  /\ Written(p, bytes) \in Seq(0..FileSize - 1)
         /\ Len(Written(p, bytes))
              = IF p + Len(bytes) > Len(disk) THEN p + Len(bytes) ELSE Len(disk)
         /\ \A i \in 1..p : Written(p, bytes)[i] = disk[i]
         /\ \A i \in 1..Len(bytes) : Written(p, bytes)[p + i] = bytes[i]
<1> DEFINE S == 0..FileSize - 1
           from == p + Len(bytes) + 1
           last == Len(disk)
           head == SubSeq(disk, 1, p)
           rest == SubSeq(disk, from, last)
<1>1. Len(disk) \in Nat /\ \A i \in 1..Len(disk) : disk[i] \in S
  BY DiskBytes
<1>2. Len(bytes) \in Nat
  BY LenProperties
<1>4. \A i \in 1..p : disk[i] \in S
  BY <1>1
<1>5. head \in Seq(S) /\ Len(head) = p /\ \A i \in 1..p : head[i] = disk[i]
  <2>1. /\ head \in Seq(S) /\ Len(head) = IF 1 <= p THEN p - 1 + 1 ELSE 0
        /\ \A i \in 1 .. p - 1 + 1 : head[i] = disk[1 + i - 1]
    BY <1>4, SubSeqProperties
  <2>2. ASSUME NEW i \in 1..p PROVE head[i] = disk[i]
    <3>1. i \in 1 .. p - 1 + 1 /\ 1 + i - 1 = i
      OBVIOUS
    <3> QED
      BY <2>1, <3>1
  <2> QED
    BY <2>1, <2>2
<1>6. from \in Int /\ last \in Int /\ \A i \in from .. last : disk[i] \in S
  BY <1>1, <1>2
<1>7. rest \in Seq(S) /\ Len(rest) = IF from <= last THEN last - from + 1 ELSE 0
  <2> HIDE DEF from, last
  <2> QED
    BY <1>6, SubSeqProperties
<1>8. Written(p, bytes) = (head \o bytes) \o rest
  BY DEF Written
<1>8a. head \in Seq(S) /\ Len(head) = p
  BY <1>5
<1>8b. \A i \in 1..p : head[i] = disk[i]
  BY <1>5
<1>8c. rest \in Seq(S) /\ Len(rest) = IF from <= last THEN last - from + 1 ELSE 0
  BY <1>7
<1> HIDE DEF head, rest, S
<1>9. /\ head \o bytes \in Seq(S) /\ Len(head \o bytes) = p + Len(bytes)
      /\ \A i \in 1 .. p + Len(bytes) :
           (head \o bytes)[i] = IF i <= p THEN head[i] ELSE bytes[i - p]
  <2>1. bytes \in Seq(S)
    BY DEF S
  <2> QED
    BY <1>8a, <1>8b, <2>1, ConcatProperties
<1> DEFINE front == head \o bytes
<1>10. front \in Seq(S) /\ Len(front) = p + Len(bytes)
  BY <1>9
<1>11. \A i \in 1 .. p + Len(bytes) : front[i] = IF i <= p THEN head[i] ELSE bytes[i - p]
  BY <1>9
<1>12. Written(p, bytes) = front \o rest
  BY <1>8
<1> HIDE DEF front
<1>13. /\ front \o rest \in Seq(S) /\ Len(front \o rest) = Len(front) + Len(rest)
       /\ \A i \in 1 .. Len(front) + Len(rest) :
            (front \o rest)[i] = IF i <= Len(front) THEN front[i] ELSE rest[i - Len(front)]
  <2>1. front \in Seq(S) /\ rest \in Seq(S)
    BY <1>8c, <1>10
  <2> QED
    BY <2>1, ConcatProperties
<1>14. /\ Len(rest) \in Nat
       /\ Len(front) + Len(rest)
            = IF p + Len(bytes) > Len(disk) THEN p + Len(bytes) ELSE Len(disk)
  <2> DEFINE r == Len(rest)
             f == Len(front)
             n == Len(bytes)
             d == Len(disk)
  <2>1. /\ r = IF p + n + 1 <= d THEN d - (p + n + 1) + 1 ELSE 0
        /\ f = p + n /\ n \in Nat /\ d \in Nat
    BY <1>1, <1>2, <1>8c, <1>10
  <2> HIDE DEF r, f, n, d
  <2>2. r \in Nat /\ f + r = IF p + n > d THEN p + n ELSE d
    BY <2>1
  <2> QED
    BY <2>2 DEF r, f, n, d
<1>15. ASSUME NEW i \in 1..p PROVE (front \o rest)[i] = disk[i]
  <2>1. i \in 1 .. Len(front) + Len(rest) /\ i <= Len(front) /\ i \in 1 .. p + Len(bytes) /\ i <= p
    BY <1>2, <1>10, <1>14
  <2> QED
    BY <1>8b, <1>11, <1>13, <2>1
<1>16. ASSUME NEW i \in 1..Len(bytes) PROVE (front \o rest)[p + i] = bytes[i]
  <2>1. /\ p + i \in 1 .. Len(front) + Len(rest) /\ p + i <= Len(front)
        /\ p + i \in 1 .. p + Len(bytes)
        /\ ~(p + i <= p) /\ (p + i) - p = i
    BY <1>2, <1>10, <1>14
  <2> QED
    BY <1>11, <1>13, <2>1
<1> QED
  BY <1>12, <1>13, <1>14, <1>15, <1>16 DEF S

--------------------------------------------------------------------------------
(* The tree. *)

LEMMA EntryIs ==
  ASSUME NEW info, Within(info), NEW e \in info.entries
  PROVE  /\ e.logical \in Nat /\ e.physical \in Nat /\ e.size \in Nat /\ e.size > 0
         /\ e.logical + e.size <= FileSize /\ e.physical + e.size <= info.physical_size
         /\ info.physical_size \in Nat /\ e \in Entries
  BY DEF Within, Trees, Entries

LEMMA NoTreeIs == Within(NoTree) /\ \A bytes : Good(bytes, NoTree)
  BY Bounds DEF Within, Good, NoTree, Trees

\* A nonempty set of positions has a least and a greatest member.
LEMMA LeastIs ==
  ASSUME NEW P, P \subseteq Nat, P # {}
  PROVE  \E l \in P : \A k \in P : l <= k
<1>1. \E l \in P : \A k \in P : ~(<<k, l>> \in OpToRel(<, Nat))
  BY NatLessThanWellFounded, WFMin
<1>2. PICK l \in P : \A k \in P : ~(<<k, l>> \in OpToRel(<, Nat))
  BY <1>1
<1>3. \A k \in P : l <= k
  <2> TAKE k \in P
  <2>1. k \in Nat /\ l \in Nat
    BY <1>2
  <2>2. ~(k < l)
    BY <1>2, <2>1 DEF OpToRel
  <2> QED
    BY <2>1, <2>2
<1> QED
  BY <1>2, <1>3

LEMMA GreatestIs ==
  ASSUME NEW bound \in Nat, NEW P, P \subseteq 0..bound, P # {}
  PROVE  \E l \in P : \A k \in P : k <= l
<1> DEFINE Q == {bound - k : k \in P}
<1>1. Q \subseteq Nat /\ Q # {}
  OBVIOUS
<1>2. PICK q \in Q : \A r \in Q : q <= r
  <2> HIDE DEF Q
  <2> QED
    BY <1>1, LeastIs
<1>3. PICK l \in P : q = bound - l
  OBVIOUS
<1>4. \A k \in P : k <= l
  <2> TAKE k \in P
  <2>1. bound - k \in Q /\ k \in Int /\ l \in Int
    OBVIOUS
  <2>2. bound - l <= bound - k
    BY <1>2, <1>3, <2>1
  <2> QED
    BY <2>1, <2>2
<1> QED
  BY <1>4

\* If an entry starts no later than pos, one of them starts last.
LEMMA FloorIs ==
  ASSUME Within(tree_info), NEW pos \in Nat, NEW e \in tree_info.entries, e.logical <= pos
  PROVE  \E g \in Floor(pos) : e.logical <= g.logical
<1> DEFINE P == {f.logical : f \in {f \in tree_info.entries : f.logical <= pos}}
<1>1. P \subseteq 0..FileSize
  BY Bounds, EntryIs
<1>2. e.logical \in P
  OBVIOUS
<1>3. PICK l \in P : \A k \in P : k <= l
  <2>1. P # {} /\ FileSize \in Nat
    BY <1>2, Bounds
  <2> HIDE DEF P
  <2> QED
    BY <1>1, <2>1, GreatestIs
<1>4. PICK g \in tree_info.entries : g.logical <= pos /\ l = g.logical
  OBVIOUS
<1>5. \A f \in tree_info.entries : f.logical <= pos => f.logical <= g.logical
  BY <1>3, <1>4
<1> QED
  BY <1>4, <1>5 DEF Floor

LEMMA NextStartIs ==
  ASSUME Within(tree_info), NEW pos \in Nat
  PROVE  /\ NextStart(pos) \in Nat
         /\ \A e \in tree_info.entries : e.logical > pos => NextStart(pos) <= e.logical
<1> DEFINE above == {e.logical : e \in {f \in tree_info.entries : f.logical > pos}}
<1>1. above \subseteq Nat
  BY EntryIs
<1>2. CASE above = {}
  <2>1. NextStart(pos) = FileSize + MaxCapacity
    BY <1>2 DEF NextStart
  <2> QED
    BY <1>2, <2>1, Bounds
<1>3. CASE above # {}
  <2>1. NextStart(pos) = CHOOSE l \in above : \A k \in above : l <= k
    BY <1>3 DEF NextStart
  <2>2. \E l \in above : \A k \in above : l <= k
    <3> HIDE DEF above
    <3> QED
      BY <1>1, <1>3, LeastIs
  <2>3. NextStart(pos) \in above /\ \A k \in above : NextStart(pos) <= k
    <3> HIDE DEF above
    <3> QED
      BY <2>1, <2>2
  <2>4. \A e \in tree_info.entries : e.logical > pos => e.logical \in above
    OBVIOUS
  <2> HIDE DEF above
  <2> QED
    BY <1>1, <2>3, <2>4
<1> QED
  BY <1>2, <1>3

\* From where a search ends to the next entry there is nothing.
LEMMA GapIs ==
  ASSUME Types, Good(disk, tree_info), NEW pos \in Nat, Holding(pos) = {},
         NEW m \in Nat, pos + m <= NextStart(pos)
  PROVE  \A e \in tree_info.entries : Apart(e, pos, m)
<1> SUFFICES ASSUME NEW e \in tree_info.entries PROVE Apart(e, pos, m)
  OBVIOUS
<1>0. Within(tree_info)
  BY DEF Types
<1>1. /\ e.logical \in Nat /\ e.size \in Nat /\ e.size > 0
  BY <1>0, EntryIs
<1>2. CASE e.logical > pos
  BY <1>0, <1>1, <1>2, NextStartIs DEF Apart
<1>3. CASE e.logical <= pos
  <2>1. PICK g \in Floor(pos) : e.logical <= g.logical
    BY <1>0, <1>3, FloorIs
  <2>2. g \in tree_info.entries /\ g.logical <= pos
    BY DEF Floor
  <2>3. g.logical \in Nat /\ g.size \in Nat /\ g.size > 0
    BY <1>0, <2>2, EntryIs
  <2>4. g.logical + g.size <= pos
    BY <2>3 DEF Holding
  <2>5. CASE e = g
    BY <2>4, <2>5 DEF Apart
  <2>6. CASE e # g
    <3>1. Apart(e, g.logical, g.size)
      BY <2>2, <2>6 DEF Good
    <3> QED
      BY <1>1, <2>1, <2>2, <2>3, <2>4, <3>1 DEF Apart
  <2> QED
    BY <2>5, <2>6
<1> QED
  BY <1>1, <1>2, <1>3

\* The same from the end of the entry the search is in.
LEMMA RoomIs ==
  ASSUME Types, Good(disk, tree_info), NEW m \in 1..Room
  PROVE  \A e \in tree_info.entries : Apart(e, Uncached, m)
<1> SUFFICES ASSUME NEW e \in tree_info.entries PROVE Apart(e, Uncached, m)
  OBVIOUS
<1> DEFINE pos == file_logical_pos
<1>0. Within(tree_info) /\ pos \in Nat
  BY DEF Types
<1>1. /\ e.logical \in Nat /\ e.size \in Nat /\ e.size > 0
  BY <1>0, EntryIs
<1>2. CASE Holding(pos) = {}
  <2>1. Uncached = pos
    BY <1>2 DEF Uncached
  <2>2. pos + m <= NextStart(pos) /\ m \in Nat
    BY <1>0, <2>1, NextStartIs, Bounds DEF Room, Least
  <2> QED
    BY <1>0, <1>2, <2>1, <2>2, GapIs
<1>3. CASE Holding(pos) # {}
  <2>1. PICK g \in Holding(pos) : Uncached = g.logical + g.size
    BY <1>3 DEF Uncached
  <2>2. /\ g \in tree_info.entries /\ g.logical <= pos /\ pos < g.logical + g.size
        /\ \A f \in tree_info.entries : f.logical <= pos => f.logical <= g.logical
    BY DEF Holding, Floor
  <2>3. g.logical \in Nat /\ g.size \in Nat /\ g.size > 0
    BY <1>0, <2>2, EntryIs
  <2>4. Uncached + m <= NextStart(pos) /\ NextStart(pos) \in Nat
    BY <1>0, <2>1, <2>3, NextStartIs, Bounds DEF Room, Least
  <2>5. CASE e.logical > pos
    <3>1. NextStart(pos) <= e.logical
      BY <1>0, <2>5, NextStartIs
    <3> QED
      BY <1>1, <2>1, <2>3, <2>4, <3>1 DEF Apart
  <2>6. CASE e.logical <= pos /\ e # g
    <3>1. Apart(e, g.logical, g.size) /\ e.logical <= g.logical
      BY <2>2, <2>6 DEF Good
    <3> QED
      BY <1>1, <2>1, <2>3, <3>1 DEF Apart
  <2>7. CASE e = g
    BY <2>1, <2>7 DEF Apart
  <2> QED
    BY <1>0, <1>1, <2>5, <2>6, <2>7
<1> QED
  BY <1>2, <1>3

LEMMA UncachedIs ==
  ASSUME Types
  PROVE  Uncached \in 0..FileSize /\ Room \in Int
<1>0. Within(tree_info) /\ file_logical_pos \in 0..FileSize
  BY DEF Types
<1>1. CASE Holding(file_logical_pos) = {}
  BY <1>0, <1>1, NextStartIs, Bounds DEF Uncached, Room, Least
<1>2. CASE Holding(file_logical_pos) # {}
  <2>1. PICK g \in Holding(file_logical_pos) : Uncached = g.logical + g.size
    BY <1>2 DEF Uncached
  <2>2. g \in tree_info.entries
    BY DEF Holding, Floor
  <2>3. Uncached \in 0..FileSize
    BY <1>0, <2>1, <2>2, EntryIs, Bounds
  <2> QED
    BY <1>0, <2>3, NextStartIs, Bounds DEF Room, Least
<1> QED
  BY <1>1, <1>2

\* A range that is entered behind the others, where the cache file ends ...
LEMMA EnteredIs ==
  ASSUME NEW info, Within(info), NEW l \in Nat, NEW n \in Nat, n > 0, l + n <= FileSize,
         info.physical_size + n < MaxCapacity
  PROVE  /\ Within(Entered(info, l, info.physical_size, n))
         /\ Entered(info, l, info.physical_size, n).physical_size = info.physical_size + n
         /\ Entered(info, l, info.physical_size, n).entries # {}
<1> DEFINE p == info.physical_size
           before == {e \in info.entries :
                        e.logical + e.size = l /\ e.physical + e.size = p}
           new == Entered(info, l, p, n)
<1>0. p \in Nat /\ info \in Trees
  BY DEF Within, Trees
<1>1. \E entry \in Entries :
        /\ new = [info EXCEPT !.entries = (@ \ before) \cup {entry}, !.physical_size = @ + n]
        /\ entry.size > 0 /\ entry.logical + entry.size <= FileSize
        /\ entry.physical + entry.size <= p + n
  <2>1. CASE before = {}
    <3> DEFINE entry == [logical |-> l, physical |-> p, size |-> n]
    <3>1. new = [info EXCEPT !.entries = (@ \ before) \cup {entry}, !.physical_size = @ + n]
      BY <2>1 DEF Entered
    <3>2. entry \in Entries /\ entry.logical = l /\ entry.physical = p /\ entry.size = n
      BY <1>0 DEF Entries
    <3>3. /\ entry.size > 0 /\ entry.logical + entry.size <= FileSize
          /\ entry.physical + entry.size <= p + n
      BY <1>0, <3>2
    <3> HIDE DEF entry, before, new
    <3> QED
      BY <3>1, <3>2, <3>3
  <2>2. CASE before # {}
    <3> DEFINE e == CHOOSE e \in before : TRUE
               entry == [e EXCEPT !.size = @ + n]
    <3>1. new = [info EXCEPT !.entries = (@ \ before) \cup {entry}, !.physical_size = @ + n]
      BY <2>2 DEF Entered
    <3>2. e \in info.entries /\ e.logical + e.size = l /\ e.physical + e.size = p
      BY <2>2
    <3> HIDE DEF e
    <3>3. /\ e \in Entries /\ e.size \in Nat /\ e.size > 0
          /\ e.logical \in Nat /\ e.physical \in Nat
      BY <3>2, EntryIs
    <3>4. /\ entry \in Entries /\ entry.logical = e.logical /\ entry.physical = e.physical
          /\ entry.size = e.size + n
      BY <3>3 DEF Entries
    <3>5. /\ entry.size > 0 /\ entry.logical + entry.size <= FileSize
          /\ entry.physical + entry.size <= p + n
      BY <1>0, <3>2, <3>3, <3>4
    <3> HIDE DEF entry, before, new
    <3> QED
      BY <3>1, <3>4, <3>5
  <2> QED
    BY <2>1, <2>2
<1>2. PICK entry \in Entries :
        /\ new = [info EXCEPT !.entries = (@ \ before) \cup {entry}, !.physical_size = @ + n]
        /\ entry.size > 0 /\ entry.logical + entry.size <= FileSize
        /\ entry.physical + entry.size <= p + n
  BY <1>1
<1>3. /\ new.entries = (info.entries \ before) \cup {entry}
      /\ new.physical_size = p + n /\ new \in Trees
  <2> DEFINE entries == (info.entries \ before) \cup {entry}
  <2>1. entries \in SUBSET Entries
    BY <1>0 DEF Trees
  <2> DEFINE size == p + n
  <2>2. new = [info EXCEPT !.entries = entries, !.physical_size = size]
    BY <1>2
  <2>3. size \in Nat
    BY <1>0
  <2> HIDE DEF new, entries, size
  <2>4. new.entries = entries /\ new.physical_size = size /\ new \in Trees
    BY <1>0, <2>1, <2>2, <2>3 DEF Trees
  <2> QED
    BY <2>4 DEF entries, size
<1>4. \A e \in new.entries :
        e.size > 0 /\ e.logical + e.size <= FileSize /\ e.physical + e.size <= p + n
  <2> SUFFICES ASSUME NEW e \in new.entries
               PROVE  e.size > 0 /\ e.logical + e.size <= FileSize
                      /\ e.physical + e.size <= p + n
    OBVIOUS
  <2>1. CASE e = entry
    BY <1>2, <2>1
  <2>2. CASE e \in info.entries
    BY <1>0, <2>2, EntryIs
  <2> HIDE DEF new, before
  <2> QED
    BY <1>3, <2>1, <2>2
<1> HIDE DEF new
<1> QED
  BY <1>3, <1>4 DEF Within, new

\* ... is in the tree with them, and each where its bytes are.
LEMMA EnteredGood ==
  ASSUME NEW info, Within(info), NEW l \in Nat, NEW n \in Nat, n > 0,
         NEW old, Good(old, info), NEW bytes,
         \A i \in 1..info.physical_size : bytes[i] = old[i],
         \A i \in 1..n : bytes[info.physical_size + i] = l + i - 1,
         \A e \in info.entries : Apart(e, l, n)
  PROVE  /\ Good(bytes, Entered(info, l, info.physical_size, n))
         /\ \A x \in Int :
              \/ \E e \in info.entries : e.logical <= x /\ x < e.logical + e.size
              \/ l <= x /\ x < l + n
              => \E e \in Entered(info, l, info.physical_size, n).entries :
                   e.logical <= x /\ x < e.logical + e.size
<1> DEFINE p == info.physical_size
           before == {e \in info.entries :
                        e.logical + e.size = l /\ e.physical + e.size = p}
           new == Entered(info, l, p, n)
<1>0. p \in Nat /\ info \in Trees
  BY DEF Within, Trees
<1>1. \E entry \in Entries :
        /\ new = [info EXCEPT !.entries = (@ \ before) \cup {entry}, !.physical_size = @ + n]
        /\ \A f \in info.entries \ before : Apart(f, entry.logical, entry.size)
        /\ \A i \in 1..entry.size : bytes[entry.physical + i] = entry.logical + i - 1
        /\ entry.logical <= l /\ entry.logical + entry.size = l + n
        /\ \A e \in before :
             entry.logical <= e.logical /\ e.logical + e.size <= entry.logical + entry.size
  <2>1. CASE before = {}
    <3> DEFINE entry == [logical |-> l, physical |-> p, size |-> n]
    <3>1. new = [info EXCEPT !.entries = (@ \ before) \cup {entry}, !.physical_size = @ + n]
      BY <2>1 DEF Entered
    <3>2. entry \in Entries /\ entry.logical = l /\ entry.physical = p /\ entry.size = n
      BY <1>0 DEF Entries
    <3> HIDE DEF entry
    <3>3. \A f \in info.entries \ before : Apart(f, entry.logical, entry.size)
      BY <3>2
    <3>4. \A i \in 1..entry.size : bytes[entry.physical + i] = entry.logical + i - 1
      BY <3>2
    <3>5. entry.logical <= l /\ entry.logical + entry.size = l + n
      BY <3>2
    <3> HIDE DEF before, new
    <3> QED
      BY <2>1, <3>1, <3>2, <3>3, <3>4, <3>5
  <2>2. CASE before # {}
    <3> DEFINE e == CHOOSE e \in before : TRUE
               entry == [e EXCEPT !.size = @ + n]
    <3>1. new = [info EXCEPT !.entries = (@ \ before) \cup {entry}, !.physical_size = @ + n]
      BY <2>2 DEF Entered
    <3>2. e \in before /\ e \in info.entries /\ e.logical + e.size = l /\ e.physical + e.size = p
      BY <2>2
    <3> HIDE DEF e
    <3>3. /\ e \in Entries /\ e.size \in Nat /\ e.size > 0
          /\ e.logical \in Nat /\ e.physical \in Nat
      BY <3>2, EntryIs
    <3>4. /\ entry \in Entries /\ entry.logical = e.logical /\ entry.physical = e.physical
          /\ entry.size = e.size + n
      BY <3>3 DEF Entries
    <3> HIDE DEF entry
    <3>5. ASSUME NEW f \in info.entries, f # e
          PROVE  Apart(f, entry.logical, entry.size) /\ f.logical + f.size # l
      <4>1. Apart(f, e.logical, e.size) /\ Apart(f, l, n)
        BY <3>2, <3>5 DEF Good
      <4>2. f.logical \in Nat /\ f.size \in Nat /\ f.size > 0
        BY EntryIs
      <4> QED
        BY <3>2, <3>3, <3>4, <4>1, <4>2 DEF Apart
    <3>6. before = {e}
      BY <3>2, <3>5
    <3>7. ASSUME NEW i \in 1..entry.size
          PROVE  bytes[entry.physical + i] = entry.logical + i - 1
      <4>1. CASE i <= e.size
        <5>1. i \in 1..e.size /\ e.physical + i \in 1..p
          BY <1>0, <3>2, <3>3, <4>1
        <5>2. old[e.physical + i] = e.logical + i - 1
          BY <3>2, <5>1 DEF Good
        <5> QED
          BY <3>4, <5>1, <5>2
      <4>2. CASE i > e.size
        <5>1. i - e.size \in 1..n /\ entry.physical + i = p + (i - e.size)
          BY <1>0, <3>2, <3>3, <3>4, <4>2
        <5>2. bytes[p + (i - e.size)] = l + (i - e.size) - 1
          BY <5>1
        <5> QED
          BY <3>2, <3>3, <3>4, <5>1, <5>2
      <4> QED
        BY <3>3, <4>1, <4>2
    <3>8. entry.logical <= l /\ entry.logical + entry.size = l + n
      BY <3>2, <3>3, <3>4
    <3>9. /\ entry.logical <= e.logical
          /\ e.logical + e.size <= entry.logical + entry.size
      BY <3>2, <3>3, <3>4
    <3>10. \A f \in info.entries \ before : Apart(f, entry.logical, entry.size)
      BY <3>5, <3>6
    <3> HIDE DEF before, new
    <3> QED
      BY <3>1, <3>4, <3>6, <3>7, <3>8, <3>9, <3>10
  <2> QED
    BY <2>1, <2>2
<1>2. PICK entry \in Entries :
        /\ new = [info EXCEPT !.entries = (@ \ before) \cup {entry}, !.physical_size = @ + n]
        /\ \A f \in info.entries \ before : Apart(f, entry.logical, entry.size)
        /\ \A i \in 1..entry.size : bytes[entry.physical + i] = entry.logical + i - 1
        /\ entry.logical <= l /\ entry.logical + entry.size = l + n
        /\ \A e \in before :
             entry.logical <= e.logical /\ e.logical + e.size <= entry.logical + entry.size
  BY <1>1
<1>3. new.entries = (info.entries \ before) \cup {entry}
  BY <1>0, <1>2 DEF Trees
<1>4. entry.logical \in Nat /\ entry.size \in Nat
  BY DEF Entries
<1>5. \A e \in info.entries : e.logical \in Nat /\ e.size \in Nat /\ e.physical \in Nat
  BY EntryIs
<1> HIDE DEF new
<1>6. ASSUME NEW e \in new.entries, NEW f \in new.entries, e # f
      PROVE  Apart(e, f.logical, f.size)
  <2>1. CASE e \in info.entries /\ f \in info.entries
    BY <1>6, <2>1 DEF Good
  <2>2. CASE f = entry
    BY <1>2, <1>3, <1>6, <2>2
  <2>3. CASE e = entry
    <3>1. Apart(f, e.logical, e.size) /\ f \in info.entries
      BY <1>2, <1>3, <1>6, <2>3
    <3> QED
      BY <1>4, <1>5, <2>3, <3>1 DEF Apart
  <2> QED
    BY <1>3, <2>1, <2>2, <2>3
<1>7. ASSUME NEW e \in new.entries, NEW i \in 1..e.size
      PROVE  bytes[e.physical + i] = e.logical + i - 1
  <2>1. CASE e = entry
    BY <1>2, <2>1
  <2>2. CASE e \in info.entries
    <3>1. e.physical + i \in 1..p
      BY <2>2, EntryIs
    <3> QED
      BY <2>2, <3>1 DEF Good
  <2> QED
    BY <1>3, <2>1, <2>2
<1>8. ASSUME NEW x \in Int,
             \/ \E e \in info.entries : e.logical <= x /\ x < e.logical + e.size
             \/ l <= x /\ x < l + n
      PROVE  \E e \in new.entries : e.logical <= x /\ x < e.logical + e.size
  <2>1. CASE l <= x /\ x < l + n
    BY <1>2, <1>3, <1>4, <2>1
  <2>2. CASE \E e \in info.entries : e.logical <= x /\ x < e.logical + e.size
    <3>1. PICK e \in info.entries : e.logical <= x /\ x < e.logical + e.size
      BY <2>2
    <3>2. CASE e \in before
      <4>1. entry.logical <= e.logical /\ e.logical + e.size <= entry.logical + entry.size
        BY <1>2, <3>2
      <4> QED
        BY <1>3, <1>4, <1>5, <3>1, <4>1
    <3>3. CASE e \notin before
      BY <1>3, <3>1, <3>3
    <3> QED
      BY <3>2, <3>3
  <2> QED
    BY <1>8, <2>1, <2>2
<1> QED
  BY <1>6, <1>7, <1>8 DEF Good, new

--------------------------------------------------------------------------------
(* The steps. *)

\* A step that leaves the file, the tree and what is to be stored as they are.
LEMMA QuietKeeps ==
  ASSUME IInv, Types', Threads', Offsets', SleepersHaveAPartner',
         UNCHANGED <<disk, map, manager, tree_info, last_physical_pos, outdated, stale>>,
         task' = "store" => task = "store" /\ UNCHANGED <<fetched, file_logical_pos>>
  PROVE  IInv'
<1>1. Contents'
  BY DEF IInv, Contents, Good
<1>2. Fetched'
  BY DEF IInv, Fetched
<1> QED
  BY <1>1, <1>2 DEF IInv

LEMMA CloseKeeps == ASSUME IInv, Close PROVE IInv'
<1>1. Types'
  BY DEF IInv, Types, Close, file, memory, offsets, session, ends, seeking, call, history
<1>2. Threads' /\ Offsets' /\ SleepersHaveAPartner'
  BY DEF IInv, Threads, Offsets, SleepersHaveAPartner, Close, file, memory, offsets,
         session, Synchronous
<1> QED
  BY <1>1, <1>2, QuietKeeps DEF Close, file, memory, history

LEMMA SyncEndKeeps == ASSUME IInv, SyncEnd PROVE IInv'
<1>1. Types'
  BY DEF IInv, Types, SyncEnd, Synchronous, Answer, file, memory, offsets, session,
         seeking, history
<1>2. Threads' /\ Offsets' /\ SleepersHaveAPartner'
  BY DEF IInv, Threads, Offsets, SleepersHaveAPartner, SyncEnd, Synchronous, Answer, file,
         memory, offsets, session
<1> QED
  BY <1>1, <1>2, QuietKeeps DEF SyncEnd, file, memory, history

LEMMA SyncFailKeeps == ASSUME IInv, SyncFail PROVE IInv'
<1>1. Types'
  <2>1. /\ async_open' \in BOOLEAN
        /\ inner_pos' = inner_pos \/ inner_pos' = read_logical_pos
    BY DEF IInv, Types, SyncFail
  <2>2. /\ UNCHANGED <<disk, map, manager, tree_info, last_physical_pos, fd_pos, stale>>
        /\ UNCHANGED <<cache_physical_pos, forwards, read_logical_pos, file_logical_pos>>
        /\ UNCHANGED <<seek_pos, io_eof_reached, io_error, task, caller, to_read, asleep>>
        /\ UNCHANGED <<abort_request, outdated>>
    BY DEF SyncFail, file, memory, offsets, ends, seeking, history
  <2>3. inner_pos' \in 0..FileSize
    BY <2>1 DEF IInv, Types
  <2> QED
    BY <2>1, <2>2, <2>3 DEF IInv, Types
<1>2. Threads' /\ Offsets' /\ SleepersHaveAPartner'
  BY DEF IInv, Threads, Offsets, SleepersHaveAPartner, SyncFail, SyncMisses, Answer, file,
         memory, offsets, Synchronous
<1> QED
  BY <1>1, <1>2, QuietKeeps DEF SyncFail, SyncMisses, file, memory, history

LEMMA SyncSeekKeeps == ASSUME IInv, NEW pos \in SeekTargets, SyncSeek(pos) PROVE IInv'
<1>1. Types'
  BY Bounds
     DEF IInv, Types, SyncSeek, Synchronous, file, memory, offsets, session, ends, seeking,
         history
<1>2. Threads' /\ Offsets' /\ SleepersHaveAPartner'
  BY DEF IInv, Threads, Offsets, SleepersHaveAPartner, SyncSeek, Synchronous, file, memory,
         offsets, session
<1> QED
  BY <1>1, <1>2, QuietKeeps DEF SyncSeek, file, memory, history

LEMMA ReadKeeps == ASSUME IInv, NEW n \in ReadSizes, Read(n) PROVE IInv'
<1>1. Types'
  BY Bounds
     DEF IInv, Types, Read, Synchronous, file, memory, offsets, session, ends, seeking,
         history
<1>2. Threads' /\ Offsets' /\ SleepersHaveAPartner'
  BY DEF IInv, Threads, Offsets, SleepersHaveAPartner, Read, Synchronous, file, memory,
         offsets, session
<1> QED
  BY <1>1, <1>2, QuietKeeps DEF Read, file, memory, history

LEMMA ReadInterruptedKeeps == ASSUME IInv, ReadInterrupted PROVE IInv'
<1>1. Types'
  BY Bounds
     DEF IInv, Types, ReadInterrupted, Reading, Return, Wake, file, memory, offsets,
         session, ends, seeking, history, Answer
<1>2. Threads' /\ Offsets' /\ SleepersHaveAPartner'
  BY DEF IInv, Threads, Offsets, SleepersHaveAPartner, ReadInterrupted, Reading, Return,
         Wake, file, memory, offsets, session, Awake, Answer, Synchronous
<1> QED
  BY <1>1, <1>2, QuietKeeps DEF ReadInterrupted, Reading, Return, file, memory, history

LEMMA ReadEndKeeps == ASSUME IInv, ReadEnd PROVE IInv'
<1>1. Types'
  BY Bounds
     DEF IInv, Types, ReadEnd, Reading, Return, Wake, file, memory, offsets, session, ends,
         seeking, history, Answer
<1>2. Threads' /\ Offsets' /\ SleepersHaveAPartner'
  BY DEF IInv, Threads, Offsets, SleepersHaveAPartner, ReadEnd, Reading, Return, Wake,
         file, memory, offsets, session, Awake, Answer, Synchronous
<1> QED
  BY <1>1, <1>2, QuietKeeps DEF ReadEnd, Reading, Return, file, memory, history

LEMMA ReadWaitKeeps == ASSUME IInv, ReadWait PROVE IInv'
<1>1. Types'
  BY DEF IInv, Types, ReadWait, Reading, WakeAndSleep, file, memory, offsets, session,
         ends, seeking, call, history
<1>2. Threads' /\ Offsets' /\ SleepersHaveAPartner'
  BY DEF IInv, Threads, Offsets, SleepersHaveAPartner, ReadWait, Reading, WakeAndSleep,
         file, memory, offsets, session, Synchronous
<1> QED
  BY <1>1, <1>2, QuietKeeps DEF ReadWait, Reading, file, memory, history

LEMMA SeekKeeps == ASSUME IInv, NEW pos \in SeekTargets, Seek(pos) PROVE IInv'
<1>1. Types'
  BY Bounds
     DEF IInv, Types, Seek, Synchronous, WakeAndSleep, file, memory, offsets, session,
         ends, call, history
<1>2. Threads' /\ Offsets' /\ SleepersHaveAPartner'
  BY DEF IInv, Threads, Offsets, SleepersHaveAPartner, Seek, Synchronous, WakeAndSleep,
         file, memory, offsets, session
<1> QED
  BY <1>1, <1>2, QuietKeeps DEF Seek, file, memory, history

LEMMA SeekInterruptedKeeps == ASSUME IInv, SeekInterrupted PROVE IInv'
<1>1. Types'
  BY Bounds
     DEF IInv, Types, SeekInterrupted, Seeking, Return, file, memory, offsets, session,
         ends, seeking, history, Answer
<1>2. Threads' /\ Offsets' /\ SleepersHaveAPartner'
  BY DEF IInv, Threads, Offsets, SleepersHaveAPartner, SeekInterrupted, Seeking, Return,
         file, memory, offsets, session, Awake, Answer, Synchronous
<1> QED
  BY <1>1, <1>2, QuietKeeps DEF SeekInterrupted, Seeking, Return, file, memory, history

LEMMA SeekWaitKeeps == ASSUME IInv, SeekWait PROVE IInv'
<1>1. Types'
  BY DEF IInv, Types, SeekWait, Seeking, WakeAndSleep, file, memory, offsets, session,
         ends, seeking, call, history
<1>2. Threads' /\ Offsets' /\ SleepersHaveAPartner'
  BY DEF IInv, Threads, Offsets, SleepersHaveAPartner, SeekWait, Seeking, WakeAndSleep,
         file, memory, offsets, session, Synchronous
<1> QED
  BY <1>1, <1>2, QuietKeeps DEF SeekWait, Seeking, file, memory, history

LEMMA SeekDoneKeeps == ASSUME IInv, SeekDone PROVE IInv'
<1>1. Types'
  BY DEF IInv, Types, SeekDone, Seeking, file, memory, offsets, session, ends, seeking,
         history
<1>2. Threads' /\ Offsets' /\ SleepersHaveAPartner'
  BY DEF IInv, Threads, Offsets, SleepersHaveAPartner, SeekDone, Seeking, file, memory,
         offsets, session, Awake, Synchronous
<1> QED
  BY <1>1, <1>2, QuietKeeps DEF SeekDone, Seeking, file, memory, history

LEMMA InterruptKeeps == ASSUME IInv, Interrupt PROVE IInv'
<1>1. Types'
  BY DEF IInv, Types, Interrupt, Synchronous, file, memory, offsets, session, ends,
         seeking, call, history
<1>2. Threads' /\ Offsets' /\ SleepersHaveAPartner'
  BY DEF IInv, Threads, Offsets, SleepersHaveAPartner, Interrupt, Synchronous, file,
         memory, offsets, session
<1> QED
  BY <1>1, <1>2, QuietKeeps DEF Interrupt, file, memory, history

LEMMA StartKeeps == ASSUME IInv, Start PROVE IInv'
<1>1. Types'
  BY DEF IInv, Types, Start, Task, file, memory, offsets, session, ends, seeking, call,
         history
<1>2. Threads' /\ Offsets' /\ SleepersHaveAPartner'
  BY DEF IInv, Threads, Offsets, SleepersHaveAPartner, Start, Task, file, memory, offsets,
         session, Synchronous
<1> QED
  BY <1>1, <1>2, QuietKeeps DEF Start, Task, file, memory, history

LEMMA TestAbortKeeps == ASSUME IInv, TestAbort PROVE IInv'
<1>1. Types'
  BY DEF IInv, Types, TestAbort, Task, ends, file, memory, offsets, session, seeking, call,
         history
<1>2. Threads' /\ Offsets' /\ SleepersHaveAPartner'
  BY DEF IInv, Threads, Offsets, SleepersHaveAPartner, TestAbort, Task, file, memory,
         offsets, session, Awake, Synchronous
<1> QED
  BY <1>1, <1>2, QuietKeeps DEF TestAbort, Task, file, memory, history

LEMMA ServeKeeps == ASSUME IInv, Serve PROVE IInv'
<1>1. Types'
  <2>1. /\ io_eof_reached' \in BOOLEAN /\ io_error' \in {"none", io_error}
        /\ read_logical_pos' \in {seek_pos, read_logical_pos}
        /\ file_logical_pos' \in {seek_pos, file_logical_pos}
        /\ asleep' \subseteq asleep /\ task' = "test"
    BY DEF IInv, Types, Serve, Task, Wake, ends
  <2>2. /\ UNCHANGED <<disk, map, manager, tree_info, last_physical_pos, fd_pos, stale>>
        /\ UNCHANGED <<cache_physical_pos, forwards, async_open, inner_pos, seek_pos>>
        /\ UNCHANGED <<caller, to_read, abort_request, outdated>>
    BY DEF Serve, file, memory, offsets, session, call, history
  <2>3. read_logical_pos' \in 0..FileSize /\ file_logical_pos' \in 0..FileSize
    BY <2>1 DEF IInv, Types
  <2> QED
    BY <2>1, <2>2, <2>3 DEF IInv, Types
<1>2. Threads' /\ Offsets' /\ SleepersHaveAPartner'
  BY DEF IInv, Threads, Offsets, SleepersHaveAPartner, Serve, Task, Wake, file, memory,
         offsets, session, Synchronous
<1> QED
  BY <1>1, <1>2, QuietKeeps DEF Serve, Task, file, memory, history

LEMMA TestRoomKeeps == ASSUME IInv, TestRoom PROVE IInv'
<1>1. Types'
  BY DEF IInv, Types, TestRoom, FarEnough, Task, file, memory, offsets, session, ends,
         seeking, call, history
<1>2. Threads' /\ Offsets' /\ SleepersHaveAPartner'
  BY DEF IInv, Threads, Offsets, SleepersHaveAPartner, TestRoom, FarEnough, Task, file,
         memory, offsets, session, Synchronous
<1> QED
  BY <1>1, <1>2, QuietKeeps DEF TestRoom, FarEnough, Task, file, memory, history

LEMMA RestKeeps == ASSUME IInv, Rest PROVE IInv'
<1>1. Types'
  BY DEF IInv, Types, Rest, Task, WakeAndSleep, file, memory, offsets, session, ends,
         seeking, call, history
<1>2. Threads' /\ Offsets' /\ SleepersHaveAPartner'
  BY DEF IInv, Threads, Offsets, SleepersHaveAPartner, Rest, Task, WakeAndSleep, file,
         memory, offsets, session, Synchronous
<1> QED
  BY <1>1, <1>2, QuietKeeps DEF Rest, Task, file, memory, history

LEMMA SkipKeeps == ASSUME IInv, Skip PROVE IInv'
<1>1. Types'
  BY UncachedIs
     DEF IInv, Types, Skip, Task, file, memory, offsets, session, seeking, call, history
<1>2. Threads' /\ Offsets' /\ SleepersHaveAPartner'
  BY DEF IInv, Threads, Offsets, SleepersHaveAPartner, Skip, Task, file, memory, offsets,
         session, Synchronous
<1> QED
  BY <1>1, <1>2, QuietKeeps DEF Skip, Task, file, memory, history

LEMMA SeekFailsKeeps == ASSUME IInv, SeekFails PROVE IInv'
<1>1. Types'
  BY UncachedIs
     DEF IInv, Types, SeekFails, Task, Misses, file, memory, offsets, seeking, call, history
<1>2. Threads' /\ Offsets' /\ SleepersHaveAPartner'
  BY DEF IInv, Threads, Offsets, SleepersHaveAPartner, SeekFails, Task, Misses, file,
         memory, offsets, Synchronous
<1> QED
  BY <1>1, <1>2, QuietKeeps DEF SeekFails, Task, Misses, file, memory, history

LEMMA FetchFailsKeeps == ASSUME IInv, FetchFails PROVE IInv'
<1>1. Types'
  <2>1. /\ io_eof_reached' = TRUE /\ async_open' \in BOOLEAN /\ task' = "failed"
        /\ inner_pos' \in {inner_pos, Uncached} /\ file_logical_pos' = Uncached
    BY DEF IInv, Types, FetchFails, Task
  <2>2. /\ UNCHANGED <<disk, map, manager, tree_info, last_physical_pos, fd_pos, stale>>
        /\ UNCHANGED <<cache_physical_pos, forwards, read_logical_pos, seek_pos, io_error>>
        /\ UNCHANGED <<caller, to_read, asleep, abort_request, outdated>>
    BY DEF FetchFails, file, memory, offsets, seeking, call, history
  <2>3. inner_pos' \in 0..FileSize /\ file_logical_pos' \in 0..FileSize
    BY <2>1, UncachedIs DEF IInv, Types
  <2> QED
    BY <2>1, <2>2, <2>3 DEF IInv, Types
<1>2. Threads' /\ Offsets' /\ SleepersHaveAPartner'
  BY DEF IInv, Threads, Offsets, SleepersHaveAPartner, FetchFails, Task, Misses, file,
         memory, offsets, Synchronous
<1> QED
  BY <1>1, <1>2, QuietKeeps DEF FetchFails, Task, Misses, file, memory, history

LEMMA SetErrorKeeps == ASSUME IInv, SetError PROVE IInv'
<1>1. Types'
  BY DEF IInv, Types, SetError, Task, file, memory, offsets, session, seeking, call, history
<1>2. Threads' /\ Offsets' /\ SleepersHaveAPartner'
  BY DEF IInv, Threads, Offsets, SleepersHaveAPartner, SetError, Task, file, memory,
         offsets, session, Synchronous
<1> QED
  BY <1>1, <1>2, QuietKeeps DEF SetError, Task, file, memory, history

LEMMA AnnounceKeeps == ASSUME IInv, Announce PROVE IInv'
<1>1. Types'
  BY DEF IInv, Types, Announce, Task, Wake, file, memory, offsets, session, ends, seeking,
         call, history
<1>2. Threads' /\ Offsets' /\ SleepersHaveAPartner'
  BY DEF IInv, Threads, Offsets, SleepersHaveAPartner, Announce, Task, Wake, file, memory,
         offsets, session, Synchronous
<1> QED
  BY <1>1, <1>2, QuietKeeps DEF Announce, Task, file, memory, history

LEMMA ExitKeeps == ASSUME IInv, Exit PROVE IInv'
<1>1. Types'
  BY DEF IInv, Types, Exit, Task, Wake, file, memory, offsets, session, ends, seeking,
         call, history
<1>2. Threads' /\ Offsets' /\ SleepersHaveAPartner'
  BY DEF IInv, Threads, Offsets, SleepersHaveAPartner, Exit, Task, Wake, file, memory,
         offsets, session, Synchronous
<1> QED
  BY <1>1, <1>2, QuietKeeps DEF Exit, Task, file, memory, history
LEMMA InitIInv == Init => IInv
<1> SUFFICES ASSUME Init PROVE IInv
  OBVIOUS
<1>1. Types
  <2>1. disk \in Seq(0..FileSize - 1) /\ Len(disk) = 0
    BY EmptySeq DEF Init
  <2>2. Within(tree_info) /\ tree_info.physical_size = 0
    BY NoTreeIs DEF Init, NoTree
  <2>3. Len(disk) < MaxCapacity /\ fd_pos \in 0..Len(disk)
    BY <2>1, Bounds DEF Init
  <2>4. /\ inner_pos \in 0..FileSize /\ read_logical_pos \in 0..FileSize
        /\ file_logical_pos \in 0..FileSize /\ seek_pos \in 0..FileSize
        /\ to_read \in 0..MaxCapacity /\ cache_physical_pos \in Nat
    BY Bounds DEF Init
  <2>5. /\ manager = FALSE /\ forwards = 0 /\ async_open = FALSE /\ io_eof_reached = FALSE
        /\ io_error = "none" /\ task = "off" /\ caller = "closed" /\ asleep = {}
        /\ stale = FALSE /\ outdated = FALSE /\ abort_request = FALSE
        /\ map = {} /\ last_physical_pos = 0
    BY DEF Init
  <2> QED
    BY <2>1, <2>2, <2>3, <2>4, <2>5 DEF Types
<1>2. Threads /\ Offsets /\ Fetched /\ SleepersHaveAPartner
  BY <1>1 DEF Init, Types, Threads, Offsets, Fetched, SleepersHaveAPartner, Synchronous
<1>3. Contents
  BY NoTreeIs DEF Init, Contents
<1> QED
  BY <1>1, <1>2, <1>3 DEF IInv

\* What a session starts from is right if it is not stale.
LEMMA OpenKeeps == ASSUME IInv, NEW capacity \in {0, Forwards}, Open(capacity) PROVE IInv'
<1> DEFINE info == IF manager THEN tree_info ELSE Parsed
<1>0. /\ tree_info' = [info EXCEPT !.file_size = FileSize]
      /\ last_physical_pos' = IF manager THEN last_physical_pos ELSE info.physical_size
      /\ fd_pos' = last_physical_pos' /\ cache_physical_pos' = last_physical_pos'
      /\ stale' = (stale /\ info.entries # {})
      /\ outdated' = (outdated \/ (~manager /\ info \notin map))
  BY DEF Open
<1>1. /\ disk' = IF ~manager /\ map = {} THEN <<>> ELSE disk
      /\ map' = map /\ manager' = TRUE /\ forwards' = capacity /\ caller' = "idle"
      /\ task' = IF capacity > 0 THEN "queued" ELSE "off"
      /\ asleep' = {} /\ abort_request' = FALSE
  BY DEF Open, NewContext
<1>2. /\ Within(info) /\ info.physical_size <= Len(disk)
      /\ ~manager => info = NoTree \/ info \in map
      /\ manager => info = tree_info /\ last_physical_pos = info.physical_size
  <2>1. CASE manager
    BY <2>1 DEF IInv, Types, Offsets
  <2>2. CASE ~manager /\ info = NoTree
    <3>1. Len(disk) \in Nat /\ NoTree.physical_size = 0
      BY DiskBytes DEF IInv, Types, NoTree
    <3> HIDE DEF info
    <3> QED
      BY <2>2, <3>1, NoTreeIs
  <2>3. CASE ~manager /\ info # NoTree
    <3>1. info \in map /\ info.physical_size <= Len(disk)
      BY <2>3 DEF Parsed
    <3> HIDE DEF info
    <3> QED
      BY <2>3, <3>1 DEF IInv, Types
  <2> QED
    BY <2>1, <2>2, <2>3
<1>3. disk' \in Seq(0..FileSize - 1) /\ Len(disk') < MaxCapacity /\ info.physical_size <= Len(disk')
  <2>1. CASE ~manager /\ map = {}
    <3>1. disk' = <<>> /\ Len(disk') = 0 /\ disk' \in Seq(0..FileSize - 1)
      BY <1>1, <2>1, EmptySeq
    <3>2. info.physical_size = 0
      BY <1>2, <2>1 DEF NoTree
    <3> QED
      BY <3>1, <3>2, Bounds
  <2>2. CASE ~(~manager /\ map = {})
    BY <1>1, <1>2, <2>2 DEF IInv, Types
  <2> QED
    BY <2>1, <2>2
<1>4. ~stale' => Good(disk', info)
  <2> SUFFICES ASSUME ~stale' PROVE Good(disk', info)
    OBVIOUS
  <2>1. CASE info.entries = {}
    BY <2>1 DEF Good
  <2>2. CASE info.entries # {} /\ manager
    <3> HIDE DEF info
    <3> QED
      BY <1>0, <1>1, <1>2, <2>2 DEF IInv, Contents
  <2>3. CASE info.entries # {} /\ ~manager
    <3>1. info \in map
      BY <1>2, <2>3 DEF NoTree
    <3> HIDE DEF info
    <3> QED
      BY <1>0, <1>1, <1>2, <2>3, <3>1 DEF IInv, Contents, Threads
  <2> QED
    BY <2>1, <2>2, <2>3
<1> HIDE DEF info
<1>5. /\ Within(tree_info') /\ tree_info'.entries = info.entries
      /\ tree_info'.physical_size = info.physical_size
      /\ last_physical_pos' = info.physical_size
  BY <1>0, <1>2, Bounds DEF Within, Trees
<1>6. Types'
  <2>1. /\ last_physical_pos' = tree_info'.physical_size /\ last_physical_pos' \in Nat
        /\ last_physical_pos' <= Len(disk') /\ Len(disk') \in Nat
    BY <1>2, <1>3, <1>5, LenProperties DEF Within, Trees
  <2>2. /\ async_open' \in BOOLEAN /\ inner_pos' = 0 /\ read_logical_pos' = 0
        /\ file_logical_pos' = 0 /\ io_eof_reached' = FALSE /\ io_error' = "none"
        /\ seek_pos' = 0 /\ to_read' = 0
    BY DEF Open, NewContext
  <2>3. \A i \in map' : Within(i)
    BY <1>1 DEF IInv, Types
  <2>4. stale' \in BOOLEAN /\ outdated' \in BOOLEAN
    BY <1>0 DEF IInv, Types
  <2>5. fd_pos' \in 0..Len(disk') /\ cache_physical_pos' \in Nat
    BY <1>0, <2>1
  <2>6. /\ inner_pos' \in 0..FileSize /\ read_logical_pos' \in 0..FileSize
        /\ file_logical_pos' \in 0..FileSize /\ seek_pos' \in 0..FileSize
        /\ to_read' \in 0..MaxCapacity /\ io_error' = "none"
    BY <2>2, Bounds
  <2>7. disk' \in Seq(0..FileSize - 1) /\ Len(disk') < MaxCapacity /\ Within(tree_info')
    BY <1>3, <1>5
  <2> QED
    BY <1>1, <2>1, <2>2, <2>3, <2>4, <2>5, <2>6, <2>7 DEF Types
<1>7. Threads' /\ SleepersHaveAPartner' /\ Fetched'
  BY <1>1, Bounds DEF Threads, SleepersHaveAPartner, Fetched, Synchronous
<1>8. Offsets'
  BY <1>0, <1>1, <1>3, <1>5 DEF Offsets, Synchronous
<1>9. Contents'
  <2>1. ~stale' => Good(disk', tree_info')
    BY <1>4, <1>5 DEF Good
  <2>2. \A i, other \in map' : i = other
    BY <1>1 DEF IInv, Contents
  <2>3. ASSUME ~stale', ~outdated', NEW i \in map
        PROVE  /\ i.physical_size <= Len(disk') => Good(disk', i)
               /\ i.physical_size <= last_physical_pos'
    <3>1. CASE manager
      BY <1>0, <1>1, <1>2, <1>5, <2>3, <3>1 DEF IInv, Contents
    <3>2. CASE ~manager
      <4>1. i = info
        BY <1>0, <2>3, <3>2 DEF IInv, Contents
      <4> QED
        BY <1>2, <1>4, <1>5, <2>3, <4>1 DEF Within, Trees
    <3> QED
      BY <3>1, <3>2
  <2>4. stale' /\ manager' /\ tree_info'.entries = {} => outdated'
    BY <1>0, <1>5
  <2> QED
    BY <1>1, <2>1, <2>2, <2>3, <2>4 DEF Contents
<1> QED
  BY <1>6, <1>7, <1>8, <1>9 DEF IInv

\* Closed, or dead: no context is left.
LEMMA NoContextIs ==
  ASSUME NoContext
  PROVE  /\ fd_pos' = 0 /\ cache_physical_pos' = 0 /\ forwards' = 0 /\ async_open' = FALSE
         /\ task' = "off" /\ caller' = "closed" /\ asleep' = {} /\ abort_request' = FALSE
         /\ inner_pos' = 0 /\ read_logical_pos' = 0 /\ file_logical_pos' = 0
         /\ io_eof_reached' = FALSE /\ io_error' = "none" /\ seek_pos' = 0 /\ to_read' = 0
  BY DEF NoContext, NewContext

LEMMA ClosedKeeps == ASSUME IInv, Closed PROVE IInv'
<1>0. UNCHANGED <<disk, map, manager, tree_info, last_physical_pos, outdated, stale>>
  BY DEF Closed, file, memory, history
<1>1. Types'
  BY <1>0, NoContextIs, DiskBytes, Bounds DEF IInv, Types, Closed
<1>2. Threads' /\ Offsets' /\ SleepersHaveAPartner'
  BY <1>0, NoContextIs
     DEF IInv, Threads, Offsets, SleepersHaveAPartner, Synchronous, Closed
<1> QED
  BY <1>0, <1>1, <1>2, NoContextIs, QuietKeeps DEF Closed

LEMMA DestroyKeeps == ASSUME IInv, Destroy PROVE IInv'
<1>0. /\ caller = "closed" /\ manager /\ manager' = FALSE /\ map' = {tree_info}
      /\ tree_info' = NoTree /\ last_physical_pos' = 0 /\ outdated' = FALSE
      /\ UNCHANGED <<disk, stale, fd_pos, cache_physical_pos, forwards, task, asleep, caller>>
  BY DEF Destroy, offsets, session
<1>1. Types'
  <2>1. Within(tree_info') /\ tree_info'.physical_size = 0
    BY <1>0, NoTreeIs DEF NoTree
  <2> QED
    BY <1>0, <2>1 DEF IInv, Types, Destroy, offsets, session, ends, seeking, call
<1>2. Threads' /\ Offsets' /\ SleepersHaveAPartner' /\ Fetched'
  BY <1>0 DEF IInv, Threads, Offsets, SleepersHaveAPartner, Fetched, Synchronous, Destroy
<1>3. Contents'
  BY <1>0, NoTreeIs DEF IInv, Contents
<1> QED
  BY <1>1, <1>2, <1>3 DEF IInv

\* A map cut short is a part of the tree.
LEMMA PartIs ==
  ASSUME NEW l, Within(tree_info)
  PROVE  LET part == [tree_info EXCEPT !.entries = {e \in @ : e.logical < l}]
         IN /\ Within(part)
            /\ \A bytes : Good(bytes, tree_info) => Good(bytes, part)
<1> DEFINE part == [tree_info EXCEPT !.entries = {e \in @ : e.logical < l}]
<1>1. /\ part \in Trees /\ part.entries \subseteq tree_info.entries
      /\ part.physical_size = tree_info.physical_size
  BY DEF Within, Trees
<1> HIDE DEF part
<1>2. Within(part)
  BY <1>1 DEF Within
<1>3. \A bytes : Good(bytes, tree_info) => Good(bytes, part)
  BY <1>1 DEF Good
<1> QED
  BY <1>2, <1>3 DEF part

LEMMA DieKeeps == ASSUME IInv, Die PROVE IInv'
<1>0. /\ manager /\ manager' = FALSE /\ tree_info' = NoTree /\ last_physical_pos' = 0
      /\ outdated' = FALSE /\ disk' = disk /\ NoContext
  BY DEF Die
<1>1. \/ map' = map /\ stale' = (stale \/ (outdated /\ map # {}))
      \/ map' = {} /\ stale' = stale
      \/ /\ stale' = stale
         /\ \E l \in 0..FileSize :
              map' = {[tree_info EXCEPT !.entries = {e \in @ : e.logical < l}]}
  BY DEF Die
<1>2. \A info \in map' : Within(info)
  BY <1>1, PartIs DEF IInv, Types
<1>3. Types'
  <2>1. Within(tree_info') /\ tree_info'.physical_size = 0
    BY <1>0, NoTreeIs DEF NoTree
  <2>2. Len(disk) \in Nat /\ disk \in Seq(0..FileSize - 1) /\ Len(disk) < MaxCapacity
    BY DiskBytes DEF IInv, Types
  <2>3. stale' \in BOOLEAN
    BY <1>1 DEF IInv, Types
  <2>4. /\ fd_pos' \in 0..Len(disk') /\ cache_physical_pos' \in Nat
        /\ inner_pos' \in 0..FileSize /\ read_logical_pos' \in 0..FileSize
        /\ file_logical_pos' \in 0..FileSize /\ seek_pos' \in 0..FileSize
        /\ to_read' \in 0..MaxCapacity
    BY <1>0, <2>2, NoContextIs, Bounds
  <2>5. /\ forwards' = 0 /\ async_open' = FALSE /\ task' = "off" /\ caller' = "closed"
        /\ asleep' = {} /\ abort_request' = FALSE /\ io_eof_reached' = FALSE
        /\ io_error' = "none"
    BY <1>0, NoContextIs
  <2> QED
    BY <1>0, <1>2, <2>1, <2>2, <2>3, <2>4, <2>5 DEF Types
<1>4. Threads' /\ Offsets' /\ SleepersHaveAPartner' /\ Fetched'
  BY <1>0, NoContextIs
     DEF IInv, Threads, Offsets, SleepersHaveAPartner, Fetched, Synchronous
<1>5. Contents'
  <2>1. \A info, other \in map' : info = other
    BY <1>1 DEF IInv, Contents
  <2>2. ASSUME ~stale', NEW info \in map', info.physical_size <= Len(disk)
        PROVE  Good(disk, info)
    <3>1. CASE map' = map /\ stale' = (stale \/ (outdated /\ map # {}))
      BY <2>2, <3>1 DEF IInv, Contents
    <3>2. CASE /\ stale' = stale
               /\ \E l \in 0..FileSize :
                    map' = {[tree_info EXCEPT !.entries = {e \in @ : e.logical < l}]}
      BY <2>2, <3>2, PartIs DEF IInv, Contents, Types
    <3> QED
      BY <1>1, <2>2, <3>1, <3>2
  <2> QED
    BY <1>0, <2>1, <2>2, NoTreeIs DEF Contents
<1> QED
  BY <1>3, <1>4, <1>5 DEF IInv

LEMMA ShortenKeeps == ASSUME IInv, Shorten PROVE IInv'
<1>0. /\ ~manager /\ UNCHANGED <<map, manager, tree_info, last_physical_pos, outdated, stale>>
      /\ UNCHANGED <<fd_pos, cache_physical_pos, forwards, task, asleep, caller, abort_request>>
  BY DEF Shorten, memory, offsets, session, history
<1>1. PICK n \in 0..Len(disk) - 1 : disk' = SubSeq(disk, 1, n)
  BY DEF Shorten
<1>2. Len(disk) \in Nat /\ \A i \in 1..Len(disk) : disk[i] \in 0..FileSize - 1
  BY DiskBytes DEF IInv, Types
<1>3. /\ disk' \in Seq(0..FileSize - 1) /\ Len(disk') = n
      /\ \A i \in 1..n : disk'[i] = disk[i]
  <2>1. n \in Int /\ \A i \in 1..n : disk[i] \in 0..FileSize - 1
    BY <1>2
  <2>2. /\ disk' \in Seq(0..FileSize - 1) /\ Len(disk') = IF 1 <= n THEN n - 1 + 1 ELSE 0
        /\ \A i \in 1 .. n - 1 + 1 : disk'[i] = disk[1 + i - 1]
    BY <1>1, <2>1, SubSeqProperties
  <2>3. ASSUME NEW i \in 1..n PROVE disk'[i] = disk[i]
    <3>1. i \in 1 .. n - 1 + 1 /\ 1 + i - 1 = i
      OBVIOUS
    <3> QED
      BY <2>2, <3>1
  <2> QED
    BY <2>2, <2>3
<1>4. fd_pos = 0 /\ caller = "closed"
  BY <1>0 DEF IInv, Threads
<1>5. Types'
  <2>1. Len(disk') < MaxCapacity /\ fd_pos' \in 0..Len(disk')
    <3>1. Len(disk) < MaxCapacity /\ MaxCapacity \in Nat /\ n \in Nat /\ n < Len(disk)
      BY <1>2, Bounds DEF IInv, Types
    <3>2. Len(disk') = n /\ fd_pos' = 0
      BY <1>0, <1>3, <1>4
    <3> QED
      BY <1>2, <3>1, <3>2
  <2>2. /\ UNCHANGED <<map, manager, tree_info, last_physical_pos, outdated, stale>>
        /\ UNCHANGED <<cache_physical_pos, forwards, async_open, inner_pos>>
        /\ UNCHANGED <<read_logical_pos, file_logical_pos, seek_pos, io_eof_reached>>
        /\ UNCHANGED <<io_error, task, caller, to_read, asleep, abort_request>>
    BY DEF Shorten, memory, offsets, session, ends, seeking, call, history
  <2> QED
    BY <1>3, <2>1, <2>2 DEF IInv, Types
<1>6. Threads' /\ Offsets' /\ SleepersHaveAPartner' /\ Fetched'
  BY <1>0 DEF IInv, Threads, Offsets, SleepersHaveAPartner, Fetched, Synchronous, Shorten
<1>7. Contents'
  <2>1. ASSUME ~stale, ~outdated, NEW info \in map, info.physical_size <= n
        PROVE  Good(disk', info)
    <3>1. Good(disk, info)
      BY <1>2, <2>1 DEF IInv, Contents, Types, Within, Trees
    <3>2. Within(info)
      BY DEF IInv, Types
    <3>3. ASSUME NEW e \in info.entries, NEW i \in 1..e.size
          PROVE  disk'[e.physical + i] = e.logical + i - 1
      <4>1. e.physical + i \in 1..n
        BY <2>1, <3>2, EntryIs
      <4> QED
        BY <1>3, <3>1, <4>1 DEF Good
    <3> QED
      BY <3>1, <3>3 DEF Good
  <2>2. tree_info = NoTree
    BY <1>0 DEF IInv, Threads
  <2> QED
    BY <1>0, <1>3, <2>1, <2>2, NoTreeIs DEF IInv, Contents
<1> QED
  BY <1>5, <1>6, <1>7 DEF IInv


--------------------------------------------------------------------------------
(* What is read from the cache file and what is written to it. *)

\* In either mode the file descriptor is where the context takes it to be when it is
\* read: the synchronous one has followed it, the task's is at the end of the ranges.
LEMMA ReadIs ==
  ASSUME IInv, caller # "closed", NEW n \in Nat, NEW e \in Holding(read_logical_pos)
  PROVE  LET from == Moved(Target(e))
             most == Least(n, e.logical + e.size - read_logical_pos)
             bytes == Kept(from, most)
         IN /\ e \in tree_info.entries
            /\ bytes \in Seq(0..FileSize - 1)
            /\ Len(bytes) \in Nat /\ Len(bytes) <= n /\ (n > 0 => Len(bytes) > 0)
            /\ from = Target(e) /\ from \in Nat /\ from + Len(bytes) <= Len(disk)
            /\ read_logical_pos + Len(bytes) <= FileSize
            /\ ~stale => bytes = Reader!Bytes(read_logical_pos, Len(bytes))
<1> DEFINE from == Moved(Target(e))
           most == Least(n, e.logical + e.size - read_logical_pos)
           bytes == Kept(from, most)
<1>1. /\ e \in tree_info.entries /\ e.logical <= read_logical_pos
      /\ read_logical_pos < e.logical + e.size
  BY DEF Holding, Floor
<1>2. /\ e.logical \in Nat /\ e.physical \in Nat /\ e.size \in Nat
      /\ e.logical + e.size <= FileSize /\ e.physical + e.size <= tree_info.physical_size
      /\ read_logical_pos \in Nat
  BY <1>1, EntryIs DEF IInv, Types
<1>3. /\ disk \in Seq(0..FileSize - 1) /\ Len(disk) \in Nat
      /\ tree_info.physical_size = last_physical_pos /\ last_physical_pos \in Nat
      /\ last_physical_pos <= Len(disk)
  BY DiskBytes DEF IInv, Types, Threads, Offsets, Within, Trees
<1>4. /\ Target(e) \in Nat /\ Target(e) < last_physical_pos
      /\ Target(e) - e.physical = read_logical_pos - e.logical
  BY <1>1, <1>2, <1>3 DEF Target
<1>5. from = Target(e)
  BY <1>2, <1>3, <1>4 DEF Moved, IInv, Offsets
<1>6. /\ most \in Nat /\ most <= n /\ read_logical_pos + most <= e.logical + e.size
      /\ Target(e) + most <= e.physical + e.size /\ (n > 0 => most > 0)
  BY <1>1, <1>2, <1>4 DEF Least
<1>7. from \in Nat /\ from <= Len(disk) /\ from + most <= Len(disk)
  <2> DEFINE target == Target(e)
  <2>1. /\ from = target /\ target \in Nat /\ target < last_physical_pos
        /\ last_physical_pos <= Len(disk) /\ last_physical_pos \in Nat /\ Len(disk) \in Nat
    BY <1>3, <1>4, <1>5
  <2>2. target + most <= last_physical_pos /\ most \in Nat
    BY <1>2, <1>3, <1>4, <1>6
  <2> HIDE DEF from, most, target
  <2> QED
    BY <2>1, <2>2
<1> HIDE DEF from, most
<1>8. /\ bytes \in Seq(0..FileSize - 1) /\ Len(bytes) = most
      /\ \A i \in 1..Len(bytes) : bytes[i] = disk[from + i]
  BY <1>3, <1>6, <1>7, KeptIs
<1>9. ASSUME ~stale PROVE bytes = Reader!Bytes(read_logical_pos, most)
  <2>1. /\ Reader!Bytes(read_logical_pos, most) \in Seq(0..FileSize - 1)
        /\ Len(Reader!Bytes(read_logical_pos, most)) = most
        /\ \A i \in 1..most : Reader!Bytes(read_logical_pos, most)[i] = read_logical_pos + i - 1
    <3>1. read_logical_pos + most <= FileSize /\ read_logical_pos \in Nat /\ most \in Nat
      BY <1>2, <1>6, Bounds
    <3> QED
      BY <3>1, FileBytes
  <2>2. ASSUME NEW i \in 1..most PROVE bytes[i] = read_logical_pos + i - 1
    <3> DEFINE j == read_logical_pos - e.logical + i
    <3>1. /\ j \in 1..e.size /\ from + i = e.physical + j
          /\ e.logical + j - 1 = read_logical_pos + i - 1
      BY <1>1, <1>2, <1>4, <1>5, <1>6
    <3>2. disk[e.physical + j] = e.logical + j - 1
      <4> HIDE DEF j
      <4> QED
        BY <1>1, <1>9, <3>1 DEF IInv, Contents, Good
    <3> QED
      BY <1>8, <3>1, <3>2
  <2> HIDE DEF bytes
  <2> QED
    BY <1>8, <2>1, <2>2, SeqEqual
<1> HIDE DEF bytes
<1>10. /\ Len(bytes) \in Nat /\ Len(bytes) <= n /\ (n > 0 => Len(bytes) > 0)
       /\ from + Len(bytes) <= Len(disk) /\ read_logical_pos + Len(bytes) <= FileSize
  <2>1. Len(bytes) = most
    BY <1>8
  <2>2. read_logical_pos + most <= FileSize
    BY <1>2, <1>6, Bounds
  <2> QED
    BY <1>6, <1>7, <2>1, <2>2
<1> QED
  BY <1>1, <1>5, <1>7, <1>8, <1>9, <1>10 DEF bytes, most, from

LEMMA SyncReadKeeps == ASSUME IInv, NEW n \in ReadSizes, SyncRead(n) PROVE IInv'
<1>0. caller = "idle" /\ Synchronous
  BY DEF SyncRead
<1>1. PICK e \in Holding(read_logical_pos) :
        LET from == Moved(Target(e))
            bytes == Kept(from, Least(n, e.logical + e.size - read_logical_pos))
        IN /\ fd_pos' = from + Len(bytes)
           /\ cache_physical_pos' = Target(e) + Len(bytes)
           /\ read_logical_pos' = read_logical_pos + Len(bytes)
  BY DEF SyncRead
<1>2. n \in Nat
  BY Bounds
<1>3. /\ fd_pos' \in Nat /\ fd_pos' <= Len(disk) /\ cache_physical_pos' = fd_pos'
      /\ read_logical_pos' \in Nat /\ read_logical_pos' <= FileSize
  <2> DEFINE from == Moved(Target(e))
             bytes == Kept(from, Least(n, e.logical + e.size - read_logical_pos))
  <2>1. /\ Len(bytes) \in Nat /\ from = Target(e) /\ from \in Nat
        /\ from + Len(bytes) <= Len(disk)
        /\ read_logical_pos + Len(bytes) <= FileSize
    BY <1>0, <1>2, ReadIs
  <2>2. /\ fd_pos' = from + Len(bytes) /\ cache_physical_pos' = Target(e) + Len(bytes)
        /\ read_logical_pos' = read_logical_pos + Len(bytes)
    BY <1>1
  <2>3. read_logical_pos \in Nat
    BY DEF IInv, Types
  <2> HIDE DEF from, bytes
  <2> QED
    BY <2>1, <2>2, <2>3
<1>4. /\ UNCHANGED <<disk, map, manager, tree_info, last_physical_pos, outdated, stale>>
      /\ UNCHANGED <<forwards, async_open, inner_pos, file_logical_pos, seek_pos>>
      /\ UNCHANGED <<io_eof_reached, io_error, task, caller, to_read, asleep, abort_request>>
  BY DEF SyncRead, file, memory, session, ends, seeking, history
<1>5. Types'
  BY <1>3, <1>4, Bounds, DiskBytes DEF IInv, Types
<1>6. Threads' /\ Offsets' /\ SleepersHaveAPartner'
  BY <1>0, <1>3, <1>4 DEF IInv, Threads, Offsets, SleepersHaveAPartner, Synchronous
<1>7. task' # "store"
  BY <1>0, <1>4 DEF IInv, Threads
<1> QED
  BY <1>4, <1>5, <1>6, <1>7, QuietKeeps

LEMMA ReadBytesKeeps == ASSUME IInv, ReadBytes PROVE IInv'
<1>0. caller = "read" /\ "caller" \notin asleep /\ ~abort_request /\ ~Synchronous
  BY DEF ReadBytes, Reading, Awake, IInv, Threads
<1>1. PICK e \in Holding(read_logical_pos) :
        LET from == Moved(Target(e))
            bytes == Kept(from, Least(to_read, e.logical + e.size - read_logical_pos))
        IN /\ fd_pos' = from + Len(bytes)
           /\ read_logical_pos' = read_logical_pos + Len(bytes)
           /\ \/ /\ caller' = "idle" /\ to_read' = 0
                 /\ asleep' = asleep \ {"task"} \/ asleep' = asleep
              \/ /\ to_read' = to_read - Len(bytes) /\ caller' = caller
                 /\ asleep' = (asleep \ {"task"}) \cup {"caller"}
  BY DEF ReadBytes, Return, Wake, WakeAndSleep
<1>2. to_read \in Nat /\ to_read <= MaxCapacity
  BY Bounds DEF IInv, Types
<1>3. /\ fd_pos' \in Nat /\ fd_pos' <= Len(disk)
      /\ read_logical_pos' \in Nat /\ read_logical_pos' <= FileSize
      /\ to_read' \in 0..MaxCapacity
  <2> DEFINE from == Moved(Target(e))
             bytes == Kept(from, Least(to_read, e.logical + e.size - read_logical_pos))
  <2>1. /\ Len(bytes) \in Nat /\ Len(bytes) <= to_read /\ from \in Nat
        /\ from + Len(bytes) <= Len(disk)
        /\ read_logical_pos + Len(bytes) <= FileSize
    BY <1>0, <1>2, ReadIs
  <2>2. /\ fd_pos' = from + Len(bytes)
        /\ read_logical_pos' = read_logical_pos + Len(bytes)
        /\ to_read' = 0 \/ to_read' = to_read - Len(bytes)
    BY <1>1
  <2>3. read_logical_pos \in Nat /\ MaxCapacity \in Nat
    BY Bounds DEF IInv, Types
  <2> HIDE DEF from, bytes
  <2> QED
    BY <1>2, <2>1, <2>2, <2>3
<1>4. /\ UNCHANGED <<disk, map, manager, tree_info, last_physical_pos, outdated, stale>>
      /\ UNCHANGED <<forwards, async_open, inner_pos, file_logical_pos, seek_pos>>
      /\ UNCHANGED <<io_eof_reached, io_error, task, abort_request, fetched>>
      /\ cache_physical_pos' = cache_physical_pos
  BY DEF ReadBytes, file, memory, session, ends, seeking, history
<1>5. Types'
  <2>1. caller' \in {"idle", "read"} /\ asleep' \subseteq {"caller", "task"}
    BY <1>0, <1>1 DEF IInv, Types
  <2> QED
    BY <1>3, <1>4, <2>1, Bounds, DiskBytes DEF IInv, Types
<1>6. Threads' /\ Offsets' /\ SleepersHaveAPartner'
  BY <1>0, <1>1, <1>4 DEF IInv, Threads, Offsets, SleepersHaveAPartner, Synchronous
<1> QED
  BY <1>4, <1>5, <1>6, QuietKeeps

\* What holds of a range holds as long as the part of the cache file it is in is kept.
LEMMA GoodStays ==
  ASSUME NEW info, Within(info), NEW old, Good(old, info), NEW bytes,
         \A i \in 1..info.physical_size : bytes[i] = old[i]
  PROVE  Good(bytes, info)
<1> SUFFICES ASSUME NEW e \in info.entries, NEW i \in 1..e.size
             PROVE  bytes[e.physical + i] = e.logical + i - 1
  BY DEF Good
<1>1. e.physical + i \in 1..info.physical_size
  BY EntryIs
<1> QED
  BY <1>1 DEF Good

\* A range is entered behind the others or, over the limit, alone.
LEMMA EnterKeeps ==
  ASSUME IInv, manager, NEW over \in BOOLEAN, NEW l \in Nat, NEW n \in Nat, n > 0,
         l + n <= FileSize,
         NEW p, p = (IF over THEN 0 ELSE last_physical_pos), p + n < MaxCapacity,
         NEW info, info = (IF over THEN NoTree ELSE tree_info),
         ~stale /\ ~over => \A e \in tree_info.entries : Apart(e, l, n),
         disk' = Written(p, Reader!Bytes(l, n)), tree_info' = Entered(info, l, p, n),
         last_physical_pos' = p + n, UNCHANGED <<map, manager>>,
         outdated' = (outdated \/ over), stale' = (stale /\ ~over)
  PROVE  /\ disk' \in Seq(0..FileSize - 1) /\ Len(disk') < MaxCapacity
         /\ Within(tree_info') /\ last_physical_pos' = tree_info'.physical_size
         /\ p \in Nat /\ p + n \in Nat /\ p + n <= Len(disk') /\ Len(disk') \in Nat
         /\ Contents'
<1>1. /\ last_physical_pos \in Nat /\ last_physical_pos <= Len(disk)
      /\ disk \in Seq(0..FileSize - 1) /\ Len(disk) \in Nat /\ Len(disk) < MaxCapacity
      /\ Within(tree_info) /\ tree_info.physical_size = last_physical_pos
  BY DiskBytes DEF IInv, Types, Offsets, Within, Trees
<1>2. p \in Nat /\ p <= Len(disk)
  BY <1>1
<1>3. Within(info) /\ info.physical_size = p
  BY <1>1, NoTreeIs DEF NoTree
<1>4. /\ Reader!Bytes(l, n) \in Seq(0..FileSize - 1) /\ Len(Reader!Bytes(l, n)) = n
      /\ \A i \in 1..n : Reader!Bytes(l, n)[i] = l + i - 1
  BY FileBytes
<1>5. /\ disk' \in Seq(0..FileSize - 1)
      /\ Len(disk') = IF p + n > Len(disk) THEN p + n ELSE Len(disk)
      /\ \A i \in 1..p : disk'[i] = disk[i]
      /\ \A i \in 1..n : disk'[p + i] = l + i - 1
  <2> DEFINE bytes == Reader!Bytes(l, n)
  <2>1. disk' = Written(p, bytes) /\ bytes \in Seq(0..FileSize - 1) /\ Len(bytes) = n
    BY <1>4
  <2>2. \A i \in 1..n : bytes[i] = l + i - 1
    BY <1>4
  <2> HIDE DEF bytes
  <2>3. /\ Written(p, bytes) \in Seq(0..FileSize - 1)
        /\ Len(Written(p, bytes))
             = IF p + Len(bytes) > Len(disk) THEN p + Len(bytes) ELSE Len(disk)
        /\ \A i \in 1..p : Written(p, bytes)[i] = disk[i]
        /\ \A i \in 1..Len(bytes) : Written(p, bytes)[p + i] = bytes[i]
    <3>1. disk \in Seq(0..FileSize - 1) /\ bytes \in Seq(0..FileSize - 1)
      BY <1>1, <2>1
    <3> QED
      BY <1>2, <3>1, WrittenIs
  <2> QED
    BY <2>1, <2>2, <2>3
<1>6. /\ Len(disk') < MaxCapacity /\ p + n \in Nat /\ p + n <= Len(disk')
      /\ Len(disk') \in Nat
  <2> DEFINE d == Len(disk)
             new == Len(disk')
  <2>1. /\ p \in Nat /\ n \in Nat /\ d \in Nat /\ d < MaxCapacity /\ p + n < MaxCapacity
        /\ new = IF p + n > d THEN p + n ELSE d
    BY <1>1, <1>2, <1>5
  <2> HIDE DEF d, new
  <2>2. new < MaxCapacity /\ p + n \in Nat /\ p + n <= new /\ new \in Nat
    BY <2>1
  <2> QED
    BY <2>2 DEF new
<1>7. /\ Within(tree_info') /\ tree_info'.physical_size = p + n
      /\ tree_info'.entries # {}
  BY <1>3, EnteredIs
<1>8. Contents'
  <2>1. ASSUME ~stale' PROVE Good(disk', tree_info')
    <3>1. Good(disk, info)
      BY <2>1, NoTreeIs DEF IInv, Contents
    <3>2. \A e \in info.entries : Apart(e, l, n)
      BY <2>1 DEF NoTree
    <3> QED
      BY <1>3, <1>5, <3>1, <3>2, EnteredGood
  <2>2. \A i, other \in map' : i = other
    BY DEF IInv, Contents
  <2>3. ASSUME ~stale', ~outdated', NEW i \in map'
        PROVE  /\ i.physical_size <= Len(disk') => Good(disk', i)
               /\ manager' => i.physical_size <= last_physical_pos'
    <3>1. ~over /\ ~stale /\ ~outdated /\ i \in map /\ p = last_physical_pos
      BY <2>3
    <3>2. Within(i) /\ i.physical_size \in Nat /\ i.physical_size <= p
      BY <3>1 DEF IInv, Types, Contents, Within, Trees
    <3>3. Good(disk, i)
      BY <1>1, <1>2, <3>1, <3>2 DEF IInv, Contents
    <3>4. \A k \in 1..i.physical_size : disk'[k] = disk[k]
      BY <1>2, <1>5, <3>2
    <3> QED
      BY <1>2, <3>2, <3>3, <3>4, GoodStays
  <2> QED
    BY <1>7, <2>1, <2>2, <2>3 DEF Contents
<1> QED
  BY <1>2, <1>5, <1>6, <1>7, <1>8

LEMMA SyncFetchKeeps == ASSUME IInv, NEW n \in ReadSizes, SyncFetch(n) PROVE IInv'
<1>0. caller = "idle" /\ Synchronous /\ Holding(read_logical_pos) = {}
  BY DEF SyncFetch, SyncMisses
<1>1. PICK m \in 1..Least(n, NextStart(read_logical_pos) - read_logical_pos) :
       LET bytes == Reader!Bytes(read_logical_pos, m)
           over == Overrun(m)
           p == IF over THEN 0 ELSE last_physical_pos
           at == IF over THEN 0
                 ELSE IF cache_physical_pos # last_physical_pos THEN last_physical_pos
                 ELSE fd_pos
           info == IF over THEN NoTree ELSE tree_info
       IN /\ read_logical_pos + m <= FileSize
          /\ disk' = Written(at, bytes) /\ fd_pos' = at + m
          /\ cache_physical_pos' = p + m /\ last_physical_pos' = p + m
          /\ tree_info' = Entered(info, read_logical_pos, p, m)
          /\ io_eof_reached' = (io_eof_reached /\ ~over)
          /\ file_logical_pos' = IF over THEN read_logical_pos ELSE file_logical_pos
          /\ outdated' = (outdated \/ over) /\ stale' = (stale /\ ~over)
          /\ inner_pos' = read_logical_pos + m
          /\ read_logical_pos' = read_logical_pos + m
  BY DEF SyncFetch
<1> DEFINE over == Overrun(m)
           p == IF over THEN 0 ELSE last_physical_pos
           info == IF over THEN NoTree ELSE tree_info
<1>2. /\ n \in Nat /\ n < MaxCapacity /\ MaxCapacity \in Nat
      /\ read_logical_pos \in Nat /\ read_logical_pos <= FileSize /\ FileSize \in Nat
      /\ last_physical_pos \in Nat /\ NextStart(read_logical_pos) \in Nat /\ Within(tree_info)
  <2>1. Within(tree_info) /\ read_logical_pos \in 0..FileSize
        /\ last_physical_pos = tree_info.physical_size
    BY DEF IInv, Types
  <2> QED
    BY <2>1, Bounds, NextStartIs DEF Within, Trees
<1>3. /\ m \in Nat /\ m > 0 /\ m <= n
      /\ read_logical_pos + m <= NextStart(read_logical_pos)
  BY <1>2 DEF Least
<1>4. p \in Nat /\ p + m < MaxCapacity
  BY <1>2, <1>3 DEF Overrun
<1>5. cache_physical_pos = fd_pos
  BY <1>0 DEF IInv, Offsets
<1>6. /\ disk' = Written(p, Reader!Bytes(read_logical_pos, m)) /\ fd_pos' = p + m
      /\ cache_physical_pos' = p + m /\ last_physical_pos' = p + m
      /\ tree_info' = Entered(info, read_logical_pos, p, m)
      /\ outdated' = (outdated \/ over) /\ stale' = (stale /\ ~over)
  BY <1>1, <1>5
<1>7. /\ UNCHANGED <<map, manager, forwards, seek_pos, io_error, task, caller>>
      /\ UNCHANGED <<to_read, asleep, abort_request>> /\ async_open' = FALSE
  BY DEF SyncFetch, seeking
<1>8. manager
  BY <1>0 DEF IInv, Threads
<1>9. ~stale => \A e \in tree_info.entries : Apart(e, read_logical_pos, m)
  BY <1>0, <1>2, <1>3, GapIs DEF IInv, Contents
<1>10. over \in BOOLEAN /\ read_logical_pos + m <= FileSize
  BY <1>1 DEF Overrun
<1>11. io_eof_reached' \in BOOLEAN /\ file_logical_pos' \in {read_logical_pos, file_logical_pos}
       /\ inner_pos' = read_logical_pos + m /\ read_logical_pos' = read_logical_pos + m
  BY <1>1, <1>10
<1>12. p = (IF over THEN 0 ELSE last_physical_pos) /\ info = (IF over THEN NoTree ELSE tree_info)
  OBVIOUS
<1> HIDE DEF over, p, info
<1>13. /\ disk' \in Seq(0..FileSize - 1) /\ Len(disk') < MaxCapacity
       /\ Within(tree_info') /\ last_physical_pos' = tree_info'.physical_size
       /\ p + m \in Nat /\ p + m <= Len(disk') /\ Len(disk') \in Nat
       /\ Contents'
  BY <1>2, <1>3, <1>4, <1>6, <1>7, <1>8, <1>9, <1>10, <1>12, EnterKeeps
<1>14. Types'
  <2>1. fd_pos' \in 0..Len(disk') /\ cache_physical_pos' \in Nat
    BY <1>6, <1>13
  <2>2. /\ read_logical_pos' \in 0..FileSize /\ inner_pos' \in 0..FileSize
        /\ file_logical_pos' \in 0..FileSize
    BY <1>2, <1>3, <1>10, <1>11 DEF IInv, Types
  <2>3. stale' \in BOOLEAN /\ outdated' \in BOOLEAN
    BY <1>6, <1>10 DEF IInv, Types
  <2>4. \A i \in map' : Within(i)
    BY <1>7 DEF IInv, Types
  <2>5. /\ manager' \in BOOLEAN /\ forwards' \in {0, Forwards} /\ async_open' \in BOOLEAN
        /\ seek_pos' \in 0..FileSize /\ io_error' \in {"none", "error", "exit"}
        /\ task' = "off" /\ caller' = "idle" /\ to_read' \in 0..MaxCapacity
        /\ asleep' \subseteq {"caller", "task"} /\ abort_request' \in BOOLEAN
    BY <1>0, <1>7 DEF IInv, Types, Threads
  <2> QED
    BY <1>11, <1>13, <2>1, <2>2, <2>3, <2>4, <2>5 DEF Types
<1>15. Threads' /\ Offsets' /\ SleepersHaveAPartner' /\ Fetched'
  BY <1>0, <1>6, <1>7, <1>8, <1>13
     DEF IInv, Threads, Offsets, SleepersHaveAPartner, Fetched, Synchronous
<1> QED
  BY <1>13, <1>14, <1>15 DEF IInv

LEMMA FetchKeeps == ASSUME IInv, Fetch PROVE IInv'
<1>0. /\ task = "write" /\ task' = "store" /\ "task" \notin asleep
      /\ file_logical_pos' = Uncached /\ async_open' = FALSE
      /\ UNCHANGED <<disk, map, manager, tree_info, last_physical_pos, outdated, stale>>
      /\ UNCHANGED <<fd_pos, cache_physical_pos, forwards, read_logical_pos, seek_pos>>
      /\ UNCHANGED <<io_eof_reached, io_error, caller, to_read, asleep, abort_request>>
  BY DEF Fetch, Task, Awake, file, memory, offsets, ends, seeking, call, history
<1>1. PICK m \in 1..Room : /\ Uncached + m <= FileSize
                           /\ fetched' = Reader!Bytes(Uncached, m)
                           /\ inner_pos' = Uncached + m
  BY DEF Fetch
<1>2. Uncached \in Nat /\ Uncached <= FileSize /\ m \in Nat /\ m > 0 /\ FileSize \in Nat
  BY UncachedIs, Bounds DEF IInv
<1>3. Types'
  <2>1. file_logical_pos' \in 0..FileSize /\ inner_pos' \in 0..FileSize
    BY <1>0, <1>1, <1>2
  <2> QED
    BY <1>0, <2>1 DEF IInv, Types
<1>4. Threads' /\ Offsets' /\ SleepersHaveAPartner'
  BY <1>0 DEF IInv, Threads, Offsets, SleepersHaveAPartner, Synchronous
<1>5. Contents'
  BY <1>0 DEF IInv, Contents, Good
<1>6. Fetched'
  <2>1. fetched' \in Seq(0..FileSize - 1) /\ Len(fetched') = m
    BY <1>1, <1>2, FileBytes
  <2>2. fetched' # <<>>
    BY <1>2, <2>1, EmptySeq
  <2>3. ~stale => \A e \in tree_info.entries : Apart(e, Uncached, m)
    BY RoomIs DEF IInv, Contents
  <2> QED
    BY <1>0, <1>1, <2>1, <2>2, <2>3 DEF Fetched
<1> QED
  BY <1>3, <1>4, <1>5, <1>6 DEF IInv

LEMMA StoreKeeps == ASSUME IInv, Store PROVE IInv'
<1> DEFINE n == Len(fetched)
           l == file_logical_pos
           p == last_physical_pos
<1>0. /\ task = "store" /\ task' = "announce" /\ "task" \notin asleep
      /\ UNCHANGED <<map, manager, forwards, async_open, inner_pos, read_logical_pos>>
      /\ UNCHANGED <<seek_pos, io_eof_reached, io_error, caller, to_read, asleep>>
      /\ UNCHANGED <<abort_request, outdated, stale>>
  BY DEF Store, Task, Awake, session, ends, seeking, call, history
<1>1. /\ disk' = Written(p, fetched) /\ fd_pos' = p + n /\ cache_physical_pos' = p + n
      /\ last_physical_pos' = p + n /\ tree_info' = Entered(tree_info, l, p, n)
      /\ file_logical_pos' = l + n /\ ~Overrun(n)
  BY DEF Store
<1>2. /\ fetched # <<>> /\ l + n <= FileSize /\ fetched = Reader!Bytes(l, n)
      /\ ~stale => \A e \in tree_info.entries : Apart(e, l, n)
  BY <1>0 DEF IInv, Fetched
<1>3. /\ l \in Nat /\ p \in Nat /\ MaxCapacity \in Nat /\ FileSize \in Nat
  BY Bounds DEF IInv, Types, Within, Trees
<1>4. n \in Nat /\ n > 0
  BY <1>0, EmptySeq, LenProperties DEF IInv, Fetched
<1>5. p + n < MaxCapacity
  BY <1>1, <1>3, <1>4 DEF Overrun
<1>6. manager /\ ~Synchronous
  BY <1>0 DEF IInv, Threads, Synchronous
<1> HIDE DEF n
<1>7. /\ disk' \in Seq(0..FileSize - 1) /\ Len(disk') < MaxCapacity
      /\ Within(tree_info') /\ last_physical_pos' = tree_info'.physical_size
      /\ p + n \in Nat /\ p + n <= Len(disk') /\ Len(disk') \in Nat
      /\ Contents'
  <2>1. /\ p = (IF FALSE THEN 0 ELSE last_physical_pos)
        /\ tree_info = (IF FALSE THEN NoTree ELSE tree_info)
        /\ outdated' = (outdated \/ FALSE) /\ stale' = (stale /\ ~FALSE)
        /\ disk' = Written(p, Reader!Bytes(l, n)) /\ FALSE \in BOOLEAN
    BY <1>0, <1>1, <1>2 DEF IInv, Types
  <2> QED
    BY <1>0, <1>1, <1>2, <1>3, <1>4, <1>5, <1>6, <2>1, EnterKeeps
<1>8. Types'
  <2>1. fd_pos' \in 0..Len(disk') /\ cache_physical_pos' \in Nat
    BY <1>1, <1>7
  <2>2. file_logical_pos' \in 0..FileSize
    BY <1>1, <1>2, <1>3, <1>4
  <2>3. \A i \in map' : Within(i)
    BY <1>0 DEF IInv, Types
  <2> QED
    BY <1>0, <1>7, <2>1, <2>2, <2>3 DEF IInv, Types
<1>9. Threads' /\ Offsets' /\ SleepersHaveAPartner' /\ Fetched'
  BY <1>0, <1>1, <1>6, <1>7
     DEF IInv, Threads, Offsets, SleepersHaveAPartner, Fetched, Synchronous
<1> QED
  BY <1>7, <1>8, <1>9 DEF IInv

LEMMA FlushKeeps == ASSUME IInv, Flush PROVE IInv'
<1>0. /\ task = "store" /\ task' = "loop" /\ "task" \notin asleep
      /\ UNCHANGED <<disk, map, manager, forwards, async_open, inner_pos, read_logical_pos>>
      /\ UNCHANGED <<seek_pos, io_error, caller, to_read, asleep, abort_request>>
  BY DEF Flush, Task, Awake, file, session, seeking, call
<1>1. /\ tree_info' = NoTree /\ last_physical_pos' = 0 /\ fd_pos' = 0
      /\ cache_physical_pos' = 0 /\ io_eof_reached' = FALSE
      /\ file_logical_pos' = read_logical_pos
      /\ outdated' = TRUE /\ stale' = (stale /\ dest # <<>>)
  BY DEF Flush
<1>2. Types'
  <2>1. Within(tree_info') /\ tree_info'.physical_size = 0
    BY <1>1, NoTreeIs DEF NoTree
  <2>2. Len(disk) \in Nat /\ Len(disk') \in Nat /\ fd_pos' \in 0..Len(disk')
    BY <1>0, <1>1, DiskBytes DEF IInv, Types
  <2>3. stale' \in BOOLEAN
    BY <1>1 DEF IInv, Types
  <2> QED
    BY <1>0, <1>1, <2>1, <2>2, <2>3 DEF IInv, Types
<1>3. manager /\ Len(disk') \in Nat
  BY <1>0, DiskBytes DEF IInv, Types, Threads, Synchronous
<1>4. Threads' /\ Offsets' /\ SleepersHaveAPartner' /\ Fetched'
  BY <1>0, <1>1, <1>3
     DEF IInv, Threads, Offsets, SleepersHaveAPartner, Fetched, Synchronous
<1>5. Contents'
  BY <1>0, <1>1, NoTreeIs DEF IInv, Contents
<1> QED
  BY <1>2, <1>4, <1>5 DEF IInv


--------------------------------------------------------------------------------
(* The theorems. *)

LEMMA NextIInv == IInv /\ [Next]_vars => IInv'
<1> SUFFICES ASSUME IInv, [Next]_vars PROVE IInv'
  OBVIOUS
<1>1. CASE Calls
  BY <1>1, OpenKeeps, SyncReadKeeps, SyncFetchKeeps, ReadKeeps, SyncEndKeeps, SyncFailKeeps,
     SyncSeekKeeps, SeekKeeps, CloseKeeps, DestroyKeeps
     DEF Calls
<1>2. CASE InCall
  BY <1>2, ReadInterruptedKeeps, ReadBytesKeeps, ReadEndKeeps, ReadWaitKeeps,
     SeekInterruptedKeeps, SeekWaitKeeps, SeekDoneKeeps, ClosedKeeps
     DEF InCall
<1>3. CASE TaskStep
  BY <1>3, StartKeeps, TestAbortKeeps, ServeKeeps, TestRoomKeeps, RestKeeps, SkipKeeps,
     FetchKeeps, SeekFailsKeeps, FetchFailsKeeps, SetErrorKeeps, StoreKeeps, FlushKeeps,
     AnnounceKeeps, ExitKeeps
     DEF TaskStep
<1>4. CASE Interrupt \/ Die \/ Shorten
  BY <1>4, InterruptKeeps, DieKeeps, ShortenKeeps
<1>5. CASE UNCHANGED vars
  <2>1. /\ UNCHANGED <<disk, map, manager, tree_info, last_physical_pos, outdated, stale>>
        /\ UNCHANGED <<fd_pos, cache_physical_pos, forwards, async_open, inner_pos>>
        /\ UNCHANGED <<read_logical_pos, file_logical_pos, seek_pos, io_eof_reached>>
        /\ UNCHANGED <<io_error, task, caller, to_read, asleep, abort_request, fetched>>
    BY <1>5 DEF vars, file, memory, offsets, session, ends, seeking, call, history
  <2>2. Types' /\ Threads' /\ Offsets' /\ SleepersHaveAPartner'
    BY <2>1 DEF IInv, Types, Threads, Offsets, SleepersHaveAPartner, Synchronous
  <2> QED
    BY <2>1, <2>2, QuietKeeps
<1> QED
  BY <1>1, <1>2, <1>3, <1>4, <1>5 DEF Next

\* The inductive invariant holds of every behaviour: of any file, cache and chunk, and
\* over any number of opens, deaths of the process and cuts of the cache file.
THEOREM Invariant == Spec => []IInv
<1> QED
  BY InitIInv, NextIInv, PTL DEF Spec

\* Every range of the tree lies in the file and in the part of the cache file that the
\* tree accounts for, which is below cache_max_capacity.
THEOREM Typing == Spec => []TypeOK
<1>1. IInv => TypeOK
  BY DEF IInv, Types, TypeOK, Within
<1> QED
  BY <1>1, Invariant, PTL

\* The ranges of the tree are, byte for byte, those of the file, and none overlaps
\* another, unless the tree is that of a map out of date when the process died.
THEOREM RangesHold == Spec => []RangesAreOfTheFile
<1>1. IInv => RangesAreOfTheFile
  <2> SUFFICES ASSUME IInv, ~stale, NEW e \in tree_info.entries
               PROVE  /\ Kept(e.physical, e.size) = Reader!Bytes(e.logical, e.size)
                      /\ \A f \in tree_info.entries \ {e} :
                           \/ e.logical + e.size <= f.logical
                           \/ f.logical + f.size <= e.logical
    BY DEF RangesAreOfTheFile
  <2>1. Good(disk, tree_info)
    BY DEF IInv, Contents
  <2>2. \A f \in tree_info.entries \ {e} :
          e.logical + e.size <= f.logical \/ f.logical + f.size <= e.logical
    BY <2>1 DEF Good, Apart
  <2>3. /\ e.logical \in Nat /\ e.physical \in Nat /\ e.size \in Nat
        /\ e.logical + e.size <= FileSize /\ e.physical + e.size <= Len(disk)
        /\ disk \in Seq(0..FileSize - 1)
    <3>1. manager
      BY DEF IInv, Threads, NoTree
    <3>2. Within(tree_info) /\ tree_info.physical_size <= Len(disk) /\ Len(disk) \in Nat
          /\ disk \in Seq(0..FileSize - 1)
      BY <3>1, DiskBytes DEF IInv, Types, Offsets
    <3> QED
      BY <3>2, EntryIs
  <2> DEFINE kept == Kept(e.physical, e.size)
             bytes == Reader!Bytes(e.logical, e.size)
  <2>4. /\ kept \in Seq(0..FileSize - 1) /\ Len(kept) = e.size
        /\ \A i \in 1..e.size : kept[i] = disk[e.physical + i]
    <3>1. e.physical <= Len(disk) /\ Len(disk) \in Nat
      BY <2>3, DiskBytes
    <3> QED
      BY <2>3, <3>1, KeptIs
  <2>5. /\ bytes \in Seq(0..FileSize - 1) /\ Len(bytes) = e.size
        /\ \A i \in 1..e.size : bytes[i] = e.logical + i - 1
    BY <2>3, FileBytes
  <2>6. \A i \in 1..e.size : kept[i] = bytes[i]
    <3> HIDE DEF kept, bytes
    <3> QED
      BY <2>1, <2>4, <2>5 DEF Good
  <2>7. kept = bytes
    <3> HIDE DEF kept, bytes
    <3> QED
      BY <2>4, <2>5, <2>6, SeqEqual
  <2> QED
    BY <2>2, <2>7
<1> QED
  BY <1>1, Invariant, PTL

\* The reader and the task never wait for each other at once, and the reader never
\* waits for a task that has ended.
THEOREM PartnersWake == Spec => []SleepersHaveAPartner
<1>1. IInv => SleepersHaveAPartner
  BY DEF IInv
<1> QED
  BY <1>1, Invariant, PTL


--------------------------------------------------------------------------------
(* What the caller reads. *)

\* Where the caller takes itself to be and what it has so far.
Place ==
  /\ position \in 0..FileSize /\ dest \in Seq(0..FileSize - 1)
  /\ Synchronous /\ abort_request => caller = "closing"
  /\ caller \notin {"read", "closing"} => dest = <<>>
  /\ caller = "read" => to_read > 0
  /\ ~abort_request =>
       /\ caller # "seek" => ~seek_request /\ read_logical_pos = position + Len(dest)
       /\ caller = "seek" /\ seek_completed => ~seek_request /\ read_logical_pos = seek_pos
       /\ ~stale => dest = Reader!Bytes(position, Len(dest))

Covered(x) == \E e \in tree_info.entries : e.logical <= x /\ x < e.logical + e.size

\* Between the reader and the task every byte is in the tree.
Span == \A x \in read_logical_pos..file_logical_pos - 1 : Covered(x)

\* The task sets the end at the end, or when the inner protocol has failed it.
Ahead ==
  ~Synchronous =>
    /\ ~stale => Span
    /\ ~abort_request /\ io_eof_reached /\ ~failing => file_logical_pos >= FileSize
    /\ ~abort_request /\ task \in {"write", "store"} => ~io_eof_reached

JInv == Place /\ Ahead

Reads == [Reader!ReaderNext \/ EarlyEnd \/ stale]_Reader!readerVars

LEMMA NoBytes == \A l : Reader!Bytes(l, 0) = <<>> /\ Len(<<>>) = 0
  BY DEF Reader!Bytes

LEMMA CloseReads == ASSUME IInv, JInv, Close PROVE JInv' /\ Reads
<1>1. Place'
  BY DEF JInv, Place, Close, session, seeking, call, Synchronous
<1>2. Ahead'
  BY DEF JInv, Ahead, Span, Covered, Close, memory, session, ends, history, Synchronous
<1>3. Reads
  BY DEF Reads, Reader!readerVars, Close, call
<1> QED
  BY <1>1, <1>2, <1>3 DEF JInv

LEMMA SyncEndReads == ASSUME IInv, JInv, SyncEnd PROVE JInv' /\ Reads
<1>1. Place'
  BY DEF JInv, Place, SyncEnd, Synchronous, Answer, session, seeking, history
<1>2. Ahead'
  BY DEF Ahead, SyncEnd, Synchronous, Answer, memory, session
<1>3. Reads
  BY DEF JInv, Place, Reads, Reader!readerVars, Reader!ReaderNext, Reader!End, Reader!Fail,
         SyncEnd, Answer
<1> QED
  BY <1>1, <1>2, <1>3 DEF JInv

LEMMA SyncFailReads == ASSUME IInv, JInv, SyncFail PROVE JInv' /\ Reads
<1>1. Place'
  BY DEF JInv, Place, SyncFail, SyncMisses, Answer, seeking, history, Synchronous
<1>2. Ahead'
  BY DEF Ahead, SyncFail, SyncMisses, Answer, memory, ends, Synchronous
<1>3. Reads
  BY DEF JInv, Place, Reads, Reader!readerVars, Reader!ReaderNext, Reader!End, Reader!Fail,
         SyncFail, SyncMisses, Answer
<1> QED
  BY <1>1, <1>2, <1>3 DEF JInv

LEMMA SyncSeekReads ==
  ASSUME IInv, JInv, NEW pos \in SeekTargets, SyncSeek(pos) PROVE JInv' /\ Reads
<1>1. Place'
  BY NoBytes, Bounds DEF JInv, Place, SyncSeek, Synchronous, session, seeking
<1>2. Ahead'
  BY DEF Ahead, SyncSeek, Synchronous, memory, session, ends
<1>3. Reads
  BY Bounds DEF Reads, Reader!readerVars, Reader!ReaderNext, Reader!Move, SyncSeek
<1> QED
  BY <1>1, <1>2, <1>3 DEF JInv

LEMMA ReadReads == ASSUME IInv, JInv, NEW n \in ReadSizes, Read(n) PROVE JInv' /\ Reads
<1>1. Place'
  BY Bounds DEF JInv, Place, Read, Synchronous, session, seeking, history
<1>2. Ahead'
  BY DEF JInv, Ahead, Span, Covered, Read, Synchronous, memory, session, ends, history
<1>3. Reads
  BY DEF Reads, Reader!readerVars, Read
<1> QED
  BY <1>1, <1>2, <1>3 DEF JInv

LEMMA ReadInterruptedReads == ASSUME IInv, JInv, ReadInterrupted PROVE JInv' /\ Reads
<1>1. Place'
  BY DEF JInv, Place, ReadInterrupted, Reading, Return, session, seeking, Answer,
         Synchronous
<1>2. Ahead'
  BY DEF JInv, Ahead, Span, Covered, ReadInterrupted, Reading, Return, memory, session,
         ends, history, Answer, Synchronous
<1>3. Reads
  BY DEF JInv, Place, Reads, Reader!readerVars, Reader!ReaderNext, Reader!End, Reader!Fail,
         ReadInterrupted, Reading, Return, Answer
<1> QED
  BY <1>1, <1>2, <1>3 DEF JInv

LEMMA ReadWaitReads == ASSUME IInv, JInv, ReadWait PROVE JInv' /\ Reads
<1>1. Place'
  BY DEF JInv, Place, ReadWait, Reading, session, seeking, call, history, Synchronous
<1>2. Ahead'
  BY DEF JInv, Ahead, Span, Covered, ReadWait, Reading, memory, session, ends, history,
         Synchronous
<1>3. Reads
  BY DEF Reads, Reader!readerVars, ReadWait, Reading, call
<1> QED
  BY <1>1, <1>2, <1>3 DEF JInv

LEMMA SeekReads == ASSUME IInv, JInv, NEW pos \in SeekTargets, Seek(pos) PROVE JInv' /\ Reads
<1>1. Place'
  BY DEF JInv, Place, Seek, Synchronous, session, call, history
<1>2. Ahead'
  BY DEF JInv, Ahead, Span, Covered, Seek, Synchronous, memory, session, ends, history
<1>3. Reads
  BY DEF Reads, Reader!readerVars, Seek, call
<1> QED
  BY <1>1, <1>2, <1>3 DEF JInv

LEMMA SeekInterruptedReads == ASSUME IInv, JInv, SeekInterrupted PROVE JInv' /\ Reads
<1>1. Place'
  BY DEF JInv, Place, SeekInterrupted, Seeking, Return, session, seeking, Answer,
         Synchronous
<1>2. Ahead'
  BY DEF JInv, Ahead, Span, Covered, SeekInterrupted, Seeking, Return, memory, session,
         ends, history, Answer, Synchronous
<1>3. Reads
  BY DEF JInv, Place, Reads, Reader!readerVars, Reader!ReaderNext, Reader!End, Reader!Fail,
         SeekInterrupted, Seeking, Return, Answer
<1> QED
  BY <1>1, <1>2, <1>3 DEF JInv

LEMMA SeekWaitReads == ASSUME IInv, JInv, SeekWait PROVE JInv' /\ Reads
<1>1. Place'
  BY DEF JInv, Place, SeekWait, Seeking, session, seeking, call, history, Synchronous
<1>2. Ahead'
  BY DEF JInv, Ahead, Span, Covered, SeekWait, Seeking, memory, session, ends, history,
         Synchronous
<1>3. Reads
  BY DEF Reads, Reader!readerVars, SeekWait, Seeking, call
<1> QED
  BY <1>1, <1>2, <1>3 DEF JInv

LEMMA SeekDoneReads == ASSUME IInv, JInv, SeekDone PROVE JInv' /\ Reads
<1>1. Place'
  BY NoBytes DEF IInv, JInv, Types, Place, SeekDone, Seeking, session, seeking, Synchronous
<1>2. Ahead'
  BY DEF JInv, Ahead, Span, Covered, SeekDone, Seeking, memory, session, ends, history,
         Synchronous
<1>3. Reads
  BY DEF IInv, Types, Reads, Reader!readerVars, Reader!ReaderNext, Reader!Move, SeekDone,
         Seeking
<1> QED
  BY <1>1, <1>2, <1>3 DEF JInv

LEMMA InterruptReads == ASSUME IInv, JInv, Interrupt PROVE JInv' /\ Reads
<1>1. Place'
  BY DEF JInv, Place, Interrupt, Synchronous, session, seeking, call
<1>2. Ahead'
  BY DEF JInv, Ahead, Span, Covered, Interrupt, Synchronous, memory, session, ends, history
<1>3. Reads
  BY DEF Reads, Reader!readerVars, Interrupt, call
<1> QED
  BY <1>1, <1>2, <1>3 DEF JInv

LEMMA StartReads == ASSUME IInv, JInv, Start PROVE JInv' /\ Reads
<1>1. Place'
  BY DEF JInv, Place, Start, session, seeking, call, history, Synchronous
<1>2. Ahead'
  BY DEF JInv, Ahead, Span, Covered, Start, Task, memory, session, ends, history,
         Synchronous
<1>3. Reads
  BY DEF Reads, Reader!readerVars, Start, call
<1> QED
  BY <1>1, <1>2, <1>3 DEF JInv

LEMMA TestAbortReads == ASSUME IInv, JInv, TestAbort PROVE JInv' /\ Reads
<1>1. Place'
  BY DEF JInv, Place, TestAbort, session, seeking, call, history, Synchronous
<1>2. Ahead'
  BY DEF JInv, Ahead, Span, Covered, TestAbort, Task, ends, memory, session, history,
         Synchronous
<1>3. Reads
  BY DEF Reads, Reader!readerVars, TestAbort, call
<1> QED
  BY <1>1, <1>2, <1>3 DEF JInv

LEMMA ServeReads == ASSUME IInv, JInv, Serve PROVE JInv' /\ Reads
<1>1. Place'
  BY DEF JInv, Place, Serve, session, call, history, Synchronous
<1>2. Ahead'
  BY DEF IInv, JInv, Types, Ahead, Span, Covered, Serve, Task, ends, memory, session,
         history, Synchronous
<1>3. Reads
  BY DEF Reads, Reader!readerVars, Serve, call
<1> QED
  BY <1>1, <1>2, <1>3 DEF JInv

LEMMA TestRoomReads == ASSUME IInv, JInv, TestRoom PROVE JInv' /\ Reads
<1>1. Place'
  BY DEF JInv, Place, TestRoom, FarEnough, session, seeking, call, history, Synchronous
<1>2. Ahead'
  BY DEF JInv, Ahead, Span, Covered, TestRoom, FarEnough, Task, memory, session, ends,
         history, Synchronous
<1>3. Reads
  BY DEF Reads, Reader!readerVars, TestRoom, FarEnough, call
<1> QED
  BY <1>1, <1>2, <1>3 DEF JInv

LEMMA RestReads == ASSUME IInv, JInv, Rest PROVE JInv' /\ Reads
<1>1. Place'
  BY DEF JInv, Place, Rest, session, seeking, call, history, Synchronous
<1>2. Ahead'
  BY DEF JInv, Ahead, Span, Covered, Rest, Task, memory, session, ends, history, Synchronous
<1>3. Reads
  BY DEF Reads, Reader!readerVars, Rest, call
<1> QED
  BY <1>1, <1>2, <1>3 DEF JInv

LEMMA SetErrorReads == ASSUME IInv, JInv, SetError PROVE JInv' /\ Reads
<1>1. Place'
  BY DEF JInv, Place, SetError, session, seeking, call, history, Synchronous
<1>2. Ahead'
  BY DEF JInv, Ahead, Span, Covered, SetError, Task, memory, session, history, Synchronous
<1>3. Reads
  BY DEF Reads, Reader!readerVars, SetError, call
<1> QED
  BY <1>1, <1>2, <1>3 DEF JInv

LEMMA AnnounceReads == ASSUME IInv, JInv, Announce PROVE JInv' /\ Reads
<1>1. Place'
  BY DEF JInv, Place, Announce, session, seeking, call, history, Synchronous
<1>2. Ahead'
  BY DEF JInv, Ahead, Span, Covered, Announce, Task, memory, session, ends, history,
         Synchronous
<1>3. Reads
  BY DEF Reads, Reader!readerVars, Announce, call
<1> QED
  BY <1>1, <1>2, <1>3 DEF JInv

LEMMA ExitReads == ASSUME IInv, JInv, Exit PROVE JInv' /\ Reads
<1>1. Place'
  BY DEF JInv, Place, Exit, session, seeking, call, history, Synchronous
<1>2. Ahead'
  BY DEF JInv, Ahead, Span, Covered, Exit, Task, memory, session, ends, history, Synchronous
<1>3. Reads
  BY DEF Reads, Reader!readerVars, Exit, call
<1> QED
  BY <1>1, <1>2, <1>3 DEF JInv

LEMMA DestroyReads == ASSUME IInv, JInv, Destroy PROVE JInv' /\ Reads
<1>1. Place'
  BY DEF JInv, Place, Destroy, session, seeking, call, Synchronous
<1>2. Ahead'
  BY DEF IInv, Threads, Ahead, Destroy, session, ends, Synchronous
<1>3. Reads
  BY DEF Reads, Reader!readerVars, Destroy, call
<1> QED
  BY <1>1, <1>2, <1>3 DEF JInv

LEMMA ShortenReads == ASSUME IInv, JInv, Shorten PROVE JInv' /\ Reads
<1>1. Place'
  BY DEF JInv, Place, Shorten, session, seeking, call, history, Synchronous
<1>2. Ahead'
  BY DEF JInv, Ahead, Span, Covered, Shorten, memory, session, ends, history, Synchronous
<1>3. Reads
  BY DEF Reads, Reader!readerVars, Shorten, call
<1> QED
  BY <1>1, <1>2, <1>3 DEF JInv

LEMMA OpenReads ==
  ASSUME IInv, JInv, NEW capacity \in {0, Forwards}, Open(capacity) PROVE JInv' /\ Reads
<1>1. Place'
  BY NoBytes, Bounds DEF Place, Open, NewContext, Synchronous
<1>2. Ahead'
  BY DEF Ahead, Span, Covered, Open, NewContext, Synchronous
<1>3. Reads
  BY DEF Reads, Reader!readerVars, Reader!ReaderNext, Reader!Restart, Reader!NoAnswer,
         Open, NewContext
<1> QED
  BY <1>1, <1>2, <1>3 DEF JInv

LEMMA ClosedReads == ASSUME IInv, JInv, Closed PROVE JInv' /\ Reads
<1>1. Place'
  BY NoBytes, Bounds DEF Place, Closed, NoContext, NewContext, Synchronous
<1>2. Ahead'
  BY DEF Ahead, Closed, NoContext, memory, NewContext, Synchronous
<1>3. Reads
  BY DEF Reads, Reader!readerVars, Reader!ReaderNext, Reader!Restart, Reader!NoAnswer,
         Closed, NoContext, NewContext
<1> QED
  BY <1>1, <1>2, <1>3 DEF JInv

LEMMA DieReads == ASSUME IInv, JInv, Die PROVE JInv' /\ Reads
<1>1. Place'
  BY NoBytes, Bounds DEF Place, Die, NoContext, NewContext, Synchronous
<1>2. Ahead'
  BY DEF Ahead, Die, NoContext, NewContext, Synchronous
<1>3. Reads
  BY DEF Reads, Reader!readerVars, Reader!ReaderNext, Reader!Restart, Reader!NoAnswer, Die,
         NoContext, NewContext
<1> QED
  BY <1>1, <1>2, <1>3 DEF JInv
LEMMA BytesJoin ==
  ASSUME NEW l \in Nat, NEW m \in Nat, NEW n \in Nat, l + m + n <= FileSize
  PROVE  Reader!Bytes(l, m) \o Reader!Bytes(l + m, n) = Reader!Bytes(l, m + n)
<1> DEFINE s == Reader!Bytes(l, m)
           t == Reader!Bytes(l + m, n)
           u == Reader!Bytes(l, m + n)
           S == 0..FileSize - 1
<1>1. s \in Seq(S) /\ Len(s) = m /\ \A i \in 1..m : s[i] = l + i - 1
  BY FileBytes, Bounds
<1>2. t \in Seq(S) /\ Len(t) = n /\ \A i \in 1..n : t[i] = l + m + i - 1
  <2> DEFINE k == l + m
  <2>1. k \in Nat /\ k + n <= FileSize
    OBVIOUS
  <2> HIDE DEF k
  <2>2. /\ Reader!Bytes(k, n) \in Seq(S) /\ Len(Reader!Bytes(k, n)) = n
        /\ \A i \in 1..n : Reader!Bytes(k, n)[i] = k + i - 1
    BY <2>1, FileBytes
  <2> QED
    BY <2>2 DEF k
<1>3. u \in Seq(S) /\ Len(u) = m + n /\ \A i \in 1 .. m + n : u[i] = l + i - 1
  BY FileBytes, Bounds
<1> HIDE DEF s, t, u, S
<1>4. /\ s \o t \in Seq(S) /\ Len(s \o t) = m + n
      /\ \A i \in 1 .. m + n : (s \o t)[i] = IF i <= m THEN s[i] ELSE t[i - m]
  <2>1. s \in Seq(S) /\ t \in Seq(S)
    BY <1>1, <1>2
  <2>2. /\ s \o t \in Seq(S) /\ Len(s \o t) = Len(s) + Len(t)
        /\ \A i \in 1 .. Len(s) + Len(t) :
             (s \o t)[i] = IF i <= Len(s) THEN s[i] ELSE t[i - Len(s)]
    BY <2>1, ConcatProperties
  <2>3. Len(s) = m /\ Len(t) = n
    BY <1>1, <1>2
  <2>4. ASSUME NEW i \in 1 .. m + n
        PROVE  (s \o t)[i] = IF i <= m THEN s[i] ELSE t[i - m]
    <3>1. i \in 1 .. Len(s) + Len(t)
      BY <2>3
    <3>2. (s \o t)[i] = IF i <= Len(s) THEN s[i] ELSE t[i - Len(s)]
      BY <2>2, <3>1
    <3> QED
      BY <2>3, <3>2
  <2>5. s \o t \in Seq(S) /\ Len(s \o t) = m + n
    BY <2>2, <2>3
  <2> QED
    BY <2>4, <2>5
<1>5. ASSUME NEW i \in 1 .. m + n PROVE (s \o t)[i] = u[i]
  <2>1. CASE i <= m
    BY <1>1, <1>3, <1>4, <2>1
  <2>2. CASE i > m
    <3>1. i - m \in 1..n /\ ~(i <= m) /\ l + m + (i - m) - 1 = l + i - 1
      BY <2>2
    <3>2. t[i - m] = l + m + (i - m) - 1 /\ u[i] = l + i - 1
      BY <1>2, <1>3, <3>1
    <3>3. (s \o t)[i] = t[i - m]
      BY <1>4, <3>1
    <3> QED
      BY <3>1, <3>2, <3>3
  <2>3. i <= m \/ i > m
    OBVIOUS
  <2> QED
    BY <2>1, <2>2, <2>3
<1>6. s \o t = u
  BY <1>3, <1>4, <1>5, SeqEqual
<1> QED
  BY <1>6 DEF s, t, u

\* What is in the tree is found.
LEMMA HeldIs ==
  ASSUME Types, Good(disk, tree_info), NEW x \in Nat, Covered(x)
  PROVE  Holding(x) # {}
<1>0. Within(tree_info)
  BY DEF Types
<1>1. PICK e \in tree_info.entries : e.logical <= x /\ x < e.logical + e.size
  BY DEF Covered
<1>2. PICK g \in Floor(x) : e.logical <= g.logical
  BY <1>0, <1>1, FloorIs
<1>3. g \in tree_info.entries /\ g.logical <= x
  BY DEF Floor
<1>4. /\ e.logical \in Nat /\ e.size \in Nat /\ g.logical \in Nat /\ g.size \in Nat
      /\ g.size > 0 /\ e.size > 0
  BY <1>0, <1>1, <1>3, EntryIs
<1>5. e = g
  <2> SUFFICES ASSUME e # g PROVE FALSE
    OBVIOUS
  <2>1. Apart(e, g.logical, g.size)
    BY <1>1, <1>3 DEF Good
  <2> QED
    BY <1>1, <1>2, <1>3, <1>4, <2>1 DEF Apart
<1> QED
  BY <1>1, <1>2, <1>5 DEF Holding

\* What the task passes over is in the tree.
LEMMA PassedIs ==
  ASSUME Types, Span
  PROVE  \A x \in read_logical_pos..Uncached - 1 : Covered(x)
<1> SUFFICES ASSUME NEW x \in read_logical_pos..Uncached - 1 PROVE Covered(x)
  OBVIOUS
<1>0. /\ Uncached \in Nat /\ file_logical_pos \in Nat /\ read_logical_pos \in Nat
      /\ Within(tree_info) /\ x \in Nat
  <2>1. /\ Within(tree_info) /\ file_logical_pos \in 0..FileSize
        /\ read_logical_pos \in 0..FileSize /\ FileSize \in Nat
    BY Bounds DEF Types
  <2> QED
    BY <2>1, UncachedIs
<1>1. CASE x < file_logical_pos
  BY <1>0, <1>1 DEF Span
<1>2. CASE x >= file_logical_pos
  <2>1. Holding(file_logical_pos) # {}
    BY <1>0, <1>2 DEF Uncached
  <2>2. PICK g \in Holding(file_logical_pos) : Uncached = g.logical + g.size
    BY <2>1 DEF Uncached
  <2>3. g \in tree_info.entries /\ g.logical <= file_logical_pos
    BY DEF Holding, Floor
  <2>4. g.logical \in Nat /\ g.size \in Nat
    BY <1>0, <2>3, EntryIs
  <2> QED
    BY <1>0, <1>2, <2>2, <2>3, <2>4 DEF Covered
<1> QED
  BY <1>0, <1>1, <1>2

\* A step that leaves what the caller has as it is.
LEMMA StillReads ==
  ASSUME JInv, UNCHANGED <<position, answer, dest, caller, to_read, read_logical_pos>>,
         UNCHANGED <<seek_request, seek_completed, seek_pos, abort_request, forwards>>,
         stale' = stale \/ stale' = (stale /\ dest # <<>>)
  PROVE  Place' /\ Reads
<1>1. Place'
  BY NoBytes, EmptySeq DEF JInv, Place, Synchronous
<1>2. Reads
  BY DEF Reads, Reader!readerVars
<1> QED
  BY <1>1, <1>2

\* Bytes that follow the position are delivered.
LEMMA Delivers ==
  ASSUME Types, position \in 0..FileSize, NEW n \in Nat, n > 0, position + n <= FileSize,
         ~stale => answer' = [kind |-> "data", bytes |-> Reader!Bytes(position, n)],
         position' = position + n
  PROVE  Reads /\ position' \in 0..FileSize
<1>1. position' \in 0..FileSize /\ n \in 1..FileSize
  BY Bounds
<1>2. CASE stale
  BY <1>2 DEF Reads
<1>3. CASE ~stale
  BY <1>1, <1>3 DEF Reads, Reader!ReaderNext, Reader!Deliver
<1> QED
  BY <1>1, <1>2, <1>3

LEMMA SyncReadReads ==
  ASSUME IInv, JInv, NEW n \in ReadSizes, SyncRead(n) PROVE JInv' /\ Reads
<1>0. /\ caller = "idle" /\ Synchronous /\ n \in Nat /\ n > 0
      /\ UNCHANGED <<dest, caller, to_read, seek_request, seek_completed, seek_pos>>
      /\ UNCHANGED <<abort_request, forwards, stale>>
  BY Bounds DEF SyncRead, session, seeking, history
<1>1. /\ ~abort_request /\ dest = <<>> /\ position \in 0..FileSize
      /\ ~seek_request /\ read_logical_pos = position /\ position \in Nat
  BY <1>0, NoBytes, Bounds DEF JInv, Place
<1>2. PICK e \in Holding(read_logical_pos) :
        LET from == Moved(Target(e))
            bytes == Kept(from, Least(n, e.logical + e.size - read_logical_pos))
        IN /\ read_logical_pos' = read_logical_pos + Len(bytes)
           /\ answer' = [kind |-> IF bytes = <<>> THEN "eof" ELSE "data", bytes |-> bytes]
           /\ position' = position + Len(bytes)
  BY DEF SyncRead, Answer
<1> DEFINE bytes == Kept(Moved(Target(e)), Least(n, e.logical + e.size - read_logical_pos))
<1>3. /\ Len(bytes) \in Nat /\ Len(bytes) > 0 /\ read_logical_pos + Len(bytes) <= FileSize
      /\ ~stale => bytes = Reader!Bytes(read_logical_pos, Len(bytes))
  BY <1>0, ReadIs
<1>4. /\ read_logical_pos' = read_logical_pos + Len(bytes)
      /\ position' = position + Len(bytes)
      /\ answer' = [kind |-> IF bytes = <<>> THEN "eof" ELSE "data", bytes |-> bytes]
  BY <1>2
<1> HIDE DEF bytes
<1>5. bytes # <<>>
  BY <1>3, NoBytes
<1>6. Reads /\ position' \in 0..FileSize
  <2>1. /\ ~stale => answer' = [kind |-> "data", bytes |-> Reader!Bytes(position, Len(bytes))]
        /\ position + Len(bytes) <= FileSize
    BY <1>1, <1>3, <1>4, <1>5
  <2> QED
    BY <1>1, <1>3, <1>4, <2>1, Delivers DEF IInv
<1>7. Place'
  BY <1>0, <1>1, <1>4, <1>6, NoBytes DEF JInv, Place, Synchronous
<1>8. Ahead'
  BY <1>0 DEF Ahead, Synchronous
<1> QED
  BY <1>6, <1>7, <1>8 DEF JInv

LEMMA SyncFetchReads ==
  ASSUME IInv, JInv, NEW n \in ReadSizes, SyncFetch(n) PROVE JInv' /\ Reads
<1>0. /\ caller = "idle" /\ Synchronous
      /\ UNCHANGED <<dest, caller, to_read, seek_request, seek_completed, seek_pos>>
      /\ UNCHANGED <<abort_request, forwards>>
  BY DEF SyncFetch, SyncMisses, seeking
<1>1. /\ ~abort_request /\ dest = <<>> /\ position \in 0..FileSize
      /\ ~seek_request /\ read_logical_pos = position /\ position \in Nat
  BY <1>0, NoBytes, Bounds DEF JInv, Place
<1>2. PICK m \in 1..Least(n, NextStart(read_logical_pos) - read_logical_pos) :
        /\ read_logical_pos + m <= FileSize
        /\ read_logical_pos' = read_logical_pos + m
        /\ answer' = [kind |-> "data", bytes |-> Reader!Bytes(read_logical_pos, m)]
        /\ position' = position + Len(Reader!Bytes(read_logical_pos, m))
  BY DEF SyncFetch, Answer
<1>3. m \in Nat /\ m > 0 /\ Len(Reader!Bytes(read_logical_pos, m)) = m
  <2>1. m \in Nat /\ m > 0
    BY <1>1, NextStartIs, Bounds DEF Least, IInv, Types
  <2> QED
    BY <1>1, <1>2, <2>1, FileBytes
<1>4. Reads /\ position' \in 0..FileSize
  BY <1>1, <1>2, <1>3, Delivers DEF IInv
<1>5. Place'
  BY <1>0, <1>1, <1>2, <1>3, <1>4, NoBytes DEF JInv, Place, Synchronous
<1>6. Ahead'
  BY <1>0 DEF Ahead, Synchronous
<1> QED
  BY <1>4, <1>5, <1>6 DEF JInv

LEMMA ReadBytesReads == ASSUME IInv, JInv, ReadBytes PROVE JInv' /\ Reads
<1>0. /\ caller = "read" /\ ~abort_request /\ to_read \in Nat /\ to_read > 0
      /\ UNCHANGED <<seek_request, seek_completed, seek_pos, abort_request, forwards>>
      /\ UNCHANGED <<stale, tree_info, file_logical_pos, io_eof_reached, failing, task>>
  BY Bounds
     DEF ReadBytes, Reading, memory, session, seeking, ends, history, IInv, JInv, Types, Place
<1>1. /\ ~seek_request /\ position \in Nat /\ position <= FileSize
      /\ dest \in Seq(0..FileSize - 1) /\ Len(dest) \in Nat
      /\ read_logical_pos = position + Len(dest)
      /\ ~stale => dest = Reader!Bytes(position, Len(dest))
  BY <1>0, LenProperties, Bounds DEF JInv, Place
<1>2. PICK e \in Holding(read_logical_pos) :
        LET from == Moved(Target(e))
            bytes == Kept(from, Least(to_read, e.logical + e.size - read_logical_pos))
        IN /\ read_logical_pos' = read_logical_pos + Len(bytes)
           /\ \/ /\ caller' = "idle" /\ dest' = <<>>
                 /\ answer' = [kind |-> "data", bytes |-> dest \o bytes]
                 /\ position' = position + Len(dest \o bytes)
              \/ /\ Len(bytes) # to_read
                 /\ dest' = dest \o bytes /\ to_read' = to_read - Len(bytes)
                 /\ UNCHANGED <<caller, position, answer>>
  BY DEF ReadBytes, Return, Answer
<1> DEFINE bytes == Kept(Moved(Target(e)),
                         Least(to_read, e.logical + e.size - read_logical_pos))
<1>3. /\ bytes \in Seq(0..FileSize - 1)
      /\ Len(bytes) \in Nat /\ Len(bytes) > 0 /\ Len(bytes) <= to_read
      /\ read_logical_pos + Len(bytes) <= FileSize
      /\ ~stale => bytes = Reader!Bytes(read_logical_pos, Len(bytes))
  BY <1>0, ReadIs
<1>4. /\ read_logical_pos' = read_logical_pos + Len(bytes)
      /\ \/ /\ caller' = "idle" /\ dest' = <<>>
            /\ answer' = [kind |-> "data", bytes |-> dest \o bytes]
            /\ position' = position + Len(dest \o bytes)
         \/ /\ Len(bytes) # to_read
            /\ dest' = dest \o bytes /\ to_read' = to_read - Len(bytes)
            /\ UNCHANGED <<caller, position, answer>>
  BY <1>2
<1> HIDE DEF bytes
<1>5. dest \o bytes \in Seq(0..FileSize - 1) /\ Len(dest \o bytes) = Len(dest) + Len(bytes)
  BY <1>1, <1>3, ConcatProperties
<1> DEFINE n == Len(dest) + Len(bytes)
<1>6. ~stale => dest \o bytes = Reader!Bytes(position, n)
  <2>1. position + Len(dest) + Len(bytes) <= FileSize
    BY <1>1, <1>3
  <2> QED
    BY <1>1, <1>3, <2>1, BytesJoin
<1>7. n \in Nat /\ n > 0 /\ position + n <= FileSize /\ read_logical_pos' = position + n
  BY <1>1, <1>3, <1>4
<1>7a. Ahead'
  BY <1>0, <1>1, <1>3, <1>4 DEF JInv, Ahead, Span, Covered, Synchronous
<1>8. CASE dest' = <<>> /\ caller' = "idle" /\ position' = position + n
           /\ answer' = [kind |-> "data", bytes |-> dest \o bytes]
  <2>1. Reads /\ position' \in 0..FileSize
    <3>1. position \in 0..FileSize
      BY DEF JInv, Place
    <3> HIDE DEF n
    <3> QED
      BY <1>6, <1>7, <1>8, <3>1, Delivers DEF IInv
  <2>2. Place'
    <3> HIDE DEF n
    <3> QED
      BY <1>0, <1>1, <1>7, <1>8, <2>1, NoBytes, EmptySeq DEF Place
  <2> QED
    BY <1>7a, <2>1, <2>2 DEF JInv
<1>9. CASE /\ dest' = dest \o bytes /\ to_read' = to_read - Len(bytes)
           /\ Len(bytes) # to_read /\ UNCHANGED <<caller, position, answer>>
  <2>1. Reads
    BY <1>9 DEF Reads, Reader!readerVars
  <2>2. to_read' > 0 /\ Len(dest') = n /\ dest' \in Seq(0..FileSize - 1)
    BY <1>0, <1>3, <1>5, <1>9
  <2>3. Place'
    <3> HIDE DEF n
    <3> QED
      BY <1>0, <1>1, <1>6, <1>7, <1>9, <2>2 DEF JInv, Place, Synchronous
  <2> QED
    BY <1>7a, <2>1, <2>3 DEF JInv
<1> QED
  BY <1>4, <1>5, <1>8, <1>9

\* The reader is told of the end at the end, or of an end the task was misled about.
LEMMA ReadEndReads == ASSUME IInv, JInv, ReadEnd PROVE JInv' /\ Reads
<1>0. /\ caller = "read" /\ ~abort_request /\ Holding(read_logical_pos) = {}
      /\ io_eof_reached
      /\ UNCHANGED <<seek_request, seek_completed, seek_pos, abort_request, forwards>>
      /\ UNCHANGED <<stale, tree_info, file_logical_pos, io_eof_reached, failing, task>>
      /\ UNCHANGED read_logical_pos
  BY DEF ReadEnd, Reading, memory, session, seeking, ends, history
<1>1. /\ ~seek_request /\ position \in Nat /\ position <= FileSize
      /\ dest \in Seq(0..FileSize - 1) /\ Len(dest) \in Nat
      /\ read_logical_pos = position + Len(dest)
      /\ ~stale => dest = Reader!Bytes(position, Len(dest))
  BY <1>0, LenProperties, Bounds DEF JInv, Place
<1>2. /\ caller' = "idle" /\ to_read' = 0 /\ dest' = <<>>
      /\ position' = position + Len(dest)
      /\ answer' = [kind |-> IF dest # <<>> THEN "data"
                             ELSE IF io_error # "none" THEN "error" ELSE "eof",
                    bytes |-> dest]
  BY DEF ReadEnd, Return, Answer
<1>3. read_logical_pos \in Nat /\ read_logical_pos <= FileSize /\ ~Synchronous
  BY <1>0, Bounds DEF IInv, Types, Threads
<1>4. Place'
  BY <1>0, <1>1, <1>2, <1>3, NoBytes, EmptySeq DEF JInv, Place, Synchronous
<1>5. Ahead'
  BY <1>0 DEF JInv, Ahead, Span, Covered, Synchronous
<1>6. Reads
  <2>1. CASE dest # <<>>
    <3>1. Len(dest) > 0
      BY <1>1, <2>1, EmptySeq
    <3> QED
      BY <1>1, <1>2, <1>3, <2>1, <3>1, Delivers DEF IInv, JInv, Place
  <2>2. CASE dest = <<>>
    <3>1. position' = position /\ read_logical_pos = position
      BY <1>1, <1>2, <2>2, NoBytes
    <3>2. CASE io_error # "none"
      BY <1>2, <2>2, <3>1, <3>2 DEF Reads, Reader!ReaderNext, Reader!Fail
    <3>3. CASE io_error = "none"
      <4>1. answer' = [kind |-> "eof", bytes |-> <<>>]
        BY <1>2, <2>2, <3>3
      <4>2. CASE stale
        BY <4>2 DEF Reads
      <4>3. CASE failing
        BY <1>3, <3>1, <4>1, <4>3 DEF Reads, EarlyEnd
      <4>4. CASE ~stale /\ ~failing
        <5>1. file_logical_pos >= FileSize /\ Span /\ file_logical_pos \in Nat
          BY <1>0, <1>3, <4>4, Bounds DEF JInv, Ahead, IInv, Types
        <5>2. ~Covered(read_logical_pos)
          BY <1>0, <1>3, <4>4, HeldIs DEF IInv, Contents
        <5>3. position >= FileSize
          BY <1>3, <3>1, <5>1, <5>2, Bounds DEF Span
        <5> QED
          BY <3>1, <4>1, <5>3 DEF Reads, Reader!ReaderNext, Reader!End
      <4> QED
        BY <4>2, <4>3, <4>4
    <3> QED
      BY <3>2, <3>3
  <2> QED
    BY <2>1, <2>2
<1> QED
  BY <1>4, <1>5, <1>6 DEF JInv

LEMMA SkipReads == ASSUME IInv, JInv, Skip PROVE JInv' /\ Reads
<1>0. /\ task = "write" /\ task' = "loop" /\ file_logical_pos' = Uncached
      /\ io_eof_reached' = (io_eof_reached \/ Room # 0)
      /\ Room = 0 \/ Uncached >= FileSize
      /\ UNCHANGED <<position, answer, dest, caller, to_read, read_logical_pos>>
      /\ UNCHANGED <<seek_request, seek_completed, seek_pos, abort_request, forwards>>
      /\ UNCHANGED <<stale, tree_info, failing>>
  BY DEF Skip, Task, memory, session, seeking, call, history
<1>1. Place' /\ Reads
  BY <1>0, StillReads
<1>2. ~Synchronous => /\ ~stale => Span'
                      /\ ~abort_request /\ io_eof_reached' => Uncached >= FileSize
  <2>1. Span => Span'
    BY <1>0, PassedIs DEF IInv, Span, Covered
  <2> QED
    BY <1>0, <2>1 DEF JInv, Ahead
<1>3. Ahead'
  BY <1>0, <1>2 DEF Ahead, Synchronous
<1> QED
  BY <1>1, <1>3 DEF JInv

LEMMA FetchReads == ASSUME IInv, JInv, Fetch PROVE JInv' /\ Reads
<1>0. /\ task = "write" /\ task' = "store" /\ file_logical_pos' = Uncached
      /\ UNCHANGED <<position, answer, dest, caller, to_read, read_logical_pos>>
      /\ UNCHANGED <<seek_request, seek_completed, seek_pos, abort_request, forwards>>
      /\ UNCHANGED <<stale, tree_info, failing, io_eof_reached>>
  BY DEF Fetch, Task, file, memory, ends, seeking, call, history
<1>1. Place' /\ Reads
  BY <1>0, StillReads
<1>2. Span => Span'
  BY <1>0, PassedIs DEF IInv, Span, Covered
<1>3. Ahead'
  BY <1>0, <1>2 DEF JInv, Ahead, Synchronous
<1> QED
  BY <1>1, <1>3 DEF JInv

LEMMA SeekFailsReads == ASSUME IInv, JInv, SeekFails \/ FetchFails PROVE JInv' /\ Reads
<1>0. /\ task = "write" /\ task' \in {"loop", "failed"} /\ file_logical_pos' = Uncached
      /\ failing'
      /\ UNCHANGED <<position, answer, dest, caller, to_read, read_logical_pos>>
      /\ UNCHANGED <<seek_request, seek_completed, seek_pos, abort_request, forwards>>
      /\ UNCHANGED <<stale, tree_info>>
  BY DEF SeekFails, FetchFails, Task, memory, seeking, call, history
<1>1. Place' /\ Reads
  BY <1>0, StillReads
<1>2. Span => Span'
  BY <1>0, PassedIs DEF IInv, Span, Covered
<1>3. Ahead'
  BY <1>0, <1>2 DEF JInv, Ahead, Synchronous
<1> QED
  BY <1>1, <1>3 DEF JInv

LEMMA StoreReads == ASSUME IInv, JInv, Store PROVE JInv' /\ Reads
<1> DEFINE n == Len(fetched)
           l == file_logical_pos
<1>0. /\ task = "store" /\ task' = "announce" /\ l' = l + n
      /\ disk' = Written(last_physical_pos, fetched)
      /\ tree_info' = Entered(tree_info, l, last_physical_pos, n)
      /\ UNCHANGED <<position, answer, dest, caller, to_read, read_logical_pos>>
      /\ UNCHANGED <<seek_request, seek_completed, seek_pos, abort_request, forwards>>
      /\ UNCHANGED <<stale, failing, io_eof_reached>>
  BY DEF Store, Task, session, ends, seeking, call, history
<1>1. Place' /\ Reads
  BY <1>0, StillReads
<1>2. ASSUME ~stale, Span PROVE Span'
  <2>1. /\ fetched # <<>> /\ l + n <= FileSize /\ fetched = Reader!Bytes(l, n)
        /\ \A e \in tree_info.entries : Apart(e, l, n)
    BY <1>0, <1>2 DEF IInv, Fetched
  <2>2. /\ l \in Nat /\ read_logical_pos \in Nat /\ Within(tree_info) /\ FileSize \in Nat
        /\ tree_info.physical_size = last_physical_pos /\ last_physical_pos \in Nat
        /\ disk \in Seq(0..FileSize - 1) /\ Good(disk, tree_info)
    BY <1>2, Bounds DEF IInv, Types, Contents, Within, Trees
  <2>3. last_physical_pos <= Len(disk)
    BY <1>0 DEF IInv, Threads, Offsets, Synchronous
  <2>4. n \in Nat /\ n > 0 /\ fetched \in Seq(0..FileSize - 1)
        /\ \A i \in 1..n : fetched[i] = l + i - 1
    <3> DEFINE bytes == Reader!Bytes(l, n)
    <3>1. fetched = bytes /\ l + n <= FileSize
      BY <2>1
    <3>2. n \in Nat /\ n > 0 /\ fetched \in Seq(0..FileSize - 1)
      BY <1>0, EmptySeq, LenProperties DEF IInv, Fetched
    <3> HIDE DEF n
    <3>3. \A i \in 1..n : bytes[i] = l + i - 1
      BY <2>2, <3>1, <3>2, FileBytes
    <3> HIDE DEF bytes
    <3> QED
      BY <3>1, <3>2, <3>3
  <2>5. /\ \A i \in 1..last_physical_pos : disk'[i] = disk[i]
        /\ \A i \in 1..n : disk'[last_physical_pos + i] = fetched[i]
    BY <1>0, <2>2, <2>3, <2>4, WrittenIs
  <2>6. \A i \in 1..n : disk'[last_physical_pos + i] = l + i - 1
    BY <2>4, <2>5
  <2> HIDE DEF n
  <2>7. ASSUME NEW x \in Int, Covered(x) \/ (l <= x /\ x < l + n)
        PROVE  \E e \in tree_info'.entries : e.logical <= x /\ x < e.logical + e.size
    <3>1. /\ \A i \in 1..tree_info.physical_size : disk'[i] = disk[i]
          /\ \A i \in 1..n : disk'[tree_info.physical_size + i] = l + i - 1
          /\ tree_info' = Entered(tree_info, l, tree_info.physical_size, n)
      BY <1>0, <2>2, <2>5, <2>6
    <3>2. /\ Within(tree_info) /\ l \in Nat /\ n \in Nat /\ n > 0 /\ Good(disk, tree_info)
          /\ \A e \in tree_info.entries : Apart(e, l, n)
      BY <2>1, <2>2, <2>4
    <3>3. \A y \in Int :
              \/ \E e \in tree_info.entries : e.logical <= y /\ y < e.logical + e.size
              \/ l <= y /\ y < l + n
              => \E e \in Entered(tree_info, l, tree_info.physical_size, n).entries :
                   e.logical <= y /\ y < e.logical + e.size
      BY <3>1, <3>2, EnteredGood
    <3> QED
      BY <2>7, <3>1, <3>3 DEF Covered
  <2>8. ASSUME NEW x \in read_logical_pos .. l + n - 1 PROVE Covered(x)'
    <3>1. x \in Int /\ (x < l => x \in read_logical_pos .. l - 1)
          /\ (~(x < l) => l <= x /\ x < l + n)
      BY <2>2, <2>4
    <3>2. Covered(x) \/ (l <= x /\ x < l + n)
      BY <1>2, <3>1 DEF Span
    <3> QED
      BY <2>7, <3>1, <3>2 DEF Covered
  <2> SUFFICES ASSUME NEW x \in read_logical_pos'..file_logical_pos' - 1
               PROVE  Covered(x)'
    BY DEF Span
  <2>9. file_logical_pos' = l + n /\ read_logical_pos' = read_logical_pos
    BY <1>0
  <2>10. x \in read_logical_pos .. l + n - 1
    BY <2>2, <2>4, <2>9
  <2> QED
    BY <2>8, <2>10
<1>3. Ahead'
  BY <1>0, <1>2 DEF JInv, Ahead, Synchronous
<1> QED
  BY <1>1, <1>3 DEF JInv

LEMMA FlushReads == ASSUME IInv, JInv, Flush PROVE JInv' /\ Reads
<1>0. /\ task = "store" /\ task' = "loop" /\ file_logical_pos' = read_logical_pos
      /\ io_eof_reached' = FALSE /\ stale' = (stale /\ dest # <<>>)
      /\ UNCHANGED <<position, answer, dest, caller, to_read, read_logical_pos>>
      /\ UNCHANGED <<seek_request, seek_completed, seek_pos, abort_request, forwards>>
  BY DEF Flush, Task, session, seeking, call
<1>1. Place' /\ Reads
  BY <1>0, StillReads
<1>2. read_logical_pos \in Nat
  BY Bounds DEF IInv, Types
<1>3. Ahead'
  BY <1>0, <1>2 DEF Ahead, Span
<1> QED
  BY <1>1, <1>3 DEF JInv

LEMMA NextReads == IInv /\ JInv /\ [Next]_vars => JInv' /\ Reads
<1> SUFFICES ASSUME IInv, JInv, [Next]_vars PROVE JInv' /\ Reads
  OBVIOUS
<1>1. CASE Calls
  BY <1>1, OpenReads, SyncReadReads, SyncFetchReads, ReadReads, SyncEndReads, SyncFailReads,
     SyncSeekReads, SeekReads, CloseReads, DestroyReads
     DEF Calls
<1>2. CASE InCall
  BY <1>2, ReadInterruptedReads, ReadBytesReads, ReadEndReads, ReadWaitReads,
     SeekInterruptedReads, SeekWaitReads, SeekDoneReads, ClosedReads
     DEF InCall
<1>3. CASE TaskStep
  BY <1>3, StartReads, TestAbortReads, ServeReads, TestRoomReads, RestReads, SkipReads,
     FetchReads, SeekFailsReads, SetErrorReads, StoreReads, FlushReads, AnnounceReads,
     ExitReads
     DEF TaskStep
<1>4. CASE Interrupt \/ Die \/ Shorten
  BY <1>4, InterruptReads, DieReads, ShortenReads
<1>5. CASE UNCHANGED vars
  <2>1. /\ UNCHANGED <<position, answer, dest, caller, to_read, read_logical_pos>>
        /\ UNCHANGED <<seek_request, seek_completed, seek_pos, abort_request, forwards>>
        /\ UNCHANGED <<stale, tree_info, failing, io_eof_reached, file_logical_pos, task>>
    BY <1>5 DEF vars, memory, session, ends, seeking, call, history
  <2>2. Ahead'
    BY <2>1 DEF JInv, Ahead, Span, Covered, Synchronous
  <2> QED
    BY <2>1, <2>2, StillReads DEF JInv
<1> QED
  BY <1>1, <1>2, <1>3, <1>4, <1>5 DEF Next

\* For the caller, both modes of the protocol are a file reader: each read answers with
\* the bytes that follow, whether they come from the cache file or not, and the end is
\* reported at the end, but for EarlyEnd and for a stale map.
THEOREM Implements == Spec => IsFileReader
<1>1. Init => JInv
  <2> SUFFICES ASSUME Init PROVE JInv
    OBVIOUS
  <2>1. Place
    BY NoBytes, EmptySeq, Bounds DEF Init, Place
  <2>2. Ahead
    BY DEF Init, Ahead, Synchronous
  <2> QED
    BY <2>1, <2>2 DEF JInv
<1>2. Init => Reader!ReaderInit
  BY DEF Init, Reader!ReaderInit
<1>3. Reads => [Reader!ReaderNext \/ EarlyEnd \/ stale]_Reader!readerVars
  BY DEF Reads
<1> QED
  BY <1>1, <1>2, <1>3, Invariant, NextReads, PTL DEF Spec, IsFileReader
================================================================================
