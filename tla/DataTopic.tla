------------------------------ MODULE DataTopic ------------------------------
(***************************************************************************)
(* One topic of a robotmq server: class DataTopic of data_topic.cpp.       *)
(*                                                                         *)
(* A topic is a deque of timed entries.  On a shared-memory topic the      *)
(* server's own messages live in a ring of ShmSize bytes and the deque     *)
(* holds where; clients still add entries of their own (a raw payload, or  *)
(* the metadata of a request segment).  Every method runs under the        *)
(* server's data_topic_mutex_, so operations do not interleave; the loops  *)
(* of a put and of a pop are taken one entry at a time, because an         *)
(* exception may leave them half way and because a client reads the ring   *)
(* under another mutex.                                                    *)
(*                                                                         *)
(* A definition whose name ends in _Wrong is a deliberately wrong variant  *)
(* of the one that follows it.  Nothing uses it here: put in the place of  *)
(* the right one, it must make a property fail.                            *)
(***************************************************************************)
EXTENDS Integers, Sequences, SequencesExt

CONSTANTS
    Kinds,        \* the kinds of topic to look at: see Kind
    ShmSize,      \* shm_size_, in units of bytes
    Retention,    \* message_remaining_time_s_, in clock ticks
    Sizes,        \* sizes of the messages the server puts
    PopArgs,      \* values of n passed to pop and peek
    SizeMod,      \* 2^64: one more than the largest size_t
    MaxTime,      \* bound of the server clock
    MaxMsgs       \* bound on the number of messages ever put

\* A topic is with or without shared memory (is_shm_topic_), and clients add
\* raw payloads ("heap") or metadata of a request to it, or nothing, with
\* stamps of clocks that run before or after the server's.
Kind == [shm : BOOLEAN, locs : SUBSET {"heap", "request"}, skews : SUBSET Int]

ASSUME DataTopicAssumption ==
    /\ Kinds \subseteq Kind
    /\ ShmSize \in Nat \ {0}
    /\ Retention \in Nat
    /\ Sizes \subseteq Nat \ {0}     \* put_data refuses an empty message
    /\ MaxTime \in Nat
    /\ MaxMsgs \in Nat
    /\ SizeMod \in Nat
    \* n is an int32_t and a deque holds fewer than 2^31 entries
    /\ \A n \in PopArgs : n \in Int /\ MaxMsgs < SizeMod + n /\ n < SizeMod - MaxMsgs

VARIABLES
    kind,       \* which topic this is; it never changes
    data,       \* data_: the entries, oldest first
    occupied,   \* occupied_shm_size_ (a uint64_t; RingInv says it never wraps)
    offset,     \* current_shm_offset_
    shm,        \* the ring: the message each cell holds a byte of, 0 for none
    now,        \* the server's get_timestamp()
    nextId,     \* identity of the next message
    pc,         \* where the thread in data_topic_mutex_ is: see Loops
    cur,        \* the entry copy_data_to_shm is putting
    left,       \* the signed n of pop_data_ptrs, counted down to 0
    ret,        \* the vector pop_data_ptrs will return
    outcome,    \* how the last operation ended
    pushed,     \* history: bytes of ring messages pushed since clear_data,
                \* less those popped from the back
    delivered   \* history: messages returned by pop, in order

vars == <<kind, data, occupied, offset, shm, now, nextId, pc, cur, left, ret,
          outcome, pushed, delivered>>

-----------------------------------------------------------------------------
(* Entries: <BytesPtr, timestamp>.  loc says what the bytes are: the       *)
(* payload itself, the metadata of this topic's ring, or the metadata of   *)
(* the segment a client made for a request.  pos is history: the value of  *)
(* pushed when this one was pushed.                                        *)

IsShm == kind.shm

Cells == 0 .. ShmSize - 1
Loops == {"idle", "evict", "prune", "pop"}
Entry == [id : Nat, ts : Int, loc : {"ring", "heap", "request"},
          start : Nat, size : Nat, pos : Nat]

NoEntry == [id |-> 0, ts |-> 0, loc |-> "heap", start |-> 0, size |-> 0, pos |-> 0]

ClientEntry(loc, ts) ==
    [id |-> nextId, ts |-> ts, loc |-> loc, start |-> 0, size |-> 0, pos |-> 0]

RingEntry(size) ==
    [id |-> nextId, ts |-> now, loc |-> "ring", start |-> offset, size |-> size,
     pos |-> pushed]

OnRing(e) == e.loc = "ring"

\* Bytes given back when e leaves: only metadata of this ring counts.
Accounted(e) == IF OnRing(e) THEN e.size ELSE 0

\* The k-th cell of a message that starts at start, wrapping once.
Cell(start, k) == IF start + k < ShmSize THEN start + k ELSE start + k - ShmSize

\* What get_shared_memory_data finds for e: are all its bytes still there?
Readable(e) == \A k \in 0 .. e.size - 1 : shm[Cell(e.start, k)] = e.id

Expired(e, ts) == ts - e.ts > Retention

-----------------------------------------------------------------------------
(* Ranges of peek and pop.  An int32_t compared with a size_t is converted *)
(* to it, and -data_.size() is a size_t too: negative numbers are close to *)
(* 2^64 in these comparisons.                                              *)

ToSizeT(n) == IF n < 0 THEN n + SizeMod ELSE n

\* The clamp to -len not guarded by n < 0.
PeekDataPtrs_Wrong(q, n) ==
    IF n # 0 /\ ToSizeT(n) < ToSizeT(-Len(q)) THEN q
    ELSE SubSeq(q, 1, IF n = 0 \/ n > Len(q) THEN Len(q) ELSE n)

PeekDataPtrs(q, n) ==
    LET len == Len(q)
        all == IF n = 0 THEN len ELSE n
        last == IF ToSizeT(all) < ToSizeT(-len) THEN len ELSE -all
    IN  CASE q = <<>> -> <<>>
          [] q # <<>> /\ all < 0 -> SubSeq(q, len - last + 1, len)
          [] OTHER -> SubSeq(q, 1, IF ToSizeT(all) > len THEN len ELSE all)

\* The n pop_data_ptrs works with on a deque of len entries.  Its last
\* comparison is not guarded by n < 0 as the one of peek is.
PopCount(n, len) ==
    CASE n = 0 -> len
      [] n # 0 /\ ToSizeT(n) > len -> len
      [] n # 0 /\ ToSizeT(n) <= len /\ ToSizeT(n) < ToSizeT(-len) -> -len
      [] OTHER -> n

-----------------------------------------------------------------------------
Init ==
    /\ kind \in Kinds
    /\ data = <<>>
    /\ occupied = 0
    /\ offset = 0
    /\ shm = [c \in Cells |-> 0]
    /\ now = 0
    /\ nextId = 1
    /\ pc = "idle"
    /\ cur = NoEntry
    /\ left = 0
    /\ ret = <<>>
    /\ outcome = "ok"
    /\ pushed = 0
    /\ delivered = <<>>

Tick ==
    /\ now < MaxTime
    /\ now' = now + 1
    /\ UNCHANGED <<kind, data, occupied, offset, shm, nextId, pc, cur, left, ret,
                   outcome, pushed, delivered>>

\* An if in the place of the while: one expired entry at most.
PrunedCount_Wrong(q, ts) == IF Expired(Head(q), ts) THEN {1} ELSE {0}

\* How many entries the pruning loop of add_data_ptr takes off the front of
\* q: the expired ones before the first that is not.
PrunedCount(q, ts) ==
    {k \in 0 .. Len(q) : /\ \A i \in 1 .. k : Expired(q[i], ts)
                         /\ k < Len(q) => ~Expired(q[k + 1], ts)}

\* add_data_ptr: push, then prune.  Nothing is given back to the ring.
AddDataPtr(e) ==
    /\ pc = "idle"
    /\ nextId <= MaxMsgs
    /\ \E k \in PrunedCount(Append(data, e), e.ts) :
         data' = SubSeq(Append(data, e), k + 1, Len(data) + 1)
    /\ nextId' = nextId + 1
    /\ outcome' = "ok"
    /\ UNCHANGED <<kind, occupied, offset, shm, now, pc, cur, left, ret, pushed, delivered>>

\* RMQServer::put_data on a regular topic.
PutHeap == ~IsShm /\ AddDataPtr(ClientEntry("heap", now))

\* PUT_DATA and REQUEST_WITH_DATA: the entry carries the client's clock.
ClientAdd ==
    \E loc \in kind.locs, skew \in kind.skews : AddDataPtr(ClientEntry(loc, now + skew))

\* copy_data_to_shm, as far as the push.
PutShm(size) ==
    /\ IsShm
    /\ pc = "idle"
    /\ nextId <= MaxMsgs
    /\ size <= ShmSize
    /\ cur' = RingEntry(size)
    /\ data' = Append(data, cur')
    /\ occupied' = occupied + size
    /\ pushed' = pushed + size
    /\ nextId' = nextId + 1
    /\ pc' = "evict"
    /\ UNCHANGED <<kind, offset, shm, now, left, ret, outcome, delivered>>

\* The early return of copy_data_to_shm.
PutTooLarge(size) ==
    /\ IsShm
    /\ pc = "idle"
    /\ size > ShmSize
    /\ outcome' = "ignored"
    /\ UNCHANGED <<kind, data, occupied, offset, shm, now, nextId, pc, cur, left, ret,
                   pushed, delivered>>

\* Off by one: the ring may overflow by a byte, or is never filled.
OverfullLate_Wrong == occupied > ShmSize + 1
OverfullEarly_Wrong == occupied >= ShmSize

Overfull == occupied > ShmSize

\* The bytes of the removed entry are not given back.
RemoveFrontKeep_Wrong ==
    /\ data' = Tail(data)
    /\ UNCHANGED occupied

\* An entry that is not in the ring is skipped but stays at the front.
RemoveFrontSkip_Wrong ==
    /\ data' = IF OnRing(Head(data)) THEN Tail(data) ELSE data
    /\ occupied' = occupied - Accounted(Head(data))

RemoveFront ==
    /\ data' = Tail(data)
    /\ occupied' = occupied - Accounted(Head(data))

\* One turn of the loop that makes room.
EvictFront ==
    /\ pc = "evict"
    /\ Overfull
    /\ data # <<>>
    /\ Head(data).loc # "heap"
    /\ RemoveFront
    /\ UNCHANGED <<kind, offset, shm, now, nextId, pc, cur, left, ret, outcome, pushed, delivered>>

\* The copy, in one or two pieces, under the ring's own mutex.
CopyToRing ==
    /\ pc = "evict"
    /\ ~Overfull
    /\ shm' = [c \in Cells |->
                 IF \E k \in 0 .. cur.size - 1 : Cell(offset, k) = c THEN cur.id ELSE shm[c]]
    /\ offset' = IF offset + cur.size > ShmSize
                   THEN cur.size - (ShmSize - offset)
                   ELSE offset + cur.size
    /\ pc' = "prune"
    /\ UNCHANGED <<kind, data, occupied, now, nextId, cur, left, ret, outcome, pushed, delivered>>

HeadExpired == data # <<>> /\ Expired(Head(data), cur.ts)

\* One turn of the pruning loop of copy_data_to_shm.
PruneFront ==
    /\ pc = "prune"
    /\ HeadExpired
    /\ Head(data).loc # "heap"
    /\ RemoveFront
    /\ UNCHANGED <<kind, offset, shm, now, nextId, pc, cur, left, ret, outcome, pushed, delivered>>

PutDone ==
    /\ pc = "prune"
    /\ ~HeadExpired
    /\ pc' = "idle"
    /\ outcome' = "ok"
    /\ UNCHANGED <<kind, data, occupied, offset, shm, now, nextId, cur, left, ret, pushed,
                   delivered>>

\* pop_data_ptrs, as far as the loops.  On an empty deque it returns at once.
PopBegin(n) ==
    /\ pc = "idle"
    /\ data # <<>>
    /\ left' = PopCount(n, Len(data))
    /\ ret' = PeekDataPtrs(data, left')
    /\ pc' = "pop"
    /\ UNCHANGED <<kind, data, occupied, offset, shm, now, nextId, cur, outcome, pushed, delivered>>

\* The entry the next turn of a pop loop removes: from the back if n < 0.
PopVictim == IF left < 0 THEN Last(data) ELSE Head(data)

PopStep ==
    /\ pc = "pop"
    /\ left # 0
    /\ IsShm => PopVictim.loc # "heap"
    /\ data' = IF left < 0 THEN Front(data) ELSE Tail(data)
    /\ occupied' = occupied - Accounted(PopVictim)
    /\ pushed' = IF left < 0 THEN pushed - Accounted(PopVictim) ELSE pushed
    /\ left' = IF left < 0 THEN left + 1 ELSE left - 1
    /\ UNCHANGED <<kind, offset, shm, now, nextId, pc, cur, ret, outcome, delivered>>

\* The removal loop stops one entry early.
PopDone_Wrong ==
    /\ pc = "pop"
    /\ left \in {-1, 0, 1}
    /\ pc' = "idle"
    /\ left' = 0
    /\ ret' = <<>>
    /\ outcome' = "ok"
    /\ delivered' = delivered \o [i \in DOMAIN ret |-> ret[i].id]
    /\ UNCHANGED <<kind, data, occupied, offset, shm, now, nextId, cur, pushed>>

PopDone ==
    /\ pc = "pop"
    /\ left = 0
    /\ pc' = "idle"
    /\ ret' = <<>>
    /\ outcome' = "ok"
    /\ delivered' = delivered \o [i \in DOMAIN ret |-> ret[i].id]
    /\ UNCHANGED <<kind, data, occupied, offset, shm, now, nextId, cur, left, pushed>>

\* The entry a loop is about to parse as ring metadata before it removes it.
Parsed ==
    CASE pc = "evict" /\ Overfull /\ data # <<>> -> Head(data)
      [] pc = "prune" /\ HeadExpired -> Head(data)
      [] pc = "pop" /\ IsShm /\ left # 0 -> PopVictim
      [] OTHER -> NoEntry

\* SharedMemoryDataInfo(const std::string &) throws invalid_argument on a
\* raw payload, and the operation is left where it is.
ParseThrows ==
    /\ Parsed # NoEntry
    /\ Parsed.loc = "heap"
    /\ pc' = "idle"
    /\ left' = 0
    /\ ret' = <<>>
    /\ outcome' = "threw"
    /\ UNCHANGED <<kind, data, occupied, offset, shm, now, nextId, cur, pushed, delivered>>

\* clear_data that resets the ring but keeps the entries.
ResetStartTime_Wrong(t) ==
    /\ pc = "idle"
    /\ occupied' = IF IsShm THEN 0 ELSE occupied
    /\ offset' = IF IsShm THEN 0 ELSE offset
    /\ now' = t
    /\ pushed' = 0
    /\ outcome' = "ok"
    /\ UNCHANGED <<kind, data, shm, nextId, pc, cur, left, ret, delivered>>

\* RMQServer::reset_start_time: clear_data, and the clock restarts at the
\* time elapsed since the given system time.
ResetStartTime(t) ==
    /\ pc = "idle"
    /\ data' = <<>>
    /\ occupied' = IF IsShm THEN 0 ELSE occupied
    /\ offset' = IF IsShm THEN 0 ELSE offset
    /\ now' = t
    /\ pushed' = 0
    /\ outcome' = "ok"
    /\ UNCHANGED <<kind, shm, nextId, pc, cur, left, ret, delivered>>

LoopStep ==
    EvictFront \/ CopyToRing \/ PruneFront \/ PutDone \/ PopStep \/ PopDone \/ ParseThrows

Next ==
    \/ Tick
    \/ PutHeap
    \/ ClientAdd
    \/ \E size \in Sizes : PutShm(size) \/ PutTooLarge(size)
    \/ \E n \in PopArgs : PopBegin(n)
    \/ LoopStep
    \/ \E t \in 0 .. MaxTime : ResetStartTime(t)

Spec == Init /\ [][Next]_vars

\* The thread that holds the mutex keeps running; nothing else is assumed.
FairSpec == Spec /\ WF_vars(LoopStep)

-----------------------------------------------------------------------------
(* Type invariant: in particular the 64-bit byte counts never wrap below 0 *)
(* (the subtractions of the eviction, pruning and pop loops), and an       *)
(* offset stays inside the ring or exactly at its end.                     *)
TypeOK ==
    /\ kind \in Kinds
    /\ data \in Seq(Entry)
    /\ occupied \in Nat
    /\ offset \in 0 .. ShmSize
    /\ shm \in [Cells -> 0 .. MaxMsgs]
    /\ now \in 0 .. MaxTime
    /\ nextId \in 1 .. MaxMsgs + 1
    /\ pc \in Loops
    /\ cur \in Entry
    /\ left \in Int
    /\ ret \in Seq(Entry)
    /\ outcome \in {"ok", "ignored", "threw"}
    /\ pushed \in Nat
    /\ delivered \in Seq(Nat)

\* The entries whose bytes are supposed to be in the ring: all of the ring's
\* but the one copy_data_to_shm has pushed and not copied yet.
Copied(e) == OnRing(e) /\ ~(pc = "evict" /\ e.id = cur.id)

(* The ring never overwrites a message the topic still holds: whatever     *)
(* puts, evictions, prunings, pops and resets came before, the bytes       *)
(* get_shared_memory_data reads for a held entry are that message's        *)
(* (copy_data_to_shm with its wrap, and the loops that free space).        *)
RingIntact == \A i \in DOMAIN data : Copied(data[i]) => Readable(data[i])

(* The loop that makes room never calls front() on an empty deque: when    *)
(* too many bytes are occupied there is an entry left to remove, even on   *)
(* a topic whose accounting has drifted.                                   *)
EvictHasVictim == pc = "evict" /\ Overfull => data # <<>>

\* The elements of a sequence of numbers, added up.
Total(f) ==
    LET upTo[i \in 0 .. Len(f)] == IF i = 0 THEN 0 ELSE upTo[i - 1] + f[i]
    IN  upTo[Len(f)]

\* The ring bytes of the held entries, added up.
HeldBytes == Total([i \in DOMAIN data |-> Accounted(data[i])])

\* A topic only the server puts to.
ServersOwn == kind.locs = {}

(* occupied_shm_size_ is exact at every step of every operation, on a      *)
(* shared-memory topic only the server puts to: no byte is counted that no *)
(* entry holds, so a message is evicted only when the ring needs its room. *)
OccupiedExact == IsShm /\ ServersOwn => occupied = HeldBytes

\* A step in which copy_data_to_shm returns leaves its message in the topic.
KeepsPut ==
    pc = "prune" /\ pc' = "idle" /\ outcome' = "ok"
        => data # <<>> /\ Last(data).id = cur.id

(* A put that returns without an exception, and was not refused for its    *)
(* size, has stored its message: it is the newest entry of the topic       *)
(* (README.md:206, "The data is stored in the topic's queue").             *)
PutKept == [][KeepsPut]_vars

(* So it is, after whatever pops, resets and exceptions, where no client   *)
(* has its entries pruned.                                                 *)
OwnPutKept == [][ServersOwn => KeepsPut]_vars

(* Between operations no entry is older, by its stamp, than Retention      *)
(* before the newest one: README.md:150, "Messages older than              *)
(* message_remaining_time_s are automatically pruned on every insertion".  *)
(* Not with the clocks of other machines, nor after an exception.          *)
RetentionHolds ==
    kind.skews \subseteq {0} /\ ~(IsShm /\ "heap" \in kind.locs) /\ pc \in {"idle", "pop"}
        => \A i \in DOMAIN data : ~Expired(data[i], Last(data).ts)

IdsOf(q) == [i \in DOMAIN q |-> q[i].id]

\* The messages pop has given out and the ones it is about to.
Handed == delivered \o IdsOf(ret)

(* Pop hands out every message at most once and in the order of the puts,  *)
(* and a message that was handed out is no longer held by the topic.       *)
PoppedOnceInOrder ==
    /\ \A i, j \in DOMAIN Handed : i < j => Handed[i] < Handed[j]
    /\ pc # "pop" => \A i \in DOMAIN data, j \in DOMAIN delivered :
                        delivered[j] < data[i].id

\* What README.md:219-223 says n means: the first n, the last |n|, or all.
Asked(q, n) ==
    LET len == Len(q)
    IN  CASE n = 0 -> q
          [] n > 0 -> SubSeq(q, 1, IF n < len THEN n ELSE len)
          [] n < 0 -> SubSeq(q, IF len + n + 1 > 1 THEN len + n + 1 ELSE 1, len)

(* peek returns what its n asks for, through all its int and size_t        *)
(* comparisons, for every content of the topic.                            *)
PeekReturnsAsked == \A n \in PopArgs : PeekDataPtrs(data, n) = Asked(data, n)

(* pop returns what its n asks for (README.md:152-153 and 219-223: n < 0   *)
(* is the last |n| messages).                                              *)
PopReturnsAsked == [][\A n \in PopArgs : PopBegin(n) => ret' = Asked(data, n)]_vars

(* No operation ends in an exception: README.md:287 offers put_data to     *)
(* every client and every topic.                                           *)
NeverThrows == outcome # "threw"

(* Every put and every pop returns: the loops under data_topic_mutex_ end. *)
LoopsEnd == pc # "idle" ~> pc = "idle"

-----------------------------------------------------------------------------
(* The inductive invariant behind TypeOK, RingIntact and EvictHasVictim.   *)

RingEnd(e) == e.pos + e.size

\* The ring entries of q are in the order they were pushed, at byte
\* positions below bytes, and occ counts at least the bytes since the oldest.
RingOrder(q, bytes, occ) ==
    /\ \A i \in DOMAIN q : OnRing(q[i]) =>
          /\ q[i].size > 0
          /\ RingEnd(q[i]) <= bytes
          /\ bytes - q[i].pos <= occ
    /\ \A i, j \in DOMAIN q :
          OnRing(q[i]) /\ OnRing(q[j]) /\ i < j => RingEnd(q[i]) <= q[j].pos

\* Every message has its own number, the entries are in order, and a pop
\* that began empties the topic.
CountInv ==
    /\ Len(data) < nextId
    /\ cur.id < nextId
    /\ \A i \in DOMAIN data : data[i].id < nextId
    /\ RingOrder(data, pushed, occupied)
    /\ pc = "pop" => left \in {Len(data), -Len(data)}
    /\ pc = "evict" => OnRing(cur) /\ cur.size \in 1 .. ShmSize
    /\ ~IsShm => pc \notin {"evict", "prune"} /\ \A i \in DOMAIN data : ~OnRing(data[i])

\* The bytes copied so far; offset is where the next one goes.
CopiedBytes == IF pc = "evict" THEN pushed - cur.size ELSE pushed

\* On a topic without raw client payloads: a held entry starts as far
\* behind offset as bytes were copied since, at most once around the ring
\* (not while entries leave from the back: offset does not move with them);
\* the one being put, if it is still held, starts right at offset.
Placed(e) ==
    /\ e.loc # "heap"
    /\ pc = "evict" /\ OnRing(e) =>
          e = cur \/ (e.id # cur.id /\ RingEnd(e) <= CopiedBytes)
    /\ OnRing(e) /\ ~(pc = "pop" /\ left < 0) =>
          /\ e.start <= ShmSize
          /\ e.start - offset + CopiedBytes - e.pos \in {0, ShmSize}
    /\ Copied(e) => Readable(e)

RingInv ==
    /\ \A i \in DOMAIN data : Placed(data[i])
    /\ pc # "evict" => occupied <= ShmSize
    /\ CopiedBytes >= 0
    /\ CopiedBytes > 0 => offset > 0
    /\ pc = "evict" => cur.pos = CopiedBytes /\ cur.start = offset

\* None of q's entries from the i-th to the j-th is in the ring.
NoRing(q, i, j) == \A x \in DOMAIN q : i <= x /\ x <= j => ~OnRing(q[x])

\* The ring entries of q are the last bytes pushed, without a gap.
Contiguous(q, bytes) ==
    /\ \A i, j \in DOMAIN q :
          OnRing(q[i]) /\ OnRing(q[j]) /\ i < j /\ NoRing(q, i + 1, j - 1)
             => RingEnd(q[i]) = q[j].pos
    /\ \A i \in DOMAIN q :
          OnRing(q[i]) /\ NoRing(q, i + 1, Len(q)) => RingEnd(q[i]) = bytes

\* No more than max of the occ bytes counted are held by none of q's entries.
Slack(q, bytes, occ, max) ==
    /\ \A i \in DOMAIN q :
          OnRing(q[i]) /\ NoRing(q, 1, i - 1)
             => occ - (bytes - q[i].pos) <= max
    /\ NoRing(q, 1, Len(q)) => occ <= max

\* The bytes nobody holds any more are never more than the ring has.
DriftInv == Contiguous(data, pushed) /\ Slack(data, pushed, occupied, ShmSize)

(* The inductive invariant of a shared-memory topic that clients put no    *)
(* raw payload to.                                                         *)
IInv == TypeOK /\ CountInv /\ RingInv /\ DriftInv

-----------------------------------------------------------------------------
(* The bytes of the held messages, read through the ring where they are    *)
(* there.  A message that is still being put is not in the queue yet, and  *)
(* those a pop is removing, from its front or its back, are not any more.  *)
Pending == pc = "evict" /\ data # <<>> /\ Last(data) = cur
Content(e) == IF OnRing(e) THEN {shm[Cell(e.start, k)] : k \in 0 .. e.size - 1} ELSE {e.id}
Queued ==
    CASE pc = "pop" /\ left >= 0 -> SubSeq(data, left + 1, Len(data))
      [] pc = "pop" /\ left < 0 -> SubSeq(data, 1, Len(data) + left)
      [] Pending -> Front(data)
      [] OTHER -> data
HeldQueue == [i \in DOMAIN Queued |-> Content(Queued[i])]

Queue == INSTANCE TopicQueue WITH
            queue <- HeldQueue,
            nextMsg <- IF pc = "evict" THEN nextId - 1 ELSE nextId

(* A topic is a queue: read through the ring, its messages enter once, at  *)
(* the back, leave from the front only, and do not change in between.      *)
IsQueue == Queue!QSpec

=============================================================================
