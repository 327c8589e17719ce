# robotmq in TLA+

Specifications, model-checking configurations and machine-checked proofs for
robotmq: a message queue for robots, with a C++ core (`src/robotmq/core`) behind
a Python interface. Paths and line numbers below refer to that source.

## 1. The system

| Component | State it keeps | Operations |
|---|---|---|
| **Topic** (`DataTopic`, `data_topic.cpp`) | a deque of `<bytes, timestamp>`; for a shared-memory topic also a ring of bytes with a write offset and a count of occupied bytes | put raw bytes (`add_data_ptr`), put into the ring (`copy_data_to_shm`), `peek_data_ptrs`, `pop_data_ptrs`, `clear_data` |
| **Metadata** (`SharedMemoryDataInfo`, `common.cpp`) | name, size, start, length of bytes in a segment | parse (throws on anything else), read with and without the mutex |
| **Server** (`RMQServer`, `rmq_server.cpp`) | the topics; `get_new_request_` and `reply_topic_`, the two strings through which threads hand over a request; last stamp and cached reply of each topic; `running_` | background thread: one packet at a time (`process_request_`); program: `add_topic`, `put_data`, `pop_data`, `wait_for_request`, `reply_request`, `reset_start_time`, destructor |
| **Client** (`RMQClient`, `rmq_client.cpp`) | its REQ socket, `retries_`, which topics use shared memory | `peek_data`, `pop_data`, `put_data`, `request_with_data`, `get_topic_status`, all through a poll with a timeout, a reconnection and a resend |
| **Segments** (files in `/dev/shm`) | ring and mutex of each shared-memory topic, data of a request; the names that lead to them | made by the server's `DataTopic` and by `request_with_data`; locked by the server and by `get_shm_data_with_mutex`; removed by `delete_shm`, by the end of a request, by `clear_shared_memory` |
| **Message** (`RMQMessage`, `rmq_message.cpp`) | topic, command, stamp, blocks of data or their string | construct, encode, decode |
| **Clocks** | a start time for each server and client | `get_timestamp`, `reset_start_time` |
| **Utilities** (`utils.py`) | none | `clear_shared_memory`; conversion of Python objects |
| Bindings, examples, packaging | none | |

How they interact. Clients and server exchange packets over ZeroMQ REQ/REP
sockets. The server has two threads: the *background thread* answers packets, the
*program* (Python) uses the server's methods. No binding releases the GIL, so the
program is one thread. The threads share the topics (under `data_topic_mutex_`)
and the two handover strings (each under a mutex of its own). A request makes the
background thread wait until the program has called `wait_for_request` and
`reply_request`. With shared memory, a packet carries metadata and the client
reads the ring itself, under a mutex of the segment.

What makes it hard, and what makes each part correct:

- **Topic**: int and size_t are compared in the ranges of pop and peek; the ring
  wraps; room is freed by loops that trust a running byte count; several clocks
  stamp one deque; an exception may leave a loop half way. Correct when no held
  message is overwritten, the count is exact, messages leave once and in order,
  a put keeps its message, loops end.
- **Request and reply**: a request crosses two threads and an unreliable wire,
  is resent on a timeout, and must run once. Correct when the handover holds one
  request and loses no wakeup, the answer belongs to the request, a call that
  returns has had its effect once, every call ends.
- **Segments**: processes may be killed with a mutex held or leave it by an exception,
  files are removed by name or cut under those who use them, names are used again, metadata
  outlives what it points at. Correct when server and readers of one mutex exclude each
  other, a mutex stays locked only for a reason, what is still in the ring is read right, a
  request that returns was given its own data, no file is left behind.
- **Message**: lengths and offsets pass through `int`, `uint32_t`, `size_t` and one byte.
  Correct when the receiver finds the blocks where the sender put them, and refuses none.

The complete list of hazards, each at its line and with the properties that
cover it, is in `PROJECT.json`.

## 2. Modules

| Module | What it is |
|---|---|
| `TopicQueue` | abstract: a queue whose messages enter once at the back and leave at the front |
| `DataTopic` | one topic with all its operations and its ring; its properties; its refinement to `TopicQueue` |
| `Rpc` | abstract: what one `request_with_data` promises |
| `RequestReply` | server, clients and ZeroMQ; its properties; its refinement to `Rpc` |
| `ShmRequest` | extends `RequestReply`: requests whose data is in a segment, and what the program is given |
| `ShmReaders` | the ring and its mutex in files, the server that writes and clients that read them |
| `MessageCodec` | one message, from the sender's blocks to the receiver's |
| `DataTopic_proofs` | theorems about the byte count and the ring of a topic |
| `DataTopicQueue_proofs` | extends it: peek, order, retention, the refinement to `TopicQueue` |
| `RequestReply_proofs` | theorems: the handover, the types, and the facts about one connection the next two rest on |
| `RequestReplyCalls_proofs` | extends it: what `put_data` and `pop_data` of a client promise |
| `RequestReplyRequests_proofs` | extends it: what `request_with_data` promises, the refinement to `Rpc` |
| `ShmRequest_proofs` | theorems about segments: extends `ShmRequest` and uses `RequestReply_proofs` |
| `ShmReaders_proofs`, `MessageCodec_proofs` | theorems about the modules of these names |
| `MCDataTopic`, `MCRequestReply`, `MCShmReaders`, `MCShmRequest`, `MCMessageCodec` | constants of the instances TLC checks |
| `MCRpcUses` | three sets of clients of `RequestReply`, each with constants of its own, in one run |

A definition whose name ends in `_Wrong` is a wrong variant of the definition that
follows it: a dropped guard, a forgotten reset. Nothing uses it. In the place of
the right definition it must make a property fail, which shows that the property
can. `PROJECT.json` says which variant breaks which property.

### `DataTopic` and the code

`data`, `occupied`, `offset` are `data_`, `occupied_shm_size_` and
`current_shm_offset_`. `shm` says, for each cell of the ring, which message's byte
it holds. An entry says what its bytes are (`loc`): the payload (`heap`), metadata
of this ring (`ring`), metadata of a request segment of a client (`request`).
Operations hold the server's mutex from start to end, so they do not interleave
with each other; their loops are taken one turn at a time (`pc`), because an
exception can end them in between and because readers of the ring only share
another mutex.

- `copy_data_to_shm`: `PutTooLarge` (early return), or `PutShm` (push), `EvictFront`
  for each turn of the loop that makes room, `CopyToRing`, `PruneFront` for each turn of
  the pruning loop, `PutDone`.
- `add_data_ptr`: `AddDataPtr`, atomic: push, then prune. `PutHeap` is the server's
  `put_data`; `ClientAdd` is a packet with an entry, stamped by the client's clock.
- `pop_data_ptrs`: `PopBegin` (clamp n, take the result), `PopStep` for each turn, `PopDone`.
  The comparisons of the `int32_t` n with a `size_t` are modelled by their conversion
  (`ToSizeT`, modulo `SizeMod`).
- `peek_data_ptrs` changes nothing: it is the operator `PeekDataPtrs`.
- `ParseThrows`: the exception of the metadata parser on a raw payload.
- `ResetStartTime`: `clear_data`, and the clock.

What kind of topic a behaviour is about never changes: `kind` says whether it is one
with shared memory (`is_shm_topic_`), what clients add to it (raw payloads, metadata of
requests, nothing) and how far their clocks are from the server's.

`pushed`, `pos`, `delivered`, `outcome` and the numbers of messages are history: no
guard of the code reads them.

### `RequestReply` and the code

The client is in `cpc` = `idle`, `status` (the poll of `get_topic_status`) or `send` (the
poll of `send_request_`). `Call` starts a method; `StatusReply`, `StatusTimeout`,
`CallReply`, `CallTimeout` are the two outcomes of the two polls. A timeout closes the
socket: `conn` counts connections, and an answer to an earlier one is dropped.

The background thread is in `bpc`: `poll` → `Recv` → `dispatch` → `NoTopic`, `Serve`,
`AnswerAgain` (a recognised duplicate), or `RecordRequest` → `EnqueueRequest` → `Announce`
→ `await` → `SendReply`. `BgStop` is the end of its loops when `running_` is false; as that
is looked at before the poll only, a last packet may still be taken (`Recv`).

The program is in `upc`: `WaitForRequest` → `ReplyPut` → `ReplyFlag` (the two halves of
`reply_request`), and between requests `PutData`, `PopData`, `AddTopic`, `ResetStartTime`,
`Shutdown`. That it answers every request it is given, an empty one too, and once, is how
`README.md:449-457` and the examples use the library.

ZeroMQ is external and modelled by what the code relies on: a packet may be lost
(`Lose`), packets of one client arrive in order unless `InOrder` is false (each
reconnection is a TCP connection of its own), the REP socket answers the sender of the
last packet.

The composition with topics: a queue of `RequestReply` is the queue `DataTopic`
refines; a pop takes everything because that is what `pop_data_ptrs` does for every n (lemma
`PopTakesAll`); retention may remove a prefix on any insertion (`Pushed`).

### `ShmRequest` and the code

Each action is one of `RequestReply` with what it does to the flags and segments, and a
segment is written and read in steps of their own.
`flagged` is `topic_using_shared_memory_`: set by the status of a topic there is, and never
asked for again (`LearnFlag`; the empty entry that `operator[]` makes counts as false).
`segment` says which calls' bytes may be in the file under each name, and whether zeros.
`OpenSegment` is `shm_open`, `ftruncate` and the beginning of the `memcpy`: from then on every byte
is an old one, a zero, or a new one. `SendData` is the end of the copy and the send (or the
data in the packet, `raw`); `RemoveSegment` the `shm_unlink` after
`send_request_`, which an exception of `send_request_` skips (`SCallTimeout`, an error in
`SCallReply`). `ClearSegment` is `clear_shared_memory`, one file at any moment.

`ReadSegment` is `get_shm_data` in `wait_for_request`: without a mutex, some bytes at each step,
of the length that the metadata has, while the file may be rewritten by the client's
next call. What it has read so far is `seen`; `SWaitForRequest` returns it (`given`). A file of another
call may be shorter than the metadata says: the rest of its last page is zeros, and beyond
that the process is killed by a SIGBUS (`WaitFaults`). `WaitThrows` is the exceptions of
`wait_for_request`: data that does not parse as metadata, or no file under the name, as for
every request of a client that is not on the server's machine (`Local`). They
leave the announcement taken, and `reply_topic_` is never set for that request.
`ReplyIgnored` is the reply that does not fit the ring.

### `ShmReaders` and the code

The server's program is in `spc`: `Put` → `LockToCopy` → `CopyByte`, byte by byte →
`UnlockAfterCopy` is `copy_data_to_shm`; `ServerOpen` → `ServerLock` → `ServerUnlock` the
server's own `peek_data` and `pop_data`, of one message; `DeleteData` → `DeleteMutex` its destructor.
`held`, `offset` are `data_` and `current_shm_offset_`. Eviction and pruning are one step
each: `DataTopic` has them turn by turn, and shows that they remove what they should
(`OccupiedExact`). `occupied_shm_size_` is not a variable here: where only the server puts
it is the number of bytes put since the oldest held message (`SpanHolds`), and `Put`
compares that with the size of the ring.

Files are numbers. The names of ring and mutex lead to a file or to none (`dataName`,
`mutexName`); file 1 is what the server has mapped, for good. `length` is how long the file
of a ring is, `owner` who has locked the mutex in each file. A reader is in `rpc`: `Fetch` (a `peek_data` or `pop_data` answered
with metadata) or `Reread` (`get_last_retrieved_data`), then for each message `Open` → `Lock`
→ `Map` → `ReadByte`, byte by byte → `Unlock`, which is `get_shm_data_with_mutex`. `ReadThrows` is
its exception between lock and unlock. The bytes are copied one by one because the mutex
need not keep the server out: a reader may hold one that was made after the server's was
removed, or that was initialised while it was locked.

`AddAgain` → `SizeRing` → `OpenMutex` → `SizeMutex` → `InitMutex` is `add_shared_memory_topic` for a
topic there is: the second `DataTopic` opens or makes the files, gives the ring the second
call's size and initialises the mutex before `insert` refuses it. What a smaller size cuts
off (`Cut`) is gone, zero if the file grows again; who touches it meanwhile is killed
(`ServerFaults`, `ReaderFaults`), or, in the last page, finds it unchanged. `lost` remembers the
messages it took a byte of. `ClearData` and
`ClearMutex` are `clear_shared_memory`, one file at a time. `Die` kills a process anywhere.

### `MessageCodec` and the code

`Construct` → `EncodeIndex` → `AppendBlock`, once for each block → `Serialize` → `Receive` →
`DecodeBlock`, one turn of the loop each → `DecodeDone`. The encoder's place of a block
(`at`) comes from its appends, the decoder's (`start`) from the running index. `ToInt` and
`ToUint32` stand at each conversion of the code. The `assert` at the end of the encoder
(`rmq_message.cpp:125`) is not in a release build, which `setup.py` makes.

## 3. Runs

All runs that must pass:

| Run | Question | Instance |
|---|---|---|
| `topic_uses` | Regular topic: retention, single delivery in order, ranges of peek. Only the server's puts in shared memory: is the byte count exact at every step, is a put message kept? Raw payloads in shared memory: do counts and offset stay in range when operations throw? | three kinds: regular, with a client's puts; ring of 3 cells, sizes 1 to 4; the same ring with raw payloads and clocks 2 apart; 4 messages, clock 0..2, retention 1, n in -4..4 |
| `topic_shm_requests` | With requests of skewed clients on the same topic: is no held message overwritten, do loops end, is it a FIFO queue? | ring of 3, 4 messages, skew -2 and 2 |
| `rpc_uses` | Does `request_with_data` implement `Rpc`? What does a call that returns promise? | 2 clients with 2 calls each and every loss and timeout: with a request topic each; one with requests, one that puts and pops, no resend; one that puts, one that pops, the program too |
| `rpc_live` | Handover, what is run and when, answers, termination | 2 clients sharing a topic, overtaking packets, status, peek, one reset, shutdown |
| `shm_readers` | Exclusion, locks left behind, stale metadata, termination | ring of 3, sizes 1 and 2, 3 calls of the program (put, peek or pop, reset, add again with size 1 or 3), a reader with 2 calls, one file removed, anybody killed |
| `shm_request` | Does `request_with_data` implement `Rpc` here too? What is the program given, when is there no file, does the thread come back? | 1 client on the server's machine, 2 calls on a shared-memory or a regular topic, 1 retry, with and without resend, segments removed at any moment, 1 reset, shutdown |
| `codec` | Is what is received what was sent? | words of 5 bits, up to 3 blocks of 0..34 bytes, topics up to and beyond the limit |

Some properties hold on some kinds of topic only, and say so: `RetentionHolds` where the
clients' clocks are the server's and nothing throws, `OccupiedExact` and `OwnPutKept`
where only the server puts.

Why the bounds are enough. A ring of 3 with sizes 1 to 3 wraps at every position,
ends exactly at the end, is filled by one message, splits one, and evicts several entries at once; size
4 is refused. Four messages fill and empty it more than once. The values of n
cover zero, both signs, within the length, equal to it and beyond. The clock ranges
over twice the retention, so entries expire before, at, and after an
insertion. Two clients are the least that disturb each other; two calls with a resend
each let every packet of a call meet every packet of the next one and of the other client.
For `shm_readers`, three calls of the program put a message, wrap around it, and reset or add the
topic between; two calls of the reader are one that fetches and one that reads again. One
file removed is enough to part the mutexes of server and reader; a second size of 1 cuts
the ring within a message, 3 grows it again.
One reader is the least that meets the server; that two readers exclude each other is
proved for any number (section 5). For `shm_request`, a call that throws and a later one on
the same segment are what the properties are about; several clients, and clients of another
machine, are in the theorems. Words of 5 bits put blocks on both
sides of 2^4, where an `int` turns negative, and of 2^5, where a `uint32_t` wraps; the proofs
are for any width.

`CHECK_DEADLOCK FALSE` in the runs of `RequestReply`, `ShmRequest` and `ShmReaders`: the
numbers of calls are bounded and the server may be destroyed, so behaviours end; one of
`MessageCodec` is the life of one message. That nobody waits for ever is
what `CallsEnd`, `ThreadReturns`, `SThreadReturns`, `ServerEnds` and `ReadsEnd` say.

Runs that must find a violation, each a difference between the code and what its
documents say (quoted under `findings` in `PROJECT.json`):

| Run | What TLC shows |
|---|---|
| `pop_takes_all` | `pop_data(topic, n)` removes and returns the whole topic for every n: `n < -data_.size()` compares with a number close to 2^64 (`data_topic.cpp:177`) |
| `shm_drift` | a client's request prunes an old ring entry without giving back its bytes (`data_topic.cpp:128-131`); a later put evicts everything, its own message included, and returns |
| `raw_on_shm` | after a client's `put_data` to a shared-memory topic, the next eviction, pruning or pop throws |
| `dedup_shared_topic` | two clients on one request topic: a retried request runs twice, because one stamp per topic is remembered |
| `shm_torn` | a client answered with metadata reads the ring after a later put has overwritten a part: it returns bytes of two messages as one, although both sides lock the mutex |

More can be had by changing one constant or property.
`RetentionHolds` without its condition on `skews`, for a kind whose clients are 2 ahead: an
entry from the future keeps older ones from being pruned. `rpc_uses` with `InOrder = FALSE`:
a late first packet of an old request runs it again, `IsRpc` fails even with one client.
`MCRpcUses` with `Resend <- MCAlways` for the clients that pop (`automatic_resend`, the default): a
pop whose answer is late is sent again, and what the first one removed is lost although
the call returns: `PopLosesNothing` fails. `rpc_live` with an `Epoch` that
gives two clients the same stamps: a client is sent the cached answer to the other's
request, `AnswersOwn` fails. `shm_request` with `Local <- MCNone`: the first request of a client that knows of
the topic makes `wait_for_request` throw, and the background thread serves nobody any more
(`FileThere` without its last exception fails).

What the properties of `shm_request` do not say: that data is run once. A call that timed out
without a resend may be handled after the client's next call has written its data under the
same name; the program is then given that data, or a mixture, for the first request and again for
the second. Each request is run once, so `IsRpc` holds, and the call that returns was run with its own
data (`ReturnsOwnRun`); but `README.md:301` and `README.md:476`, which say that a retry does not run again,
are true only of the library's own resends, not of a program that catches the exception
and calls again. `GivenOwn` says what the abandoned request can be given at most.

## 4. Fairness

`DataTopic`: the thread inside an operation keeps running (weak fairness of `LoopStep`). It
holds a mutex and blocks on nothing but the ring's mutex.

`RequestReply`: each client's poll ends, by an answer or by its timeout; the background
thread runs (sleep loops and a poll with a timeout); the program keeps calling
`wait_for_request` and answers. The last is an assumption about the user's program,
true of the loop the documentation shows. Without it `ThreadReturns` is false: a
server whose program never waits for requests serves nobody after the first one.
No fairness is assumed of the network. `ShmRequest` assumes the same of thread and program, and
nothing of the clients; that the program calls
`wait_for_request` again after it threw is assumed too, which is why `SThreadReturns` excepts
a thread that waits for the reply to such a request.

`ShmReaders`: a process inside a call keeps running unless it is killed (weak fairness), and
one that waits for the mutex gets it some time if it is free again and again (strong
fairness of the locks): an unlock wakes a waiter, and there is no order among them. Weak
fairness would let a reader be overtaken for ever, which the numbers of calls rule out in
TLC's instance but not in the code. `ServerEnds` and `ReadsEnd` except a mutex that is locked
for good: the mutex is not robust, so that is what the code does.

## 5. Proofs

`tlapm` checks every proof in the eight modules `*_proofs`: no step is left out, and the
only assumptions are the named ASSUMEs of the modules, which TLC evaluates in every run,
and the hypotheses that a theorem states. Those hypotheses say how a topic is used;
each is there because a run, or the code, shows that the theorem is false without it.

### A topic: `DataTopic_proofs`

**`TypeCorrect`**: `Spec => []TypeOK`, from `DataTopicAssumption` only. The content is that
`occupied` and `offset` never leave their ranges: every subtraction of an unsigned count
is of bytes that were added and not subtracted before, even when loops are left half way
and even though pruning forgets bytes. The invariant: the ring entries of the deque are
in the order of their positions in the stream of bytes pushed (`RingOrder`), and the
count is at least the distance from the oldest of them to the end of the stream. So it
covers each entry that a loop may remove. It needs that a pop takes all entries:
`PopTakesAll`, from the conversions of `PopCount`.

**`RingSafe`**: `RingIntact` on topics without raw payloads. The type invariant
says where an entry is in the stream; `Placed` adds that its place in the ring is as far
behind the write offset as bytes were copied since, modulo the ring. With at most
`ShmSize` bytes between the oldest held entry and the end of the stream, the cells of two
held entries differ (`CellsDiffer`), and a copy touches only its own. While a pop removes
entries from the back the offset does not follow, which is sound because it then removes
all of them.

**`DriftBounded`, `EvictionHasVictim`**: `IInv` and `EvictHasVictim` on the same topics. The
count may be larger than what is held, because pruning after a request forgets bytes. Two
facts keep that from emptying the deque under the eviction loop (`DriftInv`): what is held
has no gaps up to the end of the stream (`Contiguous`), and the forgotten bytes are less
than the ring (`Slack`), since a loop that evicts the last entry has also given its bytes back.

**`SpanHolds`**: where only the server puts, the count is the distance in the stream from the
oldest held byte to the newest, and consecutive entries meet.

**`OccupiedIsExact`**: `OccupiedExact` on the same topics: the bytes of the held entries add up
to the count, however many there are. The sum (`Total`) is a recursive function over the
deque, and induction over a predicate is out of the provers' reach. What they can use is
that a non-empty set of numbers has a least element (`NatMin`, from the library's `WFMin`),
so the step is an argument about the smallest index where the sum and the telescoped
distance of `SpanHolds` differ: there is none (`TotalIs`).

**`OwnPutStays`**: `OwnPutKept`. With the exact count, eviction stops at the new message
at the latest, and pruning stops before a message stamped now.

### A topic as a queue: `DataTopicQueue_proofs`

**`PeekCorrect`**: `PeekReturnsAsked`, for every n and every length.

**`PopInOrder`**: `PoppedOnceInOrder`. What was handed out, what the running pop has taken
and what the deque holds are, one behind the other, an increasing sequence of identities.

**`TopicIsQueue`**: `Spec => IsQueue`, for topics with shared memory that get no raw payloads
and for all others. `Content` maps the deque in the middle of an operation
to the queue: what a pop has decided to take is still at the front, and a message being put
is at the back from `Pending` on. A turn of a loop is a `TopicQueue` step or a stutter, with
one lemma for each group of actions.

**`RetentionKept`**: `RetentionHolds`. Where clocks agree the deque is ordered by its stamps,
so a loop that stops at the first entry young enough has removed all older ones.

### The handover and the types: `RequestReply_proofs`

**`HandshakeHolds`**: `Handshake`, for any numbers of clients, topics, calls and
resets, whatever the network does. `HInv` adds that one packet is taken at a time, and
that the program is inside the handling of a request only when it has one. One lemma
for the thread, one for the program, one for all other steps.

**`CallsTypeCorrect`**: `TypeOK`. An optional value is modelled as a set of one or
none; that it never has two members is what has to be shown. `ConnInv` does: on the present connection of a
client there is either a packet on its way, or one in the hands of the server, or an answer
in the inbox, or nothing. The REQ socket and the new connection at each resend make it so.

### Calls without automatic resend: `RequestReplyCalls_proofs`

**`PutStoredOnce`, `PopGivesAll`**: `PutOnce` and `PopLosesNothing`, if `TRUE \notin Resend`.
A packet of a call is then sent once, so it is on the wire, at the server, or handled, and
never two of these (`OnceInv`); the answer to a pop holds all it removed (`DataInv`). A
resend of either breaks its property, as section 3 says.

### Requests: `RequestReplyRequests_proofs`

**`AnswersAreOwn`, `ReturnsAreDone`**: `AnswersOwn`, and `ReturnMeansDone` as long as nothing was
reset, if topics of requests are put to by nobody else (`OwnQueue`) and the clocks of
the clients of a topic never agree (`StampsDiffer`: the server tells requests apart by topic
and stamp). `ReqInv` follows one request: the entry under the program's hands, the reply, the
cached answer and the one in the inbox belong to the same call. That the answer is one entry
is `LenInv`.

**`RequestsRunOnce`**: `AtMostOnce` as long as `reset_start_time` was not called (it
forgets the stamps), if each request topic has one client (`OneClient`;
`dedup_shared_topic` is the counterexample) and packets come in the order sent (an
overtaken first packet runs again). `SeqInv` puts the calls of that client in one line:
packets of older calls are before those of newer ones (`OrderAt`), and the stamp that the
server remembers is past every request that was run (`RunInv`, `StampPast`), so a packet
it does not recognise is of a call that was not run.

**`RequestsAreRpc`**: `Spec => IsRpc` under the same hypotheses: until the first
`reset_start_time`, at most one run, before the return, and the answer is that run's. Each
action of `RequestReply` is a step of `Rpc` or a stutter for every request; what that needs of
a state is `RpcInv`.

**`RunsAreAwaited`**: `RunsAwaited` under the hypotheses of `AnswersAreOwn`, so also in any order
of packets and across resets: what wait_for_request takes from the topic is the request
that the thread waits for, or nothing. `QueueInv` says what a topic of requests may hold
at each point of the handover; by `Handshake` the announced topic is that of the packet at hand.

### Segments: `ShmRequest_proofs`

`ShmRequest` takes each action of `RequestReply` with what it does to segments, and has
steps of its own, of three kinds: those that only touch segments (`OpenSegment`,
`ClearSegment`, `ReadSegment`), the failures of `wait_for_request` (`WaitThrows`, `WaitFaults`), and
`ReplyIgnored`. So `SInv` contains `HInv`, `TInv` and `ConnInv`, whose lemmas hold for the shared steps
and are shown for the others.

**`ShmTypesCorrect`, `SegmentsRemoved`**: `STypeOK` and `NoSegmentLeft`, without any
hypothesis: a file belongs to a call that writes it or sends, or one that threw.

**`GivenIsOwn`**: `GivenOwn`, if packets come in the order sent. `WaitInv`: until
`wait_for_request` fails, every request that is sent or queued went with its data in the packet, or
names a file that holds its data or, after its call threw, pieces of it and of
later calls of the client and zeros; and so does what `wait_for_request` has read so far. While the call of
the first entry has not ended, nobody writes under its name, so that every byte read is its own. The
server is dead to requests after a failure (`Dead`).

**`ReturnsRunOwn`**: `ReturnsOwnRun` under the hypotheses of `RequestsRunOnce`. As long as
`wait_for_request` has not thrown, `ReqInv` and `SeqInv` hold here too: the one new
step that could disturb them is a reply that is ignored, and it leaves the topic empty, as the request found it
(`IgnoredNext`). After a throw nothing is run any more, and what the answers on their way are
to stays (`AnswersKept`, together `ServeInv`). Each run gave the program one piece of data
(`GivenCount`), and by `GivenOwn` it is the request's own, since its call did not throw.

**`ShmRequestsAreRpc`**: `SSpec => IsRpc` under the same hypotheses, with the same `RpcInv`:
`ServeInv` implies it before a throw and after. An ignored reply leaves the topic empty, and
`CallReply` throws at an answer without an entry; the steps that are not of
`RequestReply` are stutters of `Rpc`.

**`FilesAreThere`**: `FileThere`, if packets come in the order sent and nobody puts to
request topics with shared memory (`NoPuts`): `wait_for_request` would take what was put for metadata and throw, although no
client sent data in a packet of a request. A call that sends has its file under the name, and one
that threw left it there, unless it was removed by `clear_shared_memory` (`cleared`) or is on
another machine; and a file shorter than the metadata says was made by a later call.

### Readers and messages

**`ReadersTypes`, `ReadersExcluded`, `ReadersLeftLocked`**: `TypeOK`, `Excluded` and `LeftLocked` of
`ShmReaders`, for any number of readers. Types need that a reader inside a call has a
message left to read, and that what is being put fits the ring. The locks are one
invariant, `LockInv`: an unlock frees the file whoever has locked it, so it takes the
lock from nobody else only because who is inside is the owner (`Kept`), as long as no mutex
was initialised while locked; and a lock outlives its section only with a process that
is dead or has thrown (`Left`), where a throw needs the server's own ring to be unlinked
for good: the name never leads to file 1 again. `Excluded` keeps apart those who went in by the
same file, no more: a reader with a mutex made anew is not kept from the server.

**`ReadersReadFresh`**: `Spec => []ReadsFresh`, without any hypothesis. `Stream` says of a message that a
reader has, or the topic holds, where its cells are: as far behind the write offset as
bytes were put since it, around the ring; and that all its bytes are there, but for those of messages
cut off (`lost`), until the
copy has come round to the first of them. A copied byte is less than the ring ahead of those, so
it is in another cell (`CellsApart`). A message being put is not yet a reader's
(`SeenFrom`), and eviction keeps the held ones within one round (`HeldInv`). A message is
fresh from when it is put until it is not any more, so each byte copied so far was copied
while it was there (`PassOK`). The mutex is not
needed for it, which is why it holds of readers that lock another one: that a read is torn
(`shm_torn`) takes a message the ring has come round to.

**`CodecTypes`, `BlocksAsSent`, `NoneRefused`**: `TypeOK`, `ReceivedAsSent` and `NeverRefused` of
`MessageCodec`, for every width of the words and every number and size of blocks. The
invariant ties the decoder's index to the encoder's place of the block it is at, modulo
the word; an `int` then names the place exactly if it is below half a word. The bounds
check passes because the wrapped sum is never more than the sum.

### Only model-checked

Liveness (`LoopsEnd`, `CallsEnd`, `ThreadReturns`, `ServerEnds`, `ReadsEnd`, `SThreadReturns`):
fairness and ENABLED are out of the provers' reach. Every invariant and every action
property of the passing runs is a theorem.

## 6. What is left out

Logging, the wording of errors, Python object conversion; malformed packets (the clients
never send one); the data races of the constructor (`rmq_server.cpp:63`), of the
unlocked look-ups (lines 138, 159, 408, 431) and of `reset_start_time` with the
deduplication maps: the models take each access as atomic. `timeout_s < 0` of
`get_topic_status` ends in undefined behaviour and is not modelled. A client's
`reset_start_time` forgets the last data (`Forget`), but clients' clocks do not move. The byte
layout of metadata is left out, and with it a raw payload that begins with `HEADER`; so are
failures of `shm_open` and `mmap` other than a missing file, and a server that peeks into
a shared-memory topic between a request's arrival and its handling (`rmq_server.cpp:143`).
The answer to an unknown command (the `default` of `process_request_`) changes no state and no client
sends one. Two `RMQClient`s with one name in one process, which would share a segment, are not
modelled. In `ShmReaders` every reader is on the server's machine: one on another finds no file and
throws at `Open`, as after a removal. A file of a ring other than the server's is all zeros: nobody
writes it. What `add_shared_memory_topic` does to a ring of which it changes the size is checked for
those messages that lose no byte by it (`Fresh`), and after it initialised a locked mutex `Excluded`
says nothing.
`EvictHasVictim` is checked without raw payloads: with them and requests on the same
topic, an exception in the middle of an eviction can raise the drift above the size of
the ring, and the loop would then call `front()` on an empty deque.

## 7. Reading order

`TopicQueue`, `DataTopic` down to `Next`, its properties; `Rpc`, `RequestReply`, `ShmRequest`;
`ShmReaders`; `MessageCodec`; then the proofs, from the last theorem backwards.

## 8. Plan

1. A clock of a client that is reset between a request and its retry, and what the
   server's deduplication makes of the stamps.
2. A request topic that is also put to: which entry `wait_for_request` returns.
