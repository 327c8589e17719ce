----------------------------- MODULE ShmReaders -----------------------------
(***************************************************************************)
(* The ring of one shared-memory topic, read by other processes:           *)
(* copy_data_to_shm, get_shared_memory_data and delete_shm of              *)
(* data_topic.cpp, get_shm_data_with_mutex of common.cpp, and the methods  *)
(* of RMQClient that call it.                                              *)
(*                                                                         *)
(* A client is answered with metadata and reads the ring afterwards, by    *)
(* the names of two files: the ring and a mutex.  The mutex is shared by   *)
(* processes but not robust: a process that dies in it, or leaves it by an *)
(* exception, leaves it locked.  The files may be removed by name          *)
(* (clear_shared_memory, the server's destructor), which does not disturb  *)
(* whoever has them mapped, and made again (a second                       *)
(* add_shared_memory_topic, which also cuts a file that is there to        *)
(* another size).  Who touches a mapping beyond the end of its file is     *)
(* killed (SIGBUS), unless the byte is in the file's last page, which is   *)
(* memory like any other.                                                  *)
(*                                                                         *)
(* Only the server puts here, so that occupied_shm_size_ is the number of  *)
(* bytes put since the oldest message held (SpanHolds in                   *)
(* DataTopic_proofs.tla), and a put evicts exactly what has to make room.  *)
(* A request of a client is in ShmRequest.tla.                             *)
(***************************************************************************)
EXTENDS Integers, Sequences

CONSTANTS
    Readers,        \* processes with a client
    ShmSize,        \* shm_size_, in units of bytes
    Sizes,          \* sizes of the messages put
    AddSizes,       \* sizes given to a second add_shared_memory_topic
    MayDie,         \* which of the readers and "server" may be killed
    MaxClears,      \* bound on the files clear_shared_memory removes
    MaxCalls,       \* bound on the calls of the program: put_data, peek_data or
                    \* pop_data, reset_start_time, add_shared_memory_topic
    MaxReads        \* bound on the calls of each reader

Free == "nobody"
Empty == "no mutex"     \* a file of no length, before it is made a mutex
Procs == Readers \union {"server"}

ASSUME ShmReadersAssumption ==
    /\ Free \notin Procs
    /\ Empty \notin Procs
    /\ "server" \notin Readers
    /\ ShmSize \in Nat \ {0}
    /\ Sizes \subseteq 1 .. ShmSize
    /\ AddSizes \subseteq Nat
    /\ MayDie \subseteq Procs
    /\ MaxClears \in Nat
    /\ MaxCalls \in Nat
    /\ MaxReads \in Nat

VARIABLES
    \* the server
    held,       \* data_: the metadata of the messages in the topic, oldest first
    offset,     \* current_shm_offset_
    spc,        \* where the server's program is: see Busy
    cur,        \* the message copy_data_to_shm is putting
    copied,     \* how many of its bytes are in the ring
    shown,      \* the message the server's own peek_data or pop_data reads
    made,       \* the file add_shared_memory_topic has open
    \* the files; file 1 is what the server has mapped
    ring,       \* file 1: the message each cell holds a byte of, 0 for none
    length,     \* the length of each file of a ring
    owner,      \* who has locked the mutex in each file
    dataName,   \* the file the name of the ring leads to, 0 for none
    mutexName,  \* the file the name of the mutex leads to, 0 for none
    \* the clients
    rpc,        \* where each reader is
    got,        \* last_retrieved_ptrs_
    todo,       \* the metadata the present call has still to read
    file,       \* the mutex get_shm_data_with_mutex has opened
    mapped,     \* the file get_shm_data has mapped, 0 for none
    at,         \* how many bytes it has copied
    seen,       \* the messages they are of
    reads,      \* number of calls
    \* history
    lost,       \* messages of which a byte was cut off with the end of the file
    pushed,     \* bytes put so far
    calls,      \* number of the program's calls
    clears,     \* number of files clear_shared_memory removed
    resets,     \* number of its calls of reset_start_time
    threw,      \* readers that left a mutex by an exception
    reinit      \* whether a mutex was initialised while it was locked

serverVars == <<held, offset, spc, cur, copied, shown, made>>
store == <<ring, length, lost>>
names == <<dataName, mutexName>>
pass == <<mapped, at, seen>>
readerVars == <<rpc, got, todo, file, pass, reads>>
counts == <<calls, clears, resets>>
vars == <<serverVars, store, owner, names, readerVars, pushed, counts, threw, reinit>>

-----------------------------------------------------------------------------
Cells == 0 .. ShmSize - 1
Files == 1 .. MaxCalls + 1

\* The metadata of a message.  pos and age are history: the bytes pushed
\* before it, and the number of clear_data calls before it.
Message == [id : Nat, start : 0 .. ShmSize, size : 1 .. ShmSize, pos : Nat, age : Nat]
NoMessage == [id |-> 0, start |-> 0, size |-> 0, pos |-> 0, age |-> 0]

\* The k-th cell of a message that starts at start.
Cell(start, k) == IF start + k < ShmSize THEN start + k ELSE start + k - ShmSize

\* The byte in cell c of file f.  Another file than the server's holds
\* nothing but zeros.
Byte(f, c) == IF f = 1 THEN ring[c] ELSE 0

\* put_data, which holds data_topic_mutex_ for all of it.
Putting == {"push", "copy"}
\* Not between two calls.
Adding == {"size", "mutex", "extend", "init"}
Busy == Putting \union Adding \union {"open", "look", "unlink"}

Init ==
    /\ held = <<>>
    /\ offset = 0
    /\ spc = "idle"
    /\ cur = NoMessage
    /\ copied = 0
    /\ shown = NoMessage
    /\ made = 0
    /\ ring = [c \in Cells |-> 0]
    /\ length = [f \in Files |-> IF f = 1 THEN ShmSize ELSE 0]
    /\ owner = [f \in Files |-> IF f = 1 THEN Free ELSE Empty]
    /\ dataName = 1
    /\ mutexName = 1
    /\ rpc = [r \in Readers |-> "idle"]
    /\ got = [r \in Readers |-> <<>>]
    /\ todo = [r \in Readers |-> <<>>]
    /\ file = [r \in Readers |-> 1]
    /\ mapped = [r \in Readers |-> 0]
    /\ at = [r \in Readers |-> 0]
    /\ seen = [r \in Readers |-> {}]
    /\ reads = [r \in Readers |-> 0]
    /\ lost = {}
    /\ pushed = 0
    /\ calls = 0
    /\ clears = 0
    /\ resets = 0
    /\ threw = {}
    /\ reinit = FALSE

-----------------------------------------------------------------------------
(* The server *)

\* copy_data_to_shm, until it asks for the mutex: push, and evict until what
\* is held fits.
Put(size) ==
    /\ spc = "idle"
    /\ calls < MaxCalls
    /\ calls' = calls + 1
    /\ cur' = [id |-> calls', start |-> offset, size |-> size, pos |-> pushed, age |-> resets]
    /\ pushed' = pushed + size
    /\ LET all == Append(held, cur')
           fits == {k \in 1 .. Len(all) : pushed' - all[k].pos <= ShmSize}
       IN  \E k \in fits : held' = SubSeq(all, k, Len(all)) /\ \A j \in fits : k <= j
    /\ copied' = 0
    /\ spc' = "push"
    /\ UNCHANGED <<offset, shown, made, store, owner, names, readerVars, clears, resets, threw,
                   reinit>>

LockToCopy ==
    /\ spc = "push"
    /\ owner[1] = Free
    /\ owner' = [owner EXCEPT ![1] = "server"]
    /\ spc' = "copy"
    /\ UNCHANGED <<held, offset, cur, copied, shown, made, store, names, readerVars, pushed,
                   counts, threw, reinit>>

\* memcpy, one byte at a time: nothing but the mutex keeps a reader out.
CopyByte ==
    /\ spc = "copy"
    /\ copied < cur.size
    /\ ring' = [ring EXCEPT ![Cell(offset, copied)] = cur.id]
    /\ copied' = copied + 1
    /\ UNCHANGED <<held, offset, spc, cur, shown, made, length, lost, owner, names, readerVars,
                   pushed, counts, threw, reinit>>

\* The offset does not wrap.
NextOffset_Wrong == offset + cur.size

\* A message that ends beyond the end leaves the offset at the start.
NextOffsetRewind_Wrong == IF offset + cur.size > ShmSize THEN 0 ELSE offset + cur.size

NextOffset ==
    IF offset + cur.size > ShmSize THEN cur.size - (ShmSize - offset) ELSE offset + cur.size

\* The end of the copy, the unlock, and the pruning, which takes any number
\* of the oldest messages but not the one just put.
UnlockAfterCopy ==
    /\ spc = "copy"
    /\ copied = cur.size
    /\ owner' = [owner EXCEPT ![1] = Free]
    /\ offset' = NextOffset
    /\ \E k \in 1 .. Len(held) : held' = SubSeq(held, k, Len(held))
    /\ spc' = "idle"
    /\ cur' = NoMessage
    /\ copied' = 0
    /\ UNCHANGED <<shown, made, store, names, readerVars, pushed, counts, threw, reinit>>

\* peek_data and pop_data of the program's own, as far as
\* get_shared_memory_data of one message.
ServerOpen ==
    /\ spc = "idle"
    /\ calls < MaxCalls
    /\ calls' = calls + 1
    /\ \E i \in DOMAIN held : shown' = held[i]
    /\ held' \in {held, <<>>}
    /\ spc' = "open"
    /\ UNCHANGED <<offset, cur, copied, made, store, owner, names, readerVars, pushed, clears,
                   resets, threw, reinit>>

ServerLock ==
    /\ spc = "open"
    /\ owner[1] = Free
    /\ owner' = [owner EXCEPT ![1] = "server"]
    /\ spc' = "look"
    /\ UNCHANGED <<held, offset, cur, copied, shown, made, store, names, readerVars, pushed,
                   counts, threw, reinit>>

ServerUnlock ==
    /\ spc = "look"
    /\ owner' = [owner EXCEPT ![1] = Free]
    /\ spc' = "idle"
    /\ shown' = NoMessage
    /\ UNCHANGED <<held, offset, cur, copied, made, store, names, readerVars, pushed, counts,
                   threw, reinit>>

\* The next byte of the copy, or one of the message the server reads, is
\* beyond the end of the file.
ServerFaults ==
    /\ \/ spc = "copy" /\ copied < cur.size /\ Cell(offset, copied) >= length[1]
       \/ spc = "look" /\ \E k \in 0 .. shown.size - 1 : Cell(shown.start, k) >= length[1]
    /\ spc' = "dead"
    /\ UNCHANGED <<held, offset, cur, copied, shown, made, store, owner, names, readerVars,
                   pushed, counts, threw, reinit>>

\* clear_data
ResetStartTime ==
    /\ spc = "idle"
    /\ calls < MaxCalls
    /\ calls' = calls + 1
    /\ resets' = resets + 1
    /\ held' = <<>>
    /\ offset' = 0
    /\ UNCHANGED <<spc, cur, copied, shown, made, store, owner, names, readerVars, pushed, clears,
                   threw, reinit>>

\* add_shared_memory_topic for a topic there is.  The constructor of a
\* second DataTopic opens the files the names lead to, or makes them, gives
\* them their sizes and initialises the mutex; only then insert refuses the
\* topic.  All of it is under data_topic_mutex_.
AddAgain ==
    /\ spc = "idle"
    /\ calls < MaxCalls
    /\ AddSizes # {}
    /\ calls' = calls + 1
    /\ dataName' = IF dataName = 0 THEN calls' + 1 ELSE dataName
    /\ made' = dataName'
    /\ spc' = "size"
    /\ UNCHANGED <<held, offset, cur, copied, shown, store, owner, mutexName, readerVars, pushed,
                   clears, resets, threw, reinit>>

\* The cells of the server's file that a ftruncate to size n may set to
\* zero: those from the new end, and, where the file grows, what was
\* written beyond the old one.
Cut(n) == {c \in Cells : c >= n \/ c >= length[1]}

\* ftruncate of the ring to the size of the second call.
SizeRing(n) ==
    /\ spc = "size"
    /\ length' = [length EXCEPT ![made] = n]
    /\ \/ /\ made = 1
          /\ ring' = [c \in Cells |-> IF c \in Cut(n) THEN 0 ELSE ring[c]]
          /\ lost' = lost \union {ring[c] : c \in Cut(n)}
       \/ /\ made # 1 \/ n >= length[1]
          /\ UNCHANGED <<ring, lost>>
    /\ spc' = "mutex"
    /\ made' = 0
    /\ UNCHANGED <<held, offset, cur, copied, shown, owner, names, readerVars, pushed, counts,
                   threw, reinit>>

OpenMutex ==
    /\ spc = "mutex"
    /\ mutexName' = IF mutexName = 0 THEN calls + 1 ELSE mutexName
    /\ made' = mutexName'
    /\ spc' = "extend"
    /\ UNCHANGED <<held, offset, cur, copied, shown, store, owner, dataName, readerVars, pushed,
                   counts, threw, reinit>>

\* ftruncate of the mutex.  Zeros are a mutex that nobody has locked.
SizeMutex ==
    /\ spc = "extend"
    /\ owner' = IF owner[made] = Empty THEN [owner EXCEPT ![made] = Free] ELSE owner
    /\ spc' = "init"
    /\ UNCHANGED <<held, offset, cur, copied, shown, made, store, names, readerVars, pushed,
                   counts, threw, reinit>>

InitMutex ==
    /\ spc = "init"
    /\ owner' = [owner EXCEPT ![made] = Free]
    /\ reinit' = (reinit \/ owner[made] # Free)
    /\ spc' = "idle"
    /\ made' = 0
    /\ UNCHANGED <<held, offset, cur, copied, shown, store, names, readerVars, pushed, counts,
                   threw>>

\* The destructor, once the background thread is joined: delete_shm removes
\* one name and then the other.
DeleteData ==
    /\ spc = "idle"
    /\ dataName' = 0
    /\ spc' = "unlink"
    /\ UNCHANGED <<held, offset, cur, copied, shown, made, store, owner, mutexName, readerVars,
                   pushed, counts, threw, reinit>>

DeleteMutex ==
    /\ spc = "unlink"
    /\ mutexName' = 0
    /\ spc' = "gone"
    /\ UNCHANGED <<held, offset, cur, copied, shown, made, store, owner, dataName, readerVars,
                   pushed, counts, threw, reinit>>

\* clear_shared_memory removes one file after the other, in any order.
ClearData ==
    /\ clears < MaxClears
    /\ dataName # 0
    /\ dataName' = 0
    /\ clears' = clears + 1
    /\ UNCHANGED <<serverVars, store, owner, mutexName, readerVars, pushed, calls, resets, threw,
                   reinit>>

ClearMutex ==
    /\ clears < MaxClears
    /\ mutexName # 0
    /\ mutexName' = 0
    /\ clears' = clears + 1
    /\ UNCHANGED <<serverVars, store, owner, dataName, readerVars, pushed, calls, resets, threw,
                   reinit>>

-----------------------------------------------------------------------------
(* A reader *)

\* peek_data or pop_data: the background thread answers with metadata.
Fetch(r) ==
    /\ rpc[r] = "idle"
    /\ reads[r] < MaxReads
    /\ spc \notin Putting \union Adding \union {"unlink", "gone", "dead"}
    /\ held # <<>>
    /\ reads' = [reads EXCEPT ![r] = @ + 1]
    /\ \/ \E n \in 1 .. Len(held) : /\ got' \in {[got EXCEPT ![r] = SubSeq(held, 1, n)],
                                                 [got EXCEPT ![r] = SubSeq(held, n, Len(held))]}
                                    /\ UNCHANGED held
       \/ got' = [got EXCEPT ![r] = held] /\ held' = <<>>
    /\ todo' = [todo EXCEPT ![r] = got'[r]]
    /\ rpc' = [rpc EXCEPT ![r] = "open"]
    /\ UNCHANGED <<offset, spc, cur, copied, shown, made, store, owner, names, file, pass, pushed,
                   counts, threw, reinit>>

\* get_last_retrieved_data
Reread(r) ==
    /\ rpc[r] = "idle"
    /\ reads[r] < MaxReads
    /\ got[r] # <<>>
    /\ reads' = [reads EXCEPT ![r] = @ + 1]
    /\ todo' = [todo EXCEPT ![r] = got[r]]
    /\ rpc' = [rpc EXCEPT ![r] = "open"]
    /\ UNCHANGED <<serverVars, store, owner, names, got, file, pass, pushed, counts, threw,
                   reinit>>

\* reset_start_time of the client.
Forget(r) ==
    /\ rpc[r] = "idle"
    /\ got[r] # <<>>
    /\ got' = [got EXCEPT ![r] = <<>>]
    /\ UNCHANGED <<serverVars, store, owner, names, rpc, todo, file, pass, reads, pushed, counts,
                   threw, reinit>>

\* Without the file of the mutex the call throws.
Open(r) ==
    /\ rpc[r] = "open"
    /\ rpc' = [rpc EXCEPT ![r] = IF mutexName = 0 THEN "idle" ELSE "lock"]
    /\ file' = IF mutexName = 0 THEN file ELSE [file EXCEPT ![r] = mutexName]
    /\ todo' = IF mutexName = 0 THEN [todo EXCEPT ![r] = <<>>] ELSE todo
    /\ UNCHANGED <<serverVars, store, owner, names, got, pass, reads, pushed, counts, threw,
                   reinit>>

\* The lock is not waited for.
Lock_Wrong(r) ==
    /\ rpc[r] = "lock"
    /\ owner' = [owner EXCEPT ![file[r]] = r]
    /\ rpc' = [rpc EXCEPT ![r] = "map"]
    /\ UNCHANGED <<serverVars, store, names, got, todo, file, pass, reads, pushed, counts, threw,
                   reinit>>

Lock(r) ==
    /\ rpc[r] = "lock"
    /\ owner[file[r]] = Free
    /\ owner' = [owner EXCEPT ![file[r]] = r]
    /\ rpc' = [rpc EXCEPT ![r] = "map"]
    /\ UNCHANGED <<serverVars, store, names, got, todo, file, pass, reads, pushed, counts, threw,
                   reinit>>

\* get_shm_data opens the ring by its name.
Map(r) ==
    /\ rpc[r] = "map"
    /\ dataName # 0
    /\ mapped' = [mapped EXCEPT ![r] = dataName]
    /\ rpc' = [rpc EXCEPT ![r] = "read"]
    /\ UNCHANGED <<serverVars, store, owner, names, got, todo, file, at, seen, reads, pushed,
                   counts, threw, reinit>>

\* Without the file of the ring it throws, past the unlock.
ReadThrows(r) ==
    /\ rpc[r] = "map"
    /\ dataName = 0
    /\ rpc' = [rpc EXCEPT ![r] = "idle"]
    /\ todo' = [todo EXCEPT ![r] = <<>>]
    /\ threw' = threw \union {r}
    /\ UNCHANGED <<serverVars, store, owner, names, got, file, pass, reads, pushed, counts,
                   reinit>>

\* The cell of the next byte.
NextCell(r) == Cell(Head(todo[r]).start, at[r])

\* The copy out of the mapping, one byte at a time.
ReadByte(r) ==
    /\ rpc[r] = "read"
    /\ seen' = [seen EXCEPT ![r] = @ \union {Byte(mapped[r], NextCell(r))}]
    /\ at' = [at EXCEPT ![r] = @ + 1]
    /\ rpc' = [rpc EXCEPT ![r] = IF at'[r] = Head(todo[r]).size THEN "unlock" ELSE "read"]
    /\ UNCHANGED <<serverVars, store, owner, names, got, todo, file, mapped, reads, pushed,
                   counts, threw, reinit>>

\* The mutex is not given back between two messages of one call.
Unlock_Wrong(r) ==
    /\ rpc[r] = "unlock"
    /\ owner' = IF Len(todo[r]) = 1 THEN [owner EXCEPT ![file[r]] = Free] ELSE owner
    /\ todo' = [todo EXCEPT ![r] = Tail(@)]
    /\ mapped' = [mapped EXCEPT ![r] = 0]
    /\ at' = [at EXCEPT ![r] = 0]
    /\ seen' = [seen EXCEPT ![r] = {}]
    /\ rpc' = [rpc EXCEPT ![r] = IF Len(todo[r]) = 1 THEN "idle" ELSE "open"]
    /\ UNCHANGED <<serverVars, store, names, got, file, reads, pushed, counts, threw, reinit>>

\* pthread_mutex_unlock of a mutex of the default kind does not look at who
\* has locked it.
Unlock(r) ==
    /\ rpc[r] = "unlock"
    /\ owner' = [owner EXCEPT ![file[r]] = Free]
    /\ todo' = [todo EXCEPT ![r] = Tail(@)]
    /\ mapped' = [mapped EXCEPT ![r] = 0]
    /\ at' = [at EXCEPT ![r] = 0]
    /\ seen' = [seen EXCEPT ![r] = {}]
    /\ rpc' = [rpc EXCEPT ![r] = IF Len(todo[r]) = 1 THEN "idle" ELSE "open"]
    /\ UNCHANGED <<serverVars, store, names, got, file, reads, pushed, counts, threw, reinit>>

\* The mutex, or the next byte, is beyond the end of its file.
ReaderFaults(r) ==
    /\ \/ rpc[r] = "lock" /\ owner[file[r]] = Empty
       \/ rpc[r] = "read" /\ NextCell(r) >= length[mapped[r]]
    /\ rpc' = [rpc EXCEPT ![r] = "dead"]
    /\ UNCHANGED <<serverVars, store, owner, names, got, todo, file, pass, reads, pushed, counts,
                   threw, reinit>>

-----------------------------------------------------------------------------
\* A process is killed in a call.  Its locks and the files stay.  (One that
\* is killed between two calls leaves nothing behind that one does not that
\* makes no more calls.)
Die(p) ==
    /\ p \in MayDie
    /\ IF p = "server"
         THEN spc \in Busy /\ spc' = "dead" /\ UNCHANGED rpc
         ELSE rpc[p] \notin {"idle", "dead"} /\ rpc' = [rpc EXCEPT ![p] = "dead"] /\ UNCHANGED spc
    /\ UNCHANGED <<held, offset, cur, copied, shown, made, store, owner, names, got, todo, file,
                   pass, reads, pushed, counts, threw, reinit>>

ServerStep ==
    \/ LockToCopy
    \/ CopyByte
    \/ UnlockAfterCopy
    \/ ServerLock
    \/ ServerUnlock
    \/ ServerFaults
    \/ \E n \in AddSizes : SizeRing(n)
    \/ OpenMutex
    \/ SizeMutex
    \/ InitMutex
    \/ DeleteMutex

ReaderStep(r) ==
    \/ Open(r)
    \/ Lock(r)
    \/ Map(r)
    \/ ReadThrows(r)
    \/ ReadByte(r)
    \/ ReaderFaults(r)
    \/ Unlock(r)

Next ==
    \/ \E size \in Sizes : Put(size)
    \/ ServerOpen
    \/ ServerStep
    \/ ResetStartTime
    \/ AddAgain
    \/ DeleteData
    \/ ClearData
    \/ ClearMutex
    \/ \E r \in Readers : Fetch(r) \/ Reread(r) \/ Forget(r) \/ ReaderStep(r)
    \/ \E p \in Procs : Die(p)

Spec == Init /\ [][Next]_vars

(* A process inside a call keeps running, and who waits for a mutex that   *)
(* becomes free again and again gets it some time: an unlock wakes a       *)
(* waiter, but gives no order among those who ask.                         *)
FairSpec ==
    /\ Spec
    /\ WF_vars(ServerStep)
    /\ SF_vars(LockToCopy \/ ServerLock)
    /\ \A r \in Readers : WF_vars(ReaderStep(r)) /\ SF_vars(Lock(r))

-----------------------------------------------------------------------------
TypeOK ==
    /\ held \in Seq(Message)
    /\ offset \in 0 .. ShmSize
    /\ spc \in Busy \union {"idle", "gone", "dead"}
    /\ cur \in Message \union {NoMessage}
    /\ copied \in Nat
    /\ shown \in Message \union {NoMessage}
    /\ made \in Files \union {0}
    /\ ring \in [Cells -> Nat]
    /\ length \in [Files -> Nat]
    /\ owner \in [Files -> Procs \union {Free, Empty}]
    /\ dataName \in Files \union {0}
    /\ mutexName \in Files \union {0}
    /\ rpc \in [Readers -> {"idle", "open", "lock", "map", "read", "unlock", "dead"}]
    /\ got \in [Readers -> Seq(Message)]
    /\ todo \in [Readers -> Seq(Message)]
    /\ file \in [Readers -> Files]
    /\ mapped \in [Readers -> Files \union {0}]
    /\ at \in [Readers -> Nat]
    /\ seen \in [Readers -> SUBSET Nat]
    /\ reads \in [Readers -> Nat]
    /\ lost \subseteq Nat
    /\ pushed \in Nat
    /\ calls \in 0 .. MaxCalls
    /\ clears \in 0 .. MaxClears
    /\ resets \in 0 .. MaxCalls
    /\ threw \subseteq Readers
    /\ reinit \in BOOLEAN

\* Who is between lock and unlock of the mutex in file f.
Inside(p, f) ==
    IF p = "server" THEN f = 1 /\ spc \in {"copy", "look"}
    ELSE file[p] = f /\ rpc[p] \in {"map", "read", "unlock"}

Dead(p) == IF p = "server" THEN spc = "dead" ELSE rpc[p] = "dead"

(* Who is between lock and unlock has locked the mutex it went in by,      *)
(* whatever was removed, cut or killed, as long as no mutex was            *)
(* initialised while locked: so two that went in by the same file never    *)
(* work on the ring at once, and neither unlocks for the other             *)
(* (README.md:141).  Who went in by a mutex that was removed and made      *)
(* again is not kept apart from the server, which goes on with the old     *)
(* one: what it may then see is ReadsFresh.                                *)
Excluded == ~reinit => \A p \in Procs, f \in Files : Inside(p, f) => owner[f] = p

(* The other way round: a mutex is left locked only by a process that was  *)
(* killed, or by a reader whose exception flew past the unlock because the *)
(* ring had been removed under it.                                         *)
LeftLocked ==
    /\ \A f \in Files : owner[f] \in Procs =>
          Inside(owner[f], f) \/ Dead(owner[f]) \/ owner[f] \in threw
    /\ threw # {} => dataName # 1

\* The bytes the server has put, or begun to, since message m.
Since(m) == (IF spc \in Putting /\ copied = 0 THEN pushed - cur.size ELSE pushed) - m.pos

\* m is still in the topic, or the ring has not come round to it since; and
\* no byte of it was cut off.
Fresh(m) ==
    /\ m \in {held[i] : i \in DOMAIN held} \/ (m.age = resets /\ Since(m) <= ShmSize)
    /\ m.id \notin lost

(* Every byte a client copies, out of the server's ring, for a message that *)
(* is still in the topic, and even for one that left it while the ring has  *)
(* not come round to its bytes, is that message's, and it copies some: at   *)
(* every step of the copy, through wraps, pops, resets, kills, removed and  *)
(* remade mutexes, with or without the server excluded.  It takes a         *)
(* second add_shared_memory_topic with another size to lose a byte of such  *)
(* a message (data_topic.cpp:39).                                           *)
ReadsFresh ==
    \A r \in Readers :
        rpc[r] \in {"read", "unlock"} /\ mapped[r] = 1 /\ Fresh(Head(todo[r])) =>
            /\ seen[r] \subseteq {Head(todo[r]).id}
            /\ rpc[r] = "unlock" => seen[r] # {}

(* What a client has copied for one message is one message's bytes:        *)
(* README.md:141, "A pthread_mutex in shared memory provides cross-process *)
(* synchronization".                                                       *)
ReadsWhole ==
    \A r \in Readers : rpc[r] = "unlock" /\ mapped[r] = 1 => \A a, b \in seen[r] : a = b

\* The mutex of file f is locked for good.
Stuck(f) == owner[f] \in Procs /\ (Dead(owner[f]) \/ owner[f] \in threw)

(* A put, and a read of the server's, ends unless its process is killed or *)
(* the mutex is locked for good.                                           *)
ServerEnds == spc \in Busy ~> spc \notin Busy \/ Stuck(1)

(* So does every call of a client.                                         *)
ReadsEnd ==
    \A r \in Readers : rpc[r] # "idle" ~> rpc[r] \in {"idle", "dead"} \/ Stuck(file[r])

=============================================================================
