-------------------------- MODULE ShmReaders_proofs --------------------------
(***************************************************************************)
(* Proofs about ShmReaders: for any number of readers, whoever is killed   *)
(* and whatever is removed or cut, only one process at a time is inside a  *)
(* mutex, a mutex is left locked only by the dead and by an exception, and *)
(* every byte the ring has not come round to is read right, mutex or not.  *)
(*                                                                         *)
(* The first two are one invariant.  A process that unlocks gives its      *)
(* file back, whoever has locked it: that takes the lock from nobody else  *)
(* only because whoever is inside is the owner (Excluded).                 *)
(***************************************************************************)
EXTENDS ShmReaders, SequenceTheorems, TLAPS

\* A reader inside a call has something left to read, and in the middle of a
\* message a byte of it.
ReaderOK(r) ==
    /\ rpc[r] \in {"open", "lock", "map", "read", "unlock"} => todo[r] # <<>>
    /\ rpc[r] \in {"idle", "open", "lock", "map"} => at[r] = 0
    /\ rpc[r] = "read" => at[r] < Head(todo[r]).size

\* Types, and what they need to be inductive: a message that is being put
\* fits the ring.
TypeInv ==
    /\ TypeOK
    /\ resets <= calls
    /\ spc \in Putting => cur.size \in 1 .. ShmSize
    /\ \A r \in Readers : ReaderOK(r)

\* The last entries of a sequence, and the first.
LEMMA Part ==
  ASSUME NEW S, NEW q \in Seq(S), NEW m \in 1 .. Len(q), NEW n \in m .. Len(q)
  PROVE  SubSeq(q, m, n) \in Seq(S) /\ Len(SubSeq(q, m, n)) = n - m + 1 /\ SubSeq(q, m, n) # <<>>
  <1>1. Len(q) \in Nat /\ \A i \in 1 .. Len(q) : q[i] \in S
    BY LenProperties, ElementOfSeq
  <1>2. \A i \in m .. n : q[i] \in S
    BY <1>1
  <1>3. /\ SubSeq(q, m, n) \in Seq(S)
        /\ Len(SubSeq(q, m, n)) = IF m <= n THEN n - m + 1 ELSE 0
    BY <1>1, <1>2, SubSeqProperties
  <1>4. Len(SubSeq(q, m, n)) = n - m + 1 /\ n - m + 1 > 0
    BY <1>1, <1>3
  <1>5. SubSeq(q, m, n) # <<>>
    BY <1>4, EmptySeq
  <1>6. QED BY <1>3, <1>4, <1>5

LEMMA TypeInit == Init => TypeInv
  <1> SUFFICES ASSUME Init PROVE TypeInv
    OBVIOUS
  <1>1. NoMessage \in Message \union {NoMessage}
    OBVIOUS
  <1>2. 1 \in Files /\ <<>> \in Seq(Message) /\ 0 \in Files \union {0}
    BY ShmReadersAssumption DEF Files
  <1>3. /\ owner \in [Files -> Procs \union {Free, Empty}]
        /\ length \in [Files -> Nat]
        /\ rpc \in [Readers -> {"idle", "open", "lock", "map", "read", "unlock", "dead"}]
        /\ got \in [Readers -> Seq(Message)] /\ todo \in [Readers -> Seq(Message)]
        /\ file \in [Readers -> Files] /\ reads \in [Readers -> Nat]
    BY <1>2, ShmReadersAssumption DEF Init
  <1>4. /\ ring \in [Cells -> Nat] /\ offset \in 0 .. ShmSize /\ calls \in 0 .. MaxCalls
        /\ clears \in 0 .. MaxClears
    BY ShmReadersAssumption DEF Init
  <1>5. /\ mapped \in [Readers -> Files \union {0}] /\ at \in [Readers -> Nat]
        /\ seen \in [Readers -> SUBSET Nat]
    BY <1>2 DEF Init
  <1>6. TypeOK
    BY <1>1, <1>2, <1>3, <1>4, <1>5, ShmReadersAssumption DEF Init, TypeOK, Busy, Putting
  <1>7. \A r \in Readers : ReaderOK(r)
    BY DEF Init, ReaderOK
  <1>8. QED BY <1>6, <1>7 DEF Init, TypeInv, Putting

\* A step that moves no reader.
LEMMA ReadersStay ==
  ASSUME TypeInv, UNCHANGED <<rpc, todo, at>>
  PROVE  \A r \in Readers : ReaderOK(r)'
  BY DEF TypeInv, ReaderOK

\* A step of one reader.
LEMMA OthersStay ==
  ASSUME TypeInv, NEW r \in Readers, ReaderOK(r)',
         \A p \in Readers \ {r} : rpc'[p] = rpc[p] /\ todo'[p] = todo[p] /\ at'[p] = at[p]
  PROVE  \A p \in Readers : ReaderOK(p)'
  BY DEF TypeInv, ReaderOK

-----------------------------------------------------------------------------
(* Types: the steps of the server.                                         *)

LEMMA PutType == ASSUME NEW size \in Sizes, TypeInv, Put(size) PROVE TypeInv'
  <1> DEFINE all == Append(held, cur')
  <1>1. size \in 1 .. ShmSize /\ size \in Nat /\ calls' \in 0 .. MaxCalls
    BY ShmReadersAssumption DEF Put, TypeInv, TypeOK
  <1>2. cur' \in Message /\ cur'.size = size
    BY <1>1 DEF Put, TypeInv, TypeOK, Message
  <1>3. all \in Seq(Message)
    BY <1>2, AppendProperties DEF TypeInv, TypeOK
  <1>4. PICK k \in 1 .. Len(all) : held' = SubSeq(all, k, Len(all))
    BY DEF Put
  <1>5. held' \in Seq(Message)
    <2>1. Len(all) \in k .. Len(all)
      BY <1>3, <1>4, LenProperties
    <2> HIDE DEF all
    <2>2. QED BY <1>3, <1>4, <2>1, Part
  <1>6. TypeOK'
    <2>1. pushed' \in Nat
      <3>1. pushed \in Nat /\ pushed' = pushed + size
        BY DEF Put, TypeInv, TypeOK
      <3>2. QED BY <1>1, <3>1
    <2>2. QED BY <1>1, <1>2, <1>5, <2>1
              DEF Put, TypeInv, TypeOK, Busy, Putting, store, names, pass, readerVars
  <1>7. resets' <= calls'
    <2>1. calls \in Int /\ resets \in Int /\ resets <= calls
      BY DEF TypeInv, TypeOK
    <2>2. calls' = calls + 1 /\ resets' = resets
      BY DEF Put
    <2>3. QED BY <2>1, <2>2
  <1>8. \A r \in Readers : ReaderOK(r)'
    BY ReadersStay DEF Put, readerVars, pass
  <1>9. QED BY <1>1, <1>2, <1>6, <1>7, <1>8 DEF TypeInv

LEMMA LockToCopyType == TypeInv /\ LockToCopy => TypeInv'
  <1> SUFFICES ASSUME TypeInv, LockToCopy PROVE TypeInv'
    OBVIOUS
  <1>1. owner' \in [Files -> Procs \union {Free, Empty}]
    BY DEF LockToCopy, TypeInv, TypeOK, Procs, Files
  <1>2. \A r \in Readers : ReaderOK(r)'
    BY ReadersStay DEF LockToCopy, readerVars, pass
  <1>3. TypeOK'
    BY <1>1 DEF LockToCopy, TypeInv, TypeOK, Busy, Putting, store, names, pass, readerVars, counts
  <1>4. QED BY <1>2, <1>3 DEF LockToCopy, TypeInv, Putting, counts

LEMMA CopyByteType == TypeInv /\ CopyByte => TypeInv'
  <1> SUFFICES ASSUME TypeInv, CopyByte PROVE TypeInv'
    OBVIOUS
  <1>1. cur.id \in Nat
    BY DEF TypeInv, TypeOK, Message, NoMessage
  <1>2. ring' \in [Cells -> Nat]
    <2>1. ring \in [Cells -> Nat] /\ ring' = [ring EXCEPT ![Cell(offset, copied)] = cur.id]
      BY DEF CopyByte, TypeInv, TypeOK
    <2>2. QED BY <1>1, <2>1, Zenon
  <1>3. copied' \in Nat
    BY DEF CopyByte, TypeInv, TypeOK
  <1>4. \A r \in Readers : ReaderOK(r)'
    BY ReadersStay DEF CopyByte, readerVars, pass
  <1>5. TypeOK'
    BY <1>2, <1>3 DEF CopyByte, TypeInv, TypeOK, names, pass, readerVars, counts
  <1>6. QED BY <1>4, <1>5 DEF CopyByte, TypeInv, counts

LEMMA UnlockAfterCopyType == TypeInv /\ UnlockAfterCopy => TypeInv'
  <1> SUFFICES ASSUME TypeInv, UnlockAfterCopy PROVE TypeInv'
    OBVIOUS
  <1>1. PICK k \in 1 .. Len(held) : held' = SubSeq(held, k, Len(held))
    BY DEF UnlockAfterCopy
  <1>2. held' \in Seq(Message)
    <2>1. held \in Seq(Message) /\ Len(held) \in k .. Len(held)
      BY LenProperties DEF TypeInv, TypeOK
    <2>2. QED BY <1>1, <2>1, Part
  <1>3. offset' \in 0 .. ShmSize
    BY SMTT(20), ShmReadersAssumption DEF UnlockAfterCopy, NextOffset, TypeInv, TypeOK, Putting
  <1>4. owner' \in [Files -> Procs \union {Free, Empty}]
    BY DEF UnlockAfterCopy, TypeInv, TypeOK
  <1>5. cur' \in Message \union {NoMessage}
    BY DEF UnlockAfterCopy
  <1>6. TypeOK'
    BY <1>2, <1>3, <1>4, <1>5
       DEF UnlockAfterCopy, TypeInv, TypeOK, Busy, Putting, store, names, pass, readerVars, counts
  <1>7. \A r \in Readers : ReaderOK(r)'
    BY ReadersStay DEF UnlockAfterCopy, readerVars, pass
  <1>8. QED BY <1>6, <1>7 DEF UnlockAfterCopy, TypeInv, Putting, counts

LEMMA ServerOpenType == TypeInv /\ ServerOpen => TypeInv'
  <1> SUFFICES ASSUME TypeInv, ServerOpen PROVE TypeInv'
    OBVIOUS
  <1>1. held' \in Seq(Message)
    <2>1. held \in Seq(Message) /\ held' \in {held, <<>>} /\ <<>> \in Seq(Message)
      BY DEF ServerOpen, TypeInv, TypeOK
    <2>2. QED BY <2>1
  <1>2. shown' \in Message
    <2>1. PICK i \in DOMAIN held : shown' = held[i]
      BY DEF ServerOpen
    <2>2. held \in Seq(Message)
      BY DEF TypeInv, TypeOK
    <2>3. QED BY <2>1, <2>2, ElementOfSeq, LenProperties
  <1>3. calls' \in 0 .. MaxCalls /\ resets' <= calls'
    BY ShmReadersAssumption DEF ServerOpen, TypeInv, TypeOK
  <1>4. TypeOK'
    BY <1>1, <1>2, <1>3
       DEF ServerOpen, TypeInv, TypeOK, Busy, Putting, store, names, pass, readerVars
  <1>5. \A r \in Readers : ReaderOK(r)'
    BY ReadersStay DEF ServerOpen, readerVars, pass
  <1>6. QED BY <1>3, <1>4, <1>5 DEF ServerOpen, TypeInv, Putting

LEMMA ServerReadType == TypeInv /\ (ServerLock \/ ServerUnlock \/ ServerFaults) => TypeInv'
  <1> SUFFICES ASSUME TypeInv, ServerLock \/ ServerUnlock \/ ServerFaults PROVE TypeInv'
    OBVIOUS
  <1>1. owner' \in [Files -> Procs \union {Free, Empty}]
    BY DEF ServerLock, ServerUnlock, ServerFaults, TypeInv, TypeOK, Procs, Files
  <1>2. /\ spc' \in {"look", "idle", "dead"} /\ shown' \in {shown, NoMessage}
        /\ UNCHANGED <<held, offset, cur, copied, made, store, names, readerVars, pushed, counts,
                       threw, reinit>>
    BY DEF ServerLock, ServerUnlock, ServerFaults
  <1>3. TypeOK'
    BY <1>1, <1>2 DEF TypeInv, TypeOK, Busy, store, names, pass, readerVars, counts
  <1>4. \A r \in Readers : ReaderOK(r)'
    BY <1>2, ReadersStay DEF readerVars, pass
  <1>5. QED BY <1>2, <1>3, <1>4 DEF TypeInv, Putting, counts

LEMMA ResetType == TypeInv /\ ResetStartTime => TypeInv'
  <1> SUFFICES ASSUME TypeInv, ResetStartTime PROVE TypeInv'
    OBVIOUS
  <1>1. held' \in Seq(Message) /\ offset' \in 0 .. ShmSize /\ calls' \in 0 .. MaxCalls
    BY ShmReadersAssumption DEF ResetStartTime, TypeInv, TypeOK
  <1>2. resets' \in 0 .. MaxCalls /\ resets' <= calls'
    <2>1. calls \in Int /\ resets \in Int /\ 0 <= resets /\ resets <= calls
      BY DEF TypeInv, TypeOK
    <2>2. calls' = calls + 1 /\ resets' = resets + 1
      BY DEF ResetStartTime
    <2>3. calls' <= MaxCalls
      BY <1>1
    <2>4. resets' \in Int /\ 0 <= resets' /\ resets' <= calls'
      BY <2>1, <2>2
    <2>5. calls' \in Int /\ MaxCalls \in Int
      BY <2>1, <2>2, ShmReadersAssumption
    <2>6. QED BY <2>3, <2>4, <2>5
  <1>3. \A r \in Readers : ReaderOK(r)'
    BY ReadersStay DEF ResetStartTime, readerVars, pass
  <1>4. TypeOK'
    BY <1>1, <1>2 DEF ResetStartTime, TypeInv, TypeOK, store, names, pass, readerVars
  <1>5. QED BY <1>2, <1>3, <1>4 DEF ResetStartTime, TypeInv, Putting

LEMMA AddAgainType == TypeInv /\ AddAgain => TypeInv'
  <1> SUFFICES ASSUME TypeInv, AddAgain PROVE TypeInv'
    OBVIOUS
  <1>1. calls' \in 0 .. MaxCalls /\ calls' + 1 \in Files /\ resets <= calls'
    BY ShmReadersAssumption DEF AddAgain, TypeInv, TypeOK, Files
  <1>2. dataName' \in Files /\ made' \in Files
    BY <1>1 DEF AddAgain, TypeInv, TypeOK
  <1>3. TypeOK'
    BY <1>1, <1>2
       DEF AddAgain, TypeInv, TypeOK, Busy, Putting, Adding, store, pass, readerVars
  <1>4. \A r \in Readers : ReaderOK(r)'
    BY ReadersStay DEF AddAgain, readerVars, pass
  <1>5. QED BY <1>1, <1>3, <1>4 DEF AddAgain, TypeInv, Putting

LEMMA SizeRingType == ASSUME NEW n \in AddSizes, TypeInv, SizeRing(n) PROVE TypeInv'
  <1>1. n \in Nat
    BY ShmReadersAssumption
  <1>2. length' \in [Files -> Nat]
    BY <1>1 DEF SizeRing, TypeInv, TypeOK
  <1>3. ring' \in [Cells -> Nat] /\ lost' \subseteq Nat
    <2>1. ring \in [Cells -> Nat] /\ lost \subseteq Nat /\ Cut(n) \subseteq Cells
      BY DEF TypeInv, TypeOK, Cut
    <2>2. CASE UNCHANGED <<ring, lost>>
      BY <2>1, <2>2
    <2>3. CASE /\ ring' = [c \in Cells |-> IF c \in Cut(n) THEN 0 ELSE ring[c]]
               /\ lost' = lost \union {ring[c] : c \in Cut(n)}
      <3>1. ring' \in [Cells -> Nat]
        BY <2>1, <2>3
      <3>2. \A c \in Cut(n) : ring[c] \in Nat
        BY <2>1
      <3>3. QED BY <2>1, <2>3, <3>1, <3>2
    <2>4. QED BY <2>2, <2>3 DEF SizeRing
  <1>4. TypeOK'
    BY <1>2, <1>3 DEF SizeRing, TypeInv, TypeOK, Busy, Adding, names, pass, readerVars, counts
  <1>5. \A r \in Readers : ReaderOK(r)'
    BY ReadersStay DEF SizeRing, readerVars, pass
  <1>6. QED BY <1>4, <1>5 DEF SizeRing, TypeInv, Putting, counts

LEMMA OpenMutexType == TypeInv /\ OpenMutex => TypeInv'
  <1> SUFFICES ASSUME TypeInv, OpenMutex PROVE TypeInv'
    OBVIOUS
  <1>1. calls + 1 \in Files
    BY ShmReadersAssumption DEF TypeInv, TypeOK, Files
  <1>2. mutexName' \in Files /\ made' \in Files
    BY <1>1 DEF OpenMutex, TypeInv, TypeOK
  <1>3. TypeOK'
    BY <1>2 DEF OpenMutex, TypeInv, TypeOK, Busy, Adding, store, pass, readerVars, counts
  <1>4. \A r \in Readers : ReaderOK(r)'
    BY ReadersStay DEF OpenMutex, readerVars, pass
  <1>5. QED BY <1>3, <1>4 DEF OpenMutex, TypeInv, Putting, counts

LEMMA MakeMutexType == TypeInv /\ (SizeMutex \/ InitMutex) => TypeInv'
  <1> SUFFICES ASSUME TypeInv, SizeMutex \/ InitMutex PROVE TypeInv'
    OBVIOUS
  <1>1. owner' \in [Files -> Procs \union {Free, Empty}]
    BY DEF SizeMutex, InitMutex, TypeInv, TypeOK
  <1>2. /\ spc' \in {"init", "idle"} /\ made' \in {made, 0} /\ reinit' \in BOOLEAN
        /\ UNCHANGED <<held, offset, cur, copied, shown, store, names, readerVars, pushed, counts,
                       threw>>
    BY DEF SizeMutex, InitMutex, TypeInv, TypeOK
  <1>3. TypeOK'
    BY <1>1, <1>2 DEF TypeInv, TypeOK, Busy, Adding, store, names, pass, readerVars, counts
  <1>4. \A r \in Readers : ReaderOK(r)'
    BY <1>2, ReadersStay DEF readerVars, pass
  <1>5. QED BY <1>2, <1>3, <1>4 DEF TypeInv, Putting, counts

LEMMA RemoveType == TypeInv /\ (DeleteData \/ DeleteMutex \/ ClearData \/ ClearMutex) => TypeInv'
  <1> SUFFICES ASSUME TypeInv, DeleteData \/ DeleteMutex \/ ClearData \/ ClearMutex PROVE TypeInv'
    OBVIOUS
  <1>1. /\ dataName' \in {dataName, 0} /\ mutexName' \in {mutexName, 0}
        /\ spc' \in {spc, "unlink", "gone"} /\ clears' \in 0 .. MaxClears
        /\ UNCHANGED <<held, offset, cur, copied, shown, made, store, owner, readerVars, pushed,
                       calls, resets, threw, reinit>>
    BY ShmReadersAssumption
       DEF DeleteData, DeleteMutex, ClearData, ClearMutex, serverVars, counts, TypeInv, TypeOK
  <1>2. TypeOK'
    BY <1>1 DEF TypeInv, TypeOK, Busy, store, pass, readerVars
  <1>3. \A r \in Readers : ReaderOK(r)'
    BY <1>1, ReadersStay DEF readerVars, pass
  <1>4. QED BY <1>1, <1>2, <1>3 DEF TypeInv, Putting

-----------------------------------------------------------------------------
(* Types: the steps of a reader.                                           *)

LEMMA FetchType == ASSUME NEW r \in Readers, TypeInv, Fetch(r) PROVE TypeInv'
  <1>1. held \in Seq(Message) /\ held # <<>> /\ Len(held) \in Nat /\ got \in [Readers -> Seq(Message)]
    BY LenProperties DEF Fetch, TypeInv, TypeOK
  <1>2. PICK q : q \in Seq(Message) /\ q # <<>> /\ got' = [got EXCEPT ![r] = q]
    <2>1. CASE got' = [got EXCEPT ![r] = held]
      BY <1>1, <2>1
    <2>2. ASSUME NEW n \in 1 .. Len(held), got' = [got EXCEPT ![r] = SubSeq(held, 1, n)]
          PROVE  \E q : q \in Seq(Message) /\ q # <<>> /\ got' = [got EXCEPT ![r] = q]
      <3>1. 1 \in 1 .. Len(held) /\ n \in 1 .. Len(held)
        BY <1>1
      <3>2. QED BY <1>1, <2>2, <3>1, Part
    <2>3. ASSUME NEW n \in 1 .. Len(held), got' = [got EXCEPT ![r] = SubSeq(held, n, Len(held))]
          PROVE  \E q : q \in Seq(Message) /\ q # <<>> /\ got' = [got EXCEPT ![r] = q]
      <3>1. Len(held) \in n .. Len(held)
        BY <1>1
      <3>2. QED BY <1>1, <2>3, <3>1, Part
    <2>4. QED BY <2>1, <2>2, <2>3 DEF Fetch
  <1>3. got' \in [Readers -> Seq(Message)] /\ got'[r] = q
    BY <1>1, <1>2
  <1>4. todo' = [todo EXCEPT ![r] = q]
    BY <1>3 DEF Fetch
  <1>5. todo' \in [Readers -> Seq(Message)]
    BY <1>2, <1>4 DEF TypeInv, TypeOK
  <1>6. /\ held' \in Seq(Message)
        /\ reads' \in [Readers -> Nat]
        /\ rpc' \in [Readers -> {"idle", "open", "lock", "map", "read", "unlock", "dead"}]
    <2>1. (held' = held \/ held' = <<>>) /\ <<>> \in Seq(Message)
      BY DEF Fetch
    <2>2. held' \in Seq(Message)
      BY <1>1, <2>1
    <2>3. QED BY <2>2 DEF Fetch, TypeInv, TypeOK
  <1>7. TypeOK'
    BY <1>3, <1>5, <1>6 DEF Fetch, TypeInv, TypeOK, store, names, pass, counts
  <1>8. ReaderOK(r)'
    BY <1>2, <1>4 DEF Fetch, TypeInv, TypeOK, ReaderOK, pass
  <1>9. \A p \in Readers \ {r} : rpc'[p] = rpc[p] /\ todo'[p] = todo[p] /\ at'[p] = at[p]
    BY <1>4 DEF Fetch, TypeInv, TypeOK, pass
  <1>10. \A p \in Readers : ReaderOK(p)'
    BY <1>8, <1>9, OthersStay
  <1>11. QED BY <1>7, <1>10 DEF Fetch, TypeInv, counts

LEMMA RereadType == ASSUME NEW r \in Readers, TypeInv, Reread(r) PROVE TypeInv'
  <1>1. /\ todo' \in [Readers -> Seq(Message)]
        /\ reads' \in [Readers -> Nat]
        /\ rpc' \in [Readers -> {"idle", "open", "lock", "map", "read", "unlock", "dead"}]
    BY DEF Reread, TypeInv, TypeOK
  <1>2. TypeOK'
    BY <1>1 DEF Reread, TypeInv, TypeOK, serverVars, store, names, pass, counts
  <1>3. ReaderOK(r)'
    BY DEF Reread, TypeInv, TypeOK, ReaderOK, pass
  <1>4. \A p \in Readers \ {r} : rpc'[p] = rpc[p] /\ todo'[p] = todo[p] /\ at'[p] = at[p]
    BY DEF Reread, TypeInv, TypeOK, pass
  <1>5. \A p \in Readers : ReaderOK(p)'
    BY <1>3, <1>4, OthersStay
  <1>6. QED BY <1>2, <1>5 DEF Reread, TypeInv, serverVars, counts

LEMMA ForgetType == ASSUME NEW r \in Readers, TypeInv, Forget(r) PROVE TypeInv'
  <1>1. <<>> \in Seq(Message)
    OBVIOUS
  <1>2. got' \in [Readers -> Seq(Message)]
    BY <1>1 DEF Forget, TypeInv, TypeOK
  <1>3. TypeOK'
    BY <1>2 DEF Forget, TypeInv, TypeOK, serverVars, store, names, pass, counts
  <1>4. \A p \in Readers : ReaderOK(p)'
    BY ReadersStay DEF Forget, pass
  <1>5. QED BY <1>3, <1>4 DEF Forget, TypeInv, serverVars, counts

LEMMA OpenType == ASSUME NEW r \in Readers, TypeInv, Open(r) PROVE TypeInv'
  <1>1. /\ todo' \in [Readers -> Seq(Message)]
        /\ file' \in [Readers -> Files]
        /\ rpc' \in [Readers -> {"idle", "open", "lock", "map", "read", "unlock", "dead"}]
    BY DEF Open, TypeInv, TypeOK
  <1>2. TypeOK'
    BY <1>1 DEF Open, TypeInv, TypeOK, serverVars, store, names, pass, counts
  <1>3. ReaderOK(r)'
    BY DEF Open, TypeInv, TypeOK, ReaderOK, pass
  <1>4. \A p \in Readers \ {r} : rpc'[p] = rpc[p] /\ todo'[p] = todo[p] /\ at'[p] = at[p]
    BY DEF Open, TypeInv, TypeOK, pass
  <1>5. \A p \in Readers : ReaderOK(p)'
    BY <1>3, <1>4, OthersStay
  <1>6. QED BY <1>2, <1>5 DEF Open, TypeInv, serverVars, counts

LEMMA LockType == ASSUME NEW r \in Readers, TypeInv, Lock(r) PROVE TypeInv'
  <1>1. /\ owner' \in [Files -> Procs \union {Free, Empty}]
        /\ rpc' \in [Readers -> {"idle", "open", "lock", "map", "read", "unlock", "dead"}]
    BY DEF Lock, TypeInv, TypeOK, Procs
  <1>2. TypeOK'
    BY <1>1 DEF Lock, TypeInv, TypeOK, serverVars, store, names, pass, counts
  <1>3. ReaderOK(r)'
    BY DEF Lock, TypeInv, TypeOK, ReaderOK, pass
  <1>4. \A p \in Readers \ {r} : rpc'[p] = rpc[p] /\ todo'[p] = todo[p] /\ at'[p] = at[p]
    BY DEF Lock, TypeInv, TypeOK, pass
  <1>5. \A p \in Readers : ReaderOK(p)'
    BY <1>3, <1>4, OthersStay
  <1>6. QED BY <1>2, <1>5 DEF Lock, TypeInv, serverVars, counts

\* The message that a reader in a call is at.
LEMMA HeadType ==
  ASSUME NEW r \in Readers, TypeInv, rpc[r] \in {"open", "lock", "map", "read", "unlock"}
  PROVE  /\ todo[r] \in Seq(Message) /\ todo[r] # <<>> /\ Head(todo[r]) \in Message
         /\ Head(todo[r]).size \in 1 .. ShmSize /\ Head(todo[r]).start \in 0 .. ShmSize
  <1>1. todo[r] \in Seq(Message) /\ todo[r] # <<>>
    BY DEF TypeInv, TypeOK, ReaderOK
  <1>2. Head(todo[r]) \in Message
    BY <1>1
  <1>3. QED BY <1>1, <1>2 DEF Message

LEMMA MapType == ASSUME NEW r \in Readers, TypeInv, Map(r) PROVE TypeInv'
  <1>1. /\ rpc' \in [Readers -> {"idle", "open", "lock", "map", "read", "unlock", "dead"}]
        /\ mapped' \in [Readers -> Files \union {0}]
    BY DEF Map, TypeInv, TypeOK
  <1>2. TypeOK'
    BY <1>1 DEF Map, TypeInv, TypeOK, serverVars, store, names, counts
  <1>3. Head(todo[r]).size \in 1 .. ShmSize /\ at[r] = 0 /\ todo[r] # <<>>
    BY HeadType DEF Map, TypeInv, ReaderOK
  <1>4. ReaderOK(r)'
    BY <1>3, ShmReadersAssumption DEF Map, TypeInv, TypeOK, ReaderOK
  <1>5. \A p \in Readers \ {r} : rpc'[p] = rpc[p] /\ todo'[p] = todo[p] /\ at'[p] = at[p]
    BY DEF Map, TypeInv, TypeOK
  <1>6. \A p \in Readers : ReaderOK(p)'
    BY <1>4, <1>5, OthersStay
  <1>7. QED BY <1>2, <1>6 DEF Map, TypeInv, serverVars, counts

LEMMA ReadByteType == ASSUME NEW r \in Readers, TypeInv, ReadByte(r) PROVE TypeInv'
  <1>1. /\ Head(todo[r]).size \in 1 .. ShmSize /\ Head(todo[r]).start \in 0 .. ShmSize
        /\ todo[r] # <<>> /\ at[r] \in Nat /\ at[r] < Head(todo[r]).size
    BY HeadType DEF ReadByte, TypeInv, TypeOK, ReaderOK
  <1>2. NextCell(r) \in Cells
    <2>1. PICK m \in Message : m = Head(todo[r])
      BY HeadType DEF ReadByte
    <2>2. PICK i \in Nat : i = at[r] /\ i < ShmSize
      BY <1>1, ShmReadersAssumption
    <2>3. m.start \in 0 .. ShmSize /\ ShmSize \in Nat
      BY ShmReadersAssumption DEF Message
    <2>4. Cell(m.start, i) \in Cells
      BY <2>2, <2>3 DEF Cell, Cells
    <2>5. QED BY <2>1, <2>2, <2>4 DEF NextCell
  <1>3. Byte(mapped[r], NextCell(r)) \in Nat
    BY <1>2 DEF Byte, TypeInv, TypeOK
  <1>4. /\ rpc' \in [Readers -> {"idle", "open", "lock", "map", "read", "unlock", "dead"}]
        /\ at' = [at EXCEPT ![r] = at[r] + 1] /\ at' \in [Readers -> Nat]
    BY DEF ReadByte, TypeInv, TypeOK
  <1>5. seen' \in [Readers -> SUBSET Nat]
    BY <1>3 DEF ReadByte, TypeInv, TypeOK
  <1>6. TypeOK'
    BY <1>4, <1>5 DEF ReadByte, TypeInv, TypeOK, serverVars, store, names, counts
  <1>7. ReaderOK(r)'
    <2>1. at'[r] = at[r] + 1 /\ todo'[r] = todo[r]
      BY <1>4 DEF ReadByte, TypeInv, TypeOK
    <2>2. rpc'[r] = IF at[r] + 1 = Head(todo[r]).size THEN "unlock" ELSE "read"
      BY <2>1 DEF ReadByte, TypeInv, TypeOK
    <2>3. QED BY <1>1, <2>1, <2>2 DEF ReaderOK
  <1>8. \A p \in Readers \ {r} : rpc'[p] = rpc[p] /\ todo'[p] = todo[p] /\ at'[p] = at[p]
    BY <1>4 DEF ReadByte, TypeInv, TypeOK
  <1>9. \A p \in Readers : ReaderOK(p)'
    BY <1>7, <1>8, OthersStay
  <1>10. QED BY <1>6, <1>9 DEF ReadByte, TypeInv, serverVars, counts

LEMMA ReadThrowsType == ASSUME NEW r \in Readers, TypeInv, ReadThrows(r) PROVE TypeInv'
  <1>1. /\ todo' \in [Readers -> Seq(Message)]
        /\ rpc' \in [Readers -> {"idle", "open", "lock", "map", "read", "unlock", "dead"}]
        /\ threw' \subseteq Readers
    BY DEF ReadThrows, TypeInv, TypeOK
  <1>2. TypeOK'
    BY <1>1 DEF ReadThrows, TypeInv, TypeOK, serverVars, store, names, pass, counts
  <1>3. ReaderOK(r)'
    BY DEF ReadThrows, TypeInv, TypeOK, ReaderOK, pass
  <1>4. \A p \in Readers \ {r} : rpc'[p] = rpc[p] /\ todo'[p] = todo[p] /\ at'[p] = at[p]
    BY DEF ReadThrows, TypeInv, TypeOK, pass
  <1>5. \A p \in Readers : ReaderOK(p)'
    BY <1>3, <1>4, OthersStay
  <1>6. QED BY <1>2, <1>5 DEF ReadThrows, TypeInv, serverVars, counts

LEMMA UnlockType == ASSUME NEW r \in Readers, TypeInv, Unlock(r) PROVE TypeInv'
  <1>1. todo[r] \in Seq(Message) /\ todo[r] # <<>> /\ todo \in [Readers -> Seq(Message)]
    BY HeadType DEF Unlock, TypeInv, TypeOK
  <1>2. Tail(todo[r]) \in Seq(Message) /\ Len(Tail(todo[r])) = Len(todo[r]) - 1
    BY <1>1, HeadTailProperties
  <1>3. Len(todo[r]) # 1 => Tail(todo[r]) # <<>>
    <2>1. Len(todo[r]) \in Nat /\ Len(todo[r]) # 0
      BY <1>1, LenProperties, EmptySeq
    <2>2. Len(todo[r]) # 1 => Len(Tail(todo[r])) # 0
      BY <1>2, <2>1
    <2>3. QED BY <2>2
  <1>4. todo' = [todo EXCEPT ![r] = Tail(todo[r])] /\ at' = [at EXCEPT ![r] = 0]
    BY DEF Unlock
  <1>5. /\ todo' \in [Readers -> Seq(Message)]
        /\ owner' \in [Files -> Procs \union {Free, Empty}]
        /\ rpc' \in [Readers -> {"idle", "open", "lock", "map", "read", "unlock", "dead"}]
        /\ mapped' \in [Readers -> Files \union {0}]
        /\ at' \in [Readers -> Nat] /\ seen' \in [Readers -> SUBSET Nat]
    BY <1>1, <1>2, <1>4 DEF Unlock, TypeInv, TypeOK
  <1>6. TypeOK'
    BY <1>5 DEF Unlock, TypeInv, TypeOK, serverVars, store, names, counts
  <1>7. ReaderOK(r)'
    BY <1>1, <1>3, <1>4 DEF Unlock, TypeInv, TypeOK, ReaderOK
  <1>8. \A p \in Readers \ {r} : rpc'[p] = rpc[p] /\ todo'[p] = todo[p] /\ at'[p] = at[p]
    BY <1>4 DEF Unlock, TypeInv, TypeOK
  <1>9. \A p \in Readers : ReaderOK(p)'
    BY <1>7, <1>8, OthersStay
  <1>10. QED BY <1>6, <1>9 DEF Unlock, TypeInv, serverVars, counts

LEMMA FaultType == ASSUME NEW r \in Readers, TypeInv, ReaderFaults(r) PROVE TypeInv'
  <1>1. rpc' \in [Readers -> {"idle", "open", "lock", "map", "read", "unlock", "dead"}]
    BY DEF ReaderFaults, TypeInv, TypeOK
  <1>2. TypeOK'
    BY <1>1 DEF ReaderFaults, TypeInv, TypeOK, serverVars, store, names, pass, counts
  <1>3. \A p \in Readers : ReaderOK(p)'
    BY DEF ReaderFaults, TypeInv, TypeOK, ReaderOK, pass
  <1>4. QED BY <1>2, <1>3 DEF ReaderFaults, TypeInv, serverVars, counts

LEMMA DieType == ASSUME NEW p \in Procs, TypeInv, Die(p) PROVE TypeInv'
  <1>1. rpc' \in [Readers -> {"idle", "open", "lock", "map", "read", "unlock", "dead"}]
    BY DEF Die, TypeInv, TypeOK
  <1>2. spc' \in {spc, "dead"}
    BY DEF Die
  <1>3. TypeOK'
    BY <1>1, <1>2 DEF Die, TypeInv, TypeOK, store, names, pass, counts
  <1>4. \A r \in Readers : ReaderOK(r)'
    BY DEF Die, TypeInv, TypeOK, ReaderOK, pass
  <1>5. QED BY <1>2, <1>3, <1>4 DEF Die, TypeInv, Putting, counts

LEMMA TypeStep == TypeInv /\ [Next]_vars => TypeInv'
  <1> SUFFICES ASSUME TypeInv, [Next]_vars PROVE TypeInv'
    OBVIOUS
  <1>1. CASE UNCHANGED vars
    <2>1. \A r \in Readers : ReaderOK(r)'
      BY <1>1, ReadersStay DEF vars, readerVars, pass
    <2>2. TypeOK'
      BY <1>1 DEF TypeInv, TypeOK, vars, serverVars, store, names, pass, readerVars, counts
    <2>3. QED BY <1>1, <2>1, <2>2 DEF TypeInv, vars, serverVars, counts
  <1>2. CASE Next
    BY <1>2, PutType, LockToCopyType, CopyByteType, UnlockAfterCopyType, ServerOpenType,
       ServerReadType, ResetType, AddAgainType, SizeRingType, OpenMutexType, MakeMutexType,
       RemoveType, FetchType, RereadType, ForgetType, OpenType, LockType, MapType, ReadByteType,
       ReadThrowsType, UnlockType, FaultType, DieType DEF Next, ServerStep, ReaderStep
  <1>3. QED BY <1>1, <1>2

(* The types hold in every reachable state: in particular the write offset *)
(* stays in the ring, or exactly at its end.                               *)
THEOREM ReadersTypes == Spec => []TypeOK
  <1>1. TypeInv => TypeOK
    BY DEF TypeInv
  <1>2. QED BY <1>1, TypeInit, TypeStep, PTL DEF Spec

-----------------------------------------------------------------------------
(* The locks.                                                              *)

\* Excluded, with the server and the readers apart.
Kept ==
    ~reinit =>
        /\ spc \in {"copy", "look"} => owner[1] = "server"
        /\ \A r \in Readers : rpc[r] \in {"map", "read", "unlock"} => owner[file[r]] = r

\* LeftLocked, with the server and the readers apart.
Left ==
    /\ \A f \in Files :
        /\ owner[f] = "server" => (f = 1 /\ spc \in {"copy", "look"}) \/ spc = "dead"
        /\ \A r \in Readers : owner[f] = r =>
              (file[r] = f /\ rpc[r] \in {"map", "read", "unlock"}) \/ rpc[r] = "dead" \/ r \in threw
    /\ threw # {} => dataName # 1

LockInv == Kept /\ Left

LEMMA LockInit == Init => LockInv
  <1> SUFFICES ASSUME Init PROVE LockInv
    OBVIOUS
  <1>1. spc = "idle" /\ threw = {} /\ \A f \in Files : owner[f] \in {Free, Empty}
    BY DEF Init
  <1>2. \A r \in Readers : rpc[r] = "idle"
    BY DEF Init
  <1>3. QED BY <1>1, <1>2, ShmReadersAssumption DEF LockInv, Kept, Left, Procs

\* A step that touches no lock, and moves neither the server into or out of
\* the mutex nor any reader.
LEMMA LocksElsewhere ==
  ASSUME LockInv, UNCHANGED <<owner, rpc, file, threw, reinit>>,
         spc' \in {"copy", "look"} <=> spc \in {"copy", "look"},
         spc = "dead" => spc' = "dead",
         dataName' = 1 => dataName = 1
  PROVE  LockInv'
  BY DEF LockInv, Kept, Left

LEMMA ServerLocks ==
  ASSUME TypeInv, LockInv, owner[1] = Free, owner' = [owner EXCEPT ![1] = "server"],
         spc' \in {"copy", "look"}, spc # "dead",
         UNCHANGED <<rpc, file, threw, reinit, dataName>>
  PROVE  LockInv'
  <1>1. owner \in [Files -> Procs \union {Free, Empty}] /\ 1 \in Files
    BY ShmReadersAssumption DEF TypeInv, TypeOK, Files
  <1>2. Free \notin Readers /\ "server" \notin Readers /\ file \in [Readers -> Files]
    BY ShmReadersAssumption DEF Procs, TypeInv, TypeOK
  <1>3. Kept'
    BY <1>1, <1>2 DEF LockInv, Kept
  <1>4. Left'
    BY <1>1, <1>2 DEF LockInv, Left
  <1>5. QED BY <1>3, <1>4 DEF LockInv

LEMMA ServerUnlocks ==
  ASSUME TypeInv, LockInv, spc \in {"copy", "look"}, owner' = [owner EXCEPT ![1] = Free],
         spc' = "idle", UNCHANGED <<rpc, file, threw, reinit, dataName>>
  PROVE  LockInv'
  <1>1. owner \in [Files -> Procs \union {Free, Empty}] /\ 1 \in Files
    BY ShmReadersAssumption DEF TypeInv, TypeOK, Files
  <1>2. /\ Free \notin Readers /\ Free # "server" /\ "server" \notin Readers
        /\ file \in [Readers -> Files]
    BY ShmReadersAssumption DEF Procs, TypeInv, TypeOK
  <1>3. Kept'
    BY <1>1, <1>2 DEF LockInv, Kept
  <1>4. Left'
    BY <1>1, <1>2 DEF LockInv, Left
  <1>5. QED BY <1>3, <1>4 DEF LockInv

\* A file becomes a mutex, or is initialised as one.
LEMMA MakeMutexLock == TypeInv /\ LockInv /\ (SizeMutex \/ InitMutex) => LockInv'
  <1> SUFFICES ASSUME TypeInv, LockInv, SizeMutex \/ InitMutex PROVE LockInv'
    OBVIOUS
  <1>1. /\ owner \in [Files -> Procs \union {Free, Empty}]
        /\ UNCHANGED <<rpc, file, threw, dataName>>
        /\ spc \in {"extend", "init"} /\ spc' \in {"init", "idle"}
    BY DEF SizeMutex, InitMutex, TypeInv, TypeOK, names, readerVars
  <1>2. /\ Free \notin Readers /\ Free # "server" /\ Empty \notin Readers /\ Empty # "server"
        /\ file \in [Readers -> Files]
    BY ShmReadersAssumption DEF Procs, TypeInv, TypeOK
  <1>3. \A f \in Files : owner'[f] = owner[f] \/ owner'[f] = Free
    BY <1>1 DEF SizeMutex, InitMutex
  <1>4. ~reinit' => ~reinit /\ \A f \in Files : owner[f] \in Procs => owner'[f] = owner[f]
    <2>1. CASE SizeMutex
      BY <1>1, <2>1, ShmReadersAssumption DEF SizeMutex
    <2>2. CASE InitMutex
      BY <1>1, <2>2, ShmReadersAssumption DEF InitMutex
    <2>3. QED BY <2>1, <2>2
  <1>5. Kept'
    BY <1>1, <1>2, <1>4 DEF LockInv, Kept, Procs
  <1>6. Left'
    BY <1>1, <1>2, <1>3 DEF LockInv, Left
  <1>7. QED BY <1>5, <1>6 DEF LockInv

LEMMA AddLock ==
  TypeInv /\ LockInv /\ (AddAgain \/ (\E n \in AddSizes : SizeRing(n)) \/ OpenMutex) => LockInv'
  <1>1. TypeInv /\ LockInv /\ AddAgain => LockInv'
    <2> SUFFICES ASSUME TypeInv, LockInv, AddAgain PROVE LockInv'
      OBVIOUS
    <2>1. dataName' = 1 => dataName = 1
      BY DEF AddAgain, TypeInv, TypeOK
    <2>2. QED BY <2>1, LocksElsewhere DEF AddAgain, readerVars
  <1>2. TypeInv /\ LockInv /\ (\E n \in AddSizes : SizeRing(n)) => LockInv'
    BY LocksElsewhere DEF SizeRing, readerVars, names
  <1>3. TypeInv /\ LockInv /\ OpenMutex => LockInv'
    BY LocksElsewhere DEF OpenMutex, readerVars
  <1>4. QED BY <1>1, <1>2, <1>3

LEMMA ServerStepLock == TypeInv /\ LockInv /\ (ServerStep \/ ServerOpen) => LockInv'
  <1>1. TypeInv /\ LockInv /\ (LockToCopy \/ ServerLock) => LockInv'
    BY ServerLocks DEF LockToCopy, ServerLock, names, readerVars
  <1>2. TypeInv /\ LockInv /\ (UnlockAfterCopy \/ ServerUnlock) => LockInv'
    BY ServerUnlocks DEF UnlockAfterCopy, ServerUnlock, names, readerVars
  <1>3. LockInv /\ (CopyByte \/ DeleteMutex \/ ServerOpen) => LockInv'
    BY LocksElsewhere DEF CopyByte, DeleteMutex, ServerOpen, names, readerVars
  <1>4. LockInv /\ ServerFaults => LockInv'
    BY DEF ServerFaults, LockInv, Kept, Left, names, readerVars
  <1>5. QED BY <1>1, <1>2, <1>3, <1>4, AddLock, MakeMutexLock DEF ServerStep

LEMMA OtherLock ==
  LockInv /\ ((\E size \in Sizes : Put(size)) \/ ResetStartTime \/ DeleteData \/ ClearData
              \/ ClearMutex) => LockInv'
  BY LocksElsewhere
     DEF Put, ResetStartTime, DeleteData, ClearData, ClearMutex, names, serverVars, readerVars

\* A reader that is not inside, before or after.
LEMMA ReaderElsewhere ==
  ASSUME NEW r \in Readers, TypeInv, LockInv, UNCHANGED <<owner, spc, threw, reinit, dataName>>,
         rpc[r] \notin {"map", "read", "unlock", "dead"},
         NEW pc \in {"idle", "open", "lock"}, rpc' = [rpc EXCEPT ![r] = pc],
         \A p \in Readers \ {r} : file'[p] = file[p]
  PROVE  LockInv'
  <1>1. \A p \in Readers \ {r} : rpc'[p] = rpc[p]
    BY DEF TypeInv, TypeOK
  <1>2. rpc'[r] \notin {"map", "read", "unlock", "dead"}
    BY DEF TypeInv, TypeOK
  <1>3. Kept'
    BY <1>1, <1>2 DEF LockInv, Kept
  <1>4. Left'
    BY <1>1, <1>2 DEF LockInv, Left
  <1>5. QED BY <1>3, <1>4 DEF LockInv

LEMMA ReaderOutsideLock ==
  ASSUME NEW r \in Readers, TypeInv, LockInv, Fetch(r) \/ Reread(r) \/ Open(r)
  PROVE  LockInv'
  <1>1. CASE Fetch(r)
    BY <1>1, ReaderElsewhere DEF Fetch, names
  <1>2. CASE Reread(r)
    BY <1>2, ReaderElsewhere DEF Reread, store, names, pass, serverVars
  <1>3. CASE Open(r)
    <2>1. \A p \in Readers \ {r} : file'[p] = file[p]
      BY <1>3 DEF Open, TypeInv, TypeOK
    <2>2. PICK pc \in {"idle", "lock"} : rpc' = [rpc EXCEPT ![r] = pc]
      BY <1>3 DEF Open
    <2>3. QED BY <1>3, <2>1, <2>2, ReaderElsewhere DEF Open, store, names, pass, serverVars
  <1>4. QED BY <1>1, <1>2, <1>3

LEMMA ForgetLock == ASSUME NEW r \in Readers, LockInv, Forget(r) PROVE LockInv'
  BY LocksElsewhere DEF Forget, store, names, pass, serverVars

LEMMA LockLock == ASSUME NEW r \in Readers, TypeInv, LockInv, Lock(r) PROVE LockInv'
  <1>1. /\ owner \in [Files -> Procs \union {Free, Empty}] /\ file \in [Readers -> Files]
        /\ Free \notin Readers /\ Free # "server" /\ "server" \notin Readers
    BY ShmReadersAssumption DEF TypeInv, TypeOK, Procs
  <1>2. /\ owner[file[r]] = Free /\ owner' = [owner EXCEPT ![file[r]] = r]
        /\ rpc[r] = "lock" /\ rpc'[r] = "map" /\ \A p \in Readers \ {r} : rpc'[p] = rpc[p]
        /\ UNCHANGED <<spc, file, threw, reinit, dataName>>
    BY DEF Lock, TypeInv, TypeOK, serverVars, store, names, pass
  <1>3. Kept'
    BY <1>1, <1>2 DEF LockInv, Kept, Files
  <1>4. \A f \in Files : owner'[f] = IF f = file[r] THEN r ELSE owner[f]
    <2>1. owner \in [Files -> Procs \union {Free, Empty}]
      BY <1>1
    <2>2. owner' = [owner EXCEPT ![file[r]] = r]
      BY <1>2
    <2>3. QED BY <2>1, <2>2, Zenon
  <1>5. Left'
    BY <1>1, <1>2, <1>4 DEF LockInv, Left
  <1>6. QED BY <1>3, <1>5 DEF LockInv

\* A reader that stays inside.
LEMMA ReadLock == ASSUME NEW r \in Readers, TypeInv, LockInv, Map(r) \/ ReadByte(r) PROVE LockInv'
  <1>1. /\ rpc[r] \in {"map", "read", "unlock"} /\ rpc'[r] \in {"map", "read", "unlock"}
        /\ \A p \in Readers \ {r} : rpc'[p] = rpc[p]
        /\ UNCHANGED <<owner, spc, file, threw, reinit, dataName>>
    BY DEF Map, ReadByte, TypeInv, TypeOK, serverVars, names
  <1>2. Kept'
    BY <1>1 DEF LockInv, Kept
  <1>3. Left'
    BY <1>1 DEF LockInv, Left
  <1>4. QED BY <1>2, <1>3 DEF LockInv

LEMMA ReadThrowsLock == ASSUME NEW r \in Readers, TypeInv, LockInv, ReadThrows(r) PROVE LockInv'
  <1>1. /\ rpc'[r] = "idle" /\ \A p \in Readers \ {r} : rpc'[p] = rpc[p]
        /\ threw' = threw \union {r} /\ dataName' = 0
        /\ UNCHANGED <<owner, spc, file, reinit>>
    BY DEF ReadThrows, TypeInv, TypeOK, serverVars, store, names, pass
  <1>2. Kept'
    BY <1>1 DEF LockInv, Kept
  <1>3. Left'
    BY <1>1 DEF LockInv, Left
  <1>4. QED BY <1>2, <1>3 DEF LockInv

LEMMA UnlockLock == ASSUME NEW r \in Readers, TypeInv, LockInv, Unlock(r) PROVE LockInv'
  <1>1. /\ owner \in [Files -> Procs \union {Free, Empty}] /\ file \in [Readers -> Files]
        /\ Free \notin Readers /\ Free # "server" /\ "server" \notin Readers
    BY ShmReadersAssumption DEF TypeInv, TypeOK, Procs
  <1>2. /\ rpc[r] = "unlock" /\ owner' = [owner EXCEPT ![file[r]] = Free]
        /\ rpc'[r] \in {"idle", "open"} /\ \A p \in Readers \ {r} : rpc'[p] = rpc[p]
        /\ UNCHANGED <<spc, file, threw, reinit, dataName>>
    BY DEF Unlock, TypeInv, TypeOK, serverVars, store, names, pass
  <1>3. Kept'
    BY <1>1, <1>2 DEF LockInv, Kept, Files
  <1>4. Left'
    BY <1>1, <1>2 DEF LockInv, Left
  <1>5. QED BY <1>3, <1>4 DEF LockInv

\* The end of a process.
LEMMA DeadLock ==
  ASSUME NEW r \in Readers, TypeInv, LockInv, rpc' = [rpc EXCEPT ![r] = "dead"],
         UNCHANGED <<owner, spc, file, threw, reinit, dataName>>
  PROVE  LockInv'
  <1>1. rpc'[r] = "dead" /\ \A q \in Readers \ {r} : rpc'[q] = rpc[q]
    BY DEF TypeInv, TypeOK
  <1>2. Kept'
    BY <1>1 DEF LockInv, Kept
  <1>3. Left'
    BY <1>1 DEF LockInv, Left
  <1>4. QED BY <1>2, <1>3 DEF LockInv

LEMMA FaultLock == ASSUME NEW r \in Readers, TypeInv, LockInv, ReaderFaults(r) PROVE LockInv'
  BY DeadLock DEF ReaderFaults, serverVars, names

LEMMA DieLock == ASSUME NEW p \in Procs, TypeInv, LockInv, Die(p) PROVE LockInv'
  <1>1. UNCHANGED <<owner, file, threw, reinit, dataName>>
    BY DEF Die, names
  <1>2. CASE p = "server"
    BY <1>1, <1>2 DEF Die, LockInv, Kept, Left
  <1>3. CASE p # "server"
    <2>1. p \in Readers /\ spc' = spc /\ rpc' = [rpc EXCEPT ![p] = "dead"]
      BY <1>3 DEF Die, Procs
    <2>2. QED BY <1>1, <2>1, DeadLock
  <1>4. QED BY <1>2, <1>3

LEMMA LockStep == TypeInv /\ LockInv /\ [Next]_vars => LockInv'
  <1> SUFFICES ASSUME TypeInv, LockInv, [Next]_vars PROVE LockInv'
    OBVIOUS
  <1>1. CASE UNCHANGED vars
    BY <1>1 DEF LockInv, Kept, Left, vars, serverVars, names, readerVars
  <1>2. CASE Next
    BY <1>2, ServerStepLock, AddLock, OtherLock, ReaderOutsideLock, ForgetLock, LockLock,
       ReadLock, ReadThrowsLock, UnlockLock, FaultLock, DieLock DEF Next, ReaderStep
  <1>3. QED BY <1>1, <1>2

LEMMA LockInvHolds == Spec => [](TypeInv /\ LockInv)
  BY TypeInit, TypeStep, LockInit, LockStep, PTL DEF Spec

(* Who is between lock and unlock has locked the mutex it went in by, as   *)
(* long as no mutex was initialised while it was locked: two that went in  *)
(* by the same file are never inside together.                             *)
THEOREM ReadersExcluded == Spec => []Excluded
  <1>1. TypeInv /\ LockInv => Excluded
    BY DEF TypeInv, TypeOK, LockInv, Kept, Excluded, Inside, Procs
  <1>2. QED BY <1>1, LockInvHolds, PTL

(* A mutex is left locked only by a process that was killed, or by a       *)
(* reader whose exception flew past the unlock after the ring was removed. *)
THEOREM ReadersLeftLocked == Spec => []LeftLocked
  <1>1. ASSUME TypeInv, LockInv PROVE LeftLocked
    <2>1. ASSUME NEW f \in Files, owner[f] \in Procs
          PROVE  Inside(owner[f], f) \/ Dead(owner[f]) \/ owner[f] \in threw
      <3>1. owner[f] = "server" \/ owner[f] \in Readers
        BY <1>1, <2>1 DEF TypeInv, TypeOK, Procs
      <3>2. CASE owner[f] = "server"
        BY <1>1, <3>2 DEF LockInv, Left, Inside, Dead
      <3>3. CASE owner[f] \in Readers
        BY <1>1, <3>3, ShmReadersAssumption DEF LockInv, Left, Inside, Dead
      <3>4. QED BY <3>1, <3>2, <3>3
    <2>2. QED BY <1>1, <2>1 DEF LockInv, Left, LeftLocked
  <1>2. QED BY <1>1, LockInvHolds, PTL

-----------------------------------------------------------------------------
(* What is read.                                                           *)

\* The bytes put before the message that is being put.
Before == pushed - cur.size

Whole(m) == \A k \in 0 .. m.size - 1 : ring[Cell(m.start, k)] = m.id

\* A message that was put: its place is as far behind the write offset as
\* bytes were put since it, around the ring, and until they come round to its
\* first byte all of it is there, unless a byte was cut off.
Stream(m) ==
    /\ m.size \in 1 .. ShmSize
    /\ m.age <= resets
    /\ m.pos + m.size <= Before
    /\ m.age = resets /\ Before - m.pos <= ShmSize =>
         offset \in {m.start + (Before - m.pos), m.start + (Before - m.pos) - ShmSize}
    /\ m.age = resets /\ Before + copied - m.pos <= ShmSize => Whole(m) \/ m.id \in lost

\* The message that is being put.  A server that was killed leaves it there.
CurInv ==
    /\ spc \notin Putting \union {"dead"} => cur = NoMessage /\ copied = 0
    /\ spc = "push" => copied = 0
    /\ copied <= cur.size /\ cur.size <= pushed
    /\ spc \in Putting => /\ cur.start = offset /\ cur.pos = Before /\ cur.age = resets
                          /\ \A k \in 0 .. copied - 1 : ring[Cell(offset, k)] = cur.id

\* What the topic holds was put in this order, and the ring has not come round
\* to any of it.
HeldInv ==
    /\ \A i \in DOMAIN held : /\ held[i].age = resets
                              /\ pushed - held[i].pos <= ShmSize
                              /\ held[i].size > 0
                              /\ Stream(held[i]) \/ held[i] = cur
    /\ \A i, j \in DOMAIN held : i <= j => held[i].pos <= held[j].pos

Entries(q) == {q[i] : i \in DOMAIN q}
Seen(r) == Entries(got[r]) \union Entries(todo[r])
SeenInv == \A r \in Readers : \A m \in Seen(r) : Stream(m)

\* No byte of m was cut off, and the ring has not come round to any.
Sound(m) == m.id \notin lost /\ m.age = resets /\ Before + copied - m.pos <= ShmSize

\* What a reader has copied so far for the message it is at.
PassOK(r) ==
    /\ rpc[r] \in {"idle", "open", "lock", "map"} => seen[r] = {}
    /\ rpc[r] = "unlock" => seen[r] # {}
    /\ rpc[r] \in {"read", "unlock"} /\ mapped[r] = 1 /\ Sound(Head(todo[r])) =>
         seen[r] \subseteq {Head(todo[r]).id}

ReadInv == CurInv /\ HeldInv /\ SeenInv /\ \A r \in Readers : PassOK(r)

\* Two bytes less than the ring apart in the stream are in different cells.
LEMMA CellsApart ==
  ASSUME NEW start \in 0 .. ShmSize, NEW o \in 0 .. ShmSize, NEW d \in Nat, NEW n \in Nat,
         NEW k \in Nat, k < d, d + n < ShmSize, o \in {start + d, start + d - ShmSize}
  PROVE  Cell(start, k) \in Cells /\ Cell(o, n) \in Cells /\ Cell(start, k) # Cell(o, n)
  <1>1. ShmSize \in Nat
    BY ShmReadersAssumption
  <1>2. k < ShmSize /\ n < ShmSize
    BY <1>1
  <1>3. Cell(start, k) \in Cells /\ Cell(o, n) \in Cells
    BY <1>1, <1>2 DEF Cell, Cells
  <1>4. Cell(start, k) # Cell(o, n)
    BY <1>1, <1>2, SMTT(20) DEF Cell
  <1>5. QED BY <1>3, <1>4

LEMMA PartEntries ==
  ASSUME NEW S, NEW q \in Seq(S), NEW m \in 1 .. Len(q), NEW n \in m .. Len(q)
  PROVE  /\ DOMAIN SubSeq(q, m, n) = 1 .. n - m + 1
         /\ \A i \in 1 .. n - m + 1 : SubSeq(q, m, n)[i] = q[m + i - 1] /\ m + i - 1 \in DOMAIN q
         /\ Entries(SubSeq(q, m, n)) \subseteq Entries(q)
  <1>1. Len(q) \in Nat /\ DOMAIN q = 1 .. Len(q) /\ \A i \in 1 .. Len(q) : q[i] \in S
    BY LenProperties, ElementOfSeq
  <1>2. \A i \in m .. n : q[i] \in S
    BY <1>1
  <1>3. /\ SubSeq(q, m, n) \in Seq(S)
        /\ Len(SubSeq(q, m, n)) = IF m <= n THEN n - m + 1 ELSE 0
        /\ \A i \in 1 .. n - m + 1 : SubSeq(q, m, n)[i] = q[m + i - 1]
    BY <1>1, <1>2, SubSeqProperties
  <1>4. DOMAIN SubSeq(q, m, n) = 1 .. n - m + 1
    BY <1>1, <1>3, LenProperties
  <1>5. \A i \in 1 .. n - m + 1 : m + i - 1 \in DOMAIN q
    BY <1>1
  <1>6. QED BY <1>3, <1>4, <1>5 DEF Entries

LEMMA TailEntries ==
  ASSUME NEW S, NEW q \in Seq(S), q # <<>>
  PROVE  Entries(Tail(q)) \subseteq Entries(q)
  <1>1. Len(q) \in Nat /\ DOMAIN q = 1 .. Len(q)
    BY LenProperties
  <1>2. /\ Tail(q) \in Seq(S) /\ Len(Tail(q)) = Len(q) - 1
        /\ \A i \in 1 .. Len(Tail(q)) : Tail(q)[i] = q[i + 1]
    BY HeadTailProperties
  <1>3. DOMAIN Tail(q) = 1 .. Len(q) - 1
    BY <1>2, LenProperties
  <1>4. QED BY <1>1, <1>2, <1>3 DEF Entries

LEMMA ReadInit == Init => ReadInv
  <1> SUFFICES ASSUME Init PROVE ReadInv
    OBVIOUS
  <1>1. CurInv
    BY DEF Init, CurInv, NoMessage, Putting
  <1>2. HeldInv
    BY DEF Init, HeldInv
  <1>3. SeenInv
    BY DEF Init, SeenInv, Seen, Entries
  <1>4. \A r \in Readers : PassOK(r)
    BY DEF Init, PassOK
  <1>5. QED BY <1>1, <1>2, <1>3, <1>4 DEF ReadInv

\* The steps that neither put nor reset.
Still == UNCHANGED <<offset, cur, copied, ring, lost, pushed, resets>>

LEMMA PutKinds ==
  ASSUME [Next]_vars
  PROVE  \/ \E size \in Sizes : Put(size)
         \/ CopyByte
         \/ UnlockAfterCopy
         \/ ResetStartTime
         \/ \E n \in AddSizes : SizeRing(n)
         \/ /\ Still /\ (spc' = spc \/ spc' = "dead" \/ spc' \notin Putting \/ spc' = "copy")
            /\ (spc' # "dead" => (spc' \in Putting <=> spc \in Putting))
            /\ (spc = "dead" => spc' = "dead")
            /\ held' \in {held, <<>>}
  <1> USE DEF vars, serverVars, store, names, pass, readerVars, counts, Still, Putting
  <1>1. CASE UNCHANGED vars
    BY <1>1
  <1>2. CASE ServerOpen \/ LockToCopy \/ ServerLock \/ ServerUnlock \/ ServerFaults \/ DeleteMutex
    BY <1>2 DEF ServerOpen, LockToCopy, ServerLock, ServerUnlock, ServerFaults, DeleteMutex
  <1>3. CASE AddAgain \/ OpenMutex \/ SizeMutex \/ InitMutex \/ DeleteData \/ ClearData \/ ClearMutex
    BY <1>3 DEF AddAgain, OpenMutex, SizeMutex, InitMutex, DeleteData, ClearData, ClearMutex
  <1>4. CASE \E r \in Readers : Fetch(r) \/ Reread(r) \/ Forget(r)
    BY <1>4 DEF Fetch, Reread, Forget
  <1>5. CASE \E r \in Readers : ReaderStep(r)
    BY <1>5 DEF ReaderStep, Open, Lock, Map, ReadThrows, ReadByte, ReaderFaults, Unlock
  <1>6. CASE \E p \in Procs : Die(p)
    BY <1>6 DEF Die
  <1>7. QED BY <1>1, <1>2, <1>3, <1>4, <1>5, <1>6 DEF Next, ServerStep

\* Numbers, in the steps of a put.
LEMMA Numbers ==
  ASSUME TypeInv, CurInv
  PROVE  /\ ShmSize \in Nat /\ ShmSize > 0
         /\ pushed \in Nat /\ resets \in Nat /\ copied \in Nat /\ offset \in 0 .. ShmSize
         /\ cur.size \in Nat /\ cur.id \in Nat /\ cur.pos \in Nat /\ cur.start \in 0 .. ShmSize
         /\ Before \in Nat
  <1>1. /\ ShmSize \in Nat /\ ShmSize > 0
        /\ pushed \in Nat /\ resets \in Nat /\ copied \in Nat /\ offset \in 0 .. ShmSize
    BY ShmReadersAssumption DEF TypeInv, TypeOK
  <1>2. cur.size \in Nat /\ cur.id \in Nat /\ cur.pos \in Nat /\ cur.start \in 0 .. ShmSize
    BY ShmReadersAssumption DEF TypeInv, TypeOK, Message, NoMessage
  <1>3. QED BY <1>1, <1>2 DEF CurInv, Before

LEMMA PutStream ==
  ASSUME TypeInv, CurInv, NEW size \in Sizes, Put(size), NEW m \in Message, Stream(m)
  PROVE  Stream(m)'
  <1>1. /\ size \in Nat /\ cur = NoMessage /\ copied = 0
        /\ cur'.size = size /\ pushed' = pushed + size /\ copied' = 0
        /\ UNCHANGED <<offset, ring, lost, resets>>
    BY ShmReadersAssumption DEF Put, CurInv, Putting, store, counts
  <1>2. Before = pushed /\ Before' = pushed
    BY <1>1, Numbers DEF Before, NoMessage
  <1>3. QED BY <1>1, <1>2 DEF Stream, Whole

LEMMA CopyStream ==
  ASSUME TypeInv, CurInv, CopyByte, NEW m \in Message, Stream(m)
  PROVE  Stream(m)'
  <1>1. /\ copied' = copied + 1 /\ ring' = [ring EXCEPT ![Cell(offset, copied)] = cur.id]
        /\ ring \in [Cells -> Nat]
        /\ UNCHANGED <<offset, cur, pushed, resets, lost>> /\ Before' = Before
    BY DEF CopyByte, TypeInv, TypeOK, counts, Before
  <1>2. m.size \in Nat /\ m.pos \in Nat /\ m.start \in 0 .. ShmSize /\ m.id \in Nat
    BY DEF Message
  <1>3. ASSUME m.age = resets, Before + copied + 1 - m.pos <= ShmSize, m.id \notin lost
        PROVE  \A k \in 0 .. m.size - 1 : ring'[Cell(m.start, k)] = m.id
    <2>1. Before + copied - m.pos <= ShmSize /\ Before - m.pos <= ShmSize
      BY <1>2, <1>3, Numbers
    <2>2. Whole(m) /\ offset \in {m.start + (Before - m.pos), m.start + (Before - m.pos) - ShmSize}
      BY <1>3, <2>1 DEF Stream
    <2>3. ASSUME NEW k \in 0 .. m.size - 1
          PROVE  ring'[Cell(m.start, k)] = m.id
      <3> DEFINE d == Before - m.pos
      <3>1. d \in Nat /\ k < d /\ d + copied < ShmSize /\ k \in Nat
        BY <1>2, <1>3, <2>3, Numbers DEF Stream
      <3>2. offset \in {m.start + d, m.start + d - ShmSize}
        BY <2>2
      <3> HIDE DEF d
      <3>3. Cell(m.start, k) \in Cells /\ Cell(m.start, k) # Cell(offset, copied)
        BY <1>2, <3>1, <3>2, CellsApart, Numbers
      <3>4. ring'[Cell(m.start, k)] = ring[Cell(m.start, k)]
        BY <1>1, <3>3
      <3>5. QED BY <2>2, <3>4 DEF Whole
    <2>4. QED BY <2>3
  <1>4. m.age = resets' /\ Before' + copied' - m.pos <= ShmSize => Whole(m)' \/ m.id \in lost'
    <2>1. Before' + copied' - m.pos = Before + copied + 1 - m.pos
      BY <1>1, <1>2, Numbers
    <2>2. QED BY <1>1, <1>3, <2>1 DEF Whole
  <1>5. QED BY <1>1, <1>4 DEF Stream

\* The write offset at the end of a put.
LEMMA NextPlace ==
  ASSUME TypeInv, CurInv, UnlockAfterCopy, NEW start \in 0 .. ShmSize, NEW d \in Nat,
         d + cur.size <= ShmSize, offset \in {start + d, start + d - ShmSize}
  PROVE  offset' \in {start + (d + cur.size), start + (d + cur.size) - ShmSize}
  <1>1. cur.size \in 1 .. ShmSize
    BY DEF TypeInv, UnlockAfterCopy, Putting
  <1>2. offset' = NextOffset
    BY DEF UnlockAfterCopy
  <1>3. ShmSize \in Nat /\ offset \in 0 .. ShmSize
    BY Numbers
  <1>4. CASE offset + cur.size > ShmSize
    <2>1. offset' = offset + cur.size - ShmSize /\ offset' > 0
      BY <1>1, <1>2, <1>3, <1>4 DEF NextOffset
    <2>2. CASE offset = start + d
      BY <1>1, <1>3, <2>1, <2>2
    <2>3. CASE offset = start + d - ShmSize
      BY <1>1, <1>3, <2>1, <2>3
    <2>4. QED BY <2>2, <2>3
  <1>5. CASE ~(offset + cur.size > ShmSize)
    <2>1. offset' = offset + cur.size
      BY <1>2, <1>5 DEF NextOffset
    <2>2. QED BY <1>1, <1>3, <2>1
  <1>6. QED BY <1>4, <1>5

LEMMA UnlockStream ==
  ASSUME TypeInv, CurInv, UnlockAfterCopy, NEW m \in Message, Stream(m) \/ m = cur
  PROVE  Stream(m)'
  <1>1. /\ copied = cur.size /\ cur' = NoMessage /\ copied' = 0
        /\ UNCHANGED <<ring, lost, pushed, resets>>
        /\ cur.size \in 1 .. ShmSize
    BY DEF UnlockAfterCopy, TypeInv, Putting, counts, store
  <1>2. Before' = Before + cur.size /\ Before' = pushed
    BY <1>1, Numbers DEF Before, NoMessage
  <1>3. m.size \in Nat /\ m.pos \in Nat /\ m.start \in 0 .. ShmSize /\ m.id \in Nat
    BY DEF Message
  <1>4. CASE Stream(m)
    <2>1. ASSUME m.age = resets, Before' - m.pos <= ShmSize
          PROVE  offset' \in {m.start + (Before' - m.pos), m.start + (Before' - m.pos) - ShmSize}
      <3> DEFINE d == Before - m.pos
      <3>1. d \in Nat /\ d + cur.size <= ShmSize /\ d <= ShmSize
        BY <1>2, <1>3, <1>4, <2>1, Numbers DEF Stream
      <3>2. offset \in {m.start + d, m.start + d - ShmSize}
        BY <1>4, <2>1, <3>1 DEF Stream
      <3>3. d + cur.size = Before' - m.pos
        BY <1>2, <1>3, Numbers
      <3> HIDE DEF d
      <3>4. QED BY <1>3, <3>1, <3>2, <3>3, NextPlace
    <2>2. ASSUME m.age = resets, Before' - m.pos <= ShmSize
          PROVE  Whole(m)' \/ m.id \in lost'
      <3>1. Before + copied - m.pos <= ShmSize
        <4>1. Before + copied = Before'
          BY <1>1, <1>2
        <4>2. Before \in Nat /\ copied \in Nat /\ Before' \in Nat /\ ShmSize \in Nat
          BY <1>1, <1>2, Numbers
        <4>3. QED BY <1>3, <2>2, <4>1, <4>2
      <3>2. Whole(m) \/ m.id \in lost
        BY <1>4, <2>2, <3>1 DEF Stream
      <3>3. QED BY <1>1, <3>2 DEF Whole
    <2>3. Before' + copied' = Before'
      BY <1>1, <1>2, Numbers
    <2>4. m.pos + m.size <= Before'
      BY <1>2, <1>3, <1>4, Numbers DEF Stream
    <2>5. m.size \in 1 .. ShmSize /\ m.age <= resets'
      BY <1>1, <1>4 DEF Stream
    <2>6. ASSUME m.age = resets', Before' + copied' - m.pos <= ShmSize
          PROVE  Whole(m)' \/ m.id \in lost'
      <3>1. m.age = resets
        BY <1>1, <2>6
      <3>2. Before' - m.pos <= ShmSize
        <4>1. copied' \in Nat /\ Before' \in Nat /\ ShmSize \in Nat
          BY <1>1, <1>2, Numbers
        <4>2. QED BY <1>3, <2>3, <2>6, <4>1
      <3>3. QED BY <2>2, <3>1, <3>2
    <2>7. m.age = resets' /\ Before' - m.pos <= ShmSize =>
            offset' \in {m.start + (Before' - m.pos), m.start + (Before' - m.pos) - ShmSize}
      BY <1>1, <2>1
    <2>8. QED BY <2>4, <2>5, <2>6, <2>7 DEF Stream
  <1>5. CASE m = cur
    <2>1. /\ m.start = offset /\ m.pos = Before /\ m.age = resets /\ m.size = cur.size
          /\ \A k \in 0 .. m.size - 1 : ring[Cell(m.start, k)] = m.id
      BY <1>1, <1>5 DEF CurInv, UnlockAfterCopy, Putting
    <2>2. offset' \in {m.start + (0 + cur.size), m.start + (0 + cur.size) - ShmSize}
      BY <1>1, <1>3, <2>1, NextPlace, Numbers
    <2>3. Before' - m.pos = 0 + cur.size
      BY <1>2, <2>1, Numbers
    <2>4. Whole(m)'
      BY <1>1, <2>1 DEF Whole
    <2>5. m.pos + m.size <= Before' /\ m.age <= resets
      BY <1>2, <2>1, Numbers
    <2>6. QED BY <1>1, <2>1, <2>2, <2>3, <2>4, <2>5 DEF Stream
  <1>6. QED BY <1>4, <1>5

LEMMA SizeStream ==
  ASSUME TypeInv, NEW n \in AddSizes, SizeRing(n), NEW m \in Message, Stream(m)
  PROVE  Stream(m)'
  <1>1. /\ UNCHANGED <<offset, cur, copied, pushed, resets>> /\ Before' = Before
        /\ ring \in [Cells -> Nat] /\ lost \subseteq lost'
    BY DEF SizeRing, TypeInv, TypeOK, counts, Before
  <1>2. ASSUME NEW k \in 0 .. m.size - 1 PROVE Cell(m.start, k) \in Cells
    <2>1. m.start \in 0 .. ShmSize /\ k \in Nat /\ k < ShmSize
      BY ShmReadersAssumption DEF Message
    <2>2. QED BY <2>1, ShmReadersAssumption DEF Cell, Cells
  <1>3. ASSUME Whole(m), m.id \notin lost', NEW k \in 0 .. m.size - 1
        PROVE  ring'[Cell(m.start, k)] = m.id
    <2>1. Cell(m.start, k) \in Cells /\ ring[Cell(m.start, k)] = m.id
      BY <1>2, <1>3 DEF Whole
    <2>2. CASE UNCHANGED ring
      BY <2>1, <2>2
    <2>3. CASE /\ ring' = [c \in Cells |-> IF c \in Cut(n) THEN 0 ELSE ring[c]]
               /\ lost' = lost \union {ring[c] : c \in Cut(n)}
      <3>1. Cell(m.start, k) \notin Cut(n)
        BY <1>3, <2>1, <2>3
      <3>2. QED BY <2>1, <2>3, <3>1
    <2>4. QED BY <2>2, <2>3 DEF SizeRing
  <1>4. Whole(m) \/ m.id \in lost => Whole(m)' \/ m.id \in lost'
    BY <1>1, <1>3 DEF Whole
  <1>5. QED BY <1>1, <1>4 DEF Stream

LEMMA StreamStep ==
  ASSUME TypeInv, CurInv, [Next]_vars, NEW m \in Message, Stream(m)
  PROVE  Stream(m)'
  <1>1. CASE Still
    BY <1>1 DEF Still, Stream, Whole, Before
  <1>2. CASE ResetStartTime
    <2>1. resets' = resets + 1 /\ UNCHANGED <<cur, pushed>>
      BY <1>2 DEF ResetStartTime
    <2>2. m.age <= resets' /\ m.age # resets'
      BY <2>1, Numbers DEF Stream, Message
    <2>3. QED BY <2>1, <2>2 DEF Stream, Before
  <1>3. QED BY <1>1, <1>2, PutKinds, PutStream, CopyStream, UnlockStream, SizeStream

LEMMA CurStep ==
  ASSUME TypeInv, CurInv, [Next]_vars
  PROVE  CurInv'
  <1>1. ASSUME NEW size \in Sizes, Put(size)
        PROVE  CurInv'
    <2>1. /\ size \in Nat /\ pushed' = pushed + size /\ copied' = 0 /\ spc' = "push"
          /\ offset' = offset /\ resets' = resets
          /\ cur'.start = offset /\ cur'.size = size /\ cur'.pos = pushed /\ cur'.age = resets
      BY <1>1, ShmReadersAssumption DEF Put
    <2>2. Before' = pushed /\ copied' <= cur'.size /\ cur'.size <= pushed'
      BY <2>1, Numbers DEF Before
    <2>3. \A k \in 0 .. copied' - 1 : ring'[Cell(offset', k)] = cur'.id
      BY <2>1
    <2>4. QED BY <2>1, <2>2, <2>3 DEF CurInv, Putting
  <1>2. CASE CopyByte
    <2>1. /\ spc = "copy" /\ copied < cur.size /\ copied' = copied + 1
          /\ ring' = [ring EXCEPT ![Cell(offset, copied)] = cur.id]
          /\ UNCHANGED <<offset, cur, pushed, resets, spc>> /\ Before' = Before
          /\ ring \in [Cells -> Nat] /\ cur.size <= ShmSize
      BY <1>2 DEF CopyByte, counts, Before, TypeInv, TypeOK, Putting
    <2>2. ASSUME NEW k \in 0 .. copied
          PROVE  ring'[Cell(offset, k)] = cur.id
      <3>1. Cell(offset, k) \in Cells
        <4>1. /\ offset \in 0 .. ShmSize /\ ShmSize \in Nat /\ ShmSize > 0
              /\ k \in Nat /\ k < ShmSize
          BY <2>1, <2>2, Numbers
        <4>2. QED BY <4>1 DEF Cell, Cells
      <3>2. CASE Cell(offset, k) = Cell(offset, copied)
        BY <2>1, <3>1, <3>2
      <3>3. CASE Cell(offset, k) # Cell(offset, copied)
        <4>1. k \in 0 .. copied - 1
          BY <2>2, <3>3, Numbers
        <4>2. ring[Cell(offset, k)] = cur.id
          BY <2>1, <4>1 DEF CurInv, Putting
        <4>3. QED BY <2>1, <3>1, <3>3, <4>2
      <3>4. QED BY <3>2, <3>3
    <2>3. copied' <= cur.size /\ copied' - 1 = copied
      BY <2>1, Numbers
    <2>4. \A k \in 0 .. copied' - 1 : ring'[Cell(offset', k)] = cur'.id
      BY <2>1, <2>2, <2>3
    <2>5. QED BY <2>1, <2>3, <2>4 DEF CurInv, Putting
  <1>3. CASE UnlockAfterCopy
    <2>1. cur' = NoMessage /\ copied' = 0 /\ spc' = "idle" /\ pushed' = pushed
      BY <1>3 DEF UnlockAfterCopy
    <2>2. QED BY <2>1, Numbers DEF CurInv, Putting, NoMessage
  <1>4. CASE ResetStartTime
    <2>1. spc = "idle" /\ UNCHANGED <<spc, cur, copied, pushed>>
      BY <1>4 DEF ResetStartTime
    <2>2. QED BY <2>1 DEF CurInv, Putting
  <1>5. CASE /\ Still /\ (spc' = spc \/ spc' = "dead" \/ spc' \notin Putting \/ spc' = "copy")
             /\ (spc' # "dead" => (spc' \in Putting <=> spc \in Putting))
             /\ (spc = "dead" => spc' = "dead")
    BY <1>5 DEF CurInv, Still, Putting, Before
  <1>6. ASSUME NEW n \in AddSizes, SizeRing(n) PROVE CurInv'
    <2>1. spc = "size" /\ spc' = "mutex" /\ UNCHANGED <<cur, copied, pushed>>
      BY <1>6 DEF SizeRing
    <2>2. QED BY <2>1 DEF CurInv, Putting
  <1>7. QED BY <1>1, <1>2, <1>3, <1>4, <1>5, <1>6, PutKinds

\* A message that is held was put before, unless it is the one being put.
LEMMA HeldStream ==
  ASSUME TypeInv, CurInv, HeldInv, spc \notin Putting \union {"dead"}, NEW i \in DOMAIN held
  PROVE  Stream(held[i])
  BY DEF CurInv, HeldInv, NoMessage

\* An eviction, and a pruning, leaves the last entries.
LEMMA HeldPart ==
  ASSUME NEW q \in Seq(Message), NEW k \in 1 .. Len(q), held' = SubSeq(q, k, Len(q)),
         \A i \in DOMAIN q : i >= k => /\ q[i].age = resets'
                                       /\ pushed' - q[i].pos <= ShmSize
                                       /\ q[i].size > 0
                                       /\ Stream(q[i])' \/ q[i] = cur',
         \A i, j \in DOMAIN q : i <= j => q[i].pos <= q[j].pos
  PROVE  HeldInv'
  <1>1. Len(q) \in Nat /\ Len(q) \in k .. Len(q)
    BY LenProperties
  <1>2. /\ DOMAIN held' = 1 .. Len(q) - k + 1
        /\ \A i \in 1 .. Len(q) - k + 1 : held'[i] = q[k + i - 1] /\ k + i - 1 \in DOMAIN q
    BY <1>1, PartEntries
  <1>3. ASSUME NEW i \in DOMAIN held'
        PROVE  /\ held'[i].age = resets' /\ pushed' - held'[i].pos <= ShmSize
               /\ held'[i].size > 0
               /\ Stream(held[i])' \/ held'[i] = cur'
    <2> DEFINE j == k + i - 1
    <2>1. j \in DOMAIN q /\ j >= k /\ held'[i] = q[j]
      BY <1>1, <1>2, <1>3
    <2> HIDE DEF j
    <2>2. Stream(q[j])' => Stream(held[i])'
      BY <2>1 DEF Stream, Whole
    <2>3. QED BY <2>1, <2>2
  <1>4. ASSUME NEW i \in DOMAIN held', NEW j \in DOMAIN held', i <= j
        PROVE  held'[i].pos <= held'[j].pos
    <2>1. k + i - 1 <= k + j - 1
      BY <1>1, <1>2, <1>4
    <2>2. QED BY <1>2, <1>4, <2>1
  <1>5. QED BY <1>3, <1>4 DEF HeldInv

LEMMA HeldStep ==
  ASSUME TypeInv, CurInv, HeldInv, [Next]_vars
  PROVE  HeldInv'
  <1>1. held \in Seq(Message) /\ DOMAIN held = 1 .. Len(held) /\ Len(held) \in Nat
    BY LenProperties DEF TypeInv, TypeOK
  <1>2. \A i \in DOMAIN held : held[i] \in Message
    BY <1>1, ElementOfSeq
  <1>3. ASSUME NEW size \in Sizes, Put(size)
        PROVE  HeldInv'
    <2>1. /\ spc = "idle" /\ size \in Nat /\ size > 0 /\ size <= ShmSize
          /\ pushed' = pushed + size /\ resets' = resets
          /\ cur' \in Message /\ cur'.size = size /\ cur'.pos = pushed /\ cur'.age = resets
      <3>1. cur' \in Message
        <4>1. /\ size \in 1 .. ShmSize /\ offset \in 0 .. ShmSize /\ pushed \in Nat
              /\ resets \in Nat /\ calls \in Nat
          BY ShmReadersAssumption DEF TypeInv, TypeOK
        <4>2. QED BY <1>3, <4>1 DEF Put, Message
      <3>2. size \in Nat /\ size > 0 /\ size <= ShmSize
        BY ShmReadersAssumption
      <3>3. QED BY <1>3, <3>1, <3>2 DEF Put
    <2>2. PICK all \in Seq(Message) :
          /\ all = Append(held, cur') /\ Len(all) = Len(held) + 1
          /\ \A i \in 1 .. Len(held) : all[i] = held[i]
          /\ all[Len(held) + 1] = cur'
      BY <1>1, <2>1, AppendProperties
    <2>3. PICK k \in 1 .. Len(all) : held' = SubSeq(all, k, Len(all)) /\ pushed' - all[k].pos <= ShmSize
      BY <1>3, <2>2 DEF Put
    <2>4. DOMAIN all = 1 .. Len(held) + 1
      BY <2>2, LenProperties
    <2>5. \A i \in DOMAIN held : Stream(held[i]) /\ held[i].pos <= pushed /\ held[i].pos \in Nat
      <3>1. ASSUME NEW i \in DOMAIN held
            PROVE  Stream(held[i]) /\ held[i].pos <= pushed /\ held[i].pos \in Nat
        <4>1. Stream(held[i])
          BY <2>1, HeldStream DEF Putting
        <4>2. held[i].pos \in Nat /\ held[i].size \in Nat
          BY <1>2 DEF Message
        <4>3. held[i].pos + held[i].size <= pushed - cur.size
          BY <4>1 DEF Stream, Before
        <4>4. pushed \in Nat /\ cur.size \in Nat
          BY Numbers
        <4>5. QED BY <4>1, <4>2, <4>3, <4>4
      <3>2. QED BY <3>1
    <2>6. ASSUME NEW i \in DOMAIN all, NEW j \in DOMAIN all, i <= j
          PROVE  all[i].pos <= all[j].pos
      <3>1. CASE j \in DOMAIN held
        <4>1. i \in DOMAIN held
          BY <1>1, <2>4, <2>6, <3>1
        <4>2. all[i] = held[i] /\ all[j] = held[j]
          BY <1>1, <2>2, <3>1, <4>1
        <4>3. QED BY <2>6, <3>1, <4>1, <4>2 DEF HeldInv
      <3>2. CASE j = Len(held) + 1
        <4>1. all[j].pos = pushed
          BY <2>1, <2>2, <3>2
        <4>2. CASE i \in DOMAIN held
          BY <1>1, <2>2, <2>5, <4>1, <4>2
        <4>3. CASE i = j
          BY <4>1, <4>3, Numbers
        <4>4. QED BY <1>1, <2>4, <2>6, <3>2, <4>2, <4>3
      <3>3. QED BY <1>1, <2>4, <3>1, <3>2
    <2>7. \A i \in DOMAIN all : all[i].pos \in Nat
      <3>1. \A i \in DOMAIN all : all[i] \in Message
        BY <2>2, ElementOfSeq, LenProperties
      <3>2. QED BY <3>1 DEF Message
    <2>8. ASSUME NEW i \in DOMAIN all, i >= k
          PROVE  /\ all[i].age = resets' /\ pushed' - all[i].pos <= ShmSize /\ all[i].size > 0
                 /\ Stream(all[i])' \/ all[i] = cur'
      <3>1. pushed' - all[i].pos <= ShmSize
        <4>1. k \in DOMAIN all /\ all[k].pos <= all[i].pos
          BY <2>2, <2>3, <2>4, <2>6, <2>8
        <4>2. all[k].pos \in Nat /\ all[i].pos \in Nat /\ pushed' \in Nat
          BY <2>1, <2>7, <2>8, <4>1, Numbers
        <4>3. ShmSize \in Nat
          BY Numbers
        <4>4. QED BY <2>3, <4>1, <4>2, <4>3
      <3>2. CASE i \in DOMAIN held
        <4>1. all[i] = held[i] /\ held[i] \in Message
          BY <1>1, <1>2, <2>2, <3>2
        <4>2. PICK m \in Message : m = held[i]
          BY <4>1
        <4>3. Stream(m)
          BY <2>5, <3>2, <4>2
        <4>4. Stream(m)'
          BY <1>3, <4>3, PutStream
        <4>5. all[i].age = resets' /\ all[i].size > 0
          BY <2>1, <3>2, <4>1 DEF HeldInv
        <4>6. Stream(m)' => Stream(all[i])'
          BY <4>1, <4>2 DEF Stream, Whole
        <4>7. QED BY <3>1, <4>4, <4>5, <4>6
      <3>3. CASE i = Len(held) + 1
        BY <2>1, <2>2, <3>1, <3>3
      <3>4. QED BY <1>1, <2>4, <2>8, <3>2, <3>3
    <2>9. QED BY <2>2, <2>3, <2>6, <2>8, HeldPart
  <1>4. CASE UnlockAfterCopy
    <2>1. PICK k \in 1 .. Len(held) : held' = SubSeq(held, k, Len(held))
      BY <1>4 DEF UnlockAfterCopy
    <2>2. UNCHANGED <<pushed, resets>>
      BY <1>4 DEF UnlockAfterCopy, counts
    <2>3. PICK q \in Seq(Message) : q = held
      BY <1>1
    <2>4. ASSUME NEW i \in DOMAIN q
          PROVE  Stream(q[i])'
      <3>1. PICK m \in Message : m = q[i]
        BY <1>2, <2>3, <2>4
      <3>2. Stream(m) \/ m = cur
        BY <2>3, <2>4, <3>1 DEF HeldInv
      <3>3. Stream(m)'
        BY <1>4, <3>2, UnlockStream
      <3>4. QED BY <3>1, <3>3
    <2>5. \A i \in DOMAIN q : /\ q[i].age = resets' /\ pushed' - q[i].pos <= ShmSize
                              /\ q[i].size > 0
      BY <2>2, <2>3 DEF HeldInv
    <2>6. \A i, j \in DOMAIN q : i <= j => q[i].pos <= q[j].pos
      BY <2>3 DEF HeldInv
    <2>7. k \in 1 .. Len(q) /\ held' = SubSeq(q, k, Len(q))
      BY <2>1, <2>3
    <2>8. QED BY <2>4, <2>5, <2>6, <2>7, HeldPart
  <1>5. CASE held' = <<>>
    BY <1>5 DEF HeldInv
  <1>6. CASE held' = held /\ UNCHANGED <<cur, pushed, resets>>
    <2>1. ASSUME NEW i \in DOMAIN held
          PROVE  Stream(held[i])' \/ held[i] = cur
      <3>1. PICK m \in Message : m = held[i]
        BY <1>2, <2>1
      <3>2. CASE m = cur
        BY <3>1, <3>2
      <3>3. CASE m # cur
        <4>1. Stream(m)
          BY <2>1, <3>1, <3>3 DEF HeldInv
        <4>2. Stream(m)'
          BY <4>1, StreamStep
        <4>3. m = held'[i]
          BY <1>6, <3>1
        <4>4. QED BY <4>2, <4>3
      <3>4. QED BY <3>2, <3>3
    <2>2. QED BY <1>6, <2>1 DEF HeldInv
  <1>7. CopyByte => held' = held /\ UNCHANGED <<cur, pushed, resets>>
    BY DEF CopyByte, counts
  <1>8. ResetStartTime => held' = <<>>
    BY DEF ResetStartTime
  <1>9. ASSUME NEW n \in AddSizes, SizeRing(n)
        PROVE  held' = held /\ UNCHANGED <<cur, pushed, resets>>
    BY <1>9 DEF SizeRing, counts
  <1>10. QED BY <1>3, <1>4, <1>5, <1>6, <1>7, <1>8, <1>9, PutKinds DEF Still

\* What a reader has comes from the topic, when nothing is being put.
LEMMA SeenFrom ==
  ASSUME TypeInv, [Next]_vars, NEW r \in Readers
  PROVE  \/ Seen(r)' \subseteq Seen(r)
         \/ Seen(r)' \subseteq Entries(held) /\ spc \notin Putting \union {"dead"}
  <1>1. /\ held \in Seq(Message) /\ Len(held) \in Nat
        /\ got \in [Readers -> Seq(Message)] /\ todo \in [Readers -> Seq(Message)]
    BY LenProperties DEF TypeInv, TypeOK
  <1>2. Entries(<<>>) = {}
    BY DEF Entries
  <1>3. CASE UNCHANGED <<got, todo>>
    BY <1>3 DEF Seen
  <1>4. ASSUME NEW p \in Readers, Fetch(p)
        PROVE  \/ Seen(r)' \subseteq Seen(r)
               \/ Seen(r)' \subseteq Entries(held) /\ spc \notin Putting \union {"dead"}
    <2>1. PICK q : Entries(q) \subseteq Entries(held) /\ got' = [got EXCEPT ![p] = q]
      <3>1. CASE got' = [got EXCEPT ![p] = held]
        BY <3>1
      <3>2. ASSUME NEW n \in 1 .. Len(held), got' = [got EXCEPT ![p] = SubSeq(held, 1, n)]
            PROVE  \E q : Entries(q) \subseteq Entries(held) /\ got' = [got EXCEPT ![p] = q]
        <4>1. 1 \in 1 .. Len(held) /\ n \in 1 .. Len(held)
          BY <1>1
        <4>2. QED BY <1>1, <3>2, <4>1, PartEntries
      <3>3. ASSUME NEW n \in 1 .. Len(held), got' = [got EXCEPT ![p] = SubSeq(held, n, Len(held))]
            PROVE  \E q : Entries(q) \subseteq Entries(held) /\ got' = [got EXCEPT ![p] = q]
        <4>1. Len(held) \in n .. Len(held)
          BY <1>1
        <4>2. QED BY <1>1, <3>3, <4>1, PartEntries
      <3>4. QED BY <1>4, <3>1, <3>2, <3>3 DEF Fetch
    <2>2. got'[p] = q /\ todo' = [todo EXCEPT ![p] = q]
      BY <1>1, <1>4, <2>1 DEF Fetch
    <2>3. CASE r = p
      <3>1. got'[r] = q /\ todo'[r] = q
        BY <1>1, <2>2, <2>3
      <3>2. spc \notin Putting \union {"dead"}
        BY <1>4 DEF Fetch
      <3>3. QED BY <2>1, <3>1, <3>2 DEF Seen
    <2>4. CASE r # p
      <3>1. got'[r] = got[r] /\ todo'[r] = todo[r]
        BY <1>1, <2>1, <2>2, <2>4
      <3>2. QED BY <3>1 DEF Seen
    <2>5. QED BY <2>3, <2>4
  <1>5. ASSUME NEW p \in Readers, Reread(p) \/ Forget(p) \/ Open(p) \/ ReadThrows(p)
        PROVE  Seen(r)' \subseteq Seen(r)
    <2>1. got'[r] \in {got[r], <<>>} /\ todo'[r] \in {todo[r], got[r], <<>>}
      BY <1>1, <1>5 DEF Reread, Forget, Open, ReadThrows
    <2>2. QED BY <1>2, <2>1 DEF Seen
  <1>6. ASSUME NEW p \in Readers, Unlock(p)
        PROVE  Seen(r)' \subseteq Seen(r)
    <2>1. todo[p] # <<>> /\ todo[p] \in Seq(Message) /\ got' = got
      BY <1>1, <1>6 DEF Unlock, TypeInv, ReaderOK
    <2>2. todo'[r] \in {todo[r], Tail(todo[p])} /\ (r # p => todo'[r] = todo[r])
      BY <1>1, <1>6 DEF Unlock
    <2>3. Entries(Tail(todo[p])) \subseteq Entries(todo[p])
      BY <2>1, TailEntries
    <2>4. Entries(todo'[r]) \subseteq Entries(todo[r])
      BY <2>2, <2>3
    <2>5. QED BY <2>1, <2>4 DEF Seen
  <1>7. CASE UNCHANGED readerVars \/ UNCHANGED vars
    BY <1>3, <1>7 DEF readerVars, vars
  <1>8. CASE \E size \in Sizes : Put(size)
    BY <1>7, <1>8 DEF Put
  <1>9. CASE ServerOpen \/ ServerStep \/ ResetStartTime \/ AddAgain \/ DeleteData
    BY <1>7, <1>9 DEF ServerOpen, ServerStep, LockToCopy, CopyByte, UnlockAfterCopy, ServerLock,
       ServerUnlock, ServerFaults, SizeRing, OpenMutex, SizeMutex, InitMutex, DeleteMutex,
       ResetStartTime, AddAgain, DeleteData
  <1>10. CASE ClearData \/ ClearMutex
    BY <1>7, <1>10 DEF ClearData, ClearMutex
  <1>11. CASE \E p \in Readers : Lock(p) \/ Map(p) \/ ReadByte(p) \/ ReaderFaults(p)
    BY <1>3, <1>11 DEF Lock, Map, ReadByte, ReaderFaults
  <1>12. CASE \E p \in Procs : Die(p)
    BY <1>3, <1>12 DEF Die
  <1>13. QED BY <1>4, <1>5, <1>6, <1>7, <1>8, <1>9, <1>10, <1>11, <1>12 DEF Next, ReaderStep

LEMMA SeenStep ==
  ASSUME TypeInv, ReadInv, [Next]_vars
  PROVE  SeenInv'
  <1>1. CurInv /\ HeldInv /\ SeenInv
    BY DEF ReadInv
  <1>2. /\ held \in Seq(Message)
        /\ got \in [Readers -> Seq(Message)] /\ todo \in [Readers -> Seq(Message)]
    BY DEF TypeInv, TypeOK
  <1>3. ASSUME NEW r \in Readers, NEW m \in Seen(r)'
        PROVE  Stream(m) /\ m \in Message
    <2>1. CASE m \in Seen(r)
      <3>1. m \in Entries(got[r]) \/ m \in Entries(todo[r])
        BY <2>1 DEF Seen
      <3>2. m \in Message
        BY <1>2, <3>1, ElementOfSeq, LenProperties DEF Entries
      <3>3. QED BY <1>1, <2>1, <3>2 DEF SeenInv
    <2>2. CASE m \in Entries(held) /\ spc \notin Putting \union {"dead"}
      <3>1. PICK i \in DOMAIN held : m = held[i]
        BY <2>2 DEF Entries
      <3>2. m \in Message
        BY <1>2, <3>1, ElementOfSeq, LenProperties
      <3>3. Stream(held[i])
        BY <1>1, <2>2, HeldStream
      <3>4. QED BY <3>1, <3>2, <3>3
    <2>3. QED BY <1>3, <2>1, <2>2, SeenFrom
  <1>4. ASSUME NEW r \in Readers, NEW m \in Seen(r)'
        PROVE  Stream(m)'
    <2>1. PICK x \in Message : x = m /\ Stream(x)
      BY <1>3, <1>4
    <2>2. Stream(x)'
      BY <1>1, <2>1, StreamStep
    <2>3. QED BY <2>1, <2>2
  <1>5. QED BY <1>4 DEF SeenInv

\* What was cut off, overwritten or reset stays so.
LEMMA SoundBack ==
  ASSUME TypeInv, CurInv, [Next]_vars, NEW m \in Message, m.age <= resets, Sound(m)'
  PROVE  Sound(m)
  <1>1. m.age \in Nat /\ m.pos \in Nat
    BY DEF Message
  <1>2. CASE Still
    BY <1>2 DEF Still, Sound, Before
  <1>3. ASSUME NEW size \in Sizes, Put(size) PROVE Sound(m)
    <2>1. /\ size \in Nat /\ cur = NoMessage /\ copied = 0
          /\ cur'.size = size /\ pushed' = pushed + size /\ copied' = 0
          /\ UNCHANGED <<lost, resets>>
      BY <1>3, ShmReadersAssumption DEF Put, CurInv, Putting, store, counts
    <2>2. Before = pushed /\ Before' = pushed
      BY <2>1, Numbers DEF Before, NoMessage
    <2>3. QED BY <2>1, <2>2 DEF Sound
  <1>4. CASE CopyByte
    <2>1. copied' = copied + 1 /\ Before' = Before /\ UNCHANGED <<lost, resets>>
      BY <1>4 DEF CopyByte, counts, Before
    <2>2. QED BY <1>1, <2>1, Numbers DEF Sound
  <1>5. CASE UnlockAfterCopy
    <2>1. /\ copied = cur.size /\ cur' = NoMessage /\ copied' = 0
          /\ UNCHANGED <<lost, pushed, resets>>
      BY <1>5 DEF UnlockAfterCopy, counts, store
    <2>2. Before + copied = pushed /\ Before' = pushed
      BY <2>1, Numbers DEF Before, NoMessage
    <2>3. QED BY <1>1, <2>1, <2>2, Numbers DEF Sound
  <1>6. CASE ResetStartTime
    <2>1. resets' = resets + 1
      BY <1>6 DEF ResetStartTime
    <2>2. QED BY <1>1, <2>1, Numbers DEF Sound
  <1>7. ASSUME NEW n \in AddSizes, SizeRing(n) PROVE Sound(m)
    BY <1>7 DEF SizeRing, Sound, Before, counts
  <1>8. QED BY <1>2, <1>3, <1>4, <1>5, <1>6, <1>7, PutKinds

\* A message a reader has still to read.
LEMMA HeadStream ==
  ASSUME TypeInv, SeenInv, NEW r \in Readers, rpc[r] \in {"read", "unlock"}
  PROVE  Head(todo[r]) \in Message /\ Stream(Head(todo[r]))
  <1>1. todo[r] \in Seq(Message) /\ todo[r] # <<>>
    BY DEF TypeInv, TypeOK, ReaderOK
  <1>2. 1 \in DOMAIN todo[r] /\ Head(todo[r]) = todo[r][1] /\ Head(todo[r]) \in Message
    BY <1>1
  <1>3. Head(todo[r]) \in Seen(r)
    BY <1>2 DEF Seen, Entries
  <1>4. QED BY <1>2, <1>3 DEF SeenInv

\* A step of somebody else.
LEMMA PassStays ==
  ASSUME TypeInv, ReadInv, [Next]_vars, NEW r \in Readers,
         rpc'[r] = rpc[r], todo'[r] = todo[r], mapped'[r] = mapped[r], seen'[r] = seen[r]
  PROVE  PassOK(r)'
  <1>1. PassOK(r) /\ CurInv /\ SeenInv
    BY DEF ReadInv
  <1>2. ASSUME rpc[r] \in {"read", "unlock"}, Sound(Head(todo[r]))'
        PROVE  Sound(Head(todo[r]))
    <2>1. PICK m \in Message : m = Head(todo[r]) /\ Stream(m)
      BY <1>1, <1>2, HeadStream
    <2>2. m.age <= resets
      BY <2>1 DEF Stream
    <2>3. Sound(Head(todo[r]))' => Sound(m)'
      BY <2>1 DEF Sound
    <2>4. Sound(m)
      BY <1>1, <1>2, <2>2, <2>3, SoundBack
    <2>5. QED BY <2>1, <2>4
  <1>3. QED BY <1>1, <1>2 DEF PassOK

LEMMA ReadBytePass ==
  ASSUME TypeInv, ReadInv, NEW r \in Readers, ReadByte(r)
  PROVE  PassOK(r)'
  <1>1. /\ rpc[r] = "read" /\ rpc'[r] \in {"read", "unlock"}
        /\ seen'[r] = seen[r] \union {Byte(mapped[r], NextCell(r))}
        /\ UNCHANGED <<todo, mapped, lost, resets, copied, Before>>
    BY DEF ReadByte, TypeInv, TypeOK, serverVars, store, counts, Before
  <1>2. ASSUME mapped[r] = 1, Sound(Head(todo[r]))
        PROVE  seen'[r] \subseteq {Head(todo[r]).id}
    <2>1. PICK m \in Message : m = Head(todo[r]) /\ Stream(m)
      BY <1>1, HeadStream DEF ReadInv
    <2>2. Whole(m)
      BY <1>2, <2>1 DEF Stream, Sound
    <2>3. at[r] \in 0 .. m.size - 1
      <3>1. at[r] \in Nat /\ at[r] < m.size
        BY <1>1, <2>1 DEF TypeInv, TypeOK, ReaderOK
      <3>2. m.size \in Nat
        BY DEF Message
      <3>3. QED BY <3>1, <3>2
    <2>4. Byte(1, NextCell(r)) = m.id
      BY <2>1, <2>2, <2>3 DEF Byte, NextCell, Whole
    <2>5. seen[r] \subseteq {m.id}
      BY <1>1, <1>2, <2>1 DEF ReadInv, PassOK
    <2>6. QED BY <1>1, <1>2, <2>1, <2>4, <2>5
  <1>3. Sound(Head(todo[r]))' => Sound(Head(todo[r]))
    BY <1>1 DEF Sound
  <1>4. QED BY <1>1, <1>2, <1>3 DEF PassOK

\* What a step does to the reader that takes it.
LEMMA ReaderPass ==
  ASSUME TypeInv, ReadInv, NEW r \in Readers, Fetch(r) \/ Reread(r) \/ Forget(r) \/ ReaderStep(r)
  PROVE  PassOK(r)'
  <1>1. PassOK(r) /\ ReaderOK(r)
    BY DEF ReadInv, TypeInv
  <1>2. /\ rpc \in [Readers -> {"idle", "open", "lock", "map", "read", "unlock", "dead"}]
        /\ seen \in [Readers -> SUBSET Nat]
    BY DEF TypeInv, TypeOK
  <1>3. CASE Fetch(r) \/ Reread(r) \/ Forget(r) \/ Open(r) \/ Lock(r)
    <2>1. rpc[r] \in {"idle", "open", "lock"} /\ rpc'[r] \in {"idle", "open", "lock", "map"}
      BY <1>2, <1>3 DEF Fetch, Reread, Forget, Open, Lock
    <2>2. seen' = seen
      BY <1>3 DEF Fetch, Reread, Forget, Open, Lock, pass
    <2>3. QED BY <1>1, <2>1, <2>2 DEF PassOK
  <1>4. CASE Map(r) \/ ReadThrows(r)
    <2>1. rpc[r] = "map" /\ rpc'[r] \in {"read", "idle"} /\ seen' = seen
      BY <1>2, <1>4 DEF Map, ReadThrows, pass
    <2>2. QED BY <1>1, <2>1 DEF PassOK
  <1>5. CASE ReadByte(r)
    BY <1>5, ReadBytePass
  <1>6. CASE ReaderFaults(r)
    <2>1. rpc'[r] = "dead"
      BY <1>2, <1>6 DEF ReaderFaults
    <2>2. QED BY <2>1 DEF PassOK
  <1>7. CASE Unlock(r)
    <2>1. rpc'[r] \in {"idle", "open"} /\ seen'[r] = {}
      BY <1>2, <1>7 DEF Unlock
    <2>2. QED BY <2>1 DEF PassOK
  <1>8. QED BY <1>3, <1>4, <1>5, <1>6, <1>7 DEF ReaderStep

\* A reader's step moves no other reader, and nobody else's moves one.
LEMMA WhoMoves ==
  ASSUME TypeInv, [Next]_vars, NEW r \in Readers
  PROVE  \/ rpc'[r] = rpc[r] /\ todo'[r] = todo[r] /\ mapped'[r] = mapped[r] /\ seen'[r] = seen[r]
         \/ Fetch(r) \/ Reread(r) \/ Forget(r) \/ ReaderStep(r)
         \/ rpc'[r] = "dead"
  <1> DEFINE Same == /\ rpc'[r] = rpc[r] /\ todo'[r] = todo[r]
                     /\ mapped'[r] = mapped[r] /\ seen'[r] = seen[r]
  <1>1. CASE UNCHANGED readerVars \/ UNCHANGED vars
    BY <1>1 DEF readerVars, pass, vars
  <1>2. CASE \E size \in Sizes : Put(size)
    BY <1>1, <1>2 DEF Put
  <1>3. CASE ServerOpen \/ ServerStep \/ ResetStartTime \/ AddAgain \/ DeleteData
    BY <1>1, <1>3 DEF ServerOpen, ServerStep, LockToCopy, CopyByte, UnlockAfterCopy, ServerLock,
       ServerUnlock, ServerFaults, SizeRing, OpenMutex, SizeMutex, InitMutex, DeleteMutex,
       ResetStartTime, AddAgain, DeleteData
  <1>4. CASE ClearData \/ ClearMutex
    BY <1>1, <1>4 DEF ClearData, ClearMutex
  <1>5. ASSUME NEW p \in Readers, p # r, Fetch(p) \/ Reread(p) \/ Forget(p) \/ ReaderStep(p)
        PROVE  Same
    <2>1. CASE Fetch(p) \/ Reread(p) \/ Forget(p) \/ Open(p)
      BY <1>5, <2>1 DEF Fetch, Reread, Forget, Open, pass, TypeInv, TypeOK
    <2>2. CASE Lock(p) \/ Map(p) \/ ReadThrows(p) \/ ReadByte(p) \/ ReaderFaults(p) \/ Unlock(p)
      BY <1>5, <2>2 DEF Lock, Map, ReadThrows, ReadByte, ReaderFaults, Unlock, pass, TypeInv, TypeOK
    <2>3. QED BY <1>5, <2>1, <2>2 DEF ReaderStep
  <1>6. CASE \E p \in Procs : Die(p)
    BY <1>6 DEF Die, pass, TypeInv, TypeOK
  <1>7. QED BY <1>1, <1>2, <1>3, <1>4, <1>5, <1>6 DEF Next

LEMMA PassStep ==
  ASSUME TypeInv, ReadInv, [Next]_vars
  PROVE  \A r \in Readers : PassOK(r)'
  <1> SUFFICES ASSUME NEW r \in Readers PROVE PassOK(r)'
    OBVIOUS
  <1>1. CASE rpc'[r] = "dead"
    BY <1>1 DEF PassOK
  <1>2. QED BY <1>1, WhoMoves, PassStays, ReaderPass

LEMMA ReadStep == TypeInv /\ ReadInv /\ [Next]_vars => ReadInv'
  BY CurStep, HeldStep, SeenStep, PassStep DEF ReadInv

LEMMA ReadInvHolds == Spec => [](TypeInv /\ ReadInv)
  BY TypeInit, TypeStep, ReadInit, ReadStep, PTL DEF Spec

(* Every byte a client copies for a message that is still in the topic, or *)
(* that left it and whose bytes the ring has not come round to, is that    *)
(* message's: whatever is put, evicted, popped and reset before the copy   *)
(* or in the middle of it, with the server excluded or not, unless a       *)
(* second add_shared_memory_topic cut off a byte of it.                    *)
THEOREM ReadersReadFresh == Spec => []ReadsFresh
  <1>1. ASSUME TypeInv, ReadInv, NEW r \in Readers, rpc[r] \in {"read", "unlock"},
               mapped[r] = 1, Fresh(Head(todo[r]))
        PROVE  seen[r] \subseteq {Head(todo[r]).id} /\ (rpc[r] = "unlock" => seen[r] # {})
    <2>1. CurInv /\ HeldInv /\ SeenInv /\ PassOK(r)
      BY <1>1 DEF ReadInv
    <2>2. PICK m \in Message : m = Head(todo[r]) /\ Stream(m)
      BY <1>1, <2>1, HeadStream
    <2>3. m.pos \in Nat /\ copied <= cur.size
      BY <2>1 DEF CurInv, Message
    <2>4. Fresh(m)
      BY <1>1, <2>2
    <2>5. m.age = resets /\ Before + copied - m.pos <= ShmSize
      <3>1. CASE m \in {held[i] : i \in DOMAIN held}
        <4>1. m.age = resets /\ pushed - m.pos <= ShmSize
          BY <2>1, <3>1 DEF HeldInv
        <4>2. QED BY <1>1, <2>1, <2>3, <4>1, Numbers DEF Before
      <3>2. CASE m.age = resets /\ Since(m) <= ShmSize
        BY <1>1, <2>1, <2>3, <3>2, Numbers DEF Since, Before
      <3>3. QED BY <2>4, <3>1, <3>2 DEF Fresh
    <2>6. Sound(m)
      BY <2>4, <2>5 DEF Sound, Fresh
    <2>7. QED BY <1>1, <2>1, <2>2, <2>6 DEF PassOK
  <1>2. TypeInv /\ ReadInv => ReadsFresh
    BY <1>1 DEF ReadsFresh
  <1>3. QED BY <1>2, ReadInvHolds, PTL
=============================================================================
