---------------------- MODULE DataTopicQueue_proofs ----------------------
(***************************************************************************)
(* Theorems about what a topic holds and hands out, for every value of the *)
(* constants of DataTopic.                                                 *)
(***************************************************************************)
EXTENDS DataTopic_proofs

(* Between the entries before and after a step: what leaves keeps the      *)
(* order of what stays.                                                    *)
ComesFrom(r, q) ==
    \E f \in [DOMAIN r -> DOMAIN q] :
        /\ \A i \in DOMAIN r : r[i] = q[f[i]]
        /\ \A i, j \in DOMAIN r : i < j => f[i] < f[j]

LEMMA SuffixComesFrom ==
    ASSUME NEW q \in Seq(Entry), NEW k \in 0 .. Len(q)
    PROVE  ComesFrom(SubSeq(q, k + 1, Len(q)), q)
<1> DEFINE r == SubSeq(q, k + 1, Len(q))
           f == [i \in DOMAIN r |-> i + k]
<1>1. /\ DOMAIN r = 1 .. Len(q) - k /\ DOMAIN q = 1 .. Len(q) /\ Len(q) \in Nat
      /\ \A i \in 1 .. Len(q) - k : r[i] = q[i + k]
  BY SuffixProperties, LenProperties
<1> HIDE DEF r
<1>2. f \in [DOMAIN r -> DOMAIN q]
  BY <1>1
<1>3. \A i \in DOMAIN r : r[i] = q[f[i]]
  BY <1>1
<1>4. \A i, j \in DOMAIN r : i < j => f[i] < f[j]
  BY <1>1
<1> HIDE DEF f
<1>5. ComesFrom(r, q)
  BY <1>2, <1>3, <1>4 DEF ComesFrom
<1> QED  BY <1>5 DEF r

LEMMA TailComesFromInOrder ==
    ASSUME NEW q \in Seq(Entry), q # <<>>
    PROVE  ComesFrom(Tail(q), q)
<1> DEFINE r == Tail(q)
           f == [i \in DOMAIN r |-> i + 1]
<1>1. /\ DOMAIN r = 1 .. Len(q) - 1 /\ DOMAIN q = 1 .. Len(q) /\ Len(q) \in Nat
      /\ \A i \in 1 .. Len(q) - 1 : r[i] = q[i + 1]
  BY TailProperties, LenProperties
<1> HIDE DEF r
<1>2. f \in [DOMAIN r -> DOMAIN q]
  BY <1>1
<1>3. \A i \in DOMAIN r : r[i] = q[f[i]]
  BY <1>1
<1>4. \A i, j \in DOMAIN r : i < j => f[i] < f[j]
  BY <1>1
<1> HIDE DEF f
<1>5. ComesFrom(r, q)
  BY <1>2, <1>3, <1>4 DEF ComesFrom
<1> QED  BY <1>5 DEF r

LEMMA FrontComesFrom ==
    ASSUME NEW q \in Seq(Entry), q # <<>>
    PROVE  ComesFrom(Front(q), q)
<1> DEFINE r == Front(q)
           f == [i \in DOMAIN r |-> i]
<1>1. /\ DOMAIN r = 1 .. Len(q) - 1 /\ DOMAIN q = 1 .. Len(q) /\ Len(q) \in Nat
      /\ \A i \in 1 .. Len(q) - 1 : r[i] = q[i]
  BY FrontProperties, LenProperties
<1> HIDE DEF r
<1>2. f \in [DOMAIN r -> DOMAIN q]
  BY <1>1
<1>3. \A i \in DOMAIN r : r[i] = q[f[i]]
  BY <1>1
<1>4. \A i, j \in DOMAIN r : i < j => f[i] < f[j]
  BY <1>1
<1> HIDE DEF f
<1>5. ComesFrom(r, q)
  BY <1>2, <1>3, <1>4 DEF ComesFrom
<1> QED  BY <1>5 DEF r

LEMMA EmptyComesFrom ==
    ASSUME NEW q \in Seq(Entry)
    PROVE  ComesFrom(<<>>, q)
<1>1. DOMAIN <<>> = {}
  BY EmptySeq
<1>2. [i \in {} |-> i] \in [{} -> DOMAIN q]
  OBVIOUS
<1> QED  BY <1>1, <1>2 DEF ComesFrom

LEMMA SameComesFrom ==
    ASSUME NEW q \in Seq(Entry)
    PROVE  ComesFrom(q, q)
<1>1. [i \in DOMAIN q |-> i] \in [DOMAIN q -> DOMAIN q]
  OBVIOUS
<1>2. \A i \in DOMAIN q : q[i] = q[[x \in DOMAIN q |-> x][i]]
  OBVIOUS
<1>3. \A i, j \in DOMAIN q : i < j => [x \in DOMAIN q |-> x][i] < [x \in DOMAIN q |-> x][j]
  OBVIOUS
<1> QED  BY <1>1, <1>2, <1>3 DEF ComesFrom

(* Every step leaves a part of the entries it found, in order, or of those *)
(* and one new entry at the end.                                           *)
NewEntry(e) ==
    /\ e \in Entry
    /\ e.id = nextId
    /\ nextId' = nextId + 1
    /\ pc = "idle"
    /\ UNCHANGED <<ret, delivered>>
    /\ e.ts = now \/ \E skew \in kind.skews : e.ts = now + skew

LEMMA EntriesStep ==
    ASSUME TInv, [Next]_vars
    PROVE  \/ ComesFrom(data', data) /\ nextId' = nextId
           \/ \E e \in Entry : NewEntry(e) /\ ComesFrom(data', Append(data, e))
<1> DEFINE Kept == ComesFrom(data', data) /\ nextId' = nextId
           Added == \E e \in Entry : NewEntry(e) /\ ComesFrom(data', Append(data, e))
<1> SUFFICES Kept \/ Added
  OBVIOUS
<1>t. data \in Seq(Entry) /\ Len(data) \in Nat /\ nextId \in Nat /\ now \in Int
  BY HeldEntries, ConstantTypes DEF TInv, TypeOK
<1>s. ASSUME UNCHANGED <<data, nextId>> PROVE Kept
  BY <1>s, <1>t, SameComesFrom
<1>a. ASSUME NEW e \in Entry, e.id = nextId, AddDataPtr(e),
             e.ts = now \/ \E skew \in kind.skews : e.ts = now + skew
      PROVE  Added
  <2>1. NewEntry(e)
    BY <1>a DEF AddDataPtr, NewEntry
  <2>2. Append(data, e) \in Seq(Entry) /\ Len(Append(data, e)) = Len(data) + 1
    BY <1>t, AppendFacts
  <2>3. PICK k \in PrunedCount(Append(data, e), e.ts) :
            data' = SubSeq(Append(data, e), k + 1, Len(data) + 1)
    BY <1>a DEF AddDataPtr
  <2>4. k \in 0 .. Len(Append(data, e))
    BY <2>3 DEF PrunedCount
  <2> QED  BY <2>1, <2>2, <2>3, <2>4, SuffixComesFrom
<1> HIDE DEF Kept, Added
<1>1. CASE Tick \/ UNCHANGED vars
  BY <1>1, <1>s DEF Tick, vars
<1>2. CASE PutHeap
  <2>1. ClientEntry("heap", now) \in Entry /\ ClientEntry("heap", now).id = nextId
        /\ ClientEntry("heap", now).ts = now
    BY <1>t DEF ClientEntry, Entry
  <2> QED  BY <2>1, <1>2, <1>a DEF PutHeap
<1>3. CASE ClientAdd
  <2>1. PICK loc \in kind.locs, skew \in kind.skews : AddDataPtr(ClientEntry(loc, now + skew))
    BY <1>3 DEF ClientAdd
  <2>2. now + skew \in Int /\ loc \in {"heap", "request"}
    BY <1>t, ConstantTypes DEF TInv, TypeOK
  <2>3. /\ ClientEntry(loc, now + skew) \in Entry
        /\ ClientEntry(loc, now + skew).id = nextId
        /\ ClientEntry(loc, now + skew).ts = now + skew
    BY <1>t, <2>2 DEF ClientEntry, Entry
  <2> QED  BY <2>1, <2>3, <1>a
<1>4. ASSUME NEW size \in Sizes, PutShm(size) PROVE Added
  <2>1. RingEntry(size) \in Entry
    BY <1>t, <1>4, ConstantTypes DEF TInv, TypeOK, RingEntry, Entry
  <2>2. NewEntry(RingEntry(size)) /\ data' = Append(data, RingEntry(size))
    BY <1>4, <2>1 DEF PutShm, NewEntry, RingEntry
  <2>3. Append(data, RingEntry(size)) \in Seq(Entry)
    BY <1>t, <2>1, AppendFacts
  <2> QED  BY <2>1, <2>2, <2>3, SameComesFrom DEF Added
<1>5. ASSUME NEW size \in Sizes, PutTooLarge(size) PROVE Kept
  BY <1>5, <1>s DEF PutTooLarge
<1>6. ASSUME NEW n \in PopArgs, PopBegin(n) PROVE Kept
  BY <1>6, <1>s DEF PopBegin
<1>7. CASE EvictFront \/ PruneFront
  <2>1. data # <<>> /\ data' = Tail(data) /\ nextId' = nextId
    BY <1>7 DEF EvictFront, PruneFront, HeadExpired, RemoveFront
  <2> QED  BY <2>1, <1>t, TailComesFromInOrder DEF Kept
<1>8. CASE CopyToRing \/ PutDone \/ PopDone \/ ParseThrows
  BY <1>8, <1>s DEF CopyToRing, PutDone, PopDone, ParseThrows
<1>9. CASE PopStep
  <2>1. data # <<>> /\ (data' = Front(data) \/ data' = Tail(data)) /\ nextId' = nextId
    BY <1>9, HeldEntries, EmptySeq DEF PopStep, TInv, CountInv
  <2> QED  BY <2>1, <1>t, TailComesFromInOrder, FrontComesFrom DEF Kept
<1>10. ASSUME NEW t \in 0 .. MaxTime, ResetStartTime(t) PROVE Kept
  BY <1>10, <1>t, EmptyComesFrom DEF ResetStartTime, Kept
<1> QED
  BY <1>1, <1>2, <1>3, <1>4, <1>5, <1>6, <1>7, <1>8, <1>9, <1>10 DEF Next, LoopStep

-----------------------------------------------------------------------------
(* What peek returns.                                                      *)

LEMMA PeekIsAsked ==
    ASSUME NEW q \in Seq(Entry), Len(q) <= MaxMsgs, NEW n \in PopArgs
    PROVE  PeekDataPtrs(q, n) = Asked(q, n)
<1> DEFINE len == Len(q)
<1>1. n \in Int /\ MaxMsgs < SizeMod + n /\ n < SizeMod - MaxMsgs
  BY DataTopicAssumption
<1>2. SizeMod \in Nat /\ MaxMsgs \in Nat /\ len \in Nat /\ len <= MaxMsgs
  BY DataTopicAssumption, LenProperties
<1>3. SubSeq(q, 1, len) = q
  BY SubSeqFull
<1>4. CASE q = <<>>
  <2>1. len = 0 /\ PeekDataPtrs(q, n) = <<>>
    BY <1>4, EmptySeq DEF PeekDataPtrs
  <2>2. SubSeq(q, 1, 0) = <<>>
    BY <1>3, <1>4, <2>1
  <2>3. CASE n = 0
    BY <2>1, <2>3, <1>4 DEF Asked
  <2>4. CASE n > 0
    <3>1. Asked(q, n) = SubSeq(q, 1, IF n < len THEN n ELSE len)
      BY <2>4, <1>1 DEF Asked
    <3> QED  BY <3>1, <2>1, <2>2, <2>4, <1>1
  <2>5. CASE n < 0
    <3>1. Asked(q, n) = SubSeq(q, IF len + n + 1 > 1 THEN len + n + 1 ELSE 1, len)
      BY <2>5, <1>1 DEF Asked
    <3>2. ~(len + n + 1 > 1)
      BY <2>1, <2>5, <1>1
    <3> QED  BY <3>1, <3>2, <2>1, <2>2
  <2> QED  BY <2>3, <2>4, <2>5, <1>1
<1>5. CASE q # <<>>
  <2>1. len >= 1
    BY <1>2, <1>5, EmptySeq
  <2> HIDE DEF len
  <2>2. CASE n = 0
    <3>1. ToSizeT(len) = len
      BY <1>2 DEF ToSizeT
    <3>4. ~(len < 0)
      BY <1>2
    <3>2. PeekDataPtrs(q, n) = SubSeq(q, 1, len)
      BY <1>5, <2>2, <3>1, <3>4 DEF PeekDataPtrs, len
    <3>3. Asked(q, n) = q
      BY <2>2 DEF Asked
    <3> QED  BY <3>2, <3>3, <1>3 DEF len
  <2>3. CASE n > 0
    <3>1. ToSizeT(n) = n /\ n # 0 /\ ~(n < 0)
      BY <1>1, <2>3 DEF ToSizeT
    <3>2. PeekDataPtrs(q, n) = SubSeq(q, 1, IF n > len THEN len ELSE n)
      BY <1>5, <3>1 DEF PeekDataPtrs, len
    <3>3. Asked(q, n) = SubSeq(q, 1, IF n < len THEN n ELSE len)
      BY <2>3, <3>1 DEF Asked, len
    <3>4. CASE n > len
      <4>1. ~(n < len)
        BY <3>4, <1>1, <1>2
      <4> QED  BY <3>2, <3>3, <3>4, <4>1
    <3>5. CASE n = len
      BY <3>2, <3>3, <3>5
    <3>6. CASE n < len
      <4>1. ~(n > len)
        BY <3>6, <1>1, <1>2
      <4> QED  BY <3>2, <3>3, <3>6, <4>1
    <3> QED  BY <3>4, <3>5, <3>6, <1>1, <1>2
  <2>4. CASE n < 0
    <3> DEFINE last == IF ToSizeT(n) < ToSizeT(-len) THEN len ELSE -n
               from == IF len + n + 1 > 1 THEN len + n + 1 ELSE 1
    <3>1. n # 0 /\ ~(n > 0)
      BY <1>1, <2>4
    <3>2. PeekDataPtrs(q, n) = SubSeq(q, len - last + 1, len)
      BY <1>5, <2>4, <3>1 DEF PeekDataPtrs, len
    <3>3. Asked(q, n) = SubSeq(q, from, len)
      BY <2>4, <3>1 DEF Asked, len
    <3>4. ToSizeT(n) = n + SizeMod /\ ToSizeT(-len) = SizeMod - len
      BY <1>1, <1>2, <2>1, <2>4 DEF ToSizeT
    <3>5. CASE n < -len
      <4>1. last = len /\ from = 1
        BY <3>4, <3>5, <1>1, <1>2
      <4> QED  BY <4>1, <3>2, <3>3, <1>2
    <3>6. CASE ~(n < -len)
      <4>1. last = -n
        BY <3>4, <3>6, <1>1, <1>2
      <4>2. from = len + n + 1
        BY <3>6, <1>1, <1>2
      <4> HIDE DEF last, from
      <4>3. len - last + 1 = from
        BY <4>1, <4>2, <1>1, <1>2
      <4> QED  BY <4>3, <3>2, <3>3
    <3> QED  BY <3>5, <3>6
  <2> QED  BY <2>2, <2>3, <2>4, <1>1
<1> QED  BY <1>4, <1>5

(* peek returns the first n, the last |n| or all of the entries, through   *)
(* every comparison of an int32_t with a size_t, for every n and content   *)
(* that 64 bits can tell apart (data_topic.cpp:134-161).                   *)
THEOREM PeekCorrect == Spec => []PeekReturnsAsked
<1>1. Init => TInv
  BY TInvInit
<1>2. TInv /\ [Next]_vars => TInv'
  BY TInvNext
<1>3. TInv => PeekReturnsAsked
  <2> SUFFICES ASSUME TInv PROVE PeekReturnsAsked
    OBVIOUS
  <2>1. /\ data \in Seq(Entry) /\ Len(data) \in Nat /\ Len(data) < nextId
        /\ nextId \in 1 .. MaxMsgs + 1 /\ MaxMsgs \in Nat
    BY HeldEntries, ConstantTypes DEF TInv, TypeOK, CountInv
  <2>2. Len(data) <= MaxMsgs
    BY <2>1
  <2> QED  BY <2>1, <2>2, PeekIsAsked DEF PeekReturnsAsked
<1> QED  BY <1>1, <1>2, <1>3, PTL DEF Spec

-----------------------------------------------------------------------------
(* Every message is handed out once and in order.  The argument: numbers   *)
(* grow along delivered, then ret, and along delivered, then data; a pop   *)
(* that finishes has emptied data.                                         *)

Increasing(s) == \A i, j \in DOMAIN s : i < j => s[i] < s[j]

IdsGrow(q) == \A i, j \in DOMAIN q : i < j => q[i].id < q[j].id
After(q) == \A i \in DOMAIN delivered, j \in DOMAIN q : delivered[i] < q[j].id

OrderInv ==
    /\ TInv
    /\ Increasing(delivered)
    /\ \A i \in DOMAIN delivered : delivered[i] < nextId
    /\ IdsGrow(data) /\ After(data)
    /\ IdsGrow(ret) /\ After(ret)
    /\ \A i \in DOMAIN ret : ret[i].id < nextId
    /\ pc # "pop" => ret = <<>>

LEMMA GrowKept ==
    ASSUME NEW r, NEW q, ComesFrom(r, q)
    PROVE  /\ IdsGrow(q) => IdsGrow(r)
           /\ After(q) => After(r)
<1>1. PICK f \in [DOMAIN r -> DOMAIN q] :
        /\ \A i \in DOMAIN r : r[i] = q[f[i]]
        /\ \A i, j \in DOMAIN r : i < j => f[i] < f[j]
  BY DEF ComesFrom
<1>2. \A i \in DOMAIN r : f[i] \in DOMAIN q
  OBVIOUS
<1> QED  BY <1>1, <1>2 DEF IdsGrow, After

(* What pop returns joins what it returned before. *)
LEMMA HandOut ==
    ASSUME NEW d \in Seq(Nat), NEW q \in Seq(Entry), Increasing(d), IdsGrow(q),
           \A i \in DOMAIN d, j \in DOMAIN q : d[i] < q[j].id
    PROVE  /\ Increasing(d \o IdsOf(q))
           /\ \A m \in DOMAIN (d \o IdsOf(q)) :
                \/ \E i \in DOMAIN d : (d \o IdsOf(q))[m] = d[i]
                \/ \E j \in DOMAIN q : (d \o IdsOf(q))[m] = q[j].id
<1> DEFINE s == IdsOf(q)
           h == d \o s
<1>1. DOMAIN q = 1 .. Len(q) /\ Len(q) \in Nat /\ DOMAIN d = 1 .. Len(d) /\ Len(d) \in Nat
  BY LenProperties
<1>2. s \in Seq(Nat) /\ Len(s) = Len(q) /\ \A j \in 1 .. Len(q) : s[j] = q[j].id
  <2>1. \A j \in DOMAIN q : q[j].id \in Nat
    BY <1>1, ElementOfSeq, EntryFields
  <2>2. s \in [1 .. Len(q) -> Nat]
    BY <1>1, <2>1 DEF IdsOf
  <2>3. s \in Seq(Nat)
    BY <1>1, <2>2, SeqDef
  <2>4. Len(s) = Len(q)
    BY <1>1, <2>2, <2>3, LenProperties
  <2> QED  BY <1>1, <2>3, <2>4 DEF IdsOf
<1> HIDE DEF s
<1>3. /\ h \in Seq(Nat) /\ Len(h) = Len(d) + Len(s)
      /\ \A i \in 1 .. Len(d) + Len(s) : h[i] = IF i <= Len(d) THEN d[i] ELSE s[i - Len(d)]
  BY <1>2, ConcatProperties
<1>4. DOMAIN h = 1 .. Len(d) + Len(q)
  BY <1>2, <1>3, LenProperties
<1> HIDE DEF h
<1>5. ASSUME NEW m \in DOMAIN h
      PROVE  \/ m \in DOMAIN d /\ h[m] = d[m]
             \/ m > Len(d) /\ m - Len(d) \in DOMAIN q /\ h[m] = q[m - Len(d)].id
  <2>1. m \in Nat /\ 1 <= m /\ m <= Len(d) + Len(q)
    BY <1>1, <1>4
  <2>2. CASE m <= Len(d)
    <3>1. h[m] = d[m]
      BY <2>1, <2>2, <1>2, <1>3
    <3> QED  BY <3>1, <2>1, <2>2, <1>1
  <2>3. CASE ~(m <= Len(d))
    <3>1. m - Len(d) \in 1 .. Len(q) /\ m > Len(d)
      BY <2>1, <2>3, <1>1
    <3>2. h[m] = s[m - Len(d)]
      BY <2>1, <2>3, <1>2, <1>3
    <3> QED  BY <3>1, <3>2, <1>1, <1>2
  <2> QED  BY <2>2, <2>3
<1>6. ASSUME NEW i \in DOMAIN h, NEW j \in DOMAIN h, i < j
      PROVE  h[i] < h[j]
  <2>1. i \in Nat /\ j \in Nat /\ Len(d) \in Nat
    BY <1>1, <1>4
  <2>2. CASE i \in DOMAIN d /\ h[i] = d[i]
    BY <2>2, <1>5, <1>6 DEF Increasing
  <2>3. CASE i > Len(d) /\ i - Len(d) \in DOMAIN q /\ h[i] = q[i - Len(d)].id
    <3>1. j > Len(d) /\ i - Len(d) < j - Len(d)
      BY <2>1, <2>3, <1>6
    <3>2. j \notin DOMAIN d
      BY <3>1, <2>1, <1>1
    <3>3. j - Len(d) \in DOMAIN q /\ h[j] = q[j - Len(d)].id
      BY <3>2, <1>5
    <3> QED  BY <2>3, <3>1, <3>3 DEF IdsGrow
  <2> QED  BY <2>2, <2>3, <1>5
<1>7. Increasing(h)
  BY <1>6 DEF Increasing
<1> QED  BY <1>5, <1>7 DEF h, s

LEMMA OrderInvInit == Init => OrderInv
<1> SUFFICES ASSUME Init PROVE OrderInv
  OBVIOUS
<1>1. DOMAIN <<>> = {}
  BY EmptySeq
<1>2. data = <<>> /\ ret = <<>> /\ delivered = <<>>
  BY DEF Init
<1> QED  BY <1>1, <1>2, TInvInit DEF OrderInv, Increasing, IdsGrow, After

LEMMA OrderInvNext == OrderInv /\ [Next]_vars => OrderInv'
<1> SUFFICES ASSUME OrderInv, [Next]_vars PROVE OrderInv'
  OBVIOUS
<1> DEFINE DataGrows == IdsGrow(data') /\ \A i \in DOMAIN delivered, j \in DOMAIN data' :
                                              delivered[i] < data'[j].id
           Handing == /\ Increasing(delivered)
                      /\ \A i \in DOMAIN delivered : delivered[i] < nextId
                      /\ IdsGrow(ret) /\ After(ret)
                      /\ \A i \in DOMAIN ret : ret[i].id < nextId
                      /\ pc # "pop" => ret = <<>>
<1>1. TInv' /\ TInv
  BY TInvNext DEF OrderInv
<1>2. /\ data \in Seq(Entry) /\ ret \in Seq(Entry) /\ delivered \in Seq(Nat) /\ nextId \in Nat
      /\ DOMAIN data = 1 .. Len(data) /\ Len(data) \in Nat
      /\ \A i \in DOMAIN data : data[i].id < nextId
      /\ \A i \in DOMAIN data : data[i].id \in Nat
      /\ \A i \in DOMAIN ret : ret[i].id \in Nat
      /\ \A i \in DOMAIN delivered : delivered[i] \in Nat
  <2>1. data \in Seq(Entry) /\ ret \in Seq(Entry) /\ delivered \in Seq(Nat) /\ nextId \in Nat
    <3>1. nextId \in 1 .. MaxMsgs + 1 /\ MaxMsgs \in Nat
      BY <1>1, ConstantTypes DEF TInv, TypeOK
    <3> QED  BY <1>1, <3>1 DEF TInv, TypeOK
  <2>2. DOMAIN ret = 1 .. Len(ret) /\ DOMAIN delivered = 1 .. Len(delivered)
    BY <2>1, LenProperties
  <2>3. \A i \in DOMAIN ret : ret[i].id \in Nat
    BY <2>1, <2>2, ElementOfSeq, EntryFields
  <2>4. \A i \in DOMAIN delivered : delivered[i] \in Nat
    BY <2>1, <2>2, ElementOfSeq
  <2>5. /\ DOMAIN data = 1 .. Len(data) /\ Len(data) \in Nat
        /\ \A i \in DOMAIN data : data[i].id \in Nat
    BY <1>1, HeldEntries, EntryFields DEF TInv
  <2> QED  BY <1>1, <2>1, <2>3, <2>4, <2>5 DEF TInv, CountInv
<1>3. IdsGrow(data) /\ After(data) /\ Handing
  BY DEF OrderInv
<1>4. DataGrows /\ nextId' \in {nextId, nextId + 1}
  <2>1. CASE ComesFrom(data', data) /\ nextId' = nextId
    BY <1>3, <2>1, GrowKept DEF After
  <2>2. CASE \E e \in Entry : NewEntry(e) /\ ComesFrom(data', Append(data, e))
    <3>1. PICK e \in Entry : NewEntry(e) /\ ComesFrom(data', Append(data, e))
      BY <2>2
    <3> DEFINE q == Append(data, e)
    <3>2. /\ DOMAIN q = 1 .. Len(data) + 1 /\ e.id = nextId
          /\ \A i \in 1 .. Len(data) : q[i] = data[i]
          /\ q[Len(data) + 1] = e
      BY <1>2, <3>1, AppendFacts DEF NewEntry
    <3> HIDE DEF q
    <3>3. \A i \in DOMAIN q : (i \in DOMAIN data /\ q[i] = data[i]) \/ (i = Len(data) + 1 /\ q[i] = e)
      BY <1>2, <3>2
    <3>4. IdsGrow(q)
      <4> SUFFICES ASSUME NEW i \in DOMAIN q, NEW j \in DOMAIN q, i < j
                   PROVE  q[i].id < q[j].id
        BY DEF IdsGrow
      <4>1. i \in DOMAIN data /\ q[i] = data[i]
        BY <1>2, <3>2, <3>3
      <4> QED  BY <4>1, <3>3, <3>2, <1>2, <1>3 DEF IdsGrow
    <3>5. After(q)
      BY <3>2, <3>3, <1>3 DEF After
    <3>6. nextId' = nextId + 1
      BY <3>1 DEF NewEntry
    <3> QED  BY <3>1, <3>4, <3>5, <3>6, GrowKept DEF After, q
  <2> QED  BY <1>1, <2>1, <2>2, EntriesStep
<1>5. \A x \in Nat : x < nextId => x < nextId'
  BY <1>2, <1>4
<1>6. ASSUME UNCHANGED <<ret, delivered>>, pc' # "pop" => pc # "pop"
      PROVE  OrderInv'
  <2>1. /\ \A i \in DOMAIN delivered : delivered[i] < nextId'
        /\ \A i \in DOMAIN ret : ret[i].id < nextId'
    BY <1>2, <1>3, <1>5
  <2>2. pc' # "pop" => ret' = <<>>
    BY <1>3, <1>6
  <2> QED  BY <1>1, <1>3, <1>4, <1>6, <2>1, <2>2 DEF OrderInv, After, Increasing, IdsGrow
<1>7. ASSUME ret' = <<>>, delivered' = delivered PROVE OrderInv'
  <2>1. DOMAIN <<>> = {}
    BY EmptySeq
  <2>2. \A i \in DOMAIN delivered : delivered[i] < nextId'
    BY <1>2, <1>3, <1>5
  <2>3. IdsGrow(ret)' /\ After(ret)' /\ \A i \in DOMAIN ret' : ret'[i].id < nextId'
    BY <1>7, <2>1 DEF IdsGrow, After
  <2> QED  BY <1>1, <1>3, <1>4, <1>7, <2>2, <2>3 DEF OrderInv, After, Increasing, IdsGrow
<1>8. CASE PopDone
  <2>1. /\ pc = "pop" /\ left = 0 /\ ret' = <<>> /\ delivered' = delivered \o IdsOf(ret)
        /\ UNCHANGED <<data, nextId>>
    BY <1>8 DEF PopDone, IdsOf
  <2>2. data = <<>>
    BY <1>1, <1>2, <2>1, EmptySeq DEF TInv, CountInv
  <2>3. DOMAIN <<>> = {}
    BY EmptySeq
  <2>4. /\ Increasing(delivered \o IdsOf(ret))
        /\ \A m \in DOMAIN (delivered \o IdsOf(ret)) :
             \/ \E i \in DOMAIN delivered : (delivered \o IdsOf(ret))[m] = delivered[i]
             \/ \E j \in DOMAIN ret : (delivered \o IdsOf(ret))[m] = ret[j].id
    BY <1>2, <1>3, HandOut DEF After
  <2>5. Increasing(delivered') /\ \A i \in DOMAIN delivered' : delivered'[i] < nextId'
    BY <2>1, <2>4, <1>3
  <2>6. IdsGrow(data)' /\ After(data)' /\ IdsGrow(ret)' /\ After(ret)'
    BY <2>1, <2>2, <2>3 DEF IdsGrow, After
  <2>7. \A i \in DOMAIN ret' : ret'[i].id < nextId'
    BY <2>1, <2>3
  <2> QED  BY <1>1, <2>1, <2>5, <2>6, <2>7 DEF OrderInv
<1>9. ASSUME NEW n \in PopArgs, PopBegin(n) PROVE OrderInv'
  <2>1. ret' = data /\ pc' = "pop" /\ UNCHANGED <<data, nextId, delivered>>
    BY <1>1, <1>9, TInvPopBegin DEF PopBegin
  <2>2. /\ Increasing(delivered)' /\ \A i \in DOMAIN delivered' : delivered'[i] < nextId'
    BY <2>1, <1>3 DEF Increasing
  <2>3. IdsGrow(data)' /\ After(data)' /\ IdsGrow(ret)' /\ After(ret)'
    BY <2>1, <1>3 DEF IdsGrow, After
  <2>4. \A i \in DOMAIN ret' : ret'[i].id < nextId'
    BY <2>1, <1>2
  <2> QED  BY <1>1, <2>1, <2>2, <2>3, <2>4 DEF OrderInv
<1>10. ASSUME NEW e, AddDataPtr(e) PROVE OrderInv'
  BY <1>10, <1>6 DEF AddDataPtr
<1>11. CASE Tick \/ PutHeap \/ ClientAdd \/ UNCHANGED vars
  <2>1. CASE Tick \/ UNCHANGED vars
    BY <2>1, <1>6 DEF Tick, vars
  <2> QED  BY <2>1, <1>10, <1>11 DEF PutHeap, ClientAdd
<1>12. ASSUME NEW size \in Sizes, PutShm(size) \/ PutTooLarge(size) PROVE OrderInv'
  BY <1>12, <1>6 DEF PutShm, PutTooLarge
<1>13. CASE EvictFront \/ CopyToRing \/ PruneFront \/ PutDone \/ PopStep
  BY <1>13, <1>6 DEF EvictFront, CopyToRing, PruneFront, PutDone, PopStep
<1>14. CASE ParseThrows
  BY <1>14, <1>7 DEF ParseThrows
<1>15. ASSUME NEW t \in 0 .. MaxTime, ResetStartTime(t) PROVE OrderInv'
  BY <1>15, <1>6 DEF ResetStartTime
<1> QED
  BY <1>8, <1>9, <1>11, <1>12, <1>13, <1>14, <1>15 DEF Next, LoopStep

(* On every topic, whatever is put, pruned, evicted, popped from either    *)
(* side or reset, and even after an exception: no message is handed out    *)
(* twice, messages are handed out in the order of the puts, and what was   *)
(* handed out is not in the topic any more (data_topic.cpp:163-213).       *)
THEOREM PopInOrder == Spec => []PoppedOnceInOrder
<1>1. OrderInv => PoppedOnceInOrder
  <2> SUFFICES ASSUME OrderInv PROVE PoppedOnceInOrder
    OBVIOUS
  <2>1. delivered \in Seq(Nat) /\ ret \in Seq(Entry)
    BY DEF OrderInv, TInv, TypeOK
  <2>2. Increasing(Handed)
    BY <2>1, HandOut DEF OrderInv, After, Handed
  <2> QED  BY <2>2 DEF OrderInv, After, PoppedOnceInOrder, Increasing
<1> QED  BY <1>1, OrderInvInit, OrderInvNext, PTL DEF Spec

-----------------------------------------------------------------------------
(* Retention.  With clocks that agree, stamps grow along the deque, so the *)
(* pruning loops, which stop at the first entry that is young enough, have *)
(* removed every old one.                                                  *)

Synced == kind.skews \subseteq {0} /\ ~(IsShm /\ "heap" \in kind.locs)

StampsGrow(q) == \A i, j \in DOMAIN q : i < j => q[i].ts <= q[j].ts
UpTo(q, ts) == \A i \in DOMAIN q : q[i].ts <= ts
Fresh(q) == \A i \in DOMAIN q : ~Expired(q[i], Last(q).ts)

StampInv ==
    /\ StampsGrow(data)
    /\ UpTo(data, now)
    /\ pc \in {"evict", "prune"} => data = <<>> \/ Last(data) = cur
    /\ pc \in {"idle", "pop"} => Fresh(data)

SInv == RInv /\ (Synced => StampInv)

LEMMA StampsKept ==
    ASSUME NEW q \in Seq(Entry), NEW r \in Seq(Entry), ComesFrom(r, q)
    PROVE  /\ StampsGrow(q) => StampsGrow(r)
           /\ \A ts : UpTo(q, ts) => UpTo(r, ts)
           /\ StampsGrow(q) /\ Fresh(q) => Fresh(r)
<1>1. PICK f \in [DOMAIN r -> DOMAIN q] :
        /\ \A i \in DOMAIN r : r[i] = q[f[i]]
        /\ \A i, j \in DOMAIN r : i < j => f[i] < f[j]
  BY DEF ComesFrom
<1>2. \A i \in DOMAIN r : f[i] \in DOMAIN q
  OBVIOUS
<1>3. /\ DOMAIN q = 1 .. Len(q) /\ Len(q) \in Nat /\ DOMAIN r = 1 .. Len(r) /\ Len(r) \in Nat
      /\ \A i \in DOMAIN q : q[i] \in Entry
  BY LenProperties, ElementOfSeq
<1>4. \A i \in DOMAIN q : q[i].ts \in Int
  BY <1>3, EntryFields
<1>5. StampsGrow(q) => StampsGrow(r)
  BY <1>1, <1>2 DEF StampsGrow
<1>6. \A ts : UpTo(q, ts) => UpTo(r, ts)
  BY <1>1, <1>2 DEF UpTo
<1>7. ASSUME StampsGrow(q), Fresh(q), NEW i \in DOMAIN r
      PROVE  ~Expired(r[i], Last(r).ts)
  <2>1. Len(r) \in DOMAIN r /\ Last(r) = r[Len(r)]
    BY <1>3 DEF Last
  <2> DEFINE m == f[Len(r)]
  <2>2. m \in DOMAIN q /\ Last(r) = q[m] /\ f[i] \in DOMAIN q /\ r[i] = q[f[i]]
    BY <1>1, <1>2, <2>1
  <2> HIDE DEF m
  <2>3. Len(q) \in DOMAIN q /\ Last(q) = q[Len(q)] /\ (m < Len(q) \/ m = Len(q))
    BY <1>3, <2>2 DEF Last
  <2>4. q[m].ts <= q[Len(q)].ts
    BY <1>4, <1>7, <2>2, <2>3 DEF StampsGrow
  <2>5. ~(q[Len(q)].ts - q[f[i]].ts > Retention)
    BY <1>7, <2>2, <2>3 DEF Fresh, Expired
  <2>6. q[Len(q)].ts \in Int /\ q[f[i]].ts \in Int /\ q[m].ts \in Int /\ Retention \in Nat
    BY <1>4, <2>2, <2>3, ConstantTypes
  <2>7. ~(q[m].ts - q[f[i]].ts > Retention)
    BY <2>4, <2>5, <2>6
  <2> QED  BY <2>2, <2>7 DEF Expired
<1> QED  BY <1>5, <1>6, <1>7 DEF Fresh

LEMMA NowGrows ==
    ASSUME TypeOK, [Next]_vars
    PROVE  now' >= now \/ data' = <<>>
<1>1. now \in Int
  BY DEF TypeOK
<1>2. CASE now' = now \/ now' = now + 1
  BY <1>1, <1>2
<1>3. ASSUME NEW e, AddDataPtr(e) PROVE now' = now
  BY <1>3 DEF AddDataPtr
<1>4. CASE Tick \/ PutHeap \/ ClientAdd \/ UNCHANGED vars
  BY <1>2, <1>3, <1>4 DEF Tick, PutHeap, ClientAdd, vars
<1>5. ASSUME NEW size, PutShm(size) \/ PutTooLarge(size) PROVE now' = now
  BY <1>5 DEF PutShm, PutTooLarge
<1>6. ASSUME NEW n, PopBegin(n) PROVE now' = now
  BY <1>6 DEF PopBegin
<1>7. CASE LoopStep
  BY <1>2, <1>7 DEF LoopStep, EvictFront, CopyToRing, PruneFront, PutDone, PopStep, PopDone,
                    ParseThrows
<1>8. ASSUME NEW t, ResetStartTime(t) PROVE data' = <<>>
  BY <1>8 DEF ResetStartTime
<1> QED  BY <1>2, <1>4, <1>5, <1>6, <1>7, <1>8 DEF Next

(* With clocks that agree a new entry is the youngest. *)
LEMMA StampsAppend ==
    ASSUME NEW q \in Seq(Entry), NEW e \in Entry, StampsGrow(q), UpTo(q, e.ts)
    PROVE  /\ Append(q, e) \in Seq(Entry)
           /\ StampsGrow(Append(q, e)) /\ UpTo(Append(q, e), e.ts)
           /\ Last(Append(q, e)) = e
<1> DEFINE r == Append(q, e)
<1>1. /\ r \in Seq(Entry) /\ Len(r) = Len(q) + 1
      /\ DOMAIN r = 1 .. Len(q) + 1 /\ DOMAIN q = 1 .. Len(q) /\ Len(q) \in Nat
      /\ \A i \in 1 .. Len(q) : r[i] = q[i]
      /\ r[Len(q) + 1] = e
  BY AppendFacts, LenProperties
<1>2. Last(r) = e
  BY <1>1 DEF Last
<1> HIDE DEF r
<1>3. \A i \in DOMAIN r : (i \in DOMAIN q /\ r[i] = q[i]) \/ (i = Len(q) + 1 /\ r[i] = e)
  BY <1>1
<1>4. e.ts \in Int
  BY EntryFields
<1>5. UpTo(r, e.ts)
  BY <1>3, <1>4 DEF UpTo
<1>6. ASSUME NEW i \in DOMAIN r, NEW j \in DOMAIN r, i < j
      PROVE  r[i].ts <= r[j].ts
  <2>1. i \in DOMAIN q /\ r[i] = q[i]
    BY <1>1, <1>6
  <2> QED  BY <2>1, <1>3, <1>6 DEF StampsGrow, UpTo
<1> QED  BY <1>1, <1>2, <1>5, <1>6 DEF StampsGrow, r

LEMMA StampsNext ==
    ASSUME SInv, Synced, [Next]_vars
    PROVE  StampsGrow(data') /\ UpTo(data', now')
<1>1. /\ data \in Seq(Entry) /\ data' \in Seq(Entry) /\ now \in Int /\ now' \in Int
      /\ TypeOK /\ StampsGrow(data) /\ UpTo(data, now)
  BY TInvNext DEF SInv, RInv, TInv, TypeOK, StampInv
<1>2. StampsGrow(data') /\ UpTo(data', now)
  <2>1. CASE ComesFrom(data', data)
    BY <1>1, <2>1, StampsKept
  <2>2. ASSUME NEW e \in Entry, NewEntry(e), ComesFrom(data', Append(data, e))
        PROVE  StampsGrow(data') /\ UpTo(data', now)
    <3>1. e.ts = now
      BY <1>1, <2>2 DEF NewEntry, Synced
    <3> QED  BY <1>1, <2>2, <3>1, StampsAppend, StampsKept
  <2> QED  BY <2>1, <2>2, EntriesStep DEF SInv, RInv
<1>3. CASE now' >= now
  <2>1. \A i \in DOMAIN data' : data'[i].ts \in Int
    <3>1. \A i \in DOMAIN data' : data'[i] \in Entry
      BY <1>1, LenProperties, ElementOfSeq
    <3> QED  BY <3>1, EntryFields
  <2>2. UpTo(data', now')
    BY <1>1, <1>2, <1>3, <2>1 DEF UpTo
  <2> QED  BY <1>2, <2>2
<1>4. CASE data' = <<>>
  BY <1>2, <1>4, EmptySeq DEF UpTo
<1> QED  BY <1>1, <1>3, <1>4, NowGrows

(* What is left by the pruning loop of add_data_ptr is young enough. *)
LEMMA FreshAdd ==
    ASSUME SInv, Synced, NEW e \in Entry, e.ts = now, AddDataPtr(e)
    PROVE  Fresh(data')
<1> DEFINE q == Append(data, e)
<1>1. data \in Seq(Entry) /\ StampsGrow(data) /\ UpTo(data, now) /\ Retention \in Nat
  BY ConstantTypes DEF SInv, RInv, TInv, TypeOK, StampInv
<1>2. /\ q \in Seq(Entry) /\ StampsGrow(q) /\ UpTo(q, e.ts) /\ Last(q) = e
      /\ Len(q) = Len(data) + 1
  BY <1>1, StampsAppend, AppendFacts
<1>3. PICK k \in PrunedCount(q, e.ts) : data' = SubSeq(q, k + 1, Len(data) + 1)
  BY DEF AddDataPtr
<1> HIDE DEF q
<1>4. /\ k \in 0 .. Len(q) /\ (k < Len(q) => ~Expired(q[k + 1], e.ts))
      /\ data' = SubSeq(q, k + 1, Len(q))
      /\ DOMAIN q = 1 .. Len(q) /\ Len(q) \in Nat
  BY <1>2, <1>3, LenProperties DEF PrunedCount
<1>5. /\ Len(data') = Len(q) - k /\ DOMAIN data' = 1 .. Len(q) - k
      /\ \A i \in 1 .. Len(q) - k : data'[i] = q[i + k]
  BY <1>2, <1>4, SuffixProperties
<1>6. ASSUME NEW i \in DOMAIN data'
      PROVE  ~Expired(data'[i], Last(data').ts)
  <2>1. /\ k < Len(q) /\ k + 1 \in DOMAIN q /\ i + k \in DOMAIN q
        /\ k + 1 = i + k \/ k + 1 < i + k
        /\ data'[i] = q[i + k] /\ Len(q) \in DOMAIN q
    <3>1. i \in 1 .. Len(q) - k /\ k \in 0 .. Len(q) /\ Len(q) \in Nat
      BY <1>4, <1>5
    <3>2. k < Len(q) /\ 1 <= Len(q) /\ (k + 1 = i + k \/ k + 1 < i + k) /\ i + k <= Len(q)
      BY <3>1
    <3>3. k + 1 \in 1 .. Len(q) /\ i + k \in 1 .. Len(q) /\ Len(q) \in 1 .. Len(q)
      BY <3>1, <3>2
    <3>4. DOMAIN q = 1 .. Len(q) /\ data'[i] = q[i + k]
      BY <1>4, <1>5, <3>1
    <3> QED  BY <3>2, <3>3, <3>4
  <2>2. Last(data') = q[Len(q)]
    <3>1. Len(data') \in 1 .. Len(q) - k /\ Len(data') + k = Len(q)
      BY <1>4, <1>5, <2>1
    <3> QED  BY <1>5, <3>1 DEF Last
  <2>3. Last(data').ts = e.ts
    BY <1>2, <2>2 DEF Last
  <2>4. q[k + 1].ts \in Int /\ q[i + k].ts \in Int /\ e.ts \in Int
    BY <1>2, <2>1, ElementOfSeq, EntryFields, <1>4
  <2>5. q[k + 1].ts <= q[i + k].ts
    BY <1>2, <2>1, <2>4 DEF StampsGrow
  <2>6. ~(e.ts - q[k + 1].ts > Retention)
    BY <1>4, <2>1 DEF Expired
  <2>7. ~(e.ts - q[i + k].ts > Retention)
    BY <2>4, <2>5, <2>6, <1>1
  <2> QED  BY <2>1, <2>3, <2>7 DEF Expired
<1> QED  BY <1>6 DEF Fresh

LEMMA CurKept ==
    ASSUME data \in Seq(Entry), data # <<>>, Last(data) = cur, data' = Tail(data), cur' = cur
    PROVE  data' = <<>> \/ Last(data') = cur'
<1>1. /\ Tail(data) \in Seq(Entry) /\ Len(data) >= 1 /\ Len(data) \in Nat
      /\ Len(Tail(data)) = Len(data) - 1
      /\ \A i \in 1 .. Len(data) - 1 : Tail(data)[i] = data[i + 1]
  BY TailProperties, LenProperties
<1>2. CASE Len(data) = 1
  <2>1. Len(Tail(data)) = 0
    BY <1>1, <1>2
  <2> QED  BY <1>1, <2>1, EmptySeq
<1>3. CASE Len(data) # 1
  <2>1. Len(data) - 1 \in 1 .. Len(data) - 1 /\ Len(data) - 1 + 1 = Len(data)
    BY <1>1, <1>3
  <2>2. Tail(data)[Len(data) - 1] = data[Len(data)]
    BY <1>1, <2>1
  <2> QED  BY <1>1, <2>2 DEF Last
<1> QED  BY <1>2, <1>3

LEMMA SInvNext == SInv /\ [Next]_vars => SInv'
<1> SUFFICES ASSUME SInv, [Next]_vars PROVE SInv'
  OBVIOUS
<1>1. RInv' /\ RInv /\ TInv
  BY RInvNext DEF SInv, RInv
<1>2. Synced' <=> Synced
  BY KindKept DEF Synced
<1> SUFFICES ASSUME Synced PROVE StampInv'
  BY <1>1, <1>2 DEF SInv
<1>3. /\ data \in Seq(Entry) /\ data' \in Seq(Entry) /\ now \in Int /\ StampInv
      /\ StampsGrow(data') /\ UpTo(data', now')
  BY <1>1, StampsNext DEF SInv, RInv, TInv, TypeOK
<1> DEFINE Rest == /\ pc \in {"evict", "prune"} => data = <<>> \/ Last(data) = cur
                   /\ pc \in {"idle", "pop"} => Fresh(data)
<1> SUFFICES Rest'
  BY <1>3 DEF StampInv
<1>4. Rest
  BY <1>3 DEF StampInv
<1>5. CASE Tick \/ UNCHANGED vars
  BY <1>4, <1>5 DEF Tick, vars, Fresh
<1>6. ASSUME NEW e \in Entry, e.ts = now, AddDataPtr(e) PROVE Rest'
  <2>1. pc' = "idle" /\ Fresh(data')
    BY <1>6, FreshAdd DEF AddDataPtr
  <2> QED  BY <2>1
<1>7. CASE PutHeap
  <2>1. ClientEntry("heap", now) \in Entry /\ ClientEntry("heap", now).ts = now
    BY <1>1, <1>3, ConstantTypes DEF TInv, TypeOK, ClientEntry, Entry
  <2> QED  BY <2>1, <1>6, <1>7 DEF PutHeap
<1>8. CASE ClientAdd
  <2>1. PICK loc \in kind.locs, skew \in kind.skews : AddDataPtr(ClientEntry(loc, now + skew))
    BY <1>8 DEF ClientAdd
  <2>2. now + skew = now /\ loc \in {"heap", "request"} /\ nextId \in Nat
    BY <1>1, <1>3, ConstantTypes DEF Synced, TInv, TypeOK
  <2>3. ClientEntry(loc, now) \in Entry /\ ClientEntry(loc, now).ts = now
    BY <1>3, <2>2 DEF ClientEntry, Entry
  <2> QED  BY <2>1, <2>2, <2>3, <1>6
<1>9. ASSUME NEW size \in Sizes, PutShm(size) PROVE Rest'
  <2>1. RingEntry(size) \in Entry
    BY SMTT(20), <1>1, <1>9, <1>3, ConstantTypes DEF TInv, TypeOK, RingEntry, Entry
  <2>2. /\ Len(data) \in Nat /\ Append(data, RingEntry(size)) \in Seq(Entry)
        /\ Len(Append(data, RingEntry(size))) = Len(data) + 1
        /\ Append(data, RingEntry(size))[Len(data) + 1] = RingEntry(size)
    BY <1>3, <2>1, AppendFacts, LenProperties
  <2>3. Last(Append(data, RingEntry(size))) = RingEntry(size)
    BY <2>2 DEF Last
  <2> QED  BY <2>3, <1>9 DEF PutShm
<1>10. ASSUME NEW size \in Sizes, PutTooLarge(size) PROVE Rest'
  BY <1>4, <1>10 DEF PutTooLarge, Fresh
<1>11. ASSUME NEW n \in PopArgs, PopBegin(n) PROVE Rest'
  BY <1>4, <1>11 DEF PopBegin, Fresh
<1>12. CASE EvictFront \/ PruneFront
  <2>1. /\ pc \in {"evict", "prune"} /\ data # <<>> /\ data' = Tail(data) /\ cur' = cur
        /\ pc' = pc
    BY <1>12 DEF EvictFront, PruneFront, HeadExpired, RemoveFront
  <2> QED  BY <1>3, <1>4, <2>1, CurKept
<1>13. CASE CopyToRing
  BY <1>4, <1>13 DEF CopyToRing
<1>14. CASE PutDone
  <2>1. pc = "prune" /\ ~HeadExpired /\ pc' = "idle" /\ data' = data
    BY <1>14 DEF PutDone
  <2>2. CASE data = <<>>
    BY <2>1, <2>2, EmptySeq DEF Fresh
  <2>3. CASE data # <<>>
    <3>1. Last(data) = cur /\ ~(cur.ts - Head(data).ts > Retention)
      BY <1>4, <2>1, <2>3 DEF HeadExpired, Expired
    <3>2. /\ DOMAIN data = 1 .. Len(data) /\ Len(data) >= 1 /\ Len(data) \in Nat
          /\ Head(data) = data[1] /\ \A i \in DOMAIN data : data[i].ts \in Int
      <4>1. Head(data) = data[1]
        BY <1>3, <2>3, TailProperties
      <4> QED  BY <1>1, <2>3, <4>1, HeldEntries, EntryFields DEF TInv
    <3>3. cur.ts \in Int /\ Retention \in Nat
      BY <1>1, EntryFields, ConstantTypes DEF TInv, TypeOK
    <3>4. ASSUME NEW i \in DOMAIN data PROVE ~Expired(data[i], cur.ts)
      <4>1. 1 \in DOMAIN data /\ (i = 1 \/ 1 < i)
        BY <3>2
      <4>2. data[1].ts <= data[i].ts
        BY <1>3, <3>2, <4>1 DEF StampInv, StampsGrow
      <4>3. data[1].ts \in Int /\ data[i].ts \in Int
        BY <3>2, <4>1
      <4>4. ~(cur.ts - data[i].ts > Retention)
        BY <3>1, <3>2, <3>3, <4>2, <4>3
      <4> QED  BY <4>4 DEF Expired
    <3> QED  BY <2>1, <3>1, <3>4 DEF Fresh
  <2> QED  BY <2>2, <2>3
<1>15. CASE PopStep
  <2>1. /\ pc = "pop" /\ pc' = "pop" /\ data # <<>>
        /\ data' = Front(data) \/ data' = Tail(data)
    BY <1>1, <1>15, EmptySeq DEF PopStep, TInv, CountInv
  <2>2. ComesFrom(data', data)
    BY <1>3, <2>1, TailComesFromInOrder, FrontComesFrom
  <2>3. Fresh(data')
    BY <1>3, <1>4, <2>1, <2>2, StampsKept DEF StampInv
  <2> QED  BY <2>1, <2>3
<1>16. CASE PopDone
  BY <1>4, <1>16 DEF PopDone, Fresh
<1>17. CASE ParseThrows
  <2>1. ~Clean /\ ~IsShm
    BY <1>1, <1>17, NeverChokes DEF Clean, Synced
  <2>2. pc \notin {"evict", "prune"}
    BY <1>1, <2>1 DEF TInv, CountInv
  <2> QED  BY <1>17, <2>1, <2>2 DEF ParseThrows, Parsed
<1>18. ASSUME NEW t \in 0 .. MaxTime, ResetStartTime(t) PROVE Rest'
  <2>1. data' = <<>> /\ DOMAIN <<>> = {}
    BY <1>18, EmptySeq DEF ResetStartTime
  <2> QED  BY <2>1 DEF Fresh
<1> QED
  BY <1>5, <1>7, <1>8, <1>9, <1>10, <1>11, <1>12, <1>13, <1>14, <1>15, <1>16, <1>17, <1>18
     DEF Next, LoopStep

(* Between operations no entry is older than the retention before the      *)
(* newest one, on topics whose clients' clocks agree with the server's and *)
(* whose loops do not throw: the three pruning loops stop only at an entry *)
(* young enough, and none older comes after it (data_topic.cpp:115-122,    *)
(* 128-131).                                                               *)
THEOREM RetentionKept == Spec => []RetentionHolds
<1>1. Init => SInv
  <2> SUFFICES ASSUME Init PROVE SInv
    OBVIOUS
  <2>1. data = <<>> /\ pc = "idle" /\ DOMAIN <<>> = {}
    BY EmptySeq DEF Init
  <2> QED  BY <2>1, RInvInit DEF SInv, StampInv, StampsGrow, UpTo, Fresh
<1>2. SInv => RetentionHolds
  BY DEF SInv, StampInv, Fresh, RetentionHolds, Synced
<1> QED  BY <1>1, <1>2, SInvNext, PTL DEF Spec

-----------------------------------------------------------------------------
(* A topic is a queue.  The messages it holds, read through the ring, are  *)
(* those of its entries, less the one being put and those a pop removes.   *)

PutInv == /\ pc \in {"evict", "prune"} => data = <<>> \/ Last(data) = cur
          /\ pc = "evict" => cur.id = nextId - 1

QInv == RInv /\ PutInv

LEMMA QInvNext == QInv /\ [Next]_vars => QInv'
<1> SUFFICES ASSUME QInv, [Next]_vars PROVE PutInv'
  BY RInvNext DEF QInv
<1>1. data \in Seq(Entry) /\ Len(data) \in Nat /\ PutInv
  BY HeldEntries DEF QInv, RInv, TInv, TypeOK
<1>2. ASSUME pc' \notin {"evict", "prune"} PROVE PutInv'
  BY <1>2 DEF PutInv
<1>3. CASE Tick \/ UNCHANGED vars
  BY <1>1, <1>3 DEF Tick, vars, PutInv
<1>4. ASSUME NEW e, AddDataPtr(e) PROVE PutInv'
  BY <1>2, <1>4 DEF AddDataPtr
<1>5. CASE PutHeap \/ ClientAdd
  BY <1>4, <1>5 DEF PutHeap, ClientAdd
<1>6. ASSUME NEW size \in Sizes, PutShm(size) PROVE PutInv'
  <2> DEFINE e == RingEntry(size)
  <2>1. e \in Entry /\ e.id = nextId /\ nextId \in Nat
    BY <1>6, ConstantTypes DEF QInv, RInv, TInv, TypeOK, RingEntry, Entry
  <2>2. cur' = e /\ data' = Append(data, e) /\ nextId' = nextId + 1
    BY <1>6 DEF PutShm
  <2> HIDE DEF e
  <2>3. /\ Append(data, e) \in Seq(Entry) /\ Len(Append(data, e)) = Len(data) + 1
        /\ Append(data, e)[Len(data) + 1] = e
    BY <1>1, <2>1, AppendFacts
  <2>4. Last(Append(data, e)) = e
    BY <2>3 DEF Last
  <2>5. cur'.id = nextId' - 1
    BY <2>1, <2>2
  <2> QED  BY <2>2, <2>4, <2>5 DEF PutInv
<1>7. ASSUME NEW size \in Sizes, PutTooLarge(size) PROVE PutInv'
  BY <1>2, <1>7 DEF PutTooLarge
<1>8. ASSUME NEW n \in PopArgs, PopBegin(n) PROVE PutInv'
  BY <1>2, <1>8 DEF PopBegin
<1>9. CASE EvictFront \/ PruneFront
  <2>1. /\ pc \in {"evict", "prune"} /\ data # <<>> /\ data' = Tail(data)
        /\ UNCHANGED <<pc, cur, nextId>>
    BY <1>9 DEF EvictFront, PruneFront, HeadExpired, RemoveFront
  <2>2. data' = <<>> \/ Last(data') = cur'
    BY <1>1, <2>1, CurKept DEF PutInv
  <2> QED  BY <1>1, <2>1, <2>2 DEF PutInv
<1>10. CASE CopyToRing
  BY <1>1, <1>10 DEF CopyToRing, PutInv
<1>11. CASE PutDone \/ PopStep \/ PopDone \/ ParseThrows
  BY <1>2, <1>11 DEF PutDone, PopStep, PopDone, ParseThrows
<1>12. ASSUME NEW t \in 0 .. MaxTime, ResetStartTime(t) PROVE PutInv'
  BY <1>2, <1>12 DEF ResetStartTime
<1> QED
  BY <1>3, <1>5, <1>6, <1>7, <1>8, <1>9, <1>10, <1>11, <1>12 DEF Next, LoopStep

Contents(q) == [i \in DOMAIN q |-> {q[i].id}]

LEMMA ContentsFacts ==
    ASSUME NEW q \in Seq(Entry)
    PROVE  /\ Contents(q) \in Seq(SUBSET Nat)
           /\ Len(Contents(q)) = Len(q)
           /\ DOMAIN Contents(q) = 1 .. Len(q)
           /\ \A i \in 1 .. Len(q) : Contents(q)[i] = {q[i].id}
<1>1. DOMAIN q = 1 .. Len(q) /\ Len(q) \in Nat
  BY LenProperties
<1>2. \A i \in DOMAIN q : {q[i].id} \in SUBSET Nat
  BY <1>1, ElementOfSeq, EntryFields
<1>3. Contents(q) \in [1 .. Len(q) -> SUBSET Nat]
  BY <1>1, <1>2 DEF Contents
<1>4. Contents(q) \in Seq(SUBSET Nat)
  BY <1>1, <1>3, SeqDef
<1>5. Len(Contents(q)) = Len(q)
  BY <1>1, <1>3, <1>4, LenProperties
<1> QED  BY <1>1, <1>3, <1>4, <1>5 DEF Contents

LEMMA ContentsSuffix ==
    ASSUME NEW q \in Seq(Entry), NEW k \in 0 .. Len(q)
    PROVE  Contents(SubSeq(q, k + 1, Len(q))) = Queue!Without(Contents(q), k)
<1> DEFINE r == SubSeq(q, k + 1, Len(q))
           c == Contents(q)
           w == SubSeq(c, k + 1, Len(c))
<1>1. /\ r \in Seq(Entry) /\ Len(r) = Len(q) - k /\ Len(q) \in Nat
      /\ \A i \in 1 .. Len(q) - k : r[i] = q[i + k]
  BY SuffixProperties, LenProperties
<1>2. /\ c \in Seq(SUBSET Nat) /\ Len(c) = Len(q) /\ \A i \in 1 .. Len(q) : c[i] = {q[i].id}
  BY ContentsFacts
<1> HIDE DEF c, r
<1>3. k \in 0 .. Len(c)
  BY <1>2
<1>4. /\ w \in Seq(SUBSET Nat) /\ Len(w) = Len(c) - k
      /\ \A i \in 1 .. Len(c) - k : w[i] = c[i + k]
  BY <1>2, <1>3, SuffixProperties
<1> HIDE DEF w
<1>5. /\ Contents(r) \in Seq(SUBSET Nat) /\ Len(Contents(r)) = Len(r)
      /\ \A i \in 1 .. Len(r) : Contents(r)[i] = {r[i].id}
  BY <1>1, ContentsFacts
<1>6. ASSUME NEW i \in 1 .. Len(w) PROVE w[i] = Contents(r)[i]
  <2>1. i + k \in 1 .. Len(q) /\ i \in 1 .. Len(r) /\ i \in 1 .. Len(q) - k
    BY <1>1, <1>2, <1>4, <1>6
  <2> QED  BY <2>1, <1>1, <1>2, <1>4, <1>5
<1>7. w = Contents(r)
  BY <1>1, <1>2, <1>4, <1>5, <1>6, SeqEqual
<1> QED  BY <1>7 DEF Queue!Without, w, c, r

LEMMA ContentsAppend ==
    ASSUME NEW q \in Seq(Entry), NEW e \in Entry
    PROVE  Contents(Append(q, e)) = Append(Contents(q), {e.id})
<1> DEFINE r == Append(q, e)
           c == Contents(q)
           a == Append(c, {e.id})
<1>1. /\ r \in Seq(Entry) /\ Len(r) = Len(q) + 1 /\ Len(q) \in Nat
      /\ \A i \in 1 .. Len(q) : r[i] = q[i]
      /\ r[Len(q) + 1] = e
  BY AppendFacts, LenProperties
<1>2. /\ c \in Seq(SUBSET Nat) /\ Len(c) = Len(q) /\ \A i \in 1 .. Len(q) : c[i] = {q[i].id}
  BY ContentsFacts
<1>3. {e.id} \in SUBSET Nat
  BY EntryFields
<1> HIDE DEF c, r
<1>4. /\ a \in Seq(SUBSET Nat) /\ Len(a) = Len(c) + 1
      /\ \A i \in 1 .. Len(c) : a[i] = c[i]
      /\ a[Len(c) + 1] = {e.id}
  BY <1>2, <1>3, AppendFacts
<1> HIDE DEF a
<1>5. /\ Contents(r) \in Seq(SUBSET Nat) /\ Len(Contents(r)) = Len(r)
      /\ \A i \in 1 .. Len(r) : Contents(r)[i] = {r[i].id}
  BY <1>1, ContentsFacts
<1>6. ASSUME NEW i \in 1 .. Len(a) PROVE a[i] = Contents(r)[i]
  <2>1. i \in 1 .. Len(r) /\ (i \in 1 .. Len(q) \/ i = Len(q) + 1)
    BY <1>1, <1>2, <1>4, <1>6
  <2>2. CASE i \in 1 .. Len(q)
    <3>1. a[i] = {q[i].id} /\ r[i] = q[i]
      BY <2>2, <1>1, <1>2, <1>4
    <3> QED  BY <2>1, <3>1, <1>5
  <2>3. CASE i = Len(q) + 1
    <3>1. a[i] = {e.id} /\ r[i] = e
      BY <2>3, <1>1, <1>2, <1>4
    <3> QED  BY <2>1, <3>1, <1>5
  <2> QED  BY <2>1, <2>2, <2>3
<1>7. a = Contents(r)
  BY <1>1, <1>2, <1>4, <1>5, <1>6, SeqEqual
<1> QED  BY <1>7 DEF a, c, r

(* Where clients put no raw payloads to a shared-memory topic. *)
Plain == IsShm => Clean

LEMMA PlainKept == [Next]_vars => (Plain' <=> Plain)
  BY KindKept DEF Plain, Clean

QueuedAs ==
    /\ Queued \in Seq(Entry)
    /\ pc \in {"idle", "prune"} => Queued = data
    /\ pc = "pop" => Queued = <<>>
    /\ pc = "evict" /\ data = <<>> => Queued = data
    /\ pc = "evict" /\ data # <<>> => Last(data) = cur /\ Queued = Front(data)

LEMMA QueuedFacts == QInv => QueuedAs
<1> SUFFICES ASSUME QInv PROVE QueuedAs
  OBVIOUS
<1> USE DEF QueuedAs
<1>1. /\ data \in Seq(Entry) /\ Len(data) \in Nat /\ <<>> \in Seq(Entry)
      /\ pc \in {"idle", "evict", "prune", "pop"}
      /\ pc = "pop" => left \in {Len(data), -Len(data)}
  BY HeldEntries, EmptySeq DEF QInv, RInv, TInv, TypeOK, CountInv, Loops
<1>2. CASE pc \in {"idle", "prune"}
  BY <1>1, <1>2 DEF Queued, Pending
<1>3. CASE pc = "pop"
  <2>1. CASE left >= 0
    <3>1. Queued = SubSeq(data, left + 1, Len(data))
      BY <1>1, <1>3, <2>1 DEF Queued, Pending
    <3>2. left = Len(data) /\ left \in 0 .. Len(data)
      BY <1>1, <1>3, <2>1
    <3>3. Queued \in Seq(Entry) /\ Len(Queued) = 0
      BY <1>1, <3>1, <3>2, SuffixProperties
    <3> QED  BY <1>1, <1>3, <3>3, EmptySeq
  <2>2. CASE ~(left >= 0)
    <3>1. left = -Len(data) /\ left < 0
      BY <1>1, <1>3, <2>2
    <3>2. Queued = SubSeq(data, 1, Len(data) + left)
      BY <1>1, <1>3, <2>2, <3>1 DEF Queued, Pending
    <3>3. Len(data) + left = 0
      BY <1>1, <3>1
    <3>4. SubSeq(data, 1, 0) \in Seq(Entry) /\ Len(SubSeq(data, 1, 0)) = 0
      <4>1. \A i \in 1 .. 0 : data[i] \in Entry
        OBVIOUS
      <4> QED  BY <1>1, <4>1, SubSeqProperties
    <3>5. Queued \in Seq(Entry) /\ Len(Queued) = 0
      BY <3>2, <3>3, <3>4
    <3> QED  BY <1>1, <1>3, <3>5, EmptySeq
  <2> QED  BY <2>1, <2>2
<1>4. CASE pc = "evict"
  <2>1. data = <<>> \/ Last(data) = cur
    BY <1>4 DEF QInv, PutInv
  <2>2. CASE data = <<>>
    BY <1>1, <1>4, <2>2 DEF Queued, Pending
  <2>3. CASE data # <<>>
    <3>1. Queued = Front(data)
      BY <1>4, <2>1, <2>3 DEF Queued, Pending
    <3> QED  BY <1>1, <1>4, <2>1, <2>3, <3>1, FrontProperties
  <2> QED  BY <2>2, <2>3
<1> QED  BY <1>1, <1>2, <1>3, <1>4

(* Each message in the queue is read through the ring as it was put. *)
HeldAs == HeldQueue = Contents(Queued)

LEMMA HeldIds == QInv /\ Plain => HeldAs
<1> SUFFICES ASSUME QInv, Plain PROVE HeldAs
  OBVIOUS
<1>1. /\ data \in Seq(Entry) /\ DOMAIN data = 1 .. Len(data) /\ Len(data) \in Nat
      /\ \A i \in DOMAIN data : data[i] \in Entry
      /\ pc \in {"idle", "evict", "prune", "pop"}
      /\ TInv /\ RInv
  BY HeldEntries DEF QInv, RInv, TInv, TypeOK, Loops
<1>2. ASSUME NEW i \in DOMAIN data, pc = "evict" => i # Len(data) \/ Last(data) # cur
      PROVE  Content(data[i]) = {data[i].id}
  <2> DEFINE e == data[i]
  <2>1. CASE ~OnRing(e)
    BY <2>1 DEF Content
  <2>2. CASE OnRing(e)
    <3>1. Clean /\ RingInv
      BY <1>1, <2>2 DEF Plain, RInv, TInv, CountInv
    <3>2. Placed(e) /\ e.size > 0 /\ e.size \in Nat
      BY <1>1, <2>2, <3>1, EntryFields DEF RingInv, TInv, CountInv, RingOrder
    <3>3. ASSUME pc = "evict", e = cur PROVE FALSE
      <4>1. Len(data) \in DOMAIN data /\ Last(data) = data[Len(data)] /\ data # <<>>
        BY <1>1, EmptySeq DEF Last
      <4>2. Last(data) = cur
        BY <3>3, <4>1 DEF QInv, PutInv
      <4>3. i < Len(data) /\ data[Len(data)] = e
        BY <1>1, <1>2, <3>3, <4>1, <4>2
      <4>4. RingEnd(e) <= e.pos
        BY <1>1, <2>2, <4>1, <4>3 DEF TInv, CountInv, RingOrder
      <4>5. e.pos \in Nat
        BY <1>1, EntryFields
      <4> QED  BY <3>2, <4>4, <4>5 DEF RingEnd
    <3>4. Copied(e)
      BY <2>2, <3>2, <3>3 DEF Placed, Copied
    <3>5. \A k \in 0 .. e.size - 1 : shm[Cell(e.start, k)] = e.id
      BY <3>2, <3>4 DEF Placed, Readable
    <3>6. 0 \in 0 .. e.size - 1
      BY <3>2
    <3> HIDE DEF e
    <3>7. {shm[Cell(e.start, k)] : k \in 0 .. e.size - 1} = {e.id}
      BY <3>5, <3>6
    <3> QED  BY <2>2, <3>7 DEF Content, e
  <2> QED  BY <2>1, <2>2
<1>3. ASSUME NEW i \in DOMAIN Queued PROVE Content(Queued[i]) = {Queued[i].id}
  <2>1. CASE pc \in {"idle", "prune"} \/ (pc = "evict" /\ data = <<>>)
    <3>1. Queued = data
      BY <2>1, QueuedFacts DEF QueuedAs
    <3>2. pc = "evict" => FALSE
      BY <2>1, <3>1, <1>3, EmptySeq
    <3> QED  BY <3>1, <3>2, <1>2, <1>3
  <2>2. CASE pc = "pop"
    BY <2>2, <1>3, QueuedFacts, EmptySeq DEF QueuedAs
  <2>3. CASE pc = "evict" /\ data # <<>>
    <3>1. Queued = Front(data)
      BY <2>3, QueuedFacts DEF QueuedAs
    <3>2. i \in 1 .. Len(data) - 1 /\ Queued[i] = data[i]
      BY <1>1, <1>3, <2>3, <3>1, FrontProperties
    <3>3. i \in DOMAIN data /\ i # Len(data)
      BY <1>1, <3>2
    <3> QED  BY <1>2, <3>2, <3>3
  <2>4. \/ pc \in {"idle", "prune"} \/ (pc = "evict" /\ data = <<>>)
        \/ pc = "pop"
        \/ pc = "evict" /\ data # <<>>
    BY <1>1
  <2> QED  BY <2>1, <2>2, <2>3, <2>4
<1> QED  BY <1>3 DEF HeldAs, HeldQueue, Contents

LEMMA QueuedFactsNext == QInv' => QueuedAs'
  BY QueuedFacts, PTL

LEMMA HeldIdsNext == QInv' /\ Plain' => HeldAs'
  BY HeldIds, PTL

(* Making room: the one that goes is the oldest of the queue, or the       *)
(* message being put, when no other is left.                               *)
LEMMA TailOfFront ==
    ASSUME NEW q \in Seq(Entry), Len(q) >= 2
    PROVE  Front(Tail(q)) = SubSeq(Front(q), 2, Len(Front(q)))
<1> DEFINE r == Tail(q)
           f == Front(q)
           w == SubSeq(f, 1 + 1, Len(f))
<1>1. q # <<>> /\ Len(q) \in Nat
  BY LenProperties, EmptySeq
<1>2. r \in Seq(Entry) /\ Len(r) = Len(q) - 1 /\ \A i \in 1 .. Len(q) - 1 : r[i] = q[i + 1]
  BY <1>1, TailProperties
<1>3. f \in Seq(Entry) /\ Len(f) = Len(q) - 1 /\ \A i \in 1 .. Len(q) - 1 : f[i] = q[i]
  BY <1>1, FrontProperties
<1>4. r # <<>>
  <2>1. Len(r) # 0
    BY <1>1, <1>2
  <2> QED  BY <2>1, EmptySeq
<1> HIDE DEF r, f
<1>5. /\ Front(r) \in Seq(Entry) /\ Len(Front(r)) = Len(r) - 1
      /\ \A i \in 1 .. Len(r) - 1 : Front(r)[i] = r[i]
  BY <1>2, <1>4, FrontProperties
<1>6. 1 \in 0 .. Len(f)
  BY <1>1, <1>3
<1>7. w \in Seq(Entry) /\ Len(w) = Len(f) - 1 /\ \A i \in 1 .. Len(f) - 1 : w[i] = f[i + 1]
  BY <1>3, <1>6, SuffixProperties
<1> HIDE DEF w
<1>8. ASSUME NEW i \in 1 .. Len(w) PROVE w[i] = Front(r)[i]
  <2>1. i \in 1 .. Len(q) - 1 /\ i + 1 \in 1 .. Len(q) - 1 /\ i \in 1 .. Len(r) - 1
        /\ i \in 1 .. Len(f) - 1
    BY <1>1, <1>2, <1>3, <1>7, <1>8
  <2>2. w[i] = q[i + 1]
    BY <2>1, <1>3, <1>7
  <2>3. Front(r)[i] = q[i + 1]
    BY <2>1, <1>2, <1>5
  <2> QED  BY <2>2, <2>3
<1>9. w = Front(r)
  BY <1>1, <1>2, <1>3, <1>5, <1>7, <1>8, SeqEqual
<1>10. 1 + 1 = 2
  OBVIOUS
<1> QED  BY <1>9, <1>10 DEF w, r, f

NextMsg == IF pc = "evict" THEN nextId - 1 ELSE nextId

LEMMA QueueStep ==
    ASSUME QInv, QInv', Plain, [Next]_vars
    PROVE  [Queue!QNext]_(Queue!qvars)
<1>1. HeldQueue = Contents(Queued) /\ HeldQueue' = Contents(Queued')
  BY HeldIds, HeldIdsNext, PlainKept DEF HeldAs
<1>2. /\ data \in Seq(Entry) /\ data' \in Seq(Entry) /\ Queued \in Seq(Entry) /\ Queued' \in Seq(Entry)
      /\ Len(data) \in Nat /\ Len(Queued) \in Nat /\ nextId \in Nat
  <2>1. data \in Seq(Entry) /\ data' \in Seq(Entry) /\ Len(data) \in Nat
    BY HeldEntries DEF QInv, RInv, TInv, TypeOK
  <2>2. Queued \in Seq(Entry) /\ Queued' \in Seq(Entry)
    BY QueuedFacts, QueuedFactsNext DEF QueuedAs
  <2>3. nextId \in 1 .. MaxMsgs + 1 /\ MaxMsgs \in Nat
    BY ConstantTypes DEF QInv, RInv, TInv, TypeOK
  <2> QED  BY <2>1, <2>2, <2>3, LenProperties
<1>3. Len(HeldQueue) = Len(Queued)
  BY <1>1, <1>2, ContentsFacts
<1>a. ASSUME Queued' = Queued, NextMsg' = NextMsg
      PROVE  [Queue!QNext]_(Queue!qvars)
  BY <1>a, <1>1 DEF Queue!qvars, NextMsg
<1>b. ASSUME NEW k \in 1 .. Len(Queued), Queued' = SubSeq(Queued, k + 1, Len(Queued)),
             NextMsg' = NextMsg
      PROVE  [Queue!QNext]_(Queue!qvars)
  <2>1. k \in 0 .. Len(Queued) /\ k \in 1 .. Len(HeldQueue)
    BY <1>2, <1>3, <1>b
  <2>2. HeldQueue' = Queue!Without(HeldQueue, k)
    BY <1>1, <1>2, <1>b, <2>1, ContentsSuffix
  <2>3. Queue!Drop
    BY <1>b, <2>1, <2>2 DEF Queue!Drop, NextMsg
  <2> QED  BY <2>3 DEF Queue!QNext
<1>c. ASSUME NEW e \in Entry, e.id = NextMsg, NEW k \in 0 .. Len(Queued) + 1,
             Queued' = SubSeq(Append(Queued, e), k + 1, Len(Queued) + 1),
             NextMsg' = NextMsg + 1
      PROVE  [Queue!QNext]_(Queue!qvars)
  <2>1. Append(Queued, e) \in Seq(Entry) /\ Len(Append(Queued, e)) = Len(Queued) + 1
    BY <1>2, AppendFacts
  <2>2. HeldQueue' = Queue!Without(Contents(Append(Queued, e)), k)
    BY <1>1, <1>c, <2>1, ContentsSuffix
  <2>3. Contents(Append(Queued, e)) = Append(HeldQueue, {NextMsg})
    BY <1>1, <1>2, <1>c, ContentsAppend
  <2>4. k \in 0 .. Len(HeldQueue) + 1
    BY <1>3
  <2>5. Queue!Put
    BY <1>c, <2>2, <2>3, <2>4 DEF Queue!Put, NextMsg
  <2> QED  BY <2>5 DEF Queue!QNext
<1>d. ASSUME Queued' = <<>>, NextMsg' = NextMsg
      PROVE  [Queue!QNext]_(Queue!qvars)
  <2>1. CASE Queued = <<>>
    BY <1>a, <1>d, <2>1
  <2>2. CASE Queued # <<>>
    <3>1. Len(Queued) \in 1 .. Len(Queued) /\ Len(Queued) \in 0 .. Len(Queued)
      BY <1>2, <2>2, EmptySeq
    <3>2. Len(SubSeq(Queued, Len(Queued) + 1, Len(Queued))) = 0
      BY <1>2, <3>1, SuffixProperties
    <3>3. SubSeq(Queued, Len(Queued) + 1, Len(Queued)) \in Seq(Entry)
      BY <1>2, <3>1, SuffixProperties
    <3>4. SubSeq(Queued, Len(Queued) + 1, Len(Queued)) = <<>>
      BY <3>2, <3>3, EmptySeq
    <3> QED  BY <1>b, <1>d, <3>1, <3>4
  <2> QED  BY <2>1, <2>2
<1> HIDE DEF NextMsg
<1>4. ASSUME UNCHANGED <<data, pc, cur, nextId>>, pc # "pop"
      PROVE  [Queue!QNext]_(Queue!qvars)
  <2>1. Queued' = Queued
    BY <1>4 DEF Queued, Pending
  <2> QED  BY <1>a, <1>4, <2>1 DEF NextMsg
<1>5. CASE pc = "pop" /\ pc' = "pop" /\ nextId' = nextId
  BY <1>5, <1>a, QueuedFacts, QueuedFactsNext DEF NextMsg, QueuedAs
<1>6. CASE Tick \/ UNCHANGED vars
  <2>1. UNCHANGED <<data, pc, cur, nextId>>
    BY <1>6 DEF Tick, vars
  <2>2. CASE pc = "pop"
    BY <2>1, <2>2, <1>5
  <2> QED  BY <2>1, <2>2, <1>4
<1>7. ASSUME NEW e \in Entry, e.id = nextId, AddDataPtr(e)
      PROVE  [Queue!QNext]_(Queue!qvars)
  <2>1. pc = "idle" /\ pc' = "idle" /\ nextId' = nextId + 1
    BY <1>7 DEF AddDataPtr
  <2>2. Queued = data /\ Queued' = data' /\ NextMsg = nextId /\ NextMsg' = nextId + 1
    BY <2>1, QueuedFacts, QueuedFactsNext DEF NextMsg, QueuedAs
  <2>3. PICK k \in PrunedCount(Append(data, e), e.ts) :
            data' = SubSeq(Append(data, e), k + 1, Len(data) + 1)
    BY <1>7 DEF AddDataPtr
  <2>4. k \in 0 .. Len(data) + 1
    <3>1. Len(Append(data, e)) = Len(data) + 1
      BY <1>2, AppendFacts
    <3> QED  BY <2>3, <3>1 DEF PrunedCount
  <2> QED  BY <1>7, <2>2, <2>3, <2>4, <1>c
<1>8. CASE PutHeap
  <2>1. ClientEntry("heap", now) \in Entry /\ ClientEntry("heap", now).id = nextId
    BY <1>2 DEF ClientEntry, Entry, QInv, RInv, TInv, TypeOK
  <2> QED  BY <2>1, <1>7, <1>8 DEF PutHeap
<1>9. CASE ClientAdd
  <2>1. PICK loc \in kind.locs, skew \in kind.skews : AddDataPtr(ClientEntry(loc, now + skew))
    BY <1>9 DEF ClientAdd
  <2>2. now + skew \in Int /\ loc \in {"heap", "request"}
    BY SMTT(20), ConstantTypes DEF QInv, RInv, TInv, TypeOK
  <2>3. ClientEntry(loc, now + skew) \in Entry /\ ClientEntry(loc, now + skew).id = nextId
    BY <1>2, <2>2 DEF ClientEntry, Entry
  <2> QED  BY <2>1, <2>3, <1>7
<1>10. ASSUME NEW size \in Sizes, PutShm(size)
       PROVE  [Queue!QNext]_(Queue!qvars)
  <2> DEFINE e == RingEntry(size)
  <2>1. e \in Entry
    BY <1>2, <1>10, ConstantTypes DEF QInv, RInv, TInv, TypeOK, RingEntry, Entry
  <2>2. /\ data' = Append(data, e) /\ pc = "idle" /\ pc' = "evict" /\ nextId' = nextId + 1
    BY <1>10 DEF PutShm
  <2> HIDE DEF e
  <2>3. Len(data') = Len(data) + 1 /\ data' # <<>> /\ \A i \in 1 .. Len(data) : data'[i] = data[i]
    <3>1. Len(data') = Len(data) + 1 /\ \A i \in 1 .. Len(data) : data'[i] = data[i]
      BY <1>2, <2>1, <2>2, AppendFacts
    <3> QED  BY <1>2, <3>1, EmptySeq
  <2>4. Queued = data /\ Queued' = Front(data')
    BY <2>2, <2>3, QueuedFacts, QueuedFactsNext DEF QueuedAs
  <2>5. Front(data') = data
    <3>1. /\ Front(data') \in Seq(Entry) /\ Len(Front(data')) = Len(data') - 1
          /\ \A i \in 1 .. Len(data') - 1 : Front(data')[i] = data'[i]
      BY <1>2, <2>3, FrontProperties
    <3>2. Len(data') - 1 = Len(data)
      BY <1>2, <2>3
    <3> QED  BY <1>2, <2>3, <3>1, <3>2, SeqEqual
  <2>6. NextMsg' = NextMsg
    BY <1>2, <2>2 DEF NextMsg
  <2> QED  BY <2>4, <2>5, <2>6, <1>a
<1>11. ASSUME NEW size \in Sizes, PutTooLarge(size)
       PROVE  [Queue!QNext]_(Queue!qvars)
  BY <1>11, <1>4 DEF PutTooLarge
<1>12. ASSUME NEW n \in PopArgs, PopBegin(n)
       PROVE  [Queue!QNext]_(Queue!qvars)
  <2>1. pc = "idle" /\ pc' = "pop" /\ nextId' = nextId
    BY <1>12 DEF PopBegin
  <2> QED  BY <2>1, <1>d, QueuedFactsNext DEF NextMsg, QueuedAs
<1>13. CASE EvictFront
  <2>1. /\ pc = "evict" /\ pc' = "evict" /\ data # <<>> /\ data' = Tail(data)
        /\ nextId' = nextId
    BY <1>13 DEF EvictFront, RemoveFront
  <2>2. NextMsg' = NextMsg /\ Queued = Front(data)
    BY <2>1, QueuedFacts DEF NextMsg, QueuedAs
  <2>3. Len(data) >= 1 /\ Len(data') = Len(data) - 1
    BY <1>2, <2>1, TailProperties
  <2>4. CASE Len(data) = 1
    <3>1. data' = <<>>
      BY <1>2, <2>3, <2>4, EmptySeq
    <3> QED  BY <2>1, <2>2, <3>1, <1>d, QueuedFactsNext DEF QueuedAs
  <2>5. CASE Len(data) # 1
    <3>1. Len(data) >= 2 /\ Len(data') # 0
      BY <1>2, <2>3, <2>5
    <3>2. data' # <<>>
      BY <3>1, EmptySeq
    <3>3. Queued' = SubSeq(Queued, 2, Len(Queued))
      BY <1>2, <2>1, <2>2, <3>1, <3>2, QueuedFactsNext, TailOfFront DEF QueuedAs
    <3>4. Len(Queued) = Len(data) - 1
      BY <1>2, <2>1, <2>2, FrontProperties
    <3>5. 1 \in 1 .. Len(Queued) /\ 1 + 1 = 2
      BY <1>2, <3>1, <3>4
    <3> QED  BY <2>2, <3>3, <3>5, <1>b
  <2> QED  BY <2>4, <2>5
<1>14. CASE CopyToRing
  <2>1. pc = "evict" /\ pc' = "prune" /\ UNCHANGED <<data, cur, nextId>>
    BY <1>14 DEF CopyToRing
  <2>2. /\ cur \in Entry /\ cur.id = NextMsg /\ NextMsg' = NextMsg + 1 /\ Queued' = data
    <3>1. cur \in Entry /\ cur.id = nextId - 1
      BY <2>1 DEF QInv, PutInv, RInv, TInv, TypeOK
    <3>2. Queued' = data
      BY <2>1, QueuedFactsNext DEF QueuedAs
    <3>3. NextMsg = nextId - 1 /\ NextMsg' = nextId
      BY <2>1 DEF NextMsg
    <3> QED  BY <1>2, <3>1, <3>2, <3>3
  <2>3. CASE data = <<>>
    <3>1. Queued = <<>> /\ Len(Queued) = 0
      BY <2>1, <2>3, QueuedFacts, EmptySeq DEF QueuedAs
    <3>2. Append(Queued, cur) \in Seq(Entry) /\ Len(Append(Queued, cur)) = 1
      BY <1>2, <2>2, <3>1, AppendFacts
    <3>3. 1 \in 0 .. Len(Append(Queued, cur)) /\ 1 \in 0 .. Len(Queued) + 1
      BY <3>1, <3>2
    <3>4. /\ SubSeq(Append(Queued, cur), 1 + 1, Len(Append(Queued, cur))) \in Seq(Entry)
          /\ Len(SubSeq(Append(Queued, cur), 1 + 1, Len(Append(Queued, cur)))) = 0
      BY <3>2, <3>3, SuffixProperties
    <3>5. SubSeq(Append(Queued, cur), 1 + 1, Len(Queued) + 1) = <<>>
      <4>1. Len(Append(Queued, cur)) = Len(Queued) + 1
        BY <3>1, <3>2
      <4> QED  BY <3>4, <4>1, EmptySeq
    <3> QED  BY <2>2, <2>3, <3>3, <3>5, <1>c
  <2>4. CASE data # <<>>
    <3>1. Queued = Front(data) /\ Last(data) = cur
      BY <2>1, <2>4, QueuedFacts DEF QueuedAs
    <3>2. /\ Front(data) \in Seq(Entry) /\ Len(data) >= 1 /\ Len(Front(data)) = Len(data) - 1
          /\ \A i \in 1 .. Len(data) - 1 : Front(data)[i] = data[i]
          /\ Last(data) = data[Len(data)]
      BY <1>2, <2>4, FrontProperties
    <3>3. /\ Append(Queued, cur) \in Seq(Entry) /\ Len(Append(Queued, cur)) = Len(data)
          /\ \A i \in 1 .. Len(data) - 1 : Append(Queued, cur)[i] = Queued[i]
          /\ Append(Queued, cur)[Len(data)] = cur
      <4>1. Len(Queued) + 1 = Len(data) /\ Len(Queued) = Len(data) - 1
        BY <1>2, <3>1, <3>2
      <4>2. /\ Append(Queued, cur) \in Seq(Entry) /\ Len(Append(Queued, cur)) = Len(Queued) + 1
            /\ \A i \in 1 .. Len(Queued) : Append(Queued, cur)[i] = Queued[i]
            /\ Append(Queued, cur)[Len(Queued) + 1] = cur
        BY <1>2, <2>2, AppendFacts
      <4> QED  BY <4>1, <4>2
    <3>4. Append(Queued, cur) = data
      <4>1. ASSUME NEW i \in 1 .. Len(data) PROVE Append(Queued, cur)[i] = data[i]
        <5>1. i \in 1 .. Len(data) - 1 \/ i = Len(data)
          BY <1>2
        <5>2. CASE i \in 1 .. Len(data) - 1
          BY <5>2, <3>1, <3>2, <3>3
        <5>3. CASE i = Len(data)
          BY <5>3, <3>1, <3>2, <3>3
        <5> QED  BY <5>1, <5>2, <5>3
      <4> QED  BY <1>2, <3>3, <4>1, SeqEqual
    <3>5. SubSeq(data, 0 + 1, Len(Queued) + 1) = data
      <4>1. 0 + 1 = 1 /\ Len(Queued) + 1 = Len(data)
        BY <1>2, <3>1, <3>2
      <4>2. SubSeq(data, 1, Len(data)) = data
        BY <1>2, SubSeqFull
      <4> QED  BY <4>1, <4>2
    <3>6. 0 \in 0 .. Len(Queued) + 1
      BY <1>2
    <3> QED  BY <2>2, <3>4, <3>5, <3>6, <1>c
  <2> QED  BY <2>3, <2>4
<1>15. CASE PruneFront
  <2>1. /\ pc = "prune" /\ pc' = "prune" /\ data # <<>> /\ data' = Tail(data)
        /\ nextId' = nextId
    BY <1>15 DEF PruneFront, HeadExpired, RemoveFront
  <2>2. NextMsg' = NextMsg /\ Queued = data /\ Queued' = Tail(data)
    BY <2>1, QueuedFacts, QueuedFactsNext DEF NextMsg, QueuedAs
  <2>3. Len(data) >= 1 /\ 1 \in 1 .. Len(data)
    BY <1>2, <2>1, EmptySeq
  <2>4. Tail(data) = SubSeq(data, 1 + 1, Len(data))
    <3>1. /\ Tail(data) \in Seq(Entry) /\ Len(Tail(data)) = Len(data) - 1
          /\ \A i \in 1 .. Len(data) - 1 : Tail(data)[i] = data[i + 1]
      BY <1>2, <2>1, TailProperties
    <3>2. 1 \in 0 .. Len(data)
      BY <1>2, <2>3
    <3>3. /\ SubSeq(data, 1 + 1, Len(data)) \in Seq(Entry)
          /\ Len(SubSeq(data, 1 + 1, Len(data))) = Len(data) - 1
          /\ \A i \in 1 .. Len(data) - 1 : SubSeq(data, 1 + 1, Len(data))[i] = data[i + 1]
      BY <1>2, <3>2, SuffixProperties
    <3> QED  BY <3>1, <3>3, SeqEqual
  <2> QED  BY <2>2, <2>3, <2>4, <1>b
<1>16. CASE PutDone
  <2>1. pc = "prune" /\ pc' = "idle" /\ UNCHANGED <<data, nextId>>
    BY <1>16 DEF PutDone
  <2> QED  BY <2>1, <1>a, QueuedFacts, QueuedFactsNext DEF NextMsg, QueuedAs
<1>17. CASE PopStep
  BY <1>17, <1>5 DEF PopStep
<1>18. CASE PopDone
  <2>1. pc = "pop" /\ left = 0 /\ pc' = "idle" /\ UNCHANGED <<data, nextId>>
    BY <1>18 DEF PopDone
  <2>2. data = <<>>
    BY <1>2, <2>1, EmptySeq DEF QInv, RInv, TInv, CountInv
  <2> QED  BY <2>1, <2>2, <1>a, QueuedFacts, QueuedFactsNext DEF NextMsg, QueuedAs
<1>19. CASE ParseThrows
  <2>1. ~Clean /\ ~IsShm
    BY <1>19, NeverChokes DEF Plain, QInv
  <2>2. pc \notin {"evict", "prune"}
    BY <2>1 DEF QInv, RInv, TInv, CountInv
  <2> QED  BY <1>19, <2>1, <2>2 DEF ParseThrows, Parsed
<1>20. ASSUME NEW t \in 0 .. MaxTime, ResetStartTime(t)
       PROVE  [Queue!QNext]_(Queue!qvars)
  <2>1. pc = "idle" /\ pc' = "idle" /\ data' = <<>> /\ nextId' = nextId
    BY <1>20 DEF ResetStartTime
  <2> QED  BY <2>1, <1>d, QueuedFactsNext DEF NextMsg, QueuedAs
<1> QED
  BY <1>6, <1>8, <1>9, <1>10, <1>11, <1>12, <1>13, <1>14, <1>15, <1>16, <1>17, <1>18, <1>19,
     <1>20 DEF Next, LoopStep

(* A topic is a queue, whatever the sizes, the ring, the retention, the    *)
(* clocks and the order of puts, requests, pops and resets, where clients  *)
(* put no raw payloads to a shared-memory topic: every step of DataTopic   *)
(* is a put, the loss of some of the oldest messages, or none of the       *)
(* queue's business (data_topic.cpp:69-223).                               *)
THEOREM TopicIsQueue ==
    ASSUME \A k \in Kinds : k.shm => "heap" \notin k.locs
    PROVE  Spec => IsQueue
<1>1. Init => QInv
  <2> SUFFICES ASSUME Init PROVE QInv
    OBVIOUS
  <2> QED  BY RInvInit DEF Init, QInv, PutInv
<1>2. QInv => Plain
  BY DEF QInv, RInv, TInv, TypeOK, Plain, Clean, IsShm
<1>3. Init => Queue!QInit
  <2> SUFFICES ASSUME Init PROVE Queue!QInit
    OBVIOUS
  <2>1. QInv /\ data = <<>> /\ pc = "idle" /\ nextId = 1
    BY <1>1 DEF Init
  <2>2. HeldQueue = Contents(data)
    BY <1>2, <2>1, HeldIds, QueuedFacts DEF HeldAs, QueuedAs
  <2>3. Contents(<<>>) \in Seq(SUBSET Nat) /\ Len(Contents(<<>>)) = 0
    BY ContentsFacts, EmptySeq
  <2>4. HeldQueue = <<>>
    BY <2>1, <2>2, <2>3, EmptySeq
  <2> QED  BY <2>1, <2>4 DEF Queue!QInit
<1>4. QInv /\ QInv' /\ [Next]_vars => [Queue!QNext]_(Queue!qvars)
  BY <1>2, QueueStep
<1> QED  BY <1>1, <1>3, <1>4, QInvNext, PTL DEF Spec, IsQueue, Queue!QSpec

=============================================================================
