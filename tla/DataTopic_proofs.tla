--------------------------- MODULE DataTopic_proofs ---------------------------
(***************************************************************************)
(* Theorems about DataTopic, for every value of its constants.             *)
(***************************************************************************)
EXTENDS DataTopic, SequenceTheorems, WellFoundedInduction, TLAPS

(* What is left of a queue without its k oldest entries. *)
LEMMA SuffixProperties ==
    ASSUME NEW S, NEW q \in Seq(S), NEW k \in 0 .. Len(q)
    PROVE  LET r == SubSeq(q, k + 1, Len(q))
           IN  /\ r \in Seq(S)
               /\ Len(r) = Len(q) - k
               /\ DOMAIN r = 1 .. Len(q) - k
               /\ \A i \in 1 .. Len(q) - k : r[i] = q[i + k]
<1> DEFINE r == SubSeq(q, k + 1, Len(q))
<1>1. Len(q) \in Nat /\ \A i \in 1 .. Len(q) : q[i] \in S
  BY LenProperties, ElementOfSeq
<1>2. r \in Seq(S) /\ Len(r) = (IF k + 1 <= Len(q) THEN Len(q) - (k + 1) + 1 ELSE 0)
  BY <1>1, SubSeqProperties
<1>3. \A i \in 1 .. Len(q) - (k + 1) + 1 : r[i] = q[k + 1 + i - 1]
  BY <1>1, SubSeqProperties
<1>4. Len(r) = Len(q) - k
  BY <1>1, <1>2
<1>5. DOMAIN r = 1 .. Len(q) - k
  BY <1>2, <1>4, LenProperties
<1>6. \A i \in 1 .. Len(q) - k : r[i] = q[i + k]
  BY <1>1, <1>3
<1> QED  BY <1>2, <1>4, <1>5, <1>6

(* What is left without the newest entry. *)
LEMMA FrontProperties ==
    ASSUME NEW S, NEW q \in Seq(S), q # <<>>
    PROVE  /\ Front(q) \in Seq(S)
           /\ Len(q) >= 1
           /\ Len(Front(q)) = Len(q) - 1
           /\ DOMAIN Front(q) = 1 .. Len(q) - 1
           /\ \A i \in 1 .. Len(q) - 1 : Front(q)[i] = q[i]
           /\ Last(q) = q[Len(q)]
           /\ Last(q) \in S
<1> DEFINE n == Len(q) - 1
           f == SubSeq(q, 1, n)
<1>1. Len(q) \in Nat /\ Len(q) >= 1 /\ n \in Nat
  BY LenProperties, EmptySeq
<1>2. \A i \in 1 .. Len(q) : q[i] \in S
  BY ElementOfSeq
<1>3. \A i \in 1 .. n : q[i] \in S
  BY <1>1, <1>2
<1>4. Front(q) = f
  BY DEF Front
<1> HIDE DEF n
<1>5. /\ f \in Seq(S)
      /\ Len(f) = IF 1 <= n THEN n - 1 + 1 ELSE 0
      /\ \A i \in 1 .. n - 1 + 1 : f[i] = q[1 + i - 1]
  BY <1>1, <1>3, SubSeqProperties
<1>6. Len(f) = n /\ \A i \in 1 .. n : f[i] = q[i]
  BY <1>1, <1>5
<1>7. DOMAIN f = 1 .. n
  BY <1>5, <1>6, LenProperties
<1>8. Last(q) = q[Len(q)] /\ Last(q) \in S
  BY <1>1, <1>2 DEF Last
<1> QED  BY <1>1, <1>4, <1>5, <1>6, <1>7, <1>8 DEF n

LEMMA TailProperties ==
    ASSUME NEW S, NEW q \in Seq(S), q # <<>>
    PROVE  /\ Tail(q) \in Seq(S)
           /\ Len(q) >= 1
           /\ Len(Tail(q)) = Len(q) - 1
           /\ DOMAIN Tail(q) = 1 .. Len(q) - 1
           /\ \A i \in 1 .. Len(q) - 1 : Tail(q)[i] = q[i + 1]
           /\ Head(q) = q[1]
           /\ Head(q) \in S
<1>1. Len(q) \in Nat /\ Len(q) >= 1
  BY LenProperties, EmptySeq
<1>2. /\ Head(q) \in S /\ Tail(q) \in Seq(S) /\ Len(Tail(q)) = Len(q) - 1
      /\ \A i \in 1 .. Len(Tail(q)) : Tail(q)[i] = q[i + 1]
  BY HeadTailProperties
<1>3. DOMAIN Tail(q) = 1 .. Len(q) - 1
  BY <1>2, LenProperties
<1>4. Head(q) = q[1]
  BY <1>1
<1> QED  BY <1>1, <1>2, <1>3, <1>4

LEMMA AppendFacts ==
    ASSUME NEW S, NEW q \in Seq(S), NEW e \in S
    PROVE  /\ Append(q, e) \in Seq(S)
           /\ Len(Append(q, e)) = Len(q) + 1
           /\ DOMAIN Append(q, e) = 1 .. Len(q) + 1
           /\ \A i \in 1 .. Len(q) : Append(q, e)[i] = q[i]
           /\ Append(q, e)[Len(q) + 1] = e
<1>1. Append(q, e) \in Seq(S) /\ Len(Append(q, e)) = Len(q) + 1
  BY AppendProperties
<1>2. DOMAIN Append(q, e) = 1 .. Len(q) + 1
  BY <1>1, LenProperties
<1> QED  BY <1>1, <1>2, AppendProperties

-----------------------------------------------------------------------------
(* How RingOrder goes with the deque.                                      *)

LEMMA EntryFields ==
    ASSUME NEW e \in Entry
    PROVE  /\ e.id \in Nat /\ e.ts \in Int /\ e.start \in Nat /\ e.size \in Nat
           /\ e.pos \in Nat /\ RingEnd(e) \in Nat /\ Accounted(e) \in Nat
  BY DEF Entry, RingEnd, Accounted

LEMMA OrderSuffix ==
    ASSUME NEW q \in Seq(Entry), NEW k \in 0 .. Len(q), NEW b, NEW o,
           RingOrder(q, b, o)
    PROVE  RingOrder(SubSeq(q, k + 1, Len(q)), b, o)
<1> DEFINE r == SubSeq(q, k + 1, Len(q))
<1>1. /\ DOMAIN r = 1 .. Len(q) - k /\ DOMAIN q = 1 .. Len(q) /\ Len(q) \in Nat
      /\ \A i \in 1 .. Len(q) - k : r[i] = q[i + k]
  BY SuffixProperties, LenProperties
<1> HIDE DEF r
<1>2. \A i \in DOMAIN r : i + k \in DOMAIN q /\ r[i] = q[i + k]
  BY <1>1
<1>3. \A i, j \in DOMAIN r : i < j => i + k < j + k
  BY <1>1
<1>4. RingOrder(r, b, o)
  BY <1>2, <1>3 DEF RingOrder
<1> QED  BY <1>4 DEF r

LEMMA OrderTail ==
    ASSUME NEW q \in Seq(Entry), q # <<>>, NEW b \in Nat, NEW o \in Nat,
           RingOrder(q, b, o)
    PROVE  /\ o - Accounted(Head(q)) \in Nat
           /\ RingOrder(Tail(q), b, o - Accounted(Head(q)))
<1> DEFINE r == Tail(q)
           o2 == o - Accounted(Head(q))
<1>1. /\ DOMAIN r = 1 .. Len(q) - 1 /\ DOMAIN q = 1 .. Len(q)
      /\ Len(q) \in Nat /\ Len(q) >= 1
      /\ \A i \in 1 .. Len(q) - 1 : r[i] = q[i + 1]
      /\ Head(q) = q[1]
  BY TailProperties, LenProperties
<1>2. \A i \in DOMAIN q : q[i] \in Entry
  BY <1>1, ElementOfSeq
<1> HIDE DEF r
<1>3. 1 \in DOMAIN q /\ \A i \in DOMAIN r : i + 1 \in DOMAIN q /\ r[i] = q[i + 1] /\ 1 < i + 1
  BY <1>1
<1>4. \A i, j \in DOMAIN r : i < j => i + 1 < j + 1
  BY <1>1
<1>5. o2 \in Nat
  <2>1. CASE OnRing(q[1])
    BY SMTT(20), <2>1, <1>1, <1>2, <1>3, EntryFields DEF RingOrder, Accounted, RingEnd
  <2>2. CASE ~OnRing(q[1])
    BY <2>2, <1>1 DEF Accounted
  <2> QED  BY <2>1, <2>2
<1>6. ASSUME NEW i \in DOMAIN r, OnRing(r[i])
      PROVE  r[i].size > 0 /\ RingEnd(r[i]) <= b /\ b - r[i].pos <= o2
  <2>1. r[i].size > 0 /\ RingEnd(r[i]) <= b /\ b - r[i].pos <= o
    BY <1>3, <1>6 DEF RingOrder
  <2>2. CASE OnRing(q[1])
    <3>1. RingEnd(q[1]) <= r[i].pos /\ b - q[1].pos <= o
      BY <2>2, <1>3, <1>6 DEF RingOrder
    <3>2. q[1].pos \in Nat /\ q[1].size \in Nat /\ r[i].pos \in Nat
      BY <1>2, <1>3, EntryFields
    <3> QED  BY SMTT(20), <2>1, <2>2, <3>1, <3>2, <1>1 DEF RingEnd, Accounted
  <2>3. CASE ~OnRing(q[1])
    BY <2>1, <2>3, <1>1 DEF Accounted
  <2> QED  BY <2>2, <2>3
<1>7. \A i, j \in DOMAIN r : OnRing(r[i]) /\ OnRing(r[j]) /\ i < j => RingEnd(r[i]) <= r[j].pos
  BY <1>3, <1>4 DEF RingOrder
<1>8. RingOrder(r, b, o2)
  BY <1>6, <1>7 DEF RingOrder
<1> QED  BY <1>5, <1>8 DEF r

LEMMA OrderFront ==
    ASSUME NEW q \in Seq(Entry), q # <<>>, NEW b \in Nat, NEW o \in Nat,
           RingOrder(q, b, o)
    PROVE  /\ b - Accounted(Last(q)) \in Nat
           /\ o - Accounted(Last(q)) \in Nat
           /\ RingOrder(Front(q), b - Accounted(Last(q)), o - Accounted(Last(q)))
<1> DEFINE r == Front(q)
           n == Len(q)
           a == Accounted(q[n])
<1>1. /\ DOMAIN r = 1 .. n - 1 /\ DOMAIN q = 1 .. n /\ n \in Nat /\ n >= 1
      /\ \A i \in 1 .. n - 1 : r[i] = q[i]
      /\ Last(q) = q[n]
  BY FrontProperties, LenProperties
<1>2. \A i \in DOMAIN q : q[i] \in Entry
  BY <1>1, ElementOfSeq
<1> HIDE DEF r, n
<1>3. n \in DOMAIN q /\ \A i \in DOMAIN r : i \in DOMAIN q /\ r[i] = q[i] /\ i < n
  BY <1>1
<1>a. a = IF OnRing(q[n]) THEN q[n].size ELSE 0
  BY DEF Accounted
<1> HIDE DEF a
<1>4. b - a \in Nat /\ o - a \in Nat
  <2>1. CASE OnRing(q[n])
    <3>1. q[n].pos \in Nat /\ q[n].size \in Nat
      BY <1>2, <1>3, EntryFields
    <3>2. q[n].pos + q[n].size <= b /\ b - q[n].pos <= o
      BY <2>1, <1>3 DEF RingOrder, RingEnd
    <3>3. a = q[n].size
      BY <2>1, <1>a
    <3>4. a \in Nat /\ a <= b /\ a <= o
      BY <3>1, <3>2, <3>3
    <3> QED  BY <3>4
  <2>2. CASE ~OnRing(q[n])
    BY <2>2, <1>a
  <2> QED  BY <2>1, <2>2
<1>5. ASSUME NEW i \in DOMAIN r, OnRing(r[i])
      PROVE  r[i].size > 0 /\ RingEnd(r[i]) <= b - a /\ (b - a) - r[i].pos <= o - a
  <2>1. r[i].size > 0 /\ RingEnd(r[i]) <= b /\ b - r[i].pos <= o
    BY <1>3, <1>5 DEF RingOrder
  <2>2. r[i].pos \in Nat /\ r[i].size \in Nat /\ q[n].pos \in Nat /\ q[n].size \in Nat
    BY <1>2, <1>3, EntryFields
  <2>3. CASE OnRing(q[n])
    <3>1. RingEnd(r[i]) <= q[n].pos /\ RingEnd(q[n]) <= b
      BY <2>3, <1>3, <1>5 DEF RingOrder
    <3>2. a = q[n].size
      BY <2>3, <1>a
    <3>3. a \in Nat
      BY <2>2, <3>2
    <3>4. RingEnd(r[i]) \in Nat
      BY <2>2 DEF RingEnd
    <3>5. q[n].pos + a <= b
      BY <3>1, <3>2 DEF RingEnd
    <3>6. RingEnd(r[i]) <= b - a
      BY <2>2, <3>1, <3>3, <3>4, <3>5
    <3>7. (b - a) - r[i].pos <= o - a
      BY <2>1, <2>2, <3>3
    <3> QED  BY <2>1, <3>6, <3>7
  <2>4. CASE ~OnRing(q[n])
    BY <2>1, <2>2, <2>4, <1>a
  <2> QED  BY <2>3, <2>4
<1>6. \A i, j \in DOMAIN r : OnRing(r[i]) /\ OnRing(r[j]) /\ i < j => RingEnd(r[i]) <= r[j].pos
  BY <1>3 DEF RingOrder
<1>7. RingOrder(r, b - a, o - a)
  BY <1>5, <1>6 DEF RingOrder
<1> QED  BY <1>1, <1>4, <1>7 DEF r, a

LEMMA OrderAppend ==
    ASSUME NEW q \in Seq(Entry), NEW b \in Nat, NEW o \in Nat, NEW e \in Entry,
           RingOrder(q, b, o),
           OnRing(e) => e.pos = b /\ e.size > 0
    PROVE  RingOrder(Append(q, e), b + Accounted(e), o + Accounted(e))
<1> DEFINE r == Append(q, e)
           n == Len(q)
           a == Accounted(e)
<1>1. /\ DOMAIN r = 1 .. n + 1 /\ DOMAIN q = 1 .. n /\ n \in Nat
      /\ \A i \in 1 .. n : r[i] = q[i]
      /\ r[n + 1] = e
  BY AppendFacts, LenProperties
<1>2. \A i \in DOMAIN q : q[i] \in Entry
  BY <1>1, ElementOfSeq
<1> HIDE DEF r, n
<1>3. \A i \in DOMAIN r : (i \in DOMAIN q /\ r[i] = q[i]) \/ (i = n + 1 /\ r[i] = e)
  BY <1>1
<1>4. a \in Nat /\ e.pos \in Nat /\ e.size \in Nat
  BY EntryFields
<1>5. ASSUME NEW i \in DOMAIN r, OnRing(r[i])
      PROVE  r[i].size > 0 /\ RingEnd(r[i]) <= b + a /\ (b + a) - r[i].pos <= o + a
  <2>1. CASE i \in DOMAIN q /\ r[i] = q[i]
    <3>1. r[i].size > 0 /\ RingEnd(r[i]) <= b /\ b - r[i].pos <= o
      BY <2>1, <1>5 DEF RingOrder
    <3>2. r[i].pos \in Nat /\ RingEnd(r[i]) \in Nat
      BY <2>1, <1>2, EntryFields
    <3> QED  BY <3>1, <3>2, <1>4
  <2>2. CASE r[i] = e
    BY <2>2, <1>4, <1>5 DEF RingEnd, Accounted
  <2> QED  BY <2>1, <2>2, <1>3
<1>6. ASSUME NEW i \in DOMAIN r, NEW j \in DOMAIN r, OnRing(r[i]), OnRing(r[j]), i < j
      PROVE  RingEnd(r[i]) <= r[j].pos
  <2>1. i \in DOMAIN q /\ r[i] = q[i]
    BY <1>1, <1>6
  <2>2. CASE j \in DOMAIN q /\ r[j] = q[j]
    BY <2>1, <2>2, <1>6 DEF RingOrder
  <2>3. CASE r[j] = e
    BY <2>1, <2>3, <1>6 DEF RingOrder
  <2> QED  BY <2>2, <2>3, <1>3
<1>7. RingOrder(r, b + a, o + a)
  BY <1>5, <1>6 DEF RingOrder
<1> QED  BY <1>7 DEF r

-----------------------------------------------------------------------------
(* Whatever n is, pop_data_ptrs works with all the entries of the deque:   *)
(* the conversions of its comparisons leave no other outcome.              *)
LEMMA PopTakesAll ==
    ASSUME NEW n \in PopArgs, NEW len \in 1 .. MaxMsgs
    PROVE  PopCount(n, len) \in {len, -len}
<1>1. n \in Int /\ MaxMsgs < SizeMod + n /\ n < SizeMod - MaxMsgs
  BY DataTopicAssumption
<1>2. SizeMod \in Nat /\ MaxMsgs \in Nat /\ len \in Nat /\ len <= MaxMsgs /\ len >= 1
  BY DataTopicAssumption
<1>3. CASE n < 0
  <2>1. ToSizeT(n) = n + SizeMod
    BY <1>3 DEF ToSizeT
  <2>2. ToSizeT(n) > len
    BY <2>1, <1>1, <1>2
  <2> QED  BY <2>2, <1>3, <1>1 DEF PopCount
<1>4. CASE n = 0
  BY <1>4 DEF PopCount
<1>5. CASE n > 0
  <2>1. ToSizeT(n) = n /\ ToSizeT(-len) = SizeMod - len
    BY <1>1, <1>2, <1>5 DEF ToSizeT
  <2>2. ToSizeT(n) < ToSizeT(-len)
    BY <2>1, <1>1, <1>2
  <2>3. CASE n > len
    BY <2>1, <2>3, <1>1, <1>2, <1>5 DEF PopCount
  <2>4. CASE n <= len
    BY <2>1, <2>2, <2>4, <1>1, <1>2, <1>5 DEF PopCount
  <2> QED  BY <2>3, <2>4, <1>1, <1>2
<1> QED  BY <1>1, <1>3, <1>4, <1>5

LEMMA PeekAll ==
    ASSUME NEW q \in Seq(Entry), q # <<>>, NEW m \in {Len(q), -Len(q)}
    PROVE  PeekDataPtrs(q, m) = q
<1> DEFINE len == Len(q)
<1>1. len \in Nat /\ len >= 1
  BY LenProperties, EmptySeq
<1>2. SubSeq(q, 1, len) = q
  BY SubSeqFull
<1> HIDE DEF len
<1>3. CASE m = len
  <2>1. ToSizeT(m) = len /\ m # 0 /\ ~(m < 0)
    BY <1>1, <1>3 DEF ToSizeT
  <2>2. PeekDataPtrs(q, m) = SubSeq(q, 1, IF ToSizeT(m) > len THEN len ELSE m)
    BY <2>1 DEF PeekDataPtrs, len
  <2> QED  BY <2>1, <2>2, <1>1, <1>2, <1>3
<1>4. CASE m = -len
  <2>1. m # 0 /\ m < 0 /\ -m = len
    BY <1>1, <1>4
  <2>2. PeekDataPtrs(q, m) =
          SubSeq(q, len - (IF ToSizeT(m) < ToSizeT(-len) THEN len ELSE -m) + 1, len)
    BY <2>1 DEF PeekDataPtrs, len
  <2>3. (IF ToSizeT(m) < ToSizeT(-len) THEN len ELSE -m) = len
    BY <2>1
  <2>4. len - len + 1 = 1
    BY <1>1
  <2> QED  BY <2>2, <2>3, <2>4, <1>2
<1> QED  BY <1>3, <1>4 DEF len

-----------------------------------------------------------------------------
(* Type correctness.                                                       *)

TInv == TypeOK /\ CountInv

LEMMA ConstantTypes ==
    /\ ShmSize \in Nat /\ ShmSize >= 1 /\ Retention \in Nat
    /\ MaxTime \in Nat /\ MaxMsgs \in Nat
    /\ Sizes \subseteq Nat \ {0}
    /\ \A k \in Kinds : k.locs \subseteq {"heap", "request"} /\ k.skews \subseteq Int
  BY DataTopicAssumption DEF Kind

(* A topic stays with or without shared memory. *)
LEMMA KindKept == [Next]_vars => kind' = kind /\ IsShm' = IsShm
<1> SUFFICES ASSUME [Next]_vars PROVE kind' = kind
  BY DEF IsShm
<1>1. ASSUME NEW e, AddDataPtr(e) PROVE kind' = kind
  BY <1>1 DEF AddDataPtr
<1>2. CASE Tick \/ PutHeap \/ ClientAdd
  BY <1>1, <1>2 DEF Tick, PutHeap, ClientAdd
<1>3. ASSUME NEW size, PutShm(size) \/ PutTooLarge(size) PROVE kind' = kind
  BY <1>3 DEF PutShm, PutTooLarge
<1>4. ASSUME NEW n, PopBegin(n) PROVE kind' = kind
  BY <1>4 DEF PopBegin
<1>5. CASE LoopStep
  BY <1>5 DEF LoopStep, EvictFront, CopyToRing, PruneFront, PutDone, PopStep, PopDone,
              ParseThrows
<1>6. ASSUME NEW t, ResetStartTime(t) PROVE kind' = kind
  BY <1>6 DEF ResetStartTime
<1>7. CASE UNCHANGED vars
  BY <1>7 DEF vars
<1> QED  BY <1>2, <1>3, <1>4, <1>5, <1>6, <1>7 DEF Next

LEMMA TInvInit == Init => TInv
<1> SUFFICES ASSUME Init PROVE TInv
  OBVIOUS
<1>1. <<>> \in Seq(Entry) /\ <<>> \in Seq(Nat) /\ Len(<<>>) = 0 /\ DOMAIN <<>> = {}
  BY EmptySeq
<1>2. NoEntry \in Entry
  BY DEF NoEntry, Entry
<1>3. TypeOK
  BY <1>1, <1>2, ConstantTypes DEF Init, TypeOK, Cells, Loops
<1>4. RingOrder(<<>>, 0, 0)
  BY <1>1 DEF RingOrder
<1>5. CountInv
  BY <1>1, <1>4 DEF Init, CountInv, NoEntry
<1> QED  BY <1>3, <1>5 DEF TInv

LEMMA HeldEntries ==
    ASSUME TypeOK
    PROVE  /\ Len(data) \in Nat /\ DOMAIN data = 1 .. Len(data)
           /\ \A i \in DOMAIN data : data[i] \in Entry
           /\ data # <<>> => Len(data) >= 1
<1>1. data \in Seq(Entry)
  BY DEF TypeOK
<1> QED  BY <1>1, LenProperties, ElementOfSeq, EmptySeq

(* An entry of a client, or of a regular topic's server, goes in. *)
LEMMA TInvAdd ==
    ASSUME TInv, NEW e \in Entry, ~OnRing(e), e.id = nextId, AddDataPtr(e)
    PROVE  TInv'
<1> DEFINE q == Append(data, e)
<1> USE DEF TInv
<1>k. kind' = kind /\ IsShm' = IsShm
  BY DEF AddDataPtr, IsShm
<1>1. data \in Seq(Entry) /\ nextId \in Nat /\ nextId <= MaxMsgs /\ pc = "idle"
  BY ConstantTypes DEF TypeOK, AddDataPtr
<1>2. /\ q \in Seq(Entry) /\ Len(q) = Len(data) + 1 /\ DOMAIN q = 1 .. Len(data) + 1
      /\ \A i \in 1 .. Len(data) : q[i] = data[i]
      /\ q[Len(data) + 1] = e
  BY <1>1, AppendFacts
<1>3. RingOrder(q, pushed, occupied)
  <2>1. pushed \in Nat /\ occupied \in Nat /\ RingOrder(data, pushed, occupied)
    BY DEF TypeOK, CountInv
  <2>2. Accounted(e) = 0
    BY DEF Accounted
  <2>3. RingOrder(q, pushed + Accounted(e), occupied + Accounted(e))
    BY <1>1, <2>1, OrderAppend
  <2> QED  BY <2>1, <2>2, <2>3
<1>4. \A i \in DOMAIN q : q[i].id < nextId + 1 /\ (~IsShm => ~OnRing(q[i]))
  <2>1. \A i \in DOMAIN data : data[i].id < nextId /\ data[i].id \in Nat /\ (~IsShm => ~OnRing(data[i]))
    BY HeldEntries, EntryFields DEF CountInv
  <2>2. \A i \in DOMAIN q : (i \in DOMAIN data /\ q[i] = data[i]) \/ q[i] = e
    BY <1>2, HeldEntries
  <2> QED  BY <2>1, <2>2, <1>1
<1>5. PICK k \in 0 .. Len(q) : data' = SubSeq(q, k + 1, Len(q))
  <2>1. PICK k \in PrunedCount(q, e.ts) : data' = SubSeq(q, k + 1, Len(data) + 1)
    BY DEF AddDataPtr
  <2>2. k \in 0 .. Len(q)
    BY DEF PrunedCount
  <2> QED  BY <2>1, <2>2, <1>2
<1> HIDE DEF q
<1>6. /\ data' \in Seq(Entry) /\ Len(data') = Len(q) - k /\ DOMAIN data' = 1 .. Len(q) - k
      /\ \A i \in 1 .. Len(q) - k : data'[i] = q[i + k]
  BY SMTT(20), <1>2, <1>5, SuffixProperties
<1>7. RingOrder(data', pushed, occupied)
  BY <1>2, <1>3, <1>5, OrderSuffix
<1>8. \A i \in DOMAIN data' : i + k \in DOMAIN q /\ data'[i] = q[i + k]
  BY <1>2, <1>5, <1>6, HeldEntries
<1>9. TypeOK'
  <2>1. nextId' \in 1 .. MaxMsgs + 1
    BY <1>1, ConstantTypes DEF TypeOK, AddDataPtr
  <2> QED  BY <2>1, <1>6 DEF TypeOK, AddDataPtr
<1>10. CountInv'
  <2>1. Len(data') < nextId'
    BY <1>1, <1>2, <1>5, <1>6, HeldEntries DEF CountInv, AddDataPtr
  <2>2. cur'.id < nextId'
    <3>1. cur' = cur /\ nextId' = nextId + 1
      BY DEF AddDataPtr
    <3>2. cur \in Entry /\ cur.id < nextId
      BY DEF TypeOK, CountInv
    <3>3. cur.id \in Nat
      BY <3>2, EntryFields
    <3>4. cur.id < nextId + 1
      BY <1>1, <3>2, <3>3
    <3> QED  BY <3>1, <3>4
  <2>3. \A i \in DOMAIN data' : data'[i].id < nextId' /\ (~IsShm => ~OnRing(data'[i]))
    BY <1>4, <1>8 DEF AddDataPtr
  <2>4. RingOrder(data', pushed', occupied')
    BY <1>7 DEF AddDataPtr
  <2>5. pc' = "idle"
    BY <1>1 DEF AddDataPtr
  <2> QED  BY <1>k, <2>1, <2>2, <2>3, <2>4, <2>5 DEF CountInv
<1> QED  BY <1>9, <1>10

(* The oldest entry leaves and its bytes are given back. *)
LEMMA TInvRemoveFront ==
    ASSUME TInv, data # <<>>, RemoveFront, UNCHANGED <<nextId, cur, pushed>>
    PROVE  /\ data' \in Seq(Entry)
           /\ occupied' \in Nat
           /\ Len(data') = Len(data) - 1
           /\ Len(data') < nextId' /\ cur'.id < nextId'
           /\ \A i \in DOMAIN data' : data'[i].id < nextId' /\ (~IsShm => ~OnRing(data'[i]))
           /\ RingOrder(data', pushed', occupied')
<1> USE DEF TInv
<1>1. /\ data \in Seq(Entry) /\ pushed \in Nat /\ occupied \in Nat
      /\ RingOrder(data, pushed, occupied)
  BY DEF TypeOK, CountInv
<1>2. /\ Tail(data) \in Seq(Entry) /\ Len(Tail(data)) = Len(data) - 1
      /\ DOMAIN Tail(data) = 1 .. Len(data) - 1
      /\ \A i \in 1 .. Len(data) - 1 : Tail(data)[i] = data[i + 1]
  BY <1>1, TailProperties
<1>3. /\ occupied - Accounted(Head(data)) \in Nat
      /\ RingOrder(Tail(data), pushed, occupied - Accounted(Head(data)))
  BY <1>1, OrderTail
<1>4. data' = Tail(data) /\ occupied' = occupied - Accounted(Head(data))
  BY DEF RemoveFront
<1>5. \A i \in DOMAIN data' : i + 1 \in DOMAIN data /\ data'[i] = data[i + 1]
  BY <1>2, <1>4, HeldEntries
<1>6. nextId' = nextId /\ cur' = cur /\ pushed' = pushed
  OBVIOUS
<1>7. \A i \in DOMAIN data' : data'[i].id < nextId' /\ (~IsShm => ~OnRing(data'[i]))
  BY <1>5, <1>6 DEF CountInv
<1>8. Len(data') < nextId'
  <2>1. Len(data') = Len(data) - 1
    BY <1>2, <1>4
  <2>2. Len(data) \in Nat /\ nextId \in Int /\ Len(data) < nextId
    BY HeldEntries DEF CountInv, TypeOK
  <2> QED  BY <2>1, <2>2, <1>6
<1>9. cur'.id < nextId'
  BY <1>6 DEF CountInv
<1> QED  BY <1>2, <1>3, <1>4, <1>6, <1>7, <1>8, <1>9

LEMMA TInvPutShm ==
    ASSUME TInv, NEW size \in Sizes, PutShm(size)
    PROVE  TInv'
<1> DEFINE e == RingEntry(size)
<1> USE DEF TInv
<1>k. kind' = kind /\ IsShm' = IsShm
  BY DEF PutShm, IsShm
<1>1. /\ data \in Seq(Entry) /\ nextId \in Nat /\ nextId <= MaxMsgs /\ IsShm
      /\ size \in Nat /\ size > 0 /\ size <= ShmSize /\ ShmSize \in Nat
      /\ pushed \in Nat /\ occupied \in Nat /\ offset \in Nat /\ now \in Int
  BY ConstantTypes DEF TypeOK, PutShm
<1>2. /\ e \in Entry /\ OnRing(e) /\ e.pos = pushed /\ e.size = size /\ e.id = nextId
      /\ Accounted(e) = size
  BY <1>1 DEF RingEntry, Entry, OnRing, Accounted
<1>3. cur' = e /\ data' = Append(data, e)
  BY DEF PutShm
<1> HIDE DEF e
<1>4. /\ data' \in Seq(Entry) /\ Len(data') = Len(data) + 1 /\ DOMAIN data' = 1 .. Len(data) + 1
      /\ \A i \in 1 .. Len(data) : data'[i] = data[i]
      /\ data'[Len(data) + 1] = e
  BY <1>1, <1>2, <1>3, AppendFacts
<1>5. RingOrder(data', pushed', occupied')
  <2>1. RingOrder(Append(data, e), pushed + Accounted(e), occupied + Accounted(e))
    BY <1>1, <1>2, OrderAppend DEF CountInv
  <2> QED  BY <2>1, <1>2, <1>3 DEF PutShm
<1>6. \A i \in DOMAIN data' : data'[i].id < nextId'
  <2>1. \A i \in DOMAIN data : data[i].id < nextId /\ data[i].id \in Nat
    BY HeldEntries, EntryFields DEF CountInv
  <2>2. \A i \in DOMAIN data' : (i \in DOMAIN data /\ data'[i] = data[i]) \/ data'[i] = e
    BY <1>4, HeldEntries
  <2>3. nextId' = nextId + 1
    BY DEF PutShm
  <2> QED  BY <2>1, <2>2, <2>3, <1>1, <1>2
<1>7. TypeOK'
  <2>1. nextId' \in 1 .. MaxMsgs + 1 /\ occupied' \in Nat /\ pushed' \in Nat
    BY SMTT(20), <1>1, ConstantTypes DEF TypeOK, PutShm
  <2>2. pc' \in Loops
    BY DEF PutShm, Loops
  <2> QED  BY <2>1, <2>2, <1>2, <1>3, <1>4 DEF TypeOK, PutShm
<1>8. CountInv'
  <2>1. Len(data') < nextId'
    <3>1. Len(data) \in Nat /\ Len(data) < nextId
      BY HeldEntries DEF CountInv
    <3> QED  BY <3>1, <1>1, <1>4 DEF PutShm
  <2>2. cur'.id < nextId'
    BY <1>1, <1>2, <1>3 DEF PutShm
  <2>3. pc' = "evict" /\ OnRing(cur') /\ cur'.size \in 1 .. ShmSize
    BY <1>1, <1>2, <1>3 DEF PutShm
  <2> QED  BY <1>k, <2>1, <2>2, <2>3, <1>1, <1>5, <1>6 DEF CountInv
<1> QED  BY <1>7, <1>8

LEMMA TInvCopy ==
    ASSUME TInv, CopyToRing
    PROVE  TInv'
<1> USE DEF TInv
<1>k. kind' = kind /\ IsShm' = IsShm
  BY DEF CopyToRing, IsShm
<1>1. /\ cur \in Entry /\ cur.size \in 1 .. ShmSize /\ offset \in 0 .. ShmSize
      /\ cur.id \in Nat /\ cur.id < nextId /\ nextId \in 1 .. MaxMsgs + 1
      /\ IsShm
  BY EntryFields DEF TypeOK, CountInv, CopyToRing
<1>2. ShmSize \in Nat /\ MaxMsgs \in Nat
  BY ConstantTypes
<1>3. offset' \in 0 .. ShmSize
  <2>1. offset' = IF offset + cur.size > ShmSize
                    THEN cur.size - (ShmSize - offset)
                    ELSE offset + cur.size
    BY DEF CopyToRing
  <2>2. cur.size - (ShmSize - offset) = offset + cur.size - ShmSize
    BY <1>1, <1>2
  <2> QED  BY <2>1, <2>2, <1>1, <1>2
<1>4. shm' \in [Cells -> 0 .. MaxMsgs]
  <2>1. cur.id \in 0 .. MaxMsgs
    BY <1>1, <1>2
  <2>2. \A c \in Cells : shm[c] \in 0 .. MaxMsgs
    BY DEF TypeOK
  <2>3. shm' = [c \in Cells |->
                 IF \E k \in 0 .. cur.size - 1 : Cell(offset, k) = c THEN cur.id ELSE shm[c]]
    BY DEF CopyToRing
  <2> QED  BY <2>1, <2>2, <2>3
<1>5. TypeOK'
  BY <1>3, <1>4 DEF TypeOK, CopyToRing, Loops
<1>6. CountInv'
  BY <1>k, <1>1 DEF CountInv, CopyToRing
<1> QED  BY <1>5, <1>6

LEMMA TInvPopBegin ==
    ASSUME TInv, NEW n \in PopArgs, PopBegin(n)
    PROVE  TInv' /\ left' \in {Len(data), -Len(data)} /\ ret' = data
<1> USE DEF TInv
<1>k. kind' = kind /\ IsShm' = IsShm
  BY DEF PopBegin, IsShm
<1>1. data \in Seq(Entry) /\ data # <<>> /\ Len(data) \in Nat /\ Len(data) >= 1
  BY HeldEntries DEF TypeOK, PopBegin
<1>2. Len(data) \in 1 .. MaxMsgs
  <2>1. Len(data) < nextId /\ nextId <= MaxMsgs + 1 /\ nextId \in Int /\ MaxMsgs \in Nat
    BY ConstantTypes DEF TypeOK, CountInv
  <2> QED  BY <2>1, <1>1
<1>3. left' \in {Len(data), -Len(data)}
  BY <1>2, PopTakesAll DEF PopBegin
<1>4. ret' = data
  BY <1>1, <1>3, PeekAll DEF PopBegin
<1>5. TypeOK'
  BY <1>1, <1>3, <1>4 DEF TypeOK, PopBegin, Loops
<1>6. CountInv'
  BY <1>k, <1>3 DEF CountInv, PopBegin
<1> QED  BY <1>3, <1>4, <1>5, <1>6

LEMMA TInvPopStep ==
    ASSUME TInv, PopStep
    PROVE  TInv'
<1> USE DEF TInv
<1>k. kind' = kind /\ IsShm' = IsShm
  BY DEF PopStep, IsShm
<1>1. /\ data \in Seq(Entry) /\ Len(data) \in Nat /\ pushed \in Nat /\ occupied \in Nat
      /\ left \in {Len(data), -Len(data)} /\ left # 0 /\ pc = "pop" /\ pc' = "pop"
      /\ UNCHANGED <<nextId, cur>>
  BY HeldEntries DEF TypeOK, CountInv, PopStep
<1>2. Len(data) >= 1 /\ data # <<>>
  BY <1>1, EmptySeq
<1>3. CASE left < 0
  <2>1. left = -Len(data) /\ left' = left + 1
    BY <1>1, <1>2, <1>3 DEF PopStep
  <2>2. /\ data' = Front(data)
        /\ occupied' = occupied - Accounted(Last(data))
        /\ pushed' = pushed - Accounted(Last(data))
    BY <1>3 DEF PopStep, PopVictim
  <2>3. /\ data' \in Seq(Entry) /\ Len(data') = Len(data) - 1
        /\ DOMAIN data' = 1 .. Len(data) - 1
        /\ \A i \in 1 .. Len(data) - 1 : data'[i] = data[i]
    BY <1>1, <1>2, <2>2, FrontProperties
  <2>4. /\ occupied' \in Nat /\ pushed' \in Nat
        /\ RingOrder(data', pushed', occupied')
    BY <1>1, <1>2, <2>2, OrderFront DEF CountInv
  <2>5. \A i \in DOMAIN data' : data'[i].id < nextId' /\ (~IsShm => ~OnRing(data'[i]))
    BY <1>1, <2>3, HeldEntries DEF CountInv
  <2>6. left' = -Len(data') /\ left' \in Int
    BY <1>1, <2>1, <2>3
  <2>7. Len(data') < nextId' /\ cur'.id < nextId'
    <3>1. Len(data) < nextId /\ nextId \in Int /\ cur.id < nextId
      BY DEF CountInv, TypeOK
    <3> QED  BY <3>1, <1>1, <2>3
  <2>8. TypeOK'
    BY <2>3, <2>4, <2>6 DEF TypeOK, PopStep
  <2>9. CountInv'
    BY <1>k, <1>1, <2>4, <2>5, <2>6, <2>7 DEF CountInv
  <2> QED  BY <2>8, <2>9
<1>4. CASE ~(left < 0)
  <2>1. left = Len(data) /\ left' = left - 1
    BY <1>1, <1>2, <1>4 DEF PopStep
  <2>2. RemoveFront /\ pushed' = pushed
    BY <1>4 DEF PopStep, PopVictim, RemoveFront
  <2>3. /\ data' \in Seq(Entry) /\ occupied' \in Nat /\ Len(data') = Len(data) - 1
        /\ Len(data') < nextId' /\ cur'.id < nextId'
        /\ \A i \in DOMAIN data' : data'[i].id < nextId' /\ (~IsShm => ~OnRing(data'[i]))
        /\ RingOrder(data', pushed', occupied')
    BY <1>1, <1>2, <2>2, TInvRemoveFront
  <2>4. left' = Len(data') /\ left' \in Int
    BY <1>1, <2>1, <2>3
  <2>5. TypeOK'
    BY <2>2, <2>3, <2>4 DEF TypeOK, PopStep
  <2>6. CountInv'
    BY <1>k, <1>1, <2>3, <2>4 DEF CountInv
  <2> QED  BY <2>5, <2>6
<1> QED  BY <1>3, <1>4

LEMMA TInvNext == TInv /\ [Next]_vars => TInv'
<1> SUFFICES ASSUME TInv, [Next]_vars PROVE TInv'
  OBVIOUS
<1> USE DEF TInv
<1>k. kind' = kind /\ IsShm' = IsShm
  BY KindKept
<1>t. nextId \in Nat /\ now \in Int
  BY ConstantTypes DEF TypeOK
<1>1. CASE Tick
  <2>1. now' \in 0 .. MaxTime
    BY <1>1, ConstantTypes DEF TypeOK, Tick
  <2>2. TypeOK'
    BY <1>1, <2>1 DEF TypeOK, Tick
  <2>3. CountInv'
    BY <1>k, <1>1 DEF CountInv, Tick
  <2> QED  BY <2>2, <2>3
<1>2. CASE PutHeap
  <2>1. /\ ClientEntry("heap", now) \in Entry /\ ~OnRing(ClientEntry("heap", now))
        /\ ClientEntry("heap", now).id = nextId
    BY <1>t DEF ClientEntry, Entry, OnRing
  <2> QED  BY <2>1, <1>2, TInvAdd DEF PutHeap
<1>3. CASE ClientAdd
  <2>1. PICK loc \in kind.locs, skew \in kind.skews : AddDataPtr(ClientEntry(loc, now + skew))
    BY <1>3 DEF ClientAdd
  <2>2. now + skew \in Int /\ loc \in {"heap", "request"}
    BY <1>t, ConstantTypes DEF TypeOK
  <2>3. /\ ClientEntry(loc, now + skew) \in Entry /\ ~OnRing(ClientEntry(loc, now + skew))
        /\ ClientEntry(loc, now + skew).id = nextId
    BY <1>t, <2>2 DEF ClientEntry, Entry, OnRing
  <2> QED  BY <2>1, <2>3, TInvAdd
<1>4. ASSUME NEW size \in Sizes, PutShm(size) PROVE TInv'
  BY <1>4, TInvPutShm
<1>5. ASSUME NEW size \in Sizes, PutTooLarge(size) PROVE TInv'
  <2>1. TypeOK'
    BY <1>5 DEF TypeOK, PutTooLarge
  <2>2. CountInv'
    BY <1>k, <1>5 DEF CountInv, PutTooLarge
  <2> QED  BY <2>1, <2>2
<1>6. ASSUME NEW n \in PopArgs, PopBegin(n) PROVE TInv'
  BY <1>6, TInvPopBegin
<1>7. CASE EvictFront
  <2>1. /\ data' \in Seq(Entry) /\ occupied' \in Nat
        /\ Len(data') < nextId' /\ cur'.id < nextId'
        /\ \A i \in DOMAIN data' : data'[i].id < nextId' /\ (~IsShm => ~OnRing(data'[i]))
        /\ RingOrder(data', pushed', occupied')
    BY <1>7, TInvRemoveFront DEF EvictFront
  <2>2. TypeOK'
    BY <1>7, <2>1 DEF TypeOK, EvictFront
  <2>3. CountInv'
    BY <1>k, <1>7, <2>1 DEF CountInv, EvictFront
  <2> QED  BY <2>2, <2>3
<1>8. CASE CopyToRing
  BY <1>8, TInvCopy
<1>9. CASE PruneFront
  <2>1. /\ data' \in Seq(Entry) /\ occupied' \in Nat
        /\ Len(data') < nextId' /\ cur'.id < nextId'
        /\ \A i \in DOMAIN data' : data'[i].id < nextId' /\ (~IsShm => ~OnRing(data'[i]))
        /\ RingOrder(data', pushed', occupied')
    BY <1>9, TInvRemoveFront DEF PruneFront, HeadExpired
  <2>2. TypeOK'
    BY <1>9, <2>1 DEF TypeOK, PruneFront
  <2>3. CountInv'
    BY <1>k, <1>9, <2>1 DEF CountInv, PruneFront
  <2> QED  BY <2>2, <2>3
<1>10. CASE PutDone
  <2>1. TypeOK'
    BY <1>10 DEF TypeOK, PutDone, Loops
  <2>2. CountInv'
    BY <1>k, <1>10 DEF CountInv, PutDone
  <2> QED  BY <2>1, <2>2
<1>11. CASE PopStep
  BY <1>11, TInvPopStep
<1>12. CASE PopDone
  <2>1. [i \in DOMAIN ret |-> ret[i].id] \in Seq(Nat)
    <3>1. ret \in Seq(Entry)
      BY DEF TypeOK
    <3>2. Len(ret) \in Nat /\ DOMAIN ret = 1 .. Len(ret) /\ \A i \in DOMAIN ret : ret[i].id \in Nat
      BY <3>1, LenProperties, ElementOfSeq, EntryFields
    <3>3. [i \in DOMAIN ret |-> ret[i].id] \in [1 .. Len(ret) -> Nat]
      BY <3>2
    <3> QED  BY <3>2, <3>3, SeqDef
  <2>2. delivered' \in Seq(Nat)
    BY <1>12, <2>1, ConcatProperties DEF TypeOK, PopDone
  <2>3. <<>> \in Seq(Entry)
    BY EmptySeq
  <2>4. TypeOK'
    BY <1>12, <2>2, <2>3 DEF TypeOK, PopDone, Loops
  <2>5. CountInv'
    BY <1>k, <1>12 DEF CountInv, PopDone
  <2> QED  BY <2>4, <2>5
<1>13. CASE ParseThrows
  <2>1. <<>> \in Seq(Entry)
    BY EmptySeq
  <2>2. TypeOK'
    BY <1>13, <2>1 DEF TypeOK, ParseThrows, Loops
  <2>3. CountInv'
    BY <1>k, <1>13 DEF CountInv, ParseThrows
  <2> QED  BY <2>2, <2>3
<1>14. ASSUME NEW t \in 0 .. MaxTime, ResetStartTime(t) PROVE TInv'
  <2>1. <<>> \in Seq(Entry) /\ Len(<<>>) = 0 /\ DOMAIN <<>> = {}
    BY EmptySeq
  <2>2. TypeOK'
    BY <1>14, <2>1, ConstantTypes DEF TypeOK, ResetStartTime
  <2>3. RingOrder(<<>>, 0, occupied')
    BY <2>1 DEF RingOrder
  <2>4. Len(data') < nextId'
    BY <1>t, <1>14, <2>1 DEF ResetStartTime, TypeOK
  <2>5. CountInv'
    BY <1>k, <1>14, <2>1, <2>3, <2>4 DEF CountInv, ResetStartTime
  <2> QED  BY <2>2, <2>5
<1>15. CASE UNCHANGED vars
  <2>1. TypeOK'
    BY <1>15 DEF TypeOK, vars
  <2>2. CountInv'
    BY <1>k, <1>15 DEF CountInv, vars
  <2> QED  BY <2>1, <2>2
<1> QED
  BY <1>1, <1>2, <1>3, <1>4, <1>5, <1>6, <1>7, <1>8, <1>9, <1>10, <1>11, <1>12,
     <1>13, <1>14, <1>15 DEF Next, LoopStep

(* On every topic, with any mix of server puts, client puts, requests,     *)
(* pops and resets, the state keeps its type: in particular the 64-bit     *)
(* occupied_shm_size_ is never decremented below zero, and                 *)
(* current_shm_offset_ stays within the ring or at its end.                *)
THEOREM TypeCorrect == Spec => []TypeOK
<1>1. Init => TInv
  BY TInvInit
<1>2. TInv /\ [Next]_vars => TInv'
  BY TInvNext
<1>3. TInv => TypeOK
  BY DEF TInv
<1> QED  BY <1>1, <1>2, <1>3, PTL DEF Spec

-----------------------------------------------------------------------------
(* The ring never overwrites a held message.  The argument: measured from  *)
(* the byte position of the next copy, a held message occupies positions   *)
(* between ShmSize below it and itself (CountInv and ~Overfull), and its   *)
(* cells are those positions modulo ShmSize (Placed).                      *)

(* A topic with shared memory that clients put no raw payloads to. *)
Clean == IsShm /\ "heap" \notin kind.locs

RInv == TInv /\ (Clean => RingInv)

(* Two bytes less than a ring apart are in different cells. *)
LEMMA CellsDiffer ==
    ASSUME NEW start \in Nat, NEW m \in Nat, NEW off \in 0 .. ShmSize, NEW k \in Nat,
           NEW c \in Nat, NEW pos \in Nat,
           start <= ShmSize, m < ShmSize, k < ShmSize,
           start - off + c - pos \in {0, ShmSize},
           pos + m < c + k, (c + k) - (pos + m) < ShmSize
    PROVE  /\ Cell(start, m) \in Cells
           /\ Cell(off, k) # Cell(start, m)
<1>1. ShmSize \in Nat /\ ShmSize >= 1
  BY ConstantTypes
<1>2. Cell(start, m) = start + m \/ Cell(start, m) = start + m - ShmSize
  BY DEF Cell
<1>3. Cell(off, k) = off + k \/ Cell(off, k) = off + k - ShmSize
  BY DEF Cell
<1>4. Cell(start, m) \in Cells
  BY <1>1 DEF Cell, Cells
<1>5. CASE start - off + c - pos = 0
  <2>1. (off + k) - (start + m) > 0 /\ (off + k) - (start + m) < ShmSize
    BY <1>1, <1>5
  <2> QED  BY <1>1, <1>2, <1>3, <1>4, <2>1
<1>6. CASE start - off + c - pos = ShmSize
  <2>1. (off + k) - (start + m) < 0 /\ (off + k) - (start + m) > -ShmSize
    BY <1>1, <1>6
  <2> QED  BY <1>1, <1>2, <1>3, <1>4, <2>1
<1> QED  BY <1>4, <1>5, <1>6

(* Entries that leave, from either end, disturb nothing of what is left. *)
LEMMA RingKept ==
    ASSUME RingInv,
           \A i \in DOMAIN data' : \E j \in DOMAIN data : data'[i] = data[j],
           UNCHANGED <<offset, shm, pc, cur, left, pushed>>
    PROVE  /\ \A i \in DOMAIN data' : Placed(data[i])'
           /\ CopiedBytes' >= 0
           /\ CopiedBytes' > 0 => offset' > 0
           /\ pc' = "evict" => cur'.pos = CopiedBytes' /\ cur'.start = offset'
<1>1. CopiedBytes' = CopiedBytes
  BY DEF CopiedBytes
<1>2. ASSUME NEW i \in DOMAIN data'
      PROVE  Placed(data[i])'
  <2>1. PICK j \in DOMAIN data : data'[i] = data[j]
    OBVIOUS
  <2>2. Placed(data[j])
    BY DEF RingInv
  <2> QED  BY <2>1, <2>2, <1>1 DEF Placed, Copied, Readable
<1> QED  BY <1>1, <1>2 DEF RingInv

LEMMA TailComesFrom ==
    ASSUME NEW q \in Seq(Entry), q # <<>>
    PROVE  \A i \in DOMAIN Tail(q) : \E j \in DOMAIN q : Tail(q)[i] = q[j]
<1>1. /\ DOMAIN Tail(q) = 1 .. Len(q) - 1 /\ DOMAIN q = 1 .. Len(q) /\ Len(q) \in Nat
      /\ \A i \in 1 .. Len(q) - 1 : Tail(q)[i] = q[i + 1]
  BY TailProperties, LenProperties
<1>2. \A i \in DOMAIN Tail(q) : i + 1 \in DOMAIN q /\ Tail(q)[i] = q[i + 1]
  BY <1>1
<1> QED  BY <1>2

LEMMA RingAdd ==
    ASSUME RInv, Clean, NEW e \in Entry, e.loc = "request", AddDataPtr(e)
    PROVE  RingInv'
<1> DEFINE q == Append(data, e)
<1> USE DEF RInv, TInv
<1>1. data \in Seq(Entry) /\ pc = "idle" /\ pc' = "idle"
  BY DEF TypeOK, AddDataPtr
<1>2. \A i \in DOMAIN q : q[i] = e \/ \E j \in DOMAIN data : q[i] = data[j]
  <2>1. /\ DOMAIN q = 1 .. Len(data) + 1 /\ DOMAIN data = 1 .. Len(data) /\ Len(data) \in Nat
        /\ \A i \in 1 .. Len(data) : q[i] = data[i]
        /\ q[Len(data) + 1] = e
    BY <1>1, AppendFacts, LenProperties
  <2>2. \A i \in DOMAIN q : i \in DOMAIN data \/ i = Len(data) + 1
    BY <2>1
  <2> QED  BY <2>1, <2>2
<1>3. \A i \in DOMAIN data' : \E j \in DOMAIN q : data'[i] = q[j]
  <2>1. q \in Seq(Entry) /\ Len(q) = Len(data) + 1 /\ DOMAIN q = 1 .. Len(q) /\ Len(q) \in Nat
    BY <1>1, AppendFacts, LenProperties
  <2>2. PICK k \in 0 .. Len(q) : data' = SubSeq(q, k + 1, Len(q))
    BY <2>1 DEF AddDataPtr, PrunedCount
  <2> HIDE DEF q
  <2>3. DOMAIN data' = 1 .. Len(q) - k /\ \A i \in 1 .. Len(q) - k : data'[i] = q[i + k]
    BY <2>1, <2>2, SuffixProperties
  <2>4. \A i \in DOMAIN data' : i + k \in DOMAIN q /\ data'[i] = q[i + k]
    BY <2>1, <2>2, <2>3
  <2> QED  BY <2>4
<1>4. UNCHANGED <<occupied, offset, shm, pc, cur, left, pushed>> /\ CopiedBytes' = CopiedBytes
  BY DEF AddDataPtr, CopiedBytes
<1>5. ASSUME NEW i \in DOMAIN data'
      PROVE  Placed(data[i])'
  <2>1. CASE data'[i] = e
    BY <2>1, <1>1 DEF Placed, OnRing, Copied
  <2>2. CASE \E j \in DOMAIN data : data'[i] = data[j]
    <3>1. PICK j \in DOMAIN data : data'[i] = data[j]
      BY <2>2
    <3>2. Placed(data[j])
      BY DEF RingInv
    <3> QED  BY <3>1, <3>2, <1>4 DEF Placed, Copied, Readable
  <2> QED  BY <2>1, <2>2, <1>2, <1>3
<1> QED  BY <1>1, <1>4, <1>5 DEF RingInv

LEMMA RingPutShm ==
    ASSUME RInv, Clean, NEW size \in Sizes, PutShm(size)
    PROVE  RingInv'
<1> DEFINE e == RingEntry(size)
<1> USE DEF RInv, TInv
<1>1. /\ data \in Seq(Entry) /\ nextId \in Nat /\ ShmSize \in Nat
      /\ size \in Nat /\ size > 0 /\ size <= ShmSize
      /\ pushed \in Nat /\ offset \in 0 .. ShmSize /\ now \in Int
      /\ pc = "idle" /\ pc' = "evict" /\ pushed' = pushed + size
      /\ UNCHANGED <<offset, shm, left>>
  BY SMTT(20), ConstantTypes DEF TypeOK, PutShm
<1>2. /\ e \in Entry /\ OnRing(e) /\ e.pos = pushed /\ e.size = size /\ e.id = nextId
      /\ e.start = offset
  BY <1>1 DEF RingEntry, Entry, OnRing
<1>3. cur' = e /\ data' = Append(data, e)
  BY DEF PutShm
<1> HIDE DEF e
<1>4. CopiedBytes = pushed /\ CopiedBytes' = pushed
  <2>1. cur'.size = size
    BY <1>2, <1>3
  <2> QED  BY <1>1, <2>1 DEF CopiedBytes
<1>5. \A i \in DOMAIN data' : data'[i] = e \/ (i \in DOMAIN data /\ data'[i] = data[i])
  <2>1. /\ DOMAIN data' = 1 .. Len(data) + 1 /\ DOMAIN data = 1 .. Len(data) /\ Len(data) \in Nat
        /\ \A i \in 1 .. Len(data) : data'[i] = data[i]
        /\ data'[Len(data) + 1] = e
    BY <1>1, <1>2, <1>3, AppendFacts, LenProperties
  <2>2. \A i \in DOMAIN data' : i \in DOMAIN data \/ i = Len(data) + 1
    BY <2>1
  <2> QED  BY <2>1, <2>2
<1>6. ASSUME NEW i \in DOMAIN data'
      PROVE  Placed(data[i])'
  <2>1. CASE data'[i] = e
    <3>1. data'[i].loc # "heap" /\ ~Copied(data[i])' /\ data'[i] = cur'
      BY <2>1, <1>1, <1>2, <1>3 DEF OnRing, Copied
    <3>2. e.start <= ShmSize /\ e.start - offset + pushed - e.pos = 0
      BY <1>1, <1>2
    <3> QED  BY <2>1, <3>1, <3>2, <1>1, <1>4 DEF Placed
  <2>2. CASE i \in DOMAIN data /\ data'[i] = data[i]
    <3>1. Placed(data[i]) /\ data[i].id < nextId /\ data[i].id \in Nat
      BY <2>2, HeldEntries, EntryFields DEF RingInv, CountInv
    <3>2. data'[i].id # cur'.id
      BY <2>2, <3>1, <1>1, <1>2, <1>3
    <3>3. OnRing(data[i]) => RingEnd(data[i]) <= pushed
      BY <2>2 DEF CountInv, RingOrder
    <3> QED  BY <2>2, <3>1, <3>2, <3>3, <1>1, <1>4 DEF Placed, Copied, Readable
  <2> QED  BY <2>1, <2>2, <1>5
<1>7. CopiedBytes' >= 0 /\ (CopiedBytes' > 0 => offset' > 0)
  BY <1>1, <1>4 DEF RingInv
<1> QED  BY <1>1, <1>2, <1>3, <1>4, <1>6, <1>7 DEF RingInv

LEMMA RingCopy ==
    ASSUME RInv, Clean, CopyToRing
    PROVE  RingInv'
<1> DEFINE s == cur.size
           c == CopiedBytes
<1> USE DEF RInv, TInv
<1>1. /\ cur \in Entry /\ OnRing(cur) /\ s \in Nat /\ s >= 1 /\ s <= ShmSize
      /\ offset \in Nat /\ offset <= ShmSize /\ pushed \in Nat /\ occupied \in Nat
      /\ ShmSize \in Nat /\ IsShm /\ RingInv
  BY ConstantTypes DEF TypeOK, CountInv, CopyToRing
<1>2. /\ pc = "evict" /\ pc' = "prune" /\ occupied <= ShmSize
      /\ UNCHANGED <<data, occupied, cur, left, pushed>>
  BY <1>1 DEF CopyToRing, Overfull
<1>3. /\ cur.pos = c /\ cur.start = offset /\ c = pushed - s /\ c \in Int /\ c >= 0
      /\ CopiedBytes' = pushed
  BY <1>1, <1>2 DEF RingInv, CopiedBytes
<1>4. offset' = IF offset + s > ShmSize THEN offset + s - ShmSize ELSE offset + s
  <2>1. offset' = IF offset + s > ShmSize THEN s - (ShmSize - offset) ELSE offset + s
    BY DEF CopyToRing
  <2>2. s - (ShmSize - offset) = offset + s - ShmSize
    BY <1>1
  <2> QED  BY <2>1, <2>2
<1>5. offset' \in Nat /\ offset' >= 1 /\ offset' <= ShmSize
  BY <1>1, <1>4
<1>6. /\ \A x \in Cells : (\E k \in 0 .. s - 1 : Cell(offset, k) = x) => shm'[x] = cur.id
      /\ \A x \in Cells : (\A k \in 0 .. s - 1 : Cell(offset, k) # x) => shm'[x] = shm[x]
  BY DEF CopyToRing
<1> HIDE DEF s, c
<1>7. ASSUME NEW i \in DOMAIN data
      PROVE  Placed(data[i])'
  <2> DEFINE e == data[i]
  <2>1. e \in Entry /\ Placed(e)
    BY <1>1, HeldEntries DEF RingInv
  <2>2. data'[i] = e
    BY <1>2
  <2>3. CASE ~OnRing(e)
    BY <2>1, <2>2, <2>3, <1>2 DEF Placed, Copied
  <2>4. CASE OnRing(e)
    <3>1. /\ e.size \in Nat /\ e.size > 0 /\ e.pos \in Nat /\ e.start \in Nat
          /\ e.pos + e.size <= pushed /\ pushed - e.pos <= occupied
      BY <2>1, <2>4, EntryFields DEF CountInv, RingOrder, RingEnd
    <3>2. e.start <= ShmSize /\ e.start - offset + c - e.pos \in {0, ShmSize}
      BY <2>1, <2>4, <1>2 DEF Placed, c
    <3>3. e.start - offset' + pushed - e.pos \in {0, ShmSize}
      <4>1. CASE offset + s > ShmSize
        <5>1. offset' = offset + s - ShmSize
          BY <4>1, <1>4
        <5>2. e.start - offset' + pushed - e.pos = (e.start - offset + c - e.pos) + ShmSize
          BY <5>1, <3>1, <1>1, <1>3
        <5>3. e.start - offset' + pushed - e.pos < ShmSize + ShmSize
          BY <3>1, <3>2, <1>1, <1>2, <1>5
        <5>4. ShmSize >= 1
          BY ConstantTypes
        <5> QED  BY <5>2, <5>3, <5>4, <3>2, <1>1
      <4>2. CASE ~(offset + s > ShmSize)
        <5>1. offset' = offset + s
          BY <4>2, <1>4
        <5> QED  BY <5>1, <3>1, <3>2, <1>1, <1>3
      <4> QED  BY <4>1, <4>2
    <3>4. \A k \in 0 .. e.size - 1 : shm'[Cell(e.start, k)] = e.id
      <4>1. CASE e = cur
        <5>1. \A k \in 0 .. s - 1 : Cell(offset, k) \in Cells
          BY <1>1 DEF Cell, Cells
        <5> QED  BY <4>1, <5>1, <1>3, <1>6 DEF s
      <4>2. CASE e.id # cur.id /\ RingEnd(e) <= c
        <5> SUFFICES ASSUME NEW m \in 0 .. e.size - 1
                     PROVE  shm'[Cell(e.start, m)] = e.id
          OBVIOUS
        <5>1. shm[Cell(e.start, m)] = e.id
          BY <2>1, <2>4, <4>2, <1>2 DEF Placed, Copied, Readable
        <5>2. e.pos + e.size <= c /\ c - e.pos <= ShmSize - s
          BY <4>2, <3>1, <1>1, <1>2, <1>3 DEF RingEnd
        <5>3. m \in Nat /\ m < ShmSize /\ e.pos + m < c
          BY <3>1, <5>2, <1>1, <1>3
        <5>4. ASSUME NEW k \in 0 .. s - 1
              PROVE  Cell(e.start, m) \in Cells /\ Cell(offset, k) # Cell(e.start, m)
          <6>1. k \in Nat /\ k < ShmSize /\ e.pos + m < c + k /\ (c + k) - (e.pos + m) < ShmSize
            BY <3>1, <5>2, <5>3, <1>1, <1>3
          <6>2. offset \in 0 .. ShmSize /\ c \in Nat
            BY <1>1, <1>3
          <6> QED  BY <3>1, <3>2, <5>3, <6>1, <6>2, CellsDiffer
        <5>5. 0 \in 0 .. s - 1
          BY <1>1
        <5> QED  BY <5>1, <5>4, <5>5, <1>6
      <4> QED  BY <4>1, <4>2, <2>1, <2>4, <1>2 DEF Placed, c
    <3> QED  BY <2>1, <2>2, <2>4, <3>2, <3>3, <3>4, <1>2, <1>3 DEF Placed, Copied, Readable
  <2> QED  BY <2>3, <2>4
<1>8. \A i \in DOMAIN data' : Placed(data[i])'
  BY <1>2, <1>7
<1> QED  BY <1>1, <1>2, <1>3, <1>5, <1>8 DEF RingInv

LEMMA RingPopStep ==
    ASSUME RInv, Clean, PopStep
    PROVE  RingInv'
<1> USE DEF RInv, TInv
<1>1. /\ data \in Seq(Entry) /\ Len(data) \in Nat /\ pc = "pop" /\ pc' = "pop"
      /\ left \in {Len(data), -Len(data)} /\ left # 0 /\ occupied \in Nat /\ occupied <= ShmSize
      /\ pushed \in Nat /\ ShmSize \in Nat
      /\ UNCHANGED <<offset, shm, cur>>
  BY HeldEntries, ConstantTypes DEF TypeOK, CountInv, PopStep, RingInv
<1>2. Len(data) >= 1 /\ data # <<>>
  BY <1>1, EmptySeq
<1>3. Accounted(PopVictim) \in Nat
  <2>1. Head(data) \in Entry /\ Last(data) \in Entry
    BY <1>1, <1>2, TailProperties, FrontProperties
  <2> QED  BY <2>1, EntryFields DEF PopVictim
<1>4. occupied' = occupied - Accounted(PopVictim) /\ occupied' <= ShmSize
  BY <1>1, <1>3 DEF PopStep
<1>5. TInv'
  BY TInvPopStep
<1>6. CopiedBytes = pushed /\ CopiedBytes' = pushed' /\ pushed' \in Nat
  BY <1>1, <1>5 DEF CopiedBytes, TypeOK
<1>7. CASE left < 0
  <2>1. /\ pushed' = pushed - Accounted(PopVictim) /\ left' = left + 1 /\ left = -Len(data)
        /\ data' = Front(data)
    BY <1>1, <1>2, <1>7 DEF PopStep
  <2>2. CopiedBytes' > 0 => offset' > 0
    BY <1>1, <1>3, <1>6, <2>1 DEF RingInv
  <2>3. /\ DOMAIN data' = 1 .. Len(data) - 1
        /\ \A i \in 1 .. Len(data) - 1 : data'[i] = data[i]
    BY <1>1, <1>2, <2>1, FrontProperties
  <2>4. ASSUME NEW i \in DOMAIN data'
        PROVE  Placed(data[i])'
    <3>1. i \in DOMAIN data /\ data'[i] = data[i] /\ Len(data) > 1
      BY <1>1, <2>3, HeldEntries
    <3>2. Placed(data[i]) /\ left' < 0
      BY <1>1, <2>1, <3>1 DEF RingInv
    <3> QED  BY <1>1, <3>1, <3>2 DEF Placed, Copied, Readable
  <2> QED  BY <1>1, <1>4, <1>6, <2>2, <2>4 DEF RingInv
<1>8. CASE ~(left < 0)
  <2>1. /\ pushed' = pushed /\ left' = left - 1 /\ left = Len(data) /\ data' = Tail(data)
    BY <1>1, <1>2, <1>8 DEF PopStep
  <2>2. CopiedBytes' > 0 => offset' > 0
    BY <1>1, <1>6, <2>1 DEF RingInv
  <2>3. ASSUME NEW i \in DOMAIN data'
        PROVE  Placed(data[i])'
    <3>1. PICK j \in DOMAIN data : data'[i] = data[j]
      BY <1>1, <1>2, <2>1, TailComesFrom
    <3>2. Placed(data[j])
      BY DEF RingInv
    <3> QED  BY <1>1, <1>6, <1>8, <2>1, <3>1, <3>2 DEF Placed, Copied, Readable
  <2> QED  BY <1>1, <1>4, <1>6, <2>2, <2>3 DEF RingInv
<1> QED  BY <1>7, <1>8

(* Without raw client payloads no loop finds one to choke on. *)
LEMMA NeverChokes ==
    ASSUME RInv, Clean
    PROVE  ~ParseThrows
<1> USE DEF RInv, TInv
<1> SUFFICES ASSUME Parsed # NoEntry, Parsed.loc = "heap"
             PROVE  FALSE
  BY DEF ParseThrows
<1>1. data \in Seq(Entry) /\ \A i \in DOMAIN data : data[i].loc # "heap"
  BY DEF TypeOK, RingInv, Placed
<1>2. data # <<>> => Head(data).loc # "heap" /\ Last(data).loc # "heap"
  <2> SUFFICES ASSUME data # <<>>
               PROVE  Head(data).loc # "heap" /\ Last(data).loc # "heap"
    OBVIOUS
  <2>1. Head(data) = data[1] /\ Last(data) = data[Len(data)] /\ Len(data) >= 1
    BY <1>1, TailProperties, FrontProperties
  <2>2. 1 \in DOMAIN data /\ Len(data) \in DOMAIN data
    BY <2>1, HeldEntries
  <2> QED  BY <1>1, <2>1, <2>2
<1>3. CASE pc = "evict" /\ Overfull /\ data # <<>>
  BY <1>2, <1>3 DEF Parsed
<1>4. CASE pc = "prune" /\ HeadExpired
  BY <1>2, <1>4 DEF Parsed, HeadExpired
<1>5. CASE pc = "pop" /\ left # 0
  <2>1. data # <<>>
    BY <1>5, EmptySeq DEF CountInv
  <2> QED  BY <1>2, <1>5, <2>1 DEF Parsed, PopVictim
<1>6. CASE /\ ~(pc = "evict" /\ Overfull /\ data # <<>>)
           /\ ~(pc = "prune" /\ HeadExpired)
           /\ ~(pc = "pop" /\ left # 0)
  <2>1. Parsed = NoEntry
    BY <1>6 DEF Parsed
  <2> QED  BY <2>1
<1> QED  BY <1>3, <1>4, <1>5, <1>6

LEMMA RingNext ==
    ASSUME Clean, RInv, [Next]_vars
    PROVE  RingInv'
<1> USE DEF RInv, TInv
<1>1. data \in Seq(Entry) /\ nextId \in Nat /\ now \in Int /\ occupied \in Nat /\ ShmSize \in Nat
  BY ConstantTypes DEF TypeOK
<1>s. ASSUME UNCHANGED <<data, occupied, offset, shm, pc, cur, left, pushed>>
      PROVE  RingInv'
  BY <1>s DEF RingInv, Placed, CopiedBytes, Copied, Readable
<1>2. CASE Tick
  BY <1>2, <1>s DEF Tick
<1>3. CASE PutHeap
  BY <1>3 DEF PutHeap, Clean
<1>4. CASE ClientAdd
  <2>1. PICK loc \in kind.locs, skew \in kind.skews : AddDataPtr(ClientEntry(loc, now + skew))
    BY <1>4 DEF ClientAdd
  <2>2. now + skew \in Int /\ loc = "request"
    BY <1>1, ConstantTypes DEF TypeOK, Clean
  <2>3. ClientEntry(loc, now + skew) \in Entry /\ ClientEntry(loc, now + skew).loc = "request"
    BY <1>1, <2>2 DEF ClientEntry, Entry
  <2> QED  BY <2>1, <2>3, RingAdd
<1>5. ASSUME NEW size \in Sizes, PutShm(size) PROVE RingInv'
  BY <1>5, RingPutShm
<1>6. ASSUME NEW size \in Sizes, PutTooLarge(size) PROVE RingInv'
  BY <1>6, <1>s DEF PutTooLarge
<1>7. ASSUME NEW n \in PopArgs, PopBegin(n) PROVE RingInv'
  BY <1>7 DEF PopBegin, RingInv, Placed, CopiedBytes, Copied, Readable
<1>8. ASSUME data # <<>>, RemoveFront, UNCHANGED <<offset, shm, pc, cur, left, pushed>>
      PROVE  RingInv'
  <2>1. \A i \in DOMAIN data' : \E j \in DOMAIN data : data'[i] = data[j]
    BY <1>1, <1>8, TailComesFrom DEF RemoveFront
  <2>2. Accounted(Head(data)) \in Nat
    BY <1>1, <1>8, TailProperties, EntryFields
  <2>3. pc' # "evict" => occupied' <= ShmSize
    BY <1>1, <1>8, <2>2 DEF RingInv, RemoveFront
  <2> QED  BY <1>8, <2>1, <2>3, RingKept DEF RingInv
<1>9. CASE EvictFront
  BY <1>8, <1>9 DEF EvictFront
<1>10. CASE CopyToRing
  BY <1>10, RingCopy
<1>11. CASE PruneFront
  BY <1>8, <1>11 DEF PruneFront, HeadExpired
<1>12. CASE PutDone
  BY <1>12 DEF PutDone, RingInv, Placed, CopiedBytes, Copied, Readable
<1>13. CASE PopStep
  BY <1>13, RingPopStep
<1>14. CASE PopDone
  BY <1>14 DEF PopDone, RingInv, Placed, CopiedBytes, Copied, Readable
<1>15. CASE ParseThrows
  BY <1>15, NeverChokes
<1>16. ASSUME NEW t \in 0 .. MaxTime, ResetStartTime(t) PROVE RingInv'
  <2>1. DOMAIN <<>> = {}
    BY EmptySeq
  <2> QED  BY <1>1, <1>16, <2>1 DEF ResetStartTime, RingInv, CopiedBytes
<1>17. CASE UNCHANGED vars
  BY <1>17, <1>s DEF vars
<1> QED
  BY <1>2, <1>3, <1>4, <1>5, <1>6, <1>7, <1>9, <1>10, <1>11, <1>12, <1>13, <1>14, <1>15,
     <1>16, <1>17 DEF Next, LoopStep

LEMMA RInvInit == Init => RInv
<1> SUFFICES ASSUME Init PROVE RInv
  OBVIOUS
<1>1. DOMAIN <<>> = {}
  BY EmptySeq
<1>2. RingInv
  BY <1>1, ConstantTypes DEF Init, RingInv, CopiedBytes
<1> QED  BY <1>2, TInvInit DEF RInv

LEMMA RInvNext == RInv /\ [Next]_vars => RInv'
<1> SUFFICES ASSUME RInv, [Next]_vars PROVE RInv'
  OBVIOUS
<1>1. TInv'
  BY TInvNext DEF RInv
<1>2. Clean' => Clean
  BY KindKept DEF Clean
<1>3. Clean => RingInv'
  BY RingNext
<1> QED  BY <1>1, <1>2, <1>3 DEF RInv

LEMMA RInvIntact ==
    ASSUME RInv, IsShm => Clean
    PROVE  RingIntact
<1> SUFFICES ASSUME NEW i \in DOMAIN data, Copied(data[i])
             PROVE  Readable(data[i])
  BY DEF RingIntact
<1>1. CASE IsShm
  BY <1>1 DEF RInv, RingInv, Placed
<1>2. CASE ~IsShm
  BY <1>2 DEF RInv, TInv, CountInv, Copied
<1> QED  BY <1>1, <1>2

(* On a topic to which clients add no raw payloads, every held message can *)
(* be read back from the ring whatever the sizes, the ring, the retention  *)
(* and the order of puts, requests, pops and resets: copy_data_to_shm      *)
(* never overwrites it (data_topic.cpp:88-113).                            *)
THEOREM RingSafe ==
    ASSUME \A k \in Kinds : "heap" \notin k.locs
    PROVE  Spec => []RingIntact
<1>1. Init => RInv
  BY RInvInit
<1>2. RInv /\ [Next]_vars => RInv'
  BY RInvNext
<1>3. RInv => RingIntact
  BY RInvIntact DEF RInv, TInv, TypeOK, Clean
<1> QED  BY <1>1, <1>2, <1>3, PTL DEF Spec

-----------------------------------------------------------------------------
(* The bytes that are counted, and those the entries hold: how Contiguous  *)
(* and Slack go with the deque.                                            *)

LEMMA DriftSuffix ==
    ASSUME NEW q \in Seq(Entry), NEW k \in 0 .. Len(q), NEW b \in Nat, NEW o \in Nat,
           NEW m \in Nat, RingOrder(q, b, o), Contiguous(q, b), o <= m
    PROVE  /\ Contiguous(SubSeq(q, k + 1, Len(q)), b)
           /\ Slack(SubSeq(q, k + 1, Len(q)), b, o, m)
<1> DEFINE r == SubSeq(q, k + 1, Len(q))
           n == Len(q)
<1>1. /\ DOMAIN r = 1 .. n - k /\ DOMAIN q = 1 .. n /\ n \in Nat /\ Len(r) = n - k
      /\ \A i \in 1 .. n - k : r[i] = q[i + k]
  BY SuffixProperties, LenProperties
<1>2. \A i \in DOMAIN q : q[i] \in Entry
  BY <1>1, ElementOfSeq
<1>3. n = Len(q)
  OBVIOUS
<1> HIDE DEF r, n
<1>4. \A i \in DOMAIN r : i \in Nat /\ i + k \in DOMAIN q /\ r[i] = q[i + k]
  BY <1>1
<1>5. \A i, j \in DOMAIN r : i < j => i + k < j + k
  BY <1>4
<1>6. ASSUME NEW i \in DOMAIN r, NEW j \in Nat, NoRing(r, i + 1, j)
      PROVE  NoRing(q, i + k + 1, j + k)
  <2> SUFFICES ASSUME NEW x \in DOMAIN q, i + k + 1 <= x, x <= j + k PROVE ~OnRing(q[x])
    BY DEF NoRing
  <2>1. x - k \in DOMAIN r /\ r[x - k] = q[x] /\ i + 1 <= x - k /\ x - k <= j
    BY SMTT(20), <1>1, <1>4
  <2> QED  BY <2>1, <1>6 DEF NoRing
<1>7. ASSUME NEW i \in DOMAIN r, NEW j \in DOMAIN r, OnRing(r[i]), OnRing(r[j]), i < j,
             NoRing(r, i + 1, j - 1)
      PROVE  RingEnd(r[i]) = r[j].pos
  <2>a. k \in Nat /\ j \in Nat /\ j >= 1
    BY <1>1
  <2>1. j - 1 \in Nat /\ j - 1 + k = j + k - 1
    BY <2>a
  <2>2. NoRing(q, i + k + 1, j + k - 1)
    BY <2>1, <1>6, <1>7
  <2> QED  BY SMTT(20), <2>2, <1>4, <1>5, <1>7 DEF Contiguous
<1>8. ASSUME NEW i \in DOMAIN r, OnRing(r[i]), NoRing(r, i + 1, Len(r))
      PROVE  RingEnd(r[i]) = b
  <2>1. Len(r) \in Nat /\ Len(r) + k = Len(q)
    BY <1>1, <1>3
  <2>2. NoRing(q, i + k + 1, Len(q))
    BY <2>1, <1>6, <1>8
  <2> QED  BY <2>2, <1>4, <1>8 DEF Contiguous
<1>9. Contiguous(r, b)
  BY <1>7, <1>8 DEF Contiguous
<1>10. ASSUME NEW i \in DOMAIN r, OnRing(r[i])
       PROVE  o - (b - r[i].pos) <= m
  <2>1. RingEnd(r[i]) <= b /\ r[i] \in Entry
    BY <1>2, <1>4, <1>10 DEF RingOrder
  <2>2. r[i].pos \in Nat /\ r[i].size \in Nat
    BY <2>1, EntryFields
  <2> QED  BY <2>1, <2>2 DEF RingEnd
<1>11. Slack(r, b, o, m)
  BY <1>10 DEF Slack
<1> QED  BY <1>9, <1>11 DEF r, n

LEMMA DriftTail ==
    ASSUME NEW q \in Seq(Entry), q # <<>>, NEW b \in Nat, Contiguous(q, b)
    PROVE  /\ Contiguous(Tail(q), b)
           /\ \A o, m \in Nat :
                Slack(q, b, o, m) => Slack(Tail(q), b, o - Accounted(Head(q)), m)
<1> DEFINE r == Tail(q)
           n == Len(q)
           a == Accounted(q[1])
<1>1. /\ DOMAIN r = 1 .. n - 1 /\ DOMAIN q = 1 .. n /\ n \in Nat /\ n >= 1 /\ Len(r) = n - 1
      /\ \A i \in 1 .. n - 1 : r[i] = q[i + 1]
      /\ Head(q) = q[1]
  BY TailProperties, LenProperties
<1>2. \A i \in DOMAIN q : q[i] \in Entry
  BY <1>1, ElementOfSeq
<1>3. n = Len(q) /\ a = IF OnRing(q[1]) THEN q[1].size ELSE 0
  BY DEF Accounted
<1> HIDE DEF r, n, a
<1>4. 1 \in DOMAIN q /\ \A i \in DOMAIN r : i \in Nat /\ i >= 1 /\ i + 1 \in DOMAIN q /\ r[i] = q[i + 1]
  BY <1>1
<1>5. \A i, j \in DOMAIN r : i < j => i + 1 < j + 1
  BY <1>4
<1>6. ASSUME NEW i \in Nat, NEW j \in Nat, NoRing(r, i + 1, j)
      PROVE  NoRing(q, i + 1 + 1, j + 1)
  <2> SUFFICES ASSUME NEW x \in DOMAIN q, i + 1 + 1 <= x, x <= j + 1 PROVE ~OnRing(q[x])
    BY DEF NoRing
  <2>1. x - 1 \in DOMAIN r /\ r[x - 1] = q[x] /\ i + 1 <= x - 1 /\ x - 1 <= j
    BY <1>1, <1>4
  <2> QED  BY <2>1, <1>6 DEF NoRing
<1>7. ASSUME NEW i \in DOMAIN r, NEW j \in DOMAIN r, OnRing(r[i]), OnRing(r[j]), i < j,
             NoRing(r, i + 1, j - 1)
      PROVE  RingEnd(r[i]) = r[j].pos
  <2>1. j - 1 \in Nat /\ j - 1 + 1 = j + 1 - 1
    BY <1>4
  <2>2. NoRing(q, i + 1 + 1, j + 1 - 1)
    BY <2>1, <1>4, <1>6, <1>7
  <2> QED  BY <2>2, <1>4, <1>5, <1>7 DEF Contiguous
<1>8. Len(r) \in Nat /\ Len(r) + 1 = Len(q)
  BY <1>1, <1>3
<1>9. ASSUME NEW i \in DOMAIN r, OnRing(r[i]), NoRing(r, i + 1, Len(r))
      PROVE  RingEnd(r[i]) = b
  <2>1. NoRing(q, i + 1 + 1, Len(q))
    BY <1>4, <1>6, <1>8, <1>9
  <2> QED  BY <2>1, <1>4, <1>9 DEF Contiguous
<1>10. Contiguous(r, b)
  BY <1>7, <1>9 DEF Contiguous
<1>11. ASSUME NEW o \in Nat, NEW m \in Nat, Slack(q, b, o, m)
       PROVE  Slack(r, b, o - a, m)
  <2>1. ASSUME NEW i \in DOMAIN r, OnRing(r[i]), NoRing(r, 1, i - 1)
        PROVE  o - a - (b - r[i].pos) <= m
    <3>1. i - 1 \in Nat /\ i - 1 + 1 = i + 1 - 1
      BY <1>4
    <3>2. NoRing(q, 2, i + 1 - 1)
      BY <2>1, <3>1, <1>6
    <3>3. r[i].pos \in Nat /\ q[1].pos \in Nat /\ q[1].size \in Nat
      BY <1>2, <1>4, EntryFields
    <3>4. CASE OnRing(q[1])
      <4>1. NoRing(q, 1, 1 - 1)
        BY <1>1 DEF NoRing
      <4>2. o - (b - q[1].pos) <= m
        BY <3>4, <4>1, <1>4, <1>11 DEF Slack
      <4>3. RingEnd(q[1]) = q[i + 1].pos
        <5>1. 1 < i + 1 /\ 1 + 1 = 2
          BY <1>4
        <5> QED  BY <3>2, <3>4, <5>1, <1>4, <2>1 DEF Contiguous
      <4>4. r[i].pos = q[1].pos + a
        BY <3>4, <4>3, <1>3, <1>4 DEF RingEnd
      <4>5. a \in Nat
        BY <3>3, <3>4, <1>3
      <4> QED  BY <4>2, <4>4, <4>5, <3>3, <1>11
    <3>5. CASE ~OnRing(q[1])
      <4>1. NoRing(q, 1, i + 1 - 1)
        BY <3>2, <3>5, <1>1 DEF NoRing
      <4>2. o - (b - q[i + 1].pos) <= m
        BY <4>1, <1>4, <1>11, <2>1 DEF Slack
      <4> QED  BY <3>3, <3>5, <4>2, <1>3, <1>4
    <3> QED  BY <3>4, <3>5
  <2>2. ASSUME NoRing(r, 1, Len(r))
        PROVE  o - a <= m
    <3>1. NoRing(q, 2, Len(q))
      BY <2>2, <1>6, <1>8
    <3>2. q[1].pos \in Nat /\ q[1].size \in Nat
      BY <1>2, <1>4, EntryFields
    <3>3. CASE OnRing(q[1])
      <4>1. NoRing(q, 1, 1 - 1)
        BY <1>1 DEF NoRing
      <4>2. o - (b - q[1].pos) <= m
        BY <3>3, <4>1, <1>4, <1>11 DEF Slack
      <4>3. RingEnd(q[1]) = b
        <5>1. 1 + 1 = 2
          OBVIOUS
        <5> QED  BY <3>1, <3>3, <5>1, <1>4 DEF Contiguous
      <4>4. b = q[1].pos + q[1].size /\ a = q[1].size
        BY <3>3, <4>3, <1>3 DEF RingEnd
      <4> QED  BY <4>2, <4>4, <3>2
    <3>4. CASE ~OnRing(q[1])
      <4>1. NoRing(q, 1, Len(q))
        BY <3>1, <3>4, <1>1 DEF NoRing
      <4> QED  BY <3>4, <4>1, <1>3, <1>11 DEF Slack
    <3> QED  BY <3>3, <3>4
  <2> QED  BY <2>1, <2>2 DEF Slack
<1> QED  BY <1>1, <1>10, <1>11 DEF r, a

LEMMA DriftFront ==
    ASSUME NEW q \in Seq(Entry), q # <<>>, NEW b \in Nat, Contiguous(q, b)
    PROVE  /\ Contiguous(Front(q), b - Accounted(Last(q)))
           /\ \A o, m \in Nat :
                Slack(q, b, o, m)
                   => Slack(Front(q), b - Accounted(Last(q)), o - Accounted(Last(q)), m)
<1> DEFINE r == Front(q)
           n == Len(q)
           a == Accounted(q[n])
<1>1. /\ DOMAIN r = 1 .. n - 1 /\ DOMAIN q = 1 .. n /\ n \in Nat /\ n >= 1 /\ Len(r) = n - 1
      /\ \A i \in 1 .. n - 1 : r[i] = q[i]
      /\ Last(q) = q[n]
  BY FrontProperties, LenProperties
<1>2. \A i \in DOMAIN q : q[i] \in Entry
  BY <1>1, ElementOfSeq
<1>3. n = Len(q) /\ a = IF OnRing(q[n]) THEN q[n].size ELSE 0
  BY DEF Accounted
<1> HIDE DEF r, n, a
<1>4. n \in DOMAIN q /\ \A i \in DOMAIN r : i \in Nat /\ i >= 1 /\ i < n /\ i \in DOMAIN q /\ r[i] = q[i]
  BY <1>1
<1>5. \A i \in Nat, j \in Int : j < n /\ NoRing(r, i, j) => NoRing(q, i, j)
  BY <1>1 DEF NoRing
<1>6. ASSUME NEW i \in DOMAIN r, NEW j \in DOMAIN r, OnRing(r[i]), OnRing(r[j]), i < j,
             NoRing(r, i + 1, j - 1)
      PROVE  RingEnd(r[i]) = r[j].pos
  <2>1. i + 1 \in Nat /\ j - 1 \in Int /\ j - 1 < n
    BY <1>1, <1>4
  <2>2. NoRing(q, i + 1, j - 1)
    BY <2>1, <1>5, <1>6
  <2> QED  BY <2>2, <1>4, <1>6 DEF Contiguous
<1>7. ASSUME NEW i \in DOMAIN r, OnRing(r[i]), NoRing(r, i + 1, Len(r))
      PROVE  RingEnd(r[i]) = b - a
  <2>1. i + 1 \in Nat /\ n - 1 \in Int /\ n - 1 < n
    BY <1>1, <1>4
  <2>2. NoRing(q, i + 1, n - 1)
    BY <2>1, <1>1, <1>5, <1>7
  <2>3. q[n].pos \in Nat /\ q[n].size \in Nat
    BY <1>2, <1>4, EntryFields
  <2>4. CASE OnRing(q[n])
    <3>1. RingEnd(q[i]) = q[n].pos
      BY <2>2, <2>4, <1>4, <1>7 DEF Contiguous
    <3>2. NoRing(q, n + 1, n)
      BY <1>1 DEF NoRing
    <3>3. RingEnd(q[n]) = b
      BY <2>4, <3>2, <1>3, <1>4 DEF Contiguous
    <3>4. b = q[n].pos + a
      BY <2>4, <3>3, <1>3 DEF RingEnd
    <3>5. a \in Nat
      BY <2>3, <2>4, <1>3
    <3> QED  BY <2>3, <3>1, <3>4, <3>5, <1>4
  <2>5. CASE ~OnRing(q[n])
    <3>1. NoRing(q, i + 1, n)
      BY <2>2, <2>5, <1>1 DEF NoRing
    <3>2. RingEnd(q[i]) = b
      BY <3>1, <1>3, <1>4, <1>7 DEF Contiguous
    <3> QED  BY <2>5, <3>2, <1>3, <1>4
  <2> QED  BY <2>4, <2>5
<1>8. Contiguous(r, b - a)
  BY <1>6, <1>7 DEF Contiguous
<1>9. ASSUME NEW o \in Nat, NEW m \in Nat, Slack(q, b, o, m)
      PROVE  Slack(r, b - a, o - a, m)
  <2>1. q[n].pos \in Nat /\ q[n].size \in Nat /\ a \in Nat
    BY <1>2, <1>3, <1>4, EntryFields
  <2>2. ASSUME NEW i \in DOMAIN r, OnRing(r[i]), NoRing(r, 1, i - 1)
        PROVE  o - a - (b - a - r[i].pos) <= m
    <3>1. i - 1 \in Int /\ i - 1 < n
      BY <1>1, <1>4
    <3>2. NoRing(q, 1, i - 1)
      BY <2>2, <3>1, <1>5
    <3>3. o - (b - q[i].pos) <= m
      BY <2>2, <3>2, <1>4, <1>9 DEF Slack
    <3>4. q[i].pos \in Nat
      BY <1>2, <1>4, EntryFields
    <3>5. o - a - (b - a - q[i].pos) = o - (b - q[i].pos)
      BY <2>1, <3>4
    <3> QED  BY <3>3, <3>5, <1>4
  <2>3. ASSUME NoRing(r, 1, Len(r))
        PROVE  o - a <= m
    <3>1. n - 1 \in Int /\ n - 1 < n
      BY <1>1
    <3>2. NoRing(q, 1, n - 1)
      BY <2>3, <3>1, <1>1, <1>5
    <3>3. CASE OnRing(q[n])
      <4>1. NoRing(q, n + 1, n)
        BY <1>1 DEF NoRing
      <4>2. RingEnd(q[n]) = b
        BY <3>3, <4>1, <1>3, <1>4 DEF Contiguous
      <4>3. o - (b - q[n].pos) <= m
        BY <3>2, <3>3, <1>4, <1>9 DEF Slack
      <4>4. b = q[n].pos + a
        BY <3>3, <4>2, <1>3 DEF RingEnd
      <4> QED  BY SMTT(20), <2>1, <4>3, <4>4
    <3>4. CASE ~OnRing(q[n])
      <4>1. NoRing(q, 1, Len(q))
        BY <3>2, <3>4, <1>1, <1>3 DEF NoRing
      <4> QED  BY <3>4, <4>1, <1>3, <1>9 DEF Slack
    <3> QED  BY <3>3, <3>4
  <2> QED  BY <2>2, <2>3 DEF Slack
<1> QED  BY <1>1, <1>8, <1>9 DEF r, a

LEMMA DriftAppend ==
    ASSUME NEW q \in Seq(Entry), NEW b \in Nat, NEW e \in Entry, Contiguous(q, b),
           OnRing(e) => e.pos = b
    PROVE  /\ Contiguous(Append(q, e), b + Accounted(e))
           /\ \A o, m \in Nat :
                Slack(q, b, o, m) => Slack(Append(q, e), b + Accounted(e), o + Accounted(e), m)
<1> DEFINE r == Append(q, e)
           n == Len(q)
           a == Accounted(e)
<1>1. /\ DOMAIN r = 1 .. n + 1 /\ DOMAIN q = 1 .. n /\ n \in Nat /\ Len(r) = n + 1
      /\ \A i \in 1 .. n : r[i] = q[i]
      /\ r[n + 1] = e
  BY AppendFacts, LenProperties
<1>2. \A i \in DOMAIN q : q[i] \in Entry
  BY <1>1, ElementOfSeq
<1>3. n = Len(q) /\ a = (IF OnRing(e) THEN e.size ELSE 0) /\ a \in Nat /\ e.pos \in Nat
  BY EntryFields DEF Accounted
<1> HIDE DEF r, n, a
<1>4. \A i \in DOMAIN r : \/ i \in DOMAIN q /\ i <= n /\ r[i] = q[i]
                          \/ i = n + 1 /\ r[i] = e
  BY <1>1
<1>5. \A i \in Nat, j \in Nat : NoRing(r, i, j) => NoRing(q, i, j)
  BY <1>1 DEF NoRing
<1>6. ASSUME NEW i \in DOMAIN r, NEW j \in DOMAIN r, OnRing(r[i]), OnRing(r[j]), i < j,
             NoRing(r, i + 1, j - 1)
      PROVE  RingEnd(r[i]) = r[j].pos
  <2>1. i \in DOMAIN q /\ r[i] = q[i] /\ i \in Nat /\ j - 1 \in Nat
    BY <1>1, <1>6
  <2>2. NoRing(q, i + 1, j - 1)
    BY <2>1, <1>5, <1>6
  <2>3. CASE j \in DOMAIN q /\ r[j] = q[j]
    BY <2>1, <2>2, <2>3, <1>6 DEF Contiguous
  <2>4. CASE j = n + 1 /\ r[j] = e
    <3>1. j - 1 = n
      BY <2>4, <1>1
    <3>2. RingEnd(q[i]) = b
      BY <2>1, <2>2, <3>1, <1>3, <1>6 DEF Contiguous
    <3> QED  BY <2>1, <2>4, <3>2, <1>6
  <2> QED  BY <2>3, <2>4, <1>4
<1>7. ASSUME NEW i \in DOMAIN r, OnRing(r[i]), NoRing(r, i + 1, Len(r))
      PROVE  RingEnd(r[i]) = b + a
  <2>1. CASE i \in DOMAIN q /\ i <= n /\ r[i] = q[i]
    <3>1. n + 1 \in DOMAIN r /\ i + 1 <= n + 1 /\ n + 1 <= Len(r) /\ i \in Nat
      BY <2>1, <1>1
    <3>2. ~OnRing(e)
      BY <3>1, <1>1, <1>7 DEF NoRing
    <3>3. NoRing(q, i + 1, n)
      BY <1>1, <1>7 DEF NoRing
    <3>4. RingEnd(q[i]) = b
      BY <2>1, <3>3, <1>3, <1>7 DEF Contiguous
    <3> QED  BY <2>1, <3>2, <3>4, <1>3
  <2>2. CASE r[i] = e
    BY <2>2, <1>3, <1>7 DEF RingEnd
  <2> QED  BY <2>1, <2>2, <1>4
<1>8. Contiguous(r, b + a)
  BY <1>6, <1>7 DEF Contiguous
<1>9. ASSUME NEW o \in Nat, NEW m \in Nat, Slack(q, b, o, m)
      PROVE  Slack(r, b + a, o + a, m)
  <2>1. ASSUME NEW i \in DOMAIN r, OnRing(r[i]), NoRing(r, 1, i - 1)
        PROVE  (o + a) - ((b + a) - r[i].pos) <= m
    <3>1. i - 1 \in Nat
      BY <1>1
    <3>2. NoRing(q, 1, i - 1)
      BY <2>1, <3>1, <1>5
    <3>3. CASE i \in DOMAIN q /\ r[i] = q[i]
      <4>1. o - (b - q[i].pos) <= m
        BY <2>1, <3>2, <3>3, <1>9 DEF Slack
      <4>2. q[i].pos \in Nat
        BY <3>3, <1>2, EntryFields
      <4> QED  BY <3>3, <4>1, <4>2, <1>3
    <3>4. CASE i = n + 1 /\ r[i] = e
      <4>1. i - 1 = n
        BY <3>4, <1>1
      <4>2. o <= m
        BY <3>2, <4>1, <1>3, <1>9 DEF Slack
      <4> QED  BY <2>1, <3>4, <4>2, <1>3
    <3> QED  BY <3>3, <3>4, <1>4
  <2>2. ASSUME NoRing(r, 1, Len(r))
        PROVE  o + a <= m
    <3>1. n + 1 \in DOMAIN r /\ 1 <= n + 1 /\ n + 1 <= Len(r)
      BY <1>1
    <3>2. ~OnRing(e)
      BY <2>2, <3>1, <1>1 DEF NoRing
    <3>3. NoRing(q, 1, n)
      BY <2>2, <1>1 DEF NoRing
    <3> QED  BY <3>2, <3>3, <1>3, <1>9 DEF Slack
  <2> QED  BY <2>1, <2>2 DEF Slack
<1> QED  BY <1>8, <1>9 DEF r, a

-----------------------------------------------------------------------------
(* A shared-memory topic that only its server puts to: the message being   *)
(* put is the newest entry until the put returns.                          *)
Own == IsShm /\ ServersOwn
KeptInv == pc \in {"evict", "prune"} => data # <<>> /\ Last(data) = cur

RingOnly == \A i \in DOMAIN data : OnRing(data[i])

DInv ==
    /\ RInv
    /\ Contiguous(data, pushed)
    /\ Clean => Slack(data, pushed, occupied, ShmSize)
    /\ Own => Slack(data, pushed, occupied, 0) /\ KeptInv /\ RingOnly

LEMMA DTypes ==
    ASSUME DInv
    PROVE  /\ TypeOK /\ CountInv /\ data \in Seq(Entry) /\ Len(data) \in Nat
           /\ pushed \in Nat /\ occupied \in Nat
           /\ RingOrder(data, pushed, occupied) /\ ShmSize \in Nat
           /\ Own => Clean
           /\ Clean => RingInv
<1>1. TypeOK /\ CountInv
  BY DEF DInv, RInv, TInv
<1>2. Own => Clean
  BY DEF Own, ServersOwn, Clean
<1> QED  BY <1>1, <1>2, HeldEntries, ConstantTypes DEF TypeOK, CountInv, DInv, RInv

(* Entries leave from the front, and their bytes are given back. *)
LEMMA DRemoveFront ==
    ASSUME DInv, data # <<>>, RemoveFront, UNCHANGED <<kind, pushed>>
    PROVE  /\ Contiguous(data, pushed)'
           /\ Clean' => Slack(data, pushed, occupied, ShmSize)'
           /\ Own' => Slack(data, pushed, occupied, 0)'
<1>1. data' = Tail(data) /\ occupied' = occupied - Accounted(Head(data)) /\ pushed' = pushed
  BY DEF RemoveFront
<1>2. (Clean' <=> Clean) /\ (Own' <=> Own)
  BY DEF Clean, Own, IsShm, ServersOwn
<1>3. /\ Contiguous(Tail(data), pushed)
      /\ \A o, m \in Nat : Slack(data, pushed, o, m)
            => Slack(Tail(data), pushed, o - Accounted(Head(data)), m)
  BY DTypes, DriftTail DEF DInv
<1>4. 0 \in Nat /\ ShmSize \in Nat /\ occupied \in Nat
  BY DTypes
<1> QED  BY <1>1, <1>2, <1>3, <1>4 DEF DInv

LEMMA LastOfTail ==
    ASSUME NEW q \in Seq(Entry), Len(q) >= 2
    PROVE  Tail(q) # <<>> /\ Last(Tail(q)) = Last(q)
<1>1. q # <<>> /\ Len(q) \in Nat
  BY LenProperties, EmptySeq
<1>2. /\ Tail(q) \in Seq(Entry) /\ Len(Tail(q)) = Len(q) - 1
      /\ \A i \in 1 .. Len(q) - 1 : Tail(q)[i] = q[i + 1]
  BY <1>1, TailProperties
<1>3. Len(q) - 1 \in 1 .. Len(q) - 1 /\ Len(q) - 1 + 1 = Len(q)
  BY <1>1
<1>4. Tail(q)[Len(q) - 1] = q[Len(q)]
  BY <1>2, <1>3
<1>5. Tail(q) # <<>>
  <2>1. Len(Tail(q)) # 0
    BY <1>1, <1>2
  <2> QED  BY <2>1, EmptySeq
<1> QED  BY <1>2, <1>4, <1>5 DEF Last

(* The message being put is never the one that makes room. *)
LEMMA KeptEvict ==
    ASSUME DInv, Own, EvictFront
    PROVE  KeptInv'
<1>1. /\ pc = "evict" /\ Overfull /\ data # <<>> /\ Last(data) = cur /\ Clean
      /\ data' = Tail(data) /\ cur' = cur
  BY DTypes DEF DInv, KeptInv, EvictFront, RemoveFront
<1>2. /\ data \in Seq(Entry) /\ Len(data) \in Nat /\ Len(data) >= 1
      /\ DOMAIN data = 1 .. Len(data)
      /\ pushed \in Nat /\ occupied \in Nat /\ ShmSize \in Nat
  BY <1>1, DTypes, HeldEntries
<1>3. OnRing(cur) /\ cur.size \in 1 .. ShmSize /\ cur.pos = pushed - cur.size
  BY <1>1, DTypes DEF CountInv, RingInv, CopiedBytes
<1>4. ASSUME Len(data) = 1
      PROVE  FALSE
  <2>1. data[1] = cur /\ 1 \in DOMAIN data
    BY <1>1, <1>2, <1>4 DEF Last
  <2>2. NoRing(data, 1, 1 - 1)
    BY <1>2 DEF NoRing
  <2>3. occupied - (pushed - cur.pos) <= 0
    BY <2>1, <2>2, <1>3 DEF DInv, Slack
  <2>4. occupied <= ShmSize
    BY <2>3, <1>2, <1>3
  <2> QED  BY <2>4, <1>1, <1>2 DEF Overfull
<1>5. Len(data) >= 2
  BY <1>2, <1>4
<1> QED  BY <1>1, <1>2, <1>5, LastOfTail DEF KeptInv

(* ... nor expired when it is put. *)
LEMMA KeptPrune ==
    ASSUME DInv, Own, PruneFront
    PROVE  KeptInv'
<1>1. /\ pc = "prune" /\ HeadExpired /\ data # <<>> /\ Last(data) = cur
      /\ data' = Tail(data) /\ cur' = cur
  BY DEF DInv, KeptInv, PruneFront, RemoveFront
<1>2. data \in Seq(Entry) /\ Len(data) \in Nat /\ Len(data) >= 1 /\ cur.ts \in Int
  BY <1>1, DTypes, HeldEntries, EntryFields DEF TypeOK
<1>3. ASSUME Len(data) = 1
      PROVE  FALSE
  <2>1. Head(data) = cur
    BY <1>1, <1>2, <1>3, TailProperties DEF Last
  <2>2. cur.ts - cur.ts > Retention
    BY <2>1, <1>1 DEF HeadExpired, Expired
  <2> QED  BY <2>2, <1>2, ConstantTypes
<1>4. Len(data) # 1
  BY <1>3
<1>5. \A m \in Nat : m >= 1 /\ m # 1 => m >= 2
  OBVIOUS
<1>6. Len(data) >= 2
  BY <1>2, <1>4, <1>5
<1> QED  BY <1>1, <1>2, <1>6, LastOfTail DEF KeptInv

(* ... and every entry is one of the server's. *)
LEMMA RingOnlyNext ==
    ASSUME DInv, Own, [Next]_vars
    PROVE  RingOnly'
<1>1. data \in Seq(Entry) /\ kind.locs = {} /\ IsShm /\ RingOnly
  BY DTypes DEF DInv, Own, ServersOwn
<1>2. CASE \A i \in DOMAIN data' : \E j \in DOMAIN data : data'[i] = data[j]
  BY <1>1, <1>2 DEF RingOnly
<1>3. CASE Tick \/ UNCHANGED vars
  BY <1>1, <1>3, <1>2 DEF Tick, vars
<1>4. CASE PutHeap \/ ClientAdd
  BY <1>1, <1>4 DEF PutHeap, ClientAdd
<1>5. ASSUME NEW size \in Sizes, PutShm(size) PROVE RingOnly'
  <2>1. data' = Append(data, RingEntry(size)) /\ OnRing(RingEntry(size))
    BY <1>5 DEF PutShm, RingEntry, OnRing
  <2>2. RingEntry(size) \in Entry
    BY SMTT(20), <1>5, <1>1, DTypes, ConstantTypes DEF TypeOK, RingEntry, Entry
  <2>3. /\ DOMAIN data' = 1 .. Len(data) + 1 /\ DOMAIN data = 1 .. Len(data) /\ Len(data) \in Nat
        /\ \A i \in 1 .. Len(data) : data'[i] = data[i]
        /\ data'[Len(data) + 1] = RingEntry(size)
    BY <1>1, <2>1, <2>2, AppendFacts, LenProperties
  <2>4. \A i \in DOMAIN data' : i \in DOMAIN data \/ i = Len(data) + 1
    BY <2>3
  <2> QED  BY <1>1, <2>1, <2>3, <2>4 DEF RingOnly
<1>6. ASSUME NEW size \in Sizes, PutTooLarge(size) PROVE RingOnly'
  BY <1>1, <1>2, <1>6 DEF PutTooLarge
<1>7. ASSUME NEW n \in PopArgs, PopBegin(n) PROVE RingOnly'
  BY <1>1, <1>2, <1>7 DEF PopBegin
<1>8. CASE EvictFront \/ PruneFront
  <2>1. data # <<>> /\ data' = Tail(data)
    BY <1>8 DEF EvictFront, PruneFront, HeadExpired, RemoveFront
  <2> QED  BY <1>1, <1>2, <2>1, TailComesFrom
<1>9. CASE CopyToRing \/ PutDone \/ PopDone \/ ParseThrows
  BY <1>1, <1>2, <1>9 DEF CopyToRing, PutDone, PopDone, ParseThrows
<1>10. CASE PopStep
  <2>1. data # <<>>
    BY <1>10, DTypes, EmptySeq DEF PopStep, CountInv
  <2>2. data' = Front(data) \/ data' = Tail(data)
    BY <1>10 DEF PopStep
  <2>3. /\ \A i \in DOMAIN Front(data) : Front(data)[i] = data[i]
        /\ DOMAIN Front(data) = 1 .. Len(data) - 1
        /\ DOMAIN data = 1 .. Len(data) /\ Len(data) \in Nat
    BY <1>1, <2>1, FrontProperties, LenProperties
  <2>4. \A i \in DOMAIN Front(data) : i \in DOMAIN data
    BY <2>3
  <2>5. CASE data' = Front(data)
    BY <1>2, <2>3, <2>4, <2>5
  <2>6. CASE data' = Tail(data)
    BY <1>1, <1>2, <2>1, <2>6, TailComesFrom
  <2> QED  BY <2>2, <2>5, <2>6
<1>11. ASSUME NEW t \in 0 .. MaxTime, ResetStartTime(t) PROVE RingOnly'
  <2>1. data' = <<>> /\ DOMAIN <<>> = {}
    BY <1>11, EmptySeq DEF ResetStartTime
  <2> QED  BY <2>1 DEF RingOnly
<1> QED
  BY <1>3, <1>4, <1>5, <1>6, <1>7, <1>8, <1>9, <1>10, <1>11 DEF Next, LoopStep

LEMMA DInvInit == Init => DInv
<1> SUFFICES ASSUME Init PROVE DInv
  OBVIOUS
<1>1. DOMAIN <<>> = {}
  BY EmptySeq
<1>2. Contiguous(<<>>, 0)
  BY <1>1 DEF Contiguous
<1>3. Slack(<<>>, 0, 0, 0) /\ Slack(<<>>, 0, 0, ShmSize)
  BY <1>1, ConstantTypes DEF Slack
<1>4. KeptInv
  BY DEF Init, KeptInv
<1>5. Init => RingOnly
  BY <1>1 DEF Init, RingOnly
<1> QED  BY <1>2, <1>3, <1>4, <1>5, RInvInit DEF Init, DInv

LEMMA DInvNext == DInv /\ [Next]_vars => DInv'
<1> SUFFICES ASSUME DInv, [Next]_vars PROVE DInv'
  OBVIOUS
<1> DEFINE Drift ==
             /\ Contiguous(data, pushed)
             /\ Clean => Slack(data, pushed, occupied, ShmSize)
             /\ Own => Slack(data, pushed, occupied, 0)
           Kept == Own => KeptInv
<1>r. RInv' /\ (Own => RingOnly')
  BY RInvNext, RingOnlyNext DEF DInv
<1>k. kind' = kind /\ (Clean' <=> Clean) /\ (Own' <=> Own)
  BY KindKept DEF Clean, Own, IsShm, ServersOwn
<1>t. /\ data \in Seq(Entry) /\ Len(data) \in Nat /\ pushed \in Nat /\ occupied \in Nat
      /\ RingOrder(data, pushed, occupied) /\ ShmSize \in Nat /\ 0 \in Nat
  BY DTypes
<1>d. /\ Contiguous(data, pushed)
      /\ Clean => Slack(data, pushed, occupied, ShmSize)
      /\ Own => Slack(data, pushed, occupied, 0)
  BY DEF DInv
<1>s. ASSUME UNCHANGED <<data, occupied, pushed>> PROVE Drift'
  BY <1>k, <1>s, <1>d
<1>m. ASSUME NEW r, NEW b \in Nat, NEW o \in Nat, Contiguous(r, b),
             \A m \in Nat : Slack(data, pushed, occupied, m) => Slack(r, b, o, m),
             data' = r, pushed' = b, occupied' = o
      PROVE  Drift'
  <2>1. Clean => Slack(r, b, o, ShmSize)
    BY <1>m, <1>d, <1>t
  <2>2. Own => Slack(r, b, o, 0)
    BY <1>m, <1>d, <1>t
  <2> QED  BY <2>1, <2>2, <1>m, <1>k
<1>i. ASSUME pc' \notin {"evict", "prune"} PROVE Kept'
  BY <1>i DEF KeptInv
<1>j. ASSUME UNCHANGED <<data, cur, pc>> PROVE Kept'
  BY <1>j, <1>k DEF DInv, KeptInv
<1>q. ASSUME Drift', Kept' PROVE DInv'
  BY <1>q, <1>r, <1>k DEF DInv
<1>1. CASE Tick
  <2>1. UNCHANGED <<data, occupied, pushed, cur, pc>>
    BY <1>1 DEF Tick
  <2> QED  BY <2>1, <1>s, <1>j, <1>q
<1>2. ASSUME NEW e \in Entry, ~OnRing(e), AddDataPtr(e), ~Own
      PROVE  DInv'
  <2> DEFINE q == Append(data, e)
  <2>1. q \in Seq(Entry) /\ Len(q) = Len(data) + 1 /\ Accounted(e) = 0
    BY <1>2, <1>t, AppendFacts DEF Accounted
  <2>2. RingOrder(q, pushed + Accounted(e), occupied + Accounted(e))
    <3>1. OnRing(e) => e.pos = pushed /\ e.size > 0
      BY <1>2
    <3> QED  BY <3>1, <1>2, <1>t, OrderAppend
  <2>3. Contiguous(q, pushed + Accounted(e))
    BY <1>2, <1>t, <1>d, DriftAppend
  <2>4. PICK k \in 0 .. Len(q) : data' = SubSeq(q, k + 1, Len(q))
    <3>1. PICK k \in PrunedCount(q, e.ts) : data' = SubSeq(q, k + 1, Len(data) + 1)
      BY <1>2 DEF AddDataPtr
    <3> QED  BY <3>1, <2>1 DEF PrunedCount
  <2>5. pc = "idle" /\ UNCHANGED <<pushed, occupied, pc>>
    BY <1>2 DEF AddDataPtr
  <2> HIDE DEF q
  <2>6. RingOrder(q, pushed, occupied) /\ Contiguous(q, pushed)
    <3>1. pushed + 0 = pushed /\ occupied + 0 = occupied
      BY <1>t
    <3> QED  BY <2>1, <2>2, <2>3, <3>1
  <2>7. ASSUME NEW m \in Nat, occupied <= m
        PROVE  Contiguous(data', pushed) /\ Slack(data', pushed, occupied, m)
    <3> DEFINE r == SubSeq(q, k + 1, Len(q))
    <3>1. Contiguous(r, pushed) /\ Slack(r, pushed, occupied, m)
      BY <2>1, <2>6, <2>7, <1>t, DriftSuffix
    <3> QED  BY <3>1, <2>4
  <2>8. Contiguous(data', pushed)
    <3>1. occupied <= occupied
      BY <1>t
    <3> QED  BY <3>1, <2>7, <1>t
  <2>9. Clean => Slack(data', pushed, occupied, ShmSize)
    <3>1. Clean => occupied <= ShmSize
      BY <2>5, DTypes DEF RingInv
    <3> QED  BY <3>1, <2>7, <1>t
  <2>10. Drift'
    BY <2>5, <2>8, <2>9, <1>2, <1>k
  <2>11. Kept'
    BY <2>5, <1>i
  <2> QED  BY <2>10, <2>11, <1>q
<1>3. CASE PutHeap
  <2>1. ~Own /\ ClientEntry("heap", now) \in Entry /\ ~OnRing(ClientEntry("heap", now))
    BY SMTT(20), <1>3, DTypes DEF PutHeap, Own, ClientEntry, Entry, OnRing, TypeOK
  <2> QED  BY <2>1, <1>2, <1>3 DEF PutHeap
<1>4. CASE ClientAdd
  <2>1. PICK loc \in kind.locs, skew \in kind.skews : AddDataPtr(ClientEntry(loc, now + skew))
    BY <1>4 DEF ClientAdd
  <2>2. now + skew \in Int /\ loc \in {"heap", "request"} /\ nextId \in Nat /\ ~Own
    BY SMTT(20), <2>1, DTypes, ConstantTypes DEF TypeOK, Own, ServersOwn
  <2>3. ClientEntry(loc, now + skew) \in Entry /\ ~OnRing(ClientEntry(loc, now + skew))
    BY <2>2 DEF ClientEntry, Entry, OnRing
  <2> QED  BY <2>1, <2>2, <2>3, <1>2
<1>5. ASSUME NEW size \in Sizes, PutShm(size) PROVE DInv'
  <2> DEFINE e == RingEntry(size)
  <2>1. /\ e \in Entry /\ OnRing(e) /\ e.pos = pushed /\ e.size = size /\ Accounted(e) = size
        /\ size \in Nat
    BY SMTT(20), <1>5, DTypes, ConstantTypes DEF TypeOK, RingEntry, Entry, OnRing, Accounted
  <2>2. /\ cur' = e /\ data' = Append(data, e) /\ pushed' = pushed + size
        /\ occupied' = occupied + size
    BY <1>5 DEF PutShm
  <2> HIDE DEF e
  <2>3. /\ Contiguous(Append(data, e), pushed + size)
        /\ \A m \in Nat : Slack(data, pushed, occupied, m)
              => Slack(Append(data, e), pushed + size, occupied + size, m)
    BY <2>1, <1>t, <1>d, DriftAppend
  <2>4. pushed + size \in Nat /\ occupied + size \in Nat
    BY <2>1, <1>t
  <2>5. Drift'
    BY <2>2, <2>3, <2>4, <1>m
  <2>6. Kept'
    <3>1. /\ Append(data, e) \in Seq(Entry) /\ Len(Append(data, e)) = Len(data) + 1
          /\ Append(data, e)[Len(data) + 1] = e
      BY <2>1, <1>t, AppendFacts
    <3>2. Append(data, e) # <<>> /\ Last(Append(data, e)) = e
      BY <3>1, <1>t, EmptySeq DEF Last
    <3> QED  BY <2>2, <3>2 DEF KeptInv
  <2> QED  BY <2>5, <2>6, <1>q
<1>6. ASSUME NEW size \in Sizes, PutTooLarge(size) PROVE DInv'
  <2>1. UNCHANGED <<data, occupied, pushed, cur, pc>>
    BY <1>6 DEF PutTooLarge
  <2> QED  BY <2>1, <1>s, <1>j, <1>q
<1>7. ASSUME NEW n \in PopArgs, PopBegin(n) PROVE DInv'
  <2>1. UNCHANGED <<data, occupied, pushed>> /\ pc' = "pop"
    BY <1>7 DEF PopBegin
  <2> QED  BY <2>1, <1>s, <1>i, <1>q
<1>8. CASE EvictFront
  <2>1. Drift'
    BY <1>8, DRemoveFront DEF EvictFront
  <2>2. Kept'
    BY <1>8, <1>k, KeptEvict
  <2> QED  BY <2>1, <2>2, <1>q
<1>9. CASE CopyToRing
  <2>1. UNCHANGED <<data, occupied, pushed, cur>> /\ pc = "evict"
    BY <1>9 DEF CopyToRing
  <2>2. Kept'
    BY <2>1, <1>k DEF DInv, KeptInv
  <2> QED  BY <2>1, <2>2, <1>s, <1>q
<1>10. CASE PruneFront
  <2>1. Drift'
    BY <1>10, DRemoveFront DEF PruneFront, HeadExpired
  <2>2. Kept'
    BY <1>10, <1>k, KeptPrune
  <2> QED  BY <2>1, <2>2, <1>q
<1>11. ASSUME PutDone \/ PopDone \/ ParseThrows PROVE DInv'
  <2>1. UNCHANGED <<data, occupied, pushed>> /\ pc' = "idle"
    BY <1>11 DEF PutDone, PopDone, ParseThrows
  <2> QED  BY <2>1, <1>s, <1>i, <1>q
<1>12. CASE PopStep
  <2>1. pc' = "pop" /\ data # <<>>
    BY <1>12, DTypes, EmptySeq DEF PopStep, CountInv, TypeOK
  <2>2. CASE left < 0
    <3> DEFINE a == Accounted(Last(data))
    <3>1. /\ data' = Front(data) /\ occupied' = occupied - a /\ pushed' = pushed - a
      BY <2>2, <1>12 DEF PopStep, PopVictim
    <3>2. /\ Contiguous(Front(data), pushed - a)
          /\ \A m \in Nat : Slack(data, pushed, occupied, m)
                => Slack(Front(data), pushed - a, occupied - a, m)
      BY <2>1, <1>t, <1>d, DriftFront
    <3>3. pushed - a \in Nat /\ occupied - a \in Nat
      BY <2>1, <1>t, OrderFront
    <3> HIDE DEF a
    <3>4. Drift'
      BY <3>1, <3>2, <3>3, <1>m
    <3> QED  BY <2>1, <3>4, <1>i, <1>q
  <2>3. CASE ~(left < 0)
    <3>1. RemoveFront /\ UNCHANGED <<kind, pushed>>
      BY <2>3, <1>12 DEF PopStep, PopVictim, RemoveFront
    <3>2. Drift'
      BY <2>1, <3>1, DRemoveFront
    <3> QED  BY <2>1, <3>2, <1>i, <1>q
  <2> QED  BY <2>2, <2>3
<1>13. ASSUME NEW t \in 0 .. MaxTime, ResetStartTime(t) PROVE DInv'
  <2>1. DOMAIN <<>> = {} /\ data' = <<>> /\ pushed' = 0 /\ pc' = "idle"
    BY <1>13, EmptySeq DEF ResetStartTime
  <2>2. Clean \/ Own => occupied' = 0
    BY <1>13 DEF ResetStartTime, Clean, Own
  <2>3. Contiguous(<<>>, 0)
    BY <2>1 DEF Contiguous
  <2>4. Slack(<<>>, 0, 0, 0) /\ Slack(<<>>, 0, 0, ShmSize)
    BY <2>1, ConstantTypes DEF Slack
  <2>5. Drift'
    BY <2>1, <2>2, <2>3, <2>4, <1>k
  <2> QED  BY <2>1, <2>5, <1>i, <1>q
<1>14. CASE UNCHANGED vars
  <2>1. UNCHANGED <<data, occupied, pushed, cur, pc>>
    BY <1>14 DEF vars
  <2> QED  BY <2>1, <1>s, <1>j, <1>q
<1> QED
  BY <1>1, <1>3, <1>4, <1>5, <1>6, <1>7, <1>8, <1>9, <1>10, <1>11, <1>12, <1>13, <1>14
     DEF Next, LoopStep

LEMMA DInvHolds == Spec => []DInv
  BY DInvInit, DInvNext, PTL DEF Spec

-----------------------------------------------------------------------------
(* The inductive invariant that topic_shm_requests checks, for every       *)
(* shared-memory topic without raw client payloads: pruning forgets bytes, *)
(* but never more of them than the ring has (data_topic.cpp:88-132).       *)
THEOREM DriftBounded ==
    ASSUME \A k \in Kinds : k.shm /\ "heap" \notin k.locs
    PROVE  Spec => []IInv
<1>1. DInv => IInv
  BY DEF DInv, RInv, TInv, TypeOK, Clean, IsShm, IInv, DriftInv
<1> QED  BY <1>1, DInvHolds, PTL

(* The loop that makes room for a message never calls front() on an empty  *)
(* deque, on every topic clients put no raw payloads to, whatever was      *)
(* pruned without giving its bytes back (data_topic.cpp:89-96).            *)
THEOREM EvictionHasVictim ==
    ASSUME \A k \in Kinds : "heap" \notin k.locs
    PROVE  Spec => []EvictHasVictim
<1>1. DInv => EvictHasVictim
  <2> SUFFICES ASSUME DInv, pc = "evict", Overfull PROVE data # <<>>
    BY DEF EvictHasVictim
  <2>1. Clean
    BY DTypes DEF CountInv, TypeOK, Clean
  <2>2. ASSUME data = <<>> PROVE FALSE
    <3>1. NoRing(data, 1, Len(data))
      BY <2>2, EmptySeq DEF NoRing
    <3> QED  BY <2>1, <3>1, DTypes DEF DInv, Slack, Overfull
  <2> QED  BY <2>2
<1> QED  BY <1>1, DInvHolds, PTL

(* A set of natural numbers that is not empty has a smallest element. *)
LEMMA NatMin ==
    ASSUME NEW T, T \subseteq Nat, T # {}
    PROVE  \E x \in T : \A y \in T : x <= y
<1> DEFINE R == {ss \in Nat \X Nat : ss[1] < ss[2]}
<1>1. IsWellFoundedOn(R, Nat)
  BY NatLessThanWellFounded DEF OpToRel
<1>2. PICK x \in T : \A y \in T : ~(<<y, x>> \in R)
  BY <1>1, WFMin
<1>3. ASSUME NEW y \in T PROVE x <= y
  <2>1. x \in Nat /\ y \in Nat
    OBVIOUS
  <2>2. ~(y < x)
    BY <2>1, <1>2
  <2> QED  BY <2>1, <2>2
<1> QED  BY <1>3

(* A sequence adds up to what a function with the same increments says:    *)
(* there is no smallest index where the sum and that function differ.      *)
LEMMA TotalIs ==
    ASSUME NEW f, NEW N \in Nat, Len(f) = N, NEW g \in [0 .. N -> Int],
           g[0] = 0, \A i \in 1 .. N : g[i] = g[i - 1] + f[i]
    PROVE  Total(f) = g[N]
<1> DEFINE s[i \in 0 .. Len(f)] == IF i = 0 THEN 0 ELSE s[i - 1] + f[i]
           Eq(h) == h = [i \in 0 .. N |-> IF i = 0 THEN 0 ELSE h[i - 1] + f[i]]
           T == {i \in 0 .. N : s[i] # g[i]}
<1>1. g = [i \in 0 .. N |-> IF i = 0 THEN 0 ELSE g[i - 1] + f[i]]
  OBVIOUS
<1>2. s = [i \in 0 .. N |-> IF i = 0 THEN 0 ELSE s[i - 1] + f[i]]
  <2>1. s = CHOOSE h : Eq(h)
    BY DEF s
  <2>2. Eq(g)
    BY <1>1
  <2> HIDE DEF Eq, s
  <2>3. Eq(s)
    BY <2>1, <2>2
  <2> QED  BY <2>3 DEF Eq
<1>3. s[N] = g[N]
  <2> HIDE DEF s
  <2>1. T \subseteq Nat
    OBVIOUS
  <2>2. \A i \in 0 .. N : i \in T <=> s[i] # g[i]
    OBVIOUS
  <2> HIDE DEF T
  <2>3. ASSUME T # {} PROVE FALSE
    <3>1. PICK x \in T : \A y \in T : x <= y
      BY <2>1, <2>3, NatMin
    <3>0. x \in 0 .. N
      BY <3>1 DEF T
    <3>2. x # 0
      BY <1>2, <2>2, <3>1, <3>0
    <3>3. x - 1 \in 0 .. N /\ s[x - 1] = g[x - 1]
      <4>1. x - 1 \in 0 .. N /\ x - 1 < x
        BY <3>0, <3>2
      <4>2. x - 1 \notin T
        BY <4>1, <3>0, <3>1
      <4> QED  BY <4>1, <4>2, <2>2
    <3> QED  BY <1>2, <2>2, <3>0, <3>1, <3>2, <3>3
  <2> QED  BY <2>2, <2>3
<1>4. Total(f) = s[Len(f)]
  BY DEF Total
<1> QED  BY <1>3, <1>4

(* The bytes of the ring that the entries span: from the start of the      *)
(* oldest to the end of the newest, in the stream of bytes pushed.         *)
Span == IF data = <<>> THEN 0 ELSE pushed - data[1].pos

(* On a topic only its server puts to, every entry is in the ring, each    *)
(* begins where the one before it ends, and occupied_shm_size_ is exactly  *)
(* what they span (data_topic.cpp:88-122, 183-211).                        *)
SpanExact ==
    IsShm /\ ServersOwn =>
        /\ \A i \in DOMAIN data : OnRing(data[i])
        /\ \A i \in 1 .. Len(data) - 1 : RingEnd(data[i]) = data[i + 1].pos
        /\ data # <<>> => RingEnd(Last(data)) = pushed
        /\ occupied = Span

LEMMA SpanOfInv ==
    ASSUME DInv
    PROVE  SpanExact
<1> SUFFICES ASSUME Own PROVE SpanExact
  BY DEF SpanExact, Own
<1>1. /\ data \in Seq(Entry) /\ Len(data) \in Nat /\ DOMAIN data = 1 .. Len(data)
      /\ \A i \in DOMAIN data : data[i] \in Entry
      /\ data # <<>> => Len(data) >= 1
      /\ pushed \in Nat /\ occupied \in Nat
  BY DTypes, HeldEntries
<1>2. RingOnly /\ Contiguous(data, pushed) /\ Slack(data, pushed, occupied, 0)
  BY DEF DInv
<1>3. ASSUME NEW i \in 1 .. Len(data) - 1
      PROVE  RingEnd(data[i]) = data[i + 1].pos
  <2>1. i \in DOMAIN data /\ i + 1 \in DOMAIN data /\ i < i + 1
    BY <1>1
  <2>2. NoRing(data, i + 1, i + 1 - 1)
    BY <1>1, <2>1 DEF NoRing
  <2> QED  BY <2>1, <2>2, <1>2 DEF Contiguous, RingOnly
<1>4. ASSUME data # <<>>
      PROVE  RingEnd(Last(data)) = pushed /\ occupied = pushed - data[1].pos
  <2>1. 1 \in DOMAIN data /\ Len(data) \in DOMAIN data /\ Last(data) = data[Len(data)]
    BY <1>1, <1>4 DEF Last
  <2>2. NoRing(data, Len(data) + 1, Len(data)) /\ NoRing(data, 1, 1 - 1)
    BY <1>1 DEF NoRing
  <2>3. RingEnd(Last(data)) = pushed
    BY <2>1, <2>2, <1>2 DEF Contiguous, RingOnly
  <2>4. occupied - (pushed - data[1].pos) <= 0
    BY <2>1, <2>2, <1>2 DEF Slack, RingOnly
  <2>5. pushed - data[1].pos <= occupied
    BY <2>1, <1>2, DTypes DEF RingOrder, RingOnly
  <2>6. data[1].pos \in Nat
    BY <2>1, <1>1, EntryFields
  <2> QED  BY <2>3, <2>4, <2>5, <2>6, <1>1
<1>5. ASSUME data = <<>>
      PROVE  occupied = 0
  <2>1. NoRing(data, 1, Len(data))
    BY <1>5, EmptySeq DEF NoRing
  <2> QED  BY <2>1, <1>1, <1>2 DEF Slack
<1> QED  BY <1>2, <1>3, <1>4, <1>5 DEF SpanExact, RingOnly, Span

(* The topic's accounting and its ring agree: the oldest and the newest    *)
(* entry tell what occupied_shm_size_ is, at every step of every operation *)
(* (data_topic.cpp:88-122, 183-211).                                       *)
THEOREM SpanHolds == Spec => []SpanExact
<1>1. DInv => SpanExact
  BY SpanOfInv
<1> QED  BY <1>1, DInvHolds, PTL

(* occupied_shm_size_ is exact at every step of every operation of a topic *)
(* only its server puts to: the bytes of the held entries add up to it,    *)
(* because they are what the entries span (data_topic.cpp:88-122,          *)
(* 183-211).                                                               *)
THEOREM OccupiedIsExact == Spec => []OccupiedExact
<1>1. DInv => OccupiedExact
  <2> SUFFICES ASSUME DInv, IsShm, ServersOwn PROVE occupied = HeldBytes
    BY DEF OccupiedExact
  <2>1. /\ data \in Seq(Entry) /\ Len(data) \in Nat /\ DOMAIN data = 1 .. Len(data)
        /\ \A i \in DOMAIN data : data[i] \in Entry
        /\ data # <<>> => Len(data) >= 1
        /\ pushed \in Nat
    BY DTypes, HeldEntries
  <2> DEFINE N == Len(data)
             f == [i \in DOMAIN data |-> Accounted(data[i])]
             start(i) == IF i = N THEN pushed ELSE data[i + 1].pos
             g == [i \in 0 .. N |-> IF i = 0 THEN 0 ELSE start(i) - data[1].pos]
  <2>2. SpanExact
    BY SpanOfInv
  <2>3. \A i \in 1 .. N : RingEnd(data[i]) = start(i) /\ start(i) \in Nat /\ f[i] = start(i) - data[i].pos
    <3> SUFFICES ASSUME NEW i \in 1 .. N
                 PROVE  RingEnd(data[i]) = start(i) /\ start(i) \in Nat /\ f[i] = start(i) - data[i].pos
      OBVIOUS
    <3>1. data[i] \in Entry /\ OnRing(data[i])
      BY <2>1, <2>2 DEF SpanExact
    <3>2. RingEnd(data[i]) = start(i)
      <4>1. CASE i = N
        <5>1. data # <<>> /\ Last(data) = data[i]
          BY <4>1, <2>1, EmptySeq DEF Last
        <5> QED  BY <4>1, <5>1, <2>2 DEF SpanExact
      <4>2. CASE i # N
        <5>1. i \in 1 .. Len(data) - 1
          <6>1. i \in 1 .. Len(data) /\ i # Len(data) /\ Len(data) \in Nat
            BY <4>2, <2>1
          <6> HIDE DEF N, f, g, start
          <6> QED  BY <6>1
        <5>2. RingEnd(data[i]) = data[i + 1].pos
          BY <5>1, <2>2 DEF SpanExact
        <5> QED  BY <4>2, <5>2
      <4> QED  BY <4>1, <4>2
    <3>3. start(i) \in Nat
      BY <3>1, <3>2, EntryFields
    <3>4. f[i] = data[i].size
      BY <3>1, <2>1 DEF Accounted
    <3>5. data[i].pos + data[i].size = start(i) /\ data[i].pos \in Nat /\ data[i].size \in Nat
      BY <3>1, <3>2, EntryFields DEF RingEnd
    <3> QED  BY <3>2, <3>3, <3>4, <3>5
  <2>4. N \in Nat /\ Len(f) = N
    <3>1. f \in [1 .. N -> Nat]
      BY <2>1, EntryFields
    <3>2. f \in Seq(Nat) /\ DOMAIN f = 1 .. N
      BY <3>1, <2>1, SeqDef
    <3> QED  BY <3>2, <2>1, LenProperties
  <2>5. \A i \in 1 .. N : data[i].pos \in Nat
    BY <2>1, EntryFields
  <2>6. g \in [0 .. N -> Int]
    <3> SUFFICES ASSUME NEW i \in 0 .. N, i # 0
                 PROVE  start(i) - data[1].pos \in Int
      OBVIOUS
    <3>1. i \in 1 .. N /\ 1 \in 1 .. N
      BY <2>1
    <3>2. start(i) \in Nat /\ data[1].pos \in Nat
      BY <3>1, <2>3, <2>5
    <3> HIDE DEF start
    <3> QED  BY <3>2
  <2>7. g[0] = 0
    BY <2>1
  <2>8. ASSUME NEW i \in 1 .. N
        PROVE  g[i] = g[i - 1] + f[i]
    <3> HIDE DEF f
    <3>1. g[i] = start(i) - data[1].pos /\ start(i) \in Nat /\ 1 \in 1 .. N
      <4>1. i \in 0 .. N /\ i # 0 /\ 1 \in 1 .. N
        BY <2>1
      <4>2. start(i) \in Nat
        BY <2>3
      <4> HIDE DEF start
      <4> QED  BY <4>1, <4>2
    <3>2. f[i] = start(i) - data[i].pos /\ data[i].pos \in Nat /\ data[1].pos \in Nat
      BY <3>1, <2>3, <2>5
    <3>3. g[i - 1] = data[i].pos - data[1].pos
      <4>1. CASE i = 1
        BY <4>1, <3>2, <2>1
      <4>2. CASE i # 1
        <5>1. i - 1 \in 1 .. N /\ i - 1 # N /\ (i - 1) + 1 = i /\ i - 1 # 0 /\ i - 1 \in 0 .. N
          BY <4>2, <2>1
        <5>2. start(i - 1) = data[i].pos
          BY <5>1
        <5> QED  BY <5>1, <5>2
      <4> QED  BY <4>1, <4>2
    <3> HIDE DEF g, start
    <3> QED  BY <3>1, <3>2, <3>3
  <2>9. Total(f) = g[N]
    <3> HIDE DEF f, g
    <3> QED  BY <2>4, <2>6, <2>7, <2>8, TotalIs
  <2>10. g[N] = Span
    <3>1. CASE data = <<>>
      <4>1. N = 0
        BY <3>1, EmptySeq
      <4> QED  BY <4>1, <3>1, <2>7 DEF Span
    <3>2. CASE data # <<>>
      BY <3>2, <2>1 DEF Span
    <3> QED  BY <3>1, <3>2
  <2> QED  BY <2>2, <2>9, <2>10 DEF SpanExact, HeldBytes
<1> QED  BY <1>1, DInvHolds, PTL

(* What a server puts to a topic of its own is the topic's newest message  *)
(* when copy_data_to_shm returns: neither the loop that makes room nor the *)
(* pruning loop ever reaches it (data_topic.cpp:88-122), whatever was      *)
(* popped or reset before.                                                 *)
THEOREM OwnPutStays == Spec => OwnPutKept
<1>1. DInv /\ [Next]_vars => [ServersOwn => KeepsPut]_vars
  <2> SUFFICES ASSUME DInv, [Next]_vars, ServersOwn,
                      pc = "prune", pc' = "idle", outcome' = "ok"
               PROVE  data # <<>> /\ Last(data).id = cur.id
    BY DEF KeepsPut
  <2>1. IsShm
    BY DTypes DEF CountInv
  <2>2. KeptInv
    BY <2>1 DEF DInv, Own
  <2> QED  BY <2>2 DEF KeptInv
<1> QED  BY <1>1, DInvHolds, PTL DEF Spec, OwnPutKept

=============================================================================
