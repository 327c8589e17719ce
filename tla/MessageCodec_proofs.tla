------------------------- MODULE MessageCodec_proofs -------------------------
(***************************************************************************)
(* Proofs about MessageCodec: for every width of a word, every number and  *)
(* size of blocks, a message is received as it was sent as far as its      *)
(* blocks are addressable, and none is refused.                            *)
(*                                                                         *)
(* The argument.  The decoder's running int and the encoder's position     *)
(* agree modulo 2^32 before every block, whether lengths wrap or not       *)
(* (CodecInv).  Below 2^31 agreeing modulo 2^32 is being equal; and the    *)
(* uint32_t the bounds check compares is never more than the real end of   *)
(* the block, which is inside the data string.                             *)
(***************************************************************************)
EXTENDS MessageCodec, TLAPS

-----------------------------------------------------------------------------
(* Remainders.                                                             *)

\* A multiple of W that is positive is at least W.
LEMMA TimesLarge == ASSUME NEW W \in Nat \ {0}, NEW k \in Int, k >= 1 PROVE W * k >= W
  OBVIOUS

\* Quotient and remainder.
LEMMA DivMod == ASSUME NEW W \in Nat \ {0}, NEW n \in Int
  PROVE /\ n \div W \in Int
        /\ n % W \in 0 .. W - 1
        /\ n = W * (n \div W) + (n % W)
  OBVIOUS

\* The remainder is unique.
LEMMA ModUnique ==
  ASSUME NEW W \in Nat \ {0}, NEW q \in Int, NEW r \in 0 .. W - 1,
         NEW p \in Int, NEW s \in 0 .. W - 1, W * q + r = W * p + s
  PROVE  r = s
  <1>1. W * (q - p) = s - r
    OBVIOUS
  <1>2. ~(q - p >= 1)
    <2>1. q - p >= 1 => W * (q - p) >= W
      BY TimesLarge
    <2>2. QED BY <2>1, <1>1
  <1>3. ~(p - q >= 1)
    <2>1. p - q >= 1 => W * (p - q) >= W
      BY TimesLarge
    <2>2. W * (p - q) = r - s
      OBVIOUS
    <2>3. QED BY <2>1, <2>2
  <1>4. q - p = 0
    BY <1>2, <1>3
  <1>5. QED BY <1>1, <1>4

\* Adding a multiple of W does not change the remainder.
LEMMA ModShift ==
  ASSUME NEW W \in Nat \ {0}, NEW n \in Int, NEW k \in Int
  PROVE  (n + W * k) % W = n % W
  <1> DEFINE m == n + W * k
  <1>0. W * k \in Int
    OBVIOUS
  <1>1. m \in Int
    BY <1>0
  <1>2. /\ n \div W \in Int
        /\ n % W \in 0 .. W - 1
        /\ n = W * (n \div W) + (n % W)
    BY DivMod
  <1>3. /\ m \div W \in Int
        /\ m % W \in 0 .. W - 1
        /\ m = W * (m \div W) + (m % W)
    BY <1>1, DivMod
  <1>4. W * (n \div W + k) = W * (n \div W) + W * k
    BY <1>2
  <1>5. W * (n \div W + k) + (n % W) = W * (m \div W) + (m % W)
    BY <1>0, <1>2, <1>3, <1>4
  <1>6. n \div W + k \in Int
    BY <1>2
  <1> HIDE DEF m
  <1>7. n % W = m % W
    BY <1>2, <1>3, <1>5, <1>6, ModUnique
  <1>8. QED BY <1>7 DEF m

-----------------------------------------------------------------------------
(* uint32_t and int.                                                       *)

LEMMA WordNat == Word \in Nat \ {0}
  BY MessageCodecAssumption DEF Word

LEMMA ToUint32Type ==
  ASSUME NEW n \in Int
  PROVE  ToUint32(n) \in 0 .. Word - 1
  BY WordNat DEF ToUint32

\* What fits is not changed.
LEMMA ToUint32Small ==
  ASSUME NEW n \in 0 .. Word - 1
  PROVE  ToUint32(n) = n
  BY WordNat DEF ToUint32

LEMMA ToUint32Less ==
  ASSUME NEW n \in Nat
  PROVE  ToUint32(n) <= n
  BY WordNat DEF ToUint32

LEMMA ToUint32Shift ==
  ASSUME NEW n \in Int, NEW k \in Int
  PROVE  ToUint32(n + Word * k) = ToUint32(n)
  BY WordNat, ModShift DEF ToUint32

\* A conversion adds a multiple of 2^32.
LEMMA ToUint32Multiple ==
  ASSUME NEW n \in Int
  PROVE  \E k \in Int : ToUint32(n) = n + Word * k
  <1> DEFINE q == n \div Word
  <1>1. q \in Int /\ n = Word * q + (n % Word)
    BY WordNat, DivMod
  <1>2. Word \in Int /\ n % Word \in Int
    BY WordNat
  <1> HIDE DEF q
  <1>3. Word * (-q) = -(Word * q)
    BY <1>1, <1>2
  <1>4. Word * q \in Int
    BY <1>1, <1>2
  <1>5. n % Word = n + Word * (-q)
    BY <1>1, <1>2, <1>3, <1>4
  <1>6. -q \in Int
    BY <1>1
  <1>7. QED BY <1>5, <1>6 DEF ToUint32

LEMMA ToIntMultiple ==
  ASSUME NEW n \in Int
  PROVE  \E k \in Int : ToInt(n) = n + Word * k
  <1>1. PICK k \in Int : ToUint32(n) = n + Word * k
    BY ToUint32Multiple
  <1>2. Word \in Int /\ Word * k \in Int
    BY WordNat
  <1>3. Word * (k - 1) = Word * k - Word
    BY <1>2
  <1>4. CASE ToUint32(n) < HalfWord
    <2>1. ToInt(n) = n + Word * k
      BY <1>1, <1>4 DEF ToInt
    <2>2. QED BY <2>1
  <1>5. CASE ~(ToUint32(n) < HalfWord)
    <2>1. ToInt(n) = ToUint32(n) - Word
      BY <1>5 DEF ToInt
    <2>2. ToInt(n) = n + Word * (k - 1)
      BY <1>1, <1>2, <1>3, <2>1
    <2>3. k - 1 \in Int
      OBVIOUS
    <2>4. QED BY <2>2, <2>3
  <1>6. QED BY <1>4, <1>5

LEMMA ToIntType ==
  ASSUME NEW n \in Int
  PROVE  ToInt(n) \in -HalfWord .. HalfWord - 1
  BY ToUint32Type, MessageCodecAssumption DEF ToInt, Word

\* What fits is not changed.
LEMMA ToIntSmall ==
  ASSUME NEW n \in 0 .. HalfWord - 1
  PROVE  ToInt(n) = n
  BY ToUint32Small, MessageCodecAssumption DEF ToInt, Word

\* An int and a uint32_t added are the sum of what they stand for, modulo
\* 2^32, and a length that is 0 there does not move the sum.
LEMMA Walk ==
  ASSUME NEW a \in Nat, NEW b \in Nat
  PROVE  /\ ToUint32(ToInt(a) + ToUint32(b)) = ToUint32(a + b)
         /\ ToInt(ToInt(a) + ToUint32(b)) = ToInt(a + b)
         /\ ToUint32(b) = 0 => ToInt(a) = ToInt(a + b)
  <1>1. PICK k \in Int : ToInt(a) = a + Word * k
    BY ToIntMultiple
  <1>2. PICK m \in Int : ToUint32(b) = b + Word * m
    BY ToUint32Multiple
  <1>3. Word \in Int /\ Word * k \in Int /\ Word * m \in Int
    BY WordNat
  <1>4. Word * (k + m) = Word * k + Word * m
    BY <1>3
  <1>5. ToInt(a) + ToUint32(b) = (a + b) + Word * (k + m)
    BY <1>1, <1>2, <1>3, <1>4
  <1>6. k + m \in Int /\ a + b \in Int
    OBVIOUS
  <1>7. ToUint32(ToInt(a) + ToUint32(b)) = ToUint32(a + b)
    BY <1>5, <1>6, ToUint32Shift
  <1>8. ToInt(ToInt(a) + ToUint32(b)) = ToInt(a + b)
    BY <1>7 DEF ToInt
  <1>9. ASSUME ToUint32(b) = 0
        PROVE  ToInt(a) = ToInt(a + b)
    <2>1. a + b = a + Word * (-m)
      <3>1. Word * (-m) = -(Word * m)
        BY <1>3
      <3>2. QED BY <3>1, <1>2, <1>3, <1>9
    <2>2. -m \in Int
      OBVIOUS
    <2>3. ToUint32(a + b) = ToUint32(a)
      BY <2>1, <2>2, ToUint32Shift
    <2>4. QED BY <2>3 DEF ToInt
  <1>10. QED BY <1>7, <1>8, <1>9

\* Through an int and back.
LEMMA ThroughInt ==
  ASSUME NEW a \in Int
  PROVE  ToUint32(ToInt(a)) = ToUint32(a)
  <1>1. PICK k \in Int : ToInt(a) = a + Word * k
    BY ToIntMultiple
  <1>2. QED BY <1>1, ToUint32Shift

-----------------------------------------------------------------------------
(* The messages.                                                           *)

\* Where block k ends, by the encoder's appends; the index is block 0.
End(k) == IF k = 0 THEN IndexSize(Len(blocks)) ELSE at[k] + blocks[k]

Encoding ==
    /\ Len(lens) = Len(blocks)
    /\ Len(at) <= Len(blocks)
    /\ \A i \in 1 .. Len(blocks) : lens[i] = ToUint32(blocks[i])
    /\ size = End(Len(at))
    /\ \A i \in 1 .. Len(at) : at[i] = End(i - 1)
    /\ \A i \in 0 .. Len(at) : End(i) <= size

\* The decoder is where the encoder was, modulo 2^32.
Decoding ==
    /\ Len(got) <= Len(blocks)
    /\ pc = "decode" => start = ToInt(End(Len(got)))
    /\ ReceivedAsSent

CodecInv ==
    /\ TypeOK
    /\ pc \in {"new", "encode", "threw"} => at = <<>>
    /\ pc \notin {"decode", "received"} => got = <<>>
    /\ pc \notin {"new", "threw"} => topic \in 1 .. MaxTopic
    /\ pc \notin {"new", "encode", "threw"} => Encoding
    /\ pc \in {"wire", "decode", "received"} => Len(at) = Len(blocks)
    /\ pc = "wire" => topicByte = topic
    /\ pc \in {"decode", "received"} => Decoding
    /\ NeverRefused

LEMMA IndexSizeNat ==
  ASSUME NEW num \in Nat
  PROVE  /\ IndexSize(num) \in Nat
         /\ FirstBlock(num) = ToInt(IndexSize(num))
  <1>1. num * (LenBytes + TimeBytes) = num * LenBytes + num * TimeBytes
    BY MessageCodecAssumption
  <1>2. num * LenBytes \in Nat /\ num * TimeBytes \in Nat
    BY MessageCodecAssumption
  <1>3. (1 + num) * LenBytes = LenBytes + num * LenBytes
    BY MessageCodecAssumption
  <1>4. (1 + num) * LenBytes + num * TimeBytes = LenBytes + num * (LenBytes + TimeBytes)
    BY <1>1, <1>2, <1>3, MessageCodecAssumption
  <1>5. LenBytes + num * (LenBytes + TimeBytes) \in Nat
    BY <1>1, <1>2, MessageCodecAssumption
  <1>6. QED BY <1>4, <1>5 DEF IndexSize, FirstBlock

LEMMA InitInv == Init => CodecInv
  <1> SUFFICES ASSUME Init PROVE CodecInv
    OBVIOUS
  <1>1. TypeOK
    BY MessageCodecAssumption, WordNat DEF Init, TypeOK
  <1>2. QED BY <1>1 DEF Init, CodecInv, NeverRefused

LEMMA ConstructInv == CodecInv /\ Construct => CodecInv'
  <1> SUFFICES ASSUME CodecInv, Construct PROVE CodecInv'
    OBVIOUS
  <1>1. blocks' \in Seq(Nat)
    <2>1. PICK m \in 0 .. MaxBlocks : blocks' \in [1 .. m -> BlockSizes]
      <3>1. blocks' \in UNION {[1 .. m -> BlockSizes] : m \in 0 .. MaxBlocks}
        BY DEF Construct, BoundedSeq, SeqOf
      <3>2. QED BY <3>1
    <2>2. m \in Nat
      BY MessageCodecAssumption
    <2>3. blocks' = [i \in 1 .. m |-> blocks'[i]]
      BY <2>1
    <2>4. \A i \in 1 .. m : blocks'[i] \in Nat
      BY <2>1, MessageCodecAssumption
    <2>5. [i \in 1 .. m |-> blocks'[i]] \in Seq(Nat)
      BY <2>2, <2>4
    <2>6. QED BY <2>3, <2>5
  <1>2. topic' \in Nat
    BY MessageCodecAssumption DEF Construct
  <1>3. TypeOK'
    BY <1>1, <1>2 DEF Construct, CodecInv, TypeOK
  <1>4. pc' \in {"encode", "threw"} /\ (pc' = "encode" => topic' \in 1 .. MaxTopic)
    BY DEF Construct, ValidTopic
  <1>5. at' = <<>> /\ got' = <<>>
    BY DEF Construct, CodecInv
  <1>6. QED BY <1>3, <1>4, <1>5 DEF CodecInv, NeverRefused

LEMMA EncodeIndexInv == CodecInv /\ EncodeIndex => CodecInv'
  <1> SUFFICES ASSUME CodecInv, EncodeIndex PROVE CodecInv'
    OBVIOUS
  <1>1. /\ blocks' = blocks /\ at' = <<>> /\ at = <<>> /\ got' = <<>> /\ pc' = "append"
        /\ size' = IndexSize(Len(blocks))
        /\ topic' = topic /\ topic \in 1 .. MaxTopic
        /\ lens' = [i \in DOMAIN blocks |-> ToUint32(ToInt(blocks[i]))]
    BY DEF EncodeIndex, CodecInv
  <1>2. blocks \in Seq(Nat) /\ Len(blocks) \in Nat /\ DOMAIN blocks = 1 .. Len(blocks)
    BY DEF CodecInv, TypeOK
  <1>3. \A i \in 1 .. Len(blocks) : /\ blocks[i] \in Nat
                                     /\ ToUint32(ToInt(blocks[i])) = ToUint32(blocks[i])
                                     /\ ToUint32(blocks[i]) \in 0 .. Word - 1
    <2> SUFFICES ASSUME NEW i \in 1 .. Len(blocks)
                 PROVE  /\ blocks[i] \in Nat
                        /\ ToUint32(ToInt(blocks[i])) = ToUint32(blocks[i])
                        /\ ToUint32(blocks[i]) \in 0 .. Word - 1
      OBVIOUS
    <2>1. blocks[i] \in Nat
      BY <1>2
    <2>2. blocks[i] \in Int
      BY <2>1
    <2>3. QED BY <2>1, <2>2, ThroughInt, ToUint32Type
  <1>4. lens' \in Seq(0 .. Word - 1) /\ Len(lens') = Len(blocks)
    BY <1>1, <1>2, <1>3
  <1>5. size' \in Nat
    BY <1>1, <1>2, IndexSizeNat
  <1>6. TypeOK'
    BY <1>1, <1>4, <1>5 DEF CodecInv, TypeOK, EncodeIndex
  <1>7. Len(at') = 0
    BY <1>1
  <1>8. Encoding'
    BY <1>1, <1>2, <1>3, <1>4, <1>5, <1>7 DEF Encoding, End
  <1>9. QED BY <1>1, <1>6, <1>8 DEF CodecInv, NeverRefused

LEMMA AppendBlockInv == CodecInv /\ AppendBlock => CodecInv'
  <1> SUFFICES ASSUME CodecInv, AppendBlock PROVE CodecInv'
    OBVIOUS
  <1>0. PICK n : n = Len(at) + 1
    OBVIOUS
  <1>1. /\ blocks' = blocks /\ lens' = lens /\ got' = got /\ pc' = pc /\ pc = "append"
        /\ topic' = topic /\ got = <<>>
        /\ at' = Append(at, size) /\ size' = size + blocks[n] /\ Len(at) < Len(blocks)
        /\ Encoding /\ topic \in 1 .. MaxTopic
    BY <1>0 DEF AppendBlock, CodecInv
  <1>2. /\ blocks \in Seq(Nat) /\ at \in Seq(Nat) /\ size \in Nat
        /\ Len(at) \in Nat /\ Len(blocks) \in Nat
    BY DEF CodecInv, TypeOK
  <1>3. n \in 1 .. Len(blocks) /\ blocks[n] \in Nat
    BY <1>0, <1>1, <1>2
  <1>4. /\ at' \in Seq(Nat) /\ Len(at') = n /\ at'[n] = size
        /\ \A i \in 1 .. Len(at) : at'[i] = at[i]
    BY <1>0, <1>1, <1>2
  <1>5. size' \in Nat /\ size <= size'
    BY <1>1, <1>2, <1>3
  <1>6. TypeOK'
    BY <1>1, <1>4, <1>5 DEF CodecInv, TypeOK, AppendBlock
  <1>7. \A i \in 0 .. Len(at) : End(i)' = End(i)
    BY <1>1, <1>2, <1>4 DEF End
  <1>8. End(n)' = size'
    BY <1>1, <1>2, <1>3, <1>4 DEF End
  <1>9. \A i \in 0 .. Len(at) : End(i) \in Nat /\ End(i) <= size
    <2>1. IndexSize(Len(blocks)) \in Nat
      BY <1>2, IndexSizeNat
    <2>2. ASSUME NEW i \in 1 .. Len(at) PROVE at[i] + blocks[i] \in Nat
      <3>1. i \in 1 .. Len(blocks)
        BY <1>1, <1>2
      <3>2. at[i] \in Nat
        BY <1>2
      <3>3. blocks[i] \in Nat
        BY <1>2, <3>1
      <3>4. QED BY <3>2, <3>3
    <2>3. \A i \in 0 .. Len(at) : End(i) \in Nat
      BY <1>2, <2>1, <2>2 DEF End
    <2>4. QED BY <1>1, <2>3 DEF Encoding
  <1>10. \A i \in 1 .. n : at'[i] = End(i - 1)'
    <2>1. \A i \in 1 .. Len(at) : at'[i] = End(i - 1)'
      BY <1>0, <1>1, <1>2, <1>4, <1>7 DEF Encoding
    <2>2. at'[n] = End(n - 1)'
      BY <1>0, <1>1, <1>2, <1>4, <1>7 DEF Encoding
    <2>3. QED BY <2>1, <2>2, <1>0, <1>2
  <1>11. \A i \in 0 .. n : End(i)' <= size'
    <2>1. \A i \in 0 .. Len(at) : End(i)' <= size'
      BY <1>2, <1>5, <1>7, <1>9
    <2>2. QED BY <2>1, <1>0, <1>2, <1>5, <1>8
  <1>12. Encoding'
    BY SMTT(20), <1>1, <1>2, <1>3, <1>4, <1>8, <1>10, <1>11 DEF Encoding
  <1>13. QED BY <1>1, <1>6, <1>12 DEF CodecInv, NeverRefused

LEMMA SerializeInv == CodecInv /\ Serialize => CodecInv'
  <1> SUFFICES ASSUME CodecInv, Serialize PROVE CodecInv'
    OBVIOUS
  <1>1. topic \in 1 .. MaxTopic /\ topicByte' = topic
    BY MessageCodecAssumption DEF CodecInv, Serialize
  <1>2. TypeOK'
    BY <1>1 DEF CodecInv, TypeOK, Serialize
  <1>3. Encoding'
    BY DEF CodecInv, Serialize, Encoding, End
  <1>4. QED BY <1>1, <1>2, <1>3 DEF CodecInv, NeverRefused, Serialize

LEMMA ReceiveInv == CodecInv /\ Receive => CodecInv'
  <1> SUFFICES ASSUME CodecInv, Receive PROVE CodecInv'
    OBVIOUS
  <1>1. /\ pc' = "decode" /\ got' = <<>> /\ got = <<>> /\ start' = FirstBlock(Len(blocks))
        /\ blocks' = blocks /\ Len(blocks) \in Nat
    BY DEF CodecInv, TypeOK, Receive
  <1>2. IndexSize(Len(blocks)) \in Nat /\ start' = ToInt(IndexSize(Len(blocks)))
    BY <1>1, IndexSizeNat
  <1>3. start' \in -HalfWord .. HalfWord - 1
    BY <1>2, ToIntType
  <1>4. TypeOK'
    BY <1>1, <1>3 DEF CodecInv, TypeOK, Receive
  <1>5. Encoding'
    BY DEF CodecInv, Receive, Encoding, End
  <1>6. Len(got') = 0 /\ DOMAIN got' = {}
    BY <1>1
  <1>7. Decoding'
    BY <1>1, <1>2, <1>6 DEF Decoding, ReceivedAsSent, End
  <1>8. QED BY <1>1, <1>4, <1>5, <1>7 DEF CodecInv, NeverRefused, Receive

\* The turn of the loop for block n.
LEMMA DecodeBlockInv == CodecInv /\ DecodeBlock => CodecInv'
  <1> SUFFICES ASSUME CodecInv, DecodeBlock PROVE CodecInv'
    OBVIOUS
  <1>0. PICK n : n = Len(got) + 1
    OBVIOUS
  <1> DEFINE len == lens[n]
             new == IF len = 0 THEN NoBytes ELSE [from |-> start, len |-> len]
  <1>1. /\ pc = "decode" /\ Len(got) < Len(blocks)
        /\ topic' = topic /\ blocks' = blocks /\ lens' = lens /\ at' = at /\ size' = size
        /\ topicByte' = topicByte
        /\ Encoding /\ Decoding /\ Len(at) = Len(blocks)
    BY DEF DecodeBlock, CodecInv
  <1>2. /\ blocks \in Seq(Nat) /\ at \in Seq(Nat) /\ size \in Nat /\ got \in Seq(Stretch)
        /\ Len(got) \in Nat /\ Len(blocks) \in Nat /\ start \in -HalfWord .. HalfWord - 1
    BY DEF CodecInv, TypeOK
  <1>3. n \in 1 .. Len(blocks) /\ n - 1 = Len(got) /\ n # 0
    BY <1>0, <1>1, <1>2
  <1>4. blocks[n] \in Nat /\ at[n] \in Nat
    BY <1>1, <1>2, <1>3
  <1>5. len = ToUint32(blocks[n]) /\ len \in 0 .. Word - 1
    <2>1. len = ToUint32(blocks[n])
      BY <1>1, <1>3 DEF Encoding
    <2>2. blocks[n] \in Int
      BY <1>4
    <2>3. QED BY <2>1, <2>2, ToUint32Type
  <1>6. at[n] = End(n - 1) /\ End(n) = at[n] + blocks[n] /\ End(n) <= size
    <2>1. n \in 1 .. Len(at) /\ n \in 0 .. Len(at)
      BY <1>1, <1>3
    <2>2. QED BY <1>1, <1>3, <2>1 DEF Encoding, End
  <1>7. start = ToInt(at[n])
    BY <1>1, <1>3, <1>6 DEF Decoding
  <1>8. /\ ToUint32(start + len) = ToUint32(End(n))
        /\ ToInt(start + len) = ToInt(End(n))
        /\ len = 0 => start = ToInt(End(n))
    <2>1. /\ ToUint32(ToInt(at[n]) + ToUint32(blocks[n])) = ToUint32(at[n] + blocks[n])
          /\ ToInt(ToInt(at[n]) + ToUint32(blocks[n])) = ToInt(at[n] + blocks[n])
          /\ ToUint32(blocks[n]) = 0 => ToInt(at[n]) = ToInt(at[n] + blocks[n])
      BY <1>4, Walk
    <2>2. QED BY <1>5, <1>6, <1>7, <2>1
  <1>9. ~Refused(len)
    <2>1. End(n) \in Nat
      BY <1>4, <1>6
    <2>2. ToUint32(End(n)) <= End(n) /\ ToUint32(End(n)) \in Int
      BY <2>1, WordNat, ToUint32Less, ToUint32Type
    <2>3. ToUint32(start + len) <= size
      BY <1>2, <1>6, <1>8, <2>1, <2>2
    <2>4. QED BY <1>2, <1>8, <2>2, <2>3 DEF Refused
  <1>10. /\ pc' = "decode" /\ got' = Append(got, new)
         /\ start' = IF len = 0 THEN start ELSE Advance(len)
    BY <1>0, <1>1, <1>9 DEF DecodeBlock
  <1>11. start' = ToInt(End(n))
    BY <1>8, <1>10 DEF Advance
  <1>12. new \in Stretch
    BY <1>2, <1>5, WordNat, MessageCodecAssumption DEF Stretch, NoBytes
  <1>13. start' \in -HalfWord .. HalfWord - 1
    BY <1>4, <1>6, <1>11, ToIntType
  <1>14. got' \in Seq(Stretch) /\ Len(got') = n /\ got'[n] = new
         /\ \A i \in 1 .. Len(got) : got'[i] = got[i]
    BY <1>0, <1>2, <1>10, <1>12
  <1>15. TypeOK'
    BY <1>1, <1>10, <1>13, <1>14 DEF CodecInv, TypeOK
  <1>16. Encoding'
    BY <1>1 DEF Encoding, End
  <1>17. new = Put(n) <=> Addressable(n)
    <2>1. CASE blocks[n] = 0
      <3>1. len = 0
        BY <1>5, <2>1, WordNat, ToUint32Small
      <3>2. QED BY <2>1, <3>1 DEF Put, Addressable
    <2>2. CASE blocks[n] # 0 /\ ~(blocks[n] < Word)
      <3>1. len # blocks[n]
        BY <1>4, <1>5, <2>2, WordNat
      <3>2. new.len = len
        BY DEF NoBytes
      <3>3. Put(n).len = blocks[n]
        BY <2>2 DEF Put
      <3>4. QED BY <2>2, <3>1, <3>2, <3>3 DEF Addressable
    <2>3. CASE blocks[n] # 0 /\ blocks[n] < Word
      <3>1. len = blocks[n]
        BY <1>4, <1>5, <2>3, WordNat, ToUint32Small
      <3>2. new = [from |-> start, len |-> blocks[n]] /\ Put(n) = [from |-> at[n], len |-> blocks[n]]
        BY <3>1, <2>3 DEF Put
      <3>3. start = at[n] <=> at[n] < HalfWord
        <4>1. at[n] < HalfWord => start = at[n]
          BY <1>4, <1>7, ToIntSmall, MessageCodecAssumption
        <4>2. start < HalfWord
          BY <1>2, MessageCodecAssumption
        <4>3. QED BY <4>1, <4>2
      <3>4. QED BY <2>3, <3>2, <3>3 DEF Addressable
    <2>4. QED BY <2>1, <2>2, <2>3
  <1>18. ReceivedAsSent'
    <2>1. \A i \in 1 .. n : /\ Put(i)' = Put(i)
                            /\ Addressable(i)' <=> Addressable(i)
      BY <1>1 DEF Put, Addressable
    <2>2. \A i \in 1 .. Len(got) : got'[i] = Put(i)' <=> Addressable(i)'
      <3> SUFFICES ASSUME NEW i \in 1 .. Len(got)
                   PROVE  got'[i] = Put(i)' <=> Addressable(i)'
        OBVIOUS
      <3>1. i \in 1 .. n /\ i \in DOMAIN got
        BY <1>0, <1>2
      <3>2. got[i] = Put(i) <=> Addressable(i)
        BY <1>1, <3>1 DEF Decoding, ReceivedAsSent
      <3>3. QED BY <1>14, <2>1, <3>1, <3>2
    <2>3. got'[n] = Put(n)' <=> Addressable(n)'
      BY <1>3, <1>14, <1>17, <2>1
    <2>4. \A i \in 1 .. n : i = n \/ i \in 1 .. Len(got)
      BY <1>0, <1>2
    <2>5. DOMAIN got' = 1 .. n
      BY <1>14
    <2>6. QED BY <2>2, <2>3, <2>4, <2>5 DEF ReceivedAsSent
  <1>19. Decoding'
    <2>1. End(n)' = End(n)
      BY <1>1 DEF End
    <2>2. QED BY <1>1, <1>3, <1>11, <1>14, <1>18, <2>1 DEF Decoding
  <1>20. QED BY <1>1, <1>10, <1>15, <1>16, <1>19 DEF CodecInv, NeverRefused

LEMMA DecodeDoneInv == CodecInv /\ DecodeDone => CodecInv'
  <1> SUFFICES ASSUME CodecInv, DecodeDone PROVE CodecInv'
    OBVIOUS
  <1>1. TypeOK'
    BY DEF CodecInv, TypeOK, DecodeDone
  <1>2. Encoding'
    BY DEF CodecInv, DecodeDone, Encoding, End
  <1>3. Decoding'
    BY DEF CodecInv, DecodeDone, Decoding, ReceivedAsSent, Put, Addressable
  <1>4. QED BY <1>1, <1>2, <1>3 DEF CodecInv, NeverRefused, DecodeDone

LEMMA StepInv == CodecInv /\ [Next]_vars => CodecInv'
  <1> SUFFICES ASSUME CodecInv, [Next]_vars PROVE CodecInv'
    OBVIOUS
  <1>1. CASE UNCHANGED vars
    BY <1>1 DEF CodecInv, TypeOK, Encoding, End, Decoding, ReceivedAsSent, Put, Addressable,
                NeverRefused, vars
  <1>2. QED BY <1>1, ConstructInv, EncodeIndexInv, AppendBlockInv, SerializeInv, ReceiveInv,
               DecodeBlockInv, DecodeDoneInv DEF Next

(* The invariant holds in every reachable state.                           *)
THEOREM CodecInvariant == Spec => []CodecInv
  <1>1. QED BY InitInv, StepInv, PTL DEF Spec

(* Types: in particular the running index of the decoder is always an int. *)
THEOREM CodecTypes == Spec => []TypeOK
  <1>1. CodecInv => TypeOK
    BY DEF CodecInv
  <1>2. QED BY <1>1, CodecInvariant, PTL

(* Every block of every message is received as it was sent, if and only if *)
(* it is shorter than 4 GiB and begins in the first 2 GiB.                 *)
THEOREM BlocksAsSent == Spec => []ReceivedAsSent
  <1>1. CodecInv => ReceivedAsSent
    <2>1. ASSUME CodecInv, got = <<>> PROVE ReceivedAsSent
      BY <2>1 DEF ReceivedAsSent
    <2>2. QED BY <2>1 DEF CodecInv, Decoding
  <1>2. QED BY <1>1, CodecInvariant, PTL

(* No message the program was allowed to make is refused, or cut in the    *)
(* wrong place, by the one who receives it.                                *)
THEOREM NoneRefused == Spec => []NeverRefused
  <1>1. CodecInv => NeverRefused
    BY DEF CodecInv
  <1>2. QED BY <1>1, CodecInvariant, PTL

=============================================================================
