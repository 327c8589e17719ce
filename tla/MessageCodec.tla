----------------------------- MODULE MessageCodec -----------------------------
(***************************************************************************)
(* The wire format of a message: class RMQMessage of rmq_message.cpp.      *)
(*                                                                         *)
(* A message is a topic and a list of blocks.  The sender turns the blocks *)
(* into one data string (their number, an index of lengths and timestamps, *)
(* then the blocks) and puts the topic, behind a byte with its length, the *)
(* command and a timestamp in front.  The receiver cuts the front off and, *)
(* when the blocks are asked for, walks the index with a running int.      *)
(*                                                                         *)
(* Bytes are abstracted to where they come from: `at' says where the       *)
(* encoder put each block, and what the decoder makes of a block is the    *)
(* stretch of the data string it copies.  Lengths keep their widths:       *)
(* uint32_t counts modulo Word, int is negative from HalfWord on, size_t   *)
(* does not wrap.                                                          *)
(*                                                                         *)
(* A definition whose name ends in _Wrong is a deliberately wrong variant  *)
(* of the one that follows it, unused here (see DataTopic.tla).            *)
(***************************************************************************)
EXTENDS Integers, Sequences, SequencesExt

CONSTANTS
    HalfWord,       \* 2^31
    LenBytes,       \* sizeof(uint32_t)
    TimeBytes,      \* sizeof(double)
    MaxTopic,       \* 255, the largest uint8_t
    TopicSizes,     \* lengths of the topics the program names
    BlockSizes,     \* sizes of the blocks it sends
    MaxBlocks       \* bound on the number of blocks of a message

ASSUME MessageCodecAssumption ==
    /\ HalfWord \in Nat \ {0}
    /\ LenBytes \in Nat \ {0}
    /\ TimeBytes \in Nat \ {0}
    /\ MaxTopic \in Nat \ {0}
    /\ TopicSizes \subseteq Nat
    /\ BlockSizes \subseteq Nat
    /\ MaxBlocks \in Nat

VARIABLES
    pc,         \* how far the message is
    topic,      \* size of topic_
    blocks,     \* sizes of the blocks in data_ptrs_ of the sender
    lens,       \* the lengths written into the index
    at,         \* history: where each block was appended
    size,       \* data_str_.size()
    topicByte,  \* the first byte of the serialized message
    got,        \* data_ptrs_ of the receiver: the stretch each block is copied from
    start       \* data_start_index

vars == <<pc, topic, blocks, lens, at, size, topicByte, got, start>>

Word == 2 * HalfWord

ToUint32(n) == n % Word
ToInt(n) == IF ToUint32(n) < HalfWord THEN ToUint32(n) ELSE ToUint32(n) - Word

\* Where the blocks begin, by the encoder's appends.
IndexSize(num) == LenBytes + num * (LenBytes + TimeBytes)

Stretch == [from : Int, len : Nat]
NoBytes == [from |-> 0, len |-> 0]

-----------------------------------------------------------------------------
Init ==
    /\ pc = "new"
    /\ topic = 0
    /\ blocks = <<>>
    /\ lens = <<>>
    /\ at = <<>>
    /\ size = 0
    /\ topicByte = 0
    /\ got = <<>>
    /\ start = 0

\* check_input_validity_.
ValidTopic(t) == t \in 1 .. MaxTopic

\* The constructor of the sender.
Construct ==
    /\ pc = "new"
    /\ topic' \in TopicSizes
    /\ blocks' \in BoundedSeq(BlockSizes, MaxBlocks)
    /\ pc' = IF ValidTopic(topic') THEN "encode" ELSE "threw"
    /\ UNCHANGED <<lens, at, size, topicByte, got, start>>

\* encode_data_blocks_, the number of blocks and the index: the length of a
\* block passes through an int and a uint32_t.
EncodeIndex ==
    /\ pc = "encode"
    /\ lens' = [i \in DOMAIN blocks |-> ToUint32(ToInt(blocks[i]))]
    /\ size' = IndexSize(Len(blocks))
    /\ pc' = "append"
    /\ UNCHANGED <<topic, blocks, at, topicByte, got, start>>

\* encode_data_blocks_, the blocks.
AppendBlock ==
    /\ pc = "append"
    /\ Len(at) < Len(blocks)
    /\ at' = Append(at, size)
    /\ size' = size + blocks[Len(at) + 1]
    /\ UNCHANGED <<pc, topic, blocks, lens, topicByte, got, start>>

\* serialize.
Serialize ==
    /\ pc = "append"
    /\ Len(at) = Len(blocks)
    /\ topicByte' = topic % (MaxTopic + 1)
    /\ pc' = "wire"
    /\ UNCHANGED <<topic, blocks, lens, at, size, got, start>>

\* The number of blocks itself is not counted in.
FirstBlock_Wrong(num) == ToInt(num * LenBytes + num * TimeBytes)

\* decode_data_blocks_, where the first block is looked for.
FirstBlock(num) == ToInt((1 + num) * LenBytes + num * TimeBytes)

\* The constructor of the receiver, and data_ptrs() as far as the loop.  What
\* is taken for the data string begins where topicByte says the topic ends.
Receive ==
    /\ pc = "wire"
    /\ IF topicByte = topic
         THEN pc' = "decode" /\ start' = FirstBlock(Len(blocks))
         ELSE pc' = "garbled" /\ UNCHANGED start
    /\ UNCHANGED <<topic, blocks, lens, at, size, topicByte, got>>

\* The block is refused if it ends at the end of the data string.
Refused_Wrong(len) == ToUint32(start + len) >= size

\* The bounds check of decode_data_blocks_: the sum is a uint32_t.
Refused(len) == ToUint32(start + len) > size

\* It is not converted back to int.
AdvanceWide_Wrong(len) == start + len

\* data_start_index += data_length, converted back to int.
Advance(len) == ToInt(start + len)

\* One turn of the loop of decode_data_blocks_.
DecodeBlock ==
    /\ pc = "decode"
    /\ Len(got) < Len(blocks)
    /\ LET len == lens[Len(got) + 1]
       IN  IF Refused(len) THEN pc' = "refused" /\ UNCHANGED <<got, start>>
           ELSE /\ got' = Append(got, IF len = 0 THEN NoBytes ELSE [from |-> start, len |-> len])
                /\ start' = IF len = 0 THEN start ELSE Advance(len)
                /\ UNCHANGED pc
    /\ UNCHANGED <<topic, blocks, lens, at, size, topicByte>>

DecodeDone ==
    /\ pc = "decode"
    /\ Len(got) = Len(blocks)
    /\ pc' = "received"
    /\ UNCHANGED <<topic, blocks, lens, at, size, topicByte, got, start>>

Next ==
    \/ Construct
    \/ EncodeIndex
    \/ AppendBlock
    \/ Serialize
    \/ Receive
    \/ DecodeBlock
    \/ DecodeDone

Spec == Init /\ [][Next]_vars

-----------------------------------------------------------------------------
TypeOK ==
    /\ pc \in {"new", "encode", "append", "wire", "decode", "received",
               "threw", "garbled", "refused"}
    /\ topic \in Nat
    /\ blocks \in Seq(Nat)
    /\ lens \in Seq(0 .. Word - 1)
    /\ at \in Seq(Nat)
    /\ size \in Nat
    /\ topicByte \in 0 .. MaxTopic
    /\ got \in Seq(Stretch)
    /\ start \in -HalfWord .. HalfWord - 1

\* The blocks an int and a uint32_t can name: shorter than 4 GiB, and
\* beginning in the first 2 GiB of the data string.
Addressable(i) == blocks[i] = 0 \/ (blocks[i] < Word /\ at[i] < HalfWord)

\* The stretch of block i, as it was put in.
Put(i) == IF blocks[i] = 0 THEN NoBytes ELSE [from |-> at[i], len |-> blocks[i]]

(* What the receiver is given is what was sent, block by block and in      *)
(* order, empty blocks among them: encode_data_blocks_ and                 *)
(* decode_data_blocks_ come to the same places from different sides.  The  *)
(* limits are exactly those of Addressable; a block beyond them is not     *)
(* refused, it comes out wrong.                                           *)
ReceivedAsSent == \A i \in DOMAIN got : got[i] = Put(i) <=> Addressable(i)

(* No message a constructor has let pass is taken for an invalid one or    *)
(* cut in the wrong place by the receiver, where nothing catches the       *)
(* exception (RMQServer::background_loop_): also not when the lengths      *)
(* wrap.                                                                   *)
NeverRefused == pc \notin {"garbled", "refused"}

=============================================================================
