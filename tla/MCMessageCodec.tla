---------------------------- MODULE MCMessageCodec ----------------------------
(***************************************************************************)
(* A small instance of MessageCodec for TLC: words of 5 bits, so that      *)
(* blocks begin on both sides of 2^4 and messages pass 2^5.                *)
(***************************************************************************)
EXTENDS MessageCodec

MCTopicSizes == {0, 1, 3, 4}
MCBlockSizes == (0 .. 7) \union (14 .. 17) \union (30 .. 34)
=============================================================================
