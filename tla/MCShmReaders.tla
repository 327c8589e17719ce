---------------------------- MODULE MCShmReaders ----------------------------
(***************************************************************************)
(* Small instances of ShmReaders for TLC.                                  *)
(***************************************************************************)
EXTENDS ShmReaders

CONSTANTS r1

MCReaders == {r1}
MCEverybody == {"server", r1}
MCNobody == {}
MCSizes == 1 .. 2
MCAddSizes == {1, 3}
=============================================================================
