------------------------------ MODULE MCDataTopic ------------------------------
(***************************************************************************)
(* Small instances of DataTopic for TLC.                                   *)
(***************************************************************************)
EXTENDS DataTopic

MCSizes == 1 .. 4           \* 3 fills the rings of 3 cells, 4 is refused
MCPopArgs == {-4, -1, 0, 1, 2, 4}

MCRegular == [shm |-> FALSE, locs |-> {"heap"}, skews |-> {0}]
MCServer == [shm |-> TRUE, locs |-> {}, skews |-> {0}]
MCRaw == [shm |-> TRUE, locs |-> {"heap"}, skews |-> {-2, 2}]
MCRequests == [shm |-> TRUE, locs |-> {"request"}, skews |-> {-2, 2}]

MCUses == {MCRegular, MCServer, MCRaw}
MCOnlyRegular == {MCRegular}
MCOnlyRaw == {MCRaw}
MCOnlyRequests == {MCRequests}
=============================================================================
