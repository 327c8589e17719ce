---------------------------- MODULE MCShmRequest ----------------------------
(***************************************************************************)
(* A small instance of ShmRequest for TLC: one client with requests on a   *)
(* topic with shared memory and on one without.                            *)
(***************************************************************************)
EXTENDS ShmRequest, TLC

CONSTANTS c1, t1, t2

MCClients == {c1}
MCTopics == {t1, t2}
MCShm == {t1}
MCLocal == MCClients
MCNone == {}
MCCalls == MCClients \X {"REQUEST"} \X MCTopics
MCEpoch == c1 :> 0
=============================================================================
