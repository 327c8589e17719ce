------------------------------- MODULE Rpc -------------------------------
(***************************************************************************)
(* What request_with_data promises for one call, seen from outside: it     *)
(* runs in the server's program at most once, and if it returns, it does   *)
(* so after its run and with the answer of that run.  It may fail at any   *)
(* time, before the run, after it, or with the run still to come.          *)
(***************************************************************************)
EXTENDS Naturals

VARIABLES
    status,         \* "new", "called", "returned" or "failed"
    runs            \* how many times the server's program was given the call

RpcInit ==
    /\ status = "new"
    /\ runs = 0

Begin ==
    /\ status = "new"
    /\ status' = "called"
    /\ UNCHANGED runs

Execute ==
    /\ status # "new"
    /\ runs = 0
    /\ runs' = 1
    /\ UNCHANGED status

Return ==
    /\ status = "called"
    /\ runs = 1
    /\ status' = "returned"
    /\ UNCHANGED runs

Fail ==
    /\ status = "called"
    /\ status' = "failed"
    /\ UNCHANGED runs

RpcNext == Begin \/ Execute \/ Return \/ Fail

RpcSpec == RpcInit /\ [][RpcNext]_<<status, runs>>

=============================================================================
