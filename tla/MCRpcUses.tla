------------------------------ MODULE MCRpcUses ------------------------------
(***************************************************************************)
(* Three sets of clients in one run of TLC.  The variable use says which   *)
(* one a behaviour is about and never changes: two clients that make       *)
(* requests, each with a topic of its own (the constants of the            *)
(* configuration); a client of requests beside one that puts and pops,     *)
(* without automatic_resend; a client that puts and one that pops, on a    *)
(* topic the server's program puts to and pops as well.                    *)
(***************************************************************************)
EXTENDS MCRequestReply

VARIABLE use

Mixed == INSTANCE RequestReply WITH
             Calls <- MCMixed, Resend <- MCNever, PutTopics <- MCNone,
             MaxRetries <- 1, MayPrune <- FALSE

Data == INSTANCE RequestReply WITH
            Calls <- MCPutPop, Resend <- MCNever, PutTopics <- MCData,
            MaxRetries <- 1, MayPrune <- FALSE

UInit == Init /\ use \in {"requests", "mixed", "data"}

UNext ==
    \/ use = "requests" /\ Next /\ UNCHANGED use
    \/ use = "mixed" /\ Mixed!Next /\ UNCHANGED use
    \/ use = "data" /\ Data!Next /\ UNCHANGED use

USpec == UInit /\ [][UNext]_<<vars, use>>
=============================================================================
