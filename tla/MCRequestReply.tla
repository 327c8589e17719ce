---------------------------- MODULE MCRequestReply ----------------------------
(***************************************************************************)
(* Small instances of RequestReply for TLC.                                *)
(***************************************************************************)
EXTENDS RequestReply, TLC

CONSTANTS c1, c2, t1, t2

MCTwo == {c1, c2}
MCTopic == {t1}
MCTopics == {t1, t2}
MCNone == {}
MCData == {t2}
MCAlways == {TRUE}
MCNever == {FALSE}
MCBoth == BOOLEAN

\* Two clients with requests, each with a topic of its own, or sharing one.
MCOwnTopics == {<<c1, "REQUEST", t1>>, <<c2, "REQUEST", t2>>}
MCSharedTopic == {<<c1, "REQUEST", t1>>, <<c2, "REQUEST", t1>>}

\* A client of requests on t1 beside one that uses the data topic t2.
MCMixed == {<<c1, "REQUEST", t1>>, <<c2, "PUT", t2>>, <<c2, "POP", t2>>}

\* A client that puts to the data topic t2 and one that pops it.
MCPutPop == {<<c1, "PUT", t2>>, <<c2, "POP", t2>>}

MCSharedLive == MCSharedTopic \union {<<c2, "PEEK", t1>>, <<c2, "STATUS", t1>>}

\* Clocks that never show the same time.
MCEpochTwo == c1 :> 0 @@ c2 :> 100
=============================================================================
