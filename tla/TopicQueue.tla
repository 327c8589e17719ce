------------------------------ MODULE TopicQueue ------------------------------
(***************************************************************************)
(* What a topic promises, without its memory management: a queue of        *)
(* message contents.  Messages are numbered in the order they are put; a   *)
(* message enters at the back, messages leave only from the front, and a   *)
(* content never changes while it is queued.  A put may push out any       *)
(* number of the oldest messages, itself last of all.                      *)
(***************************************************************************)
EXTENDS Integers, Sequences

VARIABLES
    queue,      \* contents, oldest first; the content of message m is {m}
    nextMsg     \* the number of the next message

qvars == <<queue, nextMsg>>

QInit == queue = <<>> /\ nextMsg = 1

\* q without its k oldest messages.
Without(q, k) == SubSeq(q, k + 1, Len(q))

Put ==
    /\ nextMsg' = nextMsg + 1
    /\ \E k \in 0 .. Len(queue) + 1 : queue' = Without(Append(queue, {nextMsg}), k)

Drop ==
    /\ \E k \in 1 .. Len(queue) : queue' = Without(queue, k)
    /\ UNCHANGED nextMsg

QNext == Put \/ Drop

QSpec == QInit /\ [][QNext]_qvars

=============================================================================
