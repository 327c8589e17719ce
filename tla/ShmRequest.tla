----------------------------- MODULE ShmRequest -----------------------------
(***************************************************************************)
(* Requests on shared-memory topics: RequestReply.tla with the segment in  *)
(* which request_with_data hands its data over.                            *)
(*                                                                         *)
(* The segment has one name for each client and topic.  A call makes the   *)
(* file (or opens the one there is), gives it the length of its data,      *)
(* writes the data, sends the metadata, and removes the file when          *)
(* send_request_ returns; not when it throws.  wait_for_request reads      *)
(* what is under the name by then, byte by byte, with the length the       *)
(* metadata has and without a mutex: a later call of the client may be     *)
(* writing it.  The name means nothing on another machine, and             *)
(* clear_shared_memory may remove the file at any moment.  A client that   *)
(* does not know that a topic uses shared memory sends the data itself,    *)
(* and wait_for_request cannot parse it.                                   *)
(*                                                                         *)
(* The actions are those of RequestReply, each with what it does to the    *)
(* segments, and those of a call that writes its segment and of a          *)
(* wait_for_request that reads one.  A reply is metadata of the topic's    *)
(* ring, and whether its bytes are still there when the client reads them  *)
(* is in ShmReaders.tla.                                                   *)
(***************************************************************************)
EXTENDS RequestReply

CONSTANTS
    ShmTopics,  \* the topics added by add_shared_memory_topic
    Local       \* the clients on the machine of the server

ASSUME ShmRequestAssumption == ShmTopics \subseteq Topics /\ Local \subseteq Clients

VARIABLES
    flagged,    \* the topics each client's topic_using_shared_memory_ has true
    segment,    \* the file under each name, {} if there is none: the calls
                \* whose bytes may be in it, and NoId for zeros
    writing,    \* the topic in whose segment each client is writing, if any
    seen,       \* what wait_for_request has read so far, likewise
    raw,        \* history: <<call, topic>> of the data that went in a packet
    given,      \* history: what wait_for_request returned for each request
    failed,     \* history: whether wait_for_request has thrown, or worse
    killed,     \* history: whether it read past the end of a file (SIGBUS)
    cleared     \* history: whether clear_shared_memory has removed a segment

segVars == <<flagged, segment, writing, raw>>
shmHist == <<given, failed, killed, cleared>>
allVars == <<vars, segVars, seen, shmHist>>

SInit ==
    /\ Init
    /\ flagged = [c \in Clients |-> {}]
    /\ segment = [c \in Clients |-> [t \in Topics |-> {}]]
    /\ writing = [c \in Clients |-> {}]
    /\ seen = {}
    /\ raw = {}
    /\ given = [id \in Ids |-> <<>>]
    /\ failed = FALSE
    /\ killed = FALSE
    /\ cleared = FALSE

-----------------------------------------------------------------------------
(* Clients *)

\* The call a client is in, or the one it is about to make.
Present(c) == IF cpc[c] = "idle" THEN <<c, calls[c] + 1>> ELSE CallId(c)

\* request_with_data with data for a segment: a call on a topic that is
\* flagged, or one whose status says that the topic uses shared memory.
Writes(c, t) ==
    \/ /\ cpc[c] = "idle"
       /\ calls[c] < MaxCalls
       /\ <<c, "REQUEST", t>> \in Calls
       /\ t \in flagged[c]
    \/ /\ cpc[c] = "status"
       /\ call[c].cmd = "REQUEST"
       /\ t = call[c].topic
       /\ t \in ShmTopics
       /\ \E r \in inbox[c] : r.cmd = "STATUS"

\* shm_open, ftruncate and memcpy are under way: there is a file, and every
\* byte of it is what it was, a zero, or one of the new data.
OpenSegment(c, t) ==
    /\ writing[c] = {}
    /\ Writes(c, t)
    /\ writing' = [writing EXCEPT ![c] = {t}]
    /\ segment' = [segment EXCEPT ![c][t] = @ \union {NoId, Present(c)}]
    /\ UNCHANGED <<vars, flagged, raw, seen, shmHist>>

\* The metadata is sent before the data is in the file.
SendData_Wrong(c) ==
    LET t == call'[c].topic
        sends == call'[c].cmd = "REQUEST" /\ cpc'[c] = "send"
    IN  /\ writing[c] = IF sends /\ t \in flagged'[c] THEN {t} ELSE {}
        /\ writing' = [writing EXCEPT ![c] = {}]
        /\ segment' = segment
        /\ raw' = IF sends /\ t \notin flagged'[c]
                    THEN raw \union {<<<<c, calls'[c]>>, t>>} ELSE raw

\* The send of the present call's request, if that is what the step sends.
\* The file is written by then, unless it was removed meanwhile.
SendData(c) ==
    LET t == call'[c].topic
        sends == call'[c].cmd = "REQUEST" /\ cpc'[c] = "send"
    IN  /\ writing[c] = IF sends /\ t \in flagged'[c] THEN {t} ELSE {}
        /\ writing' = [writing EXCEPT ![c] = {}]
        /\ segment' = IF sends /\ t \in flagged'[c] /\ segment[c][t] # {}
                        THEN [segment EXCEPT ![c][t] = {<<c, calls'[c]>>}] ELSE segment
        /\ raw' = IF sends /\ t \notin flagged'[c]
                    THEN raw \union {<<<<c, calls'[c]>>, t>>} ELSE raw

SCall(c, cmd, t, resend) ==
    /\ Call(c, cmd, t, resend)
    /\ UNCHANGED flagged
    /\ SendData(c)
    /\ UNCHANGED <<seen, shmHist>>

\* Only the status of a topic there is has the flag.
LearnFlag(c, r) ==
    flagged' = IF r.cmd = "STATUS" /\ call[c].topic \in ShmTopics
                 THEN [flagged EXCEPT ![c] = @ \union {call[c].topic}] ELSE flagged

SStatusReply(c) ==
    /\ StatusReply(c)
    /\ \E r \in inbox[c] : LearnFlag(c, r)
    /\ SendData(c)
    /\ UNCHANGED <<seen, shmHist>>

SStatusTimeout(c) ==
    /\ StatusTimeout(c)
    /\ UNCHANGED flagged
    /\ SendData(c)
    /\ UNCHANGED <<seen, shmHist>>

\* The file is left behind.
RemoveSegment_Wrong(c) == UNCHANGED segment

\* shm_unlink, if the call made a segment.
RemoveSegment(c) ==
    segment' = IF call[c].cmd = "REQUEST" /\ call[c].topic \in flagged[c]
                 THEN [segment EXCEPT ![c][call[c].topic] = {}] ELSE segment

\* An error, or the answer to something else, is an exception in
\* send_request_; the number of entries is looked at after the shm_unlink.
SCallReply(c) ==
    /\ CallReply(c)
    /\ \E r \in inbox[c] :
         IF r.cmd = call[c].cmd /\ r.topic = call[c].topic
           THEN RemoveSegment(c) ELSE UNCHANGED segment
    /\ UNCHANGED <<flagged, writing, raw, seen, shmHist>>

\* An exception of send_request_ removes the file.
SCallTimeout_Wrong(c) ==
    /\ CallTimeout(c)
    /\ IF cpc'[c] = "idle" THEN RemoveSegment(c) ELSE UNCHANGED segment
    /\ UNCHANGED <<flagged, writing, raw, seen, shmHist>>

\* A resend sends the same metadata again; an exception leaves the file.
SCallTimeout(c) ==
    /\ CallTimeout(c)
    /\ UNCHANGED <<segVars, seen, shmHist>>

\* A poll ends.
SPoll(c) == SStatusReply(c) \/ SStatusTimeout(c) \/ SCallReply(c) \/ SCallTimeout(c)

\* clear_shared_memory of some process of the client's machine.
ClearSegment(c, t) ==
    /\ segment[c][t] # {}
    /\ segment' = [segment EXCEPT ![c][t] = {}]
    /\ cleared' = TRUE
    /\ UNCHANGED <<vars, flagged, writing, raw, seen, given, failed, killed>>

-----------------------------------------------------------------------------
(* The server's program *)

\* pop_data_ptrs parses every entry of a shared-memory topic.
Unparsable(t) ==
    {k \in DOMAIN queue[t] : \/ queue[t][k].by = "PUT"
                             \/ <<queue[t][k].of, t>> \in raw}

\* The file the metadata of a request names, on the server's machine.
DataOf(id, t) == IF id[1] \in Local THEN segment[id[1]][t] ELSE {}

\* The first entry is a request whose data is in a segment.
InSegment(t) ==
    /\ queue[t] # <<>>
    /\ Head(queue[t]).by = "REQUEST"
    /\ <<Head(queue[t]).of, t>> \notin raw

\* What the program is given for the first entry when seen was read: the data
\* of a raw request, or on a regular topic, came with the packet.
DataGiven(t) == IF InSegment(t) THEN seen ELSE {Head(queue[t]).of}

\* get_shm_data reads some bytes, of the length in the metadata: all of them
\* are the request's if the file is, else some may be past the end of the
\* data there is.  A file made anew in the middle counts as the one it has
\* mapped.  (The pop came before; the background thread waits, so nothing
\* tells when.)
ReadSegment ==
    /\ upc = "idle"
    /\ \E t \in newRequest \intersect ShmTopics :
         /\ Unparsable(t) = {}
         /\ InSegment(t)
         /\ LET id == Head(queue[t]).of
                file == DataOf(id, t)
            IN  /\ file # {}
                /\ \E bytes \in SUBSET (IF file = {id} THEN file ELSE file \union {NoId}) :
                     seen' = seen \union bytes
    /\ seen' # seen
    /\ UNCHANGED <<vars, segVars, shmHist>>

\* The file has become shorter than the metadata says, by more than the rest
\* of a page: the process dies of a SIGBUS.
WaitFaults ==
    /\ upc = "idle"
    /\ \E t \in newRequest \intersect ShmTopics :
         /\ Unparsable(t) = {}
         /\ InSegment(t)
         /\ DataOf(Head(queue[t]).of, t) \notin {{}, {Head(queue[t]).of}}
    /\ failed' = TRUE
    /\ killed' = TRUE
    /\ newRequest' = {}
    /\ seen' = {}
    /\ bpc' = "stopped"
    /\ upc' = "gone"
    /\ UNCHANGED <<netVars, clientVars, topicVars, dedupVars, replyTopic, running, msg,
                   serving, puts, resets, hist, segVars, given, cleared>>

\* wait_for_request returns.
SWaitForRequest ==
    /\ \E t \in newRequest :
         /\ t \in ShmTopics => Unparsable(t) = {}
         /\ InSegment(t) => seen # {}
         /\ given' = IF queue[t] # <<>> /\ Head(queue[t]).by = "REQUEST"
                       THEN [given EXCEPT ![Head(queue[t]).of] = Append(@, DataGiven(t))]
                       ELSE given
    /\ WaitForRequest
    /\ seen' = {}
    /\ UNCHANGED <<segVars, failed, killed, cleared>>

\* What an exception of wait_for_request leaves in the topic: the pop stops at
\* the first entry that does not parse, or is over when there is no file.
LeftByThrow(t) ==
    LET bad == Unparsable(t)
    IN  IF bad = {}
          THEN IF InSegment(t) /\ DataOf(Head(queue[t]).of, t) = {} THEN {<<>>} ELSE {}
          ELSE {SubSeq(queue[t], k, Len(queue[t])) : k \in {k \in bad : \A j \in bad : k <= j}}

\* The announcement is gone when it throws.
WaitThrows ==
    /\ upc = "idle"
    /\ seen = {}
    /\ \E t \in newRequest \intersect ShmTopics :
         \E q \in LeftByThrow(t) : queue' = [queue EXCEPT ![t] = q]
    /\ newRequest' = {}
    /\ failed' = TRUE
    /\ UNCHANGED <<netVars, clientVars, topics, dedupVars, replyTopic, running, bgVars,
                   userVars, hist, segVars, seen, given, killed, cleared>>

\* The reply is larger than the ring: put_data ignores it.
ReplyIgnored ==
    /\ upc = "reply"
    /\ \E s \in serving : s.topic \in ShmTopics
    /\ upc' = "flag"
    /\ UNCHANGED <<netVars, clientVars, topicVars, dedupVars, newRequest, replyTopic, running,
                   bgVars, serving, puts, resets, hist, segVars, seen, shmHist>>

SServeRequests ==
    \/ ReadSegment
    \/ SWaitForRequest
    \/ WaitThrows
    \/ WaitFaults
    \/ (ReplyPut \/ ReplyFlag) /\ UNCHANGED <<segVars, seen, shmHist>>
    \/ ReplyIgnored

SBgStep == BgStep /\ UNCHANGED <<segVars, seen, shmHist>>

-----------------------------------------------------------------------------
SNext ==
    \/ \E c \in Clients :
         \/ \E i \in DOMAIN wire[c] : Lose(c, i) /\ UNCHANGED <<segVars, seen, shmHist>>
         \/ \E t \in Topics : OpenSegment(c, t) \/ ClearSegment(c, t)
         \/ \E cmd \in Cmds, t \in Topics, resend \in Resend :
              <<c, cmd, t>> \in Calls /\ SCall(c, cmd, t, resend)
         \/ SPoll(c)
    \/ SBgStep
    \/ SServeRequests
    \/ /\ seen = {}
       /\ \/ \E t \in Topics : AddTopic(t)
          \/ ResetStartTime
          \/ Shutdown
       /\ UNCHANGED <<segVars, seen, shmHist>>

SSpec == SInit /\ [][SNext]_allVars

(* As in RequestReply: the background thread runs, and the program keeps   *)
(* calling wait_for_request, also after an exception, and answers.  Of the *)
(* clients nothing is assumed.                                             *)
SFairSpec ==
    /\ SSpec
    /\ WF_allVars(SBgStep)
    /\ WF_allVars(SServeRequests)

-----------------------------------------------------------------------------
STypeOK ==
    /\ flagged \in [Clients -> SUBSET ShmTopics]
    /\ segment \in [Clients -> [Topics -> SUBSET (Ids \union {NoId})]]
    /\ writing \in [Clients -> SUBSET ShmTopics]
    /\ \A c \in Clients : \A x, y \in writing[c] : x = y
    /\ seen \subseteq Ids \union {NoId}
    /\ raw \subseteq Ids \X Topics
    /\ given \in [Ids -> Seq(SUBSET (Ids \union {NoId}))]
    /\ {failed, killed, cleared} \subseteq BOOLEAN
    \* one call's data under a name that nobody is writing
    /\ \A c \in Clients, t \in Topics :
         t \notin writing[c] => \A x, y \in segment[c][t] : x = y

Threw(id) == id[2] \in Ended(id[1]) /\ results[id[1]][id[2]].how = "threw"
ReturnedCall(id) == Returned(id[1], id[2]) /\ results[id[1]][id[2]].cmd = "REQUEST"

(* For a request the program is given the data of that request, all of it  *)
(* and nothing else, unless its call has already ended by an exception:    *)
(* then there may be bytes of later calls of the same client in it, and    *)
(* zeros past the end of theirs, but nothing of an earlier call or of      *)
(* another client.                                                         *)
GivenOwn ==
    \A id \in Ids : \A i \in DOMAIN given[id] :
        given[id][i] # {id} =>
            Threw(id) /\ \A x \in given[id][i] \ {NoId} : x[1] = id[1] /\ x[2] >= id[2]

(* A request_with_data that returns was run once, with the data it was     *)
(* called with, whatever happened to the client's calls before it, as long *)
(* as the server's clock is not reset.                                     *)
ReturnsOwnRun ==
    resets = 0 => \A id \in Ids : ReturnedCall(id) => given[id] = <<{id}>>

\* The client of a call that threw has begun another one.
Superseded(id) == Threw(id) /\ (calls[id[1]] > id[2] \/ writing[id[1]] # {})

(* However late a request is handled, and even if its call is long over,   *)
(* wait_for_request finds a file under the name in it, unless              *)
(* clear_shared_memory was used, a client sent data in a packet to a       *)
(* shared-memory topic, or a client of another machine knows of one; and   *)
(* the server dies of a file that is too short only when a call threw and  *)
(* its client went on with another.                                        *)
FileThere ==
    /\ failed /\ ~killed =>
         \/ cleared
         \/ \E x \in raw : x[2] \in ShmTopics
         \/ \E c \in Clients \ Local : flagged[c] # {}
    /\ killed => \E id \in Ids : Superseded(id)

(* A segment is there only while its call is going on, or after one that   *)
(* threw: no call that returns leaves a file in /dev/shm.                  *)
NoSegmentLeft ==
    \A c \in Clients, t \in Topics : \A id \in segment[c][t] :
        \/ writing[c] = {t} /\ id \in {NoId, Present(c)}
        \/ cpc[c] = "send" /\ id = CallId(c)
        \/ Threw(id)

(* The background thread comes back to its poll, unless wait_for_request   *)
(* has thrown: then the reply it waits for is never made.                  *)
SThreadReturns == bpc # "poll" ~> bpc \in {"poll", "stopped"} \/ failed

=============================================================================
