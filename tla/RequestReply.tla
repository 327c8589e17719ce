---------------------------- MODULE RequestReply ----------------------------
(***************************************************************************)
(* A robotmq server and its clients: rmq_server.cpp and rmq_client.cpp.    *)
(*                                                                         *)
(* Three kinds of threads.  A client calls one method at a time; the       *)
(* method sends a packet, polls for the answer, and on a timeout closes    *)
(* its socket, opens another and may send the packet again.  The server's  *)
(* background thread takes one packet at a time; for a request it hands    *)
(* the topic over to the program and waits for the program's reply.  The   *)
(* program (the Python thread of the server: the GIL makes it one thread)  *)
(* loops over wait_for_request and reply_request, and puts and pops data   *)
(* of its own.                                                             *)
(*                                                                         *)
(* A topic is the queue DataTopic.tla is shown to be, and a pop takes all  *)
(* of it, whatever n (PopTakesAll in DataTopic_proofs.tla); entries grow   *)
(* older than the retention at any moment (Prune).  Topics are regular:    *)
(* with shared memory the entries would be metadata.                       *)
(*                                                                         *)
(* ZeroMQ is modelled by how the code uses it: REQ and REP sockets         *)
(* alternate, one packet may be lost, packets of a closed connection may   *)
(* still arrive, answers to a closed connection are dropped.               *)
(*                                                                         *)
(* A variable the code keeps as an optional value (an empty string, a      *)
(* missing key) is a set of at most one element.                           *)
(*                                                                         *)
(* A definition whose name ends in _Wrong is a deliberately wrong variant  *)
(* of the one that follows it, unused here (see DataTopic.tla).            *)
(***************************************************************************)
EXTENDS Integers, Sequences, SequencesExt

CONSTANTS
    Clients,        \* the clients, each with a process and a clock of its own
    Topics,         \* the topics that may ever be added
    Calls,          \* <<client, command, topic>>: what the clients call
    Resend,         \* values of automatic_resend
    Epoch,          \* each client's clock at its first call
    PutTopics,      \* topics the server's program puts and pops itself
    MaxRetries,     \* MAX_RETRIES_
    InOrder,        \* whether a client's packets arrive in the order sent
    MaxCalls,       \* bound on the calls of each client
    MaxPuts,        \* bound on the program's own puts
    MaxResets,      \* bound on the calls of reset_start_time
    MayPrune        \* whether entries grow old enough to be pruned

Cmds == {"PEEK", "POP", "PUT", "REQUEST", "STATUS"}

ASSUME RequestReplyAssumption ==
    /\ "server" \notin Clients
    /\ Topics # {}
    /\ Calls \subseteq Clients \X Cmds \X Topics
    /\ Resend \subseteq BOOLEAN
    /\ Epoch \in [Clients -> Int]
    /\ PutTopics \subseteq Topics
    /\ MaxRetries \in Nat
    /\ InOrder \in BOOLEAN
    /\ MayPrune \in BOOLEAN
    /\ MaxCalls \in Nat
    /\ MaxPuts \in Nat
    /\ MaxResets \in Nat

VARIABLES
    \* ZeroMQ, for each client
    wire,           \* packets on their way to the server, in the order sent
    conn,           \* number of its present connection
    inbox,          \* the answer that arrived on that connection, if any
    \* the clients
    cpc,            \* "idle", or in the poll of get_topic_status or of send_request_
    call,           \* the call it is in, or the last one
    calls,          \* number of calls it has made
    known,          \* topics with an entry in topic_using_shared_memory_
    retries,        \* retries_
    results,        \* history: how each call ended
    \* the server
    topics,         \* keys of data_topics_
    queue,          \* entries of each topic
    lastTs,         \* last_request_timestamp_
    cached,         \* cached_reply_data_
    newRequest,     \* get_new_request_
    replyTopic,     \* reply_topic_
    running,        \* running_
    bpc,            \* where the background thread is
    msg,            \* the packet it has taken
    \* the server's program
    upc,            \* "idle", inside the handling of a request, or "gone"
    serving,        \* what wait_for_request returned
    puts,           \* number of its own puts
    resets,         \* number of its calls of reset_start_time
    done,           \* history: how many times each put was stored, and each
                    \* request handed to the program
    taken           \* history: the entries each pop of a client removed

netVars == <<wire, conn, inbox>>
clientVars == <<cpc, call, calls, known, retries, results>>
topicVars == <<topics, queue>>
dedupVars == <<lastTs, cached>>
bgVars == <<bpc, msg>>
userVars == <<upc, serving, puts, resets>>
hist == <<done, taken>>
vars == <<netVars, clientVars, topicVars, dedupVars, newRequest, replyTopic, running,
          bgVars, userVars, hist>>

-----------------------------------------------------------------------------
\* A call is named by its client and its number among that client's calls.
Ids == Clients \X (1 .. MaxCalls)
NoId == <<"server", 0>>
EntryIds == Ids \union ({"server"} \X (0 .. MaxPuts))

\* An entry of a topic: what brought it and for which call (or which put).
Entry == [by : {"PUT", "REQUEST", "reply", "server"}, of : EntryIds]
Packet == [id : Ids, cmd : Cmds, topic : Topics, conn : Nat]
\* "ABSENT" is the answer of GET_TOPIC_STATUS that says -1 and nothing else.
Answer == [cmd : Cmds \union {"ERROR", "ABSENT"}, topic : Topics, ptrs : Seq(Entry)]

\* get_timestamp() of the client when it made the message.
Stamp(p) == Epoch[p.id[1]] + p.id[2]

CallId(c) == <<c, calls[c]>>

Took(id) == done' = [done EXCEPT ![id] = @ + 1]

\* add_data_ptr: the entry is kept, a prefix of older ones may be pruned.
Pushed(q, e) ==
    {SubSeq(Append(q, e), k, Len(q) + 1) : k \in IF MayPrune THEN 1 .. Len(q) + 1 ELSE {1}}

NoCall == [cmd |-> "STATUS", topic |-> CHOOSE t \in Topics : TRUE, resend |-> FALSE]

-----------------------------------------------------------------------------
Init ==
    /\ wire = [c \in Clients |-> <<>>]
    /\ conn = [c \in Clients |-> 0]
    /\ inbox = [c \in Clients |-> {}]
    /\ cpc = [c \in Clients |-> "idle"]
    /\ call = [c \in Clients |-> NoCall]
    /\ calls = [c \in Clients |-> 0]
    /\ known = [c \in Clients |-> {}]
    /\ retries = [c \in Clients |-> 0]
    /\ results = [c \in Clients |-> <<>>]
    /\ topics = {}
    /\ queue = [t \in Topics |-> <<>>]
    /\ lastTs = [t \in Topics |-> {}]
    /\ cached = [t \in Topics |-> {}]
    /\ newRequest = {}
    /\ replyTopic = {}
    /\ running = TRUE
    /\ bpc = "poll"
    /\ msg = {}
    /\ upc = "idle"
    /\ serving = {}
    /\ puts = 0
    /\ resets = 0
    /\ done = [i \in Ids |-> 0]
    /\ taken = [i \in Ids |-> <<>>]

-----------------------------------------------------------------------------
(* ZeroMQ *)

\* A packet of c's present call goes out on its k-th connection.
Send(c, k, cmd, t) ==
    wire' = [wire EXCEPT ![c] = Append(@, [id |-> <<c, calls'[c]>>, cmd |-> cmd,
                                            topic |-> t, conn |-> k])]

\* The socket is closed and another one connected: what comes back to the
\* old one is lost.
Reconnect(c) ==
    /\ conn' = [conn EXCEPT ![c] = @ + 1]
    /\ inbox' = [inbox EXCEPT ![c] = {}]

Lose(c, i) ==
    /\ wire' = [wire EXCEPT ![c] = RemoveAt(@, i)]
    /\ UNCHANGED <<conn, inbox, clientVars, topicVars, dedupVars, newRequest, replyTopic,
                   running, bgVars, userVars, hist>>

\* An answer to a closed connection reaches the one that replaced it.
SendAnswer_Wrong(p, answer) ==
    /\ inbox' = [inbox EXCEPT ![p.id[1]] = @ \union {answer}]
    /\ UNCHANGED conn

\* socket_.send of the background thread: it goes to the sender of msg.
SendAnswer(p, answer) ==
    /\ inbox' = IF p.conn = conn[p.id[1]]
                  THEN [inbox EXCEPT ![p.id[1]] = {answer}] ELSE inbox
    /\ UNCHANGED conn

-----------------------------------------------------------------------------
(* Clients *)

\* A public method, as far as its first poll.  request_with_data asks first
\* for the status of a topic it has no entry for.
Call(c, cmd, t, resend) ==
    /\ cpc[c] = "idle"
    /\ calls[c] < MaxCalls
    /\ calls' = [calls EXCEPT ![c] = @ + 1]
    /\ call' = [call EXCEPT ![c] = [cmd |-> cmd, topic |-> t, resend |-> resend]]
    /\ LET first == IF cmd = "REQUEST" /\ t \notin known[c] THEN "STATUS" ELSE cmd
       IN  /\ cpc' = [cpc EXCEPT ![c] = IF first = "STATUS" THEN "status" ELSE "send"]
           /\ Send(c, conn[c], first, t)
    /\ UNCHANGED <<conn, inbox, known, retries, results, topicVars, dedupVars, newRequest,
                   replyTopic, running, bgVars, userVars, hist>>

\* The call returns, or throws.
Finish(c, how, ptrs) ==
    /\ cpc' = [cpc EXCEPT ![c] = "idle"]
    /\ results' = [results EXCEPT ![c] = Append(@, [cmd |-> call[c].cmd, how |-> how,
                                                     ptrs |-> ptrs])]

\* get_topic_status is over; it told whether the topic uses shared memory if
\* there is one.  Inside request_with_data, reading
\* topic_using_shared_memory_[topic] makes an entry whatever the status was.
AfterStatus(c, k, exists) ==
    /\ known' = IF exists \/ call[c].cmd = "REQUEST"
                  THEN [known EXCEPT ![c] = @ \union {call[c].topic}] ELSE known
    /\ IF call[c].cmd = "STATUS"
         THEN Finish(c, "returned", <<>>) /\ UNCHANGED wire
         ELSE /\ cpc' = [cpc EXCEPT ![c] = "send"]
              /\ Send(c, k, "REQUEST", call[c].topic)
              /\ UNCHANGED results

StatusReply(c) ==
    /\ cpc[c] = "status"
    /\ UNCHANGED <<conn, calls>>
    /\ \E r \in inbox[c] : AfterStatus(c, conn[c], r.cmd = "STATUS")
    /\ inbox' = [inbox EXCEPT ![c] = {}]
    /\ UNCHANGED <<call, retries, topicVars, dedupVars, newRequest, replyTopic,
                   running, bgVars, userVars, hist>>

\* timeout_s >= 0: a negative one runs off the end of the function.
StatusTimeout(c) ==
    /\ cpc[c] = "status"
    /\ Reconnect(c)
    /\ UNCHANGED calls
    /\ retries' = [retries EXCEPT ![c] = @ + 1]
    /\ IF retries'[c] > MaxRetries
         THEN Finish(c, "threw", <<>>) /\ UNCHANGED <<wire, known>>
         ELSE AfterStatus(c, conn[c] + 1, FALSE)
    /\ UNCHANGED <<call, topicVars, dedupVars, newRequest, replyTopic, running,
                   bgVars, userVars, hist>>

\* The number of entries in the answer to a request is not looked at.
CallReply_Wrong(c) ==
    /\ cpc[c] = "send"
    /\ \E r \in inbox[c] :
         LET good == r.cmd = call[c].cmd /\ r.topic = call[c].topic
         IN  Finish(c, IF good THEN "returned" ELSE "threw", IF good THEN r.ptrs ELSE <<>>)
    /\ inbox' = [inbox EXCEPT ![c] = {}]
    /\ UNCHANGED <<wire, conn, call, calls, known, retries, topicVars, dedupVars, newRequest,
                   replyTopic, running, bgVars, userVars, hist>>

\* send_request_ and the method around it, when poll finds an answer.
CallReply(c) ==
    /\ cpc[c] = "send"
    /\ \E r \in inbox[c] :
         LET good == /\ r.cmd = call[c].cmd
                     /\ r.topic = call[c].topic
                     /\ r.cmd = "REQUEST" => Len(r.ptrs) = 1
         IN  Finish(c, IF good THEN "returned" ELSE "threw", IF good THEN r.ptrs ELSE <<>>)
    /\ inbox' = [inbox EXCEPT ![c] = {}]
    /\ UNCHANGED <<wire, conn, call, calls, known, retries, topicVars, dedupVars, newRequest,
                   replyTopic, running, bgVars, userVars, hist>>

\* Without automatic_resend the timeout is not noticed.
CallTimeout_Wrong(c) ==
    /\ cpc[c] = "send"
    /\ call[c].resend
    /\ Reconnect(c)
    /\ UNCHANGED calls
    /\ IF retries[c] <= MaxRetries
         THEN /\ retries' = [retries EXCEPT ![c] = @ + 1]
              /\ Send(c, conn[c] + 1, call[c].cmd, call[c].topic)
              /\ UNCHANGED <<cpc, results>>
         ELSE Finish(c, "threw", <<>>) /\ UNCHANGED <<wire, retries>>
    /\ UNCHANGED <<call, known, topicVars, dedupVars, newRequest, replyTopic,
                   running, bgVars, userVars, hist>>

\* automatic_resend is not looked at.
CallTimeoutResend_Wrong(c) ==
    /\ cpc[c] = "send"
    /\ Reconnect(c)
    /\ UNCHANGED calls
    /\ IF retries[c] <= MaxRetries
         THEN /\ retries' = [retries EXCEPT ![c] = @ + 1]
              /\ Send(c, conn[c] + 1, call[c].cmd, call[c].topic)
              /\ UNCHANGED <<cpc, results>>
         ELSE Finish(c, "threw", <<>>) /\ UNCHANGED <<wire, retries>>
    /\ UNCHANGED <<call, known, topicVars, dedupVars, newRequest, replyTopic,
                   running, bgVars, userVars, hist>>

\* send_request_, when the poll times out.
CallTimeout(c) ==
    /\ cpc[c] = "send"
    /\ Reconnect(c)
    /\ UNCHANGED calls
    /\ IF call[c].resend /\ retries[c] <= MaxRetries
         THEN /\ retries' = [retries EXCEPT ![c] = @ + 1]
              /\ Send(c, conn[c] + 1, call[c].cmd, call[c].topic)
              /\ UNCHANGED <<cpc, results>>
         ELSE Finish(c, "threw", <<>>) /\ UNCHANGED <<wire, retries>>
    /\ UNCHANGED <<call, known, topicVars, dedupVars, newRequest, replyTopic,
                   running, bgVars, userVars, hist>>

ClientStep(c) == StatusReply(c) \/ StatusTimeout(c) \/ CallReply(c) \/ CallTimeout(c)

-----------------------------------------------------------------------------
(* The server's background thread *)

\* running_ is looked at before the poll, not after it: a packet that comes
\* in the same round is still taken.
Recv(c, i) ==
    /\ bpc = "poll"
    /\ InOrder => i = 1
    /\ msg' = {wire[c][i]}
    /\ wire' = [wire EXCEPT ![c] = RemoveAt(@, i)]
    /\ bpc' = "dispatch"
    /\ UNCHANGED <<conn, inbox, clientVars, topicVars, dedupVars, newRequest, replyTopic,
                   running, userVars, hist>>

\* The error is answered as a success.
NoTopic_Wrong(p) ==
    /\ bpc = "dispatch"
    /\ p.topic \notin topics
    /\ SendAnswer(p, [cmd |-> p.cmd, topic |-> p.topic, ptrs |-> <<>>])
    /\ bpc' = "poll"
    /\ UNCHANGED <<wire, clientVars, topicVars, dedupVars, newRequest, replyTopic, running,
                   msg, userVars, hist>>

NoTopic(p) ==
    /\ bpc = "dispatch"
    /\ p.topic \notin topics
    /\ SendAnswer(p, [cmd |-> IF p.cmd = "STATUS" THEN "ABSENT" ELSE "ERROR",
                      topic |-> p.topic, ptrs |-> <<>>])
    /\ bpc' = "poll"
    /\ UNCHANGED <<wire, clientVars, topicVars, dedupVars, newRequest, replyTopic, running,
                   msg, userVars, hist>>

\* PEEK_DATA, POP_DATA, PUT_DATA and GET_TOPIC_STATUS of a topic there is.
Serve(p) ==
    /\ bpc = "dispatch"
    /\ p.topic \in topics
    /\ p.cmd # "REQUEST"
    /\ SendAnswer(p, [cmd |-> p.cmd, topic |-> p.topic,
                      ptrs |-> IF p.cmd \in {"PEEK", "POP"} THEN queue[p.topic] ELSE <<>>])
    /\ \E q \in CASE p.cmd = "POP" -> {<<>>}
                  [] p.cmd = "PUT" -> Pushed(queue[p.topic], [by |-> "PUT", of |-> p.id])
                  [] OTHER -> {queue[p.topic]} :
         queue' = [queue EXCEPT ![p.topic] = q]
    /\ IF p.cmd = "PUT" THEN Took(p.id) ELSE UNCHANGED done
    /\ taken' = IF p.cmd = "POP" THEN [taken EXCEPT ![p.id] = @ \o queue[p.topic]] ELSE taken
    /\ bpc' = "poll"
    /\ UNCHANGED <<wire, clientVars, topics, dedupVars, newRequest, replyTopic, running, msg,
                   userVars>>

\* The stamp is not looked at: whatever is cached is sent again.
Duplicate_Wrong(p) == cached[p.topic] # {}

\* The stamp was seen, and an answer to it is cached.
Duplicate(p) == Stamp(p) \in lastTs[p.topic] /\ cached[p.topic] # {}

AnswerAgain(p) ==
    /\ bpc = "dispatch"
    /\ p.topic \in topics
    /\ p.cmd = "REQUEST"
    /\ Duplicate(p)
    /\ \E r \in cached[p.topic] : SendAnswer(p, r)
    /\ bpc' = "poll"
    /\ UNCHANGED <<wire, clientVars, topicVars, dedupVars, newRequest, replyTopic, running,
                   msg, userVars, hist>>

RecordRequest(p) ==
    /\ bpc = "dispatch"
    /\ p.topic \in topics
    /\ p.cmd = "REQUEST"
    /\ ~Duplicate(p)
    /\ cached' = IF Stamp(p) \in lastTs[p.topic] THEN cached ELSE [cached EXCEPT ![p.topic] = {}]
    /\ lastTs' = [lastTs EXCEPT ![p.topic] = {Stamp(p)}]
    /\ bpc' = "enqueue"
    /\ UNCHANGED <<netVars, clientVars, topicVars, newRequest, replyTopic, running, msg,
                   userVars, hist>>

EnqueueRequest(p) ==
    /\ bpc = "enqueue"
    /\ \E q \in Pushed(queue[p.topic], [by |-> "REQUEST", of |-> p.id]) :
         queue' = [queue EXCEPT ![p.topic] = q]
    /\ bpc' = "announce"
    /\ UNCHANGED <<netVars, clientVars, topics, dedupVars, newRequest, replyTopic, running,
                   msg, userVars, hist>>

\* From here the thread polls reply_topic_.
Announce(p) ==
    /\ bpc = "announce"
    /\ newRequest' = {p.topic}
    /\ bpc' = "await"
    /\ UNCHANGED <<netVars, clientVars, topicVars, dedupVars, replyTopic, running, msg,
                   userVars, hist>>

\* The reply is sent and forgotten.
SendReply_Wrong(p) ==
    /\ bpc = "await"
    /\ running
    /\ replyTopic # {}
    /\ replyTopic' = {}
    /\ queue' = [queue EXCEPT ![p.topic] = <<>>]
    /\ SendAnswer(p, [cmd |-> "REQUEST", topic |-> p.topic, ptrs |-> queue[p.topic]])
    /\ bpc' = "poll"
    /\ UNCHANGED <<wire, clientVars, topics, dedupVars, newRequest, running, msg, userVars, hist>>

\* The assert that reply_topic_ is the topic of the request is not in a
\* release build: see Handshake.
SendReply(p) ==
    /\ bpc = "await"
    /\ running
    /\ replyTopic # {}
    /\ replyTopic' = {}
    /\ queue' = [queue EXCEPT ![p.topic] = <<>>]
    /\ LET r == [cmd |-> "REQUEST", topic |-> p.topic, ptrs |-> queue[p.topic]]
       IN  /\ cached' = [cached EXCEPT ![p.topic] = {r}]
           /\ SendAnswer(p, r)
    /\ bpc' = "poll"
    /\ UNCHANGED <<wire, clientVars, topics, lastTs, newRequest, running, msg, userVars, hist>>

\* ~RMQServer has cleared running_.
BgStop ==
    /\ ~running
    /\ bpc \in {"poll", "await"}
    /\ bpc' = "stopped"
    /\ UNCHANGED <<netVars, clientVars, topicVars, dedupVars, newRequest, replyTopic, running,
                   msg, userVars, hist>>

BgStep ==
    \/ \E c \in Clients : \E i \in DOMAIN wire[c] : Recv(c, i)
    \/ \E p \in msg : \/ NoTopic(p)
                      \/ Serve(p)
                      \/ AnswerAgain(p)
                      \/ RecordRequest(p)
                      \/ EnqueueRequest(p)
                      \/ Announce(p)
                      \/ SendReply(p)
    \/ BgStop

-----------------------------------------------------------------------------
(* The server's program *)

\* A topic that exists already is left alone.
AddTopic(t) ==
    /\ upc = "idle"
    /\ t \notin topics
    /\ topics' = topics \union {t}
    /\ UNCHANGED <<netVars, clientVars, queue, dedupVars, newRequest, replyTopic, running,
                   bgVars, userVars, hist>>

\* put_data of the program's own.  Without the topic it does nothing.
PutData(t) ==
    /\ upc = "idle"
    /\ t \in topics
    /\ puts < MaxPuts
    /\ puts' = puts + 1
    /\ \E q \in Pushed(queue[t], [by |-> "server", of |-> <<"server", puts'>>]) :
         queue' = [queue EXCEPT ![t] = q]
    /\ UNCHANGED <<netVars, clientVars, topics, dedupVars, newRequest, replyTopic, running,
                   bgVars, upc, serving, resets, hist>>

PopData(t) ==
    /\ upc = "idle"
    /\ queue[t] # <<>>
    /\ queue' = [queue EXCEPT ![t] = <<>>]
    /\ UNCHANGED <<netVars, clientVars, topics, dedupVars, newRequest, replyTopic, running,
                   bgVars, userVars, hist>>

\* The announcement is not taken down.
WaitForRequest_Wrong ==
    /\ upc = "idle"
    /\ \E t \in newRequest :
         LET of == IF queue[t] = <<>> THEN NoId ELSE Head(queue[t]).of
         IN  /\ serving' = {[topic |-> t, of |-> of]}
             /\ queue' = [queue EXCEPT ![t] = <<>>]
             /\ IF queue[t] # <<>> /\ Head(queue[t]).by = "REQUEST"
                  THEN Took(of) ELSE UNCHANGED done
    /\ upc' = "reply"
    /\ UNCHANGED <<netVars, clientVars, topics, dedupVars, newRequest, replyTopic, running,
                   bgVars, puts, resets, taken>>

\* wait_for_request finds an announcement: it pops the topic and returns the
\* first entry, or empty bytes.  (Without one it polls on, or times out.)
WaitForRequest ==
    /\ upc = "idle"
    /\ \E t \in newRequest :
         LET of == IF queue[t] = <<>> THEN NoId ELSE Head(queue[t]).of
         IN  /\ serving' = {[topic |-> t, of |-> of]}
             /\ queue' = [queue EXCEPT ![t] = <<>>]
             /\ IF queue[t] # <<>> /\ Head(queue[t]).by = "REQUEST"
                  THEN Took(of) ELSE UNCHANGED done
    /\ newRequest' = {}
    /\ upc' = "reply"
    /\ UNCHANGED <<netVars, clientVars, topics, dedupVars, replyTopic, running, bgVars, puts,
                   resets, taken>>

\* reply_request puts the program's answer to what it was given ...
ReplyPut ==
    /\ upc = "reply"
    /\ \E s \in serving : \E q \in Pushed(queue[s.topic], [by |-> "reply", of |-> s.of]) :
         queue' = [queue EXCEPT ![s.topic] = q]
    /\ upc' = "flag"
    /\ UNCHANGED <<netVars, clientVars, topics, dedupVars, newRequest, replyTopic, running,
                   bgVars, serving, puts, resets, hist>>

\* ... and lets the background thread go on.
ReplyFlag ==
    /\ upc = "flag"
    /\ replyTopic' = {s.topic : s \in serving}
    /\ serving' = {}
    /\ upc' = "idle"
    /\ UNCHANGED <<netVars, clientVars, topicVars, dedupVars, newRequest, running, bgVars,
                   puts, resets, hist>>

\* The announcement of a request is cleared too.
ResetStartTime_Wrong ==
    /\ upc = "idle"
    /\ resets < MaxResets
    /\ resets' = resets + 1
    /\ queue' = [t \in Topics |-> <<>>]
    /\ lastTs' = [t \in Topics |-> {}]
    /\ cached' = [t \in Topics |-> {}]
    /\ newRequest' = {}
    /\ UNCHANGED <<netVars, clientVars, topics, replyTopic, running, bgVars, upc, serving,
                   puts, hist>>

ResetStartTime ==
    /\ upc = "idle"
    /\ resets < MaxResets
    /\ resets' = resets + 1
    /\ queue' = [t \in Topics |-> <<>>]
    /\ lastTs' = [t \in Topics |-> {}]
    /\ cached' = [t \in Topics |-> {}]
    /\ UNCHANGED <<netVars, clientVars, topics, newRequest, replyTopic, running, bgVars, upc,
                   serving, puts, hist>>

\* The destructor, as far as the join.
Shutdown ==
    /\ upc = "idle"
    /\ running' = FALSE
    /\ upc' = "gone"
    /\ UNCHANGED <<netVars, clientVars, topicVars, dedupVars, newRequest, replyTopic, bgVars,
                   serving, puts, resets, hist>>

ServeRequests == WaitForRequest \/ ReplyPut \/ ReplyFlag

-----------------------------------------------------------------------------
Next ==
    \/ \E c \in Clients :
         \/ \E i \in DOMAIN wire[c] : Lose(c, i)
         \/ \E cmd \in Cmds, t \in Topics, resend \in Resend :
              <<c, cmd, t>> \in Calls /\ Call(c, cmd, t, resend)
         \/ ClientStep(c)
    \/ BgStep
    \/ \E t \in Topics : AddTopic(t)
    \/ \E t \in PutTopics : PutData(t) \/ PopData(t)
    \/ ServeRequests
    \/ ResetStartTime
    \/ Shutdown

Spec == Init /\ [][Next]_vars

(* A poll of a client ends, by an answer or by its timeout; the background *)
(* thread runs; the program keeps calling wait_for_request and answers     *)
(* what it gets.                                                           *)
FairSpec ==
    /\ Spec
    /\ \A c \in Clients : WF_vars(ClientStep(c))
    /\ WF_vars(BgStep)
    /\ WF_vars(ServeRequests)

-----------------------------------------------------------------------------
IsRequest(id) ==
    LET c == id[1]  n == id[2]
    IN  IF n <= Len(results[c]) THEN results[c][n].cmd = "REQUEST"
        ELSE n = calls[c] /\ call[c].cmd = "REQUEST"

TypeOK ==
    /\ wire \in [Clients -> Seq(Packet)]
    /\ conn \in [Clients -> Nat]
    /\ inbox \in [Clients -> SUBSET Answer]
    /\ cpc \in [Clients -> {"idle", "status", "send"}]
    /\ call \in [Clients -> [cmd : Cmds, topic : Topics, resend : BOOLEAN]]
    /\ calls \in [Clients -> 0 .. MaxCalls]
    /\ known \in [Clients -> SUBSET Topics]
    /\ retries \in [Clients -> Nat]
    /\ results \in [Clients -> Seq([cmd : Cmds, how : {"returned", "threw"}, ptrs : Seq(Entry)])]
    /\ topics \subseteq Topics
    /\ queue \in [Topics -> Seq(Entry)]
    /\ lastTs \in [Topics -> SUBSET Int]
    /\ cached \in [Topics -> SUBSET Answer]
    /\ newRequest \subseteq Topics
    /\ replyTopic \subseteq Topics
    /\ running \in BOOLEAN
    /\ bpc \in {"poll", "dispatch", "enqueue", "announce", "await", "stopped"}
    /\ msg \subseteq Packet
    /\ upc \in {"idle", "reply", "flag", "gone"}
    /\ serving \subseteq [topic : Topics, of : EntryIds]
    /\ puts \in 0 .. MaxPuts
    /\ resets \in 0 .. MaxResets
    /\ done \in [Ids -> Nat]
    /\ taken \in [Ids -> Seq(Entry)]
    \* an optional value is one at most
    /\ \A S \in {newRequest, replyTopic, msg, serving} : \A x, y \in S : x = y
    /\ \A c \in Clients : \A x, y \in inbox[c] : x = y
    /\ \A t \in Topics : \A x, y \in cached[t] : x = y

Ended(c) == DOMAIN results[c]
Returned(c, n) == n \in Ended(c) /\ results[c][n].how = "returned"

(* The server's program is given every request at most once, however often *)
(* the client sent it: README.md:301, "the server recognizes the duplicate *)
(* request by its timestamp and returns the cached reply without           *)
(* re-processing".                                                         *)
AtMostOnce == \A id \in Ids : IsRequest(id) => done[id] <= 1

\* The topics of: the packet the thread has taken, the request the program
\* is handling, and everything between the two threads.
Asked == {p.topic : p \in msg}
Handled == {s.topic : s \in serving}
Handover == newRequest \union Handled \union replyTopic

(* The handover between the background thread and the program: there is    *)
(* never more than one request in it, an announcement or a reply is about  *)
(* the packet the thread waits for (the assert of rmq_server.cpp:392,      *)
(* which no release build contains), and while it waits, the announcement, *)
(* the handling or the reply exists: no wakeup is lost.                    *)
Handshake ==
    /\ newRequest # {} => Handled = {} /\ replyTopic = {}
    /\ Handled # {} => replyTopic = {}
    /\ Handover # {} => bpc \in {"await", "stopped"} /\ Handover = Asked
    /\ bpc = "await" => Handover # {}

(* Inductive with it: one packet is taken at a time, and the program is in *)
(* the handling of a request only with a request.                          *)
HInv ==
    /\ Handshake
    /\ \A p, q \in msg : p = q
    /\ upc \in {"reply", "flag"} => serving # {}
    /\ bpc \in {"dispatch", "enqueue", "announce", "await"} => msg # {}

(* What a client is sent in answer to request_with_data is one entry, the  *)
(* program's reply to that very request, whether it was just made or comes *)
(* out of the cache.  reset_start_time may take the request or the reply   *)
(* away, but never puts another one in its place.                          *)
AnswersOwn ==
    \A c \in Clients : \A r \in inbox[c] : r.cmd = "REQUEST" =>
        /\ \A i \in DOMAIN r.ptrs : r.ptrs[i].by = "reply" /\ r.ptrs[i].of \in {CallId(c), NoId}
        /\ resets = 0 => Len(r.ptrs) = 1 /\ r.ptrs[1].of = CallId(c)

(* wait_for_request gives the program a request only while the background *)
(* thread waits for the reply to it: never one that was left in its topic  *)
(* by an earlier handover, or by a reset or a shutdown in the middle.      *)
RunsAwaited ==
    [][\A id \in Ids : IsRequest(id) /\ done'[id] # done[id] =>
          bpc = "await" /\ \E p \in msg : p.id = id]_vars

(* put_data and request_with_data return only after the message was stored *)
(* or the request handled: neither an error answer, nor an answer to an    *)
(* earlier packet, nor the wait for the status can pass for the real one.  *)
ReturnMeansDone ==
    \A c \in Clients : \A n \in Ended(c) :
        Returned(c, n) /\ results[c][n].cmd \in {"PUT", "REQUEST"} => done[<<c, n>>] >= 1

(* put_data that returns has stored its message once.                      *)
PutOnce ==
    \A c \in Clients : \A n \in Ended(c) :
        Returned(c, n) /\ results[c][n].cmd = "PUT" => done[<<c, n>>] = 1

(* A pop that returns gives the caller everything it removed from the      *)
(* topic (README.md:433, "drains the queue --- useful for loggers that need  *)
(* every message").                                                        *)
PopLosesNothing ==
    \A c \in Clients : \A n \in Ended(c) :
        Returned(c, n) /\ results[c][n].cmd = "POP" => results[c][n].ptrs = taken[<<c, n>>]

(* Every call of a client returns or throws.                               *)
CallsEnd == \A c \in Clients : cpc[c] # "idle" ~> cpc[c] = "idle"

(* The background thread always comes back to its poll, where it serves    *)
(* all clients, as long as the program answers requests.                   *)
ThreadReturns == bpc # "poll" ~> bpc \in {"poll", "stopped"}

-----------------------------------------------------------------------------
StatusOf(id) ==
    LET c == id[1]  n == id[2]
    IN  CASE ~IsRequest(id) -> "new"
          [] IsRequest(id) /\ n \notin Ended(c) -> "called"
          [] IsRequest(id) /\ n \in Ended(c) ->
               IF results[c][n].how = "threw" THEN "failed"
               ELSE IF results[c][n].ptrs = <<[by |-> "reply", of |-> id]>> THEN "returned"
               ELSE "answered by another"

RunsOf(id) == IF IsRequest(id) THEN done[id] ELSE 0

Service(id) == INSTANCE Rpc WITH status <- StatusOf(id), runs <- RunsOf(id)

(* request_with_data is a remote call: at most one run of every call, and  *)
(* a return only after the run, with the answer of that run, until         *)
(* reset_start_time makes the server forget the stamps.  This is           *)
(* \A id \in Ids : Service(id)!RpcSpec, with the [] outside, up to then.   *)
IsRpc ==
    /\ \A id \in Ids : Service(id)!RpcInit
    /\ [][resets' = 0 =>
            \A id \in Ids :
               UNCHANGED <<StatusOf(id), RunsOf(id)>> \/ Service(id)!RpcNext]_vars

=============================================================================
