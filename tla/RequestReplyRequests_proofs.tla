--------------------- MODULE RequestReplyRequests_proofs ---------------------
(***************************************************************************)
(* Theorems about the requests of RequestReply: whose answer a client is   *)
(* given, when a call returns, and that a request is a remote call (Rpc),  *)
(* for every value of the constants the hypotheses allow.                  *)
(***************************************************************************)
EXTENDS RequestReplyCalls_proofs

-----------------------------------------------------------------------------
(* Requests.  The theorems are about topics that are used for requests and *)
(* nothing else, and about clients of one topic whose clocks never show    *)
(* the same time (the server tells requests apart by their time alone).    *)

RequestTopics == {x[3] : x \in {y \in Calls : y[2] = "REQUEST"}}

OwnQueue ==
    /\ RequestTopics \intersect PutTopics = {}
    /\ \A x \in Calls : x[2] = "PUT" => x[3] \notin RequestTopics

StampsDiffer ==
    \A x, y \in Calls : x[2] = "REQUEST" /\ y[2] = "REQUEST" /\ x[3] = y[3] =>
        \A n, m \in 1 .. MaxCalls : Epoch[x[1]] + n = Epoch[y[1]] + m => x[1] = y[1]

\* A server that is going away has no program any more.
LifeInv == (~running => upc = "gone") /\ (bpc = "stopped" => ~running)

\* What the program was given, or replied to, when the thread is about id.
Own(of, id) == (of = id /\ done[id] >= 1) \/ (of = NoId /\ resets > 0)

Reply(q, id) == \A i \in DOMAIN q : q[i].by = "reply" /\ Own(q[i].of, id)

Handing == bpc \in {"announce", "await"}
Waiting == bpc \in {"enqueue", "announce", "await"}

\* A topic of requests is empty, but for the request that is handed over or
\* the reply to it; reset_start_time may have taken either away.
Asking(p) ==
    bpc = "announce" \/ (bpc = "await" /\ newRequest # {}) =>
        \/ queue[p.topic] = <<[by |-> "REQUEST", of |-> p.id]>>
        \/ queue[p.topic] = <<>> /\ resets > 0
Running(p) ==
    bpc = "await" /\ upc = "reply" =>
        queue[p.topic] = <<>> /\ \A s \in serving : Own(s.of, p.id)
Replied(p) ==
    bpc = "await" /\ (upc = "flag" \/ replyTopic # {}) => Reply(queue[p.topic], p.id)

QuietTopics ==
    bpc # "stopped" =>
        \A t \in RequestTopics : queue[t] # <<>> => Handing /\ t \in Asked

QueueInv ==
    /\ QuietTopics
    /\ \A p \in msg : Asking(p) /\ Running(p) /\ Replied(p)

\* The cache of a topic has the reply to the request of the stamp beside it.
CacheAt(t) ==
    \A s \in lastTs[t], r \in cached[t] : \E id \in Ids :
        /\ <<id[1], "REQUEST", t>> \in Calls
        /\ s = Epoch[id[1]] + id[2]
        /\ Reply(r.ptrs, id)

DedupInv ==
    /\ Waiting => \A p \in msg : lastTs[p.topic] \subseteq {Stamp(p)} /\ cached[p.topic] = {}
    /\ \A t \in Topics : CacheAt(t)

InboxOwn(c) ==
    \A r \in inbox[c] :
        /\ r.cmd = "REQUEST" => Reply(r.ptrs, CallId(c))
        /\ cpc[c] = "send" /\ r.cmd = "PUT" => done[CallId(c)] >= 1

InboxInv == \A c \in Clients : InboxOwn(c)

ReqInv == LifeInv /\ QueueInv /\ DedupInv /\ InboxInv /\ (resets = 0 => ReturnMeansDone)

LEMMA ReqInit == Init => ReqInv
<1> SUFFICES ASSUME Init PROVE ReqInv
  OBVIOUS
<1>1. LifeInv /\ QueueInv /\ DedupInv /\ InboxInv
  <2>1. \A t \in RequestTopics : t \in Topics
    BY ConstantTypes DEF RequestTopics
  <2> QED  BY <2>1 DEF Init, LifeInv, QueueInv, QuietTopics, DedupInv, CacheAt, Waiting,
                       InboxInv, InboxOwn
<1>2. ReturnMeansDone
  BY DEF Init, ReturnMeansDone, Returned, Ended
<1> QED  BY <1>1, <1>2 DEF ReqInv

\* The counters only grow.
LEMMA DoneGrows ==
    ASSUME CInv, [Next]_vars
    PROVE  /\ \A id \in Ids : done[id] \in Nat /\ done'[id] \in Nat /\ done'[id] >= done[id]
           /\ resets \in Nat /\ resets' \in Nat /\ resets' >= resets
<1> USE DEF netVars, clientVars, topicVars, dedupVars, bgVars, userVars, hist
<1>1. done \in [Ids -> Nat] /\ resets \in Nat
  BY ConstantTypes DEF CInv, TInv, TypeOK
<1>2. \A id \in Ids : done'[id] \in Nat /\ done'[id] >= done[id]
  <2>1. CASE \E c \in Clients : \E i \in DOMAIN wire[c] : Lose(c, i) \/ Recv(c, i)
    BY <1>1, <2>1 DEF Lose, Recv
  <2>2. CASE \E c \in Clients, cmd \in Cmds, t \in Topics, resend \in Resend :
               <<c, cmd, t>> \in Calls /\ Call(c, cmd, t, resend)
    BY <1>1, <2>2 DEF Call
  <2>3. CASE \E c \in Clients : ClientStep(c)
    <3>1. done' = done
      BY <2>3 DEF ClientStep, StatusReply, StatusTimeout, CallReply, CallTimeout
    <3> QED  BY <1>1, <3>1
  <2>4. CASE \E p \in msg : AnswerStep(p)
    <3>1. done' = done \/ \E id : done' = [done EXCEPT ![id] = @ + 1]
      BY <2>4 DEF AnswerStep, Took
    <3> QED  BY <1>1, <3>1
  <2>5. CASE QuietStep
    BY <1>1, <2>5 DEF QuietStep
  <2> QED  BY <2>1, <2>2, <2>3, <2>4, <2>5, StepKinds
<1>3. resets' = resets \/ resets' = resets + 1
  <2>1. CASE \E c \in Clients : \/ \E i \in DOMAIN wire[c] : Lose(c, i) \/ Recv(c, i)
                                \/ \E cmd, t, resend : Call(c, cmd, t, resend)
    BY <2>1 DEF Lose, Recv, Call
  <2>6. CASE \E c \in Clients : StatusReply(c) \/ CallReply(c)
    BY <2>6 DEF StatusReply, CallReply
  <2>7. CASE \E c \in Clients : StatusTimeout(c) \/ CallTimeout(c)
    BY <2>7 DEF StatusTimeout, CallTimeout
  <2>2. CASE \E p \in msg : NoTopic(p) \/ Serve(p) \/ AnswerAgain(p) \/ RecordRequest(p)
    BY <2>2 DEF NoTopic, Serve, AnswerAgain, RecordRequest
  <2>3. CASE \E p \in msg : EnqueueRequest(p) \/ Announce(p) \/ SendReply(p)
    BY <2>3 DEF EnqueueRequest, Announce, SendReply
  <2>4. CASE \E t : AddTopic(t) \/ PutData(t) \/ PopData(t)
    BY <2>4 DEF AddTopic, PutData, PopData
  <2>5. CASE BgStop \/ ServeRequests \/ ResetStartTime \/ Shutdown \/ UNCHANGED vars
    BY <2>5 DEF BgStop, ServeRequests, WaitForRequest, ReplyPut, ReplyFlag, ResetStartTime,
                Shutdown, vars
  <2> QED  BY <2>1, <2>2, <2>3, <2>4, <2>5, <2>6, <2>7 DEF Next, BgStep, ClientStep
<1> QED  BY <1>1, <1>2, <1>3

LEMMA OwnKept ==
    ASSUME CInv, [Next]_vars, NEW of, NEW id \in Ids, Own(of, id)
    PROVE  Own(of, id)'
  BY DoneGrows DEF Own

LEMMA ReplyKept ==
    ASSUME CInv, [Next]_vars, NEW q, NEW id \in Ids, Reply(q, id)
    PROVE  Reply(q, id)'
<1>1. \A i \in DOMAIN q : q[i].by = "reply" /\ Own(q[i].of, id)'
  BY OwnKept DEF Reply
<1> QED  BY <1>1 DEF Reply

\* The packet the thread waits with is one request.
LEMMA TheRequest ==
    ASSUME CInv, HInv, Waiting
    PROVE  \E p \in Packet : /\ msg = {p}
                             /\ p.cmd = "REQUEST"
                             /\ <<p.id[1], "REQUEST", p.topic>> \in Calls
                             /\ p.topic \in RequestTopics
                             /\ p.id \in Ids /\ p.topic \in Topics
<1>1. PICK p \in msg : msg = {p}
  BY DEF HInv, Waiting
<1>2. p \in Packet
  BY DEF CInv, TInv, TypeOK
<1>3. p.id \in Ids /\ p.topic \in Topics /\ p.id[1] \in Clients
  BY <1>2 DEF Packet, Ids
<1>4. p.cmd = "REQUEST"
  BY DEF Waiting, CInv, EntryInv
<1>5. <<p.id[1], "REQUEST", p.topic>> \in Calls
  BY <1>3, <1>4 DEF CInv, ConnInv, ConnAt, Sent
<1>6. p.topic \in RequestTopics
  <2> DEFINE x == <<p.id[1], "REQUEST", p.topic>>
  <2>1. x \in Calls /\ x[2] = "REQUEST" /\ x[3] = p.topic
    BY <1>5
  <2> HIDE DEF x
  <2> QED  BY <2>1 DEF RequestTopics
<1> QED  BY <1>1, <1>2, <1>3, <1>4, <1>5, <1>6

LEMMA LifeNext == LifeInv /\ [Next]_vars => LifeInv'
<1> SUFFICES ASSUME LifeInv, [Next]_vars PROVE LifeInv'
  OBVIOUS
<1> USE DEF netVars, clientVars, topicVars, dedupVars, bgVars, userVars, hist
<1>1. CASE \E c \in Clients : \E i \in DOMAIN wire[c] : Lose(c, i) \/ Recv(c, i)
  BY <1>1 DEF Lose, Recv, LifeInv
<1>2. CASE \E c \in Clients : \/ ClientStep(c)
                              \/ \E cmd, t, resend : Call(c, cmd, t, resend)
  <2>1. UNCHANGED <<running, upc, bpc>>
    <3>1. CASE \E c \in Clients : ClientStep(c)
      BY <3>1 DEF ClientStep, StatusReply, StatusTimeout, CallReply, CallTimeout
    <3>2. CASE \E c \in Clients : \E cmd, t, resend : Call(c, cmd, t, resend)
      BY <3>2 DEF Call
    <3> QED  BY <1>2, <3>1, <3>2
  <2> QED  BY <2>1 DEF LifeInv
<1>3. CASE \E p \in msg : NoTopic(p) \/ Serve(p) \/ AnswerAgain(p) \/ RecordRequest(p)
  <2>1. UNCHANGED <<running, upc>> /\ bpc' # "stopped"
    BY <1>3 DEF NoTopic, Serve, AnswerAgain, RecordRequest
  <2> QED  BY <2>1 DEF LifeInv
<1>4. CASE \E p \in msg : EnqueueRequest(p) \/ Announce(p) \/ SendReply(p)
  BY <1>4 DEF EnqueueRequest, Announce, SendReply, LifeInv
<1>5. CASE \E t : AddTopic(t) \/ PutData(t) \/ PopData(t)
  BY <1>5 DEF AddTopic, PutData, PopData, LifeInv
<1>6. CASE BgStop \/ ResetStartTime \/ Shutdown \/ UNCHANGED vars
  BY <1>6 DEF BgStop, ResetStartTime, Shutdown, vars, LifeInv
<1>7. CASE ServeRequests
  BY <1>7 DEF ServeRequests, WaitForRequest, ReplyPut, ReplyFlag, LifeInv
<1> QED  BY <1>1, <1>2, <1>3, <1>4, <1>5, <1>6, <1>7 DEF Next, BgStep

(* Steps that leave the request topics and the handover alone.             *)
LEMMA QueueFrame ==
    ASSUME CInv, HInv, QueueInv, [Next]_vars,
           UNCHANGED <<bpc, msg, newRequest, replyTopic, upc, serving>>,
           \A t \in RequestTopics : queue'[t] = queue[t]
    PROVE  QueueInv'
<1>1. QuietTopics'
  BY DEF QueueInv, QuietTopics, Handing, Asked
<1>2. ASSUME NEW p \in msg, Handing
      PROVE  (Asking(p) /\ Running(p) /\ Replied(p))'
  <2>1. queue'[p.topic] = queue[p.topic] /\ p.id \in Ids
    <3>1. Waiting
      BY <1>2 DEF Waiting, Handing
    <3> QED  BY <3>1, TheRequest
  <2>2. Asking(p)'
    <3>1. resets > 0 => resets' > 0
      BY DoneGrows
    <3> QED  BY <2>1, <3>1 DEF QueueInv, Asking
  <2>3. Running(p)'
    <3>1. ASSUME NEW s \in serving, Own(s.of, p.id) PROVE Own(s.of, p.id)'
      BY <2>1, <3>1, OwnKept
    <3> QED  BY <2>1, <3>1 DEF QueueInv, Running
  <2>4. Replied(p)'
    <3>1. ASSUME Reply(queue[p.topic], p.id)
          PROVE  Reply(queue[p.topic], p.id)'
      <4>1. PICK r : r = queue[p.topic]
        OBVIOUS
      <4>2. Reply(r, p.id)'
        BY <2>1, <3>1, <4>1, ReplyKept
      <4> QED  BY <2>1, <4>1, <4>2 DEF Reply, Own
    <3> QED  BY <2>1, <3>1 DEF QueueInv, Replied
  <2> QED  BY <2>2, <2>3, <2>4
<1>3. ASSUME NEW p \in msg, ~Handing
      PROVE  (Asking(p) /\ Running(p) /\ Replied(p))'
  BY <1>3 DEF Handing, Asking, Running, Replied
<1> QED  BY <1>1, <1>2, <1>3 DEF QueueInv

(* Steps after which the thread hands nothing over.                        *)
LEMMA QueueRest ==
    ASSUME bpc' \notin {"announce", "await"},
           bpc' # "stopped" => \A t \in RequestTopics : queue'[t] = <<>>
    PROVE  QueueInv'
  BY DEF QueueInv, QuietTopics, Handing, Asking, Running, Replied

\* Where the thread hands nothing over, the topics of requests are empty.
LEMMA QueueEmpty ==
    ASSUME QueueInv, ~Handing, bpc # "stopped", NEW t \in RequestTopics
    PROVE  queue[t] = <<>>
  BY DEF QueueInv, QuietTopics

LEMMA QueueThread ==
    ASSUME OwnQueue, CInv, HInv, QueueInv, [Next]_vars, BgStep
    PROVE  QueueInv'
<1> USE DEF netVars, clientVars, topicVars, dedupVars, bgVars, userVars, hist
<1>1. queue \in [Topics -> Seq(Entry)] /\ RequestTopics \subseteq Topics
  BY ConstantTypes DEF CInv, TInv, TypeOK, RequestTopics
<1>2. CASE \E c \in Clients : \E i \in DOMAIN wire[c] : Recv(c, i)
  <2>1. bpc = "poll" /\ bpc' = "dispatch" /\ queue' = queue
    BY <1>2 DEF Recv
  <2> QED  BY <2>1, QueueEmpty, QueueRest DEF Handing
<1>3. ASSUME NEW p \in msg, NoTopic(p) \/ AnswerAgain(p) \/ RecordRequest(p)
      PROVE  QueueInv'
  <2>1. bpc = "dispatch" /\ bpc' \in {"poll", "enqueue"} /\ queue' = queue
    BY <1>3 DEF NoTopic, AnswerAgain, RecordRequest
  <2> QED  BY <2>1, QueueEmpty, QueueRest DEF Handing
<1>4. ASSUME NEW p \in msg, Serve(p)
      PROVE  QueueInv'
  <2>1. bpc = "dispatch" /\ bpc' = "poll" /\ p.cmd # "REQUEST"
    BY <1>4 DEF Serve
  <2>2. p \in Packet /\ p.topic \in Topics /\ p.id[1] \in Clients
    BY DEF CInv, TInv, TypeOK, Packet, Ids
  <2>3. p.cmd = "PUT" => p.topic \notin RequestTopics
    <3> SUFFICES ASSUME p.cmd = "PUT" PROVE p.topic \notin RequestTopics
      OBVIOUS
    <3>1. <<p.id[1], "PUT", p.topic>> \in Calls
      BY <2>2 DEF CInv, ConnInv, ConnAt, Sent
    <3> DEFINE x == <<p.id[1], "PUT", p.topic>>
    <3>2. x \in Calls /\ x[2] = "PUT" /\ x[3] = p.topic
      BY <3>1
    <3> HIDE DEF x
    <3> QED  BY <3>2 DEF OwnQueue
  <2>4. ASSUME NEW t \in RequestTopics
        PROVE  queue'[t] = <<>>
    <3>1. queue[t] = <<>>
      BY <2>1, QueueEmpty DEF Handing
    <3>2. CASE p.cmd = "PUT"
      <4>1. \E q : queue' = [queue EXCEPT ![p.topic] = q]
        BY <1>4 DEF Serve
      <4> QED  BY <1>1, <2>3, <3>1, <3>2, <4>1
    <3>3. CASE p.cmd = "POP"
      BY <1>1, <1>4, <3>1, <3>3 DEF Serve
    <3>4. CASE p.cmd # "PUT" /\ p.cmd # "POP"
      <4>1. queue' = [queue EXCEPT ![p.topic] = queue[p.topic]]
        BY <1>4, <3>4 DEF Serve
      <4> QED  BY <1>1, <3>1, <4>1
    <3> QED  BY <3>2, <3>3, <3>4
  <2> QED  BY <2>1, <2>4, QueueRest
<1>5. ASSUME NEW p \in msg, EnqueueRequest(p)
      PROVE  QueueInv'
  <2> DEFINE e == [by |-> "REQUEST", of |-> p.id]
  <2>1. /\ bpc = "enqueue" /\ bpc' = "announce"
        /\ UNCHANGED <<msg, newRequest, replyTopic, upc, serving>>
    BY <1>5 DEF EnqueueRequest
  <2>2. /\ msg = {p} /\ p.topic \in RequestTopics /\ p.topic \in Topics /\ p.id \in Ids
    BY <2>1, TheRequest DEF Waiting
  <2>3. queue[p.topic] = <<>>
    BY <2>1, <2>2, QueueEmpty DEF Handing
  <2>4. e \in Entry
    BY <2>2 DEF Entry, EntryIds
  <2>5. PICK q \in Pushed(queue[p.topic], e) : queue' = [queue EXCEPT ![p.topic] = q]
    BY <1>5 DEF EnqueueRequest
  <2>6. queue'[p.topic] = <<e>> /\ \A t \in RequestTopics : t # p.topic => queue'[t] = <<>>
    <3> HIDE DEF e
    <3>1. q = <<e>>
      BY <1>1, <2>2, <2>3, <2>4, <2>5, PushedFacts
    <3>2. \A t \in RequestTopics : queue[t] = <<>>
      BY <2>1, QueueEmpty DEF Handing
    <3> QED  BY <1>1, <2>2, <2>5, <3>1, <3>2
  <2>7. QuietTopics'
    BY <2>1, <2>2, <2>6 DEF QuietTopics, Handing, Asked
  <2>8. (Asking(p) /\ Running(p) /\ Replied(p))'
    BY <2>1, <2>6 DEF Asking, Running, Replied
  <2> QED  BY <2>1, <2>2, <2>7, <2>8 DEF QueueInv
<1>6. ASSUME NEW p \in msg, Announce(p)
      PROVE  QueueInv'
  <2>1. /\ bpc = "announce" /\ bpc' = "await" /\ newRequest' = {p.topic}
        /\ UNCHANGED <<msg, queue, replyTopic, upc, serving, resets>>
    BY <1>6 DEF Announce
  <2>2. msg = {p}
    BY <2>1, TheRequest DEF Waiting
  <2>3. replyTopic = {} /\ upc \notin {"reply", "flag"}
    BY <2>1 DEF HInv, Handshake, Handover, Handled
  <2>4. QuietTopics'
    BY <2>1 DEF QueueInv, QuietTopics, Handing, Asked
  <2>5. (Asking(p) /\ Running(p) /\ Replied(p))'
    BY <2>1, <2>3 DEF QueueInv, Asking, Running, Replied
  <2> QED  BY <2>1, <2>2, <2>4, <2>5 DEF QueueInv
<1>7. ASSUME NEW p \in msg, SendReply(p)
      PROVE  QueueInv'
  <2>1. bpc = "await" /\ bpc' = "poll" /\ queue' = [queue EXCEPT ![p.topic] = <<>>]
    BY <1>7 DEF SendReply
  <2>2. Asked = {p.topic}
    <3>1. msg = {p}
      BY <2>1, TheRequest DEF Waiting
    <3> QED  BY <3>1 DEF Asked
  <2>3. \A t \in RequestTopics : queue'[t] = <<>>
    BY <1>1, <2>1, <2>2 DEF QueueInv, QuietTopics
  <2> QED  BY <2>1, <2>3, QueueRest
<1>8. CASE BgStop
  BY <1>8, QueueRest DEF BgStop
<1> QED  BY <1>2, <1>3, <1>4, <1>5, <1>6, <1>7, <1>8 DEF BgStep

LEMMA QueueProgram ==
    ASSUME CInv, HInv, LifeInv, QueueInv, [Next]_vars, ServeRequests \/ ResetStartTime
    PROVE  QueueInv'
<1> USE DEF netVars, clientVars, topicVars, dedupVars, bgVars, userVars, hist
<1>1. /\ queue \in [Topics -> Seq(Entry)] /\ RequestTopics \subseteq Topics
      /\ newRequest \subseteq Topics /\ done \in [Ids -> Nat]
  BY ConstantTypes DEF CInv, TInv, TypeOK, RequestTopics
<1>2. CASE WaitForRequest
  <2>1. PICK t \in newRequest :
          LET of == IF queue[t] = <<>> THEN NoId ELSE Head(queue[t]).of
          IN  /\ serving' = {[topic |-> t, of |-> of]}
              /\ queue' = [queue EXCEPT ![t] = <<>>]
              /\ IF queue[t] # <<>> /\ Head(queue[t]).by = "REQUEST"
                   THEN Took(of) ELSE UNCHANGED done
    BY <1>2 DEF WaitForRequest
  <2>2. /\ upc = "idle" /\ upc' = "reply" /\ newRequest' = {}
        /\ UNCHANGED <<bpc, msg, replyTopic, resets>>
    BY <1>2 DEF WaitForRequest
  <2>3. bpc = "await" /\ Asked = {t} /\ replyTopic = {}
    BY <2>1, <2>2 DEF HInv, Handshake, Handover, LifeInv, Asked
  <2>4. PICK p \in Packet : /\ msg = {p} /\ p.topic \in RequestTopics
                            /\ p.topic \in Topics /\ p.id \in Ids
    BY <2>3, TheRequest DEF Waiting
  <2>5. p.topic = t
    BY <2>3, <2>4 DEF Asked
  <2>6. queue'[t] = <<>> /\ \A u \in RequestTopics : queue'[u] = <<>>
    BY <1>1, <2>1, <2>3, <2>4, <2>5 DEF QueueInv, QuietTopics
  <2>7. \A s \in serving' : Own(s.of, p.id)'
    <3>1. CASE queue[t] = <<[by |-> "REQUEST", of |-> p.id]>>
      <4>1. queue[t] # <<>> /\ Head(queue[t]) = [by |-> "REQUEST", of |-> p.id]
        BY <3>1
      <4>2. Head(queue[t]).of = p.id /\ Head(queue[t]).by = "REQUEST"
        BY <4>1
      <4>3. serving' = {[topic |-> t, of |-> p.id]} /\ Took(p.id)
        BY <2>1, <4>1, <4>2
      <4>4. done'[p.id] >= 1
        BY <1>1, <2>4, <4>3 DEF Took
      <4> QED  BY <4>3, <4>4 DEF Own
    <3>2. CASE queue[t] = <<>> /\ resets > 0
      <4>1. serving' = {[topic |-> t, of |-> NoId]}
        BY <2>1, <3>2
      <4> QED  BY <2>2, <3>2, <4>1 DEF Own
    <3> QED  BY <2>1, <2>3, <2>4, <2>5, <3>1, <3>2 DEF QueueInv, Asking
  <2>8. QuietTopics'
    BY <2>6 DEF QuietTopics
  <2>9. (Asking(p) /\ Running(p) /\ Replied(p))'
    BY <2>2, <2>3, <2>5, <2>6, <2>7 DEF Asking, Running, Replied
  <2> QED  BY <2>2, <2>4, <2>8, <2>9 DEF QueueInv
<1>3. CASE ReplyPut
  <2>1. PICK s \in serving : \E q \in Pushed(queue[s.topic], [by |-> "reply", of |-> s.of]) :
          queue' = [queue EXCEPT ![s.topic] = q]
    BY <1>3 DEF ReplyPut
  <2>2. /\ upc = "reply" /\ upc' = "flag"
        /\ UNCHANGED <<bpc, msg, newRequest, replyTopic, resets, done>>
    BY <1>3 DEF ReplyPut
  <2>3. bpc = "await" /\ s.topic \in Asked /\ newRequest = {}
    BY <2>1, <2>2 DEF HInv, Handshake, Handover, Handled, LifeInv
  <2>4. PICK p \in Packet : /\ msg = {p} /\ p.topic \in RequestTopics
                            /\ p.topic \in Topics /\ p.id \in Ids
    BY <2>3, TheRequest DEF Waiting
  <2>5. p.topic = s.topic
    BY <2>3, <2>4 DEF Asked
  <2>6. queue[s.topic] = <<>> /\ Own(s.of, p.id)
    BY <2>1, <2>2, <2>3, <2>4, <2>5 DEF QueueInv, Running
  <2> DEFINE e == [by |-> "reply", of |-> s.of]
  <2>7. queue'[s.topic] = <<e>> /\ \A u \in RequestTopics : u # s.topic => queue'[u] = queue[u]
    <3>1. e \in Entry
      BY <2>1 DEF Entry, CInv, TInv, TypeOK
    <3>2. PICK q \in Pushed(queue[s.topic], e) : queue' = [queue EXCEPT ![s.topic] = q]
      BY <2>1
    <3> HIDE DEF e
    <3>3. q = <<e>>
      BY <1>1, <2>4, <2>5, <2>6, <3>1, <3>2, PushedFacts
    <3> QED  BY <1>1, <2>4, <2>5, <3>2, <3>3
  <2>8. QuietTopics'
    BY <2>2, <2>3, <2>7 DEF QueueInv, QuietTopics, Handing, Asked
  <2>9. Reply(queue[p.topic], p.id)'
    <3>1. queue'[p.topic] = <<e>> /\ e.by = "reply" /\ e.of = s.of
      BY <2>5, <2>7
    <3>2. Own(s.of, p.id)'
      BY <2>2, <2>6 DEF Own
    <3> HIDE DEF e
    <3>3. DOMAIN <<e>> = 1 .. 1 /\ <<e>>[1] = e
      OBVIOUS
    <3> QED  BY <3>1, <3>2, <3>3 DEF Reply
  <2>10. (Asking(p) /\ Running(p) /\ Replied(p))'
    BY <2>2, <2>3, <2>9 DEF Asking, Running, Replied
  <2> QED  BY <2>2, <2>4, <2>8, <2>10 DEF QueueInv
<1>4. CASE ReplyFlag
  <2>1. /\ upc = "flag" /\ upc' = "idle" /\ UNCHANGED <<bpc, msg, newRequest, queue, resets, done>>
    BY <1>4 DEF ReplyFlag
  <2>2. newRequest = {}
    BY <2>1 DEF HInv, Handshake, Handled
  <2>3. QuietTopics'
    BY <2>1 DEF QueueInv, QuietTopics, Handing, Asked
  <2>4. ASSUME NEW p \in msg PROVE (Asking(p) /\ Running(p) /\ Replied(p))'
    <3>1. bpc = "await" => Reply(queue[p.topic], p.id)
      BY <2>1 DEF QueueInv, Replied
    <3>2. Reply(queue[p.topic], p.id) => Reply(queue[p.topic], p.id)'
      BY <2>1 DEF Reply, Own
    <3>3. bpc # "announce"
      BY <2>1 DEF HInv, Handshake, Handover, Handled
    <3> QED  BY <2>1, <2>2, <3>1, <3>2, <3>3 DEF Asking, Running, Replied
  <2> QED  BY <2>1, <2>3, <2>4 DEF QueueInv
<1>5. CASE ResetStartTime
  <2>1. /\ queue' = [t \in Topics |-> <<>>] /\ upc = "idle" /\ resets' = resets + 1
        /\ UNCHANGED <<bpc, msg, newRequest, replyTopic, upc, serving>>
    BY <1>5 DEF ResetStartTime
  <2>2. resets' > 0
    BY <2>1, DoneGrows
  <2>3. QuietTopics'
    BY <1>1, <2>1 DEF QuietTopics
  <2>4. ASSUME NEW p \in msg PROVE (Asking(p) /\ Running(p) /\ Replied(p))'
    <3>1. p.topic \in Topics
      BY DEF CInv, TInv, TypeOK, Packet
    <3>2. queue'[p.topic] = <<>>
      BY <2>1, <3>1
    <3>3. Reply(queue[p.topic], p.id)'
      BY <2>2, <3>2 DEF Reply
    <3> QED  BY <2>1, <2>2, <3>2, <3>3 DEF Asking, Running, Replied
  <2> QED  BY <2>1, <2>3, <2>4 DEF QueueInv
<1> QED  BY <1>2, <1>3, <1>4, <1>5 DEF ServeRequests

LEMMA QueueNext ==
    ASSUME OwnQueue, CInv, HInv, LifeInv, QueueInv, [Next]_vars
    PROVE  QueueInv'
<1> USE DEF netVars, clientVars, topicVars, dedupVars, bgVars, userVars, hist
<1>1. queue \in [Topics -> Seq(Entry)]
  BY DEF CInv, TInv, TypeOK
<1>2. CASE \E c \in Clients : \/ \E i \in DOMAIN wire[c] : Lose(c, i)
                              \/ \E cmd, t, resend : Call(c, cmd, t, resend)
  <2>1. UNCHANGED <<bpc, msg, newRequest, replyTopic, upc, serving, queue>>
    BY <1>2 DEF Lose, Call
  <2> QED  BY <2>1, QueueFrame
<1>3. CASE \E c \in Clients : ClientStep(c)
  <2>1. UNCHANGED <<bpc, msg, newRequest, replyTopic, upc, serving, queue>>
    BY <1>3 DEF ClientStep, StatusReply, StatusTimeout, CallReply, CallTimeout
  <2> QED  BY <2>1, QueueFrame
<1>4. ASSUME NEW t \in Topics, AddTopic(t)
      PROVE  QueueInv'
  BY <1>4, QueueFrame DEF AddTopic
<1>5. ASSUME NEW t \in PutTopics, PutData(t) \/ PopData(t)
      PROVE  QueueInv'
  <2>1. /\ UNCHANGED <<bpc, msg, newRequest, replyTopic, upc, serving>>
        /\ \E q : queue' = [queue EXCEPT ![t] = q]
    BY <1>5 DEF PutData, PopData
  <2>2. \A u \in RequestTopics : u # t
    BY DEF OwnQueue
  <2>3. RequestTopics \subseteq Topics
    BY ConstantTypes DEF RequestTopics
  <2> QED  BY <1>1, <2>1, <2>2, <2>3, QueueFrame
<1>6. CASE Shutdown
  <2>1. /\ UNCHANGED <<bpc, msg, newRequest, replyTopic, serving, queue, resets, done>>
        /\ upc = "idle" /\ upc' = "gone"
    BY <1>6 DEF Shutdown
  <2>2. QuietTopics'
    BY <2>1 DEF QueueInv, QuietTopics, Handing, Asked
  <2>3. ASSUME NEW p \in msg PROVE (Asking(p) /\ Running(p) /\ Replied(p))'
    <3>1. Reply(queue[p.topic], p.id) => Reply(queue[p.topic], p.id)'
      BY <2>1 DEF Reply, Own
    <3> QED  BY <2>1, <3>1 DEF QueueInv, Asking, Running, Replied
  <2> QED  BY <2>1, <2>2, <2>3 DEF QueueInv
<1>7. CASE UNCHANGED vars
  BY <1>7, QueueFrame DEF vars
<1> QED  BY <1>2, <1>3, <1>4, <1>5, <1>6, <1>7, QueueThread, QueueProgram DEF Next

-----------------------------------------------------------------------------
(* The cache.  What is sent again is the reply to the very request.        *)

LEMMA CacheKept ==
    ASSUME CInv, [Next]_vars, NEW t, CacheAt(t),
           lastTs'[t] \subseteq lastTs[t], cached'[t] \subseteq cached[t]
    PROVE  CacheAt(t)'
<1> SUFFICES ASSUME NEW s \in lastTs'[t], NEW r \in cached'[t]
             PROVE  (\E id \in Ids : /\ <<id[1], "REQUEST", t>> \in Calls
                                     /\ s = Epoch[id[1]] + id[2]
                                     /\ Reply(r.ptrs, id))'
  BY DEF CacheAt
<1>1. PICK id \in Ids : /\ <<id[1], "REQUEST", t>> \in Calls
                        /\ s = Epoch[id[1]] + id[2]
                        /\ Reply(r.ptrs, id)
  BY DEF CacheAt
<1>2. Reply(r.ptrs, id)'
  BY <1>1, ReplyKept
<1> QED  BY <1>1, <1>2

LEMMA DedupFrame ==
    ASSUME CInv, [Next]_vars, DedupInv,
           Waiting' => Waiting /\ msg' = msg,
           \A t \in Topics : lastTs'[t] \subseteq lastTs[t] /\ cached'[t] \subseteq cached[t]
    PROVE  DedupInv'
<1>1. (\A t \in Topics : CacheAt(t))'
  BY CacheKept DEF DedupInv
<1>2. (Waiting => \A p \in msg : lastTs[p.topic] \subseteq {Stamp(p)} /\ cached[p.topic] = {})'
  <2> SUFFICES ASSUME Waiting', NEW p \in msg
               PROVE  lastTs'[p.topic] \subseteq {Stamp(p)} /\ cached'[p.topic] = {}
    BY DEF Stamp
  <2>1. p.topic \in Topics
    BY DEF CInv, TInv, TypeOK, Packet
  <2> QED  BY <2>1 DEF DedupInv
<1> QED  BY <1>1, <1>2 DEF DedupInv

LEMMA DedupNext ==
    ASSUME CInv, HInv, LifeInv, QueueInv, DedupInv, [Next]_vars
    PROVE  DedupInv'
<1> USE DEF netVars, clientVars, topicVars, dedupVars, bgVars, userVars, hist
<1>1. /\ lastTs \in [Topics -> SUBSET Int] /\ cached \in [Topics -> SUBSET Answer]
      /\ \A p \in msg : p.topic \in Topics /\ p.id \in Ids
  BY DEF CInv, TInv, TypeOK, Packet
<1>2. CASE \E c \in Clients : \/ \E i \in DOMAIN wire[c] : Lose(c, i)
                              \/ \E cmd, t, resend : Call(c, cmd, t, resend)
  <2>1. UNCHANGED <<bpc, msg, lastTs, cached>>
    BY <1>2 DEF Lose, Call
  <2> QED  BY <2>1, DedupFrame DEF Waiting
<1>3. CASE \E c \in Clients : ClientStep(c)
  <2>1. UNCHANGED <<bpc, msg, lastTs, cached>>
    BY <1>3 DEF ClientStep, StatusReply, StatusTimeout, CallReply, CallTimeout
  <2> QED  BY <2>1, DedupFrame DEF Waiting
<1>4. CASE \E c \in Clients : \E i \in DOMAIN wire[c] : Recv(c, i)
  <2>1. bpc' = "dispatch" /\ UNCHANGED <<lastTs, cached>>
    BY <1>4 DEF Recv
  <2> QED  BY <2>1, DedupFrame DEF Waiting
<1>5. CASE \E p \in msg : NoTopic(p) \/ Serve(p) \/ AnswerAgain(p)
  <2>1. bpc' = "poll" /\ UNCHANGED <<lastTs, cached>>
    BY <1>5 DEF NoTopic, Serve, AnswerAgain
  <2> QED  BY <2>1, DedupFrame DEF Waiting
<1>6. ASSUME NEW p \in msg, RecordRequest(p)
      PROVE  DedupInv'
  <2>1. /\ bpc = "dispatch" /\ UNCHANGED msg
        /\ cached' = IF Stamp(p) \in lastTs[p.topic] THEN cached
                     ELSE [cached EXCEPT ![p.topic] = {}]
        /\ lastTs' = [lastTs EXCEPT ![p.topic] = {Stamp(p)}]
        /\ ~Duplicate(p)
    BY <1>6 DEF RecordRequest
  <2>2. msg = {p}
    BY DEF HInv
  <2>3. lastTs'[p.topic] = {Stamp(p)} /\ cached'[p.topic] = {}
    BY <1>1, <2>1 DEF Duplicate
  <2>4. \A t \in Topics : t # p.topic => lastTs'[t] = lastTs[t] /\ cached'[t] = cached[t]
    BY <1>1, <2>1
  <2>5. ASSUME NEW t \in Topics PROVE CacheAt(t)'
    <3>1. CASE t = p.topic
      BY <2>3, <3>1 DEF CacheAt
    <3>2. CASE t # p.topic
      BY <2>4, <3>2, CacheKept DEF DedupInv
    <3> QED  BY <3>1, <3>2
  <2>6. Stamp(p)' = Stamp(p)
    BY DEF Stamp
  <2> QED  BY <2>1, <2>2, <2>3, <2>5, <2>6 DEF DedupInv
<1>7. CASE \E p \in msg : EnqueueRequest(p) \/ Announce(p)
  <2>1. bpc \in {"enqueue", "announce"} /\ UNCHANGED <<msg, lastTs, cached>>
    BY <1>7 DEF EnqueueRequest, Announce
  <2> QED  BY <2>1, DedupFrame DEF Waiting
<1>8. ASSUME NEW p \in msg, SendReply(p)
      PROVE  DedupInv'
  <2>0. PICK r : r = [cmd |-> "REQUEST", topic |-> p.topic, ptrs |-> queue[p.topic]]
    OBVIOUS
  <2>1. /\ bpc = "await" /\ bpc' = "poll" /\ replyTopic # {}
        /\ cached' = [cached EXCEPT ![p.topic] = {r}]
        /\ UNCHANGED <<lastTs, msg>>
    BY <1>8, <2>0 DEF SendReply
  <2>2. /\ <<p.id[1], "REQUEST", p.topic>> \in Calls
        /\ p.id \in Ids /\ p.topic \in Topics
    <3>1. msg = {p} /\ \E q \in msg : /\ <<q.id[1], "REQUEST", q.topic>> \in Calls
                                      /\ q.id \in Ids /\ q.topic \in Topics
      BY <2>1, TheRequest DEF Waiting
    <3> QED  BY <3>1
  <2>3. Reply(queue[p.topic], p.id)
    BY <2>1 DEF QueueInv, Replied
  <2>4. r.ptrs = queue[p.topic]
    BY <2>0
  <2>5. Reply(r.ptrs, p.id)'
    BY <2>2, <2>3, <2>4, ReplyKept
  <2>6. ASSUME NEW t \in Topics PROVE CacheAt(t)'
    <3>1. CASE t = p.topic
      <4>1. cached'[t] = {r} /\ lastTs'[t] \subseteq {Epoch[p.id[1]] + p.id[2]}
        BY <1>1, <2>1, <2>2, <3>1 DEF DedupInv, Waiting, Stamp
      <4>2. ASSUME NEW s \in lastTs'[t], NEW a \in cached'[t]
            PROVE  (\E id \in Ids : /\ <<id[1], "REQUEST", t>> \in Calls
                                    /\ s = Epoch[id[1]] + id[2]
                                    /\ Reply(a.ptrs, id))'
        <5>1. a = r /\ s = Epoch[p.id[1]] + p.id[2]
          BY <4>1, <4>2
        <5>2. Reply(a.ptrs, p.id)'
          BY <2>5, <5>1
        <5> QED  BY <2>2, <3>1, <5>1, <5>2
      <4> QED  BY <4>2 DEF CacheAt
    <3>2. CASE t # p.topic
      <4>1. lastTs'[t] = lastTs[t] /\ cached'[t] = cached[t]
        BY <1>1, <2>1, <3>2
      <4> QED  BY <4>1, CacheKept DEF DedupInv
    <3> QED  BY <3>1, <3>2
  <2> QED  BY <2>1, <2>6 DEF DedupInv, Waiting
<1>9. CASE BgStop
  <2>1. bpc' = "stopped" /\ UNCHANGED <<lastTs, cached>>
    BY <1>9 DEF BgStop
  <2> QED  BY <2>1, DedupFrame DEF Waiting
<1>10. CASE \E t : AddTopic(t) \/ PutData(t) \/ PopData(t)
  <2>1. UNCHANGED <<bpc, msg, lastTs, cached>>
    BY <1>10 DEF AddTopic, PutData, PopData
  <2> QED  BY <2>1, DedupFrame DEF Waiting
<1>11. CASE ServeRequests \/ Shutdown \/ UNCHANGED vars
  <2>1. UNCHANGED <<bpc, msg, lastTs, cached>>
    BY <1>11 DEF ServeRequests, WaitForRequest, ReplyPut, ReplyFlag, Shutdown, vars
  <2> QED  BY <2>1, DedupFrame DEF Waiting
<1>12. CASE ResetStartTime
  <2>1. UNCHANGED <<bpc, msg>> /\ \A t \in Topics : lastTs'[t] = {} /\ cached'[t] = {}
    BY <1>12 DEF ResetStartTime
  <2> QED  BY <2>1, DedupFrame DEF Waiting
<1> QED  BY <1>2, <1>3, <1>4, <1>5, <1>6, <1>7, <1>8, <1>9, <1>10, <1>11, <1>12 DEF Next, BgStep

-----------------------------------------------------------------------------
(* The answers.  What waits for a client is about the call it is in.       *)

\* A client that gets no answer.
LEMMA InboxFrame ==
    ASSUME CInv, [Next]_vars, NEW c \in Clients, InboxOwn(c),
           inbox'[c] = {} \/ (inbox'[c] = inbox[c] /\ cpc'[c] = cpc[c] /\ calls'[c] = calls[c])
    PROVE  InboxOwn(c)'
<1>1. CASE inbox'[c] = {}
  BY <1>1 DEF InboxOwn
<1>2. CASE inbox'[c] = inbox[c] /\ cpc'[c] = cpc[c] /\ calls'[c] = calls[c] /\ inbox[c] # {}
  <2>1. PICK id : id = CallId(c) /\ id = CallId(c)'
    BY <1>2 DEF CallId
  <2>2. id \in Ids
    <3>1. cpc[c] # "idle"
      BY <1>2 DEF CInv, ConnInv, ConnAt
    <3> QED  BY <2>1, <3>1, UnderWay DEF CInv
  <2>3. ASSUME NEW r \in inbox[c], r.cmd = "REQUEST"
        PROVE  Reply(r.ptrs, id)'
    BY <2>1, <2>2, <2>3, ReplyKept DEF InboxOwn
  <2>4. ASSUME cpc[c] = "send", NEW r \in inbox[c], r.cmd = "PUT"
        PROVE  done'[id] >= 1
    <3>1. done'[id] >= done[id] /\ done[id] \in Nat /\ done'[id] \in Nat
      BY <2>2, DoneGrows
    <3>2. done[id] >= 1
      BY <2>1, <2>4 DEF InboxOwn
    <3> QED  BY <3>1, <3>2
  <2> QED  BY <1>2, <2>1, <2>3, <2>4 DEF InboxOwn, Reply, Own
<1> QED  BY <1>1, <1>2

\* The thread answers with a reply to the request it has, just made or kept.
LEMMA AnswerOwn ==
    ASSUME StampsDiffer, CInv, HInv, QueueInv, DedupInv, [Next]_vars, NEW p \in msg,
           AnswerAgain(p) \/ SendReply(p)
    PROVE  \E r : SendAnswer(p, r) /\ r.cmd = "REQUEST" /\ Reply(r.ptrs, p.id)
<1>1. p.topic \in Topics /\ p.id \in Ids /\ p.id[1] \in Clients /\ p.id[2] \in 1 .. MaxCalls
  BY DEF CInv, TInv, TypeOK, Packet, Ids
<1>2. CASE AnswerAgain(p)
  <2>1. PICK r \in cached[p.topic] : SendAnswer(p, r)
    BY <1>2 DEF AnswerAgain
  <2>2. p.cmd = "REQUEST" /\ Stamp(p) \in lastTs[p.topic]
    BY <1>2 DEF AnswerAgain, Duplicate
  <2>3. PICK id \in Ids : /\ <<id[1], "REQUEST", p.topic>> \in Calls
                          /\ Stamp(p) = Epoch[id[1]] + id[2]
                          /\ Reply(r.ptrs, id)
    BY <1>1, <2>1, <2>2 DEF DedupInv, CacheAt
  <2>4. <<p.id[1], "REQUEST", p.topic>> \in Calls
    BY <1>1, <2>2 DEF CInv, ConnInv, ConnAt, Sent
  <2>5. p.id = id
    <3>1. /\ id[1] \in Clients /\ id[2] \in 1 .. MaxCalls /\ id = <<id[1], id[2]>>
          /\ p.id = <<p.id[1], p.id[2]>>
      BY <1>1 DEF Ids
    <3>2. Epoch[p.id[1]] + p.id[2] = Epoch[id[1]] + id[2]
      BY <2>3 DEF Stamp
    <3>3. p.id[1] = id[1]
      <4> DEFINE x == <<p.id[1], "REQUEST", p.topic>>
                 y == <<id[1], "REQUEST", p.topic>>
      <4>1. /\ x \in Calls /\ y \in Calls /\ x[2] = "REQUEST" /\ y[2] = "REQUEST" /\ x[3] = y[3]
            /\ x[1] = p.id[1] /\ y[1] = id[1]
        BY <2>3, <2>4
      <4> HIDE DEF x, y
      <4> QED  BY <1>1, <3>1, <3>2, <4>1 DEF StampsDiffer
    <3>4. p.id[2] = id[2]
      BY <1>1, <3>1, <3>2, <3>3, ConstantTypes
    <3> QED  BY <3>1, <3>3, <3>4
  <2>6. r.cmd = "REQUEST"
    BY <1>1 DEF CInv, EntryInv
  <2> QED  BY <2>1, <2>3, <2>5, <2>6
<1>3. CASE SendReply(p)
  <2>1. PICK r : r = [cmd |-> "REQUEST", topic |-> p.topic, ptrs |-> queue[p.topic]]
    OBVIOUS
  <2>2. SendAnswer(p, r) /\ bpc = "await" /\ replyTopic # {}
    BY <1>3, <2>1 DEF SendReply
  <2>3. Reply(queue[p.topic], p.id)
    BY <2>2 DEF QueueInv, Replied
  <2> QED  BY <2>1, <2>2, <2>3
<1> QED  BY <1>2, <1>3

\* What the clients do, and the network to them, only takes answers away.
LEMMA InboxClients ==
    ASSUME CInv, InboxInv, [Next]_vars, NEW c \in Clients,
           \/ \E d \in Clients : \E i \in DOMAIN wire[d] : Lose(d, i) \/ Recv(d, i)
           \/ \E d \in Clients, cmd \in Cmds, t \in Topics, resend \in Resend :
                <<d, cmd, t>> \in Calls /\ Call(d, cmd, t, resend)
           \/ \E d \in Clients : ClientStep(d)
           \/ UNCHANGED <<inbox, cpc, calls>>
    PROVE  InboxOwn(c)'
<1> USE DEF netVars, clientVars, topicVars, dedupVars, bgVars, userVars, hist
<1>1. InboxOwn(c) /\ TInv /\ ConnAt(c) /\ inbox \in [Clients -> SUBSET Answer]
      /\ cpc \in [Clients -> {"idle", "status", "send"}] /\ calls \in [Clients -> 0 .. MaxCalls]
  BY DEF InboxInv, CInv, ConnInv, TInv, TypeOK
<1>2. CASE \E d \in Clients : \E i \in DOMAIN wire[d] : Lose(d, i) \/ Recv(d, i)
  <2>1. UNCHANGED <<inbox, cpc, calls>>
    BY <1>2 DEF Lose, Recv
  <2> QED  BY <1>1, <2>1, InboxFrame
<1>3. CASE \E d \in Clients, cmd \in Cmds, t \in Topics, resend \in Resend :
             <<d, cmd, t>> \in Calls /\ Call(d, cmd, t, resend)
  <2>1. PICK d \in Clients : \E cmd, t, resend : Call(d, cmd, t, resend)
    BY <1>3
  <2>2. d = c => inbox'[c] = {}
    BY <1>1, <2>1 DEF Call, ConnAt
  <2>3. d # c => inbox'[c] = inbox[c] /\ cpc'[c] = cpc[c] /\ calls'[c] = calls[c]
    BY <1>1, <2>1 DEF Call
  <2> QED  BY <1>1, <2>2, <2>3, InboxFrame
<1>4. ASSUME NEW d \in Clients, ClientStep(d)
      PROVE  InboxOwn(c)'
  <2>1. inbox' = [inbox EXCEPT ![d] = {}] /\ calls' = calls
    BY <1>4 DEF ClientStep, StatusReply, StatusTimeout, CallReply, CallTimeout, Reconnect
  <2>2. c # d => cpc'[c] = cpc[c]
    <3>1. CASE StatusReply(d)
      BY <1>1, <3>1 DEF StatusReply, AfterStatus, Finish
    <3>2. CASE StatusTimeout(d)
      BY <1>1, <3>2 DEF StatusTimeout, AfterStatus, Finish
    <3>3. CASE CallReply(d)
      BY <1>1, <3>3 DEF CallReply, Finish
    <3>4. CASE CallTimeout(d)
      BY <1>1, <3>4 DEF CallTimeout, Finish
    <3> QED  BY <1>4, <3>1, <3>2, <3>3, <3>4 DEF ClientStep
  <2> QED  BY <1>1, <2>1, <2>2, InboxFrame
<1>5. CASE UNCHANGED <<inbox, cpc, calls>>
  BY <1>1, <1>5, InboxFrame
<1> QED  BY <1>2, <1>3, <1>4, <1>5

LEMMA InboxNext ==
    ASSUME StampsDiffer, CInv, HInv, QueueInv, DedupInv, InboxInv, [Next]_vars
    PROVE  InboxInv'
<1> USE DEF netVars, clientVars, topicVars, dedupVars, bgVars, userVars, hist
<1> SUFFICES ASSUME NEW c \in Clients PROVE InboxOwn(c)'
  BY DEF InboxInv
<1>1. InboxOwn(c) /\ TInv /\ ConnAt(c) /\ inbox \in [Clients -> SUBSET Answer]
      /\ cpc \in [Clients -> {"idle", "status", "send"}] /\ calls \in [Clients -> 0 .. MaxCalls]
  BY DEF InboxInv, CInv, ConnInv, TInv, TypeOK
<1>4. ASSUME \/ \E d \in Clients : \E i \in DOMAIN wire[d] : Lose(d, i) \/ Recv(d, i)
             \/ \E d \in Clients, cmd \in Cmds, t \in Topics, resend \in Resend :
                  <<d, cmd, t>> \in Calls /\ Call(d, cmd, t, resend)
             \/ \E d \in Clients : ClientStep(d)
      PROVE  InboxOwn(c)'
  BY <1>4, InboxClients
<1>5. ASSUME NEW p \in msg, NEW answer, SendAnswer(p, answer)
      PROVE  inbox'[c] = IF Live(c, p) THEN {answer} ELSE inbox[c]
  <2>1. p \in Packet /\ TParts
    BY <1>1, TypeParts DEF TInv, TypeOK
  <2>2. inbox' = [d \in Clients |-> IF d = p.id[1] /\ p.conn = conn[d] THEN {answer} ELSE inbox[d]]
    BY <1>5, <2>1, SendAnswerFacts
  <2> QED  BY <2>2 DEF Live
<1>6. ASSUME NEW p \in msg, Working, Live(c, p)
      PROVE  p.id = CallId(c) /\ p.cmd = Expected(c)
  BY <1>1, <1>6 DEF ConnAt, Handling, Asks
<1>7. ASSUME NEW p \in msg, UNCHANGED <<cpc, calls>>, Working, NEW answer, SendAnswer(p, answer),
             Live(c, p) =>
               /\ answer.cmd = "REQUEST" => Reply(answer.ptrs, p.id)'
               /\ answer.cmd = "PUT" => done'[p.id] >= 1
      PROVE  InboxOwn(c)'
  <2>1. CASE ~Live(c, p)
    BY <1>1, <1>5, <1>7, <2>1, InboxFrame
  <2>2. CASE Live(c, p)
    <3>1. inbox'[c] = {answer} /\ CallId(c)' = p.id
      BY <1>5, <1>6, <1>7, <2>2 DEF CallId
    <3> QED  BY <1>7, <2>2, <3>1 DEF InboxOwn, Reply, Own
  <2> QED  BY <2>1, <2>2
<1>8. ASSUME NEW p \in msg, NoTopic(p)
      PROVE  InboxOwn(c)'
  <2>1. PICK answer : answer = [cmd |-> IF p.cmd = "STATUS" THEN "ABSENT" ELSE "ERROR",
                                topic |-> p.topic, ptrs |-> <<>>]
    OBVIOUS
  <2>2. answer.cmd \notin {"REQUEST", "PUT"}
    BY <2>1
  <2>3. SendAnswer(p, answer) /\ UNCHANGED <<cpc, calls>> /\ bpc = "dispatch"
    BY <1>8, <2>1 DEF NoTopic
  <2> QED  BY <1>7, <2>2, <2>3 DEF Working
<1>9. ASSUME NEW p \in msg, Serve(p)
      PROVE  InboxOwn(c)'
  <2>1. PICK answer : answer = [cmd |-> p.cmd, topic |-> p.topic,
                                ptrs |-> IF p.cmd \in {"PEEK", "POP"} THEN queue[p.topic] ELSE <<>>]
    OBVIOUS
  <2>2. answer.cmd = p.cmd
    BY <2>1
  <2>3. SendAnswer(p, answer) /\ UNCHANGED <<cpc, calls>> /\ bpc = "dispatch" /\ p.cmd # "REQUEST"
    BY <1>9, <2>1 DEF Serve
  <2>4. p.cmd = "PUT" => done'[p.id] >= 1
    <3>1. p.id \in Ids /\ done \in [Ids -> Nat]
      BY <1>1 DEF TInv, TypeOK, Packet
    <3> QED  BY <1>9, <3>1 DEF Serve, Took
  <2> QED  BY <1>7, <2>2, <2>3, <2>4 DEF Working
<1>10. ASSUME NEW p \in msg, AnswerAgain(p) \/ SendReply(p)
       PROVE  InboxOwn(c)'
  <2>1. PICK r : SendAnswer(p, r) /\ r.cmd = "REQUEST" /\ Reply(r.ptrs, p.id)
    BY <1>10, AnswerOwn
  <2>2. UNCHANGED <<cpc, calls>> /\ bpc \in {"dispatch", "await"}
    BY <1>10 DEF AnswerAgain, SendReply
  <2>3. p.id \in Ids
    BY <1>1 DEF TInv, TypeOK, Packet
  <2>4. Reply(r.ptrs, p.id)'
    BY <2>1, <2>3, ReplyKept
  <2> QED  BY <1>7, <2>1, <2>2, <2>4 DEF Working
<1>12. CASE \E p \in msg : RecordRequest(p) \/ EnqueueRequest(p) \/ Announce(p)
  BY <1>1, <1>12, InboxFrame DEF RecordRequest, EnqueueRequest, Announce
<1>13. CASE \E t : AddTopic(t) \/ PutData(t) \/ PopData(t)
  BY <1>1, <1>13, InboxFrame DEF AddTopic, PutData, PopData
<1>14. CASE BgStop \/ ServeRequests \/ ResetStartTime \/ Shutdown \/ UNCHANGED vars
  <2>1. UNCHANGED <<inbox, cpc, calls>>
    BY <1>14 DEF BgStop, ServeRequests, WaitForRequest, ReplyPut, ReplyFlag, ResetStartTime,
                 Shutdown, vars
  <2> QED  BY <1>1, <2>1, InboxFrame
<1> QED  BY <1>4, <1>8, <1>9, <1>10, <1>12, <1>13, <1>14 DEF Next, BgStep

(* How a call ends: if it returns, after what it is about.                 *)
LEMMA ClientEnds ==
    ASSUME CInv, InboxInv, resets = 0, NEW d \in Clients, ClientStep(d)
    PROVE  /\ cpc[d] # "idle" /\ calls' = calls /\ call' = call /\ done' = done
           /\ \/ results' = results
              \/ \E how \in {"returned", "threw"} : \E ptrs :
                   /\ Finish(d, how, ptrs)
                   /\ how = "returned" /\ call[d].cmd \in {"PUT", "REQUEST"} => done[CallId(d)] >= 1
                   /\ how = "returned" /\ call[d].cmd = "REQUEST" =>
                        ptrs = <<[by |-> "reply", of |-> CallId(d)]>>
<1> DEFINE Good(how, ptrs) ==
             /\ how = "returned" /\ call[d].cmd \in {"PUT", "REQUEST"} => done[CallId(d)] >= 1
             /\ how = "returned" /\ call[d].cmd = "REQUEST" =>
                  ptrs = <<[by |-> "reply", of |-> CallId(d)]>>
           Ending == \/ results' = results
                     \/ \E how \in {"returned", "threw"} : \E ptrs : Finish(d, how, ptrs) /\ Good(how, ptrs)
<1>1. cpc[d] # "idle" /\ calls' = calls /\ call' = call /\ done' = done
  <2>1. CASE StatusReply(d) \/ CallReply(d)
    BY <2>1 DEF StatusReply, CallReply, hist, clientVars
  <2>2. CASE StatusTimeout(d) \/ CallTimeout(d)
    BY <2>2 DEF StatusTimeout, CallTimeout, hist, clientVars
  <2> QED  BY <2>1, <2>2 DEF ClientStep
<1>2. ASSUME NEW how \in {"returned", "threw"}, NEW ptrs, Finish(d, how, ptrs),
             how = "threw" \/ call[d].cmd \notin {"PUT", "REQUEST"}
      PROVE  Ending
  BY <1>2
<1>3. ASSUME NEW how \in {"returned", "threw"}, NEW ptrs, Finish(d, how, ptrs), Good(how, ptrs)
      PROVE  Ending
  BY <1>3
<1>4. results' = results => Ending
  OBVIOUS
<1> SUFFICES Ending
  BY <1>1
<1> HIDE DEF Ending
<1>5. ASSUME NEW k, NEW exists, AfterStatus(d, k, exists)
      PROVE  Ending
  <2>1. CASE call[d].cmd = "STATUS"
    BY <1>2, <1>5, <2>1 DEF AfterStatus
  <2>2. CASE call[d].cmd # "STATUS"
    BY <1>5, <1>4, <2>2 DEF AfterStatus
  <2> QED  BY <2>1, <2>2
<1>6. CASE CallReply(d)
  <2>1. PICK r \in inbox[d] :
          LET good == /\ r.cmd = call[d].cmd
                      /\ r.topic = call[d].topic
                      /\ r.cmd = "REQUEST" => Len(r.ptrs) = 1
          IN  Finish(d, IF good THEN "returned" ELSE "threw", IF good THEN r.ptrs ELSE <<>>)
    BY <1>6 DEF CallReply
  <2> DEFINE good == /\ r.cmd = call[d].cmd
                     /\ r.topic = call[d].topic
                     /\ r.cmd = "REQUEST" => Len(r.ptrs) = 1
  <2>2. CASE ~good
    <3>1. Finish(d, "threw", <<>>)
      BY <2>1, <2>2
    <3> QED  BY <1>2, <3>1
  <2>3. CASE good
    <3>1. Finish(d, "returned", r.ptrs)
      BY <2>1, <2>3
    <3>2. CASE r.cmd = "PUT"
      <4>1. done[CallId(d)] >= 1
        BY <1>6, <3>2 DEF InboxInv, InboxOwn, CallReply
      <4>2. Good("returned", r.ptrs)
        BY <2>3, <3>2, <4>1
      <4> HIDE DEF Good
      <4> QED  BY <1>3, <3>1, <4>2
    <3>3. CASE r.cmd = "REQUEST"
      <4>1. Reply(r.ptrs, CallId(d))
        BY <3>3 DEF InboxInv, InboxOwn
      <4>2. Len(r.ptrs) = 1 /\ r.ptrs \in Seq(Entry)
        BY <2>3, <3>3 DEF CInv, TInv, TypeOK, Answer
      <4>3. 1 \in DOMAIN r.ptrs /\ r.ptrs[1] \in Entry /\ r.ptrs = <<r.ptrs[1]>>
        BY <4>2, LenProperties
      <4>4. r.ptrs[1].by = "reply" /\ r.ptrs[1].of = CallId(d) /\ done[CallId(d)] >= 1
        BY <4>1, <4>3 DEF Reply, Own
      <4>5. r.ptrs[1] = [by |-> "reply", of |-> CallId(d)]
        BY <4>3, <4>4 DEF Entry
      <4>6. Good("returned", r.ptrs)
        BY <4>3, <4>4, <4>5
      <4> HIDE DEF Good
      <4> QED  BY <1>3, <3>1, <4>6
    <3>4. CASE r.cmd \notin {"PUT", "REQUEST"}
      BY <1>2, <2>3, <3>1, <3>4
    <3> QED  BY <3>2, <3>3, <3>4
  <2> QED  BY <2>2, <2>3
<1>7. CASE CallTimeout(d)
  <2>1. results' = results \/ Finish(d, "threw", <<>>)
    BY <1>7 DEF CallTimeout
  <2> QED  BY <1>2, <1>4, <2>1
<1>8. CASE StatusReply(d)
  BY <1>5, <1>8 DEF StatusReply
<1>9. CASE StatusTimeout(d)
  <2>1. Finish(d, "threw", <<>>) \/ \E k, exists : AfterStatus(d, k, exists)
    BY <1>9 DEF StatusTimeout
  <2> QED  BY <1>2, <1>5, <2>1
<1> QED  BY <1>6, <1>7, <1>8, <1>9 DEF ClientStep

(* Calls that returned were stored or handled.                             *)
LEMMA ReturnNext ==
    ASSUME CInv, InboxInv, resets = 0 => ReturnMeansDone, [Next]_vars
    PROVE  (resets = 0 => ReturnMeansDone)'
<1> SUFFICES ASSUME resets' = 0, NEW c \in Clients, NEW n \in DOMAIN results'[c],
                    results'[c][n].how = "returned", results'[c][n].cmd \in {"PUT", "REQUEST"}
             PROVE  done'[<<c, n>>] >= 1
  BY DEF ReturnMeansDone, Returned, Ended
<1>1. resets = 0 /\ ReturnMeansDone
  BY DoneGrows
<1>2. TInv /\ results \in [Clients -> Seq(Result)] /\ DOMAIN results[c] = 1 .. Len(results[c])
      /\ Len(results[c]) \in Nat
  <2>1. TInv /\ results \in [Clients -> Seq(Result)]
    BY DEF CInv, TInv, TypeOK, Result
  <2> QED  BY <2>1, LenProperties
<1>3. CASE n \in DOMAIN results[c] /\ results'[c][n] = results[c][n]
  <2>1. done[<<c, n>>] >= 1
    BY <1>1, <1>3 DEF ReturnMeansDone, Returned, Ended
  <2>2. <<c, n>> \in Ids
    <3>1. n \in 1 .. Len(results[c]) /\ calls[c] \in 0 .. MaxCalls
          /\ calls[c] = Len(results[c]) + IF cpc[c] = "idle" THEN 0 ELSE 1
      BY <1>2, <1>3 DEF TInv, TypeOK, Counted
    <3>2. Len(results[c]) <= MaxCalls
      <4>1. CASE cpc[c] = "idle"
        BY <1>2, <3>1, <4>1, ConstantTypes
      <4>2. CASE cpc[c] # "idle"
        BY <1>2, <3>1, <4>2, ConstantTypes
      <4> QED  BY <4>1, <4>2
    <3> QED  BY <1>2, <3>1, <3>2, ConstantTypes DEF Ids
  <2> QED  BY <2>1, <2>2, DoneGrows
<1>4. CASE results' = results
  BY <1>3, <1>4
<1>5. ASSUME NEW d \in Clients, cpc[d] # "idle", calls' = calls, call' = call, done' = done,
             NEW how, NEW ptrs, Finish(d, how, ptrs),
             how = "returned" /\ call[d].cmd \in {"PUT", "REQUEST"} => done[CallId(d)] >= 1
      PROVE  done'[<<c, n>>] >= 1
  <2>1. CASE d # c
    <3>1. results \in [Clients -> Seq(Result)]
      BY <1>2 DEF TInv, TypeOK, Result
    <3>2. PICK res : results' = [results EXCEPT ![d] = Append(@, res)]
      BY <1>5 DEF Finish
    <3>3. results'[c] = results[c]
      BY <2>1, <3>1, <3>2
    <3> QED  BY <1>3, <3>3
  <2>2. CASE d = c
    <3>1. /\ DOMAIN results[c] = 1 .. Len(results[c]) /\ DOMAIN results'[c] = 1 .. calls[c]
          /\ calls[c] = Len(results[c]) + 1
          /\ \A m \in DOMAIN results[c] : results'[c][m] = results[c][m]
          /\ results'[c][calls[c]] = [cmd |-> call[c].cmd, how |-> how, ptrs |-> ptrs]
      BY <1>2, <1>5, <2>2, FinishFacts DEF Ended
    <3>2. CASE n = calls[c]
      <4>1. how = "returned" /\ call[c].cmd \in {"PUT", "REQUEST"}
        BY <3>1, <3>2
      <4> QED  BY <1>5, <2>2, <3>2, <4>1 DEF CallId
    <3>3. CASE n # calls[c]
      BY <1>2, <1>3, <3>1, <3>3
    <3> QED  BY <3>2, <3>3
  <2> QED  BY <2>1, <2>2
<1>6. ASSUME NEW d \in Clients, ClientStep(d)
      PROVE  done'[<<c, n>>] >= 1
  BY <1>1, <1>4, <1>5, <1>6, ClientEnds
<1>7. CASE \E d \in Clients, cmd \in Cmds, t \in Topics, resend \in Resend :
             <<d, cmd, t>> \in Calls /\ Call(d, cmd, t, resend)
  BY <1>4, <1>7 DEF Call
<1>8. CASE \E d \in Clients : \E i \in DOMAIN wire[d] : Lose(d, i) \/ Recv(d, i)
  BY <1>4, <1>8 DEF Lose, Recv, clientVars
<1>9. CASE \E p \in msg : AnswerStep(p)
  BY <1>4, <1>9 DEF AnswerStep
<1>10. CASE QuietStep
  BY <1>4, <1>10 DEF QuietStep, clientVars
<1> QED  BY <1>6, <1>7, <1>8, <1>9, <1>10, StepKinds

\* All of it, inductive.
CallsInv == CInv /\ HInv /\ ReqInv

LEMMA CallsNext ==
    ASSUME OwnQueue, StampsDiffer, CallsInv, [Next]_vars
    PROVE  CallsInv'
<1>1. CInv' /\ HInv'
  BY CInvNext, HInvNext DEF CallsInv
<1>2. LifeInv' /\ QueueInv' /\ DedupInv' /\ InboxInv'
  BY LifeNext, QueueNext, DedupNext, InboxNext DEF CallsInv, ReqInv
<1>3. (resets = 0 => ReturnMeansDone)'
  BY ReturnNext DEF CallsInv, ReqInv
<1> QED  BY <1>1, <1>2, <1>3 DEF CallsInv, ReqInv

LEMMA CallsInvHolds ==
    ASSUME OwnQueue, StampsDiffer
    PROVE  Spec => []CallsInv
<1>1. Init => CallsInv
  BY CInvInit, HInvInit, ReqInit DEF CallsInv
<1> QED  BY <1>1, CallsNext, PTL DEF Spec

\* Until reset_start_time is called there is one reply in the topic, in the
\* cache and in the answer.
OneReply(q) == resets = 0 => Len(q) = 1
Ready == bpc = "await" /\ (upc = "flag" \/ replyTopic # {})
LenInv ==
    /\ Ready => \A p \in msg : OneReply(queue[p.topic])
    /\ \A t \in Topics : \A r \in cached[t] : OneReply(r.ptrs)
    /\ \A c \in Clients : \A r \in inbox[c] : r.cmd = "REQUEST" => OneReply(r.ptrs)

LEMMA LenFrame ==
    ASSUME CInv, LenInv, [Next]_vars,
           Ready' => Ready /\ msg' = msg /\ \A p \in msg : queue'[p.topic] = queue[p.topic],
           \A t \in Topics : cached'[t] \subseteq cached[t],
           \A c \in Clients : \A r \in inbox'[c] :
              r \in inbox[c] \/ (r.cmd = "REQUEST" => OneReply(r.ptrs))
    PROVE  LenInv'
<1>1. resets' = 0 => resets = 0
  BY DoneGrows
<1>2. (Ready => \A p \in msg : OneReply(queue[p.topic]))'
  <2> SUFFICES ASSUME Ready', NEW p \in msg' PROVE OneReply(queue[p.topic])'
    OBVIOUS
  <2>1. p \in msg /\ OneReply(queue[p.topic]) /\ queue'[p.topic] = queue[p.topic]
    BY DEF LenInv
  <2> QED  BY <1>1, <2>1 DEF OneReply
<1>3. (\A t \in Topics : \A r \in cached[t] : OneReply(r.ptrs))'
  BY <1>1 DEF LenInv, OneReply
<1>4. (\A c \in Clients : \A r \in inbox[c] : r.cmd = "REQUEST" => OneReply(r.ptrs))'
  BY <1>1 DEF LenInv, OneReply
<1> QED  BY <1>2, <1>3, <1>4 DEF LenInv

\* An answer is in the inbox of the client that asked, or nowhere.
LEMMA AnswerGoes ==
    ASSUME CInv, NEW p \in msg, NEW answer, SendAnswer(p, answer), NEW c \in Clients,
           NEW r \in inbox'[c]
    PROVE  r \in inbox[c] \/ r = answer
<1>1. inbox \in [Clients -> SUBSET Answer]
  BY DEF CInv, TInv, TypeOK
<1> QED  BY <1>1 DEF SendAnswer

LEMMA LenThread ==
    ASSUME CInv, HInv, QueueInv, LenInv, [Next]_vars, BgStep
    PROVE  LenInv'
<1> USE DEF netVars, clientVars, topicVars, dedupVars, bgVars, userVars, hist
<1>1. /\ cached \in [Topics -> SUBSET Answer] /\ inbox \in [Clients -> SUBSET Answer]
      /\ \A p \in msg : p.topic \in Topics
  BY DEF CInv, TInv, TypeOK, Packet
<1>2. ASSUME NEW p \in msg, NEW answer, SendAnswer(p, answer), UNCHANGED cached,
             bpc' = "poll", answer.cmd = "REQUEST" => OneReply(answer.ptrs)
      PROVE  LenInv'
  <2>1. \A c \in Clients : \A r \in inbox'[c] :
           r \in inbox[c] \/ (r.cmd = "REQUEST" => OneReply(r.ptrs))
    BY <1>2, AnswerGoes
  <2> QED  BY <1>2, <2>1, LenFrame DEF Ready
<1>3. ASSUME UNCHANGED inbox, ~Ready', \A t \in Topics : cached'[t] \subseteq cached[t]
      PROVE  LenInv'
  BY <1>3, LenFrame
<1>4. CASE \E c \in Clients : \E i \in DOMAIN wire[c] : Recv(c, i)
  BY <1>3, <1>4 DEF Recv, Ready
<1>5. ASSUME NEW p \in msg, NoTopic(p)
      PROVE  LenInv'
  <2>1. PICK answer : answer = [cmd |-> IF p.cmd = "STATUS" THEN "ABSENT" ELSE "ERROR",
                                topic |-> p.topic, ptrs |-> <<>>]
    OBVIOUS
  <2>2. answer.cmd # "REQUEST"
    BY <2>1
  <2>3. SendAnswer(p, answer) /\ UNCHANGED cached /\ bpc' = "poll"
    BY <1>5, <2>1 DEF NoTopic
  <2> QED  BY <1>2, <2>2, <2>3
<1>6. ASSUME NEW p \in msg, Serve(p)
      PROVE  LenInv'
  <2>1. PICK answer : answer = [cmd |-> p.cmd, topic |-> p.topic,
                                ptrs |-> IF p.cmd \in {"PEEK", "POP"} THEN queue[p.topic] ELSE <<>>]
    OBVIOUS
  <2>2. answer.cmd = p.cmd
    BY <2>1
  <2>3. SendAnswer(p, answer) /\ UNCHANGED cached /\ bpc' = "poll" /\ p.cmd # "REQUEST"
    BY <1>6, <2>1 DEF Serve
  <2> QED  BY <1>2, <2>2, <2>3
<1>7. ASSUME NEW p \in msg, AnswerAgain(p)
      PROVE  LenInv'
  <2>1. PICK r \in cached[p.topic] : SendAnswer(p, r)
    BY <1>7 DEF AnswerAgain
  <2>2. OneReply(r.ptrs) /\ UNCHANGED cached /\ bpc' = "poll"
    BY <1>1, <1>7, <2>1 DEF LenInv, AnswerAgain
  <2> QED  BY <1>2, <2>1, <2>2
<1>8. ASSUME NEW p \in msg, RecordRequest(p)
      PROVE  LenInv'
  <2>1. \A t \in Topics : cached'[t] \subseteq cached[t]
    BY <1>1, <1>8 DEF RecordRequest
  <2>2. UNCHANGED inbox /\ ~Ready'
    BY <1>8 DEF RecordRequest, Ready
  <2> QED  BY <1>3, <2>1, <2>2
<1>9. ASSUME NEW p \in msg, EnqueueRequest(p)
      PROVE  LenInv'
  BY <1>3, <1>9 DEF EnqueueRequest, Ready
<1>10. ASSUME NEW p \in msg, Announce(p)
       PROVE  LenInv'
  <2>1. bpc = "announce" /\ UNCHANGED <<upc, serving, replyTopic, cached, inbox>>
    BY <1>10 DEF Announce
  <2>2. upc # "flag" /\ replyTopic = {}
    BY <2>1 DEF HInv, Handshake, Handover, Handled
  <2>3. ~Ready'
    BY <2>1, <2>2 DEF Ready
  <2> QED  BY <1>3, <2>1, <2>3
<1>11. ASSUME NEW p \in msg, SendReply(p)
       PROVE  LenInv'
  <2>1. PICK r : r = [cmd |-> "REQUEST", topic |-> p.topic, ptrs |-> queue[p.topic]]
    OBVIOUS
  <2>2. /\ SendAnswer(p, r) /\ bpc' = "poll" /\ bpc = "await" /\ replyTopic # {}
        /\ cached' = [cached EXCEPT ![p.topic] = {r}] /\ UNCHANGED resets
    BY <1>11, <2>1 DEF SendReply
  <2>3. OneReply(r.ptrs) /\ (OneReply(r.ptrs))'
    BY <2>1, <2>2 DEF LenInv, Ready, OneReply
  <2>4. (\A t \in Topics : \A x \in cached[t] : OneReply(x.ptrs))'
    <3> SUFFICES ASSUME NEW t \in Topics, NEW x \in cached'[t] PROVE OneReply(x.ptrs)'
      OBVIOUS
    <3>1. CASE t = p.topic
      BY <1>1, <2>2, <2>3, <3>1
    <3>2. CASE t # p.topic
      BY <1>1, <2>2, <3>2 DEF LenInv, OneReply
    <3> QED  BY <3>1, <3>2
  <2>5. (\A c \in Clients : \A x \in inbox[c] : x.cmd = "REQUEST" => OneReply(x.ptrs))'
    <3> SUFFICES ASSUME NEW c \in Clients, NEW x \in inbox'[c], x.cmd = "REQUEST"
                 PROVE  OneReply(x.ptrs)'
      OBVIOUS
    <3>1. x \in inbox[c] \/ x = r
      BY <2>2, AnswerGoes
    <3> QED  BY <2>2, <2>3, <3>1 DEF LenInv, OneReply
  <2>6. ~Ready'
    BY <2>2 DEF Ready
  <2> QED  BY <2>4, <2>5, <2>6 DEF LenInv
<1>12. CASE BgStop
  BY <1>3, <1>12 DEF BgStop, Ready
<1> QED  BY <1>4, <1>5, <1>6, <1>7, <1>8, <1>9, <1>10, <1>11, <1>12 DEF BgStep

LEMMA LenProgram ==
    ASSUME CInv, HInv, LifeInv, QueueInv, LenInv, [Next]_vars, ServeRequests \/ ResetStartTime
    PROVE  LenInv'
<1> USE DEF netVars, clientVars, topicVars, dedupVars, bgVars, userVars, hist
<1>1. /\ queue \in [Topics -> Seq(Entry)]
      /\ \A p \in msg : p.topic \in Topics
  BY DEF CInv, TInv, TypeOK, Packet
<1>2. CASE WaitForRequest
  <2>1. newRequest # {} /\ upc' = "reply" /\ UNCHANGED <<replyTopic, cached, inbox>>
    BY <1>2 DEF WaitForRequest
  <2>2. ~Ready'
    BY <2>1 DEF Ready, HInv, Handshake
  <2> QED  BY <2>1, <2>2, LenFrame
<1>3. CASE ReplyPut
  <2>1. PICK s \in serving : \E q \in Pushed(queue[s.topic], [by |-> "reply", of |-> s.of]) :
          queue' = [queue EXCEPT ![s.topic] = q]
    BY <1>3 DEF ReplyPut
  <2>2. /\ upc = "reply" /\ UNCHANGED <<bpc, msg, cached, inbox, resets>>
    BY <1>3 DEF ReplyPut
  <2>3. s.topic \in Asked /\ bpc \in {"await", "stopped"}
    BY <2>1, <2>2 DEF HInv, Handshake, Handover, Handled
  <2> DEFINE e == [by |-> "reply", of |-> s.of]
  <2>4. e \in Entry
    BY <2>1 DEF Entry, CInv, TInv, TypeOK
  <2>5. PICK q \in Pushed(queue[s.topic], e) : queue' = [queue EXCEPT ![s.topic] = q]
    BY <2>1
  <2> HIDE DEF e
  <2>6. ASSUME NEW p \in msg, bpc = "await" PROVE OneReply(queue[p.topic])'
    <3>1. p.topic = s.topic /\ p.topic \in Topics
      BY <1>1, <2>3, <2>6 DEF Asked, HInv
    <3>2. queue[s.topic] = <<>>
      BY <2>2, <2>6, <3>1 DEF QueueInv, Running
    <3>3. q = <<e>>
      BY <1>1, <2>4, <2>5, <3>1, <3>2, PushedFacts
    <3>4. queue'[p.topic] = <<e>> /\ Len(<<e>>) = 1
      BY <1>1, <2>5, <3>1, <3>3
    <3> QED  BY <3>4 DEF OneReply
  <2> QED  BY <2>2, <2>6 DEF LenInv, Ready, OneReply
<1>4. CASE ReplyFlag
  <2>1. upc = "flag" /\ UNCHANGED <<bpc, msg, queue, cached, inbox>>
    BY <1>4 DEF ReplyFlag
  <2> QED  BY <2>1, LenFrame DEF Ready
<1>5. CASE ResetStartTime
  <2>1. resets' > 0
    BY <1>5, DoneGrows DEF ResetStartTime
  <2> QED  BY <2>1 DEF LenInv, OneReply
<1> QED  BY <1>2, <1>3, <1>4, <1>5 DEF ServeRequests

LEMMA LenNext ==
    ASSUME OwnQueue, CInv, HInv, LifeInv, QueueInv, LenInv, [Next]_vars
    PROVE  LenInv'
<1> USE DEF netVars, clientVars, topicVars, dedupVars, bgVars, userVars, hist
<1>1. queue \in [Topics -> Seq(Entry)] /\ inbox \in [Clients -> SUBSET Answer]
  BY DEF CInv, TInv, TypeOK
<1>2. CASE \E c \in Clients : \/ \E i \in DOMAIN wire[c] : Lose(c, i)
                              \/ \E cmd, t, resend : Call(c, cmd, t, resend)
  <2>1. UNCHANGED <<bpc, msg, replyTopic, upc, queue, cached, inbox>>
    BY <1>2 DEF Lose, Call
  <2> QED  BY <2>1, LenFrame DEF Ready
<1>3. ASSUME NEW c \in Clients, ClientStep(c)
      PROVE  LenInv'
  <2>1. UNCHANGED <<bpc, msg, replyTopic, upc, queue, cached>>
    BY <1>3 DEF ClientStep, StatusReply, StatusTimeout, CallReply, CallTimeout
  <2>2. inbox' = [inbox EXCEPT ![c] = {}]
    BY <1>3 DEF ClientStep, StatusReply, StatusTimeout, CallReply, CallTimeout, Reconnect
  <2>3. \A d \in Clients : inbox'[d] \subseteq inbox[d]
    BY <1>1, <2>2
  <2> QED  BY <2>1, <2>3, LenFrame DEF Ready
<1>4. ASSUME NEW t \in Topics, AddTopic(t)
      PROVE  LenInv'
  BY <1>4, LenFrame DEF AddTopic, Ready
<1>5. ASSUME NEW t \in PutTopics, PutData(t) \/ PopData(t)
      PROVE  LenInv'
  <2>1. /\ UNCHANGED <<bpc, msg, replyTopic, upc, cached, inbox>>
        /\ \E q : queue' = [queue EXCEPT ![t] = q]
    BY <1>5 DEF PutData, PopData
  <2>2. ASSUME Ready, NEW p \in msg PROVE queue'[p.topic] = queue[p.topic]
    <3>1. p.topic \in RequestTopics /\ p.topic \in Topics
      BY <2>2, TheRequest DEF Ready, Waiting
    <3>2. p.topic # t
      BY <3>1 DEF OwnQueue
    <3> QED  BY <1>1, <2>1, <3>1, <3>2
  <2> QED  BY <2>1, <2>2, LenFrame DEF Ready
<1>6. CASE Shutdown
  <2>1. upc' = "gone" /\ UNCHANGED <<bpc, msg, replyTopic, queue, cached, inbox>>
    BY <1>6 DEF Shutdown
  <2> QED  BY <2>1, LenFrame DEF Ready
<1>7. CASE UNCHANGED vars
  BY <1>7, LenFrame DEF vars, Ready
<1> QED  BY <1>2, <1>3, <1>4, <1>5, <1>6, <1>7, LenThread, LenProgram DEF Next

LEMMA LenInvHolds ==
    ASSUME OwnQueue, StampsDiffer
    PROVE  Spec => [](CallsInv /\ LenInv)
<1>1. Spec => []CallsInv
  BY CallsInvHolds
<1>2. Init => LenInv
  BY DEF Init, LenInv, Ready
<1>3. CallsInv /\ LenInv /\ [Next]_vars => LenInv'
  BY LenNext DEF CallsInv, ReqInv
<1> QED  BY <1>1, <1>2, <1>3, PTL DEF Spec

(* What a client is sent in answer to request_with_data is the reply to    *)
(* that very request, just made or out of the cache (AnswersOwn), however  *)
(* packets were lost, repeated and reordered, and also when                *)
(* reset_start_time was called, provided that the topics of requests are   *)
(* used for nothing else and the clocks of their clients differ.           *)
THEOREM AnswersAreOwn ==
    ASSUME OwnQueue, StampsDiffer
    PROVE  Spec => []AnswersOwn
<1>1. CallsInv /\ LenInv => AnswersOwn
  <2> SUFFICES ASSUME CallsInv, LenInv, NEW c \in Clients, NEW r \in inbox[c], r.cmd = "REQUEST"
               PROVE  /\ \A i \in DOMAIN r.ptrs :
                           r.ptrs[i].by = "reply" /\ r.ptrs[i].of \in {CallId(c), NoId}
                      /\ resets = 0 => Len(r.ptrs) = 1 /\ r.ptrs[1].of = CallId(c)
    BY DEF AnswersOwn
  <2>1. Reply(r.ptrs, CallId(c))
    BY DEF CallsInv, ReqInv, InboxInv, InboxOwn
  <2>2. r.ptrs \in Seq(Entry)
    BY DEF CallsInv, CInv, TInv, TypeOK, Answer
  <2>3. Len(r.ptrs) = 1 => 1 \in DOMAIN r.ptrs
    BY <2>2, LenProperties
  <2>4. resets = 0 => Len(r.ptrs) = 1
    BY DEF LenInv, OneReply
  <2> QED  BY <2>1, <2>3, <2>4 DEF Reply, Own
<1> QED  BY <1>1, LenInvHolds, PTL

(* put_data and request_with_data return only after the message was stored *)
(* or the request handled (ReturnMeansDone), however packets were lost,    *)
(* repeated and reordered, as long as reset_start_time is not called: it   *)
(* may take away a request that is still to be handled.                    *)
THEOREM ReturnsAreDone ==
    ASSUME OwnQueue, StampsDiffer
    PROVE  Spec => [](resets = 0 => ReturnMeansDone)
<1>1. CallsInv => (resets = 0 => ReturnMeansDone)
  BY DEF CallsInv, ReqInv
<1> QED  BY <1>1, CallsInvHolds, PTL

-----------------------------------------------------------------------------
(* At most one run of a request: with packets in the order sent, one       *)
(* client per topic, and before the first call of reset_start_time.        *)

OneClient ==
    \A x, y \in Calls : x[2] = "REQUEST" /\ y[2] = "REQUEST" /\ x[3] = y[3] => x[1] = y[1]

\* The packets of c come in the order of its calls.
OrderAt(c) ==
    /\ \A i, j \in DOMAIN wire[c] : i <= j => wire[c][i].id[2] <= wire[c][j].id[2]
    /\ \A p \in msg : Working /\ p.id[1] = c =>
         \A i \in DOMAIN wire[c] : p.id[2] <= wire[c][i].id[2]

\* Requests of c that may still come to the thread: topic and number of the call.
Pending(c) ==
    {<<wire[c][i].topic, wire[c][i].id[2]>> : i \in {j \in DOMAIN wire[c] : wire[c][j].cmd = "REQUEST"}}
    \union {<<p.topic, p.id[2]>> : p \in {q \in msg : Working /\ q.id[1] = c /\ q.cmd = "REQUEST"}}
    \union {x \in {<<call[c].topic, calls[c]>>} : cpc[c] # "idle" /\ call[c].cmd = "REQUEST"}

\* The thread will know it again, when it comes.
Settled(c, x) ==
    /\ Epoch[c] + x[2] \in lastTs[x[1]]
    /\ \/ cached[x[1]] # {}
       \/ Waiting /\ \E p \in msg : p.topic = x[1] /\ p.id = <<c, x[2]>>

PendingAt(c) ==
    /\ \A x, y \in Pending(c) : x[2] = y[2] => x[1] = y[1]
    /\ \A x \in Pending(c) : \A s \in lastTs[x[1]] : s <= Epoch[c] + x[2]
    /\ bpc # "stopped" => \A x \in Pending(c) : done[<<c, x[2]>>] = 0 \/ Settled(c, x)

\* The request the thread waits with has the last stamp, and has not run
\* until the program takes the announcement.
UnderHand ==
    Waiting => \A p \in msg :
        /\ Stamp(p) \in lastTs[p.topic]
        /\ bpc # "await" \/ newRequest # {} => done[p.id] = 0

RunInv ==
    /\ \A id \in Ids : id[2] > calls[id[1]] => done[id] = 0
    /\ \A id \in Ids : SentRequest(id) => done[id] <= 1

StampPast ==
    \A c \in Clients, t \in Topics : <<c, "REQUEST", t>> \in Calls =>
        \A s \in lastTs[t] : s <= Epoch[c] + calls[c]

SeqInv ==
    /\ \A c \in Clients : OrderAt(c) /\ PendingAt(c)
    /\ UnderHand
    /\ RunInv
    /\ StampPast

LEMMA SeqInit == Init => SeqInv
<1> SUFFICES ASSUME Init PROVE SeqInv
  OBVIOUS
<1>1. \A c \in Clients : DOMAIN wire[c] = {} /\ cpc[c] = "idle"
  BY DEF Init
<1>2. msg = {} /\ \A id \in Ids : done[id] = 0
  BY DEF Init
<1>3. ASSUME NEW c \in Clients PROVE OrderAt(c) /\ PendingAt(c)
  <2>1. Pending(c) = {}
    BY <1>1, <1>2 DEF Pending
  <2> QED  BY <1>1, <1>2, <2>1 DEF OrderAt, PendingAt
<1>4. UnderHand /\ RunInv
  BY <1>2 DEF UnderHand, RunInv
<1>5. StampPast
  BY DEF Init, StampPast
<1> QED  BY <1>3, <1>4, <1>5 DEF SeqInv

(* What the step of a client sends.                                        *)
LEMMA ClientSends ==
    ASSUME CInv, NEW d \in Clients, ClientStep(d)
    PROVE  /\ cpc[d] # "idle"
           /\ UNCHANGED <<calls, call, bpc, msg, lastTs, cached, done, newRequest>>
           /\ \A e \in Clients \ {d} : cpc'[e] = cpc[e]
           /\ wire' = wire \/ \E k, cmd : /\ Send(d, k, cmd, call[d].topic)
                                          /\ cmd = "REQUEST" => call[d].cmd = "REQUEST"
<1> USE DEF netVars, clientVars, topicVars, dedupVars, bgVars, userVars, hist
<1>1. cpc \in [Clients -> {"idle", "status", "send"}]
      /\ (cpc[d] = "status" => call[d].cmd \in {"STATUS", "REQUEST"})
  BY DEF CInv, TInv, TypeOK, ConnInv, ConnAt, Begun
<1>2. ASSUME NEW how, NEW ptrs, Finish(d, how, ptrs)
      PROVE  \A e \in Clients \ {d} : cpc'[e] = cpc[e]
  BY <1>1, <1>2 DEF Finish
<1>3. ASSUME NEW k, NEW exists, AfterStatus(d, k, exists), cpc[d] = "status"
      PROVE  /\ \A e \in Clients \ {d} : cpc'[e] = cpc[e]
             /\ wire' = wire \/ \E n, cmd : /\ Send(d, n, cmd, call[d].topic)
                                            /\ cmd = "REQUEST" => call[d].cmd = "REQUEST"
  <2>1. CASE call[d].cmd = "STATUS"
    BY <1>2, <1>3, <2>1 DEF AfterStatus
  <2>2. CASE call[d].cmd # "STATUS"
    <3>1. cpc' = [cpc EXCEPT ![d] = "send"] /\ Send(d, k, "REQUEST", call[d].topic)
      BY <1>3, <2>2 DEF AfterStatus
    <3>2. call[d].cmd = "REQUEST"
      BY <1>1, <1>3, <2>2
    <3> QED  BY <1>1, <3>1, <3>2
  <2> QED  BY <2>1, <2>2
<1>4. CASE StatusReply(d)
  <2>1. /\ cpc[d] = "status" /\ \E k, exists : AfterStatus(d, k, exists)
        /\ UNCHANGED <<calls, call, bpc, msg, lastTs, cached, done, newRequest>>
    BY <1>4 DEF StatusReply
  <2> QED  BY <1>3, <2>1
<1>5. CASE StatusTimeout(d)
  <2>1. /\ cpc[d] = "status"
        /\ (Finish(d, "threw", <<>>) /\ wire' = wire) \/ \E k, exists : AfterStatus(d, k, exists)
        /\ UNCHANGED <<calls, call, bpc, msg, lastTs, cached, done, newRequest>>
    BY <1>5 DEF StatusTimeout
  <2> QED  BY <1>2, <1>3, <2>1
<1>6. CASE CallReply(d)
  <2>1. /\ cpc[d] = "send" /\ (\E how, ptrs : Finish(d, how, ptrs)) /\ wire' = wire
        /\ UNCHANGED <<calls, call, bpc, msg, lastTs, cached, done, newRequest>>
    BY <1>6 DEF CallReply
  <2> QED  BY <1>2, <2>1
<1>7. CASE CallTimeout(d)
  <2>1. /\ cpc[d] = "send"
        /\ \/ Finish(d, "threw", <<>>) /\ wire' = wire
           \/ cpc' = cpc /\ \E k : Send(d, k, call[d].cmd, call[d].topic)
        /\ UNCHANGED <<calls, call, bpc, msg, lastTs, cached, done, newRequest>>
    BY <1>7 DEF CallTimeout
  <2>2. CASE Finish(d, "threw", <<>>) /\ wire' = wire
    BY <1>2, <2>1, <2>2
  <2>3. CASE cpc' = cpc /\ \E k : Send(d, k, call[d].cmd, call[d].topic)
    BY <2>1, <2>3
  <2> QED  BY <2>1, <2>2, <2>3
<1> QED  BY <1>4, <1>5, <1>6, <1>7 DEF ClientStep

(* The packets on the wire after a packet was sent.                        *)
LEMMA SentLast ==
    ASSUME TInv, NEW d \in Clients, NEW k, NEW cmd, NEW t, Send(d, k, cmd, t)
    PROVE  \E n \in Nat :
             /\ DOMAIN wire'[d] = 1 .. n + 1 /\ DOMAIN wire[d] = 1 .. n
             /\ \A i \in 1 .. n : wire'[d][i] = wire[d][i]
             /\ /\ wire'[d][n + 1].id = CallId(d)'
                /\ wire'[d][n + 1].cmd = cmd
                /\ wire'[d][n + 1].topic = t
             /\ \A e \in Clients \ {d} : wire'[e] = wire[e]
<1> DEFINE p == [id |-> <<d, calls'[d]>>, cmd |-> cmd, topic |-> t, conn |-> k]
<1>1. p.id = CallId(d)' /\ p.cmd = cmd /\ p.topic = t
  BY DEF CallId
<1>2. /\ DOMAIN wire'[d] = 1 .. Len(wire[d]) + 1 /\ DOMAIN wire[d] = 1 .. Len(wire[d])
      /\ Len(wire[d]) \in Nat
      /\ \A i \in DOMAIN wire[d] : wire'[d][i] = wire[d][i]
      /\ wire'[d][Len(wire[d]) + 1] = p
      /\ \A e \in Clients \ {d} : wire'[e] = wire[e]
  BY SendFacts
<1> HIDE DEF p
<1> QED  BY <1>1, <1>2

\* Packets taken from the wire leave the others in their order.
LEMMA TakenOut ==
    ASSUME TInv, NEW d \in Clients, NEW i \in DOMAIN wire[d], Lose(d, i) \/ Recv(d, i)
    PROVE  /\ \A e \in Clients : \A j \in DOMAIN wire'[e] :
                \E k \in DOMAIN wire[e] :
                  /\ wire'[e][j] = wire[e][k]
                  /\ k = IF e # d \/ j < i THEN j ELSE j + 1
           /\ \A e \in Clients : \A j \in DOMAIN wire'[e] : j \in Nat
           /\ i \in Nat
<1>1. wire \in [Clients -> Seq(Packet)] /\ wire' = [wire EXCEPT ![d] = RemoveAt(@, i)]
  BY DEF TInv, TypeOK, Lose, Recv
<1>2. \A e \in Clients : DOMAIN wire[e] = 1 .. Len(wire[e]) /\ Len(wire[e]) \in Nat
  BY <1>1, LenProperties
<1>3. /\ DOMAIN wire'[d] = 1 .. Len(wire[d]) - 1
      /\ \A j \in 1 .. Len(wire[d]) - 1 : wire'[d][j] = IF j < i THEN wire[d][j] ELSE wire[d][j + 1]
  BY <1>1, RemoveAtFacts
<1>4. \A e \in Clients \ {d} : wire'[e] = wire[e]
  BY <1>1
<1>5. i \in Nat
  BY <1>2
<1>6. ASSUME NEW e \in Clients, NEW j \in DOMAIN wire'[e]
      PROVE  /\ j \in Nat
             /\ \E k \in DOMAIN wire[e] :
                  /\ wire'[e][j] = wire[e][k]
                  /\ k = IF e # d \/ j < i THEN j ELSE j + 1
  <2>1. CASE e # d
    BY <1>2, <1>4, <2>1
  <2>2. CASE e = d
    <3>1. j \in 1 .. Len(wire[d]) - 1
      BY <1>3, <2>2
    <3>2. j \in Nat /\ j \in 1 .. Len(wire[d]) /\ j + 1 \in 1 .. Len(wire[d])
      BY <1>2, <3>1
    <3> QED  BY <1>2, <1>3, <2>2, <3>1, <3>2
  <2> QED  BY <2>1, <2>2
<1> QED  BY <1>5, <1>6

LEMMA OrderNext ==
    ASSUME InOrder, CInv, \A c \in Clients : OrderAt(c), [Next]_vars
    PROVE  \A c \in Clients : OrderAt(c)'
<1> USE DEF netVars, clientVars, topicVars, dedupVars, bgVars, userVars, hist
<1> SUFFICES ASSUME NEW c \in Clients PROVE OrderAt(c)'
  OBVIOUS
<1>1. TInv /\ OrderAt(c)
  BY DEF CInv
<1>2. ASSUME wire'[c] = wire[c], \A p \in msg' : Working' => Working /\ p \in msg
      PROVE  OrderAt(c)'
  BY <1>1, <1>2 DEF OrderAt
<1>3. \A i \in DOMAIN wire[c] : i \in Nat /\ wire[c][i].id[2] \in Nat /\ wire[c][i].id[2] <= calls[c]
  <2>1. wire[c] \in Seq(Packet)
    BY <1>1 DEF TInv, TypeOK
  <2>2. ASSUME NEW i \in DOMAIN wire[c]
        PROVE  i \in Nat /\ wire[c][i].id \in Ids
    <3>1. i \in 1 .. Len(wire[c]) /\ Len(wire[c]) \in Nat /\ wire[c][i] \in Packet
      BY <2>1, <2>2, LenProperties
    <3> QED  BY <3>1 DEF Packet
  <2>3. \A i \in DOMAIN wire[c] : wire[c][i].id[2] <= calls[c]
    BY DEF CInv, ConnInv, ConnAt, Sent
  <2> QED  BY <2>2, <2>3 DEF Ids
<1>4. \A p \in msg : p.id[1] = c => p.id[2] \in Nat /\ p.id[2] <= calls[c]
  <2>1. \A p \in msg : p.id \in Ids
    BY <1>1 DEF TInv, TypeOK, Packet
  <2>2. \A p \in msg : p.id[2] \in Nat
    BY <2>1 DEF Ids
  <2>3. \A p \in msg : p.id[1] = c => p.id[2] <= calls[c]
    BY DEF CInv, ConnInv, ConnAt, Sent
  <2> QED  BY <2>2, <2>3
<1>5. ASSUME NEW d \in Clients, NEW i \in DOMAIN wire[d], Lose(d, i)
      PROVE  OrderAt(c)'
  <2>1. UNCHANGED <<bpc, msg>>
    BY <1>5 DEF Lose
  <2>2. /\ \A j \in DOMAIN wire'[c] :
             \E k \in DOMAIN wire[c] :
               /\ wire'[c][j] = wire[c][k]
               /\ k = IF c # d \/ j < i THEN j ELSE j + 1
        /\ \A j \in DOMAIN wire'[c] : j \in Nat
        /\ i \in Nat
    BY <1>1, <1>5, TakenOut
  <2> QED  BY <1>1, <2>1, <2>2 DEF OrderAt, Working
<1>6. ASSUME NEW d \in Clients, NEW i \in DOMAIN wire[d], Recv(d, i)
      PROVE  OrderAt(c)'
  <2>1. i = 1 /\ msg' = {wire[d][i]}
    BY <1>6 DEF Recv
  <2>2. /\ \A j \in DOMAIN wire'[c] :
             \E k \in DOMAIN wire[c] :
               /\ wire'[c][j] = wire[c][k]
               /\ k = IF c # d \/ j < i THEN j ELSE j + 1
        /\ \A j \in DOMAIN wire'[c] : j \in Nat
    BY <1>1, <1>6, TakenOut
  <2>3. wire[d][i].id[1] = d
    BY DEF CInv, ConnInv, ConnAt, Sent
  <2>4. d = c => \A k \in DOMAIN wire[c] : wire[c][1].id[2] <= wire[c][k].id[2]
    <3> SUFFICES ASSUME d = c, NEW k \in DOMAIN wire[c] PROVE wire[c][1].id[2] <= wire[c][k].id[2]
      OBVIOUS
    <3>1. 1 <= k
      BY <1>1, LenProperties DEF TInv, TypeOK
    <3> QED  BY <1>1, <2>1, <3>1 DEF OrderAt
  <2>5. \A p \in msg' : p.id[1] = c => \A j \in DOMAIN wire'[c] : p.id[2] <= wire'[c][j].id[2]
    BY <2>1, <2>2, <2>3, <2>4
  <2>6. \A j, k \in DOMAIN wire'[c] : j <= k => wire'[c][j].id[2] <= wire'[c][k].id[2]
    BY <1>1, <2>1, <2>2 DEF OrderAt
  <2> QED  BY <2>5, <2>6 DEF OrderAt
<1>7. ASSUME NEW k, NEW cmd, NEW t, Send(c, k, cmd, t), UNCHANGED <<bpc, msg>>, calls'[c] >= calls[c],
             calls[c] \in Nat, calls'[c] \in Nat
      PROVE  OrderAt(c)'
  <2>1. PICK n \in Nat : /\ DOMAIN wire'[c] = 1 .. n + 1 /\ DOMAIN wire[c] = 1 .. n
                         /\ \A i \in 1 .. n : wire'[c][i] = wire[c][i]
                         /\ wire'[c][n + 1].id = CallId(c)'
    BY <1>1, <1>7, SentLast
  <2>2. wire'[c][n + 1].id[2] = calls'[c]
    BY <2>1 DEF CallId
  <2>3. \A j \in 1 .. n + 1 : j \in Nat /\ (j = n + 1 \/ j \in 1 .. n)
    BY <2>1
  <2>4. \A j, m \in 1 .. n + 1 : j <= m => wire'[c][j].id[2] <= wire'[c][m].id[2]
    <3> SUFFICES ASSUME NEW j \in 1 .. n + 1, NEW m \in 1 .. n + 1, j <= m
                 PROVE  wire'[c][j].id[2] <= wire'[c][m].id[2]
      OBVIOUS
    <3>1. CASE m \in 1 .. n
      BY SMTT(20), <1>1, <2>1, <3>1 DEF OrderAt
    <3>2. CASE m = n + 1 /\ j \in 1 .. n
      <4>1. wire'[c][j].id[2] = wire[c][j].id[2] /\ wire'[c][m].id[2] = calls'[c]
        BY <2>1, <2>2, <3>2
      <4>2. wire[c][j].id[2] \in Nat /\ wire[c][j].id[2] <= calls[c]
        BY <1>3, <2>1, <3>2
      <4> QED  BY <1>7, <4>1, <4>2
    <3>3. CASE m = n + 1 /\ j = n + 1
      BY <1>7, <2>2, <3>3
    <3> QED  BY <2>3, <3>1, <3>2, <3>3
  <2>5. \A p \in msg : Working /\ p.id[1] = c => \A j \in 1 .. n + 1 : p.id[2] <= wire'[c][j].id[2]
    <3> SUFFICES ASSUME NEW p \in msg, Working, p.id[1] = c, NEW j \in 1 .. n + 1
                 PROVE  p.id[2] <= wire'[c][j].id[2]
      OBVIOUS
    <3>1. CASE j \in 1 .. n
      BY <1>1, <2>1, <3>1 DEF OrderAt
    <3>2. CASE j = n + 1
      BY <1>4, <1>7, <2>2, <3>2
    <3> QED  BY <2>3, <3>1, <3>2
  <2> QED  BY <1>7, <2>1, <2>4, <2>5 DEF OrderAt, Working
<1>8. ASSUME NEW d \in Clients, NEW cmd, NEW t, NEW resend, Call(d, cmd, t, resend)
      PROVE  OrderAt(c)'
  <2>1. UNCHANGED <<bpc, msg>> /\ (\E k, first : Send(d, k, first, t)) /\ calls' = [calls EXCEPT ![d] = @ + 1]
    BY <1>8 DEF Call
  <2>2. CASE d = c
    <3>1. calls'[c] = calls[c] + 1 /\ calls[c] \in Nat
      BY <1>1, <2>1, <2>2, CountTypes DEF TInv, TypeOK
    <3> QED  BY <1>7, <2>1, <2>2, <3>1
  <2>3. CASE d # c
    <3>1. wire'[c] = wire[c]
      BY <1>1, <2>1, <2>3, SentLast
    <3> QED  BY <1>2, <2>1, <3>1 DEF Working
  <2> QED  BY <2>2, <2>3
<1>9. ASSUME NEW d \in Clients, ClientStep(d)
      PROVE  OrderAt(c)'
  <2>1. /\ UNCHANGED <<calls, bpc, msg>>
        /\ wire' = wire \/ \E k, cmd : Send(d, k, cmd, call[d].topic)
    BY <1>9, ClientSends
  <2>2. CASE wire' = wire
    BY <1>2, <2>1, <2>2 DEF Working
  <2>3. CASE d = c /\ \E k, cmd : Send(d, k, cmd, call[d].topic)
    <3>1. calls'[c] = calls[c] /\ calls[c] \in Nat
      BY <1>1, <2>1, CountTypes
    <3> QED  BY <1>7, <2>1, <2>3, <3>1
  <2>4. CASE d # c /\ \E k, cmd : Send(d, k, cmd, call[d].topic)
    <3>1. wire'[c] = wire[c]
      BY <1>1, <2>4, SentLast
    <3> QED  BY <1>2, <2>1, <3>1 DEF Working
  <2> QED  BY <2>1, <2>2, <2>3, <2>4
<1>10. CASE \E p \in msg : AnswerStep(p)
  <2>1. UNCHANGED wire /\ ~Working'
    BY <1>10 DEF AnswerStep, Working
  <2> QED  BY <1>2, <2>1
<1>11. CASE QuietStep
  BY <1>2, <1>11 DEF QuietStep
<1> QED  BY <1>5, <1>6, <1>8, <1>9, <1>10, <1>11, StepKinds

\* What is known of a pending request.
LEMMA PendingFacts ==
    ASSUME CInv, NEW c \in Clients, NEW x \in Pending(c)
    PROVE  /\ x = <<x[1], x[2]>> /\ x[2] \in Nat /\ x[2] <= calls[c] /\ calls[c] \in Nat
           /\ x[1] \in Topics /\ <<c, "REQUEST", x[1]>> \in Calls
           /\ SentRequest(<<c, x[2]>>) /\ <<c, x[2]>> \in Ids
<1>1. TInv /\ ConnAt(c) /\ wire[c] \in Seq(Packet)
  BY DEF CInv, ConnInv, TInv, TypeOK
<1>2. ASSUME NEW p \in Packet, Sent(c, p), p.cmd = "REQUEST", x = <<p.topic, p.id[2]>>
      PROVE  /\ x = <<x[1], x[2]>> /\ x[2] \in Nat /\ x[2] <= calls[c]
             /\ x[1] \in Topics /\ <<c, "REQUEST", x[1]>> \in Calls
             /\ SentRequest(<<c, x[2]>>) /\ <<c, x[2]>> \in Ids
  <2>1. p.id \in Ids /\ p.topic \in Topics /\ x[1] = p.topic /\ x[2] = p.id[2]
    BY <1>2 DEF Packet
  <2>2. p.id = <<c, x[2]>> /\ x[2] \in Nat
    BY <1>2, <2>1 DEF Ids, Sent
  <2> QED  BY <1>2, <2>1, <2>2 DEF Sent, SentRequest
<1>3. ASSUME NEW i \in DOMAIN wire[c], wire[c][i].cmd = "REQUEST",
             x = <<wire[c][i].topic, wire[c][i].id[2]>>
      PROVE  \E p \in Packet : Sent(c, p) /\ p.cmd = "REQUEST" /\ x = <<p.topic, p.id[2]>>
  <2>1. wire[c][i] \in Packet
    BY <1>1, LenProperties
  <2> QED  BY <1>1, <1>3, <2>1 DEF ConnAt
<1>4. ASSUME NEW p \in msg, p.id[1] = c, p.cmd = "REQUEST", x = <<p.topic, p.id[2]>>
      PROVE  p \in Packet /\ Sent(c, p)
  BY <1>1, <1>4 DEF ConnAt, TInv, TypeOK
<1>5. ASSUME cpc[c] # "idle", call[c].cmd = "REQUEST", x = <<call[c].topic, calls[c]>>
      PROVE  /\ x = <<x[1], x[2]>> /\ x[2] \in Nat /\ x[2] <= calls[c]
             /\ x[1] \in Topics /\ <<c, "REQUEST", x[1]>> \in Calls
             /\ SentRequest(<<c, x[2]>>) /\ <<c, x[2]>> \in Ids
  <2>1. x[1] = call[c].topic /\ x[2] = calls[c] /\ calls[c] \in Nat
    BY <1>1, <1>5, CountTypes
  <2>2. <<c, x[2]>> \in Ids /\ x[2] = Len(results[c]) + 1
    BY <1>1, <1>5, <2>1, UnderWay DEF CallId
  <2>3. CmdOf(<<c, x[2]>>) = "REQUEST"
    <3>1. Len(results[c]) \in Nat
      BY <1>1, CountTypes
    <3> QED  BY <1>5, <2>2, <3>1 DEF CmdOf
  <2>4. <<c, "REQUEST", x[1]>> \in Calls /\ x[1] \in Topics
    BY <1>1, <1>5, <2>1 DEF ConnAt, Begun, TInv, TypeOK
  <2>5. x[2] <= calls[c] /\ x = <<x[1], x[2]>>
    BY <1>5, <2>1
  <2>6. SentRequest(<<c, x[2]>>)
    BY <2>1, <2>2, <2>3, <2>5 DEF SentRequest
  <2> QED  BY <2>1, <2>2, <2>4, <2>5, <2>6
<1>6. calls[c] \in Nat
  BY <1>1, CountTypes
<1> QED  BY <1>2, <1>3, <1>4, <1>5, <1>6 DEF Pending

\* Only a call of the client makes a request pending.
LEMMA PendingLess ==
    ASSUME CInv, [Next]_vars, NEW c \in Clients, NEW x \in Pending(c)'
    PROVE  \/ x \in Pending(c)
           \/ /\ x = <<call'[c].topic, calls'[c]>> /\ calls'[c] = calls[c] + 1
              /\ <<c, "REQUEST", call'[c].topic>> \in Calls
              /\ UNCHANGED <<bpc, msg, lastTs, cached, done>>
<1> USE DEF netVars, clientVars, topicVars, dedupVars, bgVars, userVars, hist
<1> DEFINE New == /\ x = <<call'[c].topic, calls'[c]>> /\ calls'[c] = calls[c] + 1
                  /\ <<c, "REQUEST", call'[c].topic>> \in Calls
                  /\ UNCHANGED <<bpc, msg, lastTs, cached, done>>
<1>1. TInv /\ cpc \in [Clients -> {"idle", "status", "send"}] /\ calls \in [Clients -> 0 .. MaxCalls]
      /\ call \in [Clients -> [cmd : Cmds, topic : Topics, resend : BOOLEAN]]
  BY DEF CInv, TInv, TypeOK
<1> SUFFICES x \in Pending(c) \/ New
  OBVIOUS
<1>2. ASSUME UNCHANGED <<calls, call>>, cpc'[c] = cpc[c] \/ cpc[c] # "idle",
             \A i \in DOMAIN wire'[c] : wire'[c][i].cmd = "REQUEST" =>
               <<wire'[c][i].topic, wire'[c][i].id[2]>> \in Pending(c),
             \A p \in msg' : Working' /\ p.id[1] = c /\ p.cmd = "REQUEST" =>
               <<p.topic, p.id[2]>> \in Pending(c)
      PROVE  x \in Pending(c)
  <2>1. CASE x \in {<<wire'[c][i].topic, wire'[c][i].id[2]>> :
                      i \in {j \in DOMAIN wire'[c] : wire'[c][j].cmd = "REQUEST"}}
    BY <1>2, <2>1
  <2>2. CASE x \in {<<p.topic, p.id[2]>> :
                      p \in {q \in msg' : Working' /\ q.id[1] = c /\ q.cmd = "REQUEST"}}
    BY <1>2, <2>2
  <2>3. CASE x = <<call[c].topic, calls[c]>> /\ cpc'[c] # "idle" /\ call[c].cmd = "REQUEST"
    BY <1>2, <2>3 DEF Pending
  <2> QED  BY <1>2, <2>1, <2>2, <2>3 DEF Pending
<1>3. \A i \in DOMAIN wire[c] : wire[c][i].cmd = "REQUEST" =>
        <<wire[c][i].topic, wire[c][i].id[2]>> \in Pending(c)
  BY DEF Pending
<1>4. \A p \in msg : Working /\ p.id[1] = c /\ p.cmd = "REQUEST" => <<p.topic, p.id[2]>> \in Pending(c)
  BY DEF Pending
<1>5. ASSUME NEW d \in Clients, NEW i \in DOMAIN wire[d], Lose(d, i) \/ Recv(d, i)
      PROVE  x \in Pending(c)
  <2>1. UNCHANGED <<calls, call, cpc>>
    BY <1>5 DEF Lose, Recv
  <2>2. \A j \in DOMAIN wire'[c] : \E k \in DOMAIN wire[c] : wire'[c][j] = wire[c][k]
    BY <1>1, <1>5, TakenOut
  <2>3. \A p \in msg' : Working' /\ p.id[1] = c /\ p.cmd = "REQUEST" => <<p.topic, p.id[2]>> \in Pending(c)
    <3>1. CASE Lose(d, i)
      BY <1>4, <3>1 DEF Lose, Working
    <3>2. CASE Recv(d, i)
      <4>1. msg' = {wire[d][i]} /\ wire[d][i].id[1] = d
        BY <3>2 DEF Recv, CInv, ConnInv, ConnAt, Sent
      <4> QED  BY <1>3, <4>1
    <3> QED  BY <1>5, <3>1, <3>2
  <2> QED  BY <1>2, <1>3, <2>1, <2>2, <2>3
<1>6. ASSUME NEW d \in Clients, NEW cmd \in Cmds, NEW t \in Topics, NEW resend \in Resend,
             <<d, cmd, t>> \in Calls, Call(d, cmd, t, resend)
      PROVE  x \in Pending(c) \/ New
  <2>1. /\ UNCHANGED <<bpc, msg, lastTs, cached, done>>
        /\ cpc[d] = "idle" /\ \E k, first : Send(d, k, first, t) /\ (first = "REQUEST" => cmd = "REQUEST")
        /\ calls' = [calls EXCEPT ![d] = @ + 1]
        /\ call' = [call EXCEPT ![d] = [cmd |-> cmd, topic |-> t, resend |-> resend]]
        /\ \E pc : cpc' = [cpc EXCEPT ![d] = pc]
    <3> DEFINE first == IF cmd = "REQUEST" /\ t \notin known[d] THEN "STATUS" ELSE cmd
    <3>1. /\ UNCHANGED <<bpc, msg, lastTs, cached, done>>
          /\ cpc[d] = "idle" /\ Send(d, conn[d], first, t)
          /\ calls' = [calls EXCEPT ![d] = @ + 1]
          /\ call' = [call EXCEPT ![d] = [cmd |-> cmd, topic |-> t, resend |-> resend]]
          /\ \E pc : cpc' = [cpc EXCEPT ![d] = pc]
      BY <1>6 DEF Call
    <3>2. first = "REQUEST" => cmd = "REQUEST"
      OBVIOUS
    <3> HIDE DEF first
    <3> QED  BY <3>1, <3>2
  <2>2. CASE d # c
    <3>1. /\ wire'[c] = wire[c] /\ calls'[c] = calls[c] /\ call'[c] = call[c] /\ cpc'[c] = cpc[c]
      BY <1>1, <2>1, <2>2, SentLast
    <3> QED  BY <2>1, <3>1 DEF Pending, Working
  <2>3. CASE d = c
    <3>1. /\ calls'[c] = calls[c] + 1 /\ call'[c].topic = t /\ call'[c].cmd = cmd
      BY <1>1, <2>1, <2>3
    <3>2. CASE x = <<t, calls'[c]>> /\ cmd = "REQUEST"
      BY <1>6, <2>1, <2>3, <3>1, <3>2
    <3>3. CASE ~(x = <<t, calls'[c]>> /\ cmd = "REQUEST")
      <4>1. PICK first : /\ first = "REQUEST" => cmd = "REQUEST"
                         /\ \E n \in Nat :
                              /\ DOMAIN wire'[c] = 1 .. n + 1 /\ DOMAIN wire[c] = 1 .. n
                              /\ \A i \in 1 .. n : wire'[c][i] = wire[c][i]
                              /\ wire'[c][n + 1].id = CallId(c)'
                              /\ wire'[c][n + 1].cmd = first
                              /\ wire'[c][n + 1].topic = t
        <5>1. PICK k, first : Send(c, k, first, t) /\ (first = "REQUEST" => cmd = "REQUEST")
          BY <2>1, <2>3
        <5>2. \E n \in Nat : /\ DOMAIN wire'[c] = 1 .. n + 1 /\ DOMAIN wire[c] = 1 .. n
                             /\ \A i \in 1 .. n : wire'[c][i] = wire[c][i]
                             /\ wire'[c][n + 1].id = CallId(c)'
                             /\ wire'[c][n + 1].cmd = first
                             /\ wire'[c][n + 1].topic = t
          BY <1>1, <5>1, SentLast
        <5> QED  BY <5>1, <5>2
      <4>2. ASSUME NEW i \in DOMAIN wire'[c], wire'[c][i].cmd = "REQUEST",
                   x = <<wire'[c][i].topic, wire'[c][i].id[2]>>
            PROVE  x \in Pending(c)
        <5>1. PICK n \in Nat :
                /\ DOMAIN wire'[c] = 1 .. n + 1 /\ DOMAIN wire[c] = 1 .. n
                /\ \A j \in 1 .. n : wire'[c][j] = wire[c][j]
                /\ wire'[c][n + 1].id = CallId(c)'
                /\ wire'[c][n + 1].cmd = first
                /\ wire'[c][n + 1].topic = t
          BY <4>1
        <5>2. i # n + 1
          <6> SUFFICES ASSUME i = n + 1 PROVE FALSE
            OBVIOUS
          <6>1. x = <<t, calls'[c]>>
            BY <4>2, <5>1 DEF CallId
          <6> QED  BY <3>3, <4>1, <4>2, <5>1, <6>1
        <5>3. i \in 1 .. n
          BY <5>1, <5>2
        <5> QED  BY <1>3, <4>2, <5>1, <5>3
      <4>3. ASSUME NEW p \in msg, Working, p.id[1] = c, p.cmd = "REQUEST", x = <<p.topic, p.id[2]>>
            PROVE  x \in Pending(c)
        BY <1>4, <4>3
      <4>4. \/ \E i \in DOMAIN wire'[c] : wire'[c][i].cmd = "REQUEST" /\ x = <<wire'[c][i].topic, wire'[c][i].id[2]>>
            \/ \E p \in msg : Working /\ p.id[1] = c /\ p.cmd = "REQUEST" /\ x = <<p.topic, p.id[2]>>
            \/ x = <<t, calls'[c]>> /\ cmd = "REQUEST"
        BY <2>1, <3>1 DEF Pending, Working
      <4> QED  BY <3>3, <4>2, <4>3, <4>4
    <3> QED  BY <3>2, <3>3
  <2> QED  BY <2>2, <2>3
<1>7. ASSUME NEW d \in Clients, ClientStep(d)
      PROVE  x \in Pending(c)
  <2>1. /\ cpc[d] # "idle" /\ UNCHANGED <<calls, call, bpc, msg>>
        /\ \A e \in Clients \ {d} : cpc'[e] = cpc[e]
        /\ wire' = wire \/ \E k, cmd : /\ Send(d, k, cmd, call[d].topic)
                                       /\ cmd = "REQUEST" => call[d].cmd = "REQUEST"
    BY <1>7, ClientSends
  <2>2. \A i \in DOMAIN wire'[c] : wire'[c][i].cmd = "REQUEST" =>
          <<wire'[c][i].topic, wire'[c][i].id[2]>> \in Pending(c)
    <3>1. CASE wire' = wire
      BY <1>3, <3>1
    <3>2. ASSUME NEW k, NEW cmd, Send(d, k, cmd, call[d].topic), cmd = "REQUEST" => call[d].cmd = "REQUEST"
          PROVE  \A i \in DOMAIN wire'[c] : wire'[c][i].cmd = "REQUEST" =>
                   <<wire'[c][i].topic, wire'[c][i].id[2]>> \in Pending(c)
      <4>1. CASE d # c
        <5>1. wire'[c] = wire[c]
          BY <1>1, <3>2, <4>1, SentLast
        <5> QED  BY <1>3, <5>1
      <4>2. CASE d = c
        <5>1. PICK n \in Nat :
                /\ DOMAIN wire'[c] = 1 .. n + 1 /\ DOMAIN wire[c] = 1 .. n
                /\ \A j \in 1 .. n : wire'[c][j] = wire[c][j]
                /\ wire'[c][n + 1].id = CallId(c)'
                /\ wire'[c][n + 1].cmd = cmd
                /\ wire'[c][n + 1].topic = call[c].topic
          BY <1>1, <3>2, <4>2, SentLast
        <5>2. CallId(c)'[2] = calls[c]
          BY <2>1 DEF CallId
        <5>3. cmd = "REQUEST" => <<call[c].topic, calls[c]>> \in Pending(c)
          BY <2>1, <3>2, <4>2 DEF Pending
        <5>4. \A i \in DOMAIN wire'[c] : i = n + 1 \/ i \in 1 .. n
          BY <5>1
        <5> QED  BY <1>3, <5>1, <5>2, <5>3, <5>4
      <4> QED  BY <4>1, <4>2
    <3> QED  BY <2>1, <3>1, <3>2
  <2>3. \A p \in msg' : Working' /\ p.id[1] = c /\ p.cmd = "REQUEST" => <<p.topic, p.id[2]>> \in Pending(c)
    BY <1>4, <2>1 DEF Working
  <2> QED  BY <1>2, <2>1, <2>2, <2>3
<1>8. CASE \E p \in msg : AnswerStep(p)
  <2>1. UNCHANGED <<wire, cpc, call, calls, msg>> /\ ~Working'
    BY <1>8 DEF AnswerStep, Working
  <2> QED  BY <1>2, <1>3, <2>1
<1>9. CASE QuietStep
  <2>1. UNCHANGED <<wire, cpc, call, calls, msg>> /\ (Working' => Working)
    BY <1>9 DEF QuietStep
  <2> QED  BY <1>2, <1>3, <1>4, <2>1
<1> QED  BY <1>5, <1>6, <1>7, <1>8, <1>9, StepKinds

(* The steps of the thread and the program that the pending requests are   *)
(* about.                                                                  *)
Unmoved ==
    /\ lastTs' = lastTs /\ cached' = cached
    /\ Waiting => Waiting' /\ msg' = msg
    /\ \A id \in Ids : SentRequest(id) => done'[id] = done[id]

\* wait_for_request takes the announced request.
LEMMA Handed ==
    ASSUME resets' = 0, CInv, HInv, LifeInv, QueueInv, WaitForRequest
    PROVE  \E p \in Packet :
             /\ msg = {p} /\ bpc = "await" /\ newRequest # {} /\ newRequest' = {}
             /\ p.id \in Ids /\ p.topic \in Topics /\ p.cmd = "REQUEST"
             /\ done' = [done EXCEPT ![p.id] = @ + 1]
             /\ UNCHANGED <<netVars, clientVars, lastTs, cached, bpc, msg>>
<1> USE DEF netVars, clientVars, topicVars, dedupVars, bgVars, userVars, hist
<1>1. PICK t \in newRequest :
        LET of == IF queue[t] = <<>> THEN NoId ELSE Head(queue[t]).of
        IN  IF queue[t] # <<>> /\ Head(queue[t]).by = "REQUEST"
              THEN Took(of) ELSE UNCHANGED done
  BY DEF WaitForRequest
<1>2. /\ upc = "idle" /\ newRequest' = {}
      /\ UNCHANGED <<netVars, clientVars, lastTs, cached, bpc, msg>>
  BY DEF WaitForRequest
<1>3. bpc = "await" /\ Asked = {t}
  BY <1>1, <1>2 DEF HInv, Handshake, Handover, LifeInv, Asked
<1>4. PICK p \in Packet : msg = {p} /\ p.id \in Ids /\ p.topic \in Topics /\ p.cmd = "REQUEST"
  BY <1>3, TheRequest DEF Waiting
<1>5. p.topic = t
  BY <1>3, <1>4 DEF Asked
<1>6. resets = 0
  BY DEF WaitForRequest
<1>7. queue[t] = <<[by |-> "REQUEST", of |-> p.id]>>
  BY <1>1, <1>3, <1>4, <1>5, <1>6 DEF QueueInv, Asking
<1>8. queue[t] # <<>> /\ Head(queue[t]) = [by |-> "REQUEST", of |-> p.id]
  BY <1>7
<1>9. Head(queue[t]).of = p.id /\ Head(queue[t]).by = "REQUEST"
  BY <1>8
<1>10. done' = [done EXCEPT ![p.id] = @ + 1]
  BY <1>1, <1>8, <1>9 DEF Took
<1> QED  BY <1>1, <1>2, <1>3, <1>4, <1>10

LEMMA Movers ==
    ASSUME resets' = 0, CInv, HInv, [Next]_vars
    PROVE  \/ \E p \in msg : RecordRequest(p)
           \/ \E p \in msg : SendReply(p)
           \/ WaitForRequest
           \/ BgStop
           \/ Unmoved /\ bpc' # "stopped" /\ UNCHANGED newRequest /\ (Waiting' => Waiting)
                      /\ (bpc = "await" <=> bpc' = "await")
           \/ Unmoved /\ bpc' = bpc /\ (newRequest' # {} => newRequest # {})
           \/ \E p \in msg : Announce(p)
<1> USE DEF netVars, clientVars, topicVars, dedupVars, bgVars, userVars, hist
<1> DEFINE Same == Unmoved /\ bpc' # "stopped" /\ UNCHANGED newRequest /\ (Waiting' => Waiting)
                   /\ (bpc = "await" <=> bpc' = "await")
           Still == Unmoved /\ bpc' = bpc /\ (newRequest' # {} => newRequest # {})
<1>1. ASSUME UNCHANGED <<lastTs, cached, bpc, msg, done, newRequest>>
      PROVE  Still
  BY <1>1 DEF Unmoved, Waiting
<1>2. ASSUME UNCHANGED <<lastTs, cached, done, newRequest>>, bpc \in {"poll", "dispatch"},
             bpc' \in {"poll", "dispatch"}
      PROVE  Same
  BY <1>2 DEF Unmoved, Waiting
<1> HIDE DEF Same
<1>3. CASE \E c \in Clients : \/ \E i \in DOMAIN wire[c] : Lose(c, i)
                              \/ \E cmd, t, resend : Call(c, cmd, t, resend)
  <2>1. UNCHANGED <<lastTs, cached, bpc, msg, done, newRequest>>
    BY <1>3 DEF Lose, Call
  <2> QED  BY <1>1, <2>1
<1>4. CASE \E c \in Clients : ClientStep(c)
  <2>1. UNCHANGED <<lastTs, cached, bpc, msg, done, newRequest>>
    BY <1>4, ClientSends
  <2> QED  BY <1>1, <2>1
<1>5. CASE \E c \in Clients : \E i \in DOMAIN wire[c] : Recv(c, i)
  <2>1. UNCHANGED <<lastTs, cached, done, newRequest>> /\ bpc = "poll" /\ bpc' = "dispatch"
    BY <1>5 DEF Recv
  <2> QED  BY <1>2, <2>1 DEF Same
<1>6. CASE \E p \in msg : NoTopic(p) \/ AnswerAgain(p)
  <2>1. UNCHANGED <<lastTs, cached, done, newRequest>> /\ bpc = "dispatch" /\ bpc' = "poll"
    BY <1>6 DEF NoTopic, AnswerAgain
  <2> QED  BY <1>2, <2>1 DEF Same
<1>7. ASSUME NEW p \in msg, Serve(p)
      PROVE  Same
  <2>1. UNCHANGED <<lastTs, cached, newRequest>> /\ bpc = "dispatch" /\ bpc' = "poll"
        /\ (done' = done \/ (p.cmd = "PUT" /\ done' = [done EXCEPT ![p.id] = @ + 1]))
    BY <1>7 DEF Serve, Took
  <2>2. ASSUME NEW id \in Ids, SentRequest(id)
        PROVE  done'[id] = done[id]
    <3>1. p.id[1] \in Clients /\ done \in [Ids -> Nat]
      BY DEF CInv, TInv, TypeOK, Packet, Ids
    <3>2. p.cmd = "PUT" => CmdOf(p.id) = "PUT"
      <4>1. Sent(p.id[1], p)
        BY <3>1 DEF CInv, ConnInv, ConnAt
      <4> QED  BY <4>1 DEF Sent
    <3> QED  BY <2>1, <2>2, <3>1, <3>2 DEF SentRequest
  <2> QED  BY <2>1, <2>2 DEF Same, Unmoved, Waiting
<1>8. CASE \E p \in msg : EnqueueRequest(p)
  <2>1. UNCHANGED <<lastTs, cached, done, newRequest, msg>> /\ bpc = "enqueue" /\ bpc' = "announce"
    BY <1>8 DEF EnqueueRequest
  <2> QED  BY <2>1 DEF Same, Unmoved, Waiting
<1>9. CASE \E t : AddTopic(t) \/ PutData(t) \/ PopData(t)
  <2>1. UNCHANGED <<lastTs, cached, bpc, msg, done, newRequest>>
    BY <1>9 DEF AddTopic, PutData, PopData
  <2> QED  BY <1>1, <2>1
<1>10. CASE ReplyPut \/ ReplyFlag \/ Shutdown \/ UNCHANGED vars
  <2>1. UNCHANGED <<lastTs, cached, bpc, msg, done, newRequest>>
    BY <1>10 DEF ReplyPut, ReplyFlag, Shutdown, vars
  <2> QED  BY <1>1, <2>1
<1>11. ~ResetStartTime
  BY DoneGrows DEF ResetStartTime
<1> QED  BY <1>3, <1>4, <1>5, <1>6, <1>7, <1>8, <1>9, <1>10, <1>11
            DEF Next, BgStep, ServeRequests, Same

PendingTyped ==
    \A c \in Clients : \A x \in Pending(c) :
        x[2] \in Nat /\ x[1] \in Topics /\ <<c, x[2]>> \in Ids

LEMMA PendingTypes == CInv => PendingTyped
  BY PendingFacts DEF PendingTyped

LEMMA PendingTypesNext == CInv' => PendingTyped'
  BY PendingTypes, PTL

LEMMA PendingFrame ==
    ASSUME CInv, [Next]_vars, NEW c \in Clients, PendingAt(c), RunInv, StampPast,
           lastTs' = lastTs,
           bpc' # "stopped" => bpc # "stopped",
           \A x \in Pending(c) : bpc' # "stopped" =>
             /\ Settled(c, x) => Settled(c, x)'
             /\ done'[<<c, x[2]>>] = done[<<c, x[2]>>] \/ Settled(c, x)'
    PROVE  PendingAt(c)'
<1> DEFINE New(x) == /\ x = <<call'[c].topic, calls'[c]>> /\ calls'[c] = calls[c] + 1
                     /\ <<c, "REQUEST", call'[c].topic>> \in Calls
                     /\ UNCHANGED <<bpc, msg, lastTs, cached, done>>
<1>1. \A x \in Pending(c)' : x \in Pending(c) \/ New(x)
  BY PendingLess
<1>2. CInv'
  BY CInvNext
<1>3. \A x \in Pending(c)' : x[2] \in Nat /\ x[1] \in Topics /\ <<c, x[2]>> \in Ids
  BY <1>2, PendingTypesNext DEF PendingTyped
<1>4. \A x \in Pending(c) : x[2] \in Nat /\ x[2] <= calls[c] /\ x[1] \in Topics
  BY PendingFacts
<1>5. calls[c] \in Nat /\ Epoch[c] \in Int /\ lastTs \in [Topics -> SUBSET Int]
  BY CountTypes, ConstantTypes DEF CInv, TInv, TypeOK
<1>6. \A x, y \in Pending(c)' : x[2] = y[2] => x[1] = y[1]
  <2> SUFFICES ASSUME NEW x \in Pending(c)', NEW y \in Pending(c)', x[2] = y[2]
               PROVE  x[1] = y[1]
    OBVIOUS
  <2>1. CASE x \in Pending(c) /\ y \in Pending(c)
    BY <2>1 DEF PendingAt
  <2>2. CASE New(x) /\ New(y)
    BY <2>2
  <2>3. ~(New(x) /\ y \in Pending(c)) /\ ~(New(y) /\ x \in Pending(c))
    <3>1. New(x) => x[2] = calls[c] + 1
      OBVIOUS
    <3>2. New(y) => y[2] = calls[c] + 1
      OBVIOUS
    <3> HIDE DEF New
    <3> QED  BY <1>4, <1>5, <3>1, <3>2
  <2> QED  BY <1>1, <2>1, <2>2, <2>3
<1>7. ASSUME NEW x \in Pending(c)', NEW s \in lastTs'[x[1]]
      PROVE  s <= Epoch[c] + x[2]
  <2>1. CASE x \in Pending(c)
    BY <2>1, <1>7 DEF PendingAt
  <2>2. CASE New(x)
    <3>1. s \in lastTs[x[1]] /\ x[1] \in Topics /\ s \in Int
      BY <1>3, <1>5, <1>7
    <3>2. <<c, "REQUEST", x[1]>> \in Calls /\ x[2] = calls[c] + 1
      BY <2>2
    <3>3. s <= Epoch[c] + calls[c]
      BY <3>1, <3>2 DEF StampPast
    <3> QED  BY <1>5, <3>1, <3>2, <3>3
  <2> QED  BY <1>1, <2>1, <2>2
<1>8. ASSUME bpc' # "stopped", NEW x \in Pending(c)'
      PROVE  done'[<<c, x[2]>>] = 0 \/ Settled(c, x)'
  <2>1. CASE x \in Pending(c)
    BY <1>8, <2>1 DEF PendingAt
  <2>2. CASE New(x)
    <3>1. x[2] = calls[c] + 1 /\ done' = done
      BY <2>2
    <3>2. x[2] > calls[c] /\ <<c, x[2]>> \in Ids
      BY <1>3, <1>5, <3>1
    <3> QED  BY <3>1, <3>2 DEF RunInv
  <2> QED  BY <1>1, <2>1, <2>2
<1> QED  BY <1>6, <1>7, <1>8 DEF PendingAt

LEMMA SettledMeans ==
    ASSUME CInv, NEW p \in msg, bpc = "dispatch", Settled(p.id[1], <<p.topic, p.id[2]>>)
    PROVE  Duplicate(p)
  BY DEF Settled, Duplicate, Stamp, Waiting

\* The packet at hand is pending.
LEMMA AtHand ==
    ASSUME CInv, NEW p \in msg, Working, p.cmd = "REQUEST"
    PROVE  /\ p.id[1] \in Clients /\ p.id = <<p.id[1], p.id[2]>> /\ p.id \in Ids /\ p.id[2] \in Nat
           /\ <<p.topic, p.id[2]>> \in Pending(p.id[1])
           /\ p.id[2] <= calls[p.id[1]]
           /\ <<p.id[1], "REQUEST", p.topic>> \in Calls /\ p.topic \in Topics
<1>1. p.id \in Ids /\ p.topic \in Topics
  BY DEF CInv, TInv, TypeOK, Packet
<1>2. p.id[1] \in Clients /\ p.id = <<p.id[1], p.id[2]>> /\ p.id[2] \in Nat
  BY <1>1 DEF Ids
<1>3. <<p.topic, p.id[2]>> \in Pending(p.id[1])
  BY <1>2 DEF Pending
<1>4. p.id[2] <= calls[p.id[1]] /\ <<p.id[1], "REQUEST", p.topic>> \in Calls
  BY <1>2 DEF CInv, ConnInv, ConnAt, Sent
<1> QED  BY <1>1, <1>2, <1>3, <1>4

\* The packet at hand is the oldest of those pending on its topic.
LEMMA Oldest ==
    ASSUME CInv, HInv, NEW p \in msg, Working, p.cmd = "REQUEST", OrderAt(p.id[1]),
           NEW x \in Pending(p.id[1])
    PROVE  p.id[2] <= x[2]
<1>1. p.id[1] \in Clients /\ p.id[2] <= calls[p.id[1]] /\ p.id[2] \in Nat
  BY AtHand
<1>2. msg = {p}
  BY DEF HInv
<1> DEFINE c == p.id[1]
<1>3. \A i \in DOMAIN wire[c] : p.id[2] <= wire[c][i].id[2]
  BY DEF OrderAt
<1>4. CASE x \in {<<wire[c][i].topic, wire[c][i].id[2]>> : i \in {j \in DOMAIN wire[c] : wire[c][j].cmd = "REQUEST"}}
  BY <1>3, <1>4
<1>5. CASE x \in {<<q.topic, q.id[2]>> : q \in {r \in msg : Working /\ r.id[1] = c /\ r.cmd = "REQUEST"}}
  BY <1>1, <1>2, <1>5
<1>6. CASE x = <<call[c].topic, calls[c]>>
  BY <1>1, <1>6
<1> QED  BY <1>4, <1>5, <1>6 DEF Pending

LEMMA StoppedStays ==
    ASSUME CInv, [Next]_vars, bpc = "stopped"
    PROVE  bpc' = "stopped"
<1> USE DEF netVars, clientVars, topicVars, dedupVars, bgVars, userVars, hist
<1>1. CASE \E c \in Clients : \/ \E i \in DOMAIN wire[c] : Lose(c, i)
                              \/ \E cmd, t, resend : Call(c, cmd, t, resend)
  BY <1>1 DEF Lose, Call
<1>2. CASE \E c \in Clients : ClientStep(c)
  BY <1>2, ClientSends
<1>3. CASE \E c \in Clients : \E i \in DOMAIN wire[c] : Recv(c, i)
  BY <1>3 DEF Recv
<1>4. CASE \E p \in msg : NoTopic(p) \/ Serve(p) \/ AnswerAgain(p) \/ RecordRequest(p)
  BY <1>4 DEF NoTopic, Serve, AnswerAgain, RecordRequest
<1>5. CASE \E p \in msg : EnqueueRequest(p) \/ Announce(p) \/ SendReply(p)
  BY <1>5 DEF EnqueueRequest, Announce, SendReply
<1>6. CASE \E t : AddTopic(t) \/ PutData(t) \/ PopData(t)
  BY <1>6 DEF AddTopic, PutData, PopData
<1>7. CASE BgStop \/ ServeRequests \/ ResetStartTime \/ Shutdown \/ UNCHANGED vars
  BY <1>7 DEF BgStop, ServeRequests, WaitForRequest, ReplyPut, ReplyFlag, ResetStartTime,
              Shutdown, vars
<1> QED  BY <1>1, <1>2, <1>3, <1>4, <1>5, <1>6, <1>7 DEF Next, BgStep

LEMMA PendingNext ==
    ASSUME OneClient, resets' = 0, CInv, HInv, LifeInv, QueueInv, SeqInv, [Next]_vars
    PROVE  \A c \in Clients : PendingAt(c)'
<1> USE DEF netVars, clientVars, topicVars, dedupVars, bgVars, userVars, hist
<1> SUFFICES ASSUME NEW c \in Clients PROVE PendingAt(c)'
  OBVIOUS
<1>1. PendingAt(c) /\ RunInv /\ StampPast /\ TInv
      /\ lastTs \in [Topics -> SUBSET Int] /\ cached \in [Topics -> SUBSET Answer]
      /\ done \in [Ids -> Nat]
  BY DEF SeqInv, CInv, TInv, TypeOK
<1>2. bpc = "stopped" => bpc' = "stopped"
  BY StoppedStays
<1>3. ASSUME NEW x \in Pending(c)
      PROVE  <<c, x[2]>> \in Ids /\ SentRequest(<<c, x[2]>>) /\ x[1] \in Topics
             /\ x[2] \in Nat /\ <<c, "REQUEST", x[1]>> \in Calls /\ x = <<x[1], x[2]>>
  BY PendingFacts
<1>4. ASSUME Unmoved
      PROVE  PendingAt(c)'
  <2>1. ASSUME NEW x \in Pending(c), Settled(c, x)
        PROVE  Settled(c, x)'
    BY <1>4, <2>1 DEF Unmoved, Settled
  <2>2. ASSUME NEW x \in Pending(c)
        PROVE  done'[<<c, x[2]>>] = done[<<c, x[2]>>]
    BY <1>3, <1>4, <2>2 DEF Unmoved
  <2> QED  BY <1>1, <1>2, <1>4, <2>1, <2>2, PendingFrame DEF Unmoved
<1>5. ASSUME NEW p \in msg, RecordRequest(p)
      PROVE  PendingAt(c)'
  <2>1. /\ bpc = "dispatch" /\ bpc' = "enqueue" /\ p.cmd = "REQUEST" /\ ~Duplicate(p)
        /\ cached' = IF Stamp(p) \in lastTs[p.topic] THEN cached
                     ELSE [cached EXCEPT ![p.topic] = {}]
        /\ lastTs' = [lastTs EXCEPT ![p.topic] = {Stamp(p)}]
        /\ UNCHANGED <<msg, done, calls, call>>
    BY <1>5 DEF RecordRequest
  <2>2. /\ p.id[1] \in Clients /\ p.id = <<p.id[1], p.id[2]>> /\ p.id \in Ids /\ p.id[2] \in Nat
        /\ <<p.topic, p.id[2]>> \in Pending(p.id[1])
        /\ <<p.id[1], "REQUEST", p.topic>> \in Calls /\ p.topic \in Topics
    BY <2>1, AtHand DEF Working
  <2>3. \A x \in Pending(c)' : x \in Pending(c)
    <3>1. UNCHANGED <<calls>> /\ calls[c] \in Nat
      BY <1>1, <2>1, CountTypes
    <3>2. calls'[c] # calls[c] + 1
      BY <3>1
    <3> QED  BY <3>2, PendingLess
  <2>4. ASSUME NEW x \in Pending(c), x[1] # p.topic
        PROVE  /\ lastTs'[x[1]] = lastTs[x[1]]
               /\ Settled(c, x) => Settled(c, x)'
    <3>1. lastTs'[x[1]] = lastTs[x[1]] /\ cached'[x[1]] = cached[x[1]]
      BY <1>1, <1>3, <2>1, <2>4
    <3> QED  BY <2>1, <3>1 DEF Settled, Waiting
  <2>5. ASSUME NEW x \in Pending(c), x[1] = p.topic
        PROVE  /\ c = p.id[1] /\ p.id[2] <= x[2]
               /\ lastTs'[x[1]] = {Epoch[c] + p.id[2]}
               /\ done[<<c, x[2]>>] = 0
    <3>1. c = p.id[1]
      <4> DEFINE y == <<c, "REQUEST", x[1]>>
                 z == <<p.id[1], "REQUEST", p.topic>>
      <4>1. /\ y \in Calls /\ z \in Calls /\ y[2] = "REQUEST" /\ z[2] = "REQUEST" /\ y[3] = z[3]
            /\ y[1] = c /\ z[1] = p.id[1]
        BY <1>3, <2>2, <2>5
      <4> HIDE DEF y, z
      <4> QED  BY <4>1 DEF OneClient
    <3>2. p.id[2] <= x[2]
      BY <2>1, <3>1, Oldest DEF Working, SeqInv
    <3>3. lastTs'[x[1]] = {Epoch[c] + p.id[2]}
      BY <1>1, <2>1, <2>2, <2>5, <3>1 DEF Stamp
    <3>4. done[<<c, x[2]>>] = 0
      <4> SUFFICES ASSUME done[<<c, x[2]>>] # 0 PROVE FALSE
        OBVIOUS
      <4>1. Settled(c, x)
        BY <1>1, <2>1, <2>5 DEF PendingAt
      <4>2. Epoch[c] + x[2] <= Epoch[c] + p.id[2]
        <5>1. Epoch[c] + x[2] \in lastTs[x[1]] /\ <<p.topic, p.id[2]>> \in Pending(c)
          BY <2>2, <3>1, <4>1 DEF Settled
        <5> DEFINE y == <<p.topic, p.id[2]>>
        <5>2. y \in Pending(c) /\ y[1] = x[1] /\ y[2] = p.id[2]
          BY <2>5, <5>1
        <5> HIDE DEF y
        <5> QED  BY <1>1, <5>1, <5>2 DEF PendingAt
      <4>3. x[2] = p.id[2]
        <5>1. x[2] \in Nat /\ p.id[2] \in Nat /\ Epoch[c] \in Int
          BY <1>3, <2>2, <2>5, ConstantTypes
        <5> QED  BY <3>2, <4>2, <5>1
      <4>4. x = <<p.topic, p.id[2]>>
        BY <1>3, <2>5, <4>3
      <4> QED  BY <2>1, <3>1, <4>1, <4>4, SettledMeans
    <3> QED  BY <3>1, <3>2, <3>3, <3>4
  <2>6. \A x, y \in Pending(c)' : x[2] = y[2] => x[1] = y[1]
    BY <1>1, <2>3 DEF PendingAt
  <2>7. ASSUME NEW x \in Pending(c)', NEW s \in lastTs'[x[1]]
        PROVE  s <= Epoch[c] + x[2]
    <3>1. CASE x[1] # p.topic
      BY <1>1, <2>3, <2>4, <2>7, <3>1 DEF PendingAt
    <3>2. CASE x[1] = p.topic
      <4>1. x \in Pending(c)
        BY <2>3, <2>7
      <4>2. lastTs'[x[1]] = {Epoch[c] + p.id[2]} /\ p.id[2] <= x[2]
        BY <2>5, <3>2, <4>1
      <4>3. s = Epoch[c] + p.id[2]
        BY <2>7, <4>2
      <4>4. x[2] \in Nat /\ p.id[2] \in Nat /\ Epoch[c] \in Int
        BY <1>3, <2>2, <4>1, ConstantTypes
      <4> QED  BY <4>2, <4>3, <4>4
    <3> QED  BY <3>1, <3>2
  <2>8. ASSUME NEW x \in Pending(c)'
        PROVE  done'[<<c, x[2]>>] = 0 \/ Settled(c, x)'
    <3>1. CASE x[1] # p.topic
      BY <1>1, <2>1, <2>3, <2>4, <2>8, <3>1 DEF PendingAt
    <3>2. CASE x[1] = p.topic
      BY <2>1, <2>3, <2>5, <2>8, <3>2
    <3> QED  BY <3>1, <3>2
  <2> QED  BY <2>6, <2>7, <2>8 DEF PendingAt
<1>6. ASSUME NEW p \in msg, SendReply(p)
      PROVE  PendingAt(c)'
  <2>1. PICK r : /\ bpc = "await" /\ bpc' = "poll"
                 /\ cached' = [cached EXCEPT ![p.topic] = {r}]
                 /\ UNCHANGED <<msg, lastTs, done>>
    BY <1>6 DEF SendReply
  <2>2. msg = {p} /\ p.topic \in Topics
    BY DEF HInv, CInv, TInv, TypeOK, Packet
  <2>3. ASSUME NEW x \in Pending(c), Settled(c, x)
        PROVE  Settled(c, x)'
    <3>1. CASE x[1] = p.topic
      <4>1. cached'[x[1]] = {r}
        BY <1>1, <2>1, <2>2, <3>1
      <4> QED  BY <2>1, <2>3, <4>1 DEF Settled
    <3>2. CASE x[1] # p.topic
      <4>1. cached'[x[1]] = cached[x[1]] /\ cached[x[1]] # {}
        BY <1>1, <1>3, <2>1, <2>2, <2>3, <3>2 DEF Settled
      <4> QED  BY <2>1, <2>3, <4>1 DEF Settled
    <3> QED  BY <3>1, <3>2
  <2> QED  BY <1>1, <1>2, <2>1, <2>3, PendingFrame
<1>7. CASE WaitForRequest
  <2>1. PICK p \in Packet :
             /\ msg = {p} /\ bpc = "await"
             /\ p.id \in Ids /\ p.topic \in Topics /\ p.cmd = "REQUEST"
             /\ done' = [done EXCEPT ![p.id] = @ + 1]
             /\ UNCHANGED <<lastTs, cached, bpc, msg>>
    BY <1>7, Handed
  <2>2. ASSUME NEW x \in Pending(c), Settled(c, x)
        PROVE  Settled(c, x)'
    BY <2>1, <2>2 DEF Settled, Waiting
  <2>3. ASSUME NEW x \in Pending(c)
        PROVE  done'[<<c, x[2]>>] = done[<<c, x[2]>>] \/ Settled(c, x)'
    <3>1. CASE p.id # <<c, x[2]>>
      BY <1>1, <1>3, <2>1, <2>3, <3>1
    <3>2. CASE p.id = <<c, x[2]>>
      <4>1. p.id[1] = c /\ p.id[2] = x[2]
        BY <3>2
      <4>2. <<p.topic, p.id[2]>> \in Pending(c)
        BY <2>1, <4>1, AtHand DEF Working
      <4> DEFINE y == <<p.topic, p.id[2]>>
      <4>3. y \in Pending(c) /\ y[1] = p.topic /\ y[2] = x[2]
        BY <4>1, <4>2
      <4> HIDE DEF y
      <4>4. x[1] = p.topic
        BY <1>1, <2>3, <4>3 DEF PendingAt
      <4>5. Stamp(p) \in lastTs[p.topic]
        BY <2>1 DEF SeqInv, UnderHand, Waiting
      <4>6. Settled(c, x)
        BY <2>1, <3>2, <4>1, <4>4, <4>5 DEF Settled, Stamp, Waiting
      <4> QED  BY <2>2, <2>3, <4>6
    <3> QED  BY <3>1, <3>2
  <2> QED  BY <1>1, <1>2, <2>1, <2>2, <2>3, PendingFrame
<1>8. CASE BgStop
  <2>1. bpc' = "stopped" /\ UNCHANGED <<lastTs>>
    BY <1>8 DEF BgStop
  <2> QED  BY <1>1, <2>1, PendingFrame
<1>9. ASSUME NEW p \in msg, Announce(p)
      PROVE  Unmoved
  BY <1>9 DEF Announce, Unmoved, Waiting
<1> QED  BY <1>4, <1>5, <1>6, <1>7, <1>8, <1>9, Movers

LEMMA CallsGrow ==
    ASSUME CInv, [Next]_vars, NEW c \in Clients
    PROVE  calls[c] \in Nat /\ calls'[c] \in Nat /\ calls[c] <= calls'[c]
<1>1. TInv /\ calls[c] \in Nat
  BY CountTypes DEF CInv
<1>2. calls \in [Clients -> 0 .. MaxCalls]
  BY <1>1 DEF TInv, TypeOK
<1>3. CASE UNCHANGED calls
  BY <1>1, <1>3
<1>4. CASE \E d \in Clients : calls' = [calls EXCEPT ![d] = @ + 1]
  BY <1>1, <1>2, <1>4
<1> QED  BY <1>3, <1>4, CallSteps DEF Call

LEMMA UnderHandNext ==
    ASSUME resets' = 0, CInv, HInv, LifeInv, QueueInv, SeqInv, [Next]_vars
    PROVE  UnderHand'
<1>1. ASSUME NEW p \in msg, Working, p.cmd = "REQUEST"
      PROVE  SentRequest(p.id) /\ p.id \in Ids
  <2>1. /\ p.id[1] \in Clients /\ p.id = <<p.id[1], p.id[2]>> /\ p.id \in Ids
        /\ <<p.topic, p.id[2]>> \in Pending(p.id[1])
    BY <1>1, AtHand
  <2> DEFINE x == <<p.topic, p.id[2]>>
  <2>2. x \in Pending(p.id[1]) /\ x[2] = p.id[2]
    BY <2>1
  <2> HIDE DEF x
  <2> QED  BY <2>1, <2>2, PendingFacts
<1>2. Waiting => Working /\ \A p \in msg : p.cmd = "REQUEST"
  BY TheRequest DEF Waiting, Working
<1>3. ASSUME Unmoved, Waiting' => Waiting,
             bpc' # "await" \/ newRequest' # {} => bpc # "await" \/ newRequest # {}
      PROVE  UnderHand'
  <2> SUFFICES ASSUME Waiting', NEW p \in msg'
               PROVE  /\ Stamp(p) \in lastTs'[p.topic]
                      /\ bpc' # "await" \/ newRequest' # {} => done'[p.id] = 0
    BY DEF UnderHand, Stamp
  <2>1. Waiting /\ msg' = msg /\ lastTs' = lastTs
    BY <1>3 DEF Unmoved
  <2>2. done'[p.id] = done[p.id]
    BY <1>1, <1>2, <1>3, <2>1 DEF Unmoved
  <2> QED  BY <1>3, <2>1, <2>2 DEF SeqInv, UnderHand
<1>4. ASSUME NEW p \in msg, RecordRequest(p)
      PROVE  UnderHand'
  <2>1. /\ bpc = "dispatch" /\ p.cmd = "REQUEST" /\ ~Duplicate(p)
        /\ lastTs' = [lastTs EXCEPT ![p.topic] = {Stamp(p)}]
        /\ UNCHANGED <<msg, done>>
    BY <1>4 DEF RecordRequest, userVars, hist
  <2>2. /\ p.id[1] \in Clients /\ p.id = <<p.id[1], p.id[2]>> /\ p.topic \in Topics
        /\ <<p.topic, p.id[2]>> \in Pending(p.id[1])
    BY <2>1, AtHand DEF Working
  <2>3. ~Settled(p.id[1], <<p.topic, p.id[2]>>)
    BY <2>1, SettledMeans
  <2>4. done[p.id] = 0
    <3> DEFINE x == <<p.topic, p.id[2]>>
    <3>1. x \in Pending(p.id[1]) /\ ~Settled(p.id[1], x) /\ x[2] = p.id[2]
      BY <2>2, <2>3
    <3> HIDE DEF x
    <3>2. PendingAt(p.id[1])
      BY <2>2 DEF SeqInv
    <3> QED  BY <2>1, <2>2, <3>1, <3>2 DEF PendingAt
  <2>5. msg' = {p} /\ Stamp(p) \in lastTs'[p.topic] /\ lastTs \in [Topics -> SUBSET Int]
    BY <2>1, <2>2 DEF HInv, CInv, TInv, TypeOK
  <2> QED  BY <2>1, <2>4, <2>5 DEF UnderHand, Stamp
<1>5. CASE WaitForRequest
  <2>1. /\ bpc' = "await" /\ newRequest' = {} /\ bpc = "await"
        /\ UNCHANGED <<lastTs, msg>>
    <3>1. UNCHANGED <<lastTs, bpc, msg>> /\ newRequest' = {} /\ bpc = "await"
      BY <1>5, Handed DEF netVars, clientVars
    <3> QED  BY <3>1
  <2> QED  BY <2>1 DEF SeqInv, UnderHand, Stamp, Waiting
<1>6. CASE BgStop \/ \E p \in msg : SendReply(p)
  <2>1. ~Waiting'
    BY <1>6 DEF BgStop, SendReply, Waiting
  <2> QED  BY <2>1 DEF UnderHand
<1>7. ASSUME NEW p \in msg, Announce(p)
      PROVE  UnderHand'
  <2>1. UNCHANGED <<lastTs, msg, done>> /\ bpc = "announce"
    BY <1>7 DEF Announce, bgVars, dedupVars, hist
  <2> QED  BY <2>1 DEF SeqInv, UnderHand, Stamp, Waiting
<1>8. CASE Unmoved /\ UNCHANGED newRequest /\ (Waiting' => Waiting) /\ (bpc = "await" <=> bpc' = "await")
  BY <1>3, <1>8
<1>9. CASE Unmoved /\ bpc' = bpc /\ (newRequest' # {} => newRequest # {})
  BY <1>3, <1>9 DEF Waiting
<1> QED  BY <1>4, <1>5, <1>6, <1>7, <1>8, <1>9, Movers

LEMMA RunNext ==
    ASSUME resets' = 0, CInv, HInv, LifeInv, QueueInv, SeqInv, [Next]_vars
    PROVE  RunInv'
<1> USE DEF netVars, clientVars, topicVars, dedupVars, bgVars, userVars, hist
<1>1. TInv /\ RunInv /\ done \in [Ids -> Nat]
  BY DEF SeqInv, CInv, TInv, TypeOK
<1>2. ASSUME NEW id \in Ids
      PROVE  id[1] \in Clients /\ id[2] \in Nat
  BY <1>2 DEF Ids
<1>3. ASSUME NEW c \in Clients
      PROVE  calls[c] \in Nat /\ calls'[c] \in Nat /\ calls[c] <= calls'[c]
  BY <1>3, CallsGrow
<1>4. ASSUME NEW id \in Ids, id[2] > calls[id[1]]
      PROVE  done'[id] = 0
  <2>1. done[id] = 0 /\ ~(id[2] <= calls[id[1]])
    BY <1>1, <1>2, <1>3, <1>4 DEF RunInv
  <2>2. done'[id] = done[id] \/ SentRequest(id) \/ \E p \in msg : id = p.id /\ Working
    <3>1. CASE \E c \in Clients : \E i \in DOMAIN wire[c] : Lose(c, i) \/ Recv(c, i)
      BY <3>1 DEF Lose, Recv
    <3>2. CASE \E c, cmd, t, resend : Call(c, cmd, t, resend)
      BY <3>2 DEF Call
    <3>3. CASE \E c \in Clients : ClientStep(c)
      BY <3>3, ClientSends
    <3>4. CASE \E p \in msg : AnswerStep(p)
      BY <1>4, <3>4 DEF AnswerStep
    <3>5. CASE QuietStep
      BY <1>4, <3>5 DEF QuietStep
    <3> QED  BY <3>1, <3>2, <3>3, <3>4, <3>5, StepKinds
  <2>3. ASSUME NEW p \in msg, p.id = id PROVE FALSE
    <3>1. ConnAt(id[1])
      BY <1>2, <1>4 DEF CInv, ConnInv
    <3> QED  BY <2>1, <2>3, <3>1 DEF ConnAt, Sent
  <2> QED  BY <2>1, <2>2, <2>3 DEF SentRequest
<1>5. ASSUME NEW id \in Ids, SentRequest(id)
      PROVE  done'[id] <= 1
  <2>1. done[id] <= 1
    BY <1>1, <1>5 DEF RunInv
  <2>2. CASE done'[id] = done[id]
    BY <2>1, <2>2
  <2>3. CASE WaitForRequest
    <3>1. PICK p \in Packet : /\ msg = {p} /\ bpc = "await" /\ newRequest # {}
                              /\ done' = [done EXCEPT ![p.id] = @ + 1]
      BY <2>3, Handed
    <3>2. done[p.id] = 0
      BY <3>1 DEF SeqInv, UnderHand, Waiting
    <3>3. CASE id = p.id
      BY <1>1, <1>5, <3>1, <3>2, <3>3
    <3>4. CASE id # p.id
      BY <1>1, <1>5, <2>1, <3>1, <3>4
    <3> QED  BY <3>3, <3>4
  <2>4. CASE BgStop \/ \E p \in msg : RecordRequest(p) \/ SendReply(p) \/ Announce(p)
    <3>1. done' = done
      BY <2>4 DEF BgStop, RecordRequest, SendReply, Announce
    <3> QED  BY <2>2, <3>1
  <2>5. CASE Unmoved
    BY <1>5, <2>2, <2>5 DEF Unmoved
  <2> QED  BY <2>3, <2>4, <2>5, Movers
<1>6. ASSUME NEW id \in Ids, id[2] > calls'[id[1]]
      PROVE  done'[id] = 0
  <2>1. id[2] > calls[id[1]]
    BY <1>2, <1>3, <1>6
  <2> QED  BY <1>4, <2>1
<1>7. ASSUME NEW id \in Ids, SentRequest(id)'
      PROVE  done'[id] <= 1
  <2>1. CASE id[2] > calls[id[1]]
    BY <1>4, <2>1
  <2>2. CASE id[2] <= calls[id[1]]
    <3>1. CmdOf(id)' = CmdOf(id)
      BY <1>1, <2>2, CmdStays
    <3>2. SentRequest(id)
      BY <1>7, <2>2, <3>1 DEF SentRequest
    <3> QED  BY <1>5, <3>2
  <2>3. id[2] \in Nat /\ calls[id[1]] \in Nat
    BY <1>2, <1>3
  <2> QED  BY <2>1, <2>2, <2>3
<1> QED  BY <1>6, <1>7 DEF RunInv

LEMMA StampPastNext ==
    ASSUME OneClient, resets' = 0, CInv, HInv, SeqInv, [Next]_vars
    PROVE  StampPast'
<1> SUFFICES ASSUME NEW c \in Clients, NEW t \in Topics, <<c, "REQUEST", t>> \in Calls,
                    NEW s \in lastTs'[t]
             PROVE  s <= Epoch[c] + calls'[c]
  BY DEF StampPast
<1>1. /\ lastTs \in [Topics -> SUBSET Int] /\ Epoch[c] \in Int
      /\ calls[c] \in Nat /\ calls'[c] \in Nat /\ calls[c] <= calls'[c]
  <2>1. lastTs \in [Topics -> SUBSET Int]
    BY DEF CInv, TInv, TypeOK
  <2>2. Epoch[c] \in Int
    BY ConstantTypes
  <2> QED  BY <2>1, <2>2, CallsGrow
<1>2. CASE lastTs'[t] = lastTs[t]
  <2>1. s \in Int /\ s <= Epoch[c] + calls[c]
    BY <1>1, <1>2 DEF SeqInv, StampPast
  <2> QED  BY <1>1, <2>1
<1>3. ASSUME NEW p \in msg, RecordRequest(p), lastTs'[t] # lastTs[t]
      PROVE  s <= Epoch[c] + calls'[c]
  <2>1. bpc = "dispatch" /\ p.cmd = "REQUEST" /\ lastTs' = [lastTs EXCEPT ![p.topic] = {Stamp(p)}]
    BY <1>3 DEF RecordRequest
  <2>2. /\ p.id[1] \in Clients /\ p.id[2] \in Nat /\ p.id[2] <= calls[p.id[1]]
        /\ <<p.id[1], "REQUEST", p.topic>> \in Calls /\ p.topic \in Topics
    BY <2>1, AtHand DEF Working
  <2>3. p.topic = t
    BY <1>1, <1>3, <2>1
  <2>4. s = Epoch[p.id[1]] + p.id[2]
    BY <1>1, <2>1, <2>3 DEF Stamp
  <2>5. p.id[1] = c
    <3> DEFINE y == <<c, "REQUEST", t>>
               z == <<p.id[1], "REQUEST", p.topic>>
    <3>1. /\ y \in Calls /\ z \in Calls /\ y[2] = "REQUEST" /\ z[2] = "REQUEST" /\ y[3] = z[3]
          /\ y[1] = c /\ z[1] = p.id[1]
      BY <2>2, <2>3
    <3> HIDE DEF y, z
    <3> QED  BY <3>1 DEF OneClient
  <2>6. p.id[2] \in Nat /\ p.id[2] <= calls[c]
    BY <2>2, <2>5
  <2> QED  BY <1>1, <2>4, <2>5, <2>6
<1>4. CASE Unmoved
  BY <1>2, <1>4 DEF Unmoved
<1>5. CASE BgStop \/ WaitForRequest \/ \E p \in msg : SendReply(p) \/ Announce(p)
  BY <1>2, <1>5 DEF BgStop, WaitForRequest, SendReply, Announce, dedupVars
<1> QED  BY <1>2, <1>3, <1>4, <1>5, Movers

\* The server knows a topic's only client by the time.
LEMMA OneClientDiffers == OneClient => StampsDiffer
  BY DEF OneClient, StampsDiffer

LEMMA SeqNext ==
    ASSUME InOrder, OneClient, CallsInv, resets = 0 => SeqInv, [Next]_vars
    PROVE  (resets = 0 => SeqInv)'
<1> SUFFICES ASSUME resets' = 0 PROVE SeqInv'
  OBVIOUS
<1>1. CInv /\ HInv /\ LifeInv /\ QueueInv
  BY DEF CallsInv, ReqInv
<1>2. SeqInv
  BY <1>1, DoneGrows
<1>3. \A c \in Clients : OrderAt(c)'
  BY <1>1, <1>2, OrderNext DEF SeqInv
<1>4. \A c \in Clients : PendingAt(c)'
  BY <1>1, <1>2, PendingNext
<1>5. UnderHand' /\ RunInv' /\ StampPast'
  BY <1>1, <1>2, UnderHandNext, RunNext, StampPastNext
<1> QED  BY <1>3, <1>4, <1>5 DEF SeqInv

LEMMA SeqInvHolds ==
    ASSUME InOrder, OwnQueue, OneClient
    PROVE  Spec => [](CallsInv /\ (resets = 0 => SeqInv))
<1>1. StampsDiffer
  BY OneClientDiffers
<1>2. Spec => []CallsInv
  BY <1>1, CallsInvHolds
<1>3. Init => (resets = 0 => SeqInv)
  BY SeqInit
<1>4. CallsInv /\ (resets = 0 => SeqInv) /\ [Next]_vars => (resets = 0 => SeqInv)'
  BY SeqNext
<1> QED  BY <1>2, <1>3, <1>4, PTL DEF Spec

LEMMA RequestsSent ==
    ASSUME TInv, NEW id \in Ids
    PROVE  IsRequest(id) <=> SentRequest(id)
<1>1. PICK c \in Clients : c = id[1]
  BY DEF Ids
<1>2. id[2] \in Nat /\ calls[c] \in Nat
  BY CountTypes DEF Ids
<1>3. PICK n \in Nat : n = Len(results[c])
  BY CountTypes
<1>4. calls[c] = n \/ calls[c] = n + 1
  <2>1. calls[c] = n + IF cpc[c] = "idle" THEN 0 ELSE 1
    BY <1>3 DEF TInv, Counted
  <2> QED  BY <2>1
<1>5. CASE id[2] <= n
  <2>1. id[2] <= calls[c]
    BY <1>2, <1>4, <1>5
  <2> QED  BY <1>1, <1>3, <1>5, <2>1 DEF IsRequest, SentRequest, CmdOf
<1>6. CASE ~(id[2] <= n)
  <2>1. id[2] <= calls[c] <=> id[2] = calls[c]
    BY <1>2, <1>4, <1>6
  <2> QED  BY <1>1, <1>3, <1>6, <2>1 DEF IsRequest, SentRequest, CmdOf
<1> QED  BY <1>5, <1>6

(* The server's program is given every request at most once, however often *)
(* the client sent it and whatever packets were lost (AtMostOnce), where   *)
(* each client's packets arrive in the order sent and every topic of       *)
(* requests has one client and nothing else in it, as long as              *)
(* reset_start_time is not called: it forgets the stamps.  The run         *)
(* dedup_shared_topic shows that the second condition is needed.           *)
THEOREM RequestsRunOnce ==
    ASSUME InOrder, OwnQueue, OneClient
    PROVE  Spec => [](resets = 0 => AtMostOnce)
<1>1. CallsInv /\ (resets = 0 => SeqInv) => (resets = 0 => AtMostOnce)
  BY RequestsSent DEF CallsInv, CInv, SeqInv, RunInv, AtMostOnce
<1> QED  BY <1>1, SeqInvHolds, PTL

\* Only wait_for_request counts a request as run.
LEMMA OnlyWaitRuns ==
    ASSUME CInv, [Next]_vars, NEW id \in Ids, SentRequest(id), done'[id] # done[id]
    PROVE  WaitForRequest
<1> USE DEF netVars, clientVars, topicVars, dedupVars, bgVars, userVars, hist
<1>1. CASE \E c \in Clients : \/ \E i \in DOMAIN wire[c] : Lose(c, i)
                              \/ \E cmd, t, resend : Call(c, cmd, t, resend)
                              \/ ClientStep(c)
  <2>1. CASE \E c \in Clients : \/ \E i \in DOMAIN wire[c] : Lose(c, i)
                                \/ \E cmd, t, resend : Call(c, cmd, t, resend)
    BY <2>1 DEF Lose, Call
  <2>2. CASE \E c \in Clients : ClientStep(c)
    BY <2>2, ClientSends
  <2> QED  BY <1>1, <2>1, <2>2
<1>2. ASSUME NEW p \in msg, Serve(p)
      PROVE  done'[id] = done[id]
  <2>1. done' = done \/ (p.cmd = "PUT" /\ done' = [done EXCEPT ![p.id] = @ + 1])
    BY <1>2 DEF Serve, Took
  <2>2. p \in Packet /\ done \in [Ids -> Nat] /\ p.id[1] \in Clients
    BY DEF CInv, TInv, TypeOK, Packet, Ids
  <2>3. p.cmd = "PUT" => CmdOf(p.id) = "PUT"
    <3>1. Sent(p.id[1], p)
      BY <2>2 DEF CInv, ConnInv, ConnAt
    <3> QED  BY <3>1 DEF Sent
  <2> QED  BY <2>1, <2>2, <2>3 DEF SentRequest
<1>3. CASE BgStep
  <2>1. CASE \E c \in Clients : \E i \in DOMAIN wire[c] : Recv(c, i)
    BY <2>1 DEF Recv
  <2>2. CASE \E p \in msg : \/ NoTopic(p) \/ AnswerAgain(p) \/ RecordRequest(p)
                            \/ EnqueueRequest(p) \/ Announce(p) \/ SendReply(p)
    BY <2>2 DEF NoTopic, AnswerAgain, RecordRequest, EnqueueRequest, Announce, SendReply
  <2>3. CASE BgStop
    BY <2>3 DEF BgStop
  <2> QED  BY <1>2, <1>3, <2>1, <2>2, <2>3 DEF BgStep
<1>4. CASE ReplyPut \/ ReplyFlag \/ \E t : PutData(t) \/ PopData(t) \/ AddTopic(t)
  BY <1>4 DEF ReplyPut, ReplyFlag, PutData, PopData, AddTopic
<1>5. CASE ResetStartTime \/ Shutdown \/ UNCHANGED vars
  BY <1>5 DEF ResetStartTime, Shutdown, vars
<1> QED  BY <1>1, <1>3, <1>4, <1>5 DEF Next, ServeRequests

LEMMA RunAwaited ==
    ASSUME CallsInv, [Next]_vars, NEW id \in Ids, IsRequest(id), done'[id] # done[id]
    PROVE  bpc = "await" /\ \E p \in msg : p.id = id
<1>1. CInv /\ TInv /\ Handshake /\ LifeInv /\ QueueInv
  BY DEF CallsInv, CInv, HInv, ReqInv
<1>2. done \in [Ids -> Nat] /\ queue \in [Topics -> Seq(Entry)] /\ newRequest \subseteq Topics
  BY <1>1 DEF TInv, TypeOK
<1>3. WaitForRequest
  BY <1>1, RequestsSent, OnlyWaitRuns
<1>4. PICK t \in newRequest :
        queue[t] # <<>> /\ Head(queue[t]).by = "REQUEST" /\ Took(Head(queue[t]).of)
  BY <1>3 DEF WaitForRequest
<1>5. bpc = "await"
  BY <1>1, <1>3, <1>4 DEF Handshake, Handover, LifeInv, WaitForRequest
<1>6. PICK p \in msg : p.topic = t
  BY <1>1, <1>4 DEF Handshake, Handover, Asked
<1>7. queue[t] = <<[by |-> "REQUEST", of |-> p.id]>>
  BY <1>1, <1>4, <1>5, <1>6 DEF QueueInv, Asking
<1>8. Took(p.id)
  BY <1>4, <1>7
<1>9. id = p.id
  BY <1>2, <1>8 DEF Took
<1> QED  BY <1>5, <1>9

(* wait_for_request gives the program a request only while the background  *)
(* thread waits for the reply to it, for any clients, losses and retries   *)
(* and whenever reset_start_time is called or the server destroyed         *)
(* (rmq_server.cpp:184-223, 378-405): what a topic of requests holds when  *)
(* it is announced is the request just taken from the socket, or nothing.  *)
THEOREM RunsAreAwaited ==
    ASSUME OwnQueue, StampsDiffer
    PROVE  Spec => RunsAwaited
<1> DEFINE A == \A id \in Ids : IsRequest(id) /\ done'[id] # done[id] =>
                   bpc = "await" /\ \E p \in msg : p.id = id
<1>1. CallsInv /\ [Next]_vars => [A]_vars
  BY RunAwaited
<1> QED  BY <1>1, CallsInvHolds, PTL DEF Spec, RunsAwaited

-----------------------------------------------------------------------------
(* RequestReply implements Rpc: each step is one of Rpc for every call, or *)
(* leaves its status and its runs as they are.                             *)

StatusMeaning ==
    \A id \in Ids :
        LET c == id[1]  n == id[2]
        IN  /\ ~IsRequest(id) => StatusOf(id) = "new"
            /\ IsRequest(id) /\ n \notin Ended(c) => StatusOf(id) = "called"
            /\ IsRequest(id) /\ n \in Ended(c) /\ results[c][n].how = "threw"
                 => StatusOf(id) = "failed"
            /\ IsRequest(id) /\ n \in Ended(c) /\ results[c][n].how # "threw"
               /\ results[c][n].ptrs = <<[by |-> "reply", of |-> id]>>
                 => StatusOf(id) = "returned"
            /\ IsRequest(id) => StatusOf(id) # "new"

LEMMA StatusMeans == StatusMeaning
<1> SUFFICES ASSUME NEW id \in Ids
             PROVE  LET c == id[1]  n == id[2]
                    IN  /\ ~IsRequest(id) => StatusOf(id) = "new"
                        /\ IsRequest(id) /\ n \notin Ended(c) => StatusOf(id) = "called"
                        /\ IsRequest(id) /\ n \in Ended(c) /\ results[c][n].how = "threw"
                             => StatusOf(id) = "failed"
                        /\ IsRequest(id) /\ n \in Ended(c) /\ results[c][n].how # "threw"
                           /\ results[c][n].ptrs = <<[by |-> "reply", of |-> id]>>
                             => StatusOf(id) = "returned"
                        /\ IsRequest(id) => StatusOf(id) # "new"
  BY DEF StatusMeaning
<1>1. ~IsRequest(id) => StatusOf(id) = "new"
  BY DEF StatusOf
<1>2. IsRequest(id) /\ id[2] \notin Ended(id[1]) => StatusOf(id) = "called"
  BY DEF StatusOf
<1>3. IsRequest(id) /\ id[2] \in Ended(id[1]) =>
        StatusOf(id) = IF results[id[1]][id[2]].how = "threw" THEN "failed"
                       ELSE IF results[id[1]][id[2]].ptrs = <<[by |-> "reply", of |-> id]>>
                         THEN "returned"
                       ELSE "answered by another"
  BY DEF StatusOf
<1> QED  BY <1>1, <1>2, <1>3

LEMMA StatusMeansNext == StatusMeaning'
  BY StatusMeans, PTL

SentMeaning == \A id \in Ids : IsRequest(id) <=> SentRequest(id)

LEMMA SentMeans == TInv => SentMeaning
  BY RequestsSent DEF SentMeaning

LEMMA SentMeansNext == TInv' => SentMeaning'
  BY SentMeans, PTL

LEMMA RpcStarts == Init => \A id \in Ids : Service(id)!RpcInit
<1> SUFFICES ASSUME Init, NEW id \in Ids PROVE Service(id)!RpcInit
  OBVIOUS
<1>1. ~IsRequest(id)
  BY DEF IsRequest, Init, Ids
<1>2. StatusOf(id) = "new" /\ RunsOf(id) = 0
  BY <1>1, StatusMeans DEF StatusMeaning, RunsOf
<1> QED  BY <1>2 DEF Service!RpcInit

\* What is needed of a state for its steps to be those of Rpc.
RpcInv == CInv /\ InboxInv /\ (resets = 0 => RunInv)

LEMMA RpcStep ==
    ASSUME RpcInv, RpcInv', [Next]_vars, resets' = 0, NEW id \in Ids
    PROVE  UNCHANGED <<StatusOf(id), RunsOf(id)>> \/ Service(id)!RpcNext
<1> USE DEF netVars, clientVars, topicVars, dedupVars, bgVars, userVars, hist
<1> DEFINE Goal == UNCHANGED <<StatusOf(id), RunsOf(id)>> \/ Service(id)!RpcNext
<1>1. /\ CInv /\ TInv /\ InboxInv /\ TInv' /\ RunInv /\ RunInv'
      /\ done \in [Ids -> Nat] /\ done'[id] \in Nat /\ done[id] \in Nat
      /\ id[1] \in Clients /\ id[2] \in Nat /\ resets = 0
  <2>0. resets = 0
    BY DoneGrows DEF RpcInv
  <2>1. /\ CInv /\ TInv /\ InboxInv /\ TInv' /\ RunInv /\ RunInv'
    BY <2>0 DEF RpcInv, CInv
  <2>2. done \in [Ids -> Nat] /\ done' \in [Ids -> Nat] /\ resets = 0
    BY <2>0, <2>1 DEF TInv, TypeOK
  <2>3. id[1] \in Clients /\ id[2] \in Nat
    BY DEF Ids
  <2> QED  BY <2>1, <2>2, <2>3
<1>2. /\ IsRequest(id) <=> SentRequest(id)
      /\ IsRequest(id)' <=> SentRequest(id)'
      /\ SentRequest(id) => SentRequest(id)'
  BY <1>1, SentMeans, SentMeansNext, RequestKept DEF SentMeaning
<1>3. calls[id[1]] \in Nat /\ calls'[id[1]] \in Nat /\ calls[id[1]] <= calls'[id[1]]
  BY <1>1, CallsGrow
<1>4. ASSUME ~IsRequest(id)'
      PROVE  Goal
  <2>1. ~IsRequest(id)
    BY <1>2, <1>4
  <2>2. StatusOf(id) = "new" /\ StatusOf(id)' = "new"
    BY <1>4, <2>1, StatusMeans, StatusMeansNext DEF StatusMeaning
  <2> QED  BY <1>4, <2>1, <2>2 DEF RunsOf
<1>5. ASSUME IsRequest(id), IsRequest(id)', UNCHANGED <<call, calls, results>>,
             done'[id] = done[id] \/ done'[id] = done[id] + 1
      PROVE  Goal
  <2>1. StatusOf(id)' = StatusOf(id)
    BY <1>5 DEF StatusOf, IsRequest, Ended
  <2>2. RunsOf(id) = done[id] /\ RunsOf(id)' = done'[id]
    BY <1>5 DEF RunsOf
  <2>3. CASE done'[id] = done[id]
    BY <2>1, <2>2, <2>3
  <2>4. CASE done'[id] = done[id] + 1
    <3>1. done'[id] <= 1
      BY <1>1, <1>2, <1>5 DEF RunInv
    <3>2. done[id] = 0 /\ done'[id] = 1
      BY <1>1, <2>4, <3>1
    <3>3. StatusOf(id) # "new"
      BY <1>5, StatusMeans DEF StatusMeaning
    <3> QED  BY <2>1, <2>2, <3>2, <3>3 DEF Service!RpcNext, Service!Execute
  <2> QED  BY <1>5, <2>3, <2>4
<1>6. ASSUME NEW c \in Clients, NEW cmd \in Cmds, NEW t \in Topics, NEW resend \in Resend,
             Call(c, cmd, t, resend), IsRequest(id)'
      PROVE  Goal
  <2>1. results' = results /\ done' = done /\ Ended(id[1])' = Ended(id[1])
    BY <1>6 DEF Call, Ended
  <2>2. CASE IsRequest(id)
    <3>1. StatusOf(id)' = StatusOf(id)
      BY <1>6, <2>1, <2>2 DEF StatusOf
    <3> QED  BY <1>6, <2>1, <2>2, <3>1 DEF RunsOf
  <2>3. CASE ~IsRequest(id)
    <3>1. id[2] > calls[id[1]]
      <4>1. SentRequest(id)' /\ ~SentRequest(id)
        BY <1>2, <1>6, <2>3
      <4>2. ~(id[2] <= calls[id[1]])
        BY <1>1, <4>1, CmdStays DEF SentRequest
      <4> QED  BY <1>1, <1>3, <4>2
    <3>2. done[id] = 0
      BY <1>1, <3>1 DEF RunInv
    <3>3. id[2] \notin Ended(id[1])
      <4>1. PICK n \in Nat : n = Len(results[id[1]]) /\ Ended(id[1]) = 1 .. n
        BY <1>1, CountTypes DEF Ended
      <4>2. calls[id[1]] = n + IF cpc[id[1]] = "idle" THEN 0 ELSE 1
        BY <1>1, <4>1 DEF TInv, Counted
      <4>3. n <= calls[id[1]]
        BY <4>2
      <4> QED  BY <1>1, <1>3, <3>1, <4>1, <4>3
    <3>4. StatusOf(id) = "new" /\ StatusOf(id)' = "called"
      BY <1>6, <2>1, <2>3, <3>3, StatusMeans, StatusMeansNext DEF StatusMeaning
    <3>5. RunsOf(id) = 0 /\ RunsOf(id)' = 0
      BY <1>6, <2>1, <2>3, <3>2 DEF RunsOf
    <3> QED  BY <3>4, <3>5 DEF Service!RpcNext, Service!Begin
  <2> QED  BY <2>2, <2>3
<1>7. ASSUME NEW d \in Clients, ClientStep(d), IsRequest(id)'
      PROVE  Goal
  <2>1. /\ cpc[d] # "idle" /\ calls' = calls /\ call' = call /\ done' = done
        /\ \/ results' = results
           \/ \E how \in {"returned", "threw"} : \E ptrs :
                /\ Finish(d, how, ptrs)
                /\ how = "returned" /\ call[d].cmd \in {"PUT", "REQUEST"} => done[CallId(d)] >= 1
                /\ how = "returned" /\ call[d].cmd = "REQUEST" =>
                     ptrs = <<[by |-> "reply", of |-> CallId(d)]>>
    BY <1>1, <1>7, ClientEnds
  <2>2. IsRequest(id) /\ id[2] <= calls[id[1]]
    <3>1. SentRequest(id)' /\ id[2] <= calls[id[1]]
      BY <1>2, <1>7, <2>1 DEF SentRequest
    <3>2. CmdOf(id)' = CmdOf(id)
      BY <1>1, <3>1, CmdStays
    <3> QED  BY <1>2, <3>1, <3>2 DEF SentRequest
  <2>3. CASE results' = results
    BY <1>5, <1>7, <2>1, <2>2, <2>3
  <2>4. ASSUME NEW how \in {"returned", "threw"}, NEW ptrs, Finish(d, how, ptrs),
               how = "returned" /\ call[d].cmd \in {"PUT", "REQUEST"} => done[CallId(d)] >= 1,
               how = "returned" /\ call[d].cmd = "REQUEST" =>
                 ptrs = <<[by |-> "reply", of |-> CallId(d)]>>
        PROVE  Goal
    <3>1. /\ calls[d] = Len(results[d]) + 1 /\ Len(results[d]) \in Nat
          /\ Ended(d) = 1 .. Len(results[d]) /\ Ended(d)' = 1 .. calls[d]
          /\ \A n \in Ended(d) : results'[d][n] = results[d][n]
          /\ results'[d][calls[d]] = [cmd |-> call[d].cmd, how |-> how, ptrs |-> ptrs]
          /\ \A e \in Clients \ {d} : results'[e] = results[e]
      BY <1>1, <2>1, <2>4, FinishFacts, CountTypes
    <3>2. RunsOf(id) = done[id] /\ RunsOf(id)' = done[id]
      BY <1>7, <2>1, <2>2 DEF RunsOf
    <3>3. CASE id[1] # d
      <4>1. results'[id[1]] = results[id[1]]
        BY <1>1, <3>1, <3>3
      <4>2. StatusOf(id)' = StatusOf(id)
        BY <1>7, <2>2, <4>1 DEF StatusOf, Ended
      <4> QED  BY <3>2, <4>2
    <3>4. CASE id[1] = d /\ id[2] \in Ended(d)
      <4>1. id[2] \in Ended(d)'
        BY <3>1, <3>4
      <4>2. results'[d][id[2]] = results[d][id[2]]
        BY <3>1, <3>4
      <4>3. StatusOf(id)' = StatusOf(id)
        BY <1>7, <2>2, <3>4, <4>1, <4>2 DEF StatusOf
      <4> QED  BY <3>2, <4>3
    <3>5. CASE id[1] = d /\ id[2] \notin Ended(d)
      <4>1. id[2] \in 1 .. MaxCalls
        BY DEF Ids
      <4>2. id[2] = calls[d]
        <5>1. id[2] \in Nat /\ id[2] >= 1 /\ id[2] <= calls[d] /\ MaxCalls \in Nat
          BY <1>1, <2>2, <3>5, <4>1, ConstantTypes
        <5> QED  BY <3>1, <3>5, <5>1
      <4>3. id = CallId(d) /\ id[2] \in Ended(d)'
        <5>1. id = <<d, calls[d]>>
          BY <3>5, <4>2 DEF Ids
        <5> QED  BY <3>1, <4>1, <4>2, <5>1 DEF CallId
      <4>4. call[d].cmd = "REQUEST"
        <5>1. CmdOf(id) = "REQUEST" /\ ~(id[2] <= Len(results[d]))
          BY <1>2, <2>2, <3>1, <4>2 DEF SentRequest
        <5> QED  BY <3>5, <5>1 DEF CmdOf
      <4>5. /\ results'[d][id[2]].how = how /\ results'[d][id[2]].ptrs = ptrs
        BY <3>1, <4>2
      <4>6. StatusOf(id) = "called"
        BY <2>2, <3>5, StatusMeans DEF StatusMeaning
      <4>7. CASE how = "threw"
        <5>1. StatusOf(id)' = "failed"
          BY <1>7, <3>5, <4>3, <4>5, <4>7, StatusMeansNext DEF StatusMeaning
        <5> QED  BY <3>2, <4>6, <5>1 DEF Service!RpcNext, Service!Fail
      <4>8. CASE how = "returned"
        <5>1. ptrs = <<[by |-> "reply", of |-> id]>> /\ done[id] >= 1
          BY <2>4, <4>3, <4>4, <4>8
        <5>2. StatusOf(id)' = "returned"
          BY <1>7, <3>5, <4>3, <4>5, <4>8, <5>1, StatusMeansNext DEF StatusMeaning
        <5>3. done[id] <= 1
          BY <1>1, <1>2, <2>2 DEF RunInv
        <5>4. done[id] = 1
          BY <1>1, <5>1, <5>3
        <5> QED  BY <3>2, <4>6, <5>2, <5>4 DEF Service!RpcNext, Service!Return
      <4> QED  BY <2>4, <4>7, <4>8
    <3> QED  BY <3>3, <3>4, <3>5
  <2> QED  BY <2>1, <2>3, <2>4
<1>8. ASSUME UNCHANGED <<call, calls, results>>, done'[id] = done[id] \/ done'[id] = done[id] + 1,
             IsRequest(id)'
      PROVE  Goal
  <2>1. IsRequest(id)
    BY <1>8 DEF IsRequest
  <2> QED  BY <1>5, <1>8, <2>1
<1>9. CASE \E c \in Clients : \E i \in DOMAIN wire[c] : Lose(c, i) \/ Recv(c, i)
  <2>1. UNCHANGED <<call, calls, results, done>>
    BY <1>9 DEF Lose, Recv
  <2> QED  BY <1>4, <1>8, <2>1
<1>10. ASSUME NEW p \in msg, AnswerStep(p)
       PROVE  Goal
  <2>1. UNCHANGED <<call, calls, results>> /\ (done' = done \/ Took(p.id))
    BY <1>10 DEF AnswerStep
  <2>2. done'[id] = done[id] \/ done'[id] = done[id] + 1
    BY <1>1, <2>1 DEF Took
  <2> QED  BY <1>4, <1>8, <2>1, <2>2
<1>11. CASE QuietStep
  <2>1. UNCHANGED <<call, calls, results>> /\ (done'[id] = done[id] \/ done'[id] = done[id] + 1)
    BY <1>11 DEF QuietStep
  <2> QED  BY <1>4, <1>8, <2>1
<1> QED  BY <1>1, <1>4, <1>6, <1>7, <1>9, <1>10, <1>11, StepKinds

\* All calls at once, up to the first reset.
RpcSteps ==
    resets' = 0 => \A id \in Ids :
                      UNCHANGED <<StatusOf(id), RunsOf(id)>> \/ Service(id)!RpcNext

(* request_with_data is a remote call (IsRpc): its program runs it at most *)
(* once, and a call that returns does so after its run and with the answer *)
(* of that run, whatever is lost and repeated on the way, under the        *)
(* conditions of RequestsRunOnce and until reset_start_time is called.     *)
THEOREM RequestsAreRpc ==
    ASSUME InOrder, OwnQueue, OneClient
    PROVE  Spec => IsRpc
<1>1. Spec => []RpcInv
  <2>1. CallsInv /\ (resets = 0 => SeqInv) => RpcInv
    BY DEF CallsInv, ReqInv, SeqInv, RpcInv
  <2> QED  BY <2>1, SeqInvHolds, PTL
<1>2. Init => \A id \in Ids : Service(id)!RpcInit
  BY RpcStarts
<1>3. RpcInv /\ RpcInv' /\ [Next]_vars => [RpcSteps]_vars
  BY RpcStep DEF RpcSteps
<1> QED  BY <1>1, <1>2, <1>3, PTL DEF Spec, IsRpc, RpcSteps

=============================================================================
