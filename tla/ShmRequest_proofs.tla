------------------------ MODULE ShmRequest_proofs ------------------------
(***************************************************************************)
(* Theorems about ShmRequest, for any number of clients, topics, calls,    *)
(* retries, losses and resets: the segments that are left behind, the data *)
(* the program is given for a request, and when wait_for_request throws.   *)
(***************************************************************************)
EXTENDS ShmRequest, RequestReplyRequests_proofs

-----------------------------------------------------------------------------
(* The files.                                                              *)

\* What is in a file, or was read of one.
Pieces == SUBSET (Ids \union {NoId})

\* A file is being written, or is of a topic known to use shared memory and
\* of a call that threw or of the one that is sending.
SegAt(c) ==
    /\ writing[c] # {} => cpc[c] # "send"
    /\ \A t \in Topics : \A d \in segment[c][t] :
         \/ writing[c] = {t} /\ d \in {NoId, Present(c)}
         \/ /\ t \in flagged[c]
            /\ d[1] = c /\ d[2] <= calls[c]
            /\ \/ Threw(d)
               \/ cpc[c] = "send" /\ d = CallId(c) /\ call[c].cmd = "REQUEST" /\ call[c].topic = t

SegInv == \A c \in Clients : SegAt(c)

SInv == CInv /\ STypeOK /\ SegInv

-----------------------------------------------------------------------------
(* The data of requests that may still be handled, until wait_for_request  *)
(* throws.                                                                 *)

\* In the order sent, nothing of a client comes after an answer to it, or
\* after a packet of its present connection.
LastAt(c) ==
    /\ inbox[c] # {} => wire[c] = <<>> /\ \A p \in msg : Working => p.id[1] # c
    /\ Handling(c) # {} => wire[c] = <<>>
    /\ \A i \in DOMAIN wire[c] : Live(c, wire[c][i]) => i = Len(wire[c])

\* The requests of c that are on the wire or with the thread.
InFlight(c) ==
    {wire[c][i] : i \in {j \in DOMAIN wire[c] : wire[c][j].cmd = "REQUEST"}}
    \union {p \in msg : Working /\ p.id[1] = c /\ p.cmd = "REQUEST"}

\* The data of the present request, and that of one on its way.
Data(c) ==
    /\ \A t \in writing[c] : segment[c][t] # {} \/ cleared
    /\ cpc[c] = "send" /\ call[c].cmd = "REQUEST" =>
         IF call[c].topic \in flagged[c]
           THEN \/ segment[c][call[c].topic] = {CallId(c)}
                \/ segment[c][call[c].topic] = {} /\ cleared
           ELSE <<CallId(c), call[c].topic>> \in raw

\* d may be read for the data of a request: it is not of an earlier call.
NotOlder(d, id) == d = NoId \/ (d[1] = id[1] /\ d[2] >= id[2])

DataOn(c, p) ==
    /\ \/ <<p.id, p.topic>> \in raw
       \/ p.topic \in flagged[c] /\ (segment[c][p.topic] # {} \/ cleared)
    /\ \A d \in segment[c][p.topic] : NotOlder(d, p.id)
    /\ Threw(p.id) \/ segment[c][p.topic] \subseteq {p.id}
    /\ p.id[2] \in Ended(c) => Threw(p.id)
    /\ cpc[c] = "status" => p.id[2] # calls[c]

FileAt(c) == Data(c) /\ \A p \in InFlight(c) : DataOn(c, p)

\* A request is in its topic only while it is handed over.
InTopic == {"announce", "await", "stopped"}
Queued ==
    \A t \in Topics : \A i \in DOMAIN queue[t] :
        /\ queue[t][i].by = "REQUEST" =>
             /\ bpc \in InTopic
             /\ \E p \in msg : p.topic = t /\ p.id = queue[t][i].of
        /\ queue[t][i].by = "PUT" => \E c \in Clients : <<c, "PUT", t>> \in Calls

\* What is read so far, for the request that is announced.
SeenOwn ==
    seen # {} =>
        /\ upc = "idle" /\ newRequest # {}
        /\ \A p \in msg : /\ Threw(p.id) \/ seen = {p.id}
                          /\ \A d \in seen : NotOlder(d, p.id)

Alive ==
    /\ HInv /\ LifeInv /\ Queued /\ SeenOwn
    /\ \A c \in Clients : LastAt(c) /\ FileAt(c)

\* After wait_for_request has thrown nothing is announced any more.
Dead ==
    /\ newRequest = {} /\ serving = {} /\ replyTopic = {}
    /\ upc \in {"idle", "gone"} /\ bpc \in {"await", "stopped"}

WaitInv == SInv /\ (IF failed THEN Dead ELSE Alive)

-----------------------------------------------------------------------------
(* The steps.  All are steps of RequestReply, but for those that only a    *)
(* shared-memory topic has.                                                *)

Plain ==
    /\ [Next]_vars
    /\ UNCHANGED <<clientVars, segVars, seen, shmHist>>
    /\ seen # {} => UNCHANGED <<newRequest, upc, msg>> \/ BgStep \/ ReplyPut \/ ReplyFlag

Calling == \E c \in Clients, cmd \in Cmds, t \in Topics, resend \in Resend :
              <<c, cmd, t>> \in Calls /\ SCall(c, cmd, t, resend)

Writing == \E c \in Clients, t \in Topics : OpenSegment(c, t)
Clearing == \E c \in Clients, t \in Topics : ClearSegment(c, t)

\* wait_for_request throws, or takes the process with it.
Failing == WaitThrows \/ WaitFaults

LEMMA SStepKinds ==
    ASSUME [SNext]_allVars
    PROVE  \/ Plain
           \/ Calling
           \/ \E c \in Clients : SPoll(c)
           \/ Writing
           \/ Clearing
           \/ ReadSegment
           \/ SWaitForRequest
           \/ Failing
           \/ ReplyIgnored
<1> USE DEF netVars, clientVars, topicVars, dedupVars, bgVars, userVars, hist
<1>1. CASE \E c \in Clients : \E i \in DOMAIN wire[c] : Lose(c, i) /\ UNCHANGED <<segVars, seen, shmHist>>
  BY <1>1 DEF Plain, Next, Lose
<1>2. CASE SBgStep
  <2>1. UNCHANGED clientVars
    <3>1. CASE \E c \in Clients : \E i \in DOMAIN wire[c] : Recv(c, i)
      BY <3>1 DEF Recv
    <3>2. CASE \E p \in msg : NoTopic(p) \/ Serve(p) \/ AnswerAgain(p) \/ RecordRequest(p)
      BY <3>2 DEF NoTopic, Serve, AnswerAgain, RecordRequest
    <3>3. CASE \E p \in msg : EnqueueRequest(p) \/ Announce(p) \/ SendReply(p)
      BY <3>3 DEF EnqueueRequest, Announce, SendReply
    <3>4. CASE BgStop
      BY <3>4 DEF BgStop
    <3> QED  BY <1>2, <3>1, <3>2, <3>3, <3>4 DEF SBgStep, BgStep
  <2> QED  BY <1>2, <2>1 DEF SBgStep, Plain, Next
<1>3. CASE (ReplyPut \/ ReplyFlag) /\ UNCHANGED <<segVars, seen, shmHist>>
  <2>1. UNCHANGED clientVars
    BY <1>3 DEF ReplyPut, ReplyFlag
  <2> QED  BY <1>3, <2>1 DEF Plain, Next, ServeRequests
<1>4. CASE /\ seen = {}
           /\ (\E t \in Topics : AddTopic(t)) \/ ResetStartTime \/ Shutdown
           /\ UNCHANGED <<segVars, seen, shmHist>>
  <2>1. UNCHANGED clientVars
    BY <1>4 DEF AddTopic, ResetStartTime, Shutdown
  <2> QED  BY <1>4, <2>1 DEF Plain, Next
<1>5. CASE UNCHANGED allVars
  BY <1>5 DEF allVars, vars, Plain
<1> QED  BY <1>1, <1>2, <1>3, <1>4, <1>5 DEF SNext, SServeRequests, Calling, Writing, Clearing, Failing

\* The steps that only read or write a segment.
LEMMA SegmentSteps ==
    ASSUME Writing \/ Clearing \/ ReadSegment
    PROVE  UNCHANGED <<vars, flagged, raw, given, failed, killed>>
  BY DEF Writing, Clearing, OpenSegment, ClearSegment, ReadSegment, segVars, shmHist

\* What the steps that are no steps of RequestReply leave alone.
LEMMA OnlyShm ==
    ASSUME [SNext]_allVars, ~[Next]_vars
    PROVE  /\ Failing \/ ReplyIgnored
           /\ UNCHANGED <<netVars, clientVars, topics, dedupVars, replyTopic, running, msg,
                          serving, puts, resets, hist, segVars, given>>
           /\ bpc' = bpc \/ WaitFaults
<1>1. ASSUME Calling PROVE [Next]_vars
  BY <1>1 DEF Calling, SCall, Next
<1>2. ASSUME NEW c \in Clients, SPoll(c) PROVE [Next]_vars
  BY <1>2 DEF SPoll, SStatusReply, SStatusTimeout, SCallReply, SCallTimeout, ClientStep, Next
<1>3. ASSUME SWaitForRequest PROVE [Next]_vars
  BY <1>3 DEF SWaitForRequest, ServeRequests, Next
<1>4. Failing \/ ReplyIgnored
  BY <1>1, <1>2, <1>3, SStepKinds, SegmentSteps DEF Plain
<1>5. CASE WaitThrows \/ ReplyIgnored
  BY <1>5 DEF Failing, WaitThrows, ReplyIgnored, userVars, topicVars, shmHist, segVars, bgVars
<1>6. CASE WaitFaults
  BY <1>6 DEF Failing, WaitFaults, userVars, topicVars, shmHist, segVars
<1> QED  BY <1>4, <1>5, <1>6 DEF Failing

\* An exception of wait_for_request leaves the last entries of the topic.
LEMMA LeftFacts ==
    ASSUME TInv, WaitThrows
    PROVE  /\ queue' \in [Topics -> Seq(Entry)]
           /\ \A t \in Topics : \A i \in DOMAIN queue'[t] :
                \E j \in DOMAIN queue[t] : queue'[t][i] = queue[t][j]
<1>1. queue \in [Topics -> Seq(Entry)] /\ newRequest \subseteq Topics
  BY DEF TInv, TypeOK
<1>2. PICK t \in newRequest : \E q \in LeftByThrow(t) : queue' = [queue EXCEPT ![t] = q]
  BY DEF WaitThrows
<1>3. PICK q \in LeftByThrow(t) : queue' = [queue EXCEPT ![t] = q]
  BY <1>2
<1>4. q = <<>> \/ \E k \in DOMAIN queue[t] : q = SubSeq(queue[t], k, Len(queue[t]))
  BY <1>3 DEF LeftByThrow, Unparsable
<1>5. t \in Topics /\ queue[t] \in Seq(Entry)
  BY <1>1, <1>2
<1>6. q \in Seq(Entry) /\ \A i \in DOMAIN q : \E j \in DOMAIN queue[t] : q[i] = queue[t][j]
  <2>1. CASE q = <<>>
    BY <2>1
  <2>2. CASE \E k \in DOMAIN queue[t] : q = SubSeq(queue[t], k, Len(queue[t]))
    <3>1. PICK k \in DOMAIN queue[t] : q = SubSeq(queue[t], k, Len(queue[t]))
      BY <2>2
    <3>2. Len(queue[t]) \in Nat /\ DOMAIN queue[t] = 1 .. Len(queue[t])
      BY <1>5, LenProperties
    <3>3. /\ q \in Seq(Entry) /\ Len(q) = Len(queue[t]) - k + 1
          /\ \A i \in 1 .. Len(queue[t]) - k + 1 : q[i] = queue[t][k + i - 1]
      BY <1>5, <3>1, <3>2, SubSeqProperties
    <3>4. DOMAIN q = 1 .. Len(queue[t]) - k + 1
      BY <3>3, LenProperties
    <3>5. ASSUME NEW i \in DOMAIN q PROVE \E j \in DOMAIN queue[t] : q[i] = queue[t][j]
      <4>1. k + i - 1 \in 1 .. Len(queue[t])
        BY <3>1, <3>2, <3>4
      <4> QED  BY <3>2, <3>3, <3>4, <4>1
    <3> QED  BY <3>3, <3>5
  <2> QED  BY <1>4, <2>1, <2>2
<1> QED  BY <1>1, <1>3, <1>5, <1>6

LEMMA SCInvNext == CInv /\ [SNext]_allVars => CInv'
<1> SUFFICES ASSUME CInv, [SNext]_allVars, ~[Next]_vars PROVE CInv'
  BY CInvNext
<1> USE DEF netVars, clientVars, topicVars, dedupVars, bgVars, userVars, hist
<1>1. /\ Failing \/ ReplyIgnored
      /\ UNCHANGED <<netVars, clientVars, topics, dedupVars, replyTopic, running, msg,
                     serving, puts, resets, hist, segVars, given>>
      /\ bpc' = bpc \/ WaitFaults
  BY OnlyShm
<1>2. /\ newRequest' \subseteq newRequest /\ upc' \in {"idle", "flag", "gone"}
      /\ bpc' \in {bpc, "stopped"}
      /\ queue' \in [Topics -> Seq(Entry)]
      /\ \A t \in Topics : \A i \in DOMAIN queue'[t] :
           \E j \in DOMAIN queue[t] : queue'[t][i] = queue[t][j]
  <2>1. CASE WaitThrows
    BY <2>1, LeftFacts DEF WaitThrows, CInv
  <2>2. CASE ReplyIgnored
    <3>1. queue' = queue /\ newRequest' = newRequest /\ upc' = "flag" /\ bpc' = bpc
      BY <2>2 DEF ReplyIgnored
    <3> QED  BY <3>1 DEF CInv, TInv, TypeOK
  <2>3. CASE WaitFaults
    <3>1. queue' = queue /\ newRequest' = {} /\ upc' = "gone" /\ bpc' = "stopped"
      BY <2>3 DEF WaitFaults
    <3> QED  BY <3>1 DEF CInv, TInv, TypeOK
  <2> QED  BY <1>1, <2>1, <2>2, <2>3 DEF Failing
<1>3. TInv'
  <2>1. TParts
    BY TypeParts DEF CInv
  <2>2. NetTypes' /\ HistTypes' /\ ClientTypes'
    BY <1>1, <2>1 DEF TParts, NetTypes, HistTypes, ClientTypes, Counted
  <2>3. TopicTypes'
    BY <1>1, <1>2, <2>1 DEF TParts, TopicTypes
  <2>4. ThreadTypes'
    <3>1. \A x, y \in newRequest' : x = y
      BY <1>2, <2>1 DEF TParts, ThreadTypes
    <3> QED  BY <1>1, <1>2, <2>1, <3>1 DEF TParts, ThreadTypes
  <2> QED  BY <2>2, <2>3, <2>4, TypePartsNext DEF TParts
<1>4. ConnInv'
  <2>1. Working' => Working
    BY <1>2 DEF Working
  <2> QED  BY <1>1, <2>1, ConnRest DEF CInv
<1>5. EntryInv'
  <2>1. \A id : SentRequest(id)' <=> SentRequest(id)
    BY <1>1 DEF SentRequest, CmdOf
  <2> QED  BY <1>1, <1>2, <2>1 DEF CInv, EntryInv
<1> QED  BY <1>3, <1>4, <1>5 DEF CInv

-----------------------------------------------------------------------------
(* What a step does to the files.                                          *)

\* How calls end is settled.
LEMMA ThrewKept ==
    ASSUME TInv, [SNext]_allVars, NEW id, id[1] \in Clients
    PROVE  /\ id[2] \in Ended(id[1]) => id[2] \in Ended(id[1])'
           /\ Threw(id) => Threw(id)'
           /\ calls[id[1]] <= calls'[id[1]]
<1>1. results \in [Clients -> Seq(Result)] /\ calls \in [Clients -> 0 .. MaxCalls]
  BY DEF TInv, TypeOK, Result
<1>2. \/ UNCHANGED <<call, calls, results>>
      \/ \E c \in Clients : \E cmd \in Cmds, t \in Topics, resend \in Resend :
           Call(c, cmd, t, resend)
      \/ \E c \in Clients : /\ cpc[c] # "idle"
                            /\ calls' = calls /\ call' = call
                            /\ \E how, ptrs : Finish(c, how, ptrs)
  BY CallSteps, OnlyShm DEF clientVars
<1>3. calls[id[1]] \in Nat /\ calls[id[1]] <= calls[id[1]] /\ calls[id[1]] <= calls[id[1]] + 1
  BY CountTypes
<1>4. CASE UNCHANGED <<call, calls, results>>
  BY <1>3, <1>4 DEF Threw, Ended
<1>5. CASE \E c \in Clients : \E cmd \in Cmds, t \in Topics, resend \in Resend :
             Call(c, cmd, t, resend)
  <2>1. results' = results /\ \E c \in Clients : calls' = [calls EXCEPT ![c] = @ + 1]
    BY <1>5 DEF Call
  <2> QED  BY <1>1, <1>3, <2>1 DEF Threw, Ended
<1>6. CASE \E c \in Clients : /\ cpc[c] # "idle"
                              /\ calls' = calls /\ call' = call
                              /\ \E how, ptrs : Finish(c, how, ptrs)
  <2>1. PICK c \in Clients : calls' = calls /\ \E how, ptrs : Finish(c, how, ptrs)
    BY <1>6
  <2>2. PICK res : results' = [results EXCEPT ![c] = Append(@, res)]
    BY <2>1 DEF Finish
  <2>3. CASE c # id[1]
    BY <1>1, <1>3, <2>1, <2>2, <2>3 DEF Threw, Ended
  <2>4. CASE c = id[1]
    <3>1. results'[c] = Append(results[c], res)
      BY <1>1, <2>2
    <3>2. /\ DOMAIN results[c] = 1 .. Len(results[c]) /\ Len(results[c]) \in Nat
      BY <1>1, LenProperties
    <3>3. results[c] \in Seq(Result \union {res}) /\ res \in Result \union {res}
      BY <1>1, SeqMonotonic
    <3>4. /\ DOMAIN results'[c] = 1 .. Len(results[c]) + 1
          /\ \A i \in 1 .. Len(results[c]) : results'[c][i] = results[c][i]
      BY <3>1, <3>3, AppendFacts
    <3> QED  BY <1>3, <2>1, <2>4, <3>2, <3>4 DEF Threw, Ended
  <2> QED  BY <2>3, <2>4
<1> QED  BY <1>2, <1>4, <1>5, <1>6

\* A file nobody writes: what it has is of a call that sends or has thrown.
FileSettled(c, t, d) ==
    /\ t \in flagged[c]
    /\ d[1] = c /\ d[2] <= calls[c]
    /\ \/ Threw(d)
       \/ cpc[c] = "send" /\ d = CallId(c) /\ call[c].cmd = "REQUEST" /\ call[c].topic = t

LEMMA SegQuiet ==
    ASSUME TInv, [SNext]_allVars, NEW c \in Clients, SegAt(c),
           \A t \in Topics : segment'[c][t] \subseteq segment[c][t],
           writing'[c] = writing[c], flagged[c] \subseteq flagged'[c],
           cpc'[c] = cpc[c], call'[c] = call[c], calls'[c] = calls[c]
    PROVE  SegAt(c)'
<1>1. ASSUME NEW t \in Topics, NEW d \in segment'[c][t]
      PROVE  (writing[c] = {t} /\ d \in {NoId, Present(c)})' \/ FileSettled(c, t, d)'
  <2>1. d \in segment[c][t]
    BY <1>1
  <2>2. (writing[c] = {t} /\ d \in {NoId, Present(c)}) \/ FileSettled(c, t, d)
    BY <2>1 DEF SegAt, FileSettled
  <2>3. Present(c)' = Present(c) /\ CallId(c)' = CallId(c)
    BY DEF Present, CallId
  <2>4. FileSettled(c, t, d) => FileSettled(c, t, d)'
    <3> SUFFICES ASSUME FileSettled(c, t, d) PROVE FileSettled(c, t, d)'
      OBVIOUS
    <3>1. Threw(d) => Threw(d)'
      BY ThrewKept DEF FileSettled
    <3> QED  BY <2>3, <3>1 DEF FileSettled
  <2> QED  BY <2>2, <2>3, <2>4
<1>2. (writing[c] # {} => cpc[c] # "send")'
  BY DEF SegAt
<1> QED  BY <1>1, <1>2 DEF SegAt, FileSettled

\* A send ends the writing of the data of the present call, and of no other.
LEMMA SendDataFacts ==
    ASSUME STypeOK, NEW c \in Clients, SendData(c)
    PROVE  /\ \A e \in Clients \ {c} : segment'[e] = segment[e] /\ writing'[e] = writing[e]
           /\ writing'[c] = {}
           /\ \A t \in Topics :
                \/ segment'[c][t] = segment[c][t] /\ (t \in writing[c] => segment[c][t] = {})
                \/ /\ segment'[c][t] = {CallId(c)'}
                   /\ call'[c].cmd = "REQUEST" /\ cpc'[c] = "send"
                   /\ call'[c].topic = t /\ t \in flagged'[c]
           /\ call'[c].cmd = "REQUEST" /\ cpc'[c] = "send" /\ call'[c].topic \in Topics =>
                IF call'[c].topic \in flagged'[c]
                  THEN \/ segment'[c][call'[c].topic] = {CallId(c)'}
                       \/ /\ call'[c].topic \in writing[c]
                          /\ segment[c][call'[c].topic] = {} /\ segment'[c][call'[c].topic] = {}
                  ELSE <<CallId(c)', call'[c].topic>> \in raw'
           /\ raw \subseteq raw'
           /\ \/ raw' = raw
              \/ /\ raw' = raw \union {<<CallId(c)', call'[c].topic>>}
                 /\ call'[c].cmd = "REQUEST" /\ cpc'[c] = "send"
<1> DEFINE t == call'[c].topic
           sends == call'[c].cmd = "REQUEST" /\ cpc'[c] = "send"
           id == <<c, calls'[c]>>
<1>1. /\ writing[c] = IF sends /\ t \in flagged'[c] THEN {t} ELSE {}
      /\ writing' = [writing EXCEPT ![c] = {}]
      /\ segment' = IF sends /\ t \in flagged'[c] /\ segment[c][t] # {}
                      THEN [segment EXCEPT ![c][t] = {id}] ELSE segment
      /\ raw' = IF sends /\ t \notin flagged'[c] THEN raw \union {<<id, t>>} ELSE raw
  BY DEF SendData
<1>2. /\ segment \in [Clients -> [Topics -> SUBSET (Ids \union {NoId})]]
      /\ writing \in [Clients -> SUBSET ShmTopics]
  BY DEF STypeOK
<1>3. CallId(c)' = id
  BY DEF CallId
<1> HIDE DEF t, id
<1>4. \A e \in Clients \ {c} : segment'[e] = segment[e] /\ writing'[e] = writing[e]
  BY <1>1, <1>2
<1>5. writing'[c] = {}
  BY <1>1, <1>2
<1>6. \A u \in Topics :
        \/ segment'[c][u] = segment[c][u] /\ (u \in writing[c] => segment[c][u] = {})
        \/ segment'[c][u] = {id} /\ sends /\ t = u /\ u \in flagged'[c]
  BY <1>1, <1>2
<1>7. sends /\ t \in Topics =>
        IF t \in flagged'[c]
          THEN \/ segment'[c][t] = {id}
               \/ t \in writing[c] /\ segment[c][t] = {} /\ segment'[c][t] = {}
          ELSE <<id, t>> \in raw'
  BY <1>1, <1>2
<1>8. raw \subseteq raw' /\ (raw' = raw \/ (raw' = raw \union {<<id, t>>} /\ sends))
  BY <1>1
<1> QED  BY <1>3, <1>4, <1>5, <1>6, <1>7, <1>8 DEF t

(* A step that may send, of a client that was not sending.                 *)
LEMMA SegMoves ==
    ASSUME TInv, TInv', STypeOK, [SNext]_allVars, NEW c \in Clients, SegAt(c),
           SendData(c), flagged[c] \subseteq flagged'[c], cpc[c] # "send"
    PROVE  SegAt(c)'
<1> SUFFICES ASSUME NEW t \in Topics, NEW d \in segment'[c][t]
             PROVE  FileSettled(c, t, d)'
  <2>1. writing'[c] = {}
    BY SendDataFacts
  <2> QED  BY <2>1 DEF SegAt, FileSettled
<1>1. CASE segment'[c][t] = segment[c][t] /\ (t \in writing[c] => segment[c][t] = {})
  <2>1. FileSettled(c, t, d) /\ Threw(d)
    BY <1>1 DEF SegAt, FileSettled
  <2>2. /\ t \in flagged'[c] /\ d[1] = c /\ d[1] \in Clients
        /\ calls[c] <= calls'[c] /\ Threw(d)'
    BY <2>1, ThrewKept DEF FileSettled
  <2>3. calls[c] \in Nat /\ calls'[c] \in Nat
    <3>1. \A S : S \in [Clients -> 0 .. MaxCalls] => S[c] \in Nat
      BY ConstantTypes
    <3> QED  BY <3>1 DEF TInv, TypeOK
  <2>4. d[2] \in Nat
    <3>1. d \in Ids
      <4>1. d \in Ids \union {NoId}
        BY <1>1 DEF STypeOK
      <4> QED  BY <2>2, <4>1, ConstantTypes DEF NoId
    <3> QED  BY <3>1 DEF Ids
  <2> QED  BY <2>1, <2>2, <2>3, <2>4 DEF FileSettled
<1>2. CASE /\ segment'[c][t] = {CallId(c)'}
           /\ call'[c].cmd = "REQUEST" /\ cpc'[c] = "send"
           /\ call'[c].topic = t /\ t \in flagged'[c]
  <2>1. d = CallId(c)' /\ calls'[c] \in Nat
    <3>1. \A S : S \in [Clients -> 0 .. MaxCalls] => S[c] \in Nat
      BY ConstantTypes
    <3> QED  BY <1>2, <3>1 DEF TInv, TypeOK
  <2>2. d[1] = c /\ d[2] = calls'[c]
    BY <2>1 DEF CallId
  <2> QED  BY <1>2, <2>1, <2>2 DEF FileSettled
<1>3. \A u \in Topics :
        \/ segment'[c][u] = segment[c][u] /\ (u \in writing[c] => segment[c][u] = {})
        \/ /\ segment'[c][u] = {CallId(c)'}
           /\ call'[c].cmd = "REQUEST" /\ cpc'[c] = "send"
           /\ call'[c].topic = u /\ u \in flagged'[c]
  BY SendDataFacts
<1> QED  BY <1>1, <1>2, <1>3

\* The other clients, when one moves.
LEMMA OthersStay ==
    ASSUME TInv, STypeOK, NEW c \in Clients,
           SPoll(c) \/ \E cmd, t, resend : SCall(c, cmd, t, resend)
    PROVE  \A e \in Clients \ {c} :
             /\ segment'[e] = segment[e] /\ writing'[e] = writing[e] /\ flagged'[e] = flagged[e]
             /\ cpc'[e] = cpc[e] /\ call'[e] = call[e] /\ calls'[e] = calls[e]
             /\ results'[e] = results[e] /\ wire'[e] = wire[e] /\ inbox'[e] = inbox[e]
             /\ conn'[e] = conn[e]
<1> SUFFICES ASSUME NEW e \in Clients, e # c
             PROVE  /\ segment'[e] = segment[e] /\ writing'[e] = writing[e] /\ flagged'[e] = flagged[e]
                    /\ cpc'[e] = cpc[e] /\ call'[e] = call[e] /\ calls'[e] = calls[e]
                    /\ results'[e] = results[e] /\ wire'[e] = wire[e] /\ inbox'[e] = inbox[e]
                    /\ conn'[e] = conn[e]
  OBVIOUS
<1> USE DEF netVars, clientVars, topicVars, dedupVars, bgVars, userVars, hist, segVars, shmHist
<1>1. /\ cpc \in [Clients -> {"idle", "status", "send"}] /\ results \in [Clients -> Seq(Result)]
      /\ wire \in [Clients -> Seq(Packet)] /\ inbox \in [Clients -> SUBSET Answer]
      /\ conn \in [Clients -> Nat] /\ calls \in [Clients -> 0 .. MaxCalls]
      /\ call \in [Clients -> [cmd : Cmds, topic : Topics, resend : BOOLEAN]]
      /\ flagged \in [Clients -> SUBSET ShmTopics]
      /\ segment \in [Clients -> [Topics -> SUBSET (Ids \union {NoId})]]
  BY DEF TInv, TypeOK, Result, STypeOK
<1>2. \A x : /\ [cpc EXCEPT ![c] = x][e] = cpc[e] /\ [results EXCEPT ![c] = x][e] = results[e]
             /\ [wire EXCEPT ![c] = x][e] = wire[e] /\ [inbox EXCEPT ![c] = x][e] = inbox[e]
             /\ [conn EXCEPT ![c] = x][e] = conn[e] /\ [calls EXCEPT ![c] = x][e] = calls[e]
             /\ [call EXCEPT ![c] = x][e] = call[e] /\ [flagged EXCEPT ![c] = x][e] = flagged[e]
  BY <1>1
<1>3. /\ SendData(c) => segment'[e] = segment[e] /\ writing'[e] = writing[e]
      /\ segment' = segment \/ RemoveSegment(c) => segment'[e] = segment[e]
  <2>1. RemoveSegment(c) => segment'[e] = segment[e]
    BY <1>1 DEF RemoveSegment
  <2>2. ASSUME SendData(c) PROVE segment'[e] = segment[e] /\ writing'[e] = writing[e]
    <3>1. \A f \in Clients \ {c} : segment'[f] = segment[f] /\ writing'[f] = writing[f]
      BY <2>2, SendDataFacts
    <3> QED  BY <3>1
  <2> QED  BY <2>1, <2>2
<1>4. ASSUME NEW how, NEW ptrs, Finish(c, how, ptrs)
      PROVE  cpc'[e] = cpc[e] /\ results'[e] = results[e]
  BY <1>2, <1>4 DEF Finish
<1>5. ASSUME NEW k, NEW cmd, NEW t, Send(c, k, cmd, t)
      PROVE  wire'[e] = wire[e]
  BY <1>2, <1>5 DEF Send
<1>6. ASSUME NEW k, NEW exists, AfterStatus(c, k, exists)
      PROVE  cpc'[e] = cpc[e] /\ results'[e] = results[e] /\ wire'[e] = wire[e]
  BY <1>2, <1>4, <1>5, <1>6 DEF AfterStatus
<1>7. CASE \E cmd, t, resend : SCall(c, cmd, t, resend)
  <2>1. PICK cmd, t, resend : SCall(c, cmd, t, resend)
    BY <1>7
  <2>2. segment'[e] = segment[e] /\ writing'[e] = writing[e] /\ flagged' = flagged
    BY <1>3, <2>1 DEF SCall
  <2>3. /\ cpc'[e] = cpc[e] /\ call'[e] = call[e] /\ calls'[e] = calls[e] /\ wire'[e] = wire[e]
        /\ UNCHANGED <<results, inbox, conn>>
    BY <1>2, <1>5, <2>1 DEF SCall, Call
  <2> QED  BY <2>2, <2>3
<1>8. CASE SStatusReply(c)
  <2>1. segment'[e] = segment[e] /\ writing'[e] = writing[e] /\ flagged'[e] = flagged[e]
    BY <1>2, <1>3, <1>8 DEF SStatusReply, LearnFlag
  <2>2. /\ cpc'[e] = cpc[e] /\ wire'[e] = wire[e] /\ inbox'[e] = inbox[e] /\ results'[e] = results[e]
        /\ UNCHANGED <<call, calls, conn>>
    BY <1>2, <1>6, <1>8 DEF SStatusReply, StatusReply
  <2> QED  BY <2>1, <2>2
<1>9. CASE SStatusTimeout(c)
  <2>1. segment'[e] = segment[e] /\ writing'[e] = writing[e] /\ flagged' = flagged
    BY <1>3, <1>9 DEF SStatusTimeout
  <2>2. /\ cpc'[e] = cpc[e] /\ wire'[e] = wire[e] /\ results'[e] = results[e]
        /\ UNCHANGED <<call, calls>>
    BY <1>4, <1>6, <1>9 DEF SStatusTimeout, StatusTimeout
  <2>3. inbox'[e] = inbox[e] /\ conn'[e] = conn[e]
    BY <1>2, <1>9 DEF SStatusTimeout, StatusTimeout, Reconnect
  <2> QED  BY <2>1, <2>2, <2>3
<1>10. CASE SCallReply(c)
  <2>1. segment'[e] = segment[e] /\ writing'[e] = writing[e] /\ flagged' = flagged
    BY <1>3, <1>10 DEF SCallReply
  <2>2. /\ cpc'[e] = cpc[e] /\ inbox'[e] = inbox[e] /\ results'[e] = results[e]
        /\ UNCHANGED <<call, calls, conn, wire>>
    BY <1>2, <1>4, <1>10 DEF SCallReply, CallReply
  <2> QED  BY <2>1, <2>2
<1>11. CASE SCallTimeout(c)
  <2>1. segment' = segment /\ writing' = writing /\ flagged' = flagged
    BY <1>11 DEF SCallTimeout
  <2>2. /\ cpc'[e] = cpc[e] /\ wire'[e] = wire[e] /\ results'[e] = results[e]
        /\ UNCHANGED <<call, calls>>
    BY <1>4, <1>5, <1>11 DEF SCallTimeout, CallTimeout
  <2>3. inbox'[e] = inbox[e] /\ conn'[e] = conn[e]
    BY <1>2, <1>11 DEF SCallTimeout, CallTimeout, Reconnect
  <2> QED  BY <2>1, <2>2, <2>3
<1> QED  BY <1>7, <1>8, <1>9, <1>10, <1>11 DEF SPoll

LEMMA SegNext == SInv /\ [SNext]_allVars => SegInv'
<1> SUFFICES ASSUME SInv, [SNext]_allVars, NEW c \in Clients PROVE SegAt(c)'
  BY DEF SegInv
<1> USE DEF netVars, clientVars, topicVars, dedupVars, bgVars, userVars, hist, segVars, shmHist
<1>1. TInv /\ TInv' /\ STypeOK /\ SegAt(c)
  BY SCInvNext DEF SInv, CInv, SegInv
<1>2. ASSUME UNCHANGED <<cpc, call, calls, segment, writing, flagged>> PROVE SegAt(c)'
  BY <1>1, <1>2, SegQuiet
<1>3. CASE Plain \/ ReadSegment \/ SWaitForRequest \/ Failing \/ ReplyIgnored
  <2>1. UNCHANGED <<cpc, call, calls, segment, writing, flagged>>
    BY <1>3 DEF Plain, ReadSegment, vars, SWaitForRequest, WaitForRequest, Failing, WaitThrows,
                WaitFaults, ReplyIgnored
  <2> QED  BY <1>2, <2>1
<1>11. CASE Clearing
  <2>1. PICK e \in Clients, u \in Topics : ClearSegment(e, u)
    BY <1>11 DEF Clearing
  <2>2. UNCHANGED <<cpc, call, calls, writing, flagged>> /\ segment' = [segment EXCEPT ![e][u] = {}]
    BY <2>1 DEF ClearSegment, vars
  <2>3. \A t \in Topics : segment'[c][t] \subseteq segment[c][t]
    BY <1>1, <2>2 DEF STypeOK
  <2> QED  BY <1>1, <2>2, <2>3, SegQuiet
<1>12. CASE Writing
  <2>1. PICK e \in Clients, u \in Topics : OpenSegment(e, u)
    BY <1>12 DEF Writing
  <2>2. /\ UNCHANGED <<vars, flagged>> /\ writing[e] = {} /\ Writes(e, u)
        /\ writing' = [writing EXCEPT ![e] = {u}]
        /\ segment' = [segment EXCEPT ![e][u] = @ \union {NoId, Present(e)}]
    BY <2>1 DEF OpenSegment
  <2>3. UNCHANGED <<cpc, call, calls, results>>
    BY <2>2 DEF vars
  <2>4. writing \in [Clients -> SUBSET ShmTopics] /\ segment \in [Clients -> [Topics -> SUBSET (Ids \union {NoId})]]
    BY <1>1 DEF STypeOK
  <2>5. CASE e # c
    <3>1. writing'[c] = writing[c] /\ segment'[c] = segment[c]
      BY <2>2, <2>4, <2>5
    <3> QED  BY <1>1, <2>2, <2>3, <3>1, SegQuiet
  <2>6. CASE e = c
    <3>1. writing'[c] = {u} /\ cpc'[c] # "send"
      BY <2>2, <2>3, <2>4, <2>6 DEF Writes
    <3> SUFFICES ASSUME NEW t \in Topics, NEW d \in segment'[c][t]
                 PROVE  \/ writing'[c] = {t} /\ d \in {NoId, Present(c)'}
                        \/ FileSettled(c, t, d)'
      BY <3>1 DEF SegAt, FileSettled
    <3>2. d \in segment[c][t] \/ (t = u /\ d \in {NoId, Present(c)})
      BY <2>2, <2>4, <2>6
    <3>3. Present(c)' = Present(c) /\ CallId(c)' = CallId(c)
      BY <2>3 DEF Present, CallId
    <3>4. ASSUME d \in segment[c][t] PROVE FileSettled(c, t, d)'
      <4>1. FileSettled(c, t, d)
        BY <1>1, <2>2, <2>6, <3>4 DEF SegAt, FileSettled
      <4>2. Threw(d) => Threw(d)'
        BY <1>1, <4>1, ThrewKept DEF FileSettled
      <4> QED  BY <2>2, <2>3, <3>3, <4>1, <4>2 DEF FileSettled
    <3> QED  BY <3>1, <3>2, <3>3, <3>4
  <2> QED  BY <2>5, <2>6
<1>4. ASSUME NEW e \in Clients, e # c,
             SPoll(e) \/ \E cmd, t, resend : SCall(e, cmd, t, resend)
      PROVE  SegAt(c)'
  <2>1. /\ segment'[c] = segment[c] /\ writing'[c] = writing[c] /\ flagged'[c] = flagged[c]
        /\ cpc'[c] = cpc[c] /\ call'[c] = call[c] /\ calls'[c] = calls[c]
    BY <1>1, <1>4, OthersStay
  <2> QED  BY <1>1, <2>1, SegQuiet
<1>5. ASSUME NEW cmd, NEW t, NEW resend, SCall(c, cmd, t, resend) PROVE SegAt(c)'
  BY <1>1, <1>5, SegMoves DEF SCall, Call
<1>6. CASE SStatusReply(c)
  <2>1. SendData(c) /\ cpc[c] # "send" /\ flagged[c] \subseteq flagged'[c]
    <3>1. flagged \in [Clients -> SUBSET ShmTopics]
      BY <1>1 DEF STypeOK
    <3> QED  BY <1>6, <3>1 DEF SStatusReply, StatusReply, LearnFlag
  <2> QED  BY <1>1, <2>1, SegMoves
<1>7. CASE SStatusTimeout(c)
  <2>1. SendData(c) /\ cpc[c] # "send" /\ flagged' = flagged
    BY <1>7 DEF SStatusTimeout, StatusTimeout
  <2> QED  BY <1>1, <2>1, SegMoves
<1>8. ASSUME NEW how, NEW ptrs, cpc[c] = "send", Finish(c, how, ptrs),
             calls' = calls, flagged' = flagged, call' = call, writing' = writing,
             \A t \in Topics : segment'[c][t] \subseteq segment[c][t],
             how # "threw" => \A t \in Topics : segment'[c][t] = {} \/ ~(CallId(c) \in segment[c][t])
      PROVE  SegAt(c)'
  <2>5. writing[c] = {}
    BY <1>1, <1>8 DEF SegAt
  <2> SUFFICES ASSUME NEW t \in Topics, NEW d \in segment'[c][t]
               PROVE  t \in flagged'[c] /\ d[1] = c /\ d[2] <= calls'[c] /\ Threw(d)'
    BY <1>8, <2>5 DEF SegAt
  <2>1. d \in segment[c][t]
    BY <1>8
  <2>2. t \in flagged[c] /\ d[1] = c /\ d[2] <= calls[c] /\ (Threw(d) \/ d = CallId(c))
    BY <1>1, <2>1, <2>5 DEF SegAt
  <2>3. CASE Threw(d)
    BY <1>1, <1>8, <2>2, <2>3, ThrewKept
  <2>4. CASE d = CallId(c)
    <3>1. how = "threw"
      BY <1>8, <2>1, <2>4
    <3>2. /\ Ended(c)' = 1 .. calls[c] /\ calls[c] = Len(results[c]) + 1
          /\ results'[c][calls[c]] = [cmd |-> call[c].cmd, how |-> how, ptrs |-> ptrs]
      BY <1>1, <1>8, FinishFacts
    <3>3. Len(results[c]) \in Nat
      BY <1>1, CountTypes
    <3>4. calls[c] \in Ended(c)' /\ results'[c][calls[c]].how = "threw"
      BY <3>1, <3>2, <3>3
    <3>5. d[1] = c /\ d[2] = calls[c]
      BY <2>4 DEF CallId
    <3> QED  BY <1>8, <2>2, <3>4, <3>5 DEF Threw
  <2> QED  BY <2>2, <2>3, <2>4
<1>9. CASE SCallReply(c)
  <2>1. PICK r \in inbox[c] :
          LET good == /\ r.cmd = call[c].cmd
                      /\ r.topic = call[c].topic
                      /\ r.cmd = "REQUEST" => Len(r.ptrs) = 1
          IN  Finish(c, IF good THEN "returned" ELSE "threw", IF good THEN r.ptrs ELSE <<>>)
    BY <1>9 DEF SCallReply, CallReply
  <2>2. \A x, y \in inbox[c] : x = y
    BY <1>1 DEF TInv, TypeOK
  <2>3. /\ IF r.cmd = call[c].cmd /\ r.topic = call[c].topic
             THEN RemoveSegment(c) ELSE UNCHANGED segment
        /\ cpc[c] = "send" /\ calls' = calls /\ call' = call /\ flagged' = flagged
        /\ writing' = writing
    BY <1>9, <2>2 DEF SCallReply, CallReply
  <2>4. segment \in [Clients -> [Topics -> SUBSET (Ids \union {NoId})]]
    BY <1>1 DEF STypeOK
  <2>5. \A t \in Topics : segment'[c][t] \subseteq segment[c][t]
    BY <2>3, <2>4 DEF RemoveSegment
  <2>6. \E how, ptrs : /\ Finish(c, how, ptrs)
                       /\ how # "threw" => r.cmd = call[c].cmd /\ r.topic = call[c].topic
    BY <2>1
  <2>7. PICK how, ptrs : /\ Finish(c, how, ptrs)
                         /\ how # "threw" => r.cmd = call[c].cmd /\ r.topic = call[c].topic
    BY <2>6
  <2>8. ASSUME how # "threw", NEW t \in Topics, CallId(c) \in segment[c][t] PROVE segment'[c][t] = {}
    <3>1. RemoveSegment(c)
      BY <2>3, <2>7, <2>8
    <3>5. writing[c] = {}
      BY <1>1, <2>3 DEF SegAt
    <3>2. Threw(CallId(c)) \/ (call[c].cmd = "REQUEST" /\ call[c].topic = t)
      BY <1>1, <2>8, <3>5 DEF SegAt
    <3>3. ~Threw(CallId(c))
      <4>1. calls[c] = Len(results[c]) + 1 /\ DOMAIN results[c] = 1 .. Len(results[c]) /\ Len(results[c]) \in Nat
        <5>1. results[c] \in Seq(Result)
          BY DEF SInv, CInv, TInv, TypeOK, Result
        <5> QED  BY <1>1, <2>3, <5>1, UnderWay, LenProperties
      <4> QED  BY <4>1 DEF Threw, CallId, Ended
    <3>4. t \in flagged[c]
      BY <1>1, <2>8, <3>5 DEF SegAt
    <3> QED  BY <2>4, <3>1, <3>2, <3>3, <3>4 DEF RemoveSegment
  <2> QED  BY <2>3, <2>5, <2>7, <2>8, <1>8
<1>10. CASE SCallTimeout(c)
  <2>1. /\ cpc[c] = "send" /\ calls' = calls /\ call' = call /\ flagged' = flagged
        /\ segment' = segment /\ writing' = writing
    BY <1>10 DEF SCallTimeout, CallTimeout
  <2>2. cpc' = cpc \/ Finish(c, "threw", <<>>)
    BY <1>10 DEF SCallTimeout, CallTimeout
  <2>3. CASE cpc' = cpc
    BY <1>2, <2>1, <2>3
  <2>4. CASE Finish(c, "threw", <<>>)
    BY <2>1, <2>4, <1>8
  <2> QED  BY <2>2, <2>3, <2>4
<1> QED  BY <1>3, <1>4, <1>5, <1>6, <1>7, <1>9, <1>10, <1>11, <1>12, SStepKinds DEF Calling, SPoll

(* The types of the segments, and of what the program is given.            *)
SegTypes ==
    /\ flagged \in [Clients -> SUBSET ShmTopics]
    /\ segment \in [Clients -> [Topics -> Pieces]]
    /\ writing \in [Clients -> SUBSET ShmTopics]
    /\ \A c \in Clients : \A x, y \in writing[c] : x = y
    /\ raw \subseteq Ids \X Topics
    /\ \A c \in Clients, t \in Topics :
         t \notin writing[c] => \A x, y \in segment[c][t] : x = y

GivenTypes ==
    /\ seen \in Pieces
    /\ given \in [Ids -> Seq(Pieces)]
    /\ failed \in BOOLEAN /\ killed \in BOOLEAN /\ cleared \in BOOLEAN

LEMMA STypeParts == STypeOK <=> SegTypes /\ GivenTypes
  BY DEF STypeOK, SegTypes, GivenTypes, Pieces

\* The call a client is in, or is about to make, is one of the calls.
LEMMA PresentIsId ==
    ASSUME TInv, NEW c \in Clients, cpc[c] = "idle" => calls[c] < MaxCalls
    PROVE  Present(c) \in Ids
<1>1. calls[c] \in 0 .. MaxCalls /\ Len(results[c]) \in Nat /\ cpc[c] \in {"idle", "status", "send"}
  BY CountTypes DEF TInv, TypeOK
<1>2. CASE cpc[c] = "idle"
  <2>1. calls[c] + 1 \in 1 .. MaxCalls
    BY <1>1, <1>2, ConstantTypes
  <2> QED  BY <1>2, <2>1 DEF Present, Ids
<1>3. CASE cpc[c] # "idle"
  <2>1. calls[c] = Len(results[c]) + 1
    BY <1>3, UnderWay
  <2>2. calls[c] \in 1 .. MaxCalls
    BY <1>1, <2>1, ConstantTypes
  <2> QED  BY <1>3, <2>2 DEF Present, CallId, Ids
<1> QED  BY <1>2, <1>3

LEMMA FileWithout ==
    ASSUME SegTypes, NEW c \in Clients, NEW t, UNCHANGED <<flagged, writing, raw>>,
           segment' = [segment EXCEPT ![c][t] = {}]
    PROVE  SegTypes'
<1>1. /\ segment' = [segment EXCEPT ![c] = [segment[c] EXCEPT ![t] = {}]]
      /\ segment \in [Clients -> [Topics -> Pieces]]
  BY DEF SegTypes
<1>2. /\ [segment[c] EXCEPT ![t] = {}] \in [Topics -> Pieces]
      /\ \A u \in Topics : [segment[c] EXCEPT ![t] = {}][u] \subseteq segment[c][u]
  BY <1>1 DEF Pieces
<1>3. segment' \in [Clients -> [Topics -> Pieces]]
  BY <1>1, <1>2
<1>4. \A e \in Clients, u \in Topics : segment'[e][u] \subseteq segment[e][u]
  BY <1>1, <1>2
<1> QED  BY <1>3, <1>4 DEF SegTypes

LEMMA SegTypesNext == SInv /\ [SNext]_allVars => SegTypes'
<1> SUFFICES ASSUME SInv, [SNext]_allVars PROVE SegTypes'
  OBVIOUS
<1> USE DEF netVars, clientVars, topicVars, dedupVars, bgVars, userVars, hist, segVars, shmHist
<1>1. /\ TInv /\ TInv' /\ STypeOK /\ SegTypes
      /\ flagged \in [Clients -> SUBSET ShmTopics]
      /\ segment \in [Clients -> [Topics -> Pieces]]
      /\ writing \in [Clients -> SUBSET ShmTopics]
      /\ raw \subseteq Ids \X Topics
  BY SCInvNext, STypeParts DEF SInv, CInv, SegTypes
<1>2. CASE UNCHANGED segVars
  BY <1>1, <1>2 DEF SegTypes
<1>3. ASSUME Plain \/ ReadSegment \/ SWaitForRequest \/ Failing \/ ReplyIgnored
      PROVE  UNCHANGED segVars
  BY <1>3 DEF Plain, ReadSegment, SWaitForRequest, Failing, WaitThrows, WaitFaults, ReplyIgnored
<1>4. ASSUME NEW c \in Clients, SendData(c), flagged' \in [Clients -> SUBSET ShmTopics]
      PROVE  SegTypes'
  <2>1. call'[c].topic \in Topics
    BY <1>1 DEF TInv, TypeOK
  <2>2. cpc'[c] # "idle" => CallId(c)' \in Ids
    <3> SUFFICES ASSUME cpc'[c] # "idle" PROVE CallId(c)' \in Ids
      OBVIOUS
    <3>1. \A S, R, P : S \in [Clients -> 0 .. MaxCalls] /\ R \in [Clients -> Seq(Result)] /\ P[c] # "idle"
                       /\ (\A e \in Clients : S[e] = Len(R[e]) + IF P[e] = "idle" THEN 0 ELSE 1)
            => S[c] \in 1 .. MaxCalls
      <4> SUFFICES ASSUME NEW S, NEW R, NEW P, S \in [Clients -> 0 .. MaxCalls], P[c] # "idle",
                          R \in [Clients -> Seq(Result)],
                          \A e \in Clients : S[e] = Len(R[e]) + IF P[e] = "idle" THEN 0 ELSE 1
                   PROVE  S[c] \in 1 .. MaxCalls
        OBVIOUS
      <4>1. Len(R[c]) \in Nat /\ S[c] = Len(R[c]) + 1 /\ S[c] \in 0 .. MaxCalls
        BY LenProperties
      <4> QED  BY <4>1, ConstantTypes
    <3>2. calls'[c] \in 1 .. MaxCalls
      BY <1>1, <3>1 DEF TInv, TypeOK, Counted, Result
    <3> QED  BY <3>2 DEF CallId, Ids
  <2>3. segment' \in [Clients -> [Topics -> Pieces]]
    <3>1. \/ segment' = segment
          \/ cpc'[c] # "idle" /\ segment' = [segment EXCEPT ![c][call'[c].topic] = {CallId(c)'}]
      BY <1>4 DEF SendData, CallId
    <3>2. ASSUME NEW u \in Topics, NEW id \in Ids, segment' = [segment EXCEPT ![c][u] = {id}]
          PROVE  segment' \in [Clients -> [Topics -> Pieces]]
      <4>1. segment' = [segment EXCEPT ![c] = [segment[c] EXCEPT ![u] = {id}]]
        BY <3>2
      <4>2. [segment[c] EXCEPT ![u] = {id}] \in [Topics -> Pieces]
        BY <1>1, <3>2 DEF Pieces
      <4> QED  BY <1>1, <4>1, <4>2
    <3> QED  BY <1>1, <2>1, <2>2, <3>1, <3>2
  <2>4. writing' \in [Clients -> SUBSET ShmTopics] /\ \A e \in Clients : \A x, y \in writing'[e] : x = y
    <3>1. writing' = [writing EXCEPT ![c] = {}]
      BY <1>4 DEF SendData
    <3> QED  BY <1>1, <3>1 DEF SegTypes
  <2>5. ASSUME NEW e \in Clients, NEW t \in Topics, t \notin writing'[e]
        PROVE  \A x, y \in segment'[e][t] : x = y
    <3>1. CASE e = c
      <4>1. \/ segment'[c][t] = segment[c][t] /\ (t \in writing[c] => segment[c][t] = {})
            \/ segment'[c][t] = {CallId(c)'}
        <5>1. \A u \in Topics :
                \/ segment'[c][u] = segment[c][u] /\ (u \in writing[c] => segment[c][u] = {})
                \/ /\ segment'[c][u] = {CallId(c)'}
                   /\ call'[c].cmd = "REQUEST" /\ cpc'[c] = "send"
                   /\ call'[c].topic = u /\ u \in flagged'[c]
          BY <1>1, <1>4, SendDataFacts
        <5> QED  BY <5>1
      <4> QED  BY <1>1, <3>1, <4>1 DEF SegTypes
    <3>2. CASE e # c
      <4>1. segment'[e] = segment[e] /\ writing'[e] = writing[e]
        <5>1. \A f \in Clients \ {c} : segment'[f] = segment[f] /\ writing'[f] = writing[f]
          BY <1>1, <1>4, SendDataFacts
        <5> QED  BY <3>2, <5>1
      <4> QED  BY <1>1, <2>5, <4>1 DEF SegTypes
    <3> QED  BY <3>1, <3>2
  <2>6. raw' \subseteq Ids \X Topics
    <3>1. \/ raw' = raw
          \/ cpc'[c] # "idle" /\ raw' = raw \union {<<CallId(c)', call'[c].topic>>}
      BY <1>1, <1>4, SendDataFacts
    <3> QED  BY <1>1, <2>1, <2>2, <3>1
  <2> QED  BY <1>4, <2>3, <2>4, <2>5, <2>6 DEF SegTypes
<1>5. CASE Calling
  BY <1>1, <1>4, <1>5 DEF Calling, SCall
<1>6. ASSUME NEW c \in Clients, SStatusReply(c) \/ SStatusTimeout(c)
      PROVE  SegTypes'
  <2>1. flagged' \in [Clients -> SUBSET ShmTopics]
    BY <1>1, <1>6 DEF SStatusReply, SStatusTimeout, LearnFlag
  <2> QED  BY <1>4, <1>6, <2>1 DEF SStatusReply, SStatusTimeout
<1>7. ASSUME NEW c \in Clients, SCallReply(c) \/ SCallTimeout(c)
      PROVE  SegTypes'
  <2>1. UNCHANGED <<flagged, writing, raw>> /\ (segment' = segment \/ RemoveSegment(c))
    BY <1>7 DEF SCallReply, SCallTimeout
  <2> QED  BY <1>1, <1>2, <2>1, FileWithout DEF RemoveSegment
<1>8. CASE Clearing
  BY <1>1, <1>8, FileWithout DEF Clearing, ClearSegment
<1>9. CASE Writing
  <2>1. PICK c \in Clients, t \in Topics : OpenSegment(c, t)
    BY <1>9 DEF Writing
  <2>2. /\ UNCHANGED <<flagged, raw>> /\ writing[c] = {} /\ Writes(c, t)
        /\ writing' = [writing EXCEPT ![c] = {t}]
        /\ segment' = [segment EXCEPT ![c][t] = @ \union {NoId, Present(c)}]
    BY <2>1 DEF OpenSegment
  <2>3. t \in ShmTopics /\ Present(c) \in Ids
    BY <1>1, <2>2, PresentIsId DEF Writes
  <2>4. segment' = [segment EXCEPT ![c] = [segment[c] EXCEPT ![t] = segment[c][t] \union {NoId, Present(c)}]]
    BY <1>1, <2>2
  <2>5. [segment[c] EXCEPT ![t] = segment[c][t] \union {NoId, Present(c)}] \in [Topics -> Pieces]
    BY <1>1, <2>3 DEF Pieces
  <2>6. segment' \in [Clients -> [Topics -> Pieces]]
    BY <1>1, <2>4, <2>5
  <2>7. writing' \in [Clients -> SUBSET ShmTopics] /\ \A e \in Clients : \A x, y \in writing'[e] : x = y
    BY <1>1, <2>2, <2>3 DEF SegTypes
  <2>8. ASSUME NEW e \in Clients, NEW u \in Topics, u \notin writing'[e]
        PROVE  u \notin writing[e] /\ segment'[e][u] = segment[e][u]
    <3>1. CASE e = c
      <4>1. u # t /\ u \notin writing[e]
        BY <1>1, <2>2, <2>8, <3>1
      <4>2. segment'[c] = [segment[c] EXCEPT ![t] = segment[c][t] \union {NoId, Present(c)}]
        BY <1>1, <2>4
      <4> QED  BY <1>1, <3>1, <4>1, <4>2
    <3>2. CASE e # c
      BY <1>1, <2>2, <2>4, <2>8, <3>2
    <3> QED  BY <3>1, <3>2
  <2> QED  BY <1>1, <2>2, <2>6, <2>7, <2>8 DEF SegTypes
<1> QED  BY <1>2, <1>3, <1>5, <1>6, <1>7, <1>8, <1>9, SStepKinds DEF SPoll

\* The entry that is handed over is of a request some client made.
LEMMA HeadIsId ==
    ASSUME CInv, NEW t \in Topics, queue[t] # <<>>, Head(queue[t]).by = "REQUEST"
    PROVE  Head(queue[t]).of \in Ids /\ Head(queue[t]).of[1] \in Clients
<1>1. queue[t] \in Seq(Entry)
  BY DEF CInv, TInv, TypeOK
<1>2. 1 \in DOMAIN queue[t] /\ Head(queue[t]) = queue[t][1]
  BY <1>1
<1>3. SentRequest(Head(queue[t]).of)
  BY <1>1, <1>2 DEF CInv, EntryInv
<1> QED  BY <1>3 DEF SentRequest, Ids

LEMMA GivenTypesNext == SInv /\ [SNext]_allVars => GivenTypes'
<1> SUFFICES ASSUME SInv, [SNext]_allVars PROVE GivenTypes'
  OBVIOUS
<1> USE DEF segVars, shmHist
<1>1. /\ CInv /\ GivenTypes /\ newRequest \subseteq Topics
      /\ segment \in [Clients -> [Topics -> Pieces]]
      /\ seen \in Pieces /\ given \in [Ids -> Seq(Pieces)]
  BY STypeParts DEF SInv, CInv, TInv, TypeOK, GivenTypes, SegTypes
<1>2. CASE UNCHANGED <<seen, shmHist>>
  BY <1>1, <1>2 DEF GivenTypes
<1>3. ASSUME Plain \/ Calling \/ (\E c \in Clients : SPoll(c)) \/ Writing \/ ReplyIgnored
      PROVE  UNCHANGED <<seen, shmHist>>
  BY <1>3 DEF Plain, Calling, SCall, SPoll, SStatusReply, SStatusTimeout, SCallReply, SCallTimeout,
              Writing, OpenSegment, ReplyIgnored
<1>4. CASE Clearing
  BY <1>1, <1>4 DEF Clearing, ClearSegment, GivenTypes
<1>5. CASE Failing
  <2>1. UNCHANGED given /\ seen' \subseteq seen /\ failed' = TRUE /\ killed' \in {killed, TRUE} /\ cleared' = cleared
    BY <1>5 DEF Failing, WaitThrows, WaitFaults
  <2> QED  BY <1>1, <2>1 DEF GivenTypes, Pieces
<1>6. CASE ReadSegment
  <2>1. PICK t \in newRequest \intersect ShmTopics :
          /\ InSegment(t)
          /\ \E bytes \in SUBSET (DataOf(Head(queue[t]).of, t) \union {NoId}) : seen' = seen \union bytes
    BY <1>6 DEF ReadSegment
  <2>2. Head(queue[t]).of[1] \in Clients
    BY <1>1, <2>1, HeadIsId DEF InSegment
  <2>3. DataOf(Head(queue[t]).of, t) \in Pieces
    BY <1>1, <2>1, <2>2 DEF DataOf, Pieces
  <2>4. seen' \in Pieces
    BY <1>1, <2>1, <2>3 DEF Pieces
  <2>5. UNCHANGED shmHist
    BY <1>6 DEF ReadSegment
  <2> QED  BY <1>1, <2>4, <2>5 DEF GivenTypes
<1>7. CASE SWaitForRequest
  <2>1. PICK t \in newRequest :
          given' = IF queue[t] # <<>> /\ Head(queue[t]).by = "REQUEST"
                     THEN [given EXCEPT ![Head(queue[t]).of] = Append(@, DataGiven(t))]
                     ELSE given
    BY <1>7 DEF SWaitForRequest
  <2>2. given' \in [Ids -> Seq(Pieces)]
    <3>1. CASE queue[t] # <<>> /\ Head(queue[t]).by = "REQUEST"
      <4> DEFINE id == Head(queue[t]).of
                 data == DataGiven(t)
      <4>1. given' = [given EXCEPT ![id] = Append(@, data)]
        BY <2>1, <3>1
      <4>2. id \in Ids
        BY <1>1, <2>1, <3>1, HeadIsId
      <4>3. data \in Pieces
        BY <1>1, <4>2 DEF DataGiven, Pieces
      <4> HIDE DEF id, data
      <4>4. Append(given[id], data) \in Seq(Pieces)
        BY <1>1, <4>2, <4>3, AppendFacts
      <4> QED  BY <1>1, <4>1, <4>2, <4>4
    <3>2. CASE ~(queue[t] # <<>> /\ Head(queue[t]).by = "REQUEST")
      BY <1>1, <2>1, <3>2
    <3> QED  BY <3>1, <3>2
  <2>3. seen' = {} /\ UNCHANGED <<failed, killed, cleared>>
    BY <1>7 DEF SWaitForRequest
  <2> QED  BY <1>1, <2>2, <2>3 DEF GivenTypes, Pieces
<1> QED  BY <1>2, <1>3, <1>4, <1>5, <1>6, <1>7, SStepKinds

LEMMA STypeNext == SInv /\ [SNext]_allVars => STypeOK'
<1> SUFFICES ASSUME SInv, [SNext]_allVars PROVE STypeOK'
  OBVIOUS
<1>1. SegTypes' /\ GivenTypes'
  BY SegTypesNext, GivenTypesNext
<1> QED  BY <1>1 DEF STypeOK, SegTypes, GivenTypes, Pieces

LEMMA SInvInit == SInit => SInv
<1> SUFFICES ASSUME SInit PROVE SInv
  OBVIOUS
<1>1. CInv
  BY CInvInit DEF SInit
<1>2. STypeOK
  <2>1. segment = [c \in Clients |-> [t \in Topics |-> {}]]
    BY DEF SInit
  <2>2. \A c \in Clients, t \in Topics : segment[c][t] = {}
    BY <2>1
  <2>3. segment \in [Clients -> [Topics -> SUBSET (Ids \union {NoId})]]
    BY <2>1
  <2>4. /\ flagged \in [Clients -> SUBSET ShmTopics] /\ raw \subseteq Ids \X Topics
        /\ given \in [Ids -> Seq(Pieces)] /\ {failed, killed, cleared} \subseteq BOOLEAN
        /\ writing \in [Clients -> SUBSET ShmTopics] /\ \A c \in Clients : writing[c] = {}
        /\ seen \subseteq Ids \union {NoId}
    <3>1. given = [id \in Ids |-> <<>>]
      BY DEF SInit
    <3>2. <<>> \in Seq(Pieces)
      BY EmptySeq
    <3>3. given \in [Ids -> Seq(Pieces)]
      BY <3>1, <3>2
    <3> QED  BY <3>3 DEF SInit
  <2> QED  BY <2>2, <2>3, <2>4 DEF STypeOK, Pieces
<1>3. SegInv
  BY DEF SInit, SegInv, SegAt
<1> QED  BY <1>1, <1>2, <1>3 DEF SInv

LEMMA SInvNext == SInv /\ [SNext]_allVars => SInv'
  BY SCInvNext, STypeNext, SegNext DEF SInv

(* The variables of ShmRequest have their types: a client writes one       *)
(* segment at a time, and a file that nobody writes has the data of one    *)
(* call (shm_open, ftruncate, memcpy, shm_unlink).                         *)
THEOREM ShmTypesCorrect == SSpec => []STypeOK
<1>1. SInv => STypeOK
  BY DEF SInv
<1> QED
  BY <1>1, SInvInit, SInvNext, PTL DEF SSpec

(* A file is there only while its call writes it or sends, or if that call *)
(* threw: request_with_data unlinks it on every way to a return.           *)
THEOREM SegmentsRemoved == SSpec => []NoSegmentLeft
<1>1. SInv => NoSegmentLeft
  BY DEF SInv, SegInv, SegAt, NoSegmentLeft
<1> QED
  BY <1>1, SInvInit, SInvNext, PTL DEF SSpec

-----------------------------------------------------------------------------
(* Nothing of a client comes after an answer to it.                        *)

Kinds ==
    \/ \E c \in Clients : \E i \in DOMAIN wire[c] : Lose(c, i) \/ Recv(c, i)
    \/ \E c \in Clients, cmd \in Cmds, t \in Topics, resend \in Resend :
         <<c, cmd, t>> \in Calls /\ Call(c, cmd, t, resend)
    \/ \E c \in Clients : ClientStep(c)
    \/ \E p \in msg : AnswerStep(p)
    \/ QuietStep

LEMMA SKinds == ASSUME CInv, [SNext]_allVars PROVE Kinds
<1>1. CASE [Next]_vars
  BY <1>1, StepKinds DEF Kinds
<1>2. CASE ~[Next]_vars
  BY <1>2, OnlyShm DEF Kinds, QuietStep, hist, bgVars, Working, WaitFaults
<1> QED  BY <1>1, <1>2

LEMMA WireFacts ==
    ASSUME TInv, NEW c \in Clients
    PROVE  Len(wire[c]) \in Nat /\ DOMAIN wire[c] = 1 .. Len(wire[c]) /\ wire[c] \in Seq(Packet)
<1>1. wire[c] \in Seq(Packet)
  BY DEF TInv, TypeOK
<1> QED  BY <1>1, LenProperties

LEMMA LastFrame ==
    ASSUME NEW c, LastAt(c), conn'[c] = conn[c], wire'[c] = wire[c],
           inbox'[c] = inbox[c] \/ inbox'[c] = {},
           \A p \in msg' : Working' /\ p.id[1] = c => Working /\ p \in msg
    PROVE  LastAt(c)'
<1>1. \A p : Live(c, p)' <=> Live(c, p)
  BY DEF Live
<1>2. Handling(c)' \subseteq Handling(c)
  BY <1>1 DEF Handling, Live
<1> QED  BY <1>1, <1>2 DEF LastAt

\* A packet leaves the wire of c.
LEMMA LastLess ==
    ASSUME TInv, InOrder, NEW c \in Clients, LastAt(c),
           NEW i \in DOMAIN wire[c], Lose(c, i) \/ Recv(c, i)
    PROVE  LastAt(c)'
<1> USE DEF netVars, clientVars, topicVars, dedupVars, bgVars, userVars, hist
<1>1. /\ Len(wire[c]) \in Nat /\ DOMAIN wire[c] = 1 .. Len(wire[c]) /\ wire[c] \in Seq(Packet)
      /\ wire[c] # <<>>
  BY WireFacts
<1>2. wire'[c] = RemoveAt(wire[c], i) /\ conn' = conn /\ inbox' = inbox
  BY DEF Lose, Recv, TInv, TypeOK
<1>3. /\ Len(wire'[c]) = Len(wire[c]) - 1
      /\ DOMAIN wire'[c] = 1 .. Len(wire[c]) - 1
      /\ \A j \in 1 .. Len(wire[c]) - 1 : wire'[c][j] = IF j < i THEN wire[c][j] ELSE wire[c][j + 1]
  BY <1>1, <1>2, RemoveAtFacts
<1>4. inbox'[c] = {} /\ Handling(c) = {}
  BY <1>1, <1>2 DEF LastAt
<1>7. \A p : Live(c, p)' <=> Live(c, p)
  BY <1>2 DEF Live
<1>5. ASSUME NEW j \in DOMAIN wire'[c], Live(c, wire[c][j])'
      PROVE  j = Len(wire'[c])
  <2>1. j \in Nat /\ i \in Nat /\ j \in 1 .. Len(wire[c]) - 1 /\ j \in DOMAIN wire[c] /\ j + 1 \in DOMAIN wire[c]
    BY <1>1, <1>3
  <2>2. CASE j < i
    <3>1. Live(c, wire[c][j])
      <4>1. wire'[c][j] = wire[c][j]
        BY <1>3, <2>1, <2>2
      <4> QED  BY <1>5, <1>7, <4>1
    <3>2. j = Len(wire[c])
      BY <2>1, <3>1 DEF LastAt
    <3> QED  BY <1>1, <2>1, <3>2
  <2>3. CASE ~(j < i)
    <3>1. Live(c, wire[c][j + 1])
      <4>1. wire'[c][j] = wire[c][j + 1]
        BY <1>3, <2>1, <2>3
      <4> QED  BY <1>5, <1>7, <4>1
    <3>2. j + 1 = Len(wire[c])
      BY <2>1, <3>1 DEF LastAt
    <3> QED  BY <1>1, <1>3, <2>1, <3>2
  <2> QED  BY <2>2, <2>3
<1>6. Handling(c)' # {} => wire'[c] = <<>>
  <2>1. CASE Lose(c, i)
    <3>1. Handling(c)' = Handling(c)
      BY <1>2, <2>1 DEF Lose, Handling, Working, Live
    <3> QED  BY <1>4, <3>1
  <2>2. CASE Recv(c, i)
    <3>1. i = 1 /\ msg' = {wire[c][i]}
      BY <2>2 DEF Recv
    <3>2. ASSUME Handling(c)' # {} PROVE wire'[c] = <<>>
      <4>1. Live(c, wire[c][1])
        BY <1>2, <3>1, <3>2 DEF Handling, Live
      <4>2. Len(wire[c]) = 1
        BY <3>1, <4>1 DEF LastAt
      <4>3. Len(wire'[c]) = 0 /\ wire'[c] \in Seq(Packet)
        BY <1>1, <1>2, <1>3, <4>2, RemoveAtFacts
      <4> QED  BY <4>3, EmptySeq
    <3> QED  BY <3>2
  <2> QED  BY <2>1, <2>2
<1> QED  BY <1>4, <1>5, <1>6 DEF LastAt

\* A packet is put on the wire of c when none of its connection is under way.
LEMMA LastSent ==
    ASSUME TInv, NEW c \in Clients, NEW k, NEW cmd, NEW t, Send(c, k, cmd, t),
           inbox'[c] = {}, Handling(c)' = {},
           \A i \in DOMAIN wire[c] : \A p : p = wire[c][i] => ~Live(c, p)'
    PROVE  LastAt(c)'
<1>1. /\ DOMAIN wire'[c] = 1 .. Len(wire[c]) + 1 /\ DOMAIN wire[c] = 1 .. Len(wire[c])
      /\ Len(wire[c]) \in Nat
      /\ \A i \in DOMAIN wire[c] : wire'[c][i] = wire[c][i]
  BY SendFacts
<1>2. Len(wire'[c]) = Len(wire[c]) + 1
  <2> DEFINE p == [id |-> <<c, calls'[c]>>, cmd |-> cmd, topic |-> t, conn |-> k]
             S == Packet \union {p}
  <2>1. wire \in [Clients -> Seq(Packet)] /\ wire' = [wire EXCEPT ![c] = Append(@, p)]
    BY DEF TInv, TypeOK, Send
  <2> HIDE DEF p
  <2>2. wire[c] \in Seq(S) /\ p \in S
    BY <2>1, SeqMonotonic
  <2> HIDE DEF S
  <2>3. Len(Append(wire[c], p)) = Len(wire[c]) + 1
    BY <2>2, AppendFacts
  <2> QED  BY <2>1, <2>3
<1>3. ASSUME NEW i \in DOMAIN wire'[c], Live(c, wire[c][i])'
      PROVE  i = Len(wire'[c])
  <2>1. i \notin DOMAIN wire[c]
    <3>1. ASSUME NEW p, p = wire'[c][i] PROVE Live(c, p)'
      BY <1>3, <3>1
    <3>2. ASSUME NEW p, NEW j \in DOMAIN wire[c], p = wire[c][j] PROVE ~Live(c, p)'
      BY <3>2
    <3> QED  BY <1>1, <3>1, <3>2
  <2> QED  BY <1>1, <1>2, <1>3, <2>1
<1> QED  BY <1>3 DEF LastAt

\* Nothing of a client that is in no call, or has closed its connection, is live.
LEMMA NotLive ==
    ASSUME CInv, NEW c \in Clients
    PROVE  /\ cpc[c] = "idle" => /\ inbox[c] = {} /\ Handling(c) = {}
                                 /\ \A i \in DOMAIN wire[c] : ~Live(c, wire[c][i])
           /\ conn'[c] = conn[c] + 1 /\ msg' = msg =>
                /\ Handling(c)' = {}
                /\ \A i \in DOMAIN wire[c] : \A p : p = wire[c][i] => ~Live(c, p)'
<1>1. TInv /\ ConnAt(c)
  BY DEF CInv, ConnInv
<1>2. ASSUME cpc[c] = "idle"
      PROVE  /\ inbox[c] = {} /\ Handling(c) = {}
             /\ \A i \in DOMAIN wire[c] : ~Live(c, wire[c][i])
  <2>1. \A p : ~Asks(c, p)
    BY <1>2 DEF Asks
  <2> QED  BY <1>1, <1>2, <2>1 DEF ConnAt
<1>3. ASSUME conn'[c] = conn[c] + 1, NEW p, Sent(c, p), p.conn \in Nat
      PROVE  ~Live(c, p)'
  <2>1. p.conn <= conn[c] /\ conn[c] \in Nat
    BY <1>1, <1>3, CountTypes DEF Sent
  <2> QED  BY <1>3, <2>1 DEF Live
<1>4. ASSUME conn'[c] = conn[c] + 1, msg' = msg
      PROVE  /\ Handling(c)' = {}
             /\ \A i \in DOMAIN wire[c] : \A p : p = wire[c][i] => ~Live(c, p)'
  <2>1. \A p \in msg : p.conn \in Nat
    BY <1>1 DEF TInv, TypeOK, Packet
  <2>2. ASSUME NEW p \in Handling(c)' PROVE FALSE
    <3>1. p \in msg /\ Live(c, p)' /\ p.id[1] = c
      BY <1>4, <2>2 DEF Handling, Live
    <3> QED  BY <1>1, <1>3, <1>4, <2>1, <3>1 DEF ConnAt
  <2>3. ASSUME NEW i \in DOMAIN wire[c], NEW p, p = wire[c][i] PROVE ~Live(c, p)'
    <3>1. Sent(c, p)
      BY <1>1, <2>3 DEF ConnAt
    <3>2. p.conn \in Nat
      <4>1. wire[c] \in Seq(Packet)
        BY <1>1, WireFacts
      <4>2. p \in Packet
        BY <2>3, <4>1
      <4> QED  BY <4>2 DEF Packet
    <3> QED  BY <1>3, <1>4, <3>1, <3>2
  <2> QED  BY <2>2, <2>3
<1> QED  BY <1>2, <1>4

LEMMA LastNext ==
    ASSUME InOrder, CInv, [SNext]_allVars, NEW c \in Clients, LastAt(c)
    PROVE  LastAt(c)'
<1> USE DEF netVars, clientVars, topicVars, dedupVars, bgVars, userVars, hist
<1>1. /\ TInv /\ ConnInv /\ ConnAt(c)
      /\ wire \in [Clients -> Seq(Packet)] /\ inbox \in [Clients -> SUBSET Answer] /\ conn \in [Clients -> Nat]
  BY DEF CInv, ConnInv, TInv, TypeOK
<1>2. ASSUME NEW d \in Clients, NEW i \in DOMAIN wire[d], Lose(d, i) \/ Recv(d, i)
      PROVE  LastAt(c)'
  <2>1. CASE d = c
    BY <1>1, <1>2, <2>1, LastLess
  <2>2. CASE d # c
    <3>1. conn' = conn /\ inbox' = inbox /\ wire'[c] = wire[c]
      BY <1>1, <1>2, <2>2 DEF Lose, Recv
    <3>2. \A p \in msg' : Working' /\ p.id[1] = c => Working /\ p \in msg
      <4>1. CASE Lose(d, i)
        BY <4>1 DEF Lose, Working
      <4>2. CASE Recv(d, i)
        <5>1. msg' = {wire[d][i]} /\ wire[d][i].id[1] = d
          BY <1>1, <1>2, <4>2 DEF Recv, ConnInv, ConnAt, Sent
        <5> QED  BY <2>2, <5>1
      <4> QED  BY <1>2, <4>1, <4>2
    <3> QED  BY <3>1, <3>2, LastFrame
  <2> QED  BY <2>1, <2>2
<1>3. ASSUME NEW d \in Clients, NEW cmd \in Cmds, NEW t \in Topics, NEW resend \in Resend,
             Call(d, cmd, t, resend)
      PROVE  LastAt(c)'
  <2>1. /\ conn' = conn /\ inbox' = inbox /\ msg' = msg /\ bpc' = bpc /\ cpc[d] = "idle"
        /\ \E first : Send(d, conn[d], first, t)
    BY <1>3 DEF Call
  <2>2. CASE d = c
    <3>1. /\ inbox'[c] = {} /\ Handling(c)' = {}
          /\ \A i \in DOMAIN wire[c] : ~Live(c, wire[c][i])
      BY <2>1, <2>2, NotLive DEF Handling, Working, Live
    <3>2. \A i \in DOMAIN wire[c] : \A p : p = wire[c][i] => ~Live(c, p)'
      BY <2>1, <3>1 DEF Live
    <3> QED  BY <1>1, <2>1, <2>2, <3>1, <3>2, LastSent
  <2>3. CASE d # c
    <3>1. wire'[c] = wire[c]
      BY <1>1, <2>1, <2>3 DEF Send
    <3> QED  BY <2>1, <3>1, LastFrame DEF Working
  <2> QED  BY <2>2, <2>3
<1>4. ASSUME NEW d \in Clients, d # c, ClientStep(d)
      PROVE  LastAt(c)'
  <2>1. UNCHANGED <<msg, bpc>> /\ (wire' = wire \/ \E k, cmd, t : Send(d, k, cmd, t))
    BY <1>4, ClientSends
  <2>2. wire'[c] = wire[c]
    BY <1>1, <1>4, <2>1 DEF Send
  <2>3. conn'[c] = conn[c] /\ inbox'[c] = inbox[c]
    BY <1>1, <1>4 DEF ClientStep, StatusReply, StatusTimeout, CallReply, CallTimeout, Reconnect
  <2> QED  BY <2>1, <2>2, <2>3, LastFrame DEF Working
<1>5. CASE StatusReply(c) \/ CallReply(c)
  <2>1. /\ inbox[c] # {} /\ inbox'[c] = {} /\ conn' = conn /\ msg' = msg /\ bpc' = bpc
    <3>1. CASE StatusReply(c)
      BY <1>1, <3>1 DEF StatusReply
    <3>2. CASE CallReply(c)
      BY <1>1, <3>2 DEF CallReply
    <3> QED  BY <1>5, <3>1, <3>2
  <2>2. wire[c] = <<>> /\ \A p \in msg : Working => p.id[1] # c
    BY <2>1 DEF LastAt
  <2>3. CASE wire' = wire
    BY <2>1, <2>3, LastFrame DEF Working
  <2>4. ASSUME NEW k, NEW cmd, NEW t, Send(c, k, cmd, t)
        PROVE  LastAt(c)'
    <3>1. Handling(c)' = {} /\ DOMAIN wire[c] = {}
      BY <2>1, <2>2 DEF Handling, Live, Working
    <3> QED  BY <1>1, <2>1, <2>4, <3>1, LastSent
  <2> QED  BY <1>5, <2>3, <2>4, ClientSends DEF ClientStep
<1>6. CASE StatusTimeout(c) \/ CallTimeout(c)
  <2>1. Reconnect(c)
    BY <1>6 DEF StatusTimeout, CallTimeout
  <2>2. UNCHANGED <<msg, bpc>> /\ (wire' = wire \/ \E k, cmd, t : Send(c, k, cmd, t))
    BY <1>6, ClientSends DEF ClientStep
  <2>3. conn'[c] = conn[c] + 1 /\ inbox'[c] = {}
    BY <1>1, <2>1 DEF Reconnect
  <2>4. /\ Handling(c)' = {}
        /\ \A i \in DOMAIN wire[c] : \A p : p = wire[c][i] => ~Live(c, p)'
    BY <2>2, <2>3, NotLive
  <2>5. CASE wire' = wire
    <3>1. ASSUME NEW i \in DOMAIN wire'[c] PROVE ~Live(c, wire[c][i])'
      <4>1. \A p : p = wire[c][i] => ~Live(c, p)'
        BY <2>4, <2>5, <3>1
      <4> QED  BY <2>5, <4>1 DEF Live
    <3> QED  BY <2>3, <2>4, <3>1 DEF LastAt
  <2>6. ASSUME NEW k, NEW cmd, NEW t, Send(c, k, cmd, t)
        PROVE  LastAt(c)'
    BY <1>1, <2>3, <2>4, <2>6, LastSent
  <2> QED  BY <2>2, <2>5, <2>6
<1>7. ASSUME NEW p \in msg, AnswerStep(p)
      PROVE  LastAt(c)'
  <2>1. /\ Working /\ ~Working' /\ wire' = wire /\ msg' = msg /\ conn' = conn
        /\ (inbox'[c] = inbox[c] \/ Live(c, p))
    <3>1. PICK a : SendAnswer(p, a)
      BY <1>7 DEF AnswerStep
    <3>2. conn' = conn /\ (inbox'[c] = inbox[c] \/ Live(c, p))
      <4>1. p.id[1] \in Clients
        BY <1>1 DEF TInv, TypeOK, Packet, Ids
      <4> QED  BY <1>1, <3>1, <4>1 DEF SendAnswer, Live
    <3> QED  BY <1>7, <3>2 DEF AnswerStep, Working
  <2>2. CASE inbox'[c] = inbox[c]
    BY <2>1, <2>2, LastFrame
  <2>3. CASE Live(c, p)
    <3>1. p \in Handling(c)
      BY <2>1, <2>3 DEF Handling
    <3>2. wire'[c] = <<>> /\ DOMAIN wire'[c] = {} /\ Handling(c)' = {}
      BY <2>1, <3>1 DEF LastAt, Handling
    <3> QED  BY <2>1, <3>2 DEF LastAt
  <2> QED  BY <2>1, <2>2, <2>3
<1>8. CASE QuietStep
  BY <1>8, LastFrame DEF QuietStep
<1> QED  BY <1>2, <1>3, <1>4, <1>5, <1>6, <1>7, <1>8, SKinds DEF Kinds, ClientStep

-----------------------------------------------------------------------------
(* The files of requests under way.                                        *)

\* Only the present call sends a request.
NewOn(c, p) ==
    /\ p.id = CallId(c) /\ p.topic = call[c].topic
    /\ cpc[c] = "send" /\ call[c].cmd = "REQUEST"

LEMMA FlightFrame ==
    ASSUME NEW c \in Clients, NEW p \in InFlight(c)',
           \A i \in DOMAIN wire'[c] : \E j \in DOMAIN wire[c] : wire'[c][i] = wire[c][j],
           \A q \in msg' : Working' /\ q.id[1] = c => Working /\ q \in msg
    PROVE  p \in InFlight(c)
<1>1. CASE p \in {wire'[c][i] : i \in {j \in DOMAIN wire'[c] : wire'[c][j].cmd = "REQUEST"}}
  <2>1. PICK i \in DOMAIN wire'[c] : p = wire'[c][i] /\ wire'[c][i].cmd = "REQUEST"
    BY <1>1
  <2>2. PICK j \in DOMAIN wire[c] : wire'[c][i] = wire[c][j]
    BY <2>1
  <2> QED  BY <2>1, <2>2 DEF InFlight
<1>2. CASE p \in {q \in msg' : Working' /\ q.id[1] = c /\ q.cmd = "REQUEST"}
  BY <1>2 DEF InFlight
<1> QED  BY <1>1, <1>2 DEF InFlight

LEMMA FlightSent ==
    ASSUME TInv, NEW c \in Clients, NEW k, NEW cmd, NEW t, Send(c, k, cmd, t),
           UNCHANGED <<msg, bpc>>, NEW p \in InFlight(c)'
    PROVE  p \in InFlight(c) \/ (p.id = CallId(c)' /\ p.topic = t /\ cmd = "REQUEST")
<1>1. PICK n \in Nat :
        /\ DOMAIN wire'[c] = 1 .. n + 1 /\ DOMAIN wire[c] = 1 .. n
        /\ \A i \in 1 .. n : wire'[c][i] = wire[c][i]
        /\ /\ wire'[c][n + 1].id = CallId(c)'
           /\ wire'[c][n + 1].cmd = cmd
           /\ wire'[c][n + 1].topic = t
  BY SentLast
<1>2. CASE p \in {wire'[c][i] : i \in {j \in DOMAIN wire'[c] : wire'[c][j].cmd = "REQUEST"}}
  <2>1. PICK i \in DOMAIN wire'[c] : p = wire'[c][i] /\ wire'[c][i].cmd = "REQUEST"
    BY <1>2
  <2>2. CASE i = n + 1
    BY <1>1, <2>1, <2>2
  <2>3. CASE i # n + 1
    <3>1. i \in 1 .. n
      BY <1>1, <2>1, <2>3
    <3> QED  BY <1>1, <2>1, <3>1 DEF InFlight
  <2> QED  BY <2>2, <2>3
<1>3. CASE p \in {q \in msg' : Working' /\ q.id[1] = c /\ q.cmd = "REQUEST"}
  BY <1>3 DEF InFlight, Working
<1> QED  BY <1>2, <1>3 DEF InFlight

\* What a client is about to send.
LEMMA SendsOwn ==
    ASSUME CInv, NEW c \in Clients,
           ClientStep(c) \/ \E cmd, t, resend : Call(c, cmd, t, resend)
    PROVE  /\ UNCHANGED <<msg, bpc>>
           /\ \/ wire' = wire
              \/ \E k, cmd : /\ Send(c, k, cmd, call'[c].topic)
                             /\ cmd = "REQUEST" => cpc'[c] = "send" /\ call'[c].cmd = "REQUEST"
<1> USE DEF netVars, clientVars, topicVars, dedupVars, bgVars, userVars, hist
<1>1. /\ cpc \in [Clients -> {"idle", "status", "send"}]
      /\ call \in [Clients -> [cmd : Cmds, topic : Topics, resend : BOOLEAN]]
      /\ (cpc[c] = "status" => call[c].cmd \in {"STATUS", "REQUEST"})
  BY DEF CInv, TInv, TypeOK, ConnInv, ConnAt, Begun
<1>2. ASSUME NEW cmd, NEW t, NEW resend, Call(c, cmd, t, resend)
      PROVE  /\ UNCHANGED <<msg, bpc>>
             /\ \E k, first : /\ Send(c, k, first, call'[c].topic)
                              /\ first = "REQUEST" => cpc'[c] = "send" /\ call'[c].cmd = "REQUEST"
  <2> DEFINE first == IF cmd = "REQUEST" /\ t \notin known[c] THEN "STATUS" ELSE cmd
  <2>1. /\ call'[c] = [cmd |-> cmd, topic |-> t, resend |-> resend]
        /\ Send(c, conn[c], first, t) /\ UNCHANGED <<msg, bpc>>
        /\ cpc'[c] = IF first = "STATUS" THEN "status" ELSE "send"
    BY <1>1, <1>2 DEF Call
  <2>2. first = "REQUEST" => cmd = "REQUEST"
    OBVIOUS
  <2> HIDE DEF first
  <2> QED  BY <2>1, <2>2
<1>3. ASSUME NEW k, NEW exists, AfterStatus(c, k, exists), call' = call, cpc[c] = "status"
      PROVE  \/ wire' = wire
             \/ \E n, cmd : /\ Send(c, n, cmd, call'[c].topic)
                            /\ cmd = "REQUEST" => cpc'[c] = "send" /\ call'[c].cmd = "REQUEST"
  <2>1. CASE call[c].cmd = "STATUS"
    BY <1>3, <2>1 DEF AfterStatus
  <2>2. CASE call[c].cmd # "STATUS"
    BY <1>1, <1>3, <2>2 DEF AfterStatus
  <2> QED  BY <2>1, <2>2
<1>4. CASE StatusReply(c)
  <2>1. /\ call' = call /\ UNCHANGED <<msg, bpc>> /\ cpc[c] = "status"
        /\ \E k, exists : AfterStatus(c, k, exists)
    BY <1>4 DEF StatusReply
  <2> QED  BY <1>3, <2>1
<1>5. CASE StatusTimeout(c)
  <2>1. /\ call' = call /\ UNCHANGED <<msg, bpc>> /\ cpc[c] = "status"
        /\ wire' = wire \/ \E k, exists : AfterStatus(c, k, exists)
    BY <1>5 DEF StatusTimeout
  <2> QED  BY <1>3, <2>1
<1>6. CASE CallReply(c)
  BY <1>6 DEF CallReply
<1>7. CASE CallTimeout(c)
  <2>1. /\ call' = call /\ UNCHANGED <<msg, bpc>> /\ cpc[c] = "send"
        /\ wire' = wire \/ (cpc' = cpc /\ \E k : Send(c, k, call[c].cmd, call[c].topic))
    BY <1>7 DEF CallTimeout
  <2> QED  BY <2>1
<1> QED  BY <1>2, <1>4, <1>5, <1>6, <1>7 DEF ClientStep

LEMMA FlightLess ==
    ASSUME CInv, [SNext]_allVars, NEW c \in Clients, NEW p \in InFlight(c)'
    PROVE  p \in InFlight(c) \/ NewOn(c, p)'
<1> USE DEF netVars, clientVars, topicVars, dedupVars, bgVars, userVars, hist
<1>1. TInv /\ wire \in [Clients -> Seq(Packet)]
  BY DEF CInv, TInv, TypeOK
<1>2. ASSUME NEW d \in Clients, NEW i \in DOMAIN wire[d], Lose(d, i)
      PROVE  p \in InFlight(c)
  <2>1. \A j \in DOMAIN wire'[c] : \E l \in DOMAIN wire[c] : wire'[c][j] = wire[c][l]
    BY <1>1, <1>2, TakenOut
  <2>2. UNCHANGED <<msg, bpc>>
    BY <1>2 DEF Lose
  <2> QED  BY <2>1, <2>2, FlightFrame DEF Working
<1>3. ASSUME NEW d \in Clients, NEW i \in DOMAIN wire[d], Recv(d, i)
      PROVE  p \in InFlight(c)
  <2>1. CASE p \in {wire'[c][j] : j \in {l \in DOMAIN wire'[c] : wire'[c][l].cmd = "REQUEST"}}
    <3>1. PICK j \in DOMAIN wire'[c] : p = wire'[c][j] /\ wire'[c][j].cmd = "REQUEST"
      BY <2>1
    <3>2. PICK l \in DOMAIN wire[c] : wire'[c][j] = wire[c][l]
      BY <1>1, <1>3, TakenOut
    <3> QED  BY <3>1, <3>2 DEF InFlight
  <2>2. CASE p \in msg' /\ p.id[1] = c /\ p.cmd = "REQUEST"
    <3>1. p = wire[d][i] /\ wire[d][i].id[1] = d
      BY <1>3, <2>2 DEF Recv, CInv, ConnInv, ConnAt, Sent
    <3> QED  BY <2>2, <3>1 DEF InFlight
  <2> QED  BY <2>1, <2>2 DEF InFlight
<1>4. ASSUME NEW d \in Clients, d # c,
             ClientStep(d) \/ \E cmd, t, resend : Call(d, cmd, t, resend)
      PROVE  p \in InFlight(c)
  <2>1. UNCHANGED <<msg, bpc>> /\ (wire' = wire \/ \E k, cmd, t : Send(d, k, cmd, t))
    BY <1>4, SendsOwn
  <2>2. wire'[c] = wire[c]
    BY <1>1, <1>4, <2>1 DEF Send
  <2> QED  BY <2>1, <2>2, FlightFrame DEF Working
<1>5. ASSUME ClientStep(c) \/ \E cmd, t, resend : Call(c, cmd, t, resend)
      PROVE  p \in InFlight(c) \/ NewOn(c, p)'
  <2>1. UNCHANGED <<msg, bpc>>
    BY <1>5, SendsOwn
  <2>2. CASE wire' = wire
    BY <2>1, <2>2, FlightFrame DEF Working
  <2>3. ASSUME NEW k, NEW cmd, Send(c, k, cmd, call'[c].topic),
               cmd = "REQUEST" => cpc'[c] = "send" /\ call'[c].cmd = "REQUEST"
        PROVE  p \in InFlight(c) \/ NewOn(c, p)'
    <3> DEFINE t == call'[c].topic
    <3>1. Send(c, k, cmd, t)
      BY <2>3
    <3> HIDE DEF t
    <3>2. p \in InFlight(c) \/ (p.id = CallId(c)' /\ p.topic = t /\ cmd = "REQUEST")
      BY <1>1, <2>1, <3>1, FlightSent
    <3> QED  BY <2>3, <3>2 DEF NewOn, t
  <2> QED  BY <1>5, <2>2, <2>3, SendsOwn
<1>6. ASSUME NEW q \in msg, AnswerStep(q)
      PROVE  p \in InFlight(c)
  BY <1>6, FlightFrame DEF AnswerStep, Working
<1>7. CASE QuietStep
  BY <1>7, FlightFrame DEF QuietStep
<1> QED  BY <1>2, <1>3, <1>4, <1>5, <1>6, <1>7, SKinds DEF Kinds

(* How calls end.                                                          *)
LEMMA Ending ==
    ASSUME SInv, [SNext]_allVars, NEW c \in Clients, NEW n \in Ended(c)', n \notin Ended(c)
    PROVE  /\ n = calls[c] /\ cpc[c] # "idle"
           /\ Threw(<<c, n>>)' \/ call[c].cmd = "STATUS" \/ SCallReply(c)
<1> USE DEF netVars, clientVars, topicVars, dedupVars, bgVars, userVars, hist, segVars, shmHist
<1>1. TInv /\ STypeOK /\ results'[c] # results[c]
  BY DEF SInv, CInv, Ended
<1>2. ~(Plain \/ SWaitForRequest \/ Failing \/ ReplyIgnored \/ Writing \/ Clearing \/ ReadSegment)
  <2>1. ~(Plain \/ SWaitForRequest \/ Failing \/ ReplyIgnored)
    BY <1>1 DEF Plain, SWaitForRequest, WaitForRequest, Failing, WaitThrows, WaitFaults, ReplyIgnored
  <2>2. ~(Writing \/ Clearing \/ ReadSegment)
    BY <1>1, SegmentSteps DEF vars
  <2> QED  BY <2>1, <2>2
<1>3. ASSUME NEW d \in Clients, d # c,
             SPoll(d) \/ \E cmd, t, resend : SCall(d, cmd, t, resend)
      PROVE  FALSE
  BY <1>1, <1>3, OthersStay
<1>4. ASSUME NEW cmd, NEW t, NEW resend, SCall(c, cmd, t, resend)
      PROVE  FALSE
  BY <1>1, <1>4 DEF SCall, Call
<1>5. SPoll(c)
  BY <1>2, <1>3, <1>4, SStepKinds DEF Calling
<1>6. ASSUME NEW how, NEW ptrs, Finish(c, how, ptrs), cpc[c] # "idle"
      PROVE  n = calls[c] /\ (how = "threw" => Threw(<<c, n>>)')
  <2>1. /\ calls[c] = Len(results[c]) + 1
        /\ Ended(c) = 1 .. Len(results[c]) /\ Ended(c)' = 1 .. calls[c]
        /\ results'[c][calls[c]] = [cmd |-> call[c].cmd, how |-> how, ptrs |-> ptrs]
    BY <1>1, <1>6, FinishFacts
  <2>2. Len(results[c]) \in Nat
    BY <1>1, CountTypes
  <2>3. n = calls[c]
    BY <2>1, <2>2
  <2>4. how = "threw" => n \in Ended(c)' /\ results'[c][n].how = "threw"
    BY <2>1, <2>3
  <2> QED  BY <2>3, <2>4 DEF Threw
<1>7. ASSUME NEW k, NEW exists, AfterStatus(c, k, exists)
      PROVE  call[c].cmd = "STATUS" /\ Finish(c, "returned", <<>>)
  BY <1>1, <1>7 DEF AfterStatus
<1>8. CASE SStatusReply(c)
  <2>1. cpc[c] = "status" /\ \E k, exists : AfterStatus(c, k, exists)
    BY <1>8 DEF SStatusReply, StatusReply
  <2> QED  BY <1>6, <1>7, <2>1
<1>9. CASE SStatusTimeout(c)
  <2>1. /\ cpc[c] = "status"
        /\ Finish(c, "threw", <<>>) \/ \E k, exists : AfterStatus(c, k, exists)
    BY <1>9 DEF SStatusTimeout, StatusTimeout
  <2>2. CASE Finish(c, "threw", <<>>)
    BY <1>6, <2>1, <2>2
  <2>3. CASE \E k, exists : AfterStatus(c, k, exists)
    BY <1>6, <1>7, <2>1, <2>3
  <2> QED  BY <2>1, <2>2, <2>3
<1>10. CASE SCallReply(c)
  <2>1. cpc[c] = "send" /\ \E how, ptrs : Finish(c, how, ptrs)
    BY <1>10 DEF SCallReply, CallReply
  <2> QED  BY <1>6, <1>10, <2>1
<1>11. CASE SCallTimeout(c)
  <2>1. cpc[c] = "send" /\ (results' = results \/ Finish(c, "threw", <<>>))
    BY <1>11 DEF SCallTimeout, CallTimeout
  <2> QED  BY <1>1, <1>6, <2>1
<1> QED  BY <1>5, <1>8, <1>9, <1>10, <1>11 DEF SPoll

\* What a step does to the files of a client and to the history of packets.
LEMMA SegSteps ==
    ASSUME SInv, [SNext]_allVars, NEW c \in Clients
    PROVE  /\ raw \subseteq raw' /\ (cleared => cleared') /\ flagged[c] \subseteq flagged'[c]
           /\ \/ SCallReply(c)
              \/ \A t \in Topics :
                   \/ segment'[c][t] = segment[c][t]
                   \/ segment'[c][t] = {CallId(c)'} /\ cpc[c] # "send"
                   \/ segment'[c][t] = {} /\ cleared'
                   \/ segment'[c][t] = segment[c][t] \union {NoId, Present(c)} /\ cpc[c] # "send"
<1> USE DEF netVars, clientVars, topicVars, dedupVars, bgVars, userVars, hist, segVars, shmHist
<1>1. /\ TInv /\ STypeOK /\ flagged \in [Clients -> SUBSET ShmTopics]
      /\ segment \in [Clients -> [Topics -> SUBSET (Ids \union {NoId})]]
  BY DEF SInv, CInv, STypeOK
<1>2. CASE Plain \/ SWaitForRequest \/ Failing \/ ReplyIgnored \/ ReadSegment
  BY <1>2 DEF Plain, SWaitForRequest, Failing, WaitThrows, WaitFaults, ReplyIgnored, ReadSegment
<1>3. ASSUME NEW d \in Clients, SPoll(d) \/ \E cmd, t, resend : SCall(d, cmd, t, resend)
      PROVE  raw \subseteq raw' /\ cleared' = cleared /\ flagged[c] \subseteq flagged'[c]
  <2>1. SendData(d) => raw \subseteq raw'
    BY DEF SendData
  <2>2. flagged' = flagged \/ \E u : flagged' = [flagged EXCEPT ![d] = @ \union {u}]
    BY <1>3 DEF SPoll, SCall, SStatusReply, SStatusTimeout, SCallReply, SCallTimeout, LearnFlag
  <2>3. flagged[c] \subseteq flagged'[c]
    BY <1>1, <2>2
  <2>4. raw \subseteq raw' /\ cleared' = cleared
    BY <1>3, <2>1 DEF SPoll, SCall, SStatusReply, SStatusTimeout, SCallReply, SCallTimeout
  <2> QED  BY <2>3, <2>4
<1>4. ASSUME NEW d \in Clients, d # c,
             SPoll(d) \/ \E cmd, t, resend : SCall(d, cmd, t, resend)
      PROVE  segment'[c] = segment[c]
  BY <1>1, <1>4, OthersStay
<1>5. ASSUME SendData(c)
      PROVE  \A t \in Topics : segment'[c][t] = segment[c][t] \/ segment'[c][t] = {CallId(c)'}
  <2>1. \A t \in Topics :
          \/ segment'[c][t] = segment[c][t] /\ (t \in writing[c] => segment[c][t] = {})
          \/ /\ segment'[c][t] = {CallId(c)'}
             /\ call'[c].cmd = "REQUEST" /\ cpc'[c] = "send"
             /\ call'[c].topic = t /\ t \in flagged'[c]
    BY <1>1, <1>5, SendDataFacts
  <2> QED  BY <2>1
<1>6. ASSUME SPoll(c) \/ \E cmd, t, resend : SCall(c, cmd, t, resend)
      PROVE  \/ SCallReply(c)
             \/ \A t \in Topics : \/ segment'[c][t] = segment[c][t]
                                  \/ segment'[c][t] = {CallId(c)'} /\ cpc[c] # "send"
  <2>1. CASE SCallTimeout(c)
    BY <2>1 DEF SCallTimeout
  <2>2. ASSUME SStatusReply(c) \/ SStatusTimeout(c) \/ \E cmd, t, resend : SCall(c, cmd, t, resend)
        PROVE  SendData(c) /\ cpc[c] # "send"
    BY <2>2 DEF SCall, Call, SStatusReply, StatusReply, SStatusTimeout, StatusTimeout
  <2> QED  BY <1>5, <1>6, <2>1, <2>2 DEF SPoll
<1>7. CASE Clearing
  <2>1. /\ raw' = raw /\ flagged' = flagged /\ cleared' = TRUE
        /\ \E e \in Clients, u \in Topics : segment' = [segment EXCEPT ![e][u] = {}]
    BY <1>7 DEF Clearing, ClearSegment
  <2>2. \A t \in Topics : segment'[c][t] \in {segment[c][t], {}}
    BY <1>1, <2>1
  <2> QED  BY <2>1, <2>2
<1>8. CASE Writing
  <2>1. PICK e \in Clients, u \in Topics : OpenSegment(e, u)
    BY <1>8 DEF Writing
  <2>2. /\ raw' = raw /\ flagged' = flagged /\ cleared' = cleared /\ cpc[e] # "send"
        /\ segment' = [segment EXCEPT ![e][u] = @ \union {NoId, Present(e)}]
    BY <2>1 DEF OpenSegment, Writes
  <2>3. CASE e # c
    BY <1>1, <2>2, <2>3
  <2>4. CASE e = c
    <3>1. ASSUME NEW t \in Topics
          PROVE  segment'[c][t] = segment[c][t] \/ segment'[c][t] = segment[c][t] \union {NoId, Present(c)}
      BY <1>1, <2>2, <2>4, <3>1
    <3> QED  BY <2>2, <2>4, <3>1
  <2> QED  BY <2>3, <2>4
<1> QED  BY <1>2, <1>3, <1>4, <1>6, <1>7, <1>8, SStepKinds DEF Calling

\* The data of the present request.
LEMMA DataStep ==
    ASSUME SInv, [SNext]_allVars, NEW c \in Clients, Data(c)
    PROVE  Data(c)'
<1> USE DEF netVars, clientVars, topicVars, dedupVars, bgVars, userVars, hist, segVars, shmHist
<1>1. /\ TInv /\ STypeOK /\ TInv' /\ raw \subseteq raw' /\ (cleared => cleared') /\ SegAt(c)
      /\ segment \in [Clients -> [Topics -> SUBSET (Ids \union {NoId})]]
      /\ writing \in [Clients -> SUBSET ShmTopics]
  BY SCInvNext, SegSteps DEF SInv, CInv, SegInv, STypeOK
<1>2. ASSUME cpc'[c] = cpc[c], call'[c] = call[c], calls'[c] = calls[c],
             flagged'[c] = flagged[c], segment'[c] = segment[c], writing'[c] = writing[c]
      PROVE  Data(c)'
  BY <1>1, <1>2 DEF Data, CallId
<1>3. CASE Plain \/ SWaitForRequest \/ Failing \/ ReplyIgnored \/ ReadSegment
  <2>1. UNCHANGED <<cpc, call, calls, flagged, segment, writing>>
    BY <1>3 DEF Plain, SWaitForRequest, WaitForRequest, Failing, WaitThrows, WaitFaults, ReplyIgnored,
                ReadSegment, vars
  <2> QED  BY <1>2, <2>1
<1>4. ASSUME NEW d \in Clients, d # c,
             SPoll(d) \/ \E cmd, t, resend : SCall(d, cmd, t, resend)
      PROVE  Data(c)'
  BY <1>1, <1>2, <1>4, OthersStay
<1>5. ASSUME SendData(c) PROVE Data(c)'
  <2>1. call'[c].topic \in Topics
    BY <1>1 DEF TInv, TypeOK
  <2>2. writing'[c] = {}
    BY <1>1, <1>5, SendDataFacts
  <2>3. call'[c].cmd = "REQUEST" /\ cpc'[c] = "send" /\ call'[c].topic \in Topics =>
          IF call'[c].topic \in flagged'[c]
            THEN \/ segment'[c][call'[c].topic] = {CallId(c)'}
                 \/ /\ call'[c].topic \in writing[c]
                    /\ segment[c][call'[c].topic] = {} /\ segment'[c][call'[c].topic] = {}
            ELSE <<CallId(c)', call'[c].topic>> \in raw'
    BY <1>1, <1>5, SendDataFacts
  <2>4. call'[c].topic \in writing[c] /\ segment[c][call'[c].topic] = {} => cleared'
    BY <1>1 DEF Data
  <2> QED  BY <2>1, <2>2, <2>3, <2>4 DEF Data
<1>6. CASE SCallReply(c)
  <2>1. \E how, ptrs : Finish(c, how, ptrs)
    BY <1>6 DEF SCallReply, CallReply
  <2>2. cpc'[c] = "idle"
    BY <1>1, <2>1 DEF Finish, TInv, TypeOK
  <2>3. writing'[c] = {}
    BY <1>1, <1>6 DEF SCallReply, CallReply, SegAt
  <2> QED  BY <2>2, <2>3 DEF Data
<1>7. CASE SCallTimeout(c)
  <2>1. /\ UNCHANGED <<call, calls, flagged, segment, writing>>
        /\ cpc' = cpc \/ Finish(c, "threw", <<>>)
        /\ cpc[c] = "send"
    BY <1>7 DEF SCallTimeout, CallTimeout
  <2>2. cpc' = cpc \/ cpc'[c] = "idle"
    BY <1>1, <2>1 DEF Finish, TInv, TypeOK
  <2>3. CASE cpc' = cpc
    BY <1>2, <2>1, <2>3
  <2>4. CASE cpc'[c] = "idle"
    BY <1>1, <2>1, <2>4 DEF Data, SegAt
  <2> QED  BY <2>2, <2>3, <2>4
<1>8. CASE Clearing
  <2>1. PICK e \in Clients, u \in Topics : ClearSegment(e, u)
    BY <1>8 DEF Clearing
  <2>2. /\ UNCHANGED <<cpc, call, calls, flagged, raw, writing>> /\ cleared' = TRUE
        /\ segment' = [segment EXCEPT ![e][u] = {}]
    BY <2>1 DEF ClearSegment, vars
  <2>3. \A t \in Topics : segment'[c][t] \in {segment[c][t], {}}
    BY <1>1, <2>2
  <2>4. call[c].topic \in Topics
    BY <1>1 DEF TInv, TypeOK
  <2>5. CallId(c)' = CallId(c)
    BY <2>2 DEF CallId
  <2> QED  BY <2>2, <2>3, <2>4, <2>5 DEF Data
<1>9. CASE Writing
  <2>1. PICK e \in Clients, u \in Topics : OpenSegment(e, u)
    BY <1>9 DEF Writing
  <2>2. /\ UNCHANGED <<cpc, call, calls, flagged>> /\ cpc[e] # "send"
        /\ writing' = [writing EXCEPT ![e] = {u}]
        /\ segment' = [segment EXCEPT ![e][u] = @ \union {NoId, Present(e)}]
    BY <2>1 DEF OpenSegment, vars, Writes
  <2>3. CASE e # c
    BY <1>1, <1>2, <2>2, <2>3
  <2>4. CASE e = c
    <3>1. writing'[c] = {u} /\ NoId \in segment'[c][u]
      BY <1>1, <2>2, <2>4
    <3>2. \A t \in writing'[c] : segment'[c][t] # {}
      BY <3>1
    <3> QED  BY <2>2, <2>4, <3>2 DEF Data
  <2> QED  BY <2>3, <2>4
<1> QED  BY <1>3, <1>4, <1>5, <1>6, <1>7, <1>8, <1>9, SStepKinds
            DEF Calling, SPoll, SCall, SStatusReply, SStatusTimeout

\* A status is asked for at the beginning of a call.
LEMMA ToStatus ==
    ASSUME SInv, [SNext]_allVars, NEW c \in Clients, cpc'[c] = "status"
    PROVE  (cpc[c] = "status" /\ calls'[c] = calls[c]) \/ calls'[c] = calls[c] + 1
<1> USE DEF netVars, clientVars, topicVars, dedupVars, bgVars, userVars, hist, segVars, shmHist
<1>1. /\ TInv /\ STypeOK /\ calls \in [Clients -> 0 .. MaxCalls]
      /\ cpc \in [Clients -> {"idle", "status", "send"}]
  BY DEF SInv, CInv, TInv, TypeOK
<1>2. CASE Plain \/ SWaitForRequest \/ Failing \/ ReplyIgnored
  BY <1>2 DEF Plain, SWaitForRequest, WaitForRequest, Failing, WaitThrows, WaitFaults, ReplyIgnored
<1>3. CASE Writing \/ Clearing \/ ReadSegment
  BY <1>3, SegmentSteps DEF vars
<1>4. ASSUME NEW d \in Clients, d # c,
             SPoll(d) \/ \E cmd, t, resend : SCall(d, cmd, t, resend)
      PROVE  cpc'[c] = cpc[c] /\ calls'[c] = calls[c]
  BY <1>1, <1>4, OthersStay
<1>5. CASE \E cmd, t, resend : SCall(c, cmd, t, resend)
  BY <1>1, <1>5 DEF SCall, Call
<1>6. CASE SPoll(c)
  <2>1. calls' = calls
    BY <1>6 DEF SPoll, SStatusReply, SStatusTimeout, SCallReply, SCallTimeout,
                StatusReply, StatusTimeout, CallReply, CallTimeout
  <2>2. \A how, ptrs : ~Finish(c, how, ptrs)
    BY <1>1 DEF Finish
  <2>3. \A k, exists : ~AfterStatus(c, k, exists)
    BY <1>1, <2>2 DEF AfterStatus
  <2>4. cpc[c] = "status"
    BY <1>6, <2>2, <2>3 DEF SPoll, SStatusReply, SStatusTimeout, SCallReply, SCallTimeout,
                StatusReply, StatusTimeout, CallReply, CallTimeout
  <2> QED  BY <2>1, <2>4
<1> QED  BY <1>2, <1>3, <1>4, <1>5, <1>6, SStepKinds DEF Calling

LEMMA FlightFacts ==
    ASSUME CInv, NEW c \in Clients, NEW p \in InFlight(c)
    PROVE  /\ p.topic \in Topics /\ p.id \in Ids /\ p.id[1] = c /\ p.id[2] \in Nat
           /\ p.id = <<c, p.id[2]>>
           /\ p.id[2] <= calls[c] /\ CmdOf(p.id) = "REQUEST"
<1>1. TInv /\ ConnAt(c) /\ wire[c] \in Seq(Packet) /\ msg \subseteq Packet
  BY DEF CInv, TInv, TypeOK, ConnInv
<1>2. p \in Packet /\ Sent(c, p) /\ p.cmd = "REQUEST"
  <2>1. CASE p \in {wire[c][i] : i \in {j \in DOMAIN wire[c] : wire[c][j].cmd = "REQUEST"}}
    BY <1>1, <2>1 DEF ConnAt
  <2>2. CASE p \in {q \in msg : Working /\ q.id[1] = c /\ q.cmd = "REQUEST"}
    BY <1>1, <2>2 DEF ConnAt
  <2> QED  BY <2>1, <2>2 DEF InFlight
<1>3. p.topic \in Topics /\ p.id \in Ids
  BY <1>2 DEF Packet
<1>4. p.id[2] \in Nat /\ p.id = <<p.id[1], p.id[2]>>
  BY <1>3 DEF Ids
<1> QED  BY <1>2, <1>3, <1>4 DEF Sent

\* A request under way whose client is not sending is of a call that threw.
LEMMA FlightOver ==
    ASSUME CInv, NEW c \in Clients, NEW p \in InFlight(c), DataOn(c, p), cpc[c] # "send"
    PROVE  Threw(p.id)
<1>1. TInv /\ p.id[2] \in Nat /\ p.id[2] <= calls[c] /\ p.id \in Ids
  BY FlightFacts DEF CInv
<1>2. Len(results[c]) \in Nat /\ calls[c] \in Nat /\ cpc[c] \in {"idle", "status", "send"}
  BY <1>1, CountTypes DEF TInv, TypeOK
<1>3. DOMAIN results[c] = 1 .. Len(results[c])
  <2>1. results[c] \in Seq(Result)
    BY <1>1 DEF TInv, TypeOK, Result
  <2> QED  BY <2>1, LenProperties
<1>4. calls[c] = Len(results[c]) + IF cpc[c] = "idle" THEN 0 ELSE 1
  BY <1>1 DEF TInv, Counted
<1>5. p.id[2] <= Len(results[c])
  <2>1. CASE cpc[c] = "idle"
    BY <1>1, <1>2, <1>4, <2>1
  <2>2. CASE cpc[c] = "status"
    <3>1. p.id[2] # calls[c] /\ calls[c] = Len(results[c]) + 1
      BY <1>4, <2>2 DEF DataOn
    <3> QED  BY <1>1, <1>2, <3>1
  <2> QED  BY <1>2, <2>1, <2>2
<1>6. p.id[2] >= 1
  BY <1>1 DEF Ids
<1> QED  BY <1>1, <1>2, <1>3, <1>5, <1>6 DEF DataOn, Ended

LEMMA FileNext ==
    ASSUME SInv, [SNext]_allVars, NEW c \in Clients, LastAt(c), FileAt(c)
    PROVE  FileAt(c)'
<1>1. CInv /\ CInv' /\ SInv' /\ TInv /\ TInv' /\ STypeOK /\ SegAt(c)'
  BY SInvNext DEF SInv, CInv, SegInv
<1>2. Data(c)'
  BY DataStep DEF FileAt
<1>3. calls[c] \in Nat /\ calls'[c] \in Nat /\ calls[c] <= calls'[c]
  <2>1. \A S : S \in [Clients -> 0 .. MaxCalls] => S[c] \in Nat
    BY ConstantTypes
  <2>2. calls[c] <= calls'[c]
    <3> DEFINE id == <<c, 0>>
    <3>1. id[1] = c
      OBVIOUS
    <3> HIDE DEF id
    <3> QED  BY <1>1, <3>1, ThrewKept
  <2> QED  BY <1>1, <2>1, <2>2 DEF TInv, TypeOK
<1>4. ASSUME NEW p, NewOn(c, p)'
      PROVE  DataOn(c, p)'
  <2> DEFINE t == call'[c].topic
  <2>1. /\ t \in Topics /\ p.id = CallId(c)' /\ p.topic = t
        /\ cpc'[c] = "send" /\ call'[c].cmd = "REQUEST"
    BY <1>1, <1>4 DEF NewOn, TInv, TypeOK
  <2>2. IF t \in flagged'[c] THEN segment'[c][t] = {CallId(c)'} \/ (segment'[c][t] = {} /\ cleared')
        ELSE <<CallId(c)', t>> \in raw'
    BY <1>2, <2>1 DEF Data
  <2>3. CallId(c)' = <<c, calls'[c]>>
    BY DEF CallId
  <2> HIDE DEF t
  <2>4. p.id[1] = c /\ p.id[2] = calls'[c] /\ p.id = CallId(c)'
    BY <2>1, <2>3
  <2>5. \A d \in segment'[c][t] : t \in flagged'[c]
    BY <1>1, <2>1 DEF SegAt
  <2>6. \A d \in segment'[c][t] : d = p.id
    BY <2>2, <2>4, <2>5
  <2>8. \A d \in segment'[c][t] : NotOlder(d, p.id)
    BY <1>3, <2>4, <2>6 DEF NotOlder
  <2>7. p.id[2] \notin Ended(c)'
    <3>1. results' \in [Clients -> Seq(Result)]
      BY <1>1 DEF TInv, TypeOK, Result
    <3>2. calls'[c] = Len(results'[c]) + 1
      BY <1>1, <2>1 DEF TInv, Counted
    <3>3. \A q \in Seq(Result) : Len(q) \in Nat /\ DOMAIN q = 1 .. Len(q)
      BY LenProperties
    <3>4. Len(results'[c]) \in Nat /\ DOMAIN results'[c] = 1 .. Len(results'[c])
      BY <3>1, <3>3
    <3> QED  BY <2>4, <3>2, <3>4 DEF Ended
  <2>9. <<p.id, p.topic>> \in raw' \/ (p.topic \in flagged'[c] /\ (segment'[c][p.topic] # {} \/ cleared'))
    BY <2>1, <2>2, <2>4
  <2> QED  BY <2>1, <2>6, <2>7, <2>8, <2>9 DEF DataOn
<1>5. ASSUME NEW p \in InFlight(c), p \in InFlight(c)'
      PROVE  DataOn(c, p)'
  <2>1. /\ p.topic \in Topics /\ p.id \in Ids /\ p.id[1] = c /\ p.id[2] \in Nat
        /\ p.id = <<c, p.id[2]>>
        /\ p.id[2] <= calls[c] /\ CmdOf(p.id) = "REQUEST"
    BY <1>1, FlightFacts
  <2>2. DataOn(c, p)
    BY DEF FileAt
  <2>3. ~SCallReply(c)
    <3> SUFFICES ASSUME inbox[c] # {} PROVE FALSE
      BY DEF SCallReply
    <3>1. wire[c] = <<>> /\ \A q \in msg : Working => q.id[1] # c
      BY DEF LastAt
    <3> QED  BY <3>1 DEF InFlight
  <2>4. /\ raw \subseteq raw' /\ (cleared => cleared') /\ flagged[c] \subseteq flagged'[c]
        /\ \/ segment'[c][p.topic] = segment[c][p.topic]
           \/ segment'[c][p.topic] = {CallId(c)'} /\ cpc[c] # "send"
           \/ segment'[c][p.topic] = {} /\ cleared'
           \/ segment'[c][p.topic] = segment[c][p.topic] \union {NoId, Present(c)} /\ cpc[c] # "send"
    BY <2>1, <2>3, SegSteps
  <2>5. <<p.id, p.topic>> \in raw' \/ (p.topic \in flagged'[c] /\ (segment'[c][p.topic] # {} \/ cleared'))
    BY <2>2, <2>4 DEF DataOn
  <2>6. ASSUME NEW d \in segment'[c][p.topic]
        PROVE  NotOlder(d, p.id)
    <3>1. CASE d \in segment[c][p.topic]
      BY <2>2, <3>1 DEF DataOn
    <3>2. CASE d = NoId
      BY <3>2 DEF NotOlder
    <3>3. CASE d = CallId(c)'
      <4>1. d[1] = c /\ d[2] = calls'[c]
        BY <3>3 DEF CallId
      <4> QED  BY <1>3, <2>1, <4>1 DEF NotOlder
    <3>4. CASE d = Present(c)
      <4>1. d[1] = c /\ (d[2] = calls[c] \/ d[2] = calls[c] + 1)
        BY <3>4 DEF Present, CallId
      <4> QED  BY <1>3, <2>1, <4>1 DEF NotOlder
    <3> QED  BY <2>4, <2>6, <3>1, <3>2, <3>3, <3>4
  <2>7. Threw(p.id) => Threw(p.id)'
    BY <1>1, <2>1, ThrewKept
  <2>8. Threw(p.id)' \/ segment'[c][p.topic] \subseteq {p.id}
    <3>1. CASE cpc[c] # "send"
      BY <1>1, <2>2, <2>7, <3>1, FlightOver
    <3>2. CASE cpc[c] = "send"
      BY <2>2, <2>4, <2>7, <3>2 DEF DataOn
    <3> QED  BY <3>1, <3>2
  <2>9. ASSUME p.id[2] \in Ended(c)'
        PROVE  Threw(p.id)'
    <3>1. CASE p.id[2] \in Ended(c)
      BY <2>2, <2>7, <3>1 DEF DataOn
    <3>2. CASE p.id[2] \notin Ended(c)
      <4>1. /\ p.id[2] = calls[c] /\ cpc[c] # "idle"
            /\ Threw(<<c, p.id[2]>>)' \/ call[c].cmd = "STATUS"
        BY <2>3, <2>9, <3>2, Ending
      <4>2. call[c].cmd = "REQUEST"
        <5>1. ~(p.id[2] <= Len(results[c]))
          <6>1. calls[c] = Len(results[c]) + 1 /\ Len(results[c]) \in Nat
            BY <1>1, <4>1, UnderWay, CountTypes
          <6> QED  BY <4>1, <6>1
        <5> QED  BY <2>1, <5>1 DEF CmdOf
      <4> QED  BY <2>1, <4>1, <4>2
    <3> QED  BY <3>1, <3>2
  <2>10. cpc'[c] = "status" => p.id[2] # calls'[c]
    <3>1. ASSUME cpc'[c] = "status", cpc[c] = "status", calls'[c] = calls[c]
          PROVE  p.id[2] # calls'[c]
      BY <2>2, <3>1 DEF DataOn
    <3>2. ASSUME calls'[c] = calls[c] + 1 PROVE p.id[2] # calls'[c]
      BY <1>3, <2>1, <3>2
    <3> QED  BY <3>1, <3>2, ToStatus
  <2> QED  BY <2>5, <2>6, <2>8, <2>9, <2>10 DEF DataOn, NotOlder
<1>6. ASSUME NEW p \in InFlight(c)'
      PROVE  DataOn(c, p)'
  BY <1>1, <1>4, <1>5, <1>6, FlightLess
<1> QED  BY <1>2, <1>6 DEF FileAt

-----------------------------------------------------------------------------
(* The entries of the topics.                                              *)

LEMMA QueuedFrame ==
    ASSUME Queued,
           bpc \in InTopic => bpc' \in InTopic /\ msg' = msg,
           \A t \in Topics : \A i \in DOMAIN queue'[t] :
             \/ \E j \in DOMAIN queue[t] : queue'[t][i] = queue[t][j]
             \/ queue'[t][i].by \in {"reply", "server"}
             \/ queue'[t][i].by = "PUT" /\ \E c \in Clients : <<c, "PUT", t>> \in Calls
    PROVE  Queued'
<1> SUFFICES ASSUME NEW t \in Topics, NEW i \in DOMAIN queue'[t]
             PROVE  /\ queue'[t][i].by = "REQUEST" =>
                         /\ bpc' \in InTopic
                         /\ \E p \in msg' : p.topic = t /\ p.id = queue'[t][i].of
                    /\ queue'[t][i].by = "PUT" => \E c \in Clients : <<c, "PUT", t>> \in Calls
  BY DEF Queued, InTopic
<1>1. CASE \E j \in DOMAIN queue[t] : queue'[t][i] = queue[t][j]
  BY <1>1 DEF Queued, InTopic
<1> QED  BY <1>1

LEMMA QueuedSame ==
    ASSUME Queued, queue' = queue, bpc \in InTopic => bpc' \in InTopic /\ msg' = msg
    PROVE  Queued'
  BY QueuedFrame

\* One entry is added to a topic, and older ones may be pruned.
LEMMA QueuedPushed ==
    ASSUME TInv, Queued, NEW u \in Topics, NEW e \in Entry,
           \E q \in Pushed(queue[u], e) : queue' = [queue EXCEPT ![u] = q]
    PROVE  \A t \in Topics : \A i \in DOMAIN queue'[t] :
             \/ \E j \in DOMAIN queue[t] : queue'[t][i] = queue[t][j]
             \/ t = u /\ queue'[t][i] = e
<1>1. queue \in [Topics -> Seq(Entry)]
  BY DEF TInv, TypeOK
<1>2. PICK q \in Pushed(queue[u], e) : queue' = [queue EXCEPT ![u] = q]
  OBVIOUS
<1>3. \A i \in DOMAIN q : q[i] = e \/ \E j \in DOMAIN queue[u] : q[i] = queue[u][j]
  BY <1>1, PushedFacts
<1>4. ASSUME NEW t \in Topics, NEW i \in DOMAIN queue'[t]
      PROVE  \/ \E j \in DOMAIN queue[t] : queue'[t][i] = queue[t][j]
             \/ t = u /\ queue'[t][i] = e
  <2>1. CASE t = u
    BY <1>1, <1>2, <1>3, <1>4, <2>1
  <2>2. CASE t # u
    BY <1>1, <1>2, <1>4, <2>2
  <2> QED  BY <2>1, <2>2
<1> QED  BY <1>4

LEMMA QueuedThread ==
    ASSUME CInv, HInv, Queued, BgStep
    PROVE  Queued'
<1> USE DEF netVars, clientVars, topicVars, dedupVars, bgVars, userVars, hist
<1>1. TInv /\ queue \in [Topics -> Seq(Entry)] /\ msg \subseteq Packet /\ \A p, q \in msg : p = q
  BY DEF CInv, TInv, TypeOK, HInv
<1>2. CASE \E c \in Clients : \E i \in DOMAIN wire[c] : Recv(c, i)
  <2>1. bpc = "poll" /\ queue' = queue
    BY <1>2 DEF Recv
  <2> QED  BY <2>1, QueuedSame DEF InTopic
<1>3. CASE \E p \in msg : NoTopic(p) \/ AnswerAgain(p) \/ RecordRequest(p)
  <2>1. bpc = "dispatch" /\ queue' = queue
    BY <1>3 DEF NoTopic, AnswerAgain, RecordRequest
  <2> QED  BY <2>1, QueuedSame DEF InTopic
<1>4. CASE BgStop
  <2>1. bpc' = "stopped" /\ queue' = queue /\ msg' = msg
    BY <1>4 DEF BgStop
  <2> QED  BY <2>1, QueuedSame DEF InTopic
<1>5. CASE \E p \in msg : Announce(p)
  <2>1. bpc' = "await" /\ queue' = queue /\ msg' = msg
    BY <1>5 DEF Announce
  <2> QED  BY <2>1, QueuedSame DEF InTopic
<1>6. ASSUME NEW p \in msg, Serve(p) \/ EnqueueRequest(p) \/ SendReply(p)
      PROVE  Queued'
  <2>1. p.topic \in Topics /\ p.id \in Ids
    BY <1>1 DEF Packet
  <2>2. CASE Serve(p) /\ p.cmd = "PUT"
    <3> DEFINE e == [by |-> "PUT", of |-> p.id]
    <3>1. e \in Entry /\ e.by = "PUT"
      BY <2>1 DEF Entry, EntryIds
    <3>2. bpc = "dispatch" /\ \E q \in Pushed(queue[p.topic], e) : queue' = [queue EXCEPT ![p.topic] = q]
      BY <2>2 DEF Serve
    <3>3. p.id[1] \in Clients /\ <<p.id[1], "PUT", p.topic>> \in Calls
      <4>1. p.id[1] \in Clients
        BY <2>1 DEF Ids
      <4> QED  BY <4>1, <2>2 DEF CInv, ConnInv, ConnAt, Sent
    <3> HIDE DEF e
    <3>4. \A t \in Topics : \A i \in DOMAIN queue'[t] :
             \/ \E j \in DOMAIN queue[t] : queue'[t][i] = queue[t][j]
             \/ t = p.topic /\ queue'[t][i] = e
      BY <1>1, <2>1, <3>1, <3>2, QueuedPushed
    <3>5. \A t \in Topics : \A i \in DOMAIN queue'[t] :
             \/ \E j \in DOMAIN queue[t] : queue'[t][i] = queue[t][j]
             \/ queue'[t][i].by = "PUT" /\ \E c \in Clients : <<c, "PUT", t>> \in Calls
      BY <3>1, <3>3, <3>4
    <3> QED  BY <3>2, <3>5, QueuedFrame DEF InTopic
  <2>3. CASE Serve(p) /\ p.cmd # "PUT"
    <3>1. bpc = "dispatch" /\ \E q \in {<<>>, queue[p.topic]} : queue' = [queue EXCEPT ![p.topic] = q]
      BY <2>3 DEF Serve
    <3>2. \A t \in Topics : \A i \in DOMAIN queue'[t] :
             \E j \in DOMAIN queue[t] : queue'[t][i] = queue[t][j]
      BY <1>1, <3>1
    <3> QED  BY <3>1, <3>2, QueuedFrame DEF InTopic
  <2>4. CASE EnqueueRequest(p)
    <3> DEFINE e == [by |-> "REQUEST", of |-> p.id]
    <3>1. e \in Entry /\ e.by = "REQUEST" /\ e.of = p.id
      BY <2>1 DEF Entry, EntryIds
    <3>2. /\ bpc = "enqueue" /\ bpc' = "announce" /\ msg' = msg
          /\ \E q \in Pushed(queue[p.topic], e) : queue' = [queue EXCEPT ![p.topic] = q]
      BY <2>4 DEF EnqueueRequest
    <3> HIDE DEF e
    <3>3. \A t \in Topics : \A i \in DOMAIN queue'[t] :
             \/ \E j \in DOMAIN queue[t] : queue'[t][i] = queue[t][j]
             \/ t = p.topic /\ queue'[t][i] = e
      BY <1>1, <2>1, <3>1, <3>2, QueuedPushed
    <3>4. \A t \in Topics : \A i \in DOMAIN queue[t] :
            /\ queue[t][i].by # "REQUEST"
            /\ queue[t][i].by = "PUT" => \E c \in Clients : <<c, "PUT", t>> \in Calls
      BY <3>2 DEF Queued, InTopic
    <3>5. ASSUME NEW t \in Topics, NEW i \in DOMAIN queue'[t]
          PROVE  /\ queue'[t][i].by = "REQUEST" => \E q \in msg' : q.topic = t /\ q.id = queue'[t][i].of
                 /\ queue'[t][i].by = "PUT" => \E c \in Clients : <<c, "PUT", t>> \in Calls
      <4>1. CASE \E j \in DOMAIN queue[t] : queue'[t][i] = queue[t][j]
        BY <3>4, <4>1
      <4>2. CASE t = p.topic /\ queue'[t][i] = e
        BY <3>1, <3>2, <4>2
      <4> QED  BY <3>3, <3>5, <4>1, <4>2
    <3> QED  BY <3>2, <3>5 DEF Queued, InTopic
  <2>5. CASE SendReply(p)
    <3>1. /\ bpc = "await" /\ queue' = [queue EXCEPT ![p.topic] = <<>>]
      BY <2>5 DEF SendReply
    <3>2. ASSUME NEW t \in Topics, NEW i \in DOMAIN queue'[t]
          PROVE  /\ queue'[t][i].by # "REQUEST"
                 /\ queue'[t][i].by = "PUT" => \E c \in Clients : <<c, "PUT", t>> \in Calls
      <4>1. t # p.topic /\ queue'[t] = queue[t]
        BY <1>1, <3>1, <3>2
      <4> QED  BY <1>1, <3>2, <4>1 DEF Queued
    <3> QED  BY <3>2 DEF Queued
  <2> QED  BY <1>6, <2>2, <2>3, <2>4, <2>5
<1> QED  BY <1>2, <1>3, <1>4, <1>5, <1>6 DEF BgStep

LEMMA QueuedNext ==
    ASSUME CInv, HInv, Queued, [SNext]_allVars, ~Failing
    PROVE  Queued'
<1> USE DEF netVars, clientVars, topicVars, dedupVars, bgVars, userVars, hist
<1>1. /\ TInv /\ queue \in [Topics -> Seq(Entry)] /\ PutTopics \subseteq Topics
      /\ serving \subseteq [topic : Topics, of : EntryIds] /\ puts \in 0 .. MaxPuts
  BY RequestReplyAssumption DEF CInv, TInv, TypeOK
<1>2. ASSUME NEW u \in Topics, NEW e \in Entry, e.by \in {"reply", "server"},
             \E q \in Pushed(queue[u], e) : queue' = [queue EXCEPT ![u] = q],
             UNCHANGED <<bpc, msg>>
      PROVE  Queued'
  <2>1. \A t \in Topics : \A i \in DOMAIN queue'[t] :
             \/ \E j \in DOMAIN queue[t] : queue'[t][i] = queue[t][j]
             \/ t = u /\ queue'[t][i] = e
    BY <1>1, <1>2, QueuedPushed
  <2>2. \A t \in Topics : \A i \in DOMAIN queue'[t] :
             \/ \E j \in DOMAIN queue[t] : queue'[t][i] = queue[t][j]
             \/ queue'[t][i].by \in {"reply", "server"}
    BY <1>2, <2>1
  <2> QED  BY <1>2, <2>2, QueuedFrame
<1>3. ASSUME UNCHANGED <<bpc, msg>>,
             \/ \E u \in Topics : queue' = [queue EXCEPT ![u] = <<>>]
             \/ queue' = [u \in Topics |-> <<>>]
      PROVE  Queued'
  <2>1. \A t \in Topics : queue'[t] \in {<<>>, queue[t]}
    BY <1>1, <1>3
  <2>2. \A t \in Topics : \A i \in DOMAIN queue'[t] :
             \E j \in DOMAIN queue[t] : queue'[t][i] = queue[t][j]
    BY <2>1
  <2> QED  BY <1>3, <2>2, QueuedFrame
<1>4. CASE \E c \in Clients : \/ \E i \in DOMAIN wire[c] : Lose(c, i)
                              \/ \E cmd, t, resend : Call(c, cmd, t, resend)
  <2>1. UNCHANGED <<bpc, msg, queue>>
    BY <1>4 DEF Lose, Call
  <2> QED  BY <2>1, QueuedSame
<1>5. CASE \E c \in Clients : ClientStep(c)
  <2>1. UNCHANGED <<bpc, msg, queue>>
    BY <1>5 DEF ClientStep, StatusReply, StatusTimeout, CallReply, CallTimeout
  <2> QED  BY <2>1, QueuedSame
<1>6. CASE BgStep
  BY <1>6, QueuedThread
<1>7. ASSUME NEW t \in PutTopics, PutData(t)
      PROVE  Queued'
  <2> DEFINE e == [by |-> "server", of |-> <<"server", puts'>>]
  <2>1. e \in Entry /\ e.by = "server"
    BY <1>1, <1>7, ConstantTypes DEF PutData, Entry, EntryIds
  <2>2. /\ UNCHANGED <<bpc, msg>>
        /\ \E q \in Pushed(queue[t], e) : queue' = [queue EXCEPT ![t] = q]
    BY <1>7 DEF PutData
  <2> HIDE DEF e
  <2> QED  BY <1>1, <1>2, <2>1, <2>2
<1>8. CASE ReplyPut
  <2>1. PICK s \in serving : \E q \in Pushed(queue[s.topic], [by |-> "reply", of |-> s.of]) :
          queue' = [queue EXCEPT ![s.topic] = q]
    BY <1>8 DEF ReplyPut
  <2> DEFINE e == [by |-> "reply", of |-> s.of]
  <2>2. e \in Entry /\ e.by = "reply" /\ s.topic \in Topics
    BY <1>1, <2>1 DEF Entry
  <2>3. /\ UNCHANGED <<bpc, msg>>
        /\ \E q \in Pushed(queue[s.topic], e) : queue' = [queue EXCEPT ![s.topic] = q]
    BY <1>8, <2>1 DEF ReplyPut
  <2> HIDE DEF e
  <2> QED  BY <1>1, <1>2, <2>2, <2>3
<1>9. CASE WaitForRequest
  <2>1. /\ UNCHANGED <<bpc, msg>> /\ newRequest \subseteq Topics
        /\ \E t \in newRequest : queue' = [queue EXCEPT ![t] = <<>>]
    BY <1>1, <1>9 DEF WaitForRequest, TInv, TypeOK
  <2> QED  BY <1>3, <2>1
<1>10. CASE ResetStartTime \/ \E t \in PutTopics : PopData(t)
  <2>1. /\ UNCHANGED <<bpc, msg>>
        /\ \/ \E u \in PutTopics : queue' = [queue EXCEPT ![u] = <<>>]
           \/ queue' = [u \in Topics |-> <<>>]
    BY <1>10 DEF ResetStartTime, PopData
  <2> QED  BY <1>1, <1>3, <2>1
<1>11. CASE ReplyFlag \/ Shutdown \/ UNCHANGED vars \/ \E t \in Topics : AddTopic(t)
  <2>1. UNCHANGED <<bpc, msg, queue>>
    BY <1>11 DEF ReplyFlag, Shutdown, AddTopic, vars
  <2> QED  BY <2>1, QueuedSame
<1>12. CASE ReplyIgnored
  <2>1. UNCHANGED <<bpc, msg, queue>>
    BY <1>12 DEF ReplyIgnored
  <2> QED  BY <2>1, QueuedSame
<1>13. [Next]_vars \/ ReplyIgnored
  BY OnlyShm
<1> QED  BY <1>4, <1>5, <1>6, <1>7, <1>8, <1>9, <1>10, <1>11, <1>12, <1>13 DEF Next, ServeRequests

-----------------------------------------------------------------------------
(* The invariant of wait_for_request.                                      *)

LEMMA WaitInit == SInit => WaitInv
<1> SUFFICES ASSUME SInit PROVE WaitInv
  OBVIOUS
<1>1. SInv /\ HInv /\ Init /\ failed = FALSE
  BY SInvInit, HInvInit DEF SInit
<1>2. LifeInv /\ Queued /\ SeenOwn
  BY <1>1 DEF SInit, Init, LifeInv, Queued, SeenOwn
<1>3. ASSUME NEW c \in Clients PROVE LastAt(c) /\ FileAt(c)
  <2>1. wire[c] = <<>> /\ inbox[c] = {} /\ msg = {} /\ cpc[c] = "idle" /\ writing[c] = {}
    BY <1>1 DEF SInit, Init
  <2> QED  BY <2>1 DEF LastAt, FileAt, Handling, Data, InFlight
<1> QED  BY <1>1, <1>2, <1>3 DEF WaitInv, Alive

\* A request that wait_for_request finds is the one the thread waits for.
LEMMA Found ==
    ASSUME SInv, Alive, upc = "idle", NEW t \in newRequest, NEW i \in DOMAIN queue[t],
           queue[t][i].by = "REQUEST"
    PROVE  \E p \in msg :
             /\ p.id = queue[t][i].of /\ p.topic = t /\ p.id[1] \in Clients
             /\ p \in InFlight(p.id[1]) /\ DataOn(p.id[1], p)
<1>1. CInv /\ HInv /\ t \in Topics
  BY DEF SInv, Alive, CInv, TInv, TypeOK
<1>2. PICK p \in msg : p.topic = t /\ p.id = queue[t][i].of
  BY <1>1 DEF Alive, Queued
<1>3. bpc = "await"
  BY <1>1 DEF HInv, Handshake, Handover, Alive, LifeInv
<1>4. p.cmd = "REQUEST" /\ p.id[1] \in Clients
  BY <1>1, <1>2, <1>3, TheRequest DEF Waiting, Ids
<1>5. p \in InFlight(p.id[1])
  BY <1>3, <1>4 DEF InFlight, Working
<1>6. DataOn(p.id[1], p)
  BY <1>4, <1>5 DEF Alive, FileAt
<1> QED  BY <1>2, <1>4, <1>5, <1>6

\* What is read is what the file of the announced request has.
LEMMA SeenNext ==
    ASSUME SInv, Alive, [SNext]_allVars, ~Failing
    PROVE  SeenOwn'
<1> USE DEF netVars, clientVars, topicVars, dedupVars, bgVars, userVars, hist, segVars, shmHist
<1>1. /\ CInv /\ TInv /\ HInv /\ LifeInv /\ SeenOwn /\ queue \in [Topics -> Seq(Entry)]
      /\ newRequest \subseteq Topics /\ \A p \in msg : p.id[1] \in Clients
  BY DEF SInv, Alive, CInv, TInv, TypeOK, Packet, Ids
<1>2. ASSUME seen' \subseteq seen, seen' # {} => seen' = seen /\ UNCHANGED <<upc, newRequest, msg>>
      PROVE  SeenOwn'
  <2> SUFFICES ASSUME seen' # {}
               PROVE  /\ upc' = "idle" /\ newRequest' # {}
                      /\ \A p \in msg' : /\ Threw(p.id)' \/ seen' = {p.id}
                                         /\ \A d \in seen' : NotOlder(d, p.id)
    BY DEF SeenOwn, NotOlder
  <2>1. ASSUME NEW p \in msg PROVE Threw(p.id) => Threw(p.id)'
    BY <1>1, ThrewKept
  <2> QED  BY <1>1, <1>2, <2>1 DEF SeenOwn
<1>3. CASE Calling \/ \E c \in Clients : SPoll(c)
  <2>1. seen' = seen /\ UNCHANGED <<upc, newRequest, msg>>
    <3>1. CASE Calling
      BY <3>1 DEF Calling, SCall, Call
    <3>2. CASE \E c \in Clients : SPoll(c)
      BY <3>2 DEF SPoll, SStatusReply, SStatusTimeout, SCallReply, SCallTimeout,
                  StatusReply, StatusTimeout, CallReply, CallTimeout
    <3> QED  BY <1>3, <3>1, <3>2
  <2> QED  BY <1>2, <2>1
<1>4. CASE Writing \/ Clearing
  <2>1. seen' = seen /\ UNCHANGED vars
    BY <1>4, SegmentSteps DEF Writing, OpenSegment, Clearing, ClearSegment
  <2> QED  BY <1>2, <2>1 DEF vars
<1>5. CASE SWaitForRequest
  BY <1>2, <1>5 DEF SWaitForRequest
<1>6. CASE ReplyIgnored
  <2>1. seen = {} /\ seen' = seen
    BY <1>1, <1>6 DEF ReplyIgnored, SeenOwn
  <2> QED  BY <1>2, <2>1
<1>7. CASE Plain
  <2>1. seen' = seen
    BY <1>7 DEF Plain
  <2>2. ASSUME seen # {} PROVE UNCHANGED <<newRequest, upc, msg>>
    <3>1. upc = "idle" /\ newRequest # {}
      BY <1>1, <2>2 DEF SeenOwn
    <3>2. bpc = "await" /\ running /\ replyTopic = {}
      BY <1>1, <3>1 DEF HInv, Handshake, Handover, LifeInv
    <3>3. ~BgStep /\ ~ReplyPut /\ ~ReplyFlag
      BY <3>1, <3>2 DEF BgStep, Recv, NoTopic, Serve, AnswerAgain, RecordRequest, EnqueueRequest,
                        Announce, SendReply, BgStop, ReplyPut, ReplyFlag
    <3> QED  BY <1>7, <2>2, <3>3 DEF Plain
  <2> QED  BY <1>2, <2>1, <2>2
<1>8. CASE ReadSegment
  <2>1. PICK t \in newRequest \intersect ShmTopics :
          /\ InSegment(t)
          /\ LET id == Head(queue[t]).of
                 file == DataOf(id, t)
             IN  /\ file # {}
                 /\ \E bytes \in SUBSET (IF file = {id} THEN file ELSE file \union {NoId}) :
                      seen' = seen \union bytes
    BY <1>8 DEF ReadSegment
  <2>2. upc = "idle" /\ seen' # seen /\ UNCHANGED vars
    BY <1>8 DEF ReadSegment
  <2>3. 1 \in DOMAIN queue[t] /\ Head(queue[t]) = queue[t][1] /\ queue[t][1].by = "REQUEST"
    <3>1. queue[t] \in Seq(Entry) /\ queue[t] # <<>> /\ Head(queue[t]).by = "REQUEST"
      BY <1>1, <2>1 DEF InSegment
    <3> QED  BY <3>1
  <2>4. PICK p \in msg :
          /\ p.id = queue[t][1].of /\ p.topic = t /\ p.id[1] \in Clients
          /\ p \in InFlight(p.id[1]) /\ DataOn(p.id[1], p)
    BY <2>1, <2>2, <2>3, Found
  <2> DEFINE file == segment[p.id[1]][t]
  <2>5. /\ file # {}
        /\ \E bytes \in SUBSET (IF file = {p.id} THEN file ELSE file \union {NoId}) :
             seen' = seen \union bytes
    BY <2>1, <2>3, <2>4 DEF DataOf
  <2>6. Threw(p.id) \/ file \subseteq {p.id}
    BY <2>4 DEF DataOn
  <2>7. \A d \in file : NotOlder(d, p.id)
    BY <2>4 DEF DataOn
  <2> HIDE DEF file
  <2>8. NotOlder(NoId, p.id)
    BY DEF NotOlder
  <2>9. /\ seen # {} => Threw(p.id) \/ seen = {p.id}
        /\ \A d \in seen : NotOlder(d, p.id)
    BY <1>1, <2>4 DEF SeenOwn
  <2>10. \A d \in seen' : NotOlder(d, p.id)
    BY <2>5, <2>7, <2>8, <2>9
  <2>11. Threw(p.id) \/ seen' = {p.id}
    <3>1. CASE file = {p.id}
      BY <2>2, <2>5, <2>9, <3>1
    <3>2. CASE file # {p.id}
      BY <2>5, <2>6, <3>2
    <3> QED  BY <3>1, <3>2
  <2>12. \A q \in msg : q = p
    BY <1>1, <2>4 DEF HInv
  <2>13. Threw(p.id)' = Threw(p.id)
    BY <2>2 DEF vars, Threw, Ended
  <2>14. upc' = "idle" /\ newRequest' # {} /\ msg' = msg
    BY <2>1, <2>2 DEF vars
  <2>15. ASSUME NEW q \in msg' PROVE (Threw(q.id)' \/ seen' = {q.id}) /\ \A d \in seen' : NotOlder(d, q.id)
    <3>1. q = p
      BY <2>12, <2>14
    <3> QED  BY <2>10, <2>11, <2>13, <3>1
  <2> QED  BY <2>14, <2>15 DEF SeenOwn, NotOlder
<1> QED  BY <1>3, <1>4, <1>5, <1>6, <1>7, <1>8, SStepKinds

LEMMA AliveNext ==
    ASSUME InOrder, SInv, Alive, [SNext]_allVars, ~Failing
    PROVE  Alive'
<1>1. CInv /\ HInv /\ LifeInv
  BY DEF SInv, Alive
<1>2. HInv' /\ LifeInv'
  <2>1. CASE [Next]_vars
    BY <1>1, <2>1, HInvNext, LifeNext
  <2>2. CASE ~[Next]_vars
    <3>1. ReplyIgnored
      BY <2>2, OnlyShm
    <3>2. /\ UNCHANGED <<bpc, msg, newRequest, replyTopic, serving, running>>
          /\ upc = "reply" /\ upc' = "flag"
      BY <3>1 DEF ReplyIgnored, bgVars
    <3> QED  BY <1>1, <3>2 DEF HInv, Handshake, Handover, Handled, Asked, LifeInv
  <2> QED  BY <2>1, <2>2
<1>3. Queued'
  BY <1>1, QueuedNext DEF Alive
<1>4. ASSUME NEW c \in Clients PROVE LastAt(c)' /\ FileAt(c)'
  BY <1>1, LastNext, FileNext DEF Alive
<1>5. SeenOwn'
  BY SeenNext
<1> QED  BY <1>2, <1>3, <1>4, <1>5 DEF Alive

\* A failure of wait_for_request leaves nothing to hand over ...
LEMMA Dies ==
    ASSUME SInv, HInv, Failing
    PROVE  Dead' /\ failed'
<1>1. /\ upc = "idle" /\ newRequest # {} /\ newRequest' = {} /\ failed' = TRUE
      /\ UNCHANGED <<replyTopic, serving>>
      /\ bpc' \in {bpc, "stopped"} /\ upc' \in {"idle", "gone"}
  BY DEF Failing, WaitThrows, WaitFaults, bgVars, userVars
<1>2. Handled = {} /\ replyTopic = {} /\ bpc \in {"await", "stopped"}
  BY <1>1 DEF HInv, Handshake, Handover
<1>3. serving = {}
  BY <1>2 DEF Handled
<1> QED  BY <1>1, <1>2, <1>3 DEF Dead

LEMMA FailedKept ==
    ASSUME [SNext]_allVars, ~Failing
    PROVE  failed' = failed /\ killed' = killed
<1> USE DEF segVars, shmHist
<1>1. CASE Plain \/ SWaitForRequest \/ ReplyIgnored
  BY <1>1 DEF Plain, SWaitForRequest, ReplyIgnored
<1>2. CASE Calling
  BY <1>2 DEF Calling, SCall
<1>3. CASE \E c \in Clients : SPoll(c)
  BY <1>3 DEF SPoll, SStatusReply, SStatusTimeout, SCallReply, SCallTimeout
<1>4. CASE Writing \/ Clearing \/ ReadSegment
  BY <1>4, SegmentSteps
<1> QED  BY <1>1, <1>2, <1>3, <1>4, SStepKinds

\* ... and the background thread waits for a reply until the end.
LEMMA DeadNext ==
    ASSUME CInv, Dead, [SNext]_allVars
    PROVE  Dead' /\ failed' = failed /\ killed' = killed
<1> USE DEF netVars, clientVars, topicVars, dedupVars, bgVars, userVars, hist, segVars, shmHist
<1>1. ~(Failing \/ ReplyIgnored \/ SWaitForRequest)
  BY DEF Failing, WaitThrows, WaitFaults, ReplyIgnored, SWaitForRequest, Dead
<1>2. failed' = failed /\ killed' = killed
  BY <1>1, FailedKept
<1>3. [Next]_vars
  BY <1>1, OnlyShm
<1>4. CASE \E c \in Clients : \/ \E i \in DOMAIN wire[c] : Lose(c, i) \/ Recv(c, i)
                              \/ \E cmd, t, resend : Call(c, cmd, t, resend)
  BY <1>2, <1>4 DEF Lose, Recv, Call, Dead
<1>5. CASE \E c \in Clients : ClientStep(c)
  BY <1>2, <1>5 DEF ClientStep, StatusReply, StatusTimeout, CallReply, CallTimeout, Dead
<1>6. ~\E p \in msg : \/ NoTopic(p) \/ Serve(p) \/ AnswerAgain(p) \/ RecordRequest(p)
                      \/ EnqueueRequest(p) \/ Announce(p) \/ SendReply(p)
  BY DEF NoTopic, Serve, AnswerAgain, RecordRequest, EnqueueRequest, Announce, SendReply, Dead
<1>7. CASE \E t : AddTopic(t) \/ PutData(t) \/ PopData(t)
  BY <1>2, <1>7 DEF AddTopic, PutData, PopData, Dead
<1>8. CASE BgStop \/ ResetStartTime \/ Shutdown \/ UNCHANGED vars
  BY <1>2, <1>8 DEF BgStop, ResetStartTime, Shutdown, vars, Dead
<1>9. ~ServeRequests
  BY DEF ServeRequests, WaitForRequest, ReplyPut, ReplyFlag, Dead
<1> QED  BY <1>2, <1>3, <1>4, <1>5, <1>6, <1>7, <1>8, <1>9 DEF Next, BgStep

LEMMA WaitNext ==
    ASSUME InOrder, WaitInv, [SNext]_allVars
    PROVE  WaitInv'
<1>1. SInv /\ SInv' /\ CInv
  BY SInvNext DEF WaitInv, SInv
<1>2. CASE failed
  BY <1>1, <1>2, DeadNext DEF WaitInv
<1>3. CASE ~failed /\ Failing
  BY <1>1, <1>3, Dies DEF WaitInv, Alive
<1>4. CASE ~failed /\ ~Failing
  BY <1>1, <1>4, AliveNext, FailedKept DEF WaitInv
<1> QED  BY <1>2, <1>3, <1>4

\* What GivenOwn says of one handing over of data.
Own1(id, data) ==
    data # {id} => Threw(id) /\ \A x \in data \ {NoId} : x[1] = id[1] /\ x[2] >= id[2]

LEMMA GivenNext ==
    ASSUME WaitInv, GivenOwn, [SNext]_allVars
    PROVE  GivenOwn'
<1> USE DEF segVars, shmHist
<1>1. SInv /\ CInv /\ TInv /\ given \in [Ids -> Seq(Pieces)] /\ seen \in Pieces
  BY STypeParts DEF WaitInv, SInv, CInv, GivenTypes
<1>2. ASSUME NEW id \in Ids, NEW data, Own1(id, data)
      PROVE  Own1(id, data)'
  <2>1. id[1] \in Clients
    BY DEF Ids
  <2>2. Threw(id) => Threw(id)'
    BY <1>1, <2>1, ThrewKept
  <2> QED  BY <1>2, <2>2 DEF Own1
<1>3. CASE given' = given
  <2>1. \A id \in Ids : \A i \in DOMAIN given[id] : Own1(id, given[id][i])
    BY DEF GivenOwn, Own1
  <2>2. ASSUME NEW id \in Ids, NEW i \in DOMAIN given'[id]
        PROVE  /\ given'[id][i] # {id} =>
                    Threw(id)' /\ \A x \in given'[id][i] \ {NoId} : x[1] = id[1] /\ x[2] >= id[2]
    <3> DEFINE data == given[id][i]
    <3>1. Own1(id, data)
      BY <1>3, <2>1, <2>2
    <3> HIDE DEF data
    <3>2. Threw(id) => Threw(id)'
      <4>1. id[1] \in Clients
        BY DEF Ids
      <4> QED  BY <1>1, <4>1, ThrewKept
    <3>3. data # {id} => Threw(id)' /\ \A x \in data \ {NoId} : x[1] = id[1] /\ x[2] >= id[2]
      BY <3>1, <3>2 DEF Own1
    <3> QED  BY <1>3, <3>3 DEF data
  <2> QED  BY <2>2 DEF GivenOwn
<1>4. CASE SWaitForRequest /\ given' # given
  <2>1. PICK t \in newRequest :
          /\ InSegment(t) => seen # {}
          /\ given' = IF queue[t] # <<>> /\ Head(queue[t]).by = "REQUEST"
                        THEN [given EXCEPT ![Head(queue[t]).of] = Append(@, DataGiven(t))]
                        ELSE given
    BY <1>4 DEF SWaitForRequest
  <2>2. upc = "idle" /\ Alive
    BY <1>4 DEF SWaitForRequest, WaitForRequest, WaitInv, Dead
  <2>3. queue[t] # <<>> /\ Head(queue[t]).by = "REQUEST"
    BY <1>4, <2>1
  <2>4. 1 \in DOMAIN queue[t] /\ Head(queue[t]) = queue[t][1]
    <3>1. queue[t] \in Seq(Entry)
      BY <1>1 DEF TInv, TypeOK
    <3> QED  BY <2>3, <3>1
  <2>5. PICK p \in msg : p.id = queue[t][1].of /\ p.topic = t
    BY <1>1, <2>2, <2>3, <2>4, Found
  <2> DEFINE d == DataGiven(t)
  <2>6. given' = [given EXCEPT ![p.id] = Append(@, d)]
    BY <2>1, <2>3, <2>4, <2>5
  <2>7. p.id \in Ids
    BY <1>1, <2>5 DEF TInv, TypeOK, Packet
  <2>8. Own1(p.id, d)
    <3>1. CASE ~InSegment(t)
      BY <2>4, <2>5, <3>1 DEF DataGiven, Own1
    <3>2. CASE InSegment(t)
      <4>1. d = seen /\ seen # {}
        BY <2>1, <3>2 DEF DataGiven
      <4>2. (Threw(p.id) \/ seen = {p.id}) /\ \A x \in seen : NotOlder(x, p.id)
        BY <2>2, <2>5, <4>1 DEF Alive, SeenOwn
      <4> QED  BY <4>1, <4>2 DEF Own1, NotOlder
    <3> QED  BY <3>1, <3>2
  <2>9. d \in Pieces
    BY <1>1, <2>4, <2>5, <2>7 DEF DataGiven, Pieces
  <2> HIDE DEF d
  <2>12. \A i \in DOMAIN given'[p.id] : given'[p.id][i] = d \/ \E j \in DOMAIN given[p.id] : given'[p.id][i] = given[p.id][j]
    <3>1. given[p.id] \in Seq(Pieces) /\ given'[p.id] = Append(given[p.id], d)
      BY <1>1, <2>6, <2>7
    <3>2. /\ DOMAIN Append(given[p.id], d) = 1 .. Len(given[p.id]) + 1
          /\ \A i \in 1 .. Len(given[p.id]) : Append(given[p.id], d)[i] = given[p.id][i]
          /\ Append(given[p.id], d)[Len(given[p.id]) + 1] = d
      BY <2>9, <3>1, AppendFacts
    <3>3. Len(given[p.id]) \in Nat /\ DOMAIN given[p.id] = 1 .. Len(given[p.id])
      BY <3>1, LenProperties
    <3> QED  BY <3>1, <3>2, <3>3
  <2>13. ASSUME NEW id \in Ids, NEW i \in DOMAIN given'[id], NEW data, data = given'[id][i]
         PROVE  Own1(id, data)
    <3>1. CASE id = p.id
      BY <2>8, <2>12, <2>13, <3>1 DEF GivenOwn, Own1
    <3>2. CASE id # p.id
      <4>1. given'[id] = given[id]
        BY <1>1, <2>6, <3>2
      <4> QED  BY <2>13, <4>1 DEF GivenOwn, Own1
    <3> QED  BY <3>1, <3>2
  <2>14. ASSUME NEW id \in Ids, NEW i \in DOMAIN given'[id], NEW data, data = given'[id][i]
         PROVE  data # {id} => Threw(id)' /\ \A x \in data \ {NoId} : x[1] = id[1] /\ x[2] >= id[2]
    <3>1. Own1(id, data)
      BY <2>13, <2>14
    <3>2. Own1(id, data)'
      BY <1>2, <3>1
    <3> QED  BY <3>2 DEF Own1
  <2> QED  BY <2>14 DEF GivenOwn
<1>5. SWaitForRequest \/ given' = given
  <2>1. CASE Plain \/ Failing \/ ReplyIgnored
    BY <2>1 DEF Plain, Failing, WaitThrows, WaitFaults, ReplyIgnored
  <2>2. CASE Calling
    BY <2>2 DEF Calling, SCall
  <2>3. CASE \E c \in Clients : SPoll(c)
    BY <2>3 DEF SPoll, SStatusReply, SStatusTimeout, SCallReply, SCallTimeout
  <2>4. CASE Writing \/ Clearing \/ ReadSegment
    BY <2>4, SegmentSteps
  <2> QED  BY <2>1, <2>2, <2>3, <2>4, SStepKinds
<1> QED  BY <1>3, <1>4, <1>5

(* For a request the program is given the data of that request, whole and  *)
(* alone, or, if its call has thrown by then, bytes of that call and of    *)
(* later calls of the client, and zeros, but never of an earlier call or   *)
(* of another client: the name of the segment in request_with_data has     *)
(* only the client and the topic, and get_shm_data reads it without a      *)
(* mutex, a byte at a time, while it may be written or removed.  The       *)
(* packets of a connection arrive in the order sent.                       *)
THEOREM GivenIsOwn ==
    ASSUME InOrder
    PROVE  SSpec => []GivenOwn
<1>1. SInit => WaitInv /\ GivenOwn
  <2>1. SInit => GivenOwn
    BY DEF SInit, GivenOwn
  <2> QED  BY <2>1, WaitInit
<1>2. WaitInv /\ GivenOwn /\ [SNext]_allVars => (WaitInv /\ GivenOwn)'
  BY WaitNext, GivenNext
<1> QED  BY <1>1, <1>2, PTL DEF SSpec

\* No client puts data itself into a shared-memory topic of requests.
NoPuts == \A x \in Calls : x[2] = "PUT" => x[3] \notin ShmTopics \intersect RequestTopics

LEMMA ThrowsFor ==
    ASSUME NoPuts, SInv, Alive, WaitThrows
    PROVE  \/ cleared
           \/ \E x \in raw : x[2] \in ShmTopics
           \/ \E c \in Clients \ Local : flagged[c] # {}
<1>1. CInv /\ HInv /\ upc = "idle" /\ queue \in [Topics -> Seq(Entry)] /\ newRequest \subseteq Topics
  BY DEF SInv, Alive, WaitThrows, CInv, TInv, TypeOK
<1>2. PICK t \in newRequest \intersect ShmTopics : LeftByThrow(t) # {}
  BY DEF WaitThrows
<1>3. t \in RequestTopics
  <2>1. bpc = "await" /\ t \in Asked
    BY <1>1, <1>2 DEF HInv, Handshake, Handover, Alive, LifeInv
  <2> QED  BY <1>1, <2>1, TheRequest DEF Waiting, Asked
<1>4. CASE Unparsable(t) = {}
  <2>1. InSegment(t) /\ DataOf(Head(queue[t]).of, t) = {}
    BY <1>2, <1>4 DEF LeftByThrow
  <2>2. 1 \in DOMAIN queue[t] /\ Head(queue[t]) = queue[t][1] /\ queue[t][1].by = "REQUEST"
    <3>1. queue[t] \in Seq(Entry) /\ queue[t] # <<>> /\ Head(queue[t]).by = "REQUEST"
      BY <1>1, <1>2, <2>1 DEF InSegment
    <3> QED  BY <3>1
  <2>3. PICK p \in msg : /\ p.id = queue[t][1].of /\ p.topic = t /\ p.id[1] \in Clients
                         /\ DataOn(p.id[1], p)
    BY <1>1, <1>2, <2>2, Found
  <2>4. t \in flagged[p.id[1]] /\ (segment[p.id[1]][t] # {} \/ cleared)
    BY <2>1, <2>2, <2>3 DEF InSegment, DataOn
  <2> QED  BY <2>1, <2>2, <2>3, <2>4 DEF DataOf
<1>5. CASE Unparsable(t) # {}
  <2>1. PICK k \in DOMAIN queue[t] : queue[t][k].by = "PUT" \/ <<queue[t][k].of, t>> \in raw
    BY <1>5 DEF Unparsable
  <2>2. queue[t][k].by # "PUT"
    <3> SUFFICES ASSUME queue[t][k].by = "PUT" PROVE FALSE
      OBVIOUS
    <3>1. PICK c \in Clients : <<c, "PUT", t>> \in Calls
      BY <1>1, <1>2, <2>1 DEF Alive, Queued
    <3> DEFINE x == <<c, "PUT", t>>
    <3>2. x \in Calls /\ x[2] = "PUT" /\ x[3] = t
      BY <3>1
    <3> HIDE DEF x
    <3> QED  BY <1>2, <1>3, <3>2 DEF NoPuts
  <2> DEFINE x == <<queue[t][k].of, t>>
  <2>3. x \in raw /\ x[2] = t
    BY <2>1, <2>2
  <2> HIDE DEF x
  <2> QED  BY <1>2, <2>3
<1> QED  BY <1>4, <1>5

\* wait_for_request reads past the end only of a file that a later call made.
LEMMA FaultsFor ==
    ASSUME SInv, Alive, WaitFaults
    PROVE  \E id \in Ids : Superseded(id)
<1>1. /\ CInv /\ TInv /\ upc = "idle" /\ queue \in [Topics -> Seq(Entry)]
      /\ segment \in [Clients -> [Topics -> SUBSET (Ids \union {NoId})]]
  BY DEF SInv, WaitFaults, CInv, TInv, TypeOK, STypeOK
<1>2. PICK t \in newRequest \intersect ShmTopics :
        InSegment(t) /\ DataOf(Head(queue[t]).of, t) \notin {{}, {Head(queue[t]).of}}
  BY DEF WaitFaults
<1>3. t \in Topics
  BY <1>1, <1>2 DEF TInv, TypeOK
<1>4. 1 \in DOMAIN queue[t] /\ Head(queue[t]) = queue[t][1] /\ queue[t][1].by = "REQUEST"
  <2>1. queue[t] \in Seq(Entry) /\ queue[t] # <<>> /\ Head(queue[t]).by = "REQUEST"
    BY <1>1, <1>2, <1>3 DEF InSegment
  <2> QED  BY <2>1
<1>5. PICK p \in msg :
        /\ p.id = queue[t][1].of /\ p.topic = t /\ p.id[1] \in Clients
        /\ p \in InFlight(p.id[1]) /\ DataOn(p.id[1], p)
  BY <1>1, <1>2, <1>4, Found
<1> DEFINE c == p.id[1]
<1>6. segment[c][t] \notin {{}, {p.id}}
  BY <1>2, <1>4, <1>5 DEF DataOf
<1>7. PICK d \in segment[c][t] : d # p.id
  BY <1>6
<1>8. Threw(p.id)
  BY <1>5, <1>6 DEF DataOn
<1>9. p.id \in Ids /\ p.id[2] \in Nat /\ p.id = <<c, p.id[2]>>
  BY <1>1, <1>5, FlightFacts
<1>10. calls[c] > p.id[2] \/ writing[c] # {}
  <2> SUFFICES ASSUME writing[c] = {} PROVE calls[c] > p.id[2]
    OBVIOUS
  <2>1. d[1] = c /\ d[2] <= calls[c]
    BY <1>3, <1>5, <1>7 DEF SInv, SegInv, SegAt
  <2>2. d \in Ids
    <3>1. d \in Ids \union {NoId}
      BY <1>1, <1>3, <1>5, <1>7
    <3> QED  BY <1>5, <2>1, <3>1, ConstantTypes DEF NoId
  <2>3. d[2] >= p.id[2] /\ d[2] \in Nat /\ d = <<d[1], d[2]>>
    <3>1. d # NoId
      BY <1>5, <2>1, ConstantTypes DEF NoId
    <3>2. NotOlder(d, p.id)
      BY <1>5, <1>7 DEF DataOn
    <3> QED  BY <2>2, <3>1, <3>2 DEF NotOlder, Ids
  <2>4. d[2] # p.id[2]
    BY <1>7, <1>9, <2>1, <2>3
  <2>5. calls[c] \in Nat
    BY <1>1, <1>5, CountTypes
  <2> QED  BY <1>9, <2>1, <2>3, <2>4, <2>5
<1> QED  BY <1>8, <1>9, <1>10 DEF Superseded

\* A client that is writing goes on to send.
LEMMA SupersededKept ==
    ASSUME SInv, [SNext]_allVars, NEW id \in Ids, Superseded(id)
    PROVE  Superseded(id)'
<1> DEFINE c == id[1]
<1> USE DEF netVars, clientVars, topicVars, dedupVars, bgVars, userVars, hist, segVars, shmHist
<1>1. /\ TInv /\ STypeOK /\ c \in Clients /\ id[2] \in Nat
      /\ writing \in [Clients -> SUBSET ShmTopics]
      /\ calls \in [Clients -> 0 .. MaxCalls]
  <2>1. TInv /\ STypeOK
    BY DEF SInv, CInv
  <2>2. c \in Clients /\ id[2] \in Nat
    BY DEF Ids
  <2>3. calls \in [Clients -> 0 .. MaxCalls]
    BY <2>1 DEF TInv, TypeOK
  <2>4. writing \in [Clients -> SUBSET ShmTopics]
    BY <2>1 DEF STypeOK
  <2> QED  BY <2>1, <2>2, <2>3, <2>4
<1>2. calls[c] \in Nat /\ Len(results[c]) \in Nat /\ MaxCalls \in Nat
  BY <1>1, CountTypes, ConstantTypes
<1>3. Threw(id)' /\ calls[c] <= calls'[c]
  BY <1>1, ThrewKept DEF Superseded
<1>4. calls'[c] \in Nat
  <2>1. TInv'
    BY SCInvNext DEF SInv, CInv
  <2> QED  BY <1>1, <2>1, <1>2 DEF TInv, TypeOK
<1> HIDE DEF c
<1>5. CASE calls[c] > id[2]
  <2>1. calls'[c] > id[2]
    BY <1>1, <1>2, <1>3, <1>4, <1>5
  <2> QED  BY <1>3, <2>1 DEF Superseded, c
<1>6. CASE writing[c] # {} /\ cpc[c] = "idle"
  <2>1. writing'[c] = writing[c] \/ calls'[c] = calls[c] + 1
    <3>1. CASE Plain \/ SWaitForRequest \/ Failing \/ ReplyIgnored \/ ReadSegment \/ Clearing
      BY <3>1 DEF Plain, SWaitForRequest, Failing, WaitThrows, WaitFaults, ReplyIgnored,
                  ReadSegment, Clearing, ClearSegment
    <3>2. CASE Writing
      <4>1. PICK e \in Clients, u \in Topics : OpenSegment(e, u)
        BY <3>2 DEF Writing
      <4> QED  BY <1>1, <1>6, <4>1 DEF OpenSegment
    <3>3. ASSUME NEW e \in Clients, e # c,
                 SPoll(e) \/ \E cmd, t, resend : SCall(e, cmd, t, resend)
          PROVE  writing'[c] = writing[c]
      BY <1>1, <3>3, OthersStay DEF c
    <3>4. ~SPoll(c)
      BY <1>6 DEF SPoll, SStatusReply, StatusReply, SStatusTimeout, StatusTimeout,
                  SCallReply, CallReply, SCallTimeout, CallTimeout
    <3>5. ASSUME NEW cmd, NEW t, NEW resend, SCall(c, cmd, t, resend)
          PROVE  calls'[c] = calls[c] + 1
      BY <1>1, <3>5 DEF SCall, Call
    <3> QED  BY <3>1, <3>2, <3>3, <3>4, <3>5, SStepKinds DEF Calling
  <2>2. id[2] <= calls[c]
    <3>1. calls[c] = Len(results[c])
      <4>1. calls[c] = Len(results[c]) + IF cpc[c] = "idle" THEN 0 ELSE 1
        BY <1>1 DEF TInv, Counted, c
      <4> QED  BY <1>2, <1>6, <4>1
    <3>2. id[2] \in DOMAIN results[c] /\ results[c] \in Seq(Result)
      BY <1>1 DEF Superseded, Threw, Ended, TInv, TypeOK, Result, c
    <3> QED  BY <3>1, <3>2, LenProperties
  <2>3. CASE writing'[c] = writing[c]
    BY <1>3, <1>6, <2>3 DEF Superseded, c
  <2>4. CASE calls'[c] = calls[c] + 1
    <3>1. calls'[c] > id[2]
      BY <1>1, <1>2, <2>2, <2>4
    <3> QED  BY <1>3, <3>1 DEF Superseded, c
  <2> QED  BY <2>1, <2>3, <2>4
<1>7. CASE cpc[c] # "idle"
  <2>1. calls[c] = Len(results[c]) + 1
    BY <1>1, <1>7, UnderWay DEF c
  <2>2. id[2] \in DOMAIN results[c] /\ results[c] \in Seq(Result)
    BY <1>1 DEF Superseded, Threw, Ended, TInv, TypeOK, Result, c
  <2>3. calls[c] > id[2]
    BY <1>1, <1>2, <2>1, <2>2, LenProperties
  <2> QED  BY <1>5, <2>3
<1> QED  BY <1>5, <1>6, <1>7 DEF Superseded, c

LEMMA ThereNext ==
    ASSUME NoPuts, WaitInv, FileThere, [SNext]_allVars
    PROVE  FileThere'
<1>1. /\ SInv /\ raw \subseteq raw' /\ (cleared => cleared')
      /\ \A c \in Clients : flagged[c] \subseteq flagged'[c]
  <2>1. SInv
    BY DEF WaitInv
  <2>2. CASE \E c \in Clients : TRUE
    <3>1. \A c \in Clients : raw \subseteq raw' /\ (cleared => cleared') /\ flagged[c] \subseteq flagged'[c]
      BY <2>1, SegSteps
    <3> QED  BY <2>1, <2>2, <3>1
  <2>3. CASE Clients = {}
    <3>1. Plain \/ SWaitForRequest \/ Failing \/ ReplyIgnored \/ ReadSegment
      BY <2>3, SStepKinds DEF Calling, Writing, Clearing
    <3>2. raw' = raw /\ cleared' = cleared
      BY <3>1 DEF Plain, SWaitForRequest, Failing, WaitThrows, WaitFaults, ReplyIgnored,
                  ReadSegment, segVars, shmHist
    <3> QED  BY <2>1, <2>3, <3>2
  <2> QED  BY <2>1, <2>2, <2>3
<1> DEFINE Excuse == \/ cleared
                     \/ \E x \in raw : x[2] \in ShmTopics
                     \/ \E c \in Clients \ Local : flagged[c] # {}
<1>2. Excuse => Excuse'
  <2>1. CASE cleared
    BY <1>1, <2>1
  <2>2. CASE \E x \in raw : x[2] \in ShmTopics
    BY <1>1, <2>2
  <2>3. CASE \E c \in Clients \ Local : flagged[c] # {}
    BY <1>1, <2>3
  <2> QED  BY <2>1, <2>2, <2>3
<1>3. (\E id \in Ids : Superseded(id)) => (\E id \in Ids : Superseded(id)')
  BY <1>1, SupersededKept
<1>4. WaitThrows /\ ~failed => Excuse
  BY <1>1, ThrowsFor DEF WaitInv
<1>5. WaitFaults /\ ~failed => \E id \in Ids : Superseded(id)
  BY <1>1, FaultsFor DEF WaitInv
<1> HIDE DEF Excuse
<1>6. FileThere <=> (failed /\ ~killed => Excuse) /\ (killed => \E id \in Ids : Superseded(id))
  BY DEF FileThere, Excuse
<1>7. FileThere' <=> (failed' /\ ~killed' => Excuse') /\ (killed' => \E id \in Ids : Superseded(id)')
  BY DEF FileThere, Excuse
<1>8. CASE failed \/ ~Failing
  <2>1. failed' = failed /\ killed' = killed
    <3>1. CASE failed
      BY <1>1, <3>1, DeadNext DEF WaitInv, SInv
    <3> QED  BY <1>8, <3>1, FailedKept
  <2> QED  BY <1>2, <1>3, <1>6, <1>7, <2>1
<1>9. CASE ~failed /\ WaitThrows
  <2>1. killed' = killed
    BY <1>9 DEF WaitThrows
  <2> QED  BY <1>2, <1>3, <1>4, <1>6, <1>7, <1>9, <2>1
<1>10. CASE ~failed /\ WaitFaults
  <2>1. killed' = TRUE
    BY <1>10 DEF WaitFaults
  <2> QED  BY <1>3, <1>5, <1>7, <1>10, <2>1
<1> QED  BY <1>8, <1>9, <1>10 DEF Failing

(* wait_for_request throws for a file that is not there only if            *)
(* clear_shared_memory was used, data was sent in a packet, or a client of *)
(* another machine, which has another /dev/shm, knows of a shared-memory   *)
(* topic; and it reads past the end of a file only of a call that threw    *)
(* and whose client went on with another.  The packets of a connection     *)
(* arrive in the order sent, and put_data is not used on topics of         *)
(* requests.                                                               *)
THEOREM FilesAreThere ==
    ASSUME InOrder, NoPuts
    PROVE  SSpec => []FileThere
<1>1. SInit => WaitInv /\ FileThere
  <2>1. SInit => FileThere
    BY DEF SInit, FileThere
  <2> QED  BY <2>1, WaitInit
<1>2. WaitInv /\ FileThere /\ [SNext]_allVars => (WaitInv /\ FileThere)'
  BY WaitNext, ThereNext
<1> QED  BY <1>1, <1>2, PTL DEF SSpec

-----------------------------------------------------------------------------
(* The runs of a request: those of RequestReply, until wait_for_request    *)
(* throws; after that nothing runs, and nothing is answered any more.      *)

AnswersKept == InboxInv /\ (resets = 0 => ReturnMeansDone /\ RunInv)
ServeInv == IF failed THEN AnswersKept ELSE ReqInv /\ (resets = 0 => SeqInv)

\* What the program was given is counted.
GivenCount ==
    \A id \in Ids : SentRequest(id) \/ id[2] > calls[id[1]] => Len(given[id]) = done[id]

LEMMA DeadSteps ==
    ASSUME CInv, Dead, [SNext]_allVars
    PROVE  /\ [Next]_vars
           /\ done' = done
           /\ \/ \E c \in Clients : \E i \in DOMAIN wire[c] : Lose(c, i) \/ Recv(c, i)
              \/ \E c \in Clients, cmd \in Cmds, t \in Topics, resend \in Resend :
                   <<c, cmd, t>> \in Calls /\ Call(c, cmd, t, resend)
              \/ \E c \in Clients : ClientStep(c)
              \/ UNCHANGED <<inbox, cpc, calls>>
<1> USE DEF netVars, clientVars, topicVars, dedupVars, bgVars, userVars, hist, segVars, shmHist
<1>1. ~(Failing \/ ReplyIgnored)
  BY DEF Failing, WaitThrows, WaitFaults, ReplyIgnored, Dead
<1>2. [Next]_vars
  BY <1>1, OnlyShm
<1>3. ~\E p \in msg : \/ NoTopic(p) \/ Serve(p) \/ AnswerAgain(p) \/ RecordRequest(p)
                      \/ EnqueueRequest(p) \/ Announce(p) \/ SendReply(p)
  BY DEF NoTopic, Serve, AnswerAgain, RecordRequest, EnqueueRequest, Announce, SendReply, Dead
<1>4. ~ServeRequests
  BY DEF ServeRequests, WaitForRequest, ReplyPut, ReplyFlag, Dead
<1>5. CASE \E c \in Clients : \E i \in DOMAIN wire[c] : Lose(c, i) \/ Recv(c, i)
  BY <1>2, <1>5 DEF Lose, Recv
<1>6. CASE \E c \in Clients, cmd \in Cmds, t \in Topics, resend \in Resend :
             <<c, cmd, t>> \in Calls /\ Call(c, cmd, t, resend)
  BY <1>2, <1>6 DEF Call
<1>7. CASE \E c \in Clients : ClientStep(c)
  BY <1>2, <1>7, ClientSends
<1>8. CASE \E t : AddTopic(t) \/ PutData(t) \/ PopData(t)
  BY <1>2, <1>8 DEF AddTopic, PutData, PopData
<1>9. CASE BgStop \/ ResetStartTime \/ Shutdown \/ UNCHANGED vars
  BY <1>2, <1>9 DEF BgStop, ResetStartTime, Shutdown, vars
<1> QED  BY <1>2, <1>3, <1>4, <1>5, <1>6, <1>7, <1>8, <1>9 DEF Next, BgStep

LEMMA KeptNext ==
    ASSUME CInv, Dead, AnswersKept, [SNext]_allVars
    PROVE  AnswersKept'
<1>1. /\ [Next]_vars /\ done' = done
      /\ \/ \E c \in Clients : \E i \in DOMAIN wire[c] : Lose(c, i) \/ Recv(c, i)
         \/ \E c \in Clients, cmd \in Cmds, t \in Topics, resend \in Resend :
              <<c, cmd, t>> \in Calls /\ Call(c, cmd, t, resend)
         \/ \E c \in Clients : ClientStep(c)
         \/ UNCHANGED <<inbox, cpc, calls>>
  BY DeadSteps
<1>2. InboxInv'
  <2>1. InboxInv
    BY DEF AnswersKept
  <2>2. ASSUME NEW c \in Clients PROVE InboxOwn(c)'
    BY <1>1, <2>1, InboxClients
  <2> QED  BY <2>2 DEF InboxInv
<1>3. (resets = 0 => ReturnMeansDone)'
  BY <1>1, ReturnNext DEF AnswersKept
<1>4. ASSUME resets' = 0 PROVE RunInv'
  <2>1. RunInv /\ TInv
    BY <1>1, <1>4, DoneGrows DEF AnswersKept, CInv
  <2>2. ASSUME NEW id \in Ids
        PROVE  /\ calls[id[1]] \in Nat /\ calls'[id[1]] \in Nat /\ calls[id[1]] <= calls'[id[1]]
               /\ id[2] \in Nat
    <3>1. id[1] \in Clients /\ id[2] \in Nat
      BY DEF Ids
    <3> QED  BY <1>1, <3>1, CallsGrow
  <2>3. ASSUME NEW id \in Ids, id[2] > calls'[id[1]]
        PROVE  done'[id] = 0
    <3>1. id[2] > calls[id[1]]
      BY <2>2, <2>3
    <3> QED  BY <1>1, <2>1, <3>1 DEF RunInv
  <2>4. ASSUME NEW id \in Ids, SentRequest(id)'
        PROVE  done'[id] <= 1
    <3>1. CASE id[2] > calls[id[1]]
      BY <1>1, <2>1, <3>1 DEF RunInv
    <3>2. CASE id[2] <= calls[id[1]]
      <4>1. CmdOf(id)' = CmdOf(id)
        BY <1>1, <2>1, <3>2, CmdStays
      <4>2. SentRequest(id)
        BY <2>4, <3>2, <4>1 DEF SentRequest
      <4> QED  BY <1>1, <2>1, <4>2 DEF RunInv
    <3> QED  BY <2>2, <3>1, <3>2
  <2> QED  BY <2>3, <2>4 DEF RunInv
<1> QED  BY <1>2, <1>3, <1>4 DEF AnswersKept

\* A reply that is ignored leaves the topic empty, as the request found it.
LEMMA IgnoredNext ==
    ASSUME CInv, HInv, ReqInv, resets = 0 => SeqInv, LifeInv', ReplyIgnored
    PROVE  ReqInv' /\ (resets = 0 => SeqInv)'
<1> USE DEF netVars, clientVars, topicVars, dedupVars, bgVars, userVars, hist
<1>1. /\ upc = "reply" /\ upc' = "flag"
      /\ UNCHANGED <<netVars, clientVars, topicVars, dedupVars, newRequest, replyTopic, running,
                     bgVars, serving, puts, resets, hist>>
  BY DEF ReplyIgnored
<1>2. QueueInv'
  <2>1. QuietTopics'
    BY <1>1 DEF ReqInv, QueueInv, QuietTopics, Handing, Asked
  <2>2. ASSUME NEW p \in msg PROVE (Asking(p) /\ Running(p) /\ Replied(p))'
    <3>1. Asking(p)'
      BY <1>1 DEF ReqInv, QueueInv, Asking
    <3>2. Replied(p)'
      <4>1. bpc = "await" => queue[p.topic] = <<>>
        BY <1>1 DEF ReqInv, QueueInv, Running
      <4>2. queue'[p.topic] = queue[p.topic] /\ bpc' = bpc
        BY <1>1
      <4>3. queue[p.topic] = <<>> => Reply(queue[p.topic], p.id)'
        BY <4>2 DEF Reply
      <4> QED  BY <4>1, <4>2, <4>3 DEF Replied
    <3> QED  BY <1>1, <3>1, <3>2 DEF Running
  <2> QED  BY <1>1, <2>1, <2>2 DEF QueueInv
<1>3. DedupInv' /\ InboxInv' /\ (resets = 0 => ReturnMeansDone)'
  <2>1. DedupInv'
    BY <1>1 DEF ReqInv, DedupInv, Waiting, CacheAt, Stamp, Reply, Own
  <2>2. InboxInv'
    BY <1>1 DEF ReqInv, InboxInv, InboxOwn, Reply, Own, CallId
  <2>3. (resets = 0 => ReturnMeansDone)'
    BY <1>1 DEF ReqInv, ReturnMeansDone, Returned, Ended
  <2> QED  BY <2>1, <2>2, <2>3
<1>4. ASSUME resets' = 0 PROVE SeqInv'
  <2>1. SeqInv
    BY <1>1, <1>4
  <2>2. (\A c \in Clients : OrderAt(c) /\ PendingAt(c))'
    <3>1. ASSUME NEW c \in Clients PROVE OrderAt(c)'
      BY <1>1, <2>1 DEF SeqInv, OrderAt, Working
    <3>2. ASSUME NEW c \in Clients PROVE PendingAt(c)'
      <4>1. Pending(c)' = Pending(c)
        BY <1>1 DEF Pending, Working
      <4>2. ASSUME NEW x PROVE Settled(c, x)' <=> Settled(c, x)
        BY <1>1 DEF Settled, Waiting
      <4>3. PendingAt(c)
        BY <2>1 DEF SeqInv
      <4> QED  BY <1>1, <4>1, <4>2, <4>3 DEF PendingAt
    <3> QED  BY <3>1, <3>2
  <2>3. UnderHand'
    BY <1>1, <2>1 DEF SeqInv, UnderHand, Waiting, Stamp
  <2>4. RunInv'
    BY <1>1, <2>1 DEF SeqInv, RunInv, SentRequest, CmdOf
  <2>5. StampPast'
    BY <1>1, <2>1 DEF SeqInv, StampPast
  <2> QED  BY <2>2, <2>3, <2>4, <2>5 DEF SeqInv
<1> QED  BY <1>2, <1>3, <1>4 DEF ReqInv

LEMMA ServeNext ==
    ASSUME InOrder, OwnQueue, OneClient, WaitInv, ServeInv, [SNext]_allVars
    PROVE  ServeInv'
<1>1. SInv /\ CInv
  BY DEF WaitInv, SInv
<1>2. CASE failed
  <2>1. Dead /\ AnswersKept
    BY <1>2 DEF WaitInv, ServeInv
  <2>2. failed'
    BY <1>1, <1>2, <2>1, DeadNext
  <2> QED  BY <1>1, <2>1, <2>2, KeptNext DEF ServeInv
<1>3. CASE ~failed /\ Failing
  <2>1. failed' /\ UNCHANGED <<inbox, cpc, call, calls, results, done, resets>>
    BY <1>3 DEF Failing, WaitThrows, WaitFaults, netVars, clientVars, userVars, hist
  <2>2. AnswersKept
    BY <1>3 DEF ServeInv, ReqInv, SeqInv, AnswersKept
  <2>3. InboxInv'
    BY <2>1, <2>2 DEF AnswersKept, InboxInv, InboxOwn, Reply, Own, CallId
  <2>4. ASSUME resets' = 0 PROVE ReturnMeansDone' /\ RunInv'
    BY <2>1, <2>2, <2>4 DEF AnswersKept, ReturnMeansDone, Returned, Ended, RunInv, SentRequest, CmdOf
  <2> QED  BY <2>1, <2>3, <2>4 DEF ServeInv, AnswersKept
<1>4. CASE ~failed /\ ~Failing
  <2>1. ~failed' /\ Alive
    BY <1>4, FailedKept DEF WaitInv
  <2>2. /\ HInv /\ ReqInv /\ (resets = 0 => SeqInv)
    BY <1>4, <2>1 DEF ServeInv, Alive
  <2>3. CASE [Next]_vars
    <3>1. CallsInv
      BY <1>1, <2>2 DEF CallsInv
    <3>2. CallsInv'
      BY <2>3, <3>1, CallsNext, OneClientDiffers
    <3>3. (resets = 0 => SeqInv)'
      BY <2>2, <2>3, <3>1, SeqNext
    <3> QED  BY <2>1, <3>2, <3>3 DEF ServeInv, CallsInv
  <2>4. CASE ~[Next]_vars
    <3>1. ReplyIgnored
      BY <1>4, <2>4, OnlyShm
    <3>2. LifeInv'
      BY <1>1, <1>4, <2>1, AliveNext DEF Alive
    <3> QED  BY <1>1, <2>1, <2>2, <3>1, <3>2, IgnoredNext DEF ServeInv
  <2> QED  BY <2>3, <2>4
<1> QED  BY <1>2, <1>3, <1>4

\* The calls GivenCount is about: requests, and calls that are still to come.
Reckoned(id) == SentRequest(id) \/ id[2] > calls[id[1]]

\* Only wait_for_request counts a request as run.
LEMMA DoneStays ==
    ASSUME CInv, [SNext]_allVars, NEW id \in Ids, Reckoned(id)
    PROVE  done'[id] = done[id] \/ SWaitForRequest
<1> USE DEF netVars, clientVars, topicVars, dedupVars, bgVars, userVars, hist, segVars, shmHist
<1>1. CASE \E c \in Clients :
             \/ \E i \in DOMAIN wire[c] : Lose(c, i)
             \/ \E cmd, t, resend : Call(c, cmd, t, resend)
             \/ ClientStep(c)
  <2>1. CASE \E c \in Clients : \/ \E i \in DOMAIN wire[c] : Lose(c, i)
                                \/ \E cmd, t, resend : Call(c, cmd, t, resend)
    BY <2>1 DEF Lose, Call
  <2>2. CASE \E c \in Clients : ClientStep(c)
    BY <2>2, ClientSends
  <2> QED  BY <1>1, <2>1, <2>2
<1>2. ASSUME NEW p \in msg, Serve(p)
      PROVE  done'[id] = done[id]
  <2>1. done' = done \/ (p.cmd = "PUT" /\ done' = [done EXCEPT ![p.id] = @ + 1])
    BY <1>2 DEF Serve, Took
  <2>2. /\ p.id[1] \in Clients /\ p.id[2] \in Nat /\ done \in [Ids -> Nat]
        /\ calls[p.id[1]] \in Nat
    <3>1. TInv /\ p \in Packet /\ done \in [Ids -> Nat]
      BY DEF CInv, TInv, TypeOK
    <3>2. p.id[1] \in Clients /\ p.id[2] \in Nat
      BY <3>1 DEF Packet, Ids
    <3> QED  BY <3>1, <3>2, CountTypes
  <2>3. Sent(p.id[1], p)
    BY <2>2 DEF CInv, ConnInv, ConnAt
  <2>4. p.id[2] <= calls[p.id[1]] /\ (p.cmd = "PUT" => CmdOf(p.id) = "PUT")
    BY <2>3 DEF Sent
  <2>5. p.cmd = "PUT" => id # p.id
    BY <2>2, <2>4 DEF Reckoned, SentRequest
  <2> QED  BY <2>1, <2>2, <2>5
<1>3. CASE SBgStep
  <2>1. CASE \E c \in Clients : \E i \in DOMAIN wire[c] : Recv(c, i)
    BY <2>1 DEF Recv
  <2>2. CASE \E p \in msg : \/ NoTopic(p) \/ AnswerAgain(p) \/ RecordRequest(p)
                            \/ EnqueueRequest(p) \/ Announce(p) \/ SendReply(p)
    BY <2>2 DEF NoTopic, AnswerAgain, RecordRequest, EnqueueRequest, Announce, SendReply
  <2>3. CASE BgStop
    BY <2>3 DEF BgStop
  <2> QED  BY <1>2, <1>3, <2>1, <2>2, <2>3 DEF SBgStep, BgStep
<1>4. CASE SServeRequests
  BY <1>4 DEF SServeRequests, ReadSegment, vars, WaitThrows, WaitFaults, ReplyPut, ReplyFlag, ReplyIgnored
<1>5. CASE (\E t \in Topics : AddTopic(t)) \/ ResetStartTime \/ Shutdown \/ UNCHANGED allVars
  BY <1>5 DEF AddTopic, ResetStartTime, Shutdown, allVars, vars
<1>6. CASE \E c \in Clients : SPoll(c)
  BY <1>1, <1>6 DEF SPoll, SStatusReply, SStatusTimeout, SCallReply, SCallTimeout, ClientStep
<1>7. CASE \E c \in Clients, cmd \in Cmds, t \in Topics, resend \in Resend : SCall(c, cmd, t, resend)
  BY <1>1, <1>7 DEF SCall
<1>8. CASE \E c \in Clients, t \in Topics : OpenSegment(c, t) \/ ClearSegment(c, t)
  BY <1>8 DEF OpenSegment, ClearSegment, vars
<1> QED  BY <1>1, <1>3, <1>4, <1>5, <1>6, <1>7, <1>8 DEF SNext

LEMMA GivenStays ==
    ASSUME [SNext]_allVars
    PROVE  given' = given \/ SWaitForRequest
<1> USE DEF segVars, shmHist
<1>1. CASE Plain \/ Failing \/ ReplyIgnored
  BY <1>1 DEF Plain, Failing, WaitThrows, WaitFaults, ReplyIgnored
<1>2. CASE Calling
  BY <1>2 DEF Calling, SCall
<1>3. CASE \E c \in Clients : SPoll(c)
  BY <1>3 DEF SPoll, SStatusReply, SStatusTimeout, SCallReply, SCallTimeout
<1>4. CASE Writing \/ Clearing \/ ReadSegment
  BY <1>4, SegmentSteps
<1> QED  BY <1>1, <1>2, <1>3, <1>4, SStepKinds

\* wait_for_request returns data for the request that it counts.
LEMMA GivenGrows ==
    ASSUME SInv, Alive, SWaitForRequest
    PROVE  \/ UNCHANGED <<given, done>>
           \/ \E id \in Ids, d \in Pieces :
                /\ given' = [given EXCEPT ![id] = Append(@, d)]
                /\ done' = [done EXCEPT ![id] = @ + 1]
<1>1. PICK t \in newRequest :
        given' = IF queue[t] # <<>> /\ Head(queue[t]).by = "REQUEST"
                   THEN [given EXCEPT ![Head(queue[t]).of] = Append(@, DataGiven(t))]
                   ELSE given
  BY DEF SWaitForRequest
<1>2. PICK s \in newRequest :
        IF queue[s] # <<>> /\ Head(queue[s]).by = "REQUEST"
          THEN done' = [done EXCEPT ![Head(queue[s]).of] = @ + 1] ELSE UNCHANGED done
  BY DEF SWaitForRequest, WaitForRequest, Took, hist
<1>3. upc = "idle" /\ HInv /\ CInv
  BY DEF SWaitForRequest, WaitForRequest, Alive, SInv
<1>4. s = t
  BY <1>3 DEF HInv, Handshake, Handover, Asked
<1>5. CASE ~(queue[t] # <<>> /\ Head(queue[t]).by = "REQUEST")
  BY <1>1, <1>2, <1>4, <1>5
<1>6. CASE queue[t] # <<>> /\ Head(queue[t]).by = "REQUEST"
  <2>1. 1 \in DOMAIN queue[t] /\ Head(queue[t]) = queue[t][1]
    <3>1. queue[t] \in Seq(Entry)
      BY <1>3 DEF CInv, TInv, TypeOK
    <3> QED  BY <1>6, <3>1
  <2>2. PICK p \in msg : p.id = queue[t][1].of /\ p.topic = t
    BY <1>3, <1>6, <2>1, Found
  <2>3. given' = [given EXCEPT ![p.id] = Append(@, DataGiven(t))]
    BY <1>1, <1>6, <2>1, <2>2
  <2>4. p.id \in Ids /\ seen \in Pieces
    BY <1>3, <2>2, STypeParts DEF CInv, TInv, TypeOK, Packet, SInv, GivenTypes
  <2>5. DataGiven(t) \in Pieces
    BY <2>1, <2>2, <2>4 DEF DataGiven, Pieces
  <2>6. done' = [done EXCEPT ![p.id] = @ + 1]
    BY <1>2, <1>4, <1>6, <2>1, <2>2
  <2> QED  BY <2>3, <2>4, <2>5, <2>6
<1> QED  BY <1>5, <1>6

LEMMA GivenCountNext ==
    ASSUME WaitInv, GivenCount, [SNext]_allVars
    PROVE  GivenCount'
<1>1. SInv /\ CInv /\ TInv
  BY DEF WaitInv, SInv, CInv
<1>2. given \in [Ids -> Seq(Pieces)] /\ done \in [Ids -> Nat]
  BY <1>1, STypeParts DEF SInv, GivenTypes, TInv, TypeOK
<1>3. ASSUME NEW id \in Ids, Reckoned(id)
      PROVE  Len(given'[id]) = done'[id]
  <2>1. Len(given[id]) = done[id]
    BY <1>3 DEF GivenCount, Reckoned
  <2>2. CASE SWaitForRequest
    <3>1. Alive
      BY <2>2 DEF SWaitForRequest, WaitForRequest, WaitInv, Dead
    <3>2. CASE UNCHANGED <<given, done>>
      BY <2>1, <3>2
    <3>3. CASE ~UNCHANGED <<given, done>>
      <4>1. PICK of \in Ids, d \in Pieces : /\ given' = [given EXCEPT ![of] = Append(@, d)]
                                         /\ done' = [done EXCEPT ![of] = @ + 1]
        BY <1>1, <2>2, <3>1, <3>3, GivenGrows
      <4>2. CASE id = of
        <5>1. given'[id] = Append(given[id], d) /\ done'[id] = done[id] + 1
          BY <1>2, <4>1, <4>2
        <5>2. Len(Append(given[id], d)) = Len(given[id]) + 1
          BY <1>2, AppendFacts
        <5> QED  BY <2>1, <5>1, <5>2
      <4>3. CASE id # of
        BY <1>2, <2>1, <4>1, <4>3
      <4> QED  BY <4>2, <4>3
    <3> QED  BY <3>2, <3>3
  <2>3. CASE ~SWaitForRequest
    BY <1>1, <1>3, <2>1, <2>3, DoneStays, GivenStays
  <2> QED  BY <2>2, <2>3
<1>4. ASSUME NEW id \in Ids, Reckoned(id)'
      PROVE  Reckoned(id)
  <2>1. /\ id[1] \in Clients /\ id[2] \in Nat
        /\ calls[id[1]] \in Nat
    BY <1>1, CountTypes DEF Ids
  <2>2. CASE Failing \/ ReplyIgnored
    BY <1>4, <2>2 DEF Failing, WaitThrows, WaitFaults, ReplyIgnored, Reckoned, SentRequest, CmdOf, clientVars, hist
  <2>3. CASE [Next]_vars
    <3>1. CASE id[2] > calls[id[1]]
      BY <3>1 DEF Reckoned
    <3>2. CASE id[2] <= calls[id[1]]
      <4>1. CmdOf(id)' = CmdOf(id) /\ calls[id[1]] <= calls'[id[1]] /\ calls'[id[1]] \in Nat
        BY <1>1, <2>1, <2>3, <3>2, CmdStays, CallsGrow
      <4>2. ~(id[2] > calls'[id[1]])
        BY <2>1, <3>2, <4>1
      <4> QED  BY <1>4, <3>2, <4>1, <4>2 DEF Reckoned, SentRequest
    <3> QED  BY <2>1, <3>1, <3>2
  <2> QED  BY <2>2, <2>3, OnlyShm
<1> QED  BY <1>3, <1>4 DEF GivenCount, Reckoned

(* A request_with_data that returns was run once, and the program was      *)
(* given the data it was called with, whatever became of the calls before  *)
(* it, as long as reset_start_time is not called.  Packets of a connection *)
(* arrive in the order sent, and a topic of requests has one client and    *)
(* nothing else in it, as in RequestsRunOnce.                              *)
THEOREM ReturnsRunOwn ==
    ASSUME InOrder, OwnQueue, OneClient
    PROVE  SSpec => []ReturnsOwnRun
<1>1. SInit => WaitInv /\ ServeInv /\ GivenCount /\ GivenOwn
  <2> SUFFICES ASSUME SInit PROVE WaitInv /\ ServeInv /\ GivenCount /\ GivenOwn
    OBVIOUS
  <2>1. Init /\ failed = FALSE
    BY DEF SInit
  <2>2. GivenOwn
    BY DEF SInit, GivenOwn
  <2>3. GivenCount
    <3>1. \A id \in Ids : given[id] = <<>> /\ done[id] = 0
      BY DEF SInit, Init
    <3> QED  BY <3>1 DEF GivenCount
  <2> QED  BY <2>1, <2>2, <2>3, WaitInit, ReqInit, SeqInit DEF ServeInv
<1>2. /\ WaitInv /\ ServeInv /\ GivenCount /\ GivenOwn /\ [SNext]_allVars
      => (WaitInv /\ ServeInv /\ GivenCount /\ GivenOwn)'
  BY WaitNext, ServeNext, GivenCountNext, GivenNext
<1>3. WaitInv /\ ServeInv /\ GivenCount /\ GivenOwn => ReturnsOwnRun
  <2> SUFFICES ASSUME WaitInv, ServeInv, GivenCount, GivenOwn, resets = 0,
                      NEW id \in Ids, ReturnedCall(id)
               PROVE  given[id] = <<{id}>>
    BY DEF ReturnsOwnRun
  <2>1. TInv /\ given \in [Ids -> Seq(Pieces)] /\ done \in [Ids -> Nat]
    BY STypeParts DEF WaitInv, SInv, CInv, TInv, TypeOK, GivenTypes
  <2>2. ReturnMeansDone /\ RunInv
    BY DEF ServeInv, AnswersKept, ReqInv, SeqInv
  <2>3. id[1] \in Clients /\ id[2] \in Ended(id[1]) /\ id = <<id[1], id[2]>>
    BY DEF ReturnedCall, Returned, Ids
  <2>4. done[id] >= 1
    BY <2>2, <2>3 DEF ReturnMeansDone, ReturnedCall
  <2>5. SentRequest(id)
    <3>1. id[2] <= Len(results[id[1]])
      <4>1. results[id[1]] \in Seq(Result)
        BY <2>1, <2>3 DEF TInv, TypeOK, Result
      <4>2. DOMAIN results[id[1]] = 1 .. Len(results[id[1]])
        BY <4>1, LenProperties
      <4> QED  BY <2>3, <4>2 DEF Ended
    <3>2. IsRequest(id)
      BY <3>1 DEF IsRequest, ReturnedCall
    <3> QED  BY <2>1, <3>2, RequestsSent
  <2>6. Len(given[id]) = 1
    <3>1. Len(given[id]) = done[id] /\ done[id] <= 1
      BY <2>2, <2>5 DEF GivenCount, RunInv
    <3>2. done[id] \in Nat
      BY <2>1
    <3> QED  BY <2>4, <3>1, <3>2
  <2>7. given[id][1] = {id}
    <3>1. DOMAIN given[id] = 1 .. 1
      BY <2>1, <2>6, LenProperties
    <3>2. ~Threw(id)
      BY DEF Threw, ReturnedCall, Returned
    <3> QED  BY <3>1, <3>2 DEF GivenOwn
  <2> QED  BY <2>1, <2>6, <2>7
<1> QED  BY <1>1, <1>2, <1>3, PTL DEF SSpec

(* request_with_data is a remote call also on topics with shared memory    *)
(* (IsRpc), whatever becomes of segments and replies: an exception of      *)
(* wait_for_request runs nothing, and a reply that put_data ignores is not *)
(* returned to the client.  The conditions are those of ReturnsRunOwn.     *)
THEOREM ShmRequestsAreRpc ==
    ASSUME InOrder, OwnQueue, OneClient
    PROVE  SSpec => IsRpc
<1>1. SInit => WaitInv /\ ServeInv
  BY WaitInit, ReqInit, SeqInit DEF SInit, ServeInv
<1>2. WaitInv /\ ServeInv /\ [SNext]_allVars => (WaitInv /\ ServeInv)'
  BY WaitNext, ServeNext
<1>3. WaitInv /\ ServeInv => RpcInv
  BY DEF WaitInv, SInv, ServeInv, AnswersKept, ReqInv, SeqInv, RpcInv
<1>4. SInit => \A id \in Ids : Service(id)!RpcInit
  BY RpcStarts DEF SInit
<1>5. RpcInv /\ RpcInv' /\ [SNext]_allVars => [RpcSteps]_vars
  <2> SUFFICES ASSUME RpcInv, RpcInv', [SNext]_allVars, resets' = 0, NEW id \in Ids
               PROVE  UNCHANGED <<StatusOf(id), RunsOf(id)>> \/ Service(id)!RpcNext
    BY DEF RpcSteps
  <2>1. CASE [Next]_vars
    BY <2>1, RpcStep
  <2>2. CASE ~[Next]_vars
    <3>1. UNCHANGED <<clientVars, hist>>
      BY <2>2, OnlyShm
    <3>2. UNCHANGED <<call, calls, results, done>>
      BY <3>1 DEF clientVars, hist
    <3>3. IsRequest(id)' = IsRequest(id) /\ Ended(id[1])' = Ended(id[1])
      BY <3>2 DEF IsRequest, Ended
    <3>4. StatusOf(id)' = StatusOf(id)
      BY <3>2, <3>3 DEF StatusOf
    <3> QED  BY <3>2, <3>3, <3>4 DEF RunsOf
  <2> QED  BY <2>1, <2>2
<1> QED  BY <1>1, <1>2, <1>3, <1>4, <1>5, PTL DEF SSpec, IsRpc, RpcSteps

=============================================================================
