-------------------------- MODULE RequestReply_proofs --------------------------
(***************************************************************************)
(* Theorems about RequestReply, for any number of clients, topics, calls,  *)
(* retries, losses and resets: the handover of requests between the        *)
(* background thread and the server's program, the types, and what each    *)
(* connection carries.                                                     *)
(***************************************************************************)
EXTENDS RequestReply, SequenceTheorems, TLAPS

\* All that Handshake is about.
handVars == <<bpc, msg, newRequest, replyTopic, upc, serving>>

(* The invariant only looks at the variables of the handover, so the steps *)
(* of the clients, of ZeroMQ and of the other operations keep it.          *)
LEMMA HInvQuiet ==
    ASSUME HInv, UNCHANGED handVars
    PROVE  HInv'
  BY DEF handVars, HInv, Handshake, Handover, Handled, Asked

(* Nothing is in the handover before the first packet arrives.             *)
LEMMA HInvInit == Init => HInv
  BY DEF Init, HInv, Handshake, Handover, Handled, Asked

(* The background thread takes a packet only when nothing is handed over,  *)
(* announces the one it took, and goes back only with the reply to it.     *)
LEMMA HInvThread ==
    ASSUME HInv, BgStep
    PROVE  HInv'
<1> USE DEF handVars, netVars, clientVars, topicVars, dedupVars, bgVars, userVars, hist
<1>1. ASSUME NEW c \in Clients, NEW i \in DOMAIN wire[c], Recv(c, i)
      PROVE  HInv'
  <2>1. bpc = "poll" /\ bpc' = "dispatch" /\ msg' = {wire[c][i]}
    BY <1>1 DEF Recv
  <2>2. UNCHANGED <<newRequest, replyTopic, upc, serving>>
    BY <1>1 DEF Recv
  <2>3. Handover = {}
    BY <2>1 DEF HInv, Handshake
  <2> QED
    BY <2>1, <2>2, <2>3 DEF HInv, Handshake, Handover, Handled, Asked
<1>2. ASSUME NEW p \in msg, NoTopic(p) \/ Serve(p) \/ AnswerAgain(p)
      PROVE  HInv'
  <2>1. bpc = "dispatch" /\ bpc' = "poll" /\ UNCHANGED <<msg, newRequest, replyTopic, upc, serving>>
    BY <1>2 DEF NoTopic, Serve, AnswerAgain
  <2> QED
    BY <2>1 DEF HInv, Handshake, Handover, Handled, Asked
<1>3. ASSUME NEW p \in msg, RecordRequest(p) \/ EnqueueRequest(p)
      PROVE  HInv'
  <2>1. /\ bpc \in {"dispatch", "enqueue"} /\ bpc' \in {"enqueue", "announce"}
        /\ UNCHANGED <<msg, newRequest, replyTopic, upc, serving>>
    BY <1>3 DEF RecordRequest, EnqueueRequest
  <2> QED
    BY <2>1 DEF HInv, Handshake, Handover, Handled, Asked
<1>4. ASSUME NEW p \in msg, Announce(p)
      PROVE  HInv'
  <2>1. /\ bpc = "announce" /\ bpc' = "await" /\ newRequest' = {p.topic}
        /\ UNCHANGED <<msg, replyTopic, upc, serving>>
    BY <1>4 DEF Announce
  <2>2. Handled = {} /\ replyTopic = {}
    BY <2>1 DEF HInv, Handshake, Handover
  <2>3. Asked = {p.topic}
    BY DEF HInv, Asked
  <2> QED
    BY <2>1, <2>2, <2>3 DEF HInv, Handshake, Handover, Handled, Asked
<1>5. ASSUME NEW p \in msg, SendReply(p)
      PROVE  HInv'
  <2>1. /\ replyTopic # {} /\ replyTopic' = {} /\ bpc' = "poll"
        /\ UNCHANGED <<msg, newRequest, upc, serving>>
    BY <1>5 DEF SendReply
  <2>2. newRequest = {} /\ Handled = {}
    BY <2>1 DEF HInv, Handshake
  <2> QED
    BY <2>1, <2>2 DEF HInv, Handshake, Handover, Handled, Asked
<1>6. ASSUME BgStop
      PROVE  HInv'
  <2>1. /\ bpc \in {"poll", "await"} /\ bpc' = "stopped"
        /\ UNCHANGED <<msg, newRequest, replyTopic, upc, serving>>
    BY <1>6 DEF BgStop
  <2> QED
    BY <2>1 DEF HInv, Handshake, Handover, Handled, Asked
<1> QED
  BY <1>1, <1>2, <1>3, <1>4, <1>5, <1>6 DEF BgStep

(* The program takes the announcement, and gives a reply in its place.     *)
LEMMA HInvProgram ==
    ASSUME HInv, ServeRequests
    PROVE  HInv'
<1> USE DEF netVars, clientVars, topicVars, dedupVars, bgVars, userVars, hist
<1>1. ASSUME WaitForRequest
      PROVE  HInv'
  <2>1. PICK t \in newRequest : \E of : serving' = {[topic |-> t, of |-> of]}
    BY <1>1 DEF WaitForRequest
  <2>2. newRequest' = {} /\ UNCHANGED <<bpc, msg, replyTopic>>
    BY <1>1 DEF WaitForRequest
  <2>3. Handled' = {t}
    BY <2>1 DEF Handled
  <2>4. Handled = {} /\ replyTopic = {} /\ newRequest = Asked /\ bpc \in {"await", "stopped"}
    BY <2>1 DEF HInv, Handshake, Handover
  <2>5. newRequest = {t}
    BY <2>1, <2>4 DEF HInv, Asked
  <2>6. Handover' = Handover /\ Asked' = Asked
    BY <2>2, <2>3, <2>4, <2>5 DEF Handover, Asked
  <2>7. serving' # {}
    BY <2>1
  <2> QED
    BY <2>2, <2>4, <2>6, <2>7 DEF HInv, Handshake
<1>2. ASSUME ReplyPut
      PROVE  HInv'
  <2>1. upc = "reply" /\ UNCHANGED <<bpc, msg, newRequest, replyTopic, serving>>
    BY <1>2 DEF ReplyPut
  <2> QED
    BY <2>1 DEF HInv, Handshake, Handover, Handled, Asked
<1>3. ASSUME ReplyFlag
      PROVE  HInv'
  <2>1. /\ upc = "flag" /\ replyTopic' = Handled /\ serving' = {} /\ upc' = "idle"
        /\ UNCHANGED <<bpc, msg, newRequest>>
    BY <1>3 DEF ReplyFlag, Handled
  <2>2. Handled # {}
    BY <2>1 DEF HInv, Handled
  <2>3. newRequest = {} /\ replyTopic = {}
    BY <2>2 DEF HInv, Handshake
  <2>4. Handled' = {} /\ Handover' = Handover /\ Asked' = Asked
    BY <2>1, <2>3 DEF Handover, Handled, Asked
  <2> QED
    BY <2>1, <2>3, <2>4 DEF HInv, Handshake
<1> QED
  BY <1>1, <1>2, <1>3 DEF ServeRequests

(* Every step keeps the invariant.                                         *)
LEMMA HInvNext == HInv /\ [Next]_vars => HInv'
<1> SUFFICES ASSUME HInv, [Next]_vars
             PROVE  HInv'
  OBVIOUS
<1> USE DEF netVars, clientVars, topicVars, dedupVars, bgVars, userVars, hist
<1>1. ASSUME NEW c \in Clients, NEW i \in DOMAIN wire[c], Lose(c, i)
      PROVE  HInv'
  BY <1>1, HInvQuiet DEF Lose, handVars
<1>2. ASSUME NEW c \in Clients, NEW cmd \in Cmds, NEW t \in Topics, NEW resend \in Resend,
             Call(c, cmd, t, resend)
      PROVE  HInv'
  BY <1>2, HInvQuiet DEF Call, handVars
<1>3. ASSUME NEW c \in Clients, ClientStep(c)
      PROVE  HInv'
  <2>1. UNCHANGED handVars
    BY <1>3 DEF ClientStep, StatusReply, StatusTimeout, CallReply, CallTimeout, handVars
  <2> QED
    BY <2>1, HInvQuiet
<1>4. CASE BgStep
  BY <1>4, HInvThread
<1>5. ASSUME NEW t \in Topics, AddTopic(t) \/ PutData(t) \/ PopData(t)
      PROVE  HInv'
  BY <1>5, HInvQuiet DEF AddTopic, PutData, PopData, handVars
<1>6. CASE ServeRequests
  BY <1>6, HInvProgram
<1>7. CASE ResetStartTime
  BY <1>7, HInvQuiet DEF ResetStartTime, handVars
<1>8. CASE Shutdown
  <2>1. upc' = "gone" /\ UNCHANGED <<bpc, msg, newRequest, replyTopic, serving>>
    BY <1>8 DEF Shutdown
  <2> QED
    BY <2>1 DEF HInv, Handshake, Handover, Handled, Asked
<1>9. CASE UNCHANGED vars
  BY <1>9, HInvQuiet DEF vars, handVars
<1>10. PutTopics \subseteq Topics
  BY RequestReplyAssumption
<1> QED
  BY <1>1, <1>2, <1>3, <1>4, <1>5, <1>6, <1>7, <1>8, <1>9, <1>10 DEF Next

(* At most one request is between the two threads, announcements and       *)
(* replies are about the packet the thread waits for, and no wakeup is     *)
(* lost: process_request_, wait_for_request and reply_request.             *)
THEOREM HandshakeHolds == Spec => []Handshake
<1>1. HInv => Handshake
  BY DEF HInv
<1> QED
  BY <1>1, HInvInit, HInvNext, PTL DEF Spec

-----------------------------------------------------------------------------
(* Sequences: a packet leaves the wire, or is put on it; entries are       *)
(* appended to a topic and older ones pruned.                              *)

LEMMA RemoveAtFacts ==
    ASSUME NEW S, NEW s \in Seq(S), NEW i \in DOMAIN s
    PROVE  /\ RemoveAt(s, i) \in Seq(S)
           /\ Len(RemoveAt(s, i)) = Len(s) - 1
           /\ DOMAIN RemoveAt(s, i) = 1 .. Len(s) - 1
           /\ \A j \in 1 .. Len(s) - 1 :
                RemoveAt(s, i)[j] = IF j < i THEN s[j] ELSE s[j + 1]
<1> DEFINE a == SubSeq(s, 1, i - 1)
           b == SubSeq(s, i + 1, Len(s))
<1>1. Len(s) \in Nat /\ i \in 1 .. Len(s)
  BY LenProperties
<1>2. /\ a \in Seq(S) /\ Len(a) = i - 1
      /\ \A j \in 1 .. i - 1 : a[j] = s[j]
  BY <1>1, SubSeqProperties
<1>3. /\ b \in Seq(S) /\ Len(b) = Len(s) - i
      /\ \A j \in 1 .. Len(s) - i : b[j] = s[i + j]
  BY <1>1, SubSeqProperties
<1>4. RemoveAt(s, i) = a \o b
  BY DEF RemoveAt
<1> HIDE DEF a, b
<1>5. /\ a \o b \in Seq(S) /\ Len(a \o b) = Len(a) + Len(b)
      /\ \A j \in 1 .. Len(a) + Len(b) :
           (a \o b)[j] = IF j <= Len(a) THEN a[j] ELSE b[j - Len(a)]
  BY <1>2, <1>3, ConcatProperties
<1>6. Len(a) + Len(b) = Len(s) - 1
  BY <1>1, <1>2, <1>3
<1>7. DOMAIN (a \o b) = 1 .. Len(s) - 1
  BY <1>5, <1>6, LenProperties
<1>8. ASSUME NEW j \in 1 .. Len(s) - 1
      PROVE  (a \o b)[j] = IF j < i THEN s[j] ELSE s[j + 1]
  <2>1. CASE j < i
    BY <2>1, <1>1, <1>2, <1>5, <1>6
  <2>2. CASE ~(j < i)
    <3>1. j - (i - 1) \in 1 .. Len(s) - i /\ i + (j - (i - 1)) = j + 1 /\ ~(j <= i - 1)
      BY <2>2, <1>1
    <3>2. (a \o b)[j] = b[j - (i - 1)]
      BY <3>1, <1>2, <1>5, <1>6
    <3>3. b[j - (i - 1)] = s[j + 1]
      BY <3>1, <1>3
    <3> QED  BY <2>2, <3>2, <3>3
  <2> QED  BY <2>1, <2>2
<1> QED  BY <1>4, <1>5, <1>6, <1>7, <1>8

LEMMA AppendFacts ==
    ASSUME NEW S, NEW q \in Seq(S), NEW e \in S
    PROVE  /\ Append(q, e) \in Seq(S)
           /\ Len(Append(q, e)) = Len(q) + 1
           /\ DOMAIN Append(q, e) = 1 .. Len(q) + 1
           /\ \A i \in 1 .. Len(q) : Append(q, e)[i] = q[i]
           /\ Append(q, e)[Len(q) + 1] = e
<1>1. Append(q, e) \in Seq(S) /\ Len(Append(q, e)) = Len(q) + 1
  BY AppendProperties
<1>2. DOMAIN Append(q, e) = 1 .. Len(q) + 1
  BY <1>1, LenProperties
<1> QED  BY <1>1, <1>2, AppendProperties

(* add_data_ptr keeps the new entry and adds nothing else; on an empty     *)
(* topic it is the only one.                                               *)
LEMMA PushedFacts ==
    ASSUME NEW S, NEW q \in Seq(S), NEW e \in S, NEW r \in Pushed(q, e)
    PROVE  /\ r \in Seq(S)
           /\ \A i \in DOMAIN r : r[i] = e \/ \E j \in DOMAIN q : r[i] = q[j]
           /\ q = <<>> => r = <<e>>
<1> DEFINE a == Append(q, e)
<1>1. /\ a \in Seq(S) /\ Len(a) = Len(q) + 1 /\ DOMAIN a = 1 .. Len(q) + 1
      /\ \A i \in 1 .. Len(q) : a[i] = q[i]
      /\ a[Len(q) + 1] = e
  BY AppendFacts
<1>2. Len(q) \in Nat /\ DOMAIN q = 1 .. Len(q)
  BY LenProperties
<1>3. PICK k \in 1 .. Len(q) + 1 : r = SubSeq(a, k, Len(q) + 1)
  <2>1. PICK k \in IF MayPrune THEN 1 .. Len(q) + 1 ELSE {1} : r = SubSeq(a, k, Len(q) + 1)
    BY DEF Pushed
  <2>2. k \in 1 .. Len(q) + 1
    BY <1>2
  <2> QED  BY <2>1, <2>2
<1> HIDE DEF a
<1>4. /\ r \in Seq(S) /\ Len(r) = Len(q) + 2 - k
      /\ \A i \in 1 .. Len(q) + 2 - k : r[i] = a[k + i - 1]
  BY <1>1, <1>2, <1>3, SubSeqProperties
<1>5. DOMAIN r = 1 .. Len(q) + 2 - k
  BY <1>4, LenProperties
<1>6. \A i \in DOMAIN r : r[i] = e \/ \E j \in DOMAIN q : r[i] = q[j]
  <2> TAKE i \in DOMAIN r
  <2>1. r[i] = a[k + i - 1] /\ k + i - 1 \in 1 .. Len(q) + 1
    BY <1>2, <1>4, <1>5
  <2> QED  BY <2>1, <1>1, <1>2
<1>7. ASSUME q = <<>>  PROVE r = <<e>>
  <2>1. Len(q) = 0 /\ k = 1
    BY <1>7, <1>2
  <2>2. Len(r) = 1 /\ r[1] = e
    BY <2>1, <1>1, <1>4
  <2> QED  BY <2>2, <1>4
<1> QED  BY <1>4, <1>6, <1>7

-----------------------------------------------------------------------------
(* Types.                                                                  *)

\* Every call that has begun has ended, but the one a client is in.
Counted ==
    \A c \in Clients : calls[c] = Len(results[c]) + IF cpc[c] = "idle" THEN 0 ELSE 1

TInv == TypeOK /\ Counted

\* TypeOK, a conjunction for each part of the system.
Result == [cmd : Cmds, how : {"returned", "threw"}, ptrs : Seq(Entry)]

NetTypes ==
    /\ wire \in [Clients -> Seq(Packet)]
    /\ conn \in [Clients -> Nat]
    /\ inbox \in [Clients -> SUBSET Answer]
    /\ \A c \in Clients : \A x, y \in inbox[c] : x = y

ClientTypes ==
    /\ cpc \in [Clients -> {"idle", "status", "send"}]
    /\ call \in [Clients -> [cmd : Cmds, topic : Topics, resend : BOOLEAN]]
    /\ calls \in [Clients -> 0 .. MaxCalls]
    /\ known \in [Clients -> SUBSET Topics]
    /\ retries \in [Clients -> Nat]
    /\ results \in [Clients -> Seq(Result)]
    /\ Counted

TopicTypes ==
    /\ topics \subseteq Topics
    /\ queue \in [Topics -> Seq(Entry)]
    /\ lastTs \in [Topics -> SUBSET Int]
    /\ cached \in [Topics -> SUBSET Answer]
    /\ \A t \in Topics : \A x, y \in cached[t] : x = y

ThreadTypes ==
    /\ newRequest \subseteq Topics
    /\ replyTopic \subseteq Topics
    /\ running \in BOOLEAN
    /\ bpc \in {"poll", "dispatch", "enqueue", "announce", "await", "stopped"}
    /\ msg \subseteq Packet
    /\ upc \in {"idle", "reply", "flag", "gone"}
    /\ serving \subseteq [topic : Topics, of : EntryIds]
    /\ puts \in 0 .. MaxPuts
    /\ resets \in 0 .. MaxResets
    /\ \A S \in {newRequest, replyTopic, msg, serving} : \A x, y \in S : x = y

HistTypes ==
    /\ done \in [Ids -> Nat]
    /\ taken \in [Ids -> Seq(Entry)]

TParts == NetTypes /\ ClientTypes /\ TopicTypes /\ ThreadTypes /\ HistTypes

LEMMA TypeParts == TInv <=> TParts
  BY DEF TInv, TypeOK, TParts, NetTypes, ClientTypes, TopicTypes, ThreadTypes, HistTypes, Result

LEMMA TypePartsNext == TInv' <=> TParts'
  BY DEF TInv, TypeOK, TParts, NetTypes, ClientTypes, TopicTypes, ThreadTypes, HistTypes, Result,
         Counted

LEMMA ConstantTypes ==
    /\ MaxCalls \in Nat /\ MaxPuts \in Nat /\ MaxResets \in Nat /\ MaxRetries \in Nat
    /\ PutTopics \subseteq Topics
    /\ Calls \subseteq Clients \X Cmds \X Topics
    /\ Resend \subseteq BOOLEAN
    /\ Epoch \in [Clients -> Int]
    /\ "server" \notin Clients
  BY RequestReplyAssumption

LEMMA TInvInit == Init => TInv
<1> SUFFICES ASSUME Init PROVE TInv
  OBVIOUS
<1>1. NoCall \in [cmd : Cmds, topic : Topics, resend : BOOLEAN]
  BY RequestReplyAssumption DEF NoCall, Cmds
<1>2. TypeOK
  BY <1>1, ConstantTypes DEF Init, TypeOK
<1>3. Counted
  BY DEF Init, Counted
<1> QED  BY <1>2, <1>3 DEF TInv

\* What holds of a call that is under way.
LEMMA UnderWay ==
    ASSUME TInv, NEW c \in Clients, cpc[c] # "idle"
    PROVE  /\ calls[c] \in 1 .. MaxCalls
           /\ CallId(c) \in Ids
           /\ calls[c] = Len(results[c]) + 1
<1>1. calls[c] = Len(results[c]) + 1 /\ calls[c] \in 0 .. MaxCalls /\ Len(results[c]) \in Nat
  BY LenProperties DEF TInv, TypeOK, Counted
<1> QED  BY <1>1, ConstantTypes DEF CallId, Ids

\* A packet that is sent is a packet.
LEMMA SendType ==
    ASSUME TInv, NEW c \in Clients, NEW k \in Nat, NEW cmd \in Cmds, NEW t \in Topics,
           calls'[c] \in 1 .. MaxCalls, Send(c, k, cmd, t)
    PROVE  wire' \in [Clients -> Seq(Packet)]
<1> DEFINE p == [id |-> <<c, calls'[c]>>, cmd |-> cmd, topic |-> t, conn |-> k]
<1>1. p \in Packet
  BY DEF Packet, Ids
<1>2. wire \in [Clients -> Seq(Packet)] /\ wire' = [wire EXCEPT ![c] = Append(@, p)]
  BY DEF TInv, TypeOK, Send
<1> HIDE DEF p
<1>3. Append(wire[c], p) \in Seq(Packet)
  BY <1>1, <1>2, AppendFacts
<1> QED  BY <1>2, <1>3



LEMMA SendAnswerFacts ==
    ASSUME TParts, NEW p \in Packet, NEW answer, SendAnswer(p, answer)
    PROVE  /\ p.id[1] \in Clients
           /\ conn' = conn
           /\ inbox' = [c \in Clients |-> IF c = p.id[1] /\ p.conn = conn[c] THEN {answer}
                                            ELSE inbox[c]]
<1>1. p.id[1] \in Clients /\ inbox = [c \in Clients |-> inbox[c]]
  BY DEF Packet, Ids, TParts, NetTypes
<1>2. conn' = conn
  BY DEF SendAnswer
<1>3. CASE p.conn = conn[p.id[1]]
  BY <1>1, <1>2, <1>3 DEF SendAnswer
<1>4. CASE p.conn # conn[p.id[1]]
  BY <1>1, <1>2, <1>4 DEF SendAnswer
<1> QED  BY <1>1, <1>2, <1>3, <1>4

LEMMA AnswerType ==
    ASSUME TParts, NEW p \in Packet, NEW answer \in Answer, SendAnswer(p, answer),
           wire' = wire
    PROVE  NetTypes'
<1>1. /\ conn' = conn
      /\ inbox' = [c \in Clients |-> IF c = p.id[1] /\ p.conn = conn[c] THEN {answer}
                                       ELSE inbox[c]]
  BY SendAnswerFacts
<1>2. inbox' \in [Clients -> SUBSET Answer]
  BY <1>1 DEF TParts, NetTypes
<1>3. \A c \in Clients : \A x, y \in inbox'[c] : x = y
  BY <1>1 DEF TParts, NetTypes
<1> QED  BY <1>1, <1>2, <1>3 DEF TParts, NetTypes

LEMMA TInvNet ==
    ASSUME TParts, NEW c \in Clients, NEW i \in DOMAIN wire[c], Lose(c, i) \/ Recv(c, i)
    PROVE  TParts'
<1> USE DEF TParts, netVars, clientVars, topicVars, dedupVars, bgVars, userVars, hist
<1>1. wire[c] \in Seq(Packet) /\ wire[c][i] \in Packet /\ RemoveAt(wire[c], i) \in Seq(Packet)
  BY RemoveAtFacts, ElementOfSeq DEF NetTypes
<1>2. wire' \in [Clients -> Seq(Packet)]
  BY <1>1 DEF NetTypes, Lose, Recv
<1>3. NetTypes' /\ ClientTypes' /\ TopicTypes' /\ HistTypes'
  BY <1>2 DEF Lose, Recv, NetTypes, ClientTypes, TopicTypes, HistTypes, Counted
<1>4. ThreadTypes'
  <2>1. CASE Lose(c, i)
    BY <2>1 DEF ThreadTypes, Lose
  <2>2. CASE Recv(c, i)
    BY <2>2, <1>1 DEF ThreadTypes, Recv
  <2> QED  BY <2>1, <2>2
<1> QED  BY <1>3, <1>4

LEMMA TInvCall ==
    ASSUME TParts, NEW c \in Clients, NEW cmd \in Cmds, NEW t \in Topics, NEW resend \in BOOLEAN,
           Call(c, cmd, t, resend)
    PROVE  TParts'
<1> USE DEF TParts, netVars, clientVars, topicVars, dedupVars, bgVars, userVars, hist
<1>1. /\ calls' \in [Clients -> 0 .. MaxCalls] /\ calls'[c] \in 1 .. MaxCalls
      /\ calls' = [calls EXCEPT ![c] = calls[c] + 1] /\ cpc[c] = "idle"
  BY ConstantTypes DEF ClientTypes, Call
<1>2. "STATUS" \in Cmds /\ "REQUEST" \in Cmds
  BY DEF Cmds
<1>3. wire' \in [Clients -> Seq(Packet)]
  <2>1. conn[c] \in Nat
    BY DEF NetTypes
  <2>2. TInv
    BY TypeParts
  <2> QED  BY <1>1, <1>2, <2>1, <2>2, SendType DEF Call
<1>4. NetTypes' /\ TopicTypes' /\ ThreadTypes' /\ HistTypes'
  BY <1>3 DEF Call, NetTypes, TopicTypes, ThreadTypes, HistTypes
<1>5. /\ cpc' \in [Clients -> {"idle", "status", "send"}] /\ cpc'[c] # "idle"
      /\ \A d \in Clients \ {c} : cpc'[d] = cpc[d]
  BY DEF Call, ClientTypes
<1>6. /\ call' \in [Clients -> [cmd : Cmds, topic : Topics, resend : BOOLEAN]]
      /\ UNCHANGED <<known, retries, results>>
  BY DEF Call, ClientTypes
<1>7. Counted'
  <2> SUFFICES ASSUME NEW d \in Clients
               PROVE  calls'[d] = Len(results'[d]) + IF cpc'[d] = "idle" THEN 0 ELSE 1
    BY DEF Counted
  <2>1. calls[d] = Len(results[d]) + IF cpc[d] = "idle" THEN 0 ELSE 1
    BY DEF ClientTypes, Counted
  <2>2. calls \in [Clients -> 0 .. MaxCalls] /\ Len(results[d]) \in Nat
    BY LenProperties DEF ClientTypes
  <2>3. CASE d = c
    BY <1>1, <1>5, <1>6, <2>1, <2>2, <2>3
  <2>4. CASE d # c
    BY <1>1, <1>5, <1>6, <2>1, <2>2, <2>4
  <2> QED  BY <2>3, <2>4
<1> QED  BY <1>1, <1>4, <1>5, <1>6, <1>7 DEF ClientTypes

\* The history of a call that ends.
LEMMA FinishType ==
    ASSUME TInv, NEW c \in Clients, cpc[c] # "idle", NEW how \in {"returned", "threw"},
           NEW ptrs \in Seq(Entry), Finish(c, how, ptrs), calls' = calls
    PROVE  /\ results' \in [Clients -> Seq([cmd : Cmds, how : {"returned", "threw"},
                                             ptrs : Seq(Entry)])]
           /\ cpc' = [cpc EXCEPT ![c] = "idle"]
           /\ Counted'
<1> DEFINE res == [cmd |-> call[c].cmd, how |-> how, ptrs |-> ptrs]
           R == [cmd : Cmds, how : {"returned", "threw"}, ptrs : Seq(Entry)]
<1>1. res \in R /\ results \in [Clients -> Seq(R)] /\ results' = [results EXCEPT ![c] = Append(@, res)]
  BY DEF TInv, TypeOK, Finish
<1> HIDE DEF res, R
<1>2. Append(results[c], res) \in Seq(R) /\ Len(Append(results[c], res)) = Len(results[c]) + 1
  BY <1>1, AppendFacts
<1>3. cpc' = [cpc EXCEPT ![c] = "idle"] /\ cpc \in [Clients -> {"idle", "status", "send"}]
  BY DEF Finish, TInv, TypeOK
<1>4. Counted'
  <2> SUFFICES ASSUME NEW d \in Clients
               PROVE  calls'[d] = Len(results'[d]) + IF cpc'[d] = "idle" THEN 0 ELSE 1
    BY DEF Counted
  <2>1. CASE d = c
    <3>1. calls[c] = Len(results[c]) + 1 /\ Len(results[c]) \in Nat
      BY <1>1, LenProperties DEF TInv, Counted
    <3>2. Len(results'[c]) = Len(results[c]) + 1 /\ cpc'[c] = "idle"
      BY <1>1, <1>2, <1>3
    <3> QED  BY <2>1, <3>1, <3>2
  <2>2. CASE d # c
    BY <2>2, <1>1, <1>3 DEF TInv, Counted
  <2> QED  BY <2>1, <2>2
<1> QED  BY <1>1, <1>2, <1>3, <1>4 DEF R

\* The program continues a call with its second packet, or ends it.
LEMMA StatusType ==
    ASSUME TInv, NEW c \in Clients, cpc[c] = "status", NEW k \in Nat, NEW exists \in BOOLEAN,
           AfterStatus(c, k, exists), calls' = calls
    PROVE  /\ wire' \in [Clients -> Seq(Packet)]
           /\ cpc' \in [Clients -> {"idle", "status", "send"}]
           /\ known' \in [Clients -> SUBSET Topics]
           /\ results' \in [Clients -> Seq([cmd : Cmds, how : {"returned", "threw"},
                                             ptrs : Seq(Entry)])]
           /\ Counted'
<1>1. calls[c] \in 1 .. MaxCalls /\ call[c] \in [cmd : Cmds, topic : Topics, resend : BOOLEAN]
      /\ cpc \in [Clients -> {"idle", "status", "send"}] /\ "REQUEST" \in Cmds
  BY UnderWay DEF TInv, TypeOK, Cmds
<1>2. known' \in [Clients -> SUBSET Topics]
  BY <1>1 DEF AfterStatus, TInv, TypeOK
<1>3. CASE call[c].cmd = "STATUS"
  <2>1. <<>> \in Seq(Entry)
    BY EmptySeq
  <2>2. Finish(c, "returned", <<>>) /\ UNCHANGED wire
    BY <1>3 DEF AfterStatus
  <2>3. wire' \in [Clients -> Seq(Packet)]
    BY <2>2 DEF TInv, TypeOK
  <2>4. cpc' = [cpc EXCEPT ![c] = "idle"]
    BY <2>2 DEF Finish
  <2> QED  BY <1>1, <1>2, <2>1, <2>2, <2>3, <2>4, FinishType
<1>4. CASE call[c].cmd # "STATUS"
  <2>1. wire' \in [Clients -> Seq(Packet)]
    BY <1>1, <1>4, SendType DEF AfterStatus
  <2>2. cpc' = [cpc EXCEPT ![c] = "send"] /\ results' = results
    BY <1>4 DEF AfterStatus
  <2>3. Counted'
    BY <2>2, <1>1 DEF TInv, Counted
  <2> QED  BY <1>1, <1>2, <2>1, <2>2, <2>3 DEF TInv, TypeOK
<1> QED  BY <1>3, <1>4

LEMMA TInvReturn ==
    ASSUME TParts, NEW c \in Clients, StatusReply(c) \/ CallReply(c)
    PROVE  TParts'
<1> USE DEF TParts, netVars, clientVars, topicVars, dedupVars, bgVars, userVars, hist
<1>1. TInv
  BY TypeParts
<1>2. TopicTypes' /\ ThreadTypes' /\ HistTypes'
  BY DEF StatusReply, CallReply, TopicTypes, ThreadTypes, HistTypes
<1>3. inbox' = [inbox EXCEPT ![c] = {}] /\ UNCHANGED <<conn, calls, call, retries>>
  BY DEF StatusReply, CallReply
<1>4. ASSUME NEW r \in inbox[c], cpc[c] = "status", AfterStatus(c, conn[c], r.cmd = "STATUS")
      PROVE  NetTypes' /\ ClientTypes'
  <2>1. conn[c] \in Nat
    BY DEF NetTypes
  <2>2. /\ wire' \in [Clients -> Seq(Packet)]
        /\ cpc' \in [Clients -> {"idle", "status", "send"}]
        /\ known' \in [Clients -> SUBSET Topics]
        /\ results' \in [Clients -> Seq(Result)]
        /\ Counted'
    BY <1>1, <1>3, <1>4, <2>1, StatusType DEF Result
  <2>3. NetTypes'
    <3>1. inbox' \in [Clients -> SUBSET Answer] /\ \A d \in Clients : \A x, y \in inbox'[d] : x = y
      BY <1>3 DEF NetTypes
    <3>2. conn' \in [Clients -> Nat]
      BY <1>3 DEF NetTypes
    <3> QED  BY <2>2, <3>1, <3>2 DEF NetTypes
  <2>4. ClientTypes'
    BY <1>3, <2>2 DEF ClientTypes
  <2> QED  BY <2>3, <2>4
<1>5. ASSUME NEW r \in inbox[c], NEW how \in {"returned", "threw"}, NEW ptrs \in Seq(Entry),
             cpc[c] = "send", Finish(c, how, ptrs), UNCHANGED <<wire, known>>
      PROVE  NetTypes' /\ ClientTypes'
  <2>1. /\ results' \in [Clients -> Seq(Result)]
        /\ cpc' = [cpc EXCEPT ![c] = "idle"]
        /\ Counted'
    BY <1>1, <1>3, <1>5, FinishType DEF Result
  <2> QED  BY <1>3, <1>5, <2>1 DEF NetTypes, ClientTypes
<1>6. CASE StatusReply(c)
  BY <1>2, <1>4, <1>6 DEF StatusReply
<1>7. CASE CallReply(c)
  <2>1. PICK r \in inbox[c] :
          LET good == /\ r.cmd = call[c].cmd
                      /\ r.topic = call[c].topic
                      /\ r.cmd = "REQUEST" => Len(r.ptrs) = 1
          IN  Finish(c, IF good THEN "returned" ELSE "threw", IF good THEN r.ptrs ELSE <<>>)
    BY <1>7 DEF CallReply
  <2>2. r.ptrs \in Seq(Entry) /\ <<>> \in Seq(Entry)
    BY EmptySeq DEF NetTypes, Answer
  <2>3. cpc[c] = "send" /\ UNCHANGED <<wire, known>>
    BY <1>7 DEF CallReply
  <2> DEFINE good == /\ r.cmd = call[c].cmd
                     /\ r.topic = call[c].topic
                     /\ r.cmd = "REQUEST" => Len(r.ptrs) = 1
  <2>4. CASE good
    BY <1>2, <1>5, <2>1, <2>2, <2>3, <2>4
  <2>5. CASE ~good
    BY <1>2, <1>5, <2>1, <2>2, <2>3, <2>5
  <2> QED  BY <2>4, <2>5
<1> QED  BY <1>6, <1>7

LEMMA TInvTimeout ==
    ASSUME TParts, NEW c \in Clients, StatusTimeout(c) \/ CallTimeout(c)
    PROVE  TParts'
<1> USE DEF TParts, netVars, clientVars, topicVars, dedupVars, bgVars, userVars, hist
<1>1. TInv /\ <<>> \in Seq(Entry)
  BY TypeParts, EmptySeq
<1>2. TopicTypes' /\ ThreadTypes' /\ HistTypes'
  BY DEF StatusTimeout, CallTimeout, TopicTypes, ThreadTypes, HistTypes
<1>3. /\ inbox' = [inbox EXCEPT ![c] = {}] /\ conn' = [conn EXCEPT ![c] = @ + 1]
      /\ UNCHANGED <<calls, call>> /\ conn[c] + 1 \in Nat /\ cpc[c] # "idle"
  <2>1. conn[c] + 1 \in Nat
    BY DEF NetTypes
  <2>2. CASE StatusTimeout(c)
    BY <2>1, <2>2 DEF StatusTimeout, Reconnect
  <2>3. CASE CallTimeout(c)
    BY <2>1, <2>3 DEF CallTimeout, Reconnect
  <2> QED  BY <2>2, <2>3
<1>4. inbox' \in [Clients -> SUBSET Answer] /\ conn' \in [Clients -> Nat]
      /\ \A d \in Clients : \A x, y \in inbox'[d] : x = y
  BY <1>3 DEF NetTypes
<1>5. retries' \in [Clients -> Nat]
  <2>1. retries[c] + 1 \in Nat /\ retries \in [Clients -> Nat]
    BY DEF ClientTypes
  <2>2. retries' = [retries EXCEPT ![c] = @ + 1] \/ retries' = retries
    BY DEF StatusTimeout, CallTimeout
  <2> QED  BY <2>1, <2>2
<1>6. ASSUME Finish(c, "threw", <<>>), UNCHANGED <<wire, known>>
      PROVE  NetTypes' /\ ClientTypes'
  <2>1. /\ results' \in [Clients -> Seq(Result)]
        /\ cpc' = [cpc EXCEPT ![c] = "idle"]
        /\ Counted'
    BY <1>1, <1>3, <1>6, FinishType DEF Result
  <2> QED  BY <1>3, <1>4, <1>5, <1>6, <2>1 DEF NetTypes, ClientTypes
<1>7. ASSUME cpc[c] = "status", AfterStatus(c, conn[c] + 1, FALSE)
      PROVE  NetTypes' /\ ClientTypes'
  <2>1. /\ wire' \in [Clients -> Seq(Packet)]
        /\ cpc' \in [Clients -> {"idle", "status", "send"}]
        /\ known' \in [Clients -> SUBSET Topics]
        /\ results' \in [Clients -> Seq(Result)]
        /\ Counted'
    BY <1>1, <1>3, <1>7, StatusType DEF Result
  <2> QED  BY <1>3, <1>4, <1>5, <2>1 DEF NetTypes, ClientTypes
<1>8. ASSUME Send(c, conn[c] + 1, call[c].cmd, call[c].topic), UNCHANGED <<cpc, results, known>>
      PROVE  NetTypes' /\ ClientTypes'
  <2>1. call[c].cmd \in Cmds /\ call[c].topic \in Topics /\ calls'[c] \in 1 .. MaxCalls
    BY <1>1, <1>3, UnderWay DEF ClientTypes
  <2>2. wire' \in [Clients -> Seq(Packet)]
    BY <1>1, <1>3, <1>8, <2>1, SendType
  <2>3. ClientTypes'
    BY <1>3, <1>5, <1>8 DEF ClientTypes, Counted
  <2> QED  BY <1>4, <2>2, <2>3 DEF NetTypes
<1>9. CASE StatusTimeout(c)
  BY <1>2, <1>6, <1>7, <1>9 DEF StatusTimeout
<1>10. CASE CallTimeout(c)
  BY <1>2, <1>6, <1>8, <1>10 DEF CallTimeout
<1> QED  BY <1>9, <1>10

LEMMA EntryTypes ==
    ASSUME TParts, NEW t \in Topics, NEW e \in Entry, NEW q \in Pushed(queue[t], e)
    PROVE  [queue EXCEPT ![t] = q] \in [Topics -> Seq(Entry)]
<1>1. queue[t] \in Seq(Entry)
  BY DEF TParts, TopicTypes
<1>2. q \in Seq(Entry)
  BY <1>1, PushedFacts
<1> QED  BY <1>2 DEF TParts, TopicTypes

LEMMA TInvAnswer ==
    ASSUME TParts, NEW p \in msg, NoTopic(p) \/ AnswerAgain(p)
    PROVE  TParts'
<1> USE DEF TParts, netVars, clientVars, topicVars, dedupVars, bgVars, userVars, hist
<1>1. p \in Packet /\ p.topic \in Topics /\ p.cmd \in Cmds
  BY DEF ThreadTypes, Packet
<1>2. TopicTypes' /\ ThreadTypes' /\ HistTypes' /\ ClientTypes' /\ wire' = wire
  <2>1. UNCHANGED <<wire, clientVars, topicVars, dedupVars, newRequest, replyTopic, running,
                    msg, userVars, hist>> /\ bpc' = "poll"
    BY DEF NoTopic, AnswerAgain
  <2> QED  BY <2>1 DEF TopicTypes, ThreadTypes, HistTypes, ClientTypes, Counted
<1>3. \E r \in Answer : SendAnswer(p, r)
  <2>1. CASE NoTopic(p)
    <3> DEFINE r == [cmd |-> IF p.cmd = "STATUS" THEN "ABSENT" ELSE "ERROR",
                      topic |-> p.topic, ptrs |-> <<>>]
    <3>1. r \in Answer
      BY <1>1, EmptySeq DEF Answer
    <3>2. SendAnswer(p, r)
      BY <2>1 DEF NoTopic
    <3> QED  BY <3>1, <3>2
  <2>2. CASE AnswerAgain(p)
    BY <1>1, <2>2 DEF AnswerAgain, TopicTypes
  <2> QED  BY <2>1, <2>2
<1>4. NetTypes'
  BY <1>1, <1>2, <1>3, AnswerType
<1> QED  BY <1>2, <1>4

LEMMA TInvServe ==
    ASSUME TParts, NEW p \in msg, Serve(p)
    PROVE  TParts'
<1> USE DEF TParts, netVars, clientVars, topicVars, dedupVars, bgVars, userVars, hist
<1>1. p \in Packet /\ p.topic \in Topics /\ p.cmd \in Cmds /\ p.id \in Ids
  BY DEF ThreadTypes, Packet
<1>2. ThreadTypes' /\ ClientTypes' /\ wire' = wire
  BY DEF Serve, ThreadTypes, ClientTypes, Counted
<1>3. queue[p.topic] \in Seq(Entry) /\ <<>> \in Seq(Entry)
  BY <1>1, EmptySeq DEF TopicTypes
<1>4. NetTypes'
  <2> DEFINE r == [cmd |-> p.cmd, topic |-> p.topic,
                    ptrs |-> IF p.cmd \in {"PEEK", "POP"} THEN queue[p.topic] ELSE <<>>]
  <2>1. r \in Answer
    BY <1>1, <1>3 DEF Answer
  <2>2. SendAnswer(p, r)
    BY DEF Serve
  <2> HIDE DEF r
  <2> QED  BY <1>1, <1>2, <2>1, <2>2, AnswerType
<1>5. TopicTypes'
  <2> DEFINE e == [by |-> "PUT", of |-> p.id]
  <2>1. e \in Entry
    BY <1>1 DEF Entry, EntryIds
  <2>2. PICK q : /\ queue' = [queue EXCEPT ![p.topic] = q]
                 /\ q \in CASE p.cmd = "POP" -> {<<>>}
                            [] p.cmd = "PUT" -> Pushed(queue[p.topic], e)
                            [] OTHER -> {queue[p.topic]}
    BY DEF Serve
  <2> HIDE DEF e
  <2>3. q \in Seq(Entry)
    <3>1. CASE p.cmd = "POP"
      BY <3>1, <1>3, <2>2
    <3>2. CASE p.cmd = "PUT"
      BY <3>2, <1>3, <2>1, <2>2, PushedFacts
    <3>3. CASE p.cmd # "POP" /\ p.cmd # "PUT"
      BY <3>3, <1>3, <2>2
    <3> QED  BY <3>1, <3>2, <3>3
  <2>4. UNCHANGED <<topics, lastTs, cached>>
    BY DEF Serve
  <2> QED  BY <2>2, <2>3, <2>4 DEF TopicTypes
<1>6. HistTypes'
  <2>1. done' \in [Ids -> Nat]
    BY DEF Serve, Took, HistTypes
  <2>2. taken[p.id] \o queue[p.topic] \in Seq(Entry)
    BY <1>1, <1>3, ConcatProperties DEF HistTypes
  <2>3. taken' \in [Ids -> Seq(Entry)]
    BY <2>2 DEF Serve, HistTypes
  <2> QED  BY <2>1, <2>3 DEF HistTypes
<1> QED  BY <1>2, <1>4, <1>5, <1>6

LEMMA TInvRequest ==
    ASSUME TParts, NEW p \in msg, RecordRequest(p) \/ EnqueueRequest(p) \/ Announce(p)
    PROVE  TParts'
<1> USE DEF TParts, netVars, clientVars, topicVars, dedupVars, bgVars, userVars, hist
<1>1. p \in Packet /\ p.topic \in Topics /\ p.id \in Ids
  BY DEF ThreadTypes, Packet
<1>2. ClientTypes' /\ NetTypes' /\ HistTypes'
  BY DEF RecordRequest, EnqueueRequest, Announce, ClientTypes, Counted, NetTypes, HistTypes
<1>3. ThreadTypes'
  BY <1>1 DEF RecordRequest, EnqueueRequest, Announce, ThreadTypes
<1>4. CASE RecordRequest(p)
  <2>1. Stamp(p) \in Int
    BY <1>1, ConstantTypes DEF Stamp, Ids
  <2>2. lastTs' \in [Topics -> SUBSET Int]
    BY <1>4, <2>1 DEF RecordRequest, TopicTypes
  <2>3. cached' \in [Topics -> SUBSET Answer] /\ \A t \in Topics : \A x, y \in cached'[t] : x = y
    BY <1>4 DEF RecordRequest, TopicTypes
  <2>4. UNCHANGED <<topics, queue>>
    BY <1>4 DEF RecordRequest
  <2> QED  BY <1>2, <1>3, <2>2, <2>3, <2>4 DEF TopicTypes
<1>5. CASE EnqueueRequest(p)
  <2>1. [by |-> "REQUEST", of |-> p.id] \in Entry
    BY <1>1 DEF Entry, EntryIds
  <2>2. queue' \in [Topics -> Seq(Entry)]
    <3> DEFINE e == [by |-> "REQUEST", of |-> p.id]
    <3>1. \E q \in Pushed(queue[p.topic], e) : queue' = [queue EXCEPT ![p.topic] = q]
      BY <1>5 DEF EnqueueRequest
    <3>2. e \in Entry
      BY <2>1
    <3> HIDE DEF e
    <3>3. PICK q \in Pushed(queue[p.topic], e) : queue' = [queue EXCEPT ![p.topic] = q]
      BY <3>1
    <3>4. [queue EXCEPT ![p.topic] = q] \in [Topics -> Seq(Entry)]
      BY <1>1, <3>2, <3>3, EntryTypes
    <3> QED  BY <3>3, <3>4
  <2> QED  BY <1>2, <1>3, <1>5, <2>2 DEF EnqueueRequest, TopicTypes
<1>6. CASE Announce(p)
  BY <1>2, <1>3, <1>6 DEF Announce, TopicTypes
<1> QED  BY <1>4, <1>5, <1>6

LEMMA TInvSendReply ==
    ASSUME TParts, NEW p \in msg, SendReply(p)
    PROVE  TParts'
<1> USE DEF TParts, netVars, clientVars, topicVars, dedupVars, bgVars, userVars, hist
<1> DEFINE r == [cmd |-> "REQUEST", topic |-> p.topic, ptrs |-> queue[p.topic]]
<1>1. p \in Packet /\ p.topic \in Topics
  BY DEF ThreadTypes, Packet
<1>2. ClientTypes' /\ HistTypes' /\ ThreadTypes' /\ wire' = wire
  BY DEF SendReply, ClientTypes, Counted, HistTypes, ThreadTypes
<1>3. r \in Answer
  BY <1>1 DEF TopicTypes, Answer, Cmds
<1>4. SendAnswer(p, r) /\ cached' = [cached EXCEPT ![p.topic] = {r}]
  BY DEF SendReply
<1> HIDE DEF r
<1>5. NetTypes'
  BY <1>1, <1>2, <1>3, <1>4, AnswerType
<1>6. queue' \in [Topics -> Seq(Entry)] /\ UNCHANGED <<topics, lastTs>>
  <2>1. <<>> \in Seq(Entry)
    BY EmptySeq
  <2> QED  BY <2>1 DEF SendReply, TopicTypes
<1>7. cached' \in [Topics -> SUBSET Answer] /\ \A t \in Topics : \A x, y \in cached'[t] : x = y
  <2>1. cached \in [Topics -> SUBSET Answer] /\ \A t \in Topics : \A x, y \in cached[t] : x = y
    BY DEF TopicTypes
  <2>2. {r} \in SUBSET Answer
    BY <1>3
  <2>3. cached' \in [Topics -> SUBSET Answer]
    BY <1>4, <2>1, <2>2
  <2>4. \A t \in Topics : cached'[t] = cached[t] \/ cached'[t] = {r}
    BY <1>4, <2>1
  <2> QED  BY <2>1, <2>3, <2>4
<1>8. TopicTypes'
  BY <1>6, <1>7 DEF TopicTypes
<1> QED  BY <1>2, <1>5, <1>8

LEMMA TInvTopic ==
    ASSUME TParts, NEW t \in Topics, AddTopic(t) \/ PutData(t) \/ PopData(t)
    PROVE  TParts'
<1> USE DEF TParts, netVars, clientVars, topicVars, dedupVars, bgVars, userVars, hist
<1>1. ClientTypes' /\ HistTypes' /\ NetTypes' /\ UNCHANGED <<lastTs, cached>>
  BY DEF AddTopic, PutData, PopData, ClientTypes, Counted, HistTypes, NetTypes
<1>2. ThreadTypes'
  BY ConstantTypes DEF AddTopic, PutData, PopData, ThreadTypes
<1>3. topics' \subseteq Topics
  BY DEF AddTopic, PutData, PopData, TopicTypes
<1>4. queue' \in [Topics -> Seq(Entry)]
  <2>1. CASE AddTopic(t)
    BY <2>1 DEF AddTopic, TopicTypes
  <2>2. CASE PutData(t)
    <3>1. puts' \in 0 .. MaxPuts
      BY <1>2 DEF ThreadTypes
    <3>2. [by |-> "server", of |-> <<"server", puts'>>] \in Entry
      BY <3>1 DEF Entry, EntryIds
    <3> QED  BY <2>2, <3>2, EntryTypes DEF PutData
  <2>3. CASE PopData(t)
    <3>1. <<>> \in Seq(Entry)
      BY EmptySeq
    <3> QED  BY <2>3, <3>1 DEF PopData, TopicTypes
  <2> QED  BY <2>1, <2>2, <2>3
<1> QED  BY <1>1, <1>2, <1>3, <1>4 DEF TopicTypes

LEMMA TInvServing ==
    ASSUME TParts, ServeRequests
    PROVE  TParts'
<1> USE DEF TParts, netVars, clientVars, topicVars, dedupVars, bgVars, userVars, hist
<1>1. ClientTypes' /\ NetTypes' /\ UNCHANGED <<topics, lastTs, cached>>
  BY DEF ServeRequests, WaitForRequest, ReplyPut, ReplyFlag, ClientTypes, Counted, NetTypes
<1>2. CASE WaitForRequest
  <2>1. PICK t \in newRequest :
          LET of == IF queue[t] = <<>> THEN NoId ELSE Head(queue[t]).of
          IN  /\ serving' = {[topic |-> t, of |-> of]}
              /\ queue' = [queue EXCEPT ![t] = <<>>]
              /\ IF queue[t] # <<>> /\ Head(queue[t]).by = "REQUEST"
                   THEN Took(of) ELSE UNCHANGED done
    BY <1>2 DEF WaitForRequest
  <2> DEFINE of == IF queue[t] = <<>> THEN NoId ELSE Head(queue[t]).of
  <2>2. t \in Topics /\ queue[t] \in Seq(Entry) /\ <<>> \in Seq(Entry)
    BY EmptySeq DEF ThreadTypes, TopicTypes
  <2>3. of \in EntryIds
    <3>1. NoId \in EntryIds
      BY ConstantTypes DEF NoId, EntryIds
    <3>2. CASE queue[t] = <<>>
      BY <3>1, <3>2
    <3>3. CASE queue[t] # <<>>
      <4>1. Head(queue[t]) \in Entry
        BY <2>2, <3>3, HeadTailProperties
      <4> QED  BY <3>3, <4>1 DEF Entry
    <3> QED  BY <3>2, <3>3
  <2>4. done' \in [Ids -> Nat] /\ taken' = taken
    BY <1>2, <2>1 DEF Took, HistTypes, WaitForRequest
  <2>5. queue' \in [Topics -> Seq(Entry)]
    BY <2>1, <2>2 DEF TopicTypes
  <2>6. serving' \subseteq [topic : Topics, of : EntryIds] /\ \A x, y \in serving' : x = y
    BY <2>1, <2>2, <2>3
  <2>7. newRequest' = {} /\ upc' = "reply"
        /\ UNCHANGED <<replyTopic, running, bpc, msg, puts, resets>>
    BY <1>2 DEF WaitForRequest
  <2>8. ThreadTypes'
    BY <2>6, <2>7 DEF ThreadTypes
  <2> QED  BY <1>1, <2>4, <2>5, <2>8 DEF TopicTypes, HistTypes
<1>3. CASE ReplyPut
  <2>1. PICK s \in serving : \E q \in Pushed(queue[s.topic], [by |-> "reply", of |-> s.of]) :
          queue' = [queue EXCEPT ![s.topic] = q]
    BY <1>3 DEF ReplyPut
  <2>2. s.topic \in Topics /\ [by |-> "reply", of |-> s.of] \in Entry
    BY DEF ThreadTypes, Entry
  <2>3. queue' \in [Topics -> Seq(Entry)]
    BY <2>1, <2>2, EntryTypes
  <2>4. ThreadTypes' /\ HistTypes'
    BY <1>3 DEF ReplyPut, ThreadTypes, HistTypes
  <2> QED  BY <1>1, <2>3, <2>4 DEF TopicTypes
<1>4. CASE ReplyFlag
  <2>1. ThreadTypes' /\ HistTypes' /\ queue' = queue
    BY <1>4 DEF ReplyFlag, ThreadTypes, HistTypes
  <2> QED  BY <1>1, <2>1 DEF TopicTypes
<1> QED  BY <1>2, <1>3, <1>4 DEF ServeRequests

LEMMA TInvRest ==
    ASSUME TParts, BgStop \/ ResetStartTime \/ Shutdown \/ UNCHANGED vars
    PROVE  TParts'
<1> USE DEF TParts, netVars, clientVars, topicVars, dedupVars, bgVars, userVars, hist, vars
<1>1. ClientTypes' /\ NetTypes' /\ HistTypes'
  BY DEF BgStop, ResetStartTime, Shutdown, ClientTypes, Counted, NetTypes, HistTypes
<1>2. ThreadTypes'
  <2>1. CASE ResetStartTime
    <3>1. resets + 1 \in 0 .. MaxResets
      BY <2>1, ConstantTypes DEF ResetStartTime, ThreadTypes
    <3> QED  BY <2>1, <3>1 DEF ResetStartTime, ThreadTypes
  <2>2. CASE BgStop
    BY <2>2 DEF BgStop, ThreadTypes
  <2>3. CASE Shutdown
    BY <2>3 DEF Shutdown, ThreadTypes
  <2>4. CASE UNCHANGED vars
    BY <2>4 DEF ThreadTypes
  <2> QED  BY <2>1, <2>2, <2>3, <2>4
<1>3. TopicTypes'
  <2>1. <<>> \in Seq(Entry)
    BY EmptySeq
  <2> QED  BY <2>1 DEF BgStop, ResetStartTime, Shutdown, TopicTypes
<1> QED  BY <1>1, <1>2, <1>3

LEMMA TInvNext == TInv /\ [Next]_vars => TInv'
<1> SUFFICES ASSUME TParts, [Next]_vars PROVE TParts'
  BY TypeParts, TypePartsNext
<1> USE ConstantTypes
<1>1. ASSUME NEW c \in Clients, NEW i \in DOMAIN wire[c], Lose(c, i) \/ Recv(c, i)
      PROVE  TParts'
  BY <1>1, TInvNet
<1>2. ASSUME NEW c \in Clients, NEW cmd \in Cmds, NEW t \in Topics, NEW resend \in Resend,
             Call(c, cmd, t, resend)
      PROVE  TParts'
  BY <1>2, TInvCall
<1>3. ASSUME NEW c \in Clients, ClientStep(c)
      PROVE  TParts'
  BY <1>3, TInvReturn, TInvTimeout DEF ClientStep
<1>4. CASE BgStep
  BY <1>1, <1>4, TInvAnswer, TInvServe, TInvRequest, TInvSendReply, TInvRest DEF BgStep
<1>5. ASSUME NEW t \in Topics, AddTopic(t) \/ PutData(t) \/ PopData(t)
      PROVE  TParts'
  BY <1>5, TInvTopic
<1> QED  BY <1>1, <1>2, <1>3, <1>4, <1>5, TInvServing, TInvRest DEF Next

(* Every variable stays in its type, and every optional value is one at    *)
(* most: two answers never wait in one socket, the background thread never *)
(* has two packets, and the program never two requests.                    *)
THEOREM CallsTypeCorrect == Spec => []TypeOK
<1>1. TInv => TypeOK
  BY DEF TInv
<1> QED
  BY <1>1, TInvInit, TInvNext, PTL DEF Spec

-----------------------------------------------------------------------------
(* Connections.  On its present connection a client has at most one packet *)
(* under way: on the wire, in the hands of the background thread, or, in   *)
(* the form of its answer, in the inbox; and it is the packet the poll of  *)
(* its present call waits for.                                             *)

\* The command of a call that has begun.
CmdOf(id) ==
    IF id[2] <= Len(results[id[1]]) THEN results[id[1]][id[2]].cmd ELSE call[id[1]].cmd

\* What the present poll of c waits for.
Expected(c) == IF cpc[c] = "status" THEN "STATUS" ELSE call[c].cmd

\* The packet is of a call there was.
Sent(c, p) ==
    /\ p.id[1] = c
    /\ p.id[2] <= calls[c]
    /\ p.conn <= conn[c]
    /\ p.cmd # "STATUS" => p.cmd = CmdOf(p.id) /\ <<c, p.cmd, p.topic>> \in Calls

Live(c, p) == p.id[1] = c /\ p.conn = conn[c]

\* The packet is the one the present poll is about.
Asks(c, p) ==
    /\ cpc[c] # "idle"
    /\ p.id = CallId(c)
    /\ p.cmd = Expected(c)
    /\ p.topic = call[c].topic

\* The call c is in is one it makes, in the poll it has.
Begun(c) ==
    /\ cpc[c] # "idle" => <<c, call[c].cmd, call[c].topic>> \in Calls
    /\ cpc[c] = "status" => call[c].cmd \in {"STATUS", "REQUEST"}
    /\ cpc[c] = "send" => call[c].cmd # "STATUS"

Working == bpc \in {"dispatch", "enqueue", "announce", "await"}
Handling(c) == {p \in msg : Working /\ Live(c, p)}

ConnAt(c) ==
    /\ \A i \in DOMAIN wire[c] : Sent(c, wire[c][i])
    /\ \A i \in DOMAIN wire[c] : Live(c, wire[c][i]) =>
         /\ Asks(c, wire[c][i])
         /\ inbox[c] = {}
         /\ Handling(c) = {}
         /\ \A j \in DOMAIN wire[c] : Live(c, wire[c][j]) => i = j
    /\ \A p \in msg : p.id[1] = c => Sent(c, p)
    /\ \A p \in Handling(c) : Asks(c, p) /\ inbox[c] = {}
    /\ inbox[c] # {} => cpc[c] # "idle"
    /\ Begun(c)

ConnInv == \A c \in Clients : ConnAt(c)

(* A client that does not take part in a step.                             *)
LEMMA ConnFrame ==
    ASSUME NEW c, ConnAt(c),
           wire'[c] = wire[c], conn'[c] = conn[c], inbox'[c] = inbox[c], cpc'[c] = cpc[c],
           call'[c] = call[c], calls'[c] = calls[c], results'[c] = results[c],
           Handling(c)' \subseteq Handling(c),
           \A p \in msg' : p.id[1] = c => Sent(c, p)
    PROVE  ConnAt(c)'
<1>1. ASSUME NEW p, Sent(c, p)
      PROVE  Sent(c, p)'
  BY <1>1 DEF Sent, CmdOf
<1>2. ASSUME NEW p
      PROVE  (Live(c, p) <=> Live(c, p)') /\ (Asks(c, p) <=> Asks(c, p)')
  BY DEF Live, Asks, CallId, Expected
<1>3. (\A i \in DOMAIN wire[c] : Sent(c, wire[c][i]))'
  BY <1>1 DEF ConnAt
<1> QED  BY <1>1, <1>2, <1>3 DEF ConnAt, Begun

(* The command of a call is settled when it begins.                        *)
LEMMA CmdKept ==
    ASSUME TInv, NEW c \in Clients, NEW id \in Ids, id[1] = c, id[2] <= calls[c],
           \/ UNCHANGED <<call, calls, results>>
           \/ \E cmd \in Cmds, t \in Topics, resend \in Resend : Call(c, cmd, t, resend)
           \/ /\ cpc[c] # "idle"
              /\ calls' = calls /\ call' = call
              /\ \E how, ptrs : Finish(c, how, ptrs)
    PROVE  /\ CmdOf(id)' = CmdOf(id)
           /\ calls[c] <= calls'[c]
<1>1. /\ calls[c] = Len(results[c]) + IF cpc[c] = "idle" THEN 0 ELSE 1
      /\ Len(results[c]) \in Nat /\ id[2] \in Nat /\ results \in [Clients -> Seq(Result)]
      /\ calls \in [Clients -> 0 .. MaxCalls]
  <2>1. results \in [Clients -> Seq(Result)] /\ calls \in [Clients -> 0 .. MaxCalls]
    BY DEF TInv, TypeOK, Result
  <2>2. Len(results[c]) \in Nat
    BY <2>1, LenProperties
  <2> QED  BY <2>1, <2>2 DEF TInv, Counted, Ids
<1>2. CASE UNCHANGED <<call, calls, results>>
  BY <1>1, <1>2, ConstantTypes DEF CmdOf
<1>3. CASE \E cmd \in Cmds, t \in Topics, resend \in Resend : Call(c, cmd, t, resend)
  <2>1. calls' = [calls EXCEPT ![c] = @ + 1] /\ results' = results /\ cpc[c] = "idle"
    BY <1>3 DEF Call
  <2>2. id[2] <= Len(results[c])
    BY <1>1, <2>1
  <2> QED  BY <1>1, <2>1, <2>2, ConstantTypes DEF CmdOf
<1>4. CASE /\ cpc[c] # "idle"
           /\ calls' = calls /\ call' = call
           /\ \E how, ptrs : Finish(c, how, ptrs)
  <2>1. PICK res : res.cmd = call[c].cmd /\ results' = [results EXCEPT ![c] = Append(@, res)]
    BY <1>4 DEF Finish
  <2>2. /\ results'[c] = Append(results[c], res) /\ results[c] \in Seq(Result)
    BY <1>1, <2>1
  <2>3. /\ Len(Append(results[c], res)) = Len(results[c]) + 1
        /\ \A i \in 1 .. Len(results[c]) : Append(results[c], res)[i] = results[c][i]
        /\ Append(results[c], res)[Len(results[c]) + 1] = res
    BY <1>1, <2>2
  <2>4. CASE id[2] <= Len(results[c])
    <3>1. id[2] \in 1 .. Len(results[c]) /\ id[2] <= Len(results[c]) + 1
      BY <1>1, <2>4 DEF Ids
    <3> QED  BY <1>1, <1>4, <2>2, <2>3, <2>4, <3>1, ConstantTypes DEF CmdOf
  <2>5. CASE ~(id[2] <= Len(results[c]))
    <3>1. id[2] = Len(results[c]) + 1
      BY <1>1, <1>4, <2>5
    <3>2. CmdOf(id)' = res.cmd
      BY <2>2, <2>3, <3>1, <1>1 DEF CmdOf
    <3>3. CmdOf(id) = call[c].cmd
      BY <2>5 DEF CmdOf
    <3> QED  BY <1>1, <1>4, <2>1, <3>2, <3>3, ConstantTypes
  <2> QED  BY <2>4, <2>5
<1> QED  BY <1>2, <1>3, <1>4

LEMMA CountTypes ==
    ASSUME TInv, NEW c \in Clients
    PROVE  /\ calls[c] \in Nat /\ calls[c] + 1 \in Nat
           /\ conn[c] \in Nat /\ conn[c] + 1 \in Nat /\ conn[c] + 1 > conn[c]
           /\ Len(results[c]) \in Nat
<1>1. calls[c] \in 0 .. MaxCalls /\ conn[c] \in Nat /\ results[c] \in Seq(Result)
  BY DEF TInv, TypeOK, Result
<1>2. Len(results[c]) \in Nat
  BY <1>1, LenProperties
<1> QED  BY <1>1, <1>2, ConstantTypes

LEMMA SendFacts ==
    ASSUME TInv, NEW c \in Clients, NEW k, NEW cmd, NEW t, Send(c, k, cmd, t)
    PROVE  LET p == [id |-> <<c, calls'[c]>>, cmd |-> cmd, topic |-> t, conn |-> k]
           IN  /\ DOMAIN wire'[c] = 1 .. Len(wire[c]) + 1
               /\ DOMAIN wire[c] = 1 .. Len(wire[c]) /\ Len(wire[c]) \in Nat
               /\ \A i \in DOMAIN wire[c] : wire'[c][i] = wire[c][i]
               /\ wire'[c][Len(wire[c]) + 1] = p
               /\ \A d \in Clients \ {c} : wire'[d] = wire[d]
<1> DEFINE p == [id |-> <<c, calls'[c]>>, cmd |-> cmd, topic |-> t, conn |-> k]
           S == Packet \union {p}
<1>1. wire \in [Clients -> Seq(Packet)] /\ wire' = [wire EXCEPT ![c] = Append(@, p)]
  BY DEF Send, TInv, TypeOK
<1> HIDE DEF p
<1>2. wire[c] \in Seq(S) /\ p \in S
  BY <1>1, SeqMonotonic
<1> HIDE DEF S
<1>3. /\ DOMAIN Append(wire[c], p) = 1 .. Len(wire[c]) + 1
      /\ \A i \in 1 .. Len(wire[c]) : Append(wire[c], p)[i] = wire[c][i]
      /\ Append(wire[c], p)[Len(wire[c]) + 1] = p
  BY <1>2, AppendFacts
<1>4. DOMAIN wire[c] = 1 .. Len(wire[c]) /\ Len(wire[c]) \in Nat
  BY <1>2, LenProperties
<1> QED  BY <1>1, <1>3, <1>4 DEF p

(* What was sent stays so.                                                 *)
LEMMA SentKept ==
    ASSUME TInv, NEW c \in Clients, NEW p \in Packet, Sent(c, p), conn'[c] >= conn[c],
           conn'[c] \in Nat, calls'[c] \in Nat,
           \/ UNCHANGED <<call, calls, results>>
           \/ \E cmd \in Cmds, t \in Topics, resend \in Resend : Call(c, cmd, t, resend)
           \/ /\ cpc[c] # "idle"
              /\ calls' = calls /\ call' = call
              /\ \E how, ptrs : Finish(c, how, ptrs)
    PROVE  Sent(c, p)'
<1>1. p.id \in Ids /\ p.id[1] = c /\ p.id[2] <= calls[c] /\ p.id[2] \in Nat /\ p.conn \in Nat
  BY DEF Packet, Ids, Sent
<1>2. CmdOf(p.id)' = CmdOf(p.id) /\ calls[c] <= calls'[c]
  BY <1>1, CmdKept
<1>3. conn[c] \in Nat /\ calls[c] \in Nat
  BY ConstantTypes DEF TInv, TypeOK
<1>4. p.id[2] <= calls'[c] /\ p.conn <= conn'[c]
  BY <1>1, <1>2, <1>3 DEF Sent
<1> QED  BY <1>1, <1>2, <1>4 DEF Sent

(* A client whose connection carries nothing.                              *)
LEMMA ConnQuiet ==
    ASSUME NEW c,
           (\A i \in DOMAIN wire[c] : Sent(c, wire[c][i]) /\ ~Live(c, wire[c][i]))',
           (\A p \in msg : p.id[1] = c => Sent(c, p))',
           (Handling(c) = {})',
           inbox'[c] = {},
           Begun(c)'
    PROVE  ConnAt(c)'
  BY DEF ConnAt

(* A client that sends a packet on a connection that carries nothing else. *)
LEMMA ConnSend ==
    ASSUME TInv, NEW c \in Clients, NEW cmd, NEW t, NEW k,
           Send(c, k, cmd, t), k = conn'[c],
           (cpc[c] # "idle")', cmd = Expected(c)', t = call'[c].topic,
           Begun(c)',
           calls'[c] \in Nat, conn'[c] \in Nat,
           (cmd # "STATUS" => cmd = CmdOf(CallId(c)))',
           inbox'[c] = {},
           \A i \in DOMAIN wire[c] : ~(wire[c][i].id[1] = c /\ wire[c][i].conn = conn'[c]),
           \A i \in DOMAIN wire[c], p \in Packet : p = wire[c][i] => Sent(c, p)',
           (\A p \in msg : p.id[1] = c => Sent(c, p))',
           (Handling(c) = {})'
    PROVE  ConnAt(c)'
<1>1. PICK n, p :
        /\ n \in DOMAIN wire'[c] /\ wire'[c][n] = p
        /\ \A i \in DOMAIN wire'[c] : i # n => i \in DOMAIN wire[c] /\ wire'[c][i] = wire[c][i]
        /\ p = [id |-> <<c, calls'[c]>>, cmd |-> cmd, topic |-> t, conn |-> k]
  <2> DEFINE q == [id |-> <<c, calls'[c]>>, cmd |-> cmd, topic |-> t, conn |-> k]
             m == Len(wire[c]) + 1
  <2>1. /\ DOMAIN wire'[c] = 1 .. m /\ DOMAIN wire[c] = 1 .. Len(wire[c]) /\ Len(wire[c]) \in Nat
        /\ \A i \in DOMAIN wire[c] : wire'[c][i] = wire[c][i]
        /\ wire'[c][m] = q
    BY SendFacts
  <2>2. \A i \in DOMAIN wire'[c] : i # m => i \in DOMAIN wire[c] /\ wire'[c][i] = wire[c][i]
    BY <2>1
  <2>3. m \in DOMAIN wire'[c]
    BY <2>1
  <2> QED  BY <2>1, <2>2, <2>3
<1>3. p.id[1] = c /\ p.id[2] = calls'[c] /\ p.id = <<c, calls'[c]>> /\ p.cmd = cmd /\ p.topic = t
      /\ p.conn = conn'[c]
  BY <1>1
<1>4. cmd # "STATUS" => cmd = call'[c].cmd
  BY DEF Expected
<1>5. (Sent(c, wire[c][n]))'
  <2>1. p.id = CallId(c)'
    BY <1>3 DEF CallId
  <2>2. (p.cmd # "STATUS" => p.cmd = CmdOf(p.id) /\ <<c, p.cmd, p.topic>> \in Calls)'
    BY <2>1, <1>3, <1>4 DEF Begun
  <2>3. Sent(c, p)'
    BY <2>2, <1>3 DEF Sent
  <2> QED  BY <2>3, <1>1
<1>6. (Asks(c, wire[c][n]))'
  BY <1>1, <1>3 DEF Asks, CallId
<1>7. \A i \in DOMAIN wire[c] : wire[c][i] \in Packet
  BY ElementOfSeq DEF TInv, TypeOK
<1>8. (\A i \in DOMAIN wire[c] : i # n => Sent(c, wire[c][i]) /\ ~Live(c, wire[c][i]))'
  BY <1>1, <1>7 DEF Live
<1> QED  BY <1>5, <1>6, <1>8 DEF ConnAt

LEMMA ConnNet ==
    ASSUME TInv, ConnInv, NEW c \in Clients, NEW i \in DOMAIN wire[c], Lose(c, i) \/ Recv(c, i)
    PROVE  ConnInv'
<1> USE DEF netVars, clientVars, topicVars, dedupVars, bgVars, userVars, hist
<1> SUFFICES ASSUME NEW d \in Clients PROVE ConnAt(d)'
  BY DEF ConnInv
<1>1. /\ wire \in [Clients -> Seq(Packet)] /\ wire' = [wire EXCEPT ![c] = RemoveAt(@, i)]
      /\ UNCHANGED <<conn, inbox, cpc, call, calls, results>>
  BY DEF TInv, TypeOK, Lose, Recv
<1>2. ConnAt(c) /\ ConnAt(d)
  BY DEF ConnInv
<1> DEFINE At(j) == IF j < i THEN j ELSE j + 1
<1>3. /\ \A j \in DOMAIN wire'[c] : At(j) \in DOMAIN wire[c] /\ At(j) # i /\ wire'[c][j] = wire[c][At(j)]
      /\ \A j, k \in DOMAIN wire'[c] : At(j) = At(k) => j = k
  <2>1. /\ Len(wire[c]) \in Nat /\ DOMAIN wire[c] = 1 .. Len(wire[c])
        /\ DOMAIN wire'[c] = 1 .. Len(wire[c]) - 1
        /\ \A j \in 1 .. Len(wire[c]) - 1 :
             wire'[c][j] = IF j < i THEN wire[c][j] ELSE wire[c][j + 1]
    BY <1>1, RemoveAtFacts, LenProperties
  <2> QED  BY <2>1
<1> HIDE DEF At
<1>4. \A p : (Sent(c, p)' <=> Sent(c, p)) /\ (Live(c, p)' <=> Live(c, p)) /\ (Asks(c, p)' <=> Asks(c, p))
  BY <1>1 DEF Sent, Live, Asks, CallId, Expected, CmdOf
<1>5. Begun(c)'
  BY <1>1, <1>2 DEF ConnAt, Begun
<1>6. CASE Lose(c, i)
  <2>1. UNCHANGED <<msg, bpc>>
    BY <1>6 DEF Lose
  <2>2. Handling(c)' = Handling(c) /\ Handling(d)' = Handling(d)
    BY <1>1, <2>1 DEF Handling, Live, Working
  <2>3. CASE d = c
    BY <1>1, <1>2, <1>3, <1>4, <1>5, <2>1, <2>2, <2>3 DEF ConnAt
  <2>4. CASE d # c
    <3>1. wire'[d] = wire[d] /\ \A p \in msg' : p.id[1] = d => Sent(d, p)
      BY <1>1, <1>2, <2>1, <2>4 DEF ConnAt
    <3> QED  BY <1>1, <1>2, <2>2, <3>1, ConnFrame
  <2> QED  BY <2>3, <2>4
<1>7. CASE Recv(c, i)
  <2>1. PICK p : p = wire[c][i] /\ msg' = {p} /\ bpc = "poll"
    BY <1>7 DEF Recv
  <2>2. Sent(c, p) /\ p.id[1] = c
    BY <1>2, <2>1 DEF ConnAt, Sent
  <2>3. CASE d # c
    <3>1. Handling(d)' = {} /\ \A q \in msg' : q.id[1] # d
      BY <2>1, <2>2, <2>3 DEF Handling, Live
    <3> QED  BY <1>1, <1>2, <2>3, <3>1, ConnFrame
  <2>4. CASE d = c /\ Live(c, p)
    <3>1. Asks(c, p) /\ inbox[c] = {} /\ \A j \in DOMAIN wire[c] : Live(c, wire[c][j]) => i = j
      BY <1>2, <2>1, <2>4 DEF ConnAt
    <3>2. (\A j \in DOMAIN wire[c] : Sent(c, wire[c][j]) /\ ~Live(c, wire[c][j]))'
      BY <1>2, <1>3, <1>4, <3>1 DEF ConnAt
    <3>3. (\A q \in msg : q.id[1] = c => Sent(c, q))'
      BY <1>4, <2>1, <2>2
    <3>4. (\A q \in Handling(c) : Asks(c, q) /\ inbox[c] = {})'
      BY <1>1, <1>4, <2>1, <3>1 DEF Handling
    <3> QED  BY <1>1, <1>2, <1>5, <2>4, <3>2, <3>3, <3>4 DEF ConnAt, Begun
  <2>5. CASE d = c /\ ~Live(c, p)
    <3>1. Handling(c)' = {}
      BY <1>4, <2>1, <2>5 DEF Handling
    <3>2. (\A q \in msg : q.id[1] = c => Sent(c, q))'
      BY <1>4, <2>1, <2>2
    <3>3. (\A j \in DOMAIN wire[c] : Sent(c, wire[c][j]))'
      BY <1>2, <1>3, <1>4 DEF ConnAt
    <3>4. (\A j \in DOMAIN wire[c] : Live(c, wire[c][j]) =>
             /\ Asks(c, wire[c][j])
             /\ inbox[c] = {}
             /\ Handling(c) = {}
             /\ \A k \in DOMAIN wire[c] : Live(c, wire[c][k]) => j = k)'
      BY <1>1, <1>2, <1>3, <1>4, <3>1 DEF ConnAt
    <3> QED  BY <1>1, <1>2, <1>5, <2>5, <3>1, <3>2, <3>3, <3>4 DEF ConnAt
  <2> QED  BY <2>3, <2>4, <2>5
<1> QED  BY <1>6, <1>7

LEMMA ConnCall ==
    ASSUME TInv, ConnInv, NEW c \in Clients, NEW cmd \in Cmds, NEW t \in Topics,
           NEW resend \in Resend, <<c, cmd, t>> \in Calls, Call(c, cmd, t, resend), TInv'
    PROVE  ConnInv'
<1> USE DEF netVars, clientVars, topicVars, dedupVars, bgVars, userVars, hist
<1> SUFFICES ASSUME NEW d \in Clients PROVE ConnAt(d)'
  BY DEF ConnInv
<1> DEFINE first == IF cmd = "REQUEST" /\ t \notin known[c] THEN "STATUS" ELSE cmd
<1>1. /\ cpc[c] = "idle" /\ Send(c, conn[c], first, t)
      /\ UNCHANGED <<conn, inbox, results, bpc, msg>>
      /\ calls' = [calls EXCEPT ![c] = @ + 1]
      /\ call' = [call EXCEPT ![c] = [cmd |-> cmd, topic |-> t, resend |-> resend]]
      /\ cpc' = [cpc EXCEPT ![c] = IF first = "STATUS" THEN "status" ELSE "send"]
  BY DEF Call
<1>2. ConnAt(c) /\ ConnAt(d)
  BY DEF ConnInv
<1>3. /\ conn[c] \in Nat /\ calls'[c] \in Nat /\ calls[c] \in Nat
      /\ cpc \in [Clients -> {"idle", "status", "send"}]
      /\ call \in [Clients -> [cmd : Cmds, topic : Topics, resend : BOOLEAN]]
      /\ calls \in [Clients -> 0 .. MaxCalls]
      /\ msg \subseteq Packet /\ wire \in [Clients -> Seq(Packet)]
  <2>1. calls[c] \in Nat /\ calls[c] + 1 \in Nat /\ conn[c] \in Nat
    BY CountTypes
  <2>2. calls \in [Clients -> 0 .. MaxCalls]
    BY DEF TInv, TypeOK
  <2>3. calls'[c] = calls[c] + 1
    BY <1>1, <2>2
  <2> QED  BY <2>1, <2>2, <2>3 DEF TInv, TypeOK
<1>4. CASE d # c
  <2>1. wire'[d] = wire[d]
    BY <1>1, <1>4, SendFacts
  <2>2. Handling(d)' = Handling(d)
    BY <1>1 DEF Handling, Live, Working
  <2>3. cpc'[d] = cpc[d] /\ call'[d] = call[d] /\ calls'[d] = calls[d]
    BY <1>1, <1>3, <1>4
  <2> QED  BY <1>1, <1>2, <2>1, <2>2, <2>3, ConnFrame DEF ConnAt
<1>5. CASE d = c
  <2>1. /\ inbox[c] = {} /\ Handling(c) = {}
        /\ \A i \in DOMAIN wire[c] : ~Live(c, wire[c][i])
    BY <1>1, <1>2 DEF ConnAt, Asks
  <2>2. Handling(c)' = {}
    BY <1>1, <2>1 DEF Handling, Live, Working
  <2>3. \A p \in Packet : Sent(c, p) => Sent(c, p)'
    <3>1. conn'[c] >= conn[c] /\ conn'[c] \in Nat
      BY <1>1, <1>3
    <3>2. \E cmd2 \in Cmds, t2 \in Topics, resend2 \in Resend : Call(c, cmd2, t2, resend2)
      OBVIOUS
    <3> QED  BY <1>3, <3>1, <3>2, SentKept
  <2>4. (cpc[c] # "idle")' /\ first = Expected(c)' /\ t = call'[c].topic /\ cmd = call'[c].cmd
    BY <1>1, <1>3 DEF Expected
  <2>5. first # "STATUS" => first = CmdOf(CallId(c))'
    <3>1. calls'[c] = Len(results'[c]) + 1 /\ Len(results'[c]) \in Nat
      BY <2>4, LenProperties DEF TInv, TypeOK, Counted
    <3>2. CmdOf(CallId(c))' = call'[c].cmd
      BY <3>1 DEF CmdOf, CallId
    <3> QED  BY <3>2, <2>4
  <2>6. \A i \in DOMAIN wire[c] : ~(wire[c][i].id[1] = c /\ wire[c][i].conn = conn'[c])
    BY <1>1, <2>1 DEF Live
  <2>7. \A i \in DOMAIN wire[c], p \in Packet : p = wire[c][i] => Sent(c, p)'
    BY <1>2, <2>3 DEF ConnAt
  <2>8. (\A p \in msg : p.id[1] = c => Sent(c, p))'
    BY <1>1, <1>2, <1>3, <2>3 DEF ConnAt
  <2>9. Begun(c)'
    BY <1>1, <1>3 DEF Begun
  <2> HIDE DEF first
  <2> QED  BY <1>1, <1>3, <1>5, <2>1, <2>2, <2>4, <2>5, <2>6, <2>7, <2>8, <2>9, ConnSend
<1> QED  BY <1>4, <1>5

(* A call goes on after the status, or ends, on a connection that carries  *)
(* nothing: its answer was taken out of the inbox, or it is a new one.     *)
LEMMA ConnGoOn ==
    ASSUME TInv, TInv', ConnInv, NEW c \in Clients, NEW k \in {conn[c], conn[c] + 1},
           cpc[c] # "idle", conn' = [conn EXCEPT ![c] = k],
           inbox' = [inbox EXCEPT ![c] = {}],
           k = conn[c] => inbox[c] # {},
           UNCHANGED <<calls, call, bpc, msg>>,
           \/ /\ \E how, ptrs : Finish(c, how, ptrs)
              /\ UNCHANGED wire
           \/ /\ cpc' = [cpc EXCEPT ![c] = "send"]
              /\ call[c].cmd # "STATUS"
              /\ Send(c, k, call[c].cmd, call[c].topic)
              /\ UNCHANGED results
    PROVE  ConnInv'
<1> SUFFICES ASSUME NEW d \in Clients PROVE ConnAt(d)'
  BY DEF ConnInv
<1>1. ConnAt(c) /\ ConnAt(d)
  BY DEF ConnInv
<1>2. /\ conn[c] \in Nat /\ conn[c] + 1 \in Nat /\ k \in Nat /\ k >= conn[c]
      /\ calls[c] \in Nat
  BY CountTypes
<1>3. /\ cpc \in [Clients -> {"idle", "status", "send"}] /\ msg \subseteq Packet
      /\ wire \in [Clients -> Seq(Packet)] /\ conn \in [Clients -> Nat]
      /\ results \in [Clients -> Seq(Result)] /\ inbox \in [Clients -> SUBSET Answer]
  BY DEF TInv, TypeOK, Result
<1>4. conn'[c] = k /\ inbox'[c] = {}
  BY <1>3
<1>5. \A e \in Clients \ {c} :
        /\ conn'[e] = conn[e] /\ inbox'[e] = inbox[e] /\ cpc'[e] = cpc[e]
        /\ wire'[e] = wire[e] /\ results'[e] = results[e]
  <2>1. CASE wire' = wire
    BY <1>3, <2>1 DEF Finish
  <2>2. CASE Send(c, k, call[c].cmd, call[c].topic)
    <3>1. \A e \in Clients \ {c} : wire'[e] = wire[e]
      BY <2>2, SendFacts
    <3>2. \A e \in Clients \ {c} : conn'[e] = conn[e] /\ inbox'[e] = inbox[e]
      BY <1>3
    <3>3. \A e \in Clients \ {c} : cpc'[e] = cpc[e] /\ results'[e] = results[e]
      BY <1>3, <2>2 DEF Finish
    <3> QED  BY <3>1, <3>2, <3>3
  <2> QED  BY <2>1, <2>2
<1>6. CASE d # c
  <2>1. Handling(d)' = Handling(d)
    BY <1>5, <1>6 DEF Handling, Live, Working
  <2>2. \A p \in msg' : p.id[1] = d => Sent(d, p)
    BY <1>1 DEF ConnAt
  <2> QED  BY <1>1, <1>5, <1>6, <2>1, <2>2, ConnFrame
<1>7. CASE d = c
  <2>1. \A p \in Packet : Sent(c, p) => ~(p.id[1] = c /\ p.conn = k) \/ (Live(c, p) /\ k = conn[c])
    BY <1>2 DEF Sent, Packet, Live
  <2>2. \A i \in DOMAIN wire[c] : wire[c][i] \in Packet /\ Sent(c, wire[c][i])
    BY <1>1, <1>3, ElementOfSeq DEF ConnAt
  <2>3. \A i \in DOMAIN wire[c] : ~(wire[c][i].id[1] = c /\ wire[c][i].conn = k)
    BY <1>1, <2>1, <2>2 DEF ConnAt
  <2>4. Handling(c)' = {}
    <3> SUFFICES ASSUME NEW p \in msg, Working, p.id[1] = c, p.conn = k PROVE FALSE
      BY <1>4 DEF Handling, Live, Working
    <3>1. p \in Packet /\ Sent(c, p)
      BY <1>1, <1>3 DEF ConnAt
    <3>2. p \in Handling(c) /\ k = conn[c]
      BY <2>1, <3>1 DEF Handling
    <3> QED  BY <3>2, <1>1 DEF ConnAt
  <2>5. \A p \in Packet : Sent(c, p) => Sent(c, p)'
    BY <1>2, <1>4, SentKept
  <2>6. (\A p \in msg : p.id[1] = c => Sent(c, p))'
    BY <1>1, <1>3, <2>5 DEF ConnAt
  <2>7. Begun(c)'
    <3>1. Begun(c)
      BY <1>1 DEF ConnAt
    <3> QED  BY <1>3, <3>1 DEF Begun, Finish
  <2>8. CASE (\E how, ptrs : Finish(c, how, ptrs)) /\ UNCHANGED wire
    <3>1. (\A i \in DOMAIN wire[c] : Sent(c, wire[c][i]) /\ ~Live(c, wire[c][i]))'
      BY <1>4, <2>2, <2>3, <2>5, <2>8 DEF Live
    <3> QED  BY <1>4, <1>7, <2>4, <2>6, <2>7, <3>1, ConnQuiet
  <2>9. CASE /\ cpc' = [cpc EXCEPT ![c] = "send"]
             /\ call[c].cmd # "STATUS"
             /\ Send(c, k, call[c].cmd, call[c].topic)
             /\ UNCHANGED results
    <3>1. (cpc[c] # "idle")' /\ call[c].cmd = Expected(c)'
      BY <1>3, <2>9 DEF Expected
    <3>2. CmdOf(CallId(c))' = call[c].cmd
      <4>1. calls[c] = Len(results[c]) + 1 /\ Len(results[c]) \in Nat
        BY UnderWay, CountTypes
      <4> QED  BY <4>1, <2>9 DEF CmdOf, CallId
    <3>3. \A i \in DOMAIN wire[c], p \in Packet : p = wire[c][i] => Sent(c, p)'
      BY <2>2, <2>5
    <3>4. \A i \in DOMAIN wire[c] : ~(wire[c][i].id[1] = c /\ wire[c][i].conn = conn'[c])
      BY <2>3, <1>4
    <3>5. call[c].topic = call'[c].topic
          /\ calls'[c] \in Nat /\ conn'[c] \in Nat /\ k = conn'[c]
      BY <1>2, <1>4
    <3> QED  BY <1>4, <1>7, <2>4, <2>6, <2>7, <2>9, <3>1, <3>2, <3>3, <3>4, <3>5, ConnSend
  <2> QED  BY <2>8, <2>9
<1> QED  BY <1>6, <1>7

LEMMA ConnClient ==
    ASSUME TInv, TInv', ConnInv, NEW c \in Clients, ClientStep(c)
    PROVE  ConnInv'
<1> USE DEF netVars, clientVars, topicVars, dedupVars, bgVars, userVars, hist
<1>1. /\ UNCHANGED <<calls, call, bpc, msg>> /\ cpc[c] # "idle"
      /\ inbox' = [inbox EXCEPT ![c] = {}]
  <2>1. CASE StatusReply(c)
    BY <2>1 DEF StatusReply
  <2>2. CASE CallReply(c)
    BY <2>2 DEF CallReply
  <2>3. CASE StatusTimeout(c)
    BY <2>3 DEF StatusTimeout, Reconnect
  <2>4. CASE CallTimeout(c)
    BY <2>4 DEF CallTimeout, Reconnect
  <2> QED  BY <2>1, <2>2, <2>3, <2>4 DEF ClientStep
<1> DEFINE Goes(k) ==
             \/ /\ \E how, ptrs : Finish(c, how, ptrs)
                /\ UNCHANGED wire
             \/ /\ cpc' = [cpc EXCEPT ![c] = "send"]
                /\ call[c].cmd # "STATUS"
                /\ Send(c, k, call[c].cmd, call[c].topic)
                /\ UNCHANGED results
<1>2. ASSUME NEW k, NEW exists, cpc[c] = "status", AfterStatus(c, k, exists)
      PROVE  Goes(k)
  <2>1. CASE call[c].cmd = "STATUS"
    BY <1>2, <2>1 DEF AfterStatus
  <2>2. CASE call[c].cmd # "STATUS"
    <3>1. call[c].cmd = "REQUEST"
      BY <1>2, <2>2 DEF ConnInv, ConnAt, Begun
    <3> QED  BY <1>2, <2>2, <3>1 DEF AfterStatus
  <2> QED  BY <2>1, <2>2
<1>3. \E k \in {conn[c], conn[c] + 1} :
        /\ conn' = [conn EXCEPT ![c] = k]
        /\ k = conn[c] => inbox[c] # {}
        /\ Goes(k)
  <2>1. conn = [conn EXCEPT ![c] = conn[c]] /\ conn[c] + 1 > conn[c] /\ conn[c] \in Nat
    BY CountTypes DEF TInv, TypeOK
  <2>2. CASE StatusReply(c)
    <3>1. inbox[c] # {} /\ conn' = conn /\ Goes(conn[c])
      BY <1>2, <2>2 DEF StatusReply
    <3> QED  BY <2>1, <3>1
  <2>3. CASE CallReply(c)
    <3>1. inbox[c] # {} /\ conn' = conn /\ Goes(conn[c])
      BY <2>3 DEF CallReply
    <3> QED  BY <2>1, <3>1
  <2>4. CASE StatusTimeout(c)
    <3>1. conn' = [conn EXCEPT ![c] = conn[c] + 1] /\ Goes(conn[c] + 1)
      BY <1>2, <2>4 DEF StatusTimeout, Reconnect
    <3> QED  BY <2>1, <3>1
  <2>5. CASE CallTimeout(c)
    <3>1. conn' = [conn EXCEPT ![c] = conn[c] + 1] /\ cpc[c] = "send"
      BY <2>5 DEF CallTimeout, Reconnect
    <3>2. call[c].cmd # "STATUS"
      BY <3>1 DEF ConnInv, ConnAt, Begun
    <3>3. cpc = [cpc EXCEPT ![c] = "send"]
      BY <3>1 DEF TInv, TypeOK
    <3>4. Goes(conn[c] + 1)
      BY <3>2, <3>3, <2>5 DEF CallTimeout
    <3> QED  BY <2>1, <3>1, <3>4
  <2> QED  BY <2>2, <2>3, <2>4, <2>5 DEF ClientStep
<1> QED  BY <1>1, <1>3, ConnGoOn

(* An answer goes to the connection it is for, and to no other.            *)
LEMMA ConnAnswer ==
    ASSUME TInv, ConnInv, NEW p \in msg, Working, bpc' = "poll", NEW answer,
           SendAnswer(p, answer), UNCHANGED <<wire, cpc, call, calls, results, msg>>
    PROVE  ConnInv'
<1> SUFFICES ASSUME NEW d \in Clients PROVE ConnAt(d)'
  BY DEF ConnInv
<1>1. ConnAt(d)
  BY DEF ConnInv
<1>2. /\ conn' = conn
      /\ inbox'[d] = IF Live(d, p) THEN {answer} ELSE inbox[d]
  <2>1. p \in Packet /\ TParts
    BY TypeParts DEF TInv, TypeOK
  <2> QED  BY <2>1, SendAnswerFacts DEF Live
<1>3. Handling(d)' = {}
  BY DEF Handling, Working
<1>4. CASE ~Live(d, p)
  BY <1>1, <1>2, <1>3, <1>4, ConnFrame DEF ConnAt
<1>5. CASE Live(d, p)
  <2>1. p \in Handling(d)
    BY <1>5 DEF Handling
  <2>2. /\ \A i \in DOMAIN wire[d] : Sent(d, wire[d][i]) /\ ~Live(d, wire[d][i])
        /\ \A q \in msg : q.id[1] = d => Sent(d, q)
        /\ cpc[d] # "idle"
        /\ Begun(d)
    BY <1>1, <2>1 DEF ConnAt, Asks
  <2>3. \A q : (Sent(d, q)' <=> Sent(d, q)) /\ (Live(d, q)' <=> Live(d, q))
    BY <1>2 DEF Sent, Live, CmdOf
  <2>4. Begun(d)'
    BY <2>2 DEF Begun
  <2> QED  BY <1>3, <2>2, <2>3, <2>4 DEF ConnAt
<1> QED  BY <1>4, <1>5

(* The steps that neither send nor receive.                                *)
LEMMA ConnRest ==
    ASSUME ConnInv, UNCHANGED <<netVars, clientVars, msg>>, Working' => Working
    PROVE  ConnInv'
<1> SUFFICES ASSUME NEW d \in Clients PROVE ConnAt(d)'
  BY DEF ConnInv
<1>1. ConnAt(d)
  BY DEF ConnInv
<1>2. Handling(d)' \subseteq Handling(d)
  BY DEF Handling, Live, netVars
<1> QED  BY <1>1, <1>2, ConnFrame DEF ConnAt, netVars, clientVars

LEMMA ConnInit == Init => ConnInv
  BY DEF Init, ConnInv, ConnAt, Handling, Begun

LEMMA ConnNext == TInv /\ ConnInv /\ [Next]_vars => ConnInv'
<1> SUFFICES ASSUME TInv, ConnInv, [Next]_vars PROVE ConnInv'
  OBVIOUS
<1> USE DEF Working
<1>1. TInv'
  BY TInvNext
<1>2. ASSUME NEW c \in Clients, NEW i \in DOMAIN wire[c], Lose(c, i) \/ Recv(c, i)
      PROVE  ConnInv'
  BY <1>2, ConnNet
<1>3. ASSUME NEW c \in Clients, NEW cmd \in Cmds, NEW t \in Topics, NEW resend \in Resend,
             <<c, cmd, t>> \in Calls, Call(c, cmd, t, resend)
      PROVE  ConnInv'
  BY <1>1, <1>3, ConnCall
<1>4. ASSUME NEW c \in Clients, ClientStep(c)
      PROVE  ConnInv'
  BY <1>1, <1>4, ConnClient
<1>5. ASSUME NEW p \in msg, NoTopic(p) \/ Serve(p) \/ AnswerAgain(p) \/ SendReply(p)
      PROVE  ConnInv'
  <2>1. /\ Working /\ bpc' = "poll" /\ UNCHANGED <<wire, cpc, call, calls, results, msg>>
        /\ \E answer : SendAnswer(p, answer)
    <3> USE DEF clientVars
    <3>1. CASE NoTopic(p)
      BY <3>1 DEF NoTopic
    <3>2. CASE Serve(p)
      BY <3>2 DEF Serve
    <3>3. CASE AnswerAgain(p)
      BY <3>3 DEF AnswerAgain
    <3>4. CASE SendReply(p)
      BY <3>4 DEF SendReply
    <3> QED  BY <1>5, <3>1, <3>2, <3>3, <3>4
  <2> QED  BY <2>1, ConnAnswer
<1>6. ASSUME NEW p \in msg, RecordRequest(p) \/ EnqueueRequest(p) \/ Announce(p)
      PROVE  ConnInv'
  BY <1>6, ConnRest DEF RecordRequest, EnqueueRequest, Announce
<1>7. CASE BgStop
  BY <1>7, ConnRest DEF BgStop, bgVars, netVars
<1>8. CASE BgStep
  BY <1>2, <1>5, <1>6, <1>7, <1>8 DEF BgStep
<1>9. ASSUME NEW t, AddTopic(t) \/ PutData(t) \/ PopData(t)
      PROVE  ConnInv'
  BY <1>9, ConnRest DEF AddTopic, PutData, PopData, bgVars
<1>10. CASE ServeRequests \/ ResetStartTime \/ Shutdown \/ UNCHANGED vars
  BY <1>10, ConnRest DEF ServeRequests, WaitForRequest, ReplyPut, ReplyFlag, ResetStartTime,
                         Shutdown, bgVars, vars
<1> QED  BY <1>2, <1>3, <1>4, <1>8, <1>9, <1>10 DEF Next

(* Calls begin and end, and nothing else happens to them.                  *)
LEMMA CallSteps ==
    ASSUME [Next]_vars
    PROVE  \/ UNCHANGED <<call, calls, results>>
           \/ \E c \in Clients : \E cmd \in Cmds, t \in Topics, resend \in Resend :
                Call(c, cmd, t, resend)
           \/ \E c \in Clients : /\ cpc[c] # "idle"
                                 /\ calls' = calls /\ call' = call
                                 /\ \E how, ptrs : Finish(c, how, ptrs)
<1> USE DEF netVars, clientVars, topicVars, dedupVars, bgVars, userVars, hist
<1>1. ASSUME NEW c \in Clients, NEW i \in DOMAIN wire[c], Lose(c, i) \/ Recv(c, i)
      PROVE  UNCHANGED <<call, calls, results>>
  BY <1>1 DEF Lose, Recv
<1>2. ASSUME NEW c \in Clients, ClientStep(c)
      PROVE  \/ UNCHANGED <<call, calls, results>>
             \/ /\ cpc[c] # "idle"
                /\ calls' = calls /\ call' = call
                /\ \E how, ptrs : Finish(c, how, ptrs)
  <2>1. CASE StatusReply(c)
    BY <2>1 DEF StatusReply, AfterStatus
  <2>2. CASE CallReply(c)
    BY <2>2 DEF CallReply
  <2>3. CASE StatusTimeout(c)
    BY <2>3 DEF StatusTimeout, AfterStatus
  <2>4. CASE CallTimeout(c)
    BY <2>4 DEF CallTimeout
  <2> QED  BY <1>2, <2>1, <2>2, <2>3, <2>4 DEF ClientStep
<1>3. ASSUME NEW p \in msg, \/ NoTopic(p) \/ Serve(p) \/ AnswerAgain(p) \/ RecordRequest(p)
                            \/ EnqueueRequest(p) \/ Announce(p) \/ SendReply(p)
      PROVE  UNCHANGED <<call, calls, results>>
  BY <1>3 DEF NoTopic, Serve, AnswerAgain, RecordRequest, EnqueueRequest, Announce, SendReply
<1>4. ASSUME NEW t, AddTopic(t) \/ PutData(t) \/ PopData(t)
      PROVE  UNCHANGED <<call, calls, results>>
  BY <1>4 DEF AddTopic, PutData, PopData
<1>5. ASSUME BgStop \/ ServeRequests \/ ResetStartTime \/ Shutdown \/ UNCHANGED vars
      PROVE  UNCHANGED <<call, calls, results>>
  BY <1>5 DEF BgStop, ServeRequests, WaitForRequest, ReplyPut, ReplyFlag, ResetStartTime,
              Shutdown, vars
<1>6. CASE BgStep
  BY <1>1, <1>3, <1>5, <1>6 DEF BgStep
<1> QED  BY <1>1, <1>2, <1>4, <1>5, <1>6 DEF Next

LEMMA CmdStays ==
    ASSUME TInv, [Next]_vars, NEW id \in Ids, id[2] <= calls[id[1]]
    PROVE  CmdOf(id)' = CmdOf(id) /\ calls[id[1]] <= calls'[id[1]]
<1>1. PICK c \in Clients : c = id[1]
  BY DEF Ids
<1>2. CASE \/ UNCHANGED <<call, calls, results>>
           \/ \E cmd \in Cmds, t \in Topics, resend \in Resend : Call(c, cmd, t, resend)
           \/ /\ cpc[c] # "idle"
              /\ calls' = calls /\ call' = call
              /\ \E how, ptrs : Finish(c, how, ptrs)
  BY <1>1, <1>2, CmdKept
<1>3. ASSUME NEW d \in Clients, d # c,
             \/ \E cmd \in Cmds, t \in Topics, resend \in Resend : Call(d, cmd, t, resend)
             \/ /\ calls' = calls /\ call' = call
                /\ \E how, ptrs : Finish(d, how, ptrs)
      PROVE  CmdOf(id)' = CmdOf(id) /\ calls[c] <= calls'[c]
  <2>1. call[c] = call'[c] /\ calls[c] = calls'[c] /\ results[c] = results'[c]
    <3>1. \A x : /\ [calls EXCEPT ![d] = x][c] = calls[c]
                 /\ [call EXCEPT ![d] = x][c] = call[c]
                 /\ [results EXCEPT ![d] = x][c] = results[c]
      BY <1>3 DEF TInv, TypeOK
    <3>2. CASE \E cmd \in Cmds, t \in Topics, resend \in Resend : Call(d, cmd, t, resend)
      BY <3>1, <3>2 DEF Call
    <3>3. CASE /\ calls' = calls /\ call' = call
               /\ \E how, ptrs : Finish(d, how, ptrs)
      BY <3>1, <3>3 DEF Finish
    <3> QED  BY <1>3, <3>2, <3>3
  <2> QED  BY <1>1, <2>1, CountTypes DEF CmdOf
<1> QED  BY <1>1, <1>2, <1>3, CallSteps

=============================================================================
