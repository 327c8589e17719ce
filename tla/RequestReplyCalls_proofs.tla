---------------------- MODULE RequestReplyCalls_proofs ----------------------
(***************************************************************************)
(* What the calls of any number of clients return, for any number of       *)
(* topics, calls, retries, losses and resets.                              *)
(***************************************************************************)
EXTENDS RequestReply_proofs

-----------------------------------------------------------------------------
(* What the topics and the cache hold, and the packet the thread is about. *)

\* The request of id was sent: a call of request_with_data there was.
SentRequest(id) ==
    /\ id \in Ids
    /\ id[2] <= calls[id[1]]
    /\ CmdOf(id) = "REQUEST"

EntryInv ==
    /\ bpc \in {"enqueue", "announce", "await"} => \A p \in msg : p.cmd = "REQUEST"
    /\ \A t \in Topics : \A i \in DOMAIN queue[t] :
         queue[t][i].by = "REQUEST" => SentRequest(queue[t][i].of)
    /\ \A t \in Topics : \A r \in cached[t] : r.cmd = "REQUEST" /\ r.topic = t

LEMMA EntryInit == Init => EntryInv
  BY DEF Init, EntryInv

LEMMA RequestKept ==
    ASSUME TInv, [Next]_vars, NEW id, SentRequest(id)
    PROVE  SentRequest(id)'
<1>1. id \in Ids /\ id[1] \in Clients /\ id[2] \in Nat
  BY DEF SentRequest, Ids
<1>2. CmdOf(id)' = CmdOf(id) /\ calls[id[1]] <= calls'[id[1]]
  BY <1>1, CmdStays DEF SentRequest
<1>3. calls[id[1]] \in Nat /\ calls'[id[1]] \in Nat
  <2>1. TInv'
    BY TInvNext
  <2>2. \A S : S \in [Clients -> 0 .. MaxCalls] => S[id[1]] \in Nat
    BY <1>1, ConstantTypes
  <2> QED  BY <2>1, <2>2 DEF TInv, TypeOK
<1> QED  BY <1>1, <1>2, <1>3 DEF SentRequest

(* A topic to which one entry was added, or which was emptied.             *)
LEMMA EntryAdd ==
    ASSUME TInv, [Next]_vars, EntryInv, NEW t \in Topics, NEW e \in Entry,
           NEW q \in Pushed(queue[t], e), queue' = [queue EXCEPT ![t] = q],
           e.by = "REQUEST" => SentRequest(e.of)
    PROVE  (\A u \in Topics : \A i \in DOMAIN queue[u] :
              queue[u][i].by = "REQUEST" => SentRequest(queue[u][i].of))'
<1>1. queue \in [Topics -> Seq(Entry)]
  BY DEF TInv, TypeOK
<1>2. \A i \in DOMAIN q : q[i] = e \/ \E j \in DOMAIN queue[t] : q[i] = queue[t][j]
  BY <1>1, PushedFacts
<1>3. \A u \in Topics : \A i \in DOMAIN queue'[u] :
        queue'[u][i] = e \/ \E j \in DOMAIN queue[u] : queue'[u][i] = queue[u][j]
  BY <1>1, <1>2
<1>4. \A x : x.by = "REQUEST" /\ (x = e \/ \E u \in Topics : \E j \in DOMAIN queue[u] : x = queue[u][j])
        => SentRequest(x.of)'
  BY RequestKept DEF EntryInv
<1> QED  BY <1>3, <1>4

LEMMA EntryLess ==
    ASSUME TInv, [Next]_vars, EntryInv,
           \A t \in Topics : queue'[t] = queue[t] \/ queue'[t] = <<>>
    PROVE  (\A u \in Topics : \A i \in DOMAIN queue[u] :
              queue[u][i].by = "REQUEST" => SentRequest(queue[u][i].of))'
<1>1. \A u \in Topics : \A i \in DOMAIN queue'[u] : i \in DOMAIN queue[u] /\ queue'[u][i] = queue[u][i]
  OBVIOUS
<1> QED  BY <1>1, RequestKept DEF EntryInv

LEMMA EntryNext == TInv /\ ConnInv /\ EntryInv /\ [Next]_vars => EntryInv'
<1> SUFFICES ASSUME TInv, ConnInv, EntryInv, [Next]_vars PROVE EntryInv'
  OBVIOUS
<1> USE DEF netVars, clientVars, topicVars, dedupVars, bgVars, userVars, hist
<1> DEFINE ThreadNext == (bpc \in {"enqueue", "announce", "await"} => \A p \in msg : p.cmd = "REQUEST")'
           QueueNext == (\A u \in Topics : \A i \in DOMAIN queue[u] :
                           queue[u][i].by = "REQUEST" => SentRequest(queue[u][i].of))'
           CacheNext == (\A t \in Topics : \A r \in cached[t] : r.cmd = "REQUEST" /\ r.topic = t)'
<1>1. ASSUME UNCHANGED queue
      PROVE  QueueNext
  BY <1>1, EntryLess
<1>2. ASSUME UNCHANGED <<bpc, msg>>
      PROVE  ThreadNext
  BY <1>2 DEF EntryInv
<1>3. ASSUME UNCHANGED cached
      PROVE  CacheNext
  BY <1>3 DEF EntryInv
<1>4. \A S : /\ S = [t \in Topics |-> <<>>] \/ (\E t \in Topics : S = [queue EXCEPT ![t] = <<>>])
             /\ queue' = S
             => QueueNext
  <2>1. queue \in [Topics -> Seq(Entry)]
    BY DEF TInv, TypeOK
  <2> QED  BY <2>1, EntryLess
<1> HIDE DEF QueueNext, ThreadNext, CacheNext
<1>5. QueueNext /\ ThreadNext /\ CacheNext => EntryInv'
  BY DEF QueueNext, ThreadNext, CacheNext, EntryInv
<1>6. ASSUME NEW c \in Clients, NEW i \in DOMAIN wire[c], Lose(c, i)
      PROVE  EntryInv'
  BY <1>1, <1>2, <1>3, <1>5, <1>6 DEF Lose
<1>7. ASSUME NEW c \in Clients, NEW i \in DOMAIN wire[c], Recv(c, i)
      PROVE  EntryInv'
  BY <1>1, <1>3, <1>5, <1>7 DEF Recv, ThreadNext
<1>8. ASSUME NEW c \in Clients, NEW cmd, NEW t, NEW resend, Call(c, cmd, t, resend)
      PROVE  EntryInv'
  BY <1>1, <1>2, <1>3, <1>5, <1>8 DEF Call
<1>9. ASSUME NEW c \in Clients, ClientStep(c)
      PROVE  EntryInv'
  <2>1. UNCHANGED <<queue, bpc, msg, cached>>
    BY <1>9 DEF ClientStep, StatusReply, CallReply, StatusTimeout, CallTimeout
  <2> QED  BY <1>1, <1>2, <1>3, <1>5, <2>1
<1>10. ASSUME NEW p \in msg, NoTopic(p) \/ AnswerAgain(p)
       PROVE  EntryInv'
  <2>1. UNCHANGED <<queue, cached>> /\ bpc' = "poll"
    BY <1>10 DEF NoTopic, AnswerAgain
  <2> QED  BY <1>1, <1>3, <1>5, <2>1 DEF ThreadNext
<1>11. ASSUME NEW p \in msg
       PROVE  p \in Packet /\ p.id \in Ids /\ p.topic \in Topics
  BY <1>11 DEF TInv, TypeOK, Packet
<1>12. ASSUME NEW p \in msg, Serve(p)
       PROVE  EntryInv'
  <2>1. UNCHANGED cached /\ bpc' = "poll"
    BY <1>12 DEF Serve
  <2>2. QueueNext
    <3>1. CASE p.cmd = "POP"
      BY <3>1, <1>4, <1>11, <1>12 DEF Serve
    <3>2. CASE p.cmd = "PUT"
      <4> DEFINE e == [by |-> "PUT", of |-> p.id]
      <4>1. e \in Entry /\ e.by # "REQUEST"
        BY <1>11 DEF Entry, EntryIds
      <4>2. \E q \in Pushed(queue[p.topic], e) : queue' = [queue EXCEPT ![p.topic] = q]
        BY <3>2, <1>12 DEF Serve
      <4> HIDE DEF e
      <4> QED  BY <4>1, <4>2, <1>11, EntryAdd DEF QueueNext
    <3>3. CASE p.cmd # "POP" /\ p.cmd # "PUT"
      <4>1. queue' = [queue EXCEPT ![p.topic] = queue[p.topic]] /\ queue \in [Topics -> Seq(Entry)]
        BY <3>3, <1>12 DEF Serve, TInv, TypeOK
      <4>2. queue' = queue
        BY <4>1
      <4> QED  BY <4>2, <1>1
    <3> QED  BY <3>1, <3>2, <3>3
  <2> QED  BY <1>3, <1>5, <2>1, <2>2 DEF ThreadNext
<1>13. ASSUME NEW p \in msg, RecordRequest(p)
       PROVE  EntryInv'
  <2>1. ThreadNext
    BY <1>13 DEF RecordRequest, ThreadNext, TInv, TypeOK
  <2>2. CacheNext
    BY <1>13, <1>3 DEF RecordRequest, CacheNext, EntryInv, TInv, TypeOK
  <2> QED  BY <1>1, <1>5, <1>13, <2>1, <2>2 DEF RecordRequest
<1>14. ASSUME NEW p \in msg, EnqueueRequest(p)
       PROVE  EntryInv'
  <2> DEFINE e == [by |-> "REQUEST", of |-> p.id]
  <2>1. p.cmd = "REQUEST" /\ bpc' = "announce" /\ UNCHANGED <<msg, cached>>
    BY <1>14 DEF EnqueueRequest, EntryInv
  <2>2. SentRequest(p.id)
    <3>1. p.id[1] \in Clients
      BY <1>11 DEF Ids
    <3>2. Sent(p.id[1], p)
      BY <3>1 DEF ConnInv, ConnAt
    <3> QED  BY <1>11, <2>1, <3>1, <3>2 DEF Sent, SentRequest
  <2>3. e \in Entry /\ e.of = p.id
    BY <1>11 DEF Entry, EntryIds
  <2>4. \E q \in Pushed(queue[p.topic], e) : queue' = [queue EXCEPT ![p.topic] = q]
    BY <1>14 DEF EnqueueRequest
  <2> HIDE DEF e
  <2>5. QueueNext
    BY <1>11, <2>2, <2>3, <2>4, EntryAdd DEF QueueNext
  <2>6. ThreadNext
    BY <1>14, <2>1 DEF ThreadNext, EntryInv, EnqueueRequest
  <2> QED  BY <1>3, <1>5, <2>1, <2>5, <2>6
<1>15. ASSUME NEW p \in msg, Announce(p)
       PROVE  EntryInv'
  <2>1. ThreadNext
    BY <1>15 DEF ThreadNext, EntryInv, Announce
  <2> QED  BY <1>1, <1>3, <1>5, <1>15, <2>1 DEF Announce
<1>16. ASSUME NEW p \in msg, SendReply(p)
       PROVE  EntryInv'
  <2>1. QueueNext /\ ThreadNext
    BY <1>4, <1>11, <1>16 DEF SendReply, ThreadNext
  <2>2. CacheNext
    BY <1>16 DEF SendReply, CacheNext, EntryInv, TInv, TypeOK
  <2> QED  BY <1>5, <2>1, <2>2
<1>17. CASE BgStop
  BY <1>1, <1>3, <1>5, <1>17 DEF BgStop, ThreadNext
<1>18. CASE BgStep
  BY <1>7, <1>10, <1>12, <1>13, <1>14, <1>15, <1>16, <1>17, <1>18 DEF BgStep
<1>19. ASSUME NEW t \in Topics, AddTopic(t) \/ PutData(t) \/ PopData(t)
       PROVE  EntryInv'
  <2>1. ThreadNext /\ CacheNext
    BY <1>2, <1>3, <1>19 DEF AddTopic, PutData, PopData
  <2>2. QueueNext
    <3>1. CASE AddTopic(t)
      BY <3>1, <1>1 DEF AddTopic
    <3>2. CASE PutData(t)
      <4> DEFINE e == [by |-> "server", of |-> <<"server", puts'>>]
      <4>1. e \in Entry /\ e.by # "REQUEST"
        <5>1. TInv'
          BY TInvNext
        <5>2. puts' \in 0 .. MaxPuts
          BY <5>1 DEF TInv, TypeOK
        <5> QED  BY <5>2 DEF Entry, EntryIds
      <4>2. PICK q \in Pushed(queue[t], e) : queue' = [queue EXCEPT ![t] = q]
        BY <3>2 DEF PutData
      <4> HIDE DEF e
      <4> QED  BY <4>1, <4>2, EntryAdd DEF QueueNext
    <3>3. CASE PopData(t)
      BY <3>3, <1>4 DEF PopData
    <3> QED  BY <1>19, <3>1, <3>2, <3>3
  <2> QED  BY <1>5, <2>1, <2>2
<1>20. CASE WaitForRequest
  <2>1. \E t \in Topics : queue' = [queue EXCEPT ![t] = <<>>]
    BY <1>20 DEF WaitForRequest, TInv, TypeOK
  <2> QED  BY <1>2, <1>3, <1>4, <1>5, <1>20, <2>1 DEF WaitForRequest
<1>21. CASE ReplyPut
  <2>1. PICK s \in serving : \E q \in Pushed(queue[s.topic], [by |-> "reply", of |-> s.of]) :
          queue' = [queue EXCEPT ![s.topic] = q]
    BY <1>21 DEF ReplyPut
  <2> DEFINE e == [by |-> "reply", of |-> s.of]
  <2>2. e \in Entry /\ e.by # "REQUEST" /\ s.topic \in Topics
    BY DEF Entry, TInv, TypeOK
  <2>3. \E q \in Pushed(queue[s.topic], e) : queue' = [queue EXCEPT ![s.topic] = q]
    BY <2>1
  <2> HIDE DEF e
  <2>4. QueueNext
    BY <2>2, <2>3, EntryAdd DEF QueueNext
  <2> QED  BY <1>2, <1>3, <1>5, <1>21, <2>4 DEF ReplyPut
<1>22. CASE ReplyFlag
  BY <1>1, <1>2, <1>3, <1>5, <1>22 DEF ReplyFlag
<1>23. CASE ResetStartTime
  <2>1. CacheNext
    BY <1>23 DEF ResetStartTime, CacheNext
  <2> QED  BY <1>2, <1>4, <1>5, <1>23, <2>1 DEF ResetStartTime
<1>24. CASE Shutdown \/ UNCHANGED vars
  BY <1>1, <1>2, <1>3, <1>5, <1>24 DEF Shutdown, vars
<1>25. PutTopics \subseteq Topics
  BY ConstantTypes
<1> QED  BY <1>6, <1>8, <1>9, <1>18, <1>19, <1>20, <1>21, <1>22, <1>23, <1>24, <1>25
            DEF Next, ServeRequests

-----------------------------------------------------------------------------
(* Without automatic_resend a call is sent once.                           *)

CInv == TInv /\ ConnInv /\ EntryInv

LEMMA CInvInit == Init => CInv
  BY TInvInit, ConnInit, EntryInit DEF CInv

LEMMA CInvNext == CInv /\ [Next]_vars => CInv'
  BY TInvNext, ConnNext, EntryNext DEF CInv

\* Where the packet of the call itself is, not that of a status asked first.
OnWire(id) == {i \in DOMAIN wire[id[1]] : wire[id[1]][i].id = id /\ wire[id[1]][i].cmd # "STATUS"}
InThread(id) == \E p \in msg : Working /\ p.id = id /\ p.cmd # "STATUS"

Unsent(id) ==
    \/ id[2] > calls[id[1]]
    \/ id = CallId(id[1]) /\ cpc[id[1]] = "status"

Answered(id) ==
    \/ Returned(id[1], id[2])
    \/ id = CallId(id[1]) /\ cpc[id[1]] = "send" /\ inbox[id[1]] # {}

\* The call has done nothing yet; a request may be with the program.
Fresh(id) == taken[id] = <<>> /\ (SentRequest(id) \/ done[id] = 0)

OnceAt(id) ==
    /\ \A i, j \in OnWire(id) : i = j
    /\ OnWire(id) # {} => ~InThread(id)
    /\ Unsent(id) \/ Answered(id) => OnWire(id) = {} /\ ~InThread(id)
    /\ OnWire(id) # {} \/ InThread(id) \/ Unsent(id) => Fresh(id)

OnceInv == \A id \in Ids : OnceAt(id)
NoResend == \A c \in Clients : ~call[c].resend

LEMMA OnceInit == Init => OnceInv /\ NoResend
<1> SUFFICES ASSUME Init PROVE OnceInv /\ NoResend
  OBVIOUS
<1>1. NoResend
  BY DEF Init, NoResend, NoCall
<1>2. ASSUME NEW id \in Ids PROVE OnceAt(id)
  <2>1. id[1] \in Clients /\ id[2] \in 1 .. MaxCalls
    BY DEF Ids
  <2>2. OnWire(id) = {} /\ ~InThread(id) /\ Fresh(id)
    BY <2>1 DEF Init, OnWire, InThread, Fresh
  <2> QED  BY <2>2 DEF OnceAt
<1> QED  BY <1>1, <1>2 DEF OnceInv

(* A call whose client takes no part in a step.                            *)
LEMMA OnceFrame ==
    ASSUME CInv, [Next]_vars, NEW id \in Ids, OnceAt(id), NEW c, c = id[1],
           wire'[c] = wire[c], inbox'[c] = inbox[c], cpc'[c] = cpc[c],
           calls'[c] = calls[c], results'[c] = results[c],
           InThread(id)' => InThread(id),
           taken'[id] = taken[id],
           done'[id] = done[id] \/ SentRequest(id)
    PROVE  OnceAt(id)'
<1>1. OnWire(id)' = OnWire(id)
  BY DEF OnWire
<1>2. (Unsent(id)' <=> Unsent(id)) /\ (Answered(id)' <=> Answered(id))
  BY DEF Unsent, Answered, Returned, Ended, CallId
<1>3. Fresh(id) => Fresh(id)'
  BY RequestKept DEF Fresh, CInv
<1> QED  BY <1>1, <1>2, <1>3 DEF OnceAt

LEMMA OnceNet ==
    ASSUME CInv, OnceInv, NEW c \in Clients, NEW i \in DOMAIN wire[c], Lose(c, i) \/ Recv(c, i)
    PROVE  OnceInv'
<1> USE DEF netVars, clientVars, topicVars, dedupVars, bgVars, userVars, hist
<1> SUFFICES ASSUME NEW id \in Ids PROVE OnceAt(id)'
  BY DEF OnceInv
<1>1. /\ wire \in [Clients -> Seq(Packet)] /\ wire' = [wire EXCEPT ![c] = RemoveAt(@, i)]
      /\ UNCHANGED <<conn, inbox, cpc, call, calls, results, done, taken>>
  BY DEF CInv, TInv, TypeOK, Lose, Recv
<1>2. OnceAt(id) /\ id[1] \in Clients
  BY DEF OnceInv, Ids
<1> DEFINE At(j) == IF j < i THEN j ELSE j + 1
<1>3. /\ \A j \in DOMAIN wire'[c] : At(j) \in DOMAIN wire[c] /\ At(j) # i /\ wire'[c][j] = wire[c][At(j)]
      /\ \A j, k \in DOMAIN wire'[c] : At(j) = At(k) => j = k
  <2>1. /\ Len(wire[c]) \in Nat /\ DOMAIN wire[c] = 1 .. Len(wire[c])
        /\ DOMAIN wire'[c] = 1 .. Len(wire[c]) - 1
        /\ \A j \in 1 .. Len(wire[c]) - 1 :
             wire'[c][j] = IF j < i THEN wire[c][j] ELSE wire[c][j + 1]
    BY <1>1, RemoveAtFacts, LenProperties
  <2> QED  BY <2>1
<1> HIDE DEF At
<1>4. /\ Unsent(id)' <=> Unsent(id)
      /\ Answered(id)' <=> Answered(id)
      /\ Fresh(id)' <=> Fresh(id)
  BY <1>1 DEF Unsent, Answered, Returned, Ended, CallId, Fresh, SentRequest, CmdOf
<1>5. /\ \A j, k \in OnWire(id) : j = k
      /\ \A j, k \in OnWire(id)' : j = k
      /\ OnWire(id)' # {} => OnWire(id) # {} /\ (id[1] = c => i \notin OnWire(id))
  <2>1. CASE id[1] # c
    BY <1>1, <1>2, <2>1 DEF OnWire, OnceAt
  <2>2. CASE id[1] = c
    <3>1. \A j \in OnWire(id)' : At(j) \in OnWire(id) /\ At(j) # i
      BY <1>3, <2>2 DEF OnWire
    <3>2. \A j, k \in OnWire(id) : j = k
      BY <1>2 DEF OnceAt
    <3>3. \A j, k \in OnWire(id)' : j = k
      BY <1>3, <3>1, <3>2, <2>2 DEF OnWire
    <3> QED  BY <3>1, <3>2, <3>3
  <2> QED  BY <2>1, <2>2
<1>6. CASE Lose(c, i)
  <2>1. InThread(id)' <=> InThread(id)
    BY <1>6 DEF Lose, InThread, Working
  <2> QED  BY <1>2, <1>4, <1>5, <2>1 DEF OnceAt
<1>7. CASE Recv(c, i)
  <2>1. msg' = {wire[c][i]} /\ bpc = "poll" /\ wire[c][i].id[1] = c
    BY <1>7 DEF Recv, CInv, ConnInv, ConnAt, Sent
  <2>2. ~InThread(id)
    BY <2>1 DEF InThread, Working
  <2>3. InThread(id)' => id[1] = c /\ i \in OnWire(id)
    BY <2>1 DEF InThread, OnWire
  <2> QED  BY <1>2, <1>4, <1>5, <2>2, <2>3 DEF OnceAt
<1> QED  BY <1>6, <1>7

\* The packets of the other calls stay where they are when one is sent.
LEMMA SendOnWire ==
    ASSUME TInv, NEW c \in Clients, NEW k, NEW cmd, NEW t, Send(c, k, cmd, t),
           NEW id \in Ids
    PROVE  /\ id # CallId(c)' \/ cmd = "STATUS" => OnWire(id)' = OnWire(id)
           /\ OnWire(id) = {} => \A i, j \in OnWire(id)' : i = j
<1>1. id[1] \in Clients
  BY DEF Ids
<1> DEFINE n == Len(wire[c]) + 1
<1>2. /\ DOMAIN wire'[c] = 1 .. n /\ DOMAIN wire[c] = 1 .. Len(wire[c]) /\ Len(wire[c]) \in Nat
      /\ \A i \in DOMAIN wire[c] : wire'[c][i] = wire[c][i]
      /\ wire'[c][n].id = CallId(c)' /\ wire'[c][n].cmd = cmd
      /\ \A d \in Clients \ {c} : wire'[d] = wire[d]
  <2> DEFINE p == [id |-> <<c, calls'[c]>>, cmd |-> cmd, topic |-> t, conn |-> k]
  <2>1. p.id = CallId(c)' /\ p.cmd = cmd
    BY DEF CallId
  <2>2. /\ DOMAIN wire'[c] = 1 .. n /\ DOMAIN wire[c] = 1 .. Len(wire[c]) /\ Len(wire[c]) \in Nat
        /\ \A i \in DOMAIN wire[c] : wire'[c][i] = wire[c][i]
        /\ wire'[c][n] = p
        /\ \A d \in Clients \ {c} : wire'[d] = wire[d]
    BY SendFacts
  <2> HIDE DEF p
  <2> QED  BY <2>1, <2>2
<1>3. DOMAIN wire'[c] = DOMAIN wire[c] \union {n}
  BY <1>2
<1> HIDE DEF n
<1>4. CASE id[1] # c
  BY <1>1, <1>2, <1>4 DEF OnWire
<1>5. CASE id[1] = c
  BY <1>2, <1>3, <1>5 DEF OnWire
<1> QED  BY <1>4, <1>5

LEMMA OnceCall ==
    ASSUME CInv, OnceInv, NEW c \in Clients, NEW cmd \in Cmds, NEW t \in Topics,
           NEW resend \in Resend, Call(c, cmd, t, resend), [Next]_vars
    PROVE  OnceInv'
<1> USE DEF netVars, clientVars, topicVars, dedupVars, bgVars, userVars, hist
<1> SUFFICES ASSUME NEW id \in Ids PROVE OnceAt(id)'
  BY DEF OnceInv
<1> DEFINE first == IF cmd = "REQUEST" /\ t \notin known[c] THEN "STATUS" ELSE cmd
<1>1. /\ cpc[c] = "idle" /\ Send(c, conn[c], first, t)
      /\ UNCHANGED <<conn, inbox, results, bpc, msg, done, taken>>
      /\ calls' = [calls EXCEPT ![c] = @ + 1]
      /\ cpc' = [cpc EXCEPT ![c] = IF first = "STATUS" THEN "status" ELSE "send"]
  BY DEF Call
<1> HIDE DEF first
<1>2. TInv /\ OnceAt(id) /\ id[1] \in Clients /\ id = <<id[1], id[2]>> /\ id[2] \in Nat
  BY DEF OnceInv, Ids, CInv
<1>3. calls'[c] = calls[c] + 1 /\ calls[c] \in Nat /\ (id[1] # c => calls'[id[1]] = calls[id[1]])
  BY <1>1, <1>2, CountTypes DEF TInv, TypeOK
<1>4. inbox[c] = {} /\ (id[1] # c => cpc'[id[1]] = cpc[id[1]])
  BY <1>1, <1>2 DEF CInv, ConnInv, ConnAt, TInv, TypeOK
<1>5. InThread(id)' <=> InThread(id)
  BY <1>1 DEF InThread, Working
<1>6. Fresh(id) => Fresh(id)'
  BY <1>1, <1>2, RequestKept DEF Fresh
<1>7. Answered(id)' => Answered(id)
  <2>1. Returned(id[1], id[2])' <=> Returned(id[1], id[2])
    BY <1>1 DEF Returned, Ended
  <2>2. CASE id[1] = c
    BY <1>1, <1>4, <2>1, <2>2 DEF Answered
  <2>3. CASE id[1] # c
    BY <1>1, <1>3, <1>4, <2>1, <2>3 DEF Answered, CallId
  <2> QED  BY <2>2, <2>3
<1>8. CASE id = CallId(c)'
  <2>1. id[1] = c /\ id[2] = calls[c] + 1
    BY <1>3, <1>8 DEF CallId
  <2>2. Unsent(id)
    BY <1>3, <2>1 DEF Unsent
  <2>3. OnWire(id) = {} /\ ~InThread(id) /\ Fresh(id)
    BY <1>2, <2>2 DEF OnceAt
  <2>4. ~Answered(id)
    <3>1. calls[c] = Len(results[c]) /\ DOMAIN results[c] = 1 .. Len(results[c])
      BY <1>1, <1>2, LenProperties, CountTypes DEF TInv, TypeOK, Counted
    <3>2. ~Returned(id[1], id[2])
      BY <1>3, <2>1, <3>1 DEF Returned, Ended
    <3> QED  BY <1>1, <2>1, <3>2 DEF Answered
  <2>5. \A i, j \in OnWire(id)' : i = j
    BY <1>1, <1>2, <2>3, SendOnWire
  <2>6. Unsent(id)' => OnWire(id)' = {}
    <3> SUFFICES ASSUME Unsent(id)' PROVE OnWire(id)' = {}
      OBVIOUS
    <3>1. cpc'[c] = "status"
      BY <1>3, <2>1 DEF Unsent
    <3>2. first = "STATUS"
      BY <1>1, <3>1 DEF TInv, TypeOK, CInv
    <3> QED  BY <1>1, <1>2, <2>3, <3>2, SendOnWire
  <2> QED  BY <1>5, <1>6, <1>7, <2>3, <2>4, <2>5, <2>6 DEF OnceAt
<1>9. CASE id # CallId(c)'
  <2>1. OnWire(id)' = OnWire(id)
    BY <1>1, <1>2, <1>9, SendOnWire
  <2>2. Unsent(id)' => Unsent(id)
    <3>1. CASE id[1] = c
      BY <1>1, <1>2, <1>3, <1>9, <3>1 DEF Unsent, CallId
    <3>2. CASE id[1] # c
      BY <1>3, <1>4, <3>2 DEF Unsent, CallId
    <3> QED  BY <3>1, <3>2
  <2> QED  BY <1>2, <1>5, <1>6, <1>7, <2>1, <2>2 DEF OnceAt
<1> QED  BY <1>8, <1>9

(* How a step of a client that does not resend moves its call: the call    *)
(* ends, or its packet follows that of the status.                         *)
Ends(c, how) ==
    /\ \E ptrs : Finish(c, how, ptrs)
    /\ UNCHANGED wire
    /\ how = "returned" => cpc[c] = "status" \/ inbox[c] # {}

GoesOn(c) ==
    /\ cpc[c] = "status"
    /\ cpc' = [cpc EXCEPT ![c] = "send"]
    /\ \E k, cmd, t : Send(c, k, cmd, t)
    /\ UNCHANGED results

LEMMA ClientMoves ==
    ASSUME TInv, NoResend, NEW c \in Clients, ClientStep(c)
    PROVE  /\ cpc[c] # "idle"
           /\ UNCHANGED <<calls, call, bpc, msg, done, taken>>
           /\ inbox' = [inbox EXCEPT ![c] = {}]
           /\ Ends(c, "returned") \/ Ends(c, "threw") \/ GoesOn(c)
<1> USE DEF netVars, clientVars, topicVars, dedupVars, bgVars, userVars, hist
<1>1. ASSUME NEW k, NEW exists, cpc[c] = "status", AfterStatus(c, k, exists)
      PROVE  Ends(c, "returned") \/ GoesOn(c)
  BY <1>1 DEF AfterStatus, Ends, GoesOn
<1>2. CASE StatusReply(c)
  BY <1>1, <1>2 DEF StatusReply
<1>3. CASE StatusTimeout(c)
  BY <1>1, <1>3 DEF StatusTimeout, Reconnect, Ends
<1>4. CASE CallReply(c)
  BY <1>4 DEF CallReply, Ends
<1>5. CASE CallTimeout(c)
  BY <1>5 DEF CallTimeout, Reconnect, Ends, NoResend
<1> QED  BY <1>2, <1>3, <1>4, <1>5 DEF ClientStep

\* What Finish adds to the history.
LEMMA FinishFacts ==
    ASSUME TInv, NEW c \in Clients, NEW how, NEW ptrs, Finish(c, how, ptrs), cpc[c] # "idle"
    PROVE  /\ calls[c] = Len(results[c]) + 1
           /\ Ended(c) = 1 .. Len(results[c]) /\ Ended(c)' = 1 .. calls[c]
           /\ \A n \in Ended(c) : results'[c][n] = results[c][n]
           /\ results'[c][calls[c]] = [cmd |-> call[c].cmd, how |-> how, ptrs |-> ptrs]
           /\ cpc'[c] = "idle"
           /\ \A d \in Clients \ {c} : results'[d] = results[d] /\ cpc'[d] = cpc[d]
<1> DEFINE res == [cmd |-> call[c].cmd, how |-> how, ptrs |-> ptrs]
           S == Result \union {res}
<1>1. /\ results \in [Clients -> Seq(Result)] /\ results' = [results EXCEPT ![c] = Append(@, res)]
      /\ cpc \in [Clients -> {"idle", "status", "send"}] /\ cpc' = [cpc EXCEPT ![c] = "idle"]
  BY DEF Finish, TInv, TypeOK, Result
<1> HIDE DEF res
<1>2. results[c] \in Seq(S) /\ res \in S
  BY <1>1, SeqMonotonic
<1> HIDE DEF S
<1>3. /\ Len(results[c]) \in Nat
      /\ DOMAIN results[c] = 1 .. Len(results[c])
      /\ DOMAIN Append(results[c], res) = 1 .. Len(results[c]) + 1
      /\ \A n \in 1 .. Len(results[c]) : Append(results[c], res)[n] = results[c][n]
      /\ Append(results[c], res)[Len(results[c]) + 1] = res
  BY <1>2, AppendFacts, LenProperties
<1>4. calls[c] = Len(results[c]) + 1
  BY UnderWay
<1> QED  BY <1>1, <1>3, <1>4 DEF Ended, res

LEMMA OnceClient ==
    ASSUME CInv, OnceInv, NoResend, NEW c \in Clients, ClientStep(c), [Next]_vars
    PROVE  OnceInv'
<1> SUFFICES ASSUME NEW id \in Ids PROVE OnceAt(id)'
  BY DEF OnceInv
<1>1. /\ cpc[c] # "idle"
      /\ UNCHANGED <<calls, call, bpc, msg, done, taken>>
      /\ inbox' = [inbox EXCEPT ![c] = {}]
      /\ Ends(c, "returned") \/ Ends(c, "threw") \/ GoesOn(c)
  BY ClientMoves DEF CInv
<1>2. /\ TInv /\ OnceAt(id) /\ id[1] \in Clients /\ id = <<id[1], id[2]>> /\ id[2] \in Nat
      /\ inbox \in [Clients -> SUBSET Answer] /\ cpc \in [Clients -> {"idle", "status", "send"}]
      /\ results \in [Clients -> Seq(Result)]
  <2>1. TInv /\ OnceAt(id) /\ id[1] \in Clients /\ id = <<id[1], id[2]>> /\ id[2] \in Nat
    BY DEF OnceInv, Ids, CInv
  <2> QED  BY <2>1 DEF TInv, TypeOK, Result
<1>3. /\ calls[c] = Len(results[c]) + 1 /\ Len(results[c]) \in Nat /\ inbox'[c] = {}
      /\ Ended(c) = 1 .. Len(results[c])
  <2>1. calls[c] = Len(results[c]) + 1 /\ Len(results[c]) \in Nat
    BY <1>1, <1>2, UnderWay, CountTypes
  <2>2. Ended(c) = 1 .. Len(results[c])
    BY <1>2, LenProperties DEF Ended
  <2> QED  BY <1>1, <1>2, <2>1, <2>2
<1>4. InThread(id)' <=> InThread(id)
  BY <1>1 DEF InThread, Working
<1>5. Fresh(id) => Fresh(id)'
  BY <1>1, <1>2, RequestKept DEF Fresh
<1>6. ASSUME NEW how \in {"returned", "threw"}, Ends(c, how)
      PROVE  OnceAt(id)'
  <2>1. PICK ptrs : Finish(c, how, ptrs)
    BY <1>6 DEF Ends
  <2>2. /\ Ended(c)' = 1 .. calls[c] /\ cpc'[c] = "idle"
        /\ \A n \in Ended(c) : results'[c][n] = results[c][n]
        /\ results'[c][calls[c]].how = how
        /\ \A d \in Clients \ {c} : results'[d] = results[d] /\ cpc'[d] = cpc[d]
    <3>1. results'[c][calls[c]] = [cmd |-> call[c].cmd, how |-> how, ptrs |-> ptrs]
      BY <1>1, <1>2, <2>1, FinishFacts
    <3> QED  BY <1>1, <1>2, <2>1, <3>1, FinishFacts
  <2>3. OnWire(id)' = OnWire(id)
    BY <1>6 DEF OnWire, Ends
  <2>4. CASE id[1] # c
    <3>1. (Unsent(id)' <=> Unsent(id)) /\ (Answered(id)' <=> Answered(id))
      BY <1>1, <1>2, <2>2, <2>4 DEF Unsent, Answered, Returned, Ended, CallId
    <3> QED  BY <1>2, <1>4, <1>5, <2>3, <3>1 DEF OnceAt
  <2>5. CASE id[1] = c /\ id[2] # calls[c]
    <3>1. Unsent(id)' => Unsent(id)
      BY <1>1, <2>2, <2>5 DEF Unsent
    <3>2. Answered(id)' => Answered(id)
      <4> SUFFICES ASSUME Answered(id)' PROVE Returned(c, id[2])
        BY <2>5 DEF Answered
      <4>1. id[2] \in 1 .. calls[c] /\ results'[c][id[2]].how = "returned"
        BY <2>2, <2>5 DEF Answered, Returned
      <4>2. id[2] \in Ended(c)
        BY <1>3, <2>5, <4>1
      <4> QED  BY <2>2, <4>1, <4>2 DEF Returned
    <3> QED  BY <1>2, <1>4, <1>5, <2>3, <3>1, <3>2 DEF OnceAt
  <2>6. CASE id[1] = c /\ id[2] = calls[c]
    <3>1. id = CallId(c) /\ ~Unsent(id)'
      BY <1>1, <1>2, <1>3, <2>2, <2>6 DEF CallId, Unsent
    <3>2. Answered(id)' => Unsent(id) \/ Answered(id)
      <4> SUFFICES ASSUME Answered(id)' PROVE Unsent(id) \/ Answered(id)
        OBVIOUS
      <4>1. how = "returned"
        BY <2>2, <2>6 DEF Answered, Returned
      <4>2. cpc[c] = "status" \/ (cpc[c] = "send" /\ inbox[c] # {})
        BY <1>1, <1>2, <1>6, <4>1 DEF Ends
      <4> QED  BY <2>6, <3>1, <4>2 DEF Unsent, Answered
    <3> QED  BY <1>2, <1>4, <1>5, <2>3, <3>1, <3>2 DEF OnceAt
  <2> QED  BY <2>4, <2>5, <2>6
<1>7. CASE GoesOn(c)
  <2>1. PICK k, cmd, t : Send(c, k, cmd, t)
    BY <1>7 DEF GoesOn
  <2>2. cpc[c] = "status" /\ cpc' = [cpc EXCEPT ![c] = "send"] /\ results' = results
    BY <1>7 DEF GoesOn
  <2>3. CallId(c)' = CallId(c)
    BY <1>1 DEF CallId
  <2>4. Answered(id)' => Answered(id)
    <3>1. Returned(id[1], id[2])' <=> Returned(id[1], id[2])
      BY <2>2 DEF Returned, Ended
    <3>2. id[1] # c => cpc'[id[1]] = cpc[id[1]] /\ inbox'[id[1]] = inbox[id[1]]
      BY <1>1, <1>2, <2>2
    <3> QED  BY <1>1, <1>3, <3>1, <3>2 DEF Answered, CallId
  <2>5. Unsent(id)' => Unsent(id)
    <3>1. id[1] # c => cpc'[id[1]] = cpc[id[1]]
      BY <1>2, <2>2
    <3> QED  BY <1>1, <2>2, <3>1 DEF Unsent, CallId
  <2>6. CASE id # CallId(c)
    <3>1. OnWire(id)' = OnWire(id)
      BY <1>2, <2>1, <2>3, <2>6, SendOnWire
    <3> QED  BY <1>2, <1>4, <1>5, <2>4, <2>5, <3>1 DEF OnceAt
  <2>7. CASE id = CallId(c)
    <3>1. Unsent(id) /\ id[1] = c /\ id[2] = calls[c]
      BY <2>2, <2>7 DEF Unsent, CallId
    <3>2. OnWire(id) = {} /\ ~InThread(id) /\ Fresh(id)
      BY <1>2, <3>1 DEF OnceAt
    <3>3. \A i, j \in OnWire(id)' : i = j
      BY <1>2, <2>1, <3>2, SendOnWire
    <3>4. ~Unsent(id)'
      BY <1>1, <1>2, <1>3, <2>2, <3>1 DEF Unsent
    <3>5. ~Answered(id)
      BY <1>3, <2>2, <3>1 DEF Answered, Returned
    <3> QED  BY <1>4, <1>5, <2>4, <3>2, <3>3, <3>4, <3>5 DEF OnceAt
  <2> QED  BY <2>6, <2>7
<1> QED  BY <1>1, <1>6, <1>7

(* The thread answers: from then on there is no packet of the call.        *)
LEMMA OnceAnswer ==
    ASSUME CInv, OnceInv, NEW p \in msg, Working, bpc' = "poll", NEW answer,
           SendAnswer(p, answer), UNCHANGED <<wire, cpc, call, calls, results, msg>>,
           [Next]_vars,
           \A id \in Ids : \/ done'[id] = done[id] /\ taken'[id] = taken[id]
                           \/ id = p.id /\ p.cmd # "STATUS"
    PROVE  OnceInv'
<1> SUFFICES ASSUME NEW id \in Ids PROVE OnceAt(id)'
  BY DEF OnceInv
<1> DEFINE c == id[1]
<1>1. OnceAt(id) /\ c \in Clients /\ TInv /\ ConnAt(c)
  BY DEF OnceInv, CInv, ConnInv, Ids
<1>2. inbox'[c] = IF Live(c, p) THEN {answer} ELSE inbox[c]
  <2>1. p \in Packet /\ TParts
    BY <1>1, TypeParts DEF TInv, TypeOK
  <2>2. inbox' = [d \in Clients |-> IF d = p.id[1] /\ p.conn = conn[d] THEN {answer}
                                      ELSE inbox[d]]
    BY <2>1, SendAnswerFacts
  <2> QED  BY <1>1, <2>2 DEF Live
<1>3. ~InThread(id)'
  BY DEF InThread, Working
<1>4. OnWire(id)' = OnWire(id) /\ (Unsent(id)' <=> Unsent(id))
  BY DEF OnWire, Unsent, CallId
<1>5. InThread(id) => OnWire(id) = {} /\ ~Unsent(id)
  BY <1>1 DEF OnceAt
<1>6. Answered(id)' => Answered(id) \/ InThread(id)
  <2> SUFFICES ASSUME Answered(id)', ~Answered(id) PROVE InThread(id)
    OBVIOUS
  <2>1. Live(c, p) /\ cpc[c] = "send" /\ id = CallId(c)
    BY <1>2 DEF Answered, Returned, Ended, CallId
  <2>2. p \in Handling(c)
    BY <2>1 DEF Handling
  <2>3. p.id = CallId(c) /\ p.cmd = call[c].cmd /\ p.cmd # "STATUS"
    BY <1>1, <2>1, <2>2 DEF ConnAt, Asks, Begun, Expected
  <2> QED  BY <2>1, <2>3 DEF InThread
<1>7. OnWire(id) # {} \/ Unsent(id) => Fresh(id)'
  <2> SUFFICES ASSUME OnWire(id) # {} \/ Unsent(id) PROVE Fresh(id)'
    OBVIOUS
  <2>1. ~(id = p.id /\ p.cmd # "STATUS")
    BY <1>5 DEF InThread
  <2>2. Fresh(id)
    BY <1>1 DEF OnceAt
  <2> QED  BY <1>1, <2>1, <2>2, RequestKept DEF Fresh
<1> QED  BY <1>1, <1>3, <1>4, <1>5, <1>6, <1>7 DEF OnceAt

(* The other steps, as far as the clients can tell: the thread answers the *)
(* packet it has, or nothing happens but that a request is handed over.    *)
AnswerStep(p) ==
    /\ Working /\ bpc' = "poll"
    /\ \E answer : SendAnswer(p, answer) /\ (answer.cmd \in {"PUT", "POP"} => Serve(p))
    /\ UNCHANGED <<wire, cpc, call, calls, results, msg>>
    /\ done' = done \/ Took(p.id)
    /\ \A id \in Ids : \/ done'[id] = done[id] /\ taken'[id] = taken[id]
                       \/ id = p.id /\ p.cmd # "STATUS"

QuietStep ==
    /\ UNCHANGED <<netVars, clientVars, msg, taken>>
    /\ Working' => Working
    /\ \A id \in Ids : \/ done'[id] = done[id]
                       \/ done'[id] = done[id] + 1 /\ SentRequest(id)

LEMMA StepKinds ==
    ASSUME CInv, [Next]_vars
    PROVE  \/ \E c \in Clients : \E i \in DOMAIN wire[c] : Lose(c, i) \/ Recv(c, i)
           \/ \E c \in Clients, cmd \in Cmds, t \in Topics, resend \in Resend :
                <<c, cmd, t>> \in Calls /\ Call(c, cmd, t, resend)
           \/ \E c \in Clients : ClientStep(c)
           \/ \E p \in msg : AnswerStep(p)
           \/ QuietStep
<1> USE DEF netVars, clientVars, topicVars, dedupVars, bgVars, userVars, hist, Working
<1>1. ASSUME NEW p \in msg, NoTopic(p) \/ AnswerAgain(p) \/ SendReply(p)
      PROVE  AnswerStep(p)
  <2>1. CASE NoTopic(p)
    <3> DEFINE a == [cmd |-> IF p.cmd = "STATUS" THEN "ABSENT" ELSE "ERROR",
                     topic |-> p.topic, ptrs |-> <<>>]
    <3>1. SendAnswer(p, a) /\ a.cmd \notin {"PUT", "POP"}
      BY <2>1 DEF NoTopic
    <3> HIDE DEF a
    <3> QED  BY <2>1, <3>1 DEF NoTopic, AnswerStep
  <2>2. CASE AnswerAgain(p)
    <3>1. PICK r \in cached[p.topic] : SendAnswer(p, r)
      BY <2>2 DEF AnswerAgain
    <3>2. p.topic \in Topics
      BY DEF CInv, TInv, TypeOK, Packet
    <3>3. r.cmd = "REQUEST"
      BY <3>2 DEF CInv, EntryInv
    <3> QED  BY <2>2, <3>1, <3>3 DEF AnswerAgain, AnswerStep
  <2>3. CASE SendReply(p)
    <3> DEFINE a == [cmd |-> "REQUEST", topic |-> p.topic, ptrs |-> queue[p.topic]]
    <3>1. SendAnswer(p, a) /\ a.cmd = "REQUEST"
      BY <2>3 DEF SendReply
    <3> HIDE DEF a
    <3> QED  BY <2>3, <3>1 DEF SendReply, AnswerStep
  <2> QED  BY <1>1, <2>1, <2>2, <2>3
<1>2. ASSUME NEW p \in msg, Serve(p)
      PROVE  AnswerStep(p)
  <2>1. \A id \in Ids : \/ done'[id] = done[id] /\ taken'[id] = taken[id]
                        \/ id = p.id /\ p.cmd # "STATUS"
    <3> SUFFICES ASSUME NEW id \in Ids, id # p.id \/ p.cmd = "STATUS"
                 PROVE  done'[id] = done[id] /\ taken'[id] = taken[id]
      OBVIOUS
    <3>1. done'[id] = done[id]
      <4>1. CASE p.cmd = "PUT"
        BY <1>2, <4>1 DEF Serve, Took, CInv, TInv, TypeOK
      <4>2. CASE p.cmd # "PUT"
        BY <1>2, <4>2 DEF Serve
      <4> QED  BY <4>1, <4>2
    <3>2. taken'[id] = taken[id]
      <4>1. CASE p.cmd = "POP"
        BY <1>2, <4>1 DEF Serve, CInv, TInv, TypeOK
      <4>2. CASE p.cmd # "POP"
        BY <1>2, <4>2 DEF Serve
      <4> QED  BY <4>1, <4>2
    <3> QED  BY <3>1, <3>2
  <2>2. \E answer : SendAnswer(p, answer)
    BY <1>2 DEF Serve
  <2> QED  BY <1>2, <2>1, <2>2 DEF Serve, AnswerStep
<1>3. ASSUME NEW p \in msg, RecordRequest(p) \/ EnqueueRequest(p) \/ Announce(p)
      PROVE  QuietStep
  BY <1>3 DEF RecordRequest, EnqueueRequest, Announce, QuietStep
<1>4. ASSUME NEW t, AddTopic(t) \/ PutData(t) \/ PopData(t)
      PROVE  QuietStep
  BY <1>4 DEF AddTopic, PutData, PopData, QuietStep
<1>5. ASSUME BgStop \/ ReplyPut \/ ReplyFlag \/ ResetStartTime \/ Shutdown \/ UNCHANGED vars
      PROVE  QuietStep
  BY <1>5 DEF BgStop, ReplyPut, ReplyFlag, ResetStartTime, Shutdown, vars, QuietStep
<1>6. CASE WaitForRequest
  <2>1. UNCHANGED <<netVars, clientVars, bpc, msg, taken>>
    BY <1>6 DEF WaitForRequest
  <2>2. PICK t \in newRequest :
          LET of == IF queue[t] = <<>> THEN NoId ELSE Head(queue[t]).of
          IN  IF queue[t] # <<>> /\ Head(queue[t]).by = "REQUEST" THEN Took(of) ELSE UNCHANGED done
    BY <1>6 DEF WaitForRequest
  <2>3. t \in Topics /\ queue[t] \in Seq(Entry) /\ done \in [Ids -> Nat]
    BY DEF CInv, TInv, TypeOK
  <2>4. CASE queue[t] # <<>> /\ Head(queue[t]).by = "REQUEST"
    <3>1. 1 \in DOMAIN queue[t] /\ Head(queue[t]) = queue[t][1]
      BY <2>3, <2>4, EmptySeq, LenProperties
    <3>2. SentRequest(Head(queue[t]).of)
      BY <2>3, <2>4, <3>1 DEF CInv, EntryInv
    <3>3. done' = [done EXCEPT ![Head(queue[t]).of] = @ + 1]
      BY <2>2, <2>4 DEF Took
    <3>4. \A id \in Ids : \/ done'[id] = done[id]
                          \/ done'[id] = done[id] + 1 /\ SentRequest(id)
      BY <2>3, <3>2, <3>3
    <3> QED  BY <2>1, <3>4 DEF QuietStep
  <2>5. CASE ~(queue[t] # <<>> /\ Head(queue[t]).by = "REQUEST")
    BY <2>1, <2>2, <2>5 DEF QuietStep
  <2> QED  BY <2>4, <2>5
<1> QED  BY <1>1, <1>2, <1>3, <1>4, <1>5, <1>6 DEF Next, BgStep, ServeRequests

LEMMA OnceNext ==
    ASSUME CInv, OnceInv, NoResend, TRUE \notin Resend, [Next]_vars
    PROVE  OnceInv' /\ NoResend'
<1>1. OnceInv'
  <2>1. ASSUME NEW p \in msg, AnswerStep(p)
        PROVE  OnceInv'
    BY <2>1, OnceAnswer DEF AnswerStep
  <2>2. ASSUME QuietStep
        PROVE  OnceInv'
    <3> SUFFICES ASSUME NEW id \in Ids PROVE OnceAt(id)'
      BY DEF OnceInv
    <3>1. InThread(id)' => InThread(id)
      BY <2>2 DEF QuietStep, InThread
    <3>2. taken'[id] = taken[id] /\ (done'[id] = done[id] \/ SentRequest(id))
      BY <2>2 DEF QuietStep
    <3>3. OnceAt(id)
      BY DEF OnceInv
    <3> QED  BY <2>2, <3>1, <3>2, <3>3, OnceFrame DEF QuietStep, netVars, clientVars
  <2> QED  BY <2>1, <2>2, StepKinds, OnceNet, OnceCall, OnceClient
<1>2. NoResend'
  <2>1. CASE \E c \in Clients : \E cmd \in Cmds, t \in Topics, resend \in Resend :
               Call(c, cmd, t, resend)
    <3>1. PICK c \in Clients, cmd \in Cmds, t \in Topics, resend \in Resend : Call(c, cmd, t, resend)
      BY <2>1
    <3>2. resend = FALSE
      BY ConstantTypes
    <3> QED  BY <3>1, <3>2 DEF Call, NoResend, CInv, TInv, TypeOK
  <2>2. CASE call' = call
    BY <2>2 DEF NoResend
  <2> QED  BY <2>1, <2>2, CallSteps
<1> QED  BY <1>1, <1>2

-----------------------------------------------------------------------------
(* Puts and pops.  What the answer that waits for the client says is what  *)
(* the server did, and so it stays after the return.                       *)
InboxTells(c) ==
    cpc[c] = "send" => \A r \in inbox[c] : r.cmd = call[c].cmd =>
        /\ r.cmd = "PUT" => done[CallId(c)] = 1
        /\ r.cmd = "POP" => r.ptrs = taken[CallId(c)]

DataAt(c) ==
    /\ InboxTells(c)
    /\ \A n \in Ended(c) : Returned(c, n) =>
         /\ results[c][n].cmd = "PUT" => done[<<c, n>>] = 1
         /\ results[c][n].cmd = "POP" => results[c][n].ptrs = taken[<<c, n>>]

DataInv == \A c \in Clients : DataAt(c)

LEMMA DataInit == Init => DataInv
  BY DEF Init, DataInv, DataAt, InboxTells, Ended

\* What has been answered is not touched again.
LEMMA AnsweredKept ==
    ASSUME CInv, OnceInv, [Next]_vars, NEW id \in Ids, Answered(id), CmdOf(id) # "REQUEST"
    PROVE  done'[id] = done[id] /\ taken'[id] = taken[id]
<1> USE DEF netVars, clientVars, topicVars, dedupVars, bgVars, userVars, hist
<1>1. ~InThread(id)
  BY DEF OnceInv, OnceAt
<1>2. CASE \E c \in Clients : \E i \in DOMAIN wire[c] : Lose(c, i) \/ Recv(c, i)
  BY <1>2 DEF Lose, Recv
<1>3. CASE \E c \in Clients, cmd \in Cmds, t \in Topics, resend \in Resend :
             <<c, cmd, t>> \in Calls /\ Call(c, cmd, t, resend)
  BY <1>3 DEF Call
<1>4. CASE \E c \in Clients : ClientStep(c)
  BY <1>4 DEF ClientStep, StatusReply, StatusTimeout, CallReply, CallTimeout
<1>5. CASE \E p \in msg : AnswerStep(p)
  BY <1>1, <1>5 DEF AnswerStep, InThread
<1>6. CASE QuietStep
  BY <1>6 DEF QuietStep, SentRequest
<1> QED  BY <1>2, <1>3, <1>4, <1>5, <1>6, StepKinds

(* A client that gets no answer and ends no call in a step.                *)
LEMMA DataFrame ==
    ASSUME CInv, OnceInv, [Next]_vars, NEW c \in Clients, DataAt(c),
           \/ inbox'[c] = inbox[c] /\ cpc'[c] = cpc[c] /\ call'[c] = call[c] /\ calls'[c] = calls[c]
           \/ inbox'[c] = {}
           \/ InboxTells(c)',
           results'[c] = results[c]
    PROVE  DataAt(c)'
<1>1. TInv /\ results[c] \in Seq(Result) /\ DOMAIN results[c] = 1 .. Len(results[c])
      /\ Len(results[c]) \in Nat /\ calls[c] \in 0 .. MaxCalls /\ MaxCalls \in Nat
      /\ Len(results[c]) <= calls[c]
  <2>1. TInv /\ results[c] \in Seq(Result)
    BY DEF CInv, TInv, TypeOK, Result
  <2>2. calls[c] \in 0 .. MaxCalls /\ calls[c] = Len(results[c]) + IF cpc[c] = "idle" THEN 0 ELSE 1
    BY <2>1 DEF TInv, TypeOK, Counted
  <2>3. Len(results[c]) \in Nat /\ DOMAIN results[c] = 1 .. Len(results[c])
    BY <2>1, LenProperties
  <2>4. MaxCalls \in Nat
    BY ConstantTypes
  <2>5. calls[c] = Len(results[c]) \/ calls[c] = Len(results[c]) + 1
    <3>1. CASE cpc[c] = "idle"
      BY <2>2, <2>3, <3>1
    <3>2. CASE cpc[c] # "idle"
      BY <2>2, <2>3, <3>2
    <3> QED  BY <3>1, <3>2
  <2>6. Len(results[c]) <= calls[c]
    BY <2>3, <2>5
  <2> QED  BY <2>1, <2>2, <2>3, <2>4, <2>6
<1>2. ASSUME NEW n \in Ended(c), Returned(c, n), results[c][n].cmd # "REQUEST"
      PROVE  done'[<<c, n>>] = done[<<c, n>>] /\ taken'[<<c, n>>] = taken[<<c, n>>]
  <2>1. n \in 1 .. Len(results[c]) /\ n <= calls[c] /\ n \in 1 .. MaxCalls
    BY <1>1 DEF Ended
  <2>2. <<c, n>> \in Ids
    BY <2>1 DEF Ids
  <2>3. Answered(<<c, n>>) /\ CmdOf(<<c, n>>) # "REQUEST"
    BY <1>2, <2>1 DEF Answered, CmdOf
  <2> QED  BY <2>2, <2>3, AnsweredKept
<1>3. ASSUME cpc[c] = "send", inbox[c] # {}, call[c].cmd # "REQUEST"
      PROVE  done'[CallId(c)] = done[CallId(c)] /\ taken'[CallId(c)] = taken[CallId(c)]
  <2>1. CallId(c) \in Ids /\ CallId(c)[1] = c /\ CallId(c)[2] = calls[c] /\ calls[c] = Len(results[c]) + 1
    BY <1>1, <1>3, UnderWay DEF CallId
  <2>2. Answered(CallId(c))
    BY <1>3, <2>1 DEF Answered
  <2>3. CmdOf(CallId(c)) # "REQUEST"
    BY <1>1, <1>3, <2>1 DEF CmdOf
  <2> QED  BY <2>1, <2>2, <2>3, AnsweredKept
<1>4. (\A n \in Ended(c) : Returned(c, n) =>
         /\ results[c][n].cmd = "PUT" => done[<<c, n>>] = 1
         /\ results[c][n].cmd = "POP" => results[c][n].ptrs = taken[<<c, n>>])'
  BY <1>2 DEF DataAt, Returned, Ended
<1>5. InboxTells(c)'
  <2>1. CASE inbox'[c] = {} \/ InboxTells(c)'
    BY <2>1 DEF InboxTells
  <2>2. CASE inbox'[c] = inbox[c] /\ cpc'[c] = cpc[c] /\ call'[c] = call[c] /\ calls'[c] = calls[c]
    <3>1. CallId(c)' = CallId(c)
      BY <2>2 DEF CallId
    <3> QED  BY <1>3, <2>2, <3>1 DEF DataAt, InboxTells
  <2> QED  BY <2>1, <2>2
<1> QED  BY <1>4, <1>5 DEF DataAt

LEMMA DataClient ==
    ASSUME CInv, OnceInv, NoResend, DataInv, [Next]_vars, NEW c \in Clients, ClientStep(c)
    PROVE  DataInv'
<1> SUFFICES ASSUME NEW d \in Clients PROVE DataAt(d)'
  BY DEF DataInv
<1>1. /\ cpc[c] # "idle"
      /\ UNCHANGED <<calls, call, bpc, msg, done, taken>>
      /\ inbox' = [inbox EXCEPT ![c] = {}]
      /\ Ends(c, "returned") \/ Ends(c, "threw") \/ GoesOn(c)
  BY ClientMoves DEF CInv
<1>2. TInv /\ DataAt(d) /\ DataAt(c)
      /\ inbox \in [Clients -> SUBSET Answer] /\ cpc \in [Clients -> {"idle", "status", "send"}]
  BY DEF DataInv, CInv, TInv, TypeOK
<1>3. inbox'[c] = {}
  BY <1>1, <1>2
<1>4. CASE GoesOn(c)
  <2>1. results' = results /\ (d # c => inbox'[d] = inbox[d] /\ cpc'[d] = cpc[d])
    BY <1>1, <1>2, <1>4 DEF GoesOn
  <2> QED  BY <1>1, <1>2, <1>3, <2>1, DataFrame
<1>5. ASSUME NEW how, NEW ptrs, Finish(c, how, ptrs)
      PROVE  /\ d # c => DataAt(d)'
             /\ calls[c] = Len(results[c]) + 1
             /\ Ended(c) = 1 .. Len(results[c]) /\ Ended(c)' = 1 .. calls[c]
             /\ \A n \in Ended(c) : results'[c][n] = results[c][n]
             /\ results'[c][calls[c]] = [cmd |-> call[c].cmd, how |-> how, ptrs |-> ptrs]
  <2>1. d # c => results'[d] = results[d] /\ cpc'[d] = cpc[d] /\ inbox'[d] = inbox[d]
    BY <1>1, <1>2, <1>5, FinishFacts
  <2>2. results'[c][calls[c]] = [cmd |-> call[c].cmd, how |-> how, ptrs |-> ptrs]
    BY <1>1, <1>2, <1>5, FinishFacts
  <2> QED  BY <1>1, <1>2, <1>5, <2>1, <2>2, FinishFacts, DataFrame
<1>6. ASSUME NEW how, NEW ptrs, Finish(c, how, ptrs),
             how = "returned" =>
               /\ call[c].cmd = "PUT" => done[CallId(c)] = 1
               /\ call[c].cmd = "POP" => ptrs = taken[CallId(c)]
      PROVE  DataAt(d)'
  <2>1. CASE d # c
    BY <1>5, <1>6, <2>1
  <2>2. CASE d = c
    <3>1. /\ calls[c] = Len(results[c]) + 1
          /\ Ended(c) = 1 .. Len(results[c]) /\ Ended(c)' = 1 .. calls[c]
          /\ \A n \in Ended(c) : results'[c][n] = results[c][n]
          /\ results'[c][calls[c]] = [cmd |-> call[c].cmd, how |-> how, ptrs |-> ptrs]
      BY <1>5, <1>6
    <3>2. \A n \in Ended(c)' : n = calls[c] \/ n \in Ended(c)
      BY <1>2, <3>1, CountTypes
    <3>3. ASSUME NEW n \in Ended(c)', results'[c][n].how = "returned"
          PROVE  /\ results'[c][n].cmd = "PUT" => done[<<c, n>>] = 1
                 /\ results'[c][n].cmd = "POP" => results'[c][n].ptrs = taken[<<c, n>>]
      <4>1. CASE n = calls[c]
        BY <1>6, <3>1, <3>3, <4>1 DEF CallId
      <4>2. CASE n \in Ended(c)
        <5>1. results'[c][n] = results[c][n] /\ Returned(c, n)
          BY <3>1, <3>3, <4>2 DEF Returned
        <5> QED  BY <1>2, <4>2, <5>1 DEF DataAt
      <4> QED  BY <3>2, <4>1, <4>2
    <3> QED  BY <1>1, <1>3, <2>2, <3>3 DEF DataAt, InboxTells, Returned
  <2> QED  BY <2>1, <2>2
<1>7. CASE StatusReply(c) \/ StatusTimeout(c)
  <2>1. /\ cpc[c] = "status"
        /\ \/ \E how, ptrs : Finish(c, how, ptrs) /\ (how = "threw" \/ call[c].cmd = "STATUS")
           \/ GoesOn(c)
    <3>1. ASSUME NEW k, NEW exists, cpc[c] = "status", AfterStatus(c, k, exists)
          PROVE  (\E how, ptrs : Finish(c, how, ptrs) /\ (how = "threw" \/ call[c].cmd = "STATUS"))
                 \/ GoesOn(c)
      BY <3>1 DEF AfterStatus, GoesOn
    <3>2. CASE StatusReply(c)
      BY <3>1, <3>2 DEF StatusReply
    <3>3. CASE StatusTimeout(c)
      BY <3>1, <3>3 DEF StatusTimeout
    <3> QED  BY <1>7, <3>2, <3>3
  <2> QED  BY <1>4, <1>6, <2>1
<1>8. CASE CallReply(c)
  <2>1. PICK r \in inbox[c] :
          LET good == /\ r.cmd = call[c].cmd
                      /\ r.topic = call[c].topic
                      /\ r.cmd = "REQUEST" => Len(r.ptrs) = 1
          IN  Finish(c, IF good THEN "returned" ELSE "threw", IF good THEN r.ptrs ELSE <<>>)
    BY <1>8 DEF CallReply
  <2> DEFINE good == /\ r.cmd = call[c].cmd
                     /\ r.topic = call[c].topic
                     /\ r.cmd = "REQUEST" => Len(r.ptrs) = 1
  <2>2. CASE good
    <3>1. Finish(c, "returned", r.ptrs)
      BY <2>1, <2>2
    <3>2. /\ call[c].cmd = "PUT" => done[CallId(c)] = 1
          /\ call[c].cmd = "POP" => r.ptrs = taken[CallId(c)]
      BY <1>2, <1>8, <2>2 DEF DataAt, InboxTells, CallReply
    <3> QED  BY <1>6, <3>1, <3>2
  <2>3. CASE ~good
    <3>1. Finish(c, "threw", <<>>)
      BY <2>1, <2>3
    <3> QED  BY <1>6, <3>1
  <2> QED  BY <2>2, <2>3
<1>9. CASE CallTimeout(c)
  <2>1. Finish(c, "threw", <<>>)
    BY <1>9 DEF CallTimeout, NoResend
  <2> QED  BY <1>6, <2>1
<1> QED  BY <1>7, <1>8, <1>9 DEF ClientStep

(* The thread answers a put after it stored, and a pop with what it took.  *)
LEMMA DataServe ==
    ASSUME CInv, OnceInv, DataInv, NEW p \in msg, Serve(p), [Next]_vars, NEW c \in Clients,
           Live(c, p), cpc[c] = "send"
    PROVE  InboxTells(c)'
<1> DEFINE a == [cmd |-> p.cmd, topic |-> p.topic,
                  ptrs |-> IF p.cmd \in {"PEEK", "POP"} THEN queue[p.topic] ELSE <<>>]
<1>1. p \in Packet /\ p.topic \in Topics /\ p.id \in Ids /\ TParts /\ TInv
      /\ done \in [Ids -> Nat] /\ taken \in [Ids -> Seq(Entry)] /\ queue[p.topic] \in Seq(Entry)
  <2>1. TInv
    BY DEF CInv
  <2>2. TParts
    BY <2>1, TypeParts
  <2>3. p \in Packet
    BY <2>1 DEF TInv, TypeOK
  <2>4. p.topic \in Topics /\ p.id \in Ids
    BY <2>3 DEF Packet
  <2> QED  BY <2>1, <2>2, <2>3, <2>4 DEF TInv, TypeOK
<1>2. SendAnswer(p, a) /\ UNCHANGED clientVars
  BY DEF Serve
<1>3. inbox'[c] = {a}
  <2> HIDE DEF a
  <2>1. inbox' = [d \in Clients |-> IF d = p.id[1] /\ p.conn = conn[d] THEN {a} ELSE inbox[d]]
    BY <1>1, <1>2, SendAnswerFacts
  <2> QED  BY <2>1 DEF Live
<1>4. p.id = CallId(c) /\ p.cmd = call[c].cmd /\ p.cmd # "STATUS" /\ CallId(c)' = CallId(c)
  <2>1. p \in Handling(c) /\ ConnAt(c)
    BY DEF Handling, Working, Serve, CInv, ConnInv
  <2> QED  BY <1>2, <2>1 DEF ConnAt, Asks, Begun, Expected, CallId, clientVars
<1>5. Fresh(p.id)
  <2>1. InThread(p.id)
    BY <1>4 DEF InThread, Working, Serve
  <2> QED  BY <1>1, <2>1 DEF OnceInv, OnceAt
<1>6. p.cmd = "PUT" => done'[p.id] = 1
  <2> SUFFICES ASSUME p.cmd = "PUT" PROVE done'[p.id] = 1
    OBVIOUS
  <2>1. CmdOf(p.id) = "PUT"
    <3>1. p.id[1] = c
      BY DEF Live
    <3>2. Sent(c, p)
      BY <3>1 DEF CInv, ConnInv, ConnAt
    <3> QED  BY <3>2 DEF Sent
  <2>2. done[p.id] = 0
    BY <1>5, <2>1 DEF Fresh, SentRequest
  <2> QED  BY <1>1, <2>2 DEF Serve, Took
<1>7. p.cmd = "POP" => taken'[p.id] = queue[p.topic]
  <2> SUFFICES ASSUME p.cmd = "POP" PROVE taken'[p.id] = queue[p.topic]
    OBVIOUS
  <2>1. taken[p.id] = <<>>
    BY <1>5 DEF Fresh
  <2>2. <<>> \o queue[p.topic] = queue[p.topic]
    BY <1>1, ConcatEmptySeq
  <2> QED  BY <1>1, <2>1, <2>2 DEF Serve
<1> QED  BY <1>2, <1>3, <1>4, <1>6, <1>7 DEF InboxTells, clientVars

LEMMA DataNext ==
    ASSUME CInv, OnceInv, NoResend, DataInv, [Next]_vars
    PROVE  DataInv'
<1> SUFFICES ASSUME NEW c \in Clients PROVE DataAt(c)'
  BY DEF DataInv
<1>1. DataAt(c) /\ TInv
  BY DEF DataInv, CInv
<1>2. CASE \E d \in Clients : \E i \in DOMAIN wire[d] : Lose(d, i) \/ Recv(d, i)
  BY <1>1, <1>2, DataFrame DEF Lose, Recv, clientVars
<1>3. ASSUME NEW d \in Clients, NEW cmd, NEW t, NEW resend, Call(d, cmd, t, resend)
      PROVE  DataAt(c)'
  <2>1. UNCHANGED <<inbox, results>>
    BY <1>3 DEF Call
  <2>2. CASE d = c
    <3>1. inbox'[c] = {}
      BY <1>3, <2>1, <2>2 DEF Call, CInv, ConnInv, ConnAt
    <3> QED  BY <1>1, <2>1, <3>1, DataFrame
  <2>3. CASE d # c
    <3>1. cpc'[c] = cpc[c] /\ call'[c] = call[c] /\ calls'[c] = calls[c]
      BY <1>1, <1>3, <2>3 DEF Call, TInv, TypeOK
    <3> QED  BY <1>1, <2>1, <3>1, DataFrame
  <2> QED  BY <2>2, <2>3
<1>4. ASSUME NEW d \in Clients, ClientStep(d)
      PROVE  DataAt(c)'
  BY <1>4, DataClient DEF DataInv
<1>5. ASSUME NEW p \in msg, AnswerStep(p)
      PROVE  DataAt(c)'
  <2>1. UNCHANGED <<cpc, call, calls, results>>
    BY <1>5 DEF AnswerStep
  <2>2. PICK answer : SendAnswer(p, answer) /\ (answer.cmd \in {"PUT", "POP"} => Serve(p))
    BY <1>5 DEF AnswerStep
  <2>3. inbox'[c] = IF Live(c, p) THEN {answer} ELSE inbox[c]
    <3>1. p \in Packet /\ TParts
      BY <1>1, TypeParts DEF TInv, TypeOK
    <3>2. inbox' = [d \in Clients |-> IF d = p.id[1] /\ p.conn = conn[d] THEN {answer}
                                        ELSE inbox[d]]
      BY <2>2, <3>1, SendAnswerFacts
    <3> QED  BY <3>2 DEF Live
  <2>4. CASE ~Live(c, p)
    BY <1>1, <2>1, <2>3, <2>4, DataFrame
  <2>5. CASE Live(c, p)
    <3>1. InboxTells(c)'
      <4>1. CASE answer.cmd \notin {"PUT", "POP"} \/ cpc[c] # "send"
        BY <2>1, <2>3, <2>5, <4>1 DEF InboxTells
      <4>2. CASE answer.cmd \in {"PUT", "POP"} /\ cpc[c] = "send"
        BY <2>2, <2>5, <4>2, DataServe
      <4> QED  BY <4>1, <4>2
    <3> QED  BY <1>1, <2>1, <3>1, DataFrame
  <2> QED  BY <2>4, <2>5
<1>6. CASE QuietStep
  BY <1>1, <1>6, DataFrame DEF QuietStep, netVars, clientVars
<1> QED  BY <1>2, <1>3, <1>4, <1>5, <1>6, StepKinds

(* put_data that returns has stored its message once (PutOnce), whatever   *)
(* packets and answers were lost, when the client does not resend.         *)
THEOREM PutStoredOnce ==
    ASSUME TRUE \notin Resend
    PROVE  Spec => []PutOnce
<1> DEFINE I == CInv /\ OnceInv /\ NoResend /\ DataInv
<1>1. Init => I
  BY CInvInit, OnceInit, DataInit
<1>2. I /\ [Next]_vars => I'
  BY CInvNext, OnceNext, DataNext
<1>3. I => PutOnce
  BY DEF DataInv, DataAt, PutOnce
<1> QED  BY <1>1, <1>2, <1>3, PTL DEF Spec

(* pop_data that returns gives the caller every entry its pop removed from *)
(* the topic (PopLosesNothing), when the client does not resend.           *)
THEOREM PopGivesAll ==
    ASSUME TRUE \notin Resend
    PROVE  Spec => []PopLosesNothing
<1> DEFINE I == CInv /\ OnceInv /\ NoResend /\ DataInv
<1>1. Init => I
  BY CInvInit, OnceInit, DataInit
<1>2. I /\ [Next]_vars => I'
  BY CInvNext, OnceNext, DataNext
<1>3. I => PopLosesNothing
  BY DEF DataInv, DataAt, PopLosesNothing
<1> QED  BY <1>1, <1>2, <1>3, PTL DEF Spec

=============================================================================
