-------------------------- MODULE HyperClient_proofs --------------------------
(***************************************************************************)
(* Proofs about HyperClient and its sockets for every set of sockets,      *)
(* descriptors and requests, every queue capacity and every mix of         *)
(* protocols.                                                              *)
(***************************************************************************)
EXTENDS HyperClient, TLAPS

Messages == Requests \cup Controls

\* The steps of a socket's task, and of a spawned task, with the panics of their adaptor.
TaskMoves(s) == TaskNext(s) \/ Http1Panics(s)
StreamMoves(r) == StreamNext(r) \/ H2Panics(r)

LEMMA SocketSteps ==
    SocketNext <=> (\E s \in Slots : TaskMoves(s)) \/ (\E r \in Requests : StreamMoves(r)) \/ SocketEnv
BY DEF SocketNext, AdaptorPanics, TaskMoves, StreamMoves

-----------------------------------------------------------------------------
\* Queues: what Append and Tail do to the requests in a queue, and that none is in it twice.

InQueue(q) == {r \in Requests : \E i \in 1..Len(q) : q[i] = r}
Once(q) == \A i, j \in 1..Len(q) : q[i] \in Requests /\ q[i] = q[j] => i = j

LEMMA QueuedIsInQueue == \A s : Queued(s) = InQueue(rxq[s]) /\ Queued(s)' = InQueue(rxq'[s])
BY DEF Queued, InQueue

LEMMA QueueEmpty == InQueue(<<>>) = {} /\ Once(<<>>)
BY DEF InQueue, Once

LEMMA QueueAppend ==
    ASSUME NEW q \in Seq(Messages), NEW m \in Messages
    PROVE  /\ Append(q, m) \in Seq(Messages)
           /\ InQueue(Append(q, m)) = InQueue(q) \cup ({m} \cap Requests)
           /\ Once(q) /\ m \notin InQueue(q) => Once(Append(q, m))
BY DEF InQueue, Once

LEMMA QueueTail ==
    ASSUME NEW q \in Seq(Messages), q # <<>>
    PROVE  /\ Head(q) \in Messages /\ Tail(q) \in Seq(Messages)
           /\ InQueue(q) = InQueue(Tail(q)) \cup ({Head(q)} \cap Requests)
           /\ Once(q) => Once(Tail(q)) /\ Head(q) \notin InQueue(Tail(q))
<1>1. Head(q) \in Messages /\ Tail(q) \in Seq(Messages) /\ Len(q) \in Nat /\ Len(q) > 0
  OBVIOUS
<1>2. /\ Head(q) = q[1]
      /\ Len(Tail(q)) = Len(q) - 1
      /\ \A i \in 1..Len(Tail(q)) : Tail(q)[i] = q[i + 1]
  OBVIOUS
<1>3. InQueue(q) \subseteq InQueue(Tail(q)) \cup ({Head(q)} \cap Requests)
  <2> SUFFICES ASSUME NEW i \in 1..Len(q), q[i] \in Requests, i # 1
               PROVE  q[i] \in InQueue(Tail(q))
    BY <1>2 DEF InQueue
  <2>1. i - 1 \in 1..Len(Tail(q)) /\ Tail(q)[i - 1] = q[i]
    BY <1>1, <1>2
  <2> QED BY <2>1 DEF InQueue
<1>4. InQueue(Tail(q)) \cup ({Head(q)} \cap Requests) \subseteq InQueue(q)
  BY <1>1, <1>2 DEF InQueue
<1>5. Once(q) => Once(Tail(q)) /\ Head(q) \notin InQueue(Tail(q))
  BY <1>1, <1>2 DEF InQueue, Once
<1> QED BY <1>1, <1>3, <1>4, <1>5

\* The head of a socket's queue is taken.
LEMMA HeadTaken ==
    ASSUME TypeOK, NEW s \in Slots, rxq[s] # <<>>, rxq' = [rxq EXCEPT ![s] = Tail(@)]
    PROVE  /\ Head(rxq[s]) \in Messages
           /\ rxq' \in [Slots -> Seq(Messages)]
           /\ Queued(s) = Queued(s)' \cup ({Head(rxq[s])} \cap Requests)
           /\ Once(rxq[s]) => Once(rxq'[s]) /\ Head(rxq[s]) \notin Queued(s)'
           /\ \A t \in Slots \ {s} : rxq'[t] = rxq[t] /\ Queued(t)' = Queued(t)
<1>1. rxq \in [Slots -> Seq(Messages)]
  BY DEF TypeOK, SocketTypeOK, Messages
<1>2. rxq'[s] = Tail(rxq[s]) /\ \A t \in Slots \ {s} : rxq'[t] = rxq[t]
  BY <1>1
<1>3. rxq[s] \in Seq(Messages)
  BY <1>1
<1>4. rxq' \in [Slots -> Seq(Messages)]
  BY <1>1, <1>3, QueueTail
<1> QED BY <1>2, <1>3, <1>4, QueueTail, QueuedIsInQueue

\* A message is put into a socket's queue.
LEMMA MessageAdded ==
    ASSUME TypeOK, NEW s \in Slots, NEW m \in Messages, rxq' = [rxq EXCEPT ![s] = Append(@, m)]
    PROVE  /\ rxq' \in [Slots -> Seq(Messages)]
           /\ Queued(s)' = Queued(s) \cup ({m} \cap Requests)
           /\ Once(rxq[s]) /\ m \notin Queued(s) => Once(rxq'[s])
           /\ \A t \in Slots \ {s} : rxq'[t] = rxq[t] /\ Queued(t)' = Queued(t)
<1>1. rxq \in [Slots -> Seq(Messages)]
  BY DEF TypeOK, SocketTypeOK, Messages
<1>2. rxq'[s] = Append(rxq[s], m) /\ \A t \in Slots \ {s} : rxq'[t] = rxq[t]
  BY <1>1
<1>3. rxq[s] \in Seq(Messages)
  BY <1>1
<1>4. rxq' \in [Slots -> Seq(Messages)]
  BY <1>1, <1>3, QueueAppend
<1> QED BY <1>2, <1>3, <1>4, QueueAppend, QueuedIsInQueue

-----------------------------------------------------------------------------
\* Type correctness.

LEMMA LetGoType ==
    ASSUME TypeOK, NEW sockets \in SUBSET Slots, LetGo(sockets)
    PROVE  via' \in [Requests -> Ids \cup {None, "gone"}]
BY DEF LetGo, TypeOK, SocketTypeOK

LEMMA DropType ==
    ASSUME TypeOK, NEW tasks \in SUBSET Slots, NEW how \in {"ended", "failed", "panicked", "aborted"},
           DropTasks(tasks, how), listed' \in [Ids -> Slots \cup {None}], mainUp' = mainUp
    PROVE  SocketTypeOK'
<1> USE DEF TypeOK, SocketTypeOK
<1>1. /\ phase' \in [Slots -> Live \cup {"absent", "ended", "failed", "panicked", "aborted", "gone"}]
      /\ rxq' \in [Slots -> Seq(Requests \cup Controls)]
      /\ cur' \in [Slots -> Requests \cup {None}]
      /\ wire' \in [Slots -> Seq(Requests)]
      /\ link' \in [Slots -> {"none", "up", "closed", "broken"}]
      /\ fd' \in [Slots -> Ids \cup {None}]
  BY DEF DropTasks
<1>2. at' \in [Requests -> Places]
  BY DEF DropTasks, Places
<1>3. via' \in [Requests -> Ids \cup {None, "gone"}]
  BY LetGoType DEF DropTasks
<1> QED BY <1>1, <1>2, <1>3 DEF DropTasks

LEMMA SettleType ==
    ASSUME TypeOK, NEW r \in Requests, NEW code \in AnswerKinds, NEW data \in Requests \cup {None},
           Settle(r, code, data)
    PROVE  /\ at' \in [Requests -> Places]
           /\ reply' \in [Requests -> [code: AnswerKinds \cup {"none"}, of: Requests \cup {None}]]
<1> DEFINE a == [code |-> code, of |-> data]
<1>1. at' \in [Requests -> Places]
  BY DEF TypeOK, SocketTypeOK, Settle, Places
<1>2. a \in [code: AnswerKinds \cup {"none"}, of: Requests \cup {None}]
  OBVIOUS
<1>3. reply' = [reply EXCEPT ![r] = a]
  BY DEF Settle
<1> HIDE DEF a
<1>4. reply' \in [Requests -> [code: AnswerKinds \cup {"none"}, of: Requests \cup {None}]]
  BY <1>2, <1>3 DEF TypeOK, SocketTypeOK
<1> QED BY <1>1, <1>4

LEMMA ServeType ==
    ASSUME TypeOK, NEW s \in Slots, Serve(s)
    PROVE  SocketTypeOK'
<1> USE DEF TypeOK, SocketTypeOK
<1>1. ASSUME NEW m, TakeHead(s, m)
      PROVE  m \in Messages /\ rxq' \in [Slots -> Seq(Requests \cup Controls)]
  BY <1>1, HeadTaken DEF TakeHead, HeadIs, Messages
<1>2. ASSUME NEW r \in Requests, TakeRefused(s, r) PROVE SocketTypeOK'
  <2>1. "ServiceError" \in AnswerKinds
    BY DEF AnswerKinds
  <2> QED BY <1>1, <1>2, <2>1, SettleType DEF TakeRefused, ids
<1>3. ASSUME NEW r \in Requests, TakeHttp1(s, r) PROVE SocketTypeOK'
  <2>1. at' \in [Requests -> Places] /\ "sending" \in Live
    BY <1>3 DEF TakeHttp1, Places, Live, Receiving
  <2> QED BY <1>1, <1>3, <2>1 DEF TakeHttp1, Goto, ids
<1>4. ASSUME NEW r \in Requests, TakeH2(s, r) PROVE SocketTypeOK'
  <2>1. at' \in [Requests -> Places]
    BY <1>4 DEF TakeH2, Places
  <2> QED BY <1>1, <1>4, <2>1 DEF TakeH2, ids
<1>5. CASE TakeIgnored(s)
  BY <1>1, <1>5 DEF TakeIgnored, ids, reqVars
<1>6. CASE TakeUnsupported(s)
  BY <1>6, DropType DEF TakeUnsupported
<1>7. CASE TakeShutdown(s)
  <2>1. "removing" \in Live
    BY DEF Live, Receiving
  <2> QED BY <1>1, <1>7, <2>1 DEF TakeShutdown, Goto, ids, reqVars
<1> QED BY <1>2, <1>3, <1>4, <1>5, <1>6, <1>7 DEF Serve

LEMMA CloseType ==
    ASSUME TypeOK, NEW s \in Slots, Close(s)
    PROVE  SocketTypeOK'
<1> USE DEF TypeOK, SocketTypeOK
<1>1. {"draining", "dropping"} \subseteq Live
  BY DEF Live, Receiving
<1>2. ASSUME NEW m, DrainHead(s, m)
      PROVE  rxq' \in [Slots -> Seq(Requests \cup Controls)]
  BY <1>2, HeadTaken DEF DrainHead, Messages
<1>3. CASE RemoveQueue(s)
  BY <1>1, <1>3 DEF RemoveQueue, Unlist, Goto, reqVars
<1>4. CASE DrainOther(s)
  BY <1>2, <1>4 DEF DrainOther, DrainHead, ids
<1>5. CASE Drained(s)
  BY <1>1, <1>5 DEF Drained, Goto, ids, reqVars
<1>6. CASE Return(s) \/ BusFails(s)
  BY <1>6, DropType DEF Return, BusFails
<1>7. ASSUME NEW r \in Requests, DrainRequest(s, r) PROVE SocketTypeOK'
  <2>1. "UnableToReachService" \in AnswerKinds
    BY DEF AnswerKinds
  <2> QED BY <1>2, <1>7, <2>1, SettleType DEF DrainRequest, DrainHead, ids
<1> QED BY <1>3, <1>4, <1>5, <1>6, <1>7 DEF Close

LEMMA StatusType ==
    ASSUME SocketTypeOK, NEW r \in Requests, NEW st \in {"due", "whole"},
           resp' = [resp EXCEPT ![r].st = st]
    PROVE  resp' \in [Requests -> [st: {"none", "due", "whole", "partial"}, of: Requests \cup {None}]]
<1> DEFINE a == [resp[r] EXCEPT !.st = st]
<1>3. resp[r] \in [st: {"none", "due", "whole", "partial"}, of: Requests \cup {None}]
  BY DEF SocketTypeOK
<1>1. a \in [st: {"none", "due", "whole", "partial"}, of: Requests \cup {None}]
  BY <1>3
<1>2. resp' = [resp EXCEPT ![r] = a]
  OBVIOUS
<1> HIDE DEF a
<1> QED BY <1>1, <1>2 DEF SocketTypeOK

LEMMA LoopType ==
    ASSUME TypeOK, TaskHolds, NEW s \in Slots,
           Http1Write(s) \/ Http1Response(s) \/ Http1Error(s) \/ Http1Timeout(s) \/ Http1Read(s)
    PROVE  SocketTypeOK'
<1> USE DEF TypeOK, SocketTypeOK
<1>1. cur[s] \in Requests
  BY DEF TaskHolds, Http1Write, Http1Response, Http1Error, Http1Fails, Http1Timeout, Http1TimeoutTo, Http1Read
<1>2. {"idle", "reading", "removing"} \subseteq Live
  BY DEF Live, Receiving
<1>3. CASE Http1Response(s)
  <2>1. PICK b \in Bodies("http1") :
            resp' = [resp EXCEPT ![cur[s]] = [st |-> b, of |-> Head(wire[s])]]
    BY <1>3 DEF Http1Response
  <2>2. wire[s] \in Seq(Requests) /\ wire[s] # <<>>
    BY <1>3 DEF Http1Response
  <2>3. Head(wire[s]) \in Requests /\ Tail(wire[s]) \in Seq(Requests)
    BY <2>2
  <2> DEFINE a == [st |-> b, of |-> Head(wire[s])]
  <2>4. a \in [st: {"none", "due", "whole", "partial"}, of: Requests \cup {None}]
    BY <2>3 DEF Bodies
  <2>5. resp' = [resp EXCEPT ![cur[s]] = a]
    BY <2>1
  <2> HIDE DEF a
  <2>6. resp' \in [Requests -> [st: {"none", "due", "whole", "partial"}, of: Requests \cup {None}]]
    BY <1>1, <2>4, <2>5
  <2>7. wire' \in [Slots -> Seq(Requests)]
    BY <1>3, <2>3 DEF Http1Response
  <2>8. at' \in [Requests -> Places]
    BY <1>3 DEF Http1Response, Places
  <2> QED BY <1>2, <1>3, <2>6, <2>7, <2>8 DEF Http1Response, Goto, ids
<1>4. CASE Http1Error(s)
  <2>1. "ServiceError" \in AnswerKinds /\ wire' \in [Slots -> Seq(Requests)]
    BY <1>4 DEF AnswerKinds, Http1Error
  <2> QED BY <1>1, <1>2, <1>4, <2>1, SettleType DEF Http1Error, Goto, ids
<1>5. CASE Http1Timeout(s)
  <2>1. "Timeout" \in AnswerKinds
    BY DEF AnswerKinds
  <2> QED BY <1>1, <1>2, <1>5, <2>1, SettleType DEF Http1Timeout, Http1TimeoutTo, Goto, ids
<1>6. CASE Http1Read(s)
  <2>1. {"ServiceError", "response"} \subseteq AnswerKinds /\ resp[cur[s]].of \in Requests \cup {None}
    BY <1>1 DEF AnswerKinds
  <2>2. /\ at' \in [Requests -> Places]
        /\ reply' \in [Requests -> [code: AnswerKinds \cup {"none"}, of: Requests \cup {None}]]
    BY <1>1, <1>6, <2>1, SettleType DEF Http1Read
  <2> QED BY <1>1, <1>2, <1>6, <2>2 DEF Http1Read, Goto, ids
<1>7. CASE Http1Write(s)
  <2>1. wire' \in [Slots -> Seq(Requests)]
    BY <1>1, <1>7 DEF Http1Write
  <2>2. resp' \in [Requests -> [st: {"none", "due", "whole", "partial"}, of: Requests \cup {None}]]
    BY <1>1, <1>7, StatusType DEF Http1Write
  <2> QED BY <1>7, <2>1, <2>2 DEF Http1Write, ids
<1> QED BY <1>3, <1>4, <1>5, <1>6, <1>7

LEMMA TaskType ==
    ASSUME TypeOK, TaskHolds, NEW s \in Slots, TaskMoves(s)
    PROVE  SocketTypeOK'
<1> USE DEF TypeOK, SocketTypeOK
<1>1. {"adding", "exposing", "idle", "removing"} \subseteq Live
  BY DEF Live, Receiving
<1>2. CASE Connect(s)
  BY <1>1, <1>2 DEF Connect, Goto, reqVars
<1>3. CASE ConnectFails(s) \/ NoBranchLeft(s) \/ Http1Panics(s)
  BY <1>3, DropType DEF ConnectFails, NoBranchLeft, Http1Panics
<1>4. CASE AddQueue(s)
  BY <1>1, <1>4 DEF AddQueue, Goto, reqVars
<1>5. CASE AddService(s)
  BY <1>1, <1>5 DEF AddService, Goto, reqVars
<1>6. CASE LinkBroken(s)
  BY <1>1, <1>6 DEF LinkBroken, Goto, ids, reqVars
<1> QED BY <1>2, <1>3, <1>4, <1>5, <1>6, ServeType, CloseType, LoopType DEF TaskMoves, TaskNext

LEMMA StreamType ==
    ASSUME TypeOK, NEW r \in Requests, StreamMoves(r)
    PROVE  SocketTypeOK'
<1> USE DEF TypeOK, SocketTypeOK, taskVars, ids
<1>1. {"ServiceError", "Timeout", "response"} \subseteq AnswerKinds
  BY DEF AnswerKinds
<1>2. CASE H2Response(r)
  <2>1. PICK b \in Bodies("h2") : resp' = [resp EXCEPT ![r] = [st |-> b, of |-> r]]
    BY <1>2 DEF H2Response
  <2> DEFINE a == [st |-> b, of |-> r]
  <2>2. a \in [st: {"none", "due", "whole", "partial"}, of: Requests \cup {None}]
    BY DEF Bodies
  <2>3. resp' = [resp EXCEPT ![r] = a]
    BY <2>1
  <2> HIDE DEF a
  <2>4. resp' \in [Requests -> [st: {"none", "due", "whole", "partial"}, of: Requests \cup {None}]]
    BY <2>2, <2>3
  <2>5. at' \in [Requests -> Places]
    BY <1>2 DEF H2Response, Places
  <2> QED BY <1>2, <2>4, <2>5 DEF H2Response
<1>6. ASSUME NEW code \in AnswerKinds, NEW data \in Requests \cup {None}, SettleStream(r, code, data)
      PROVE  SocketTypeOK'
  BY <1>6, SettleType DEF SettleStream
<1>3. CASE H2Error(r)
  BY <1>1, <1>3, <1>6 DEF H2Error, H2ErrorAs
<1>4. CASE H2Timeout(r)
  BY <1>1, <1>4, <1>6 DEF H2Timeout, H2TimeoutIn
<1>5. CASE H2Read(r)
  <2>1. resp[r].of \in Requests \cup {None}
    OBVIOUS
  <2> QED BY <1>1, <1>5, <1>6, <2>1 DEF H2Read
<1>7. CASE H2Write(r)
  BY <1>7, StatusType DEF H2Write
<1>8. CASE H2Panics(r)
  BY <1>8 DEF H2Panics, Places
<1> QED BY <1>2, <1>3, <1>4, <1>5, <1>7, <1>8 DEF StreamMoves, StreamNext, H2Panics

LEMMA EnvType ==
    ASSUME TypeOK, SocketEnv
    PROVE  SocketTypeOK'
<1> USE DEF TypeOK, SocketTypeOK, taskVars, ids
<1>1. ASSUME NEW s \in Slots, NEW r \in Requests, Deliver(s, r) PROVE SocketTypeOK'
  <2>1. rxq' \in [Slots -> Seq(Requests \cup Controls)]
    BY <1>1, MessageAdded DEF Deliver, Messages
  <2>2. at' \in [Requests -> Places]
    BY <1>1 DEF Deliver, Places
  <2> QED BY <1>1, <2>1, <2>2 DEF Deliver
<1>2. ASSUME NEW s \in Slots, Control(s) PROVE SocketTypeOK'
  <2>1. rxq' \in [Slots -> Seq(Requests \cup Controls)]
    BY <1>2, MessageAdded DEF Control, Messages
  <2> QED BY <1>2, <2>1 DEF Control, reqVars
<1>3. ASSUME NEW s \in Slots, LinkEnds(s) PROVE SocketTypeOK'
  <2>1. via' \in [Requests -> Ids \cup {None, "gone"}]
    BY <1>3, LetGoType DEF LinkEnds
  <2> QED BY <1>3, <2>1 DEF LinkEnds
<1>6. ASSUME NEW i \in Ids, LeftEnds(i) PROVE SocketTypeOK'
  BY <1>6 DEF LeftEnds
<1>4. CASE MainStops
  BY <1>4 DEF MainStops, reqVars
<1>5. ASSUME NEW r \in Requests, BodyArrives(r) PROVE SocketTypeOK'
  BY <1>5, StatusType DEF BodyArrives
<1> QED BY <1>1, <1>2, <1>3, <1>4, <1>5, <1>6 DEF SocketEnv

LEMMA AbortType ==
    ASSUME TypeOK, NEW how \in {"ended", "failed"}, AbortAll(how), mainUp' = mainUp,
           listed' \in [Ids -> Slots \cup {None}], procQ' \in Seq({"service", "shutdown", "unsupported"})
    PROVE  TypeOK'
<1>1. SocketTypeOK'
  BY DropType DEF AbortAll, EndWith
<1> QED BY <1>1 DEF TypeOK, AbortAll, EndWith

LEMMA ProcType ==
    ASSUME TypeOK, ProcNext \/ Restart \/ Notify
    PROVE  TypeOK'
<1> USE DEF TypeOK
<1>1. /\ "connecting" \in Live
      /\ listed \in [Ids -> Slots \cup {None}]
  BY DEF Live, SocketTypeOK
<1>2. ASSUME NEW m, TakeProc(m)
      PROVE procQ' \in Seq({"service", "shutdown", "unsupported"})
  BY <1>2 DEF TakeProc
<1>3. CASE Start
  BY <1>1, <1>3 DEF Start, SocketTypeOK, ids, reqVars
<1>4. CASE StartFails
  BY <1>4 DEF StartFails, SocketTypeOK, sockVars, taskVars, ids, reqVars
<1>5. CASE RecvService
  BY <1>2, <1>5 DEF RecvService, SocketTypeOK, sockVars, taskVars, ids, reqVars
<1>6. CASE RecvShutdown
  <2>1. listed' \in [Ids -> Slots \cup {None}]
    BY <1>1, <1>6 DEF RecvShutdown
  <2> QED BY <1>2, <1>6, <2>1, AbortType DEF RecvShutdown
<1>7. CASE RecvUnsupported
  BY <1>1, <1>2, <1>7, AbortType DEF RecvUnsupported
<1>8. ASSUME NEW s \in Slots, JoinOk(s) PROVE TypeOK'
  BY <1>1, <1>8 DEF JoinOk, Goto, SocketTypeOK, ids, reqVars, procVars
<1>9. ASSUME NEW s \in Slots, JoinErr(s) PROVE TypeOK'
  BY <1>9 DEF JoinErr, Goto, SocketTypeOK, ids, reqVars, procVars
<1>10. ASSUME NEW s \in Slots, JoinPanic(s) PROVE TypeOK'
  BY <1>1, <1>10, AbortType DEF JoinPanic
<1>11. CASE Restart
  BY <1>11, ClientAssumption DEF Restart, SocketTypeOK, ids, reqVars
<1>12. CASE Notify
  BY <1>12 DEF Notify, SocketTypeOK, sockVars, taskVars, ids, reqVars
<1> QED BY <1>3, <1>4, <1>5, <1>6, <1>7, <1>8, <1>9, <1>10, <1>11, <1>12 DEF ProcNext

LEMMA NextType == TypeOK /\ TaskHolds /\ [Next]_vars => TypeOK'
<1>1. ASSUME TypeOK, TaskHolds, SocketNext, UNCHANGED procVars PROVE TypeOK'
  <2>1. SocketTypeOK'
    BY <1>1, SocketSteps, TaskType, StreamType, EnvType
  <2> QED BY <1>1, <2>1 DEF TypeOK, procVars
<1>2. TypeOK /\ UNCHANGED vars => TypeOK'
  BY DEF TypeOK, SocketTypeOK, vars, sockVars, taskVars, ids, reqVars, procVars
<1> QED BY <1>1, <1>2, ProcType DEF Next

LEMMA InitType == Init => TypeOK
BY ClientAssumption DEF Init, SocketInit, TypeOK, SocketTypeOK, NoResp, NoReply, Places

-----------------------------------------------------------------------------
\* One holder per request: first what each kind of step does to it.

Custody ==
    /\ \A s \in Slots, r \in Requests : r \in Queued(s) <=> at[r] = "queue" /\ on[r] = s
    /\ \A s \in Slots : cur[s] # None => at[cur[s]] \in {"sent", "reading"} /\ on[cur[s]] = s
    /\ \A r \in Requests : at[r] = "answered" <=> reply[r].code # "none"

LEMMA HolderParts == /\ OneHolder <=> Custody /\ \A s \in Slots : Once(rxq[s])
                     /\ OneHolder' <=> Custody' /\ \A s \in Slots : Once(rxq'[s])
BY DEF OneHolder, Custody, Once

LEMMA HolderKept ==
    ASSUME OneHolder, UNCHANGED <<rxq, cur, at, on, reply>>
    PROVE  OneHolder'
BY HolderParts, QueuedIsInQueue DEF Custody

\* A request that is answered is held by no one any more.
LEMMA SettleHolder ==
    ASSUME TypeOK, OneHolder, NEW r \in Requests, NEW code \in AnswerKinds, NEW data,
           Settle(r, code, data), on' = on,
           \A t \in Slots : Queued(t)' = Queued(t) \ {r} /\ Once(rxq'[t]),
           \A t \in Slots : cur'[t] \in {cur[t], None} \ {r}
    PROVE  OneHolder'
<1>1. /\ at'[r] = "answered" /\ \A q \in Requests \ {r} : at'[q] = at[q]
      /\ reply'[r].code = code /\ \A q \in Requests \ {r} : reply'[q] = reply[q]
      /\ code # "none"
  BY DEF TypeOK, SocketTypeOK, Settle, AnswerKinds
<1>2. \A t \in Slots : cur[t] \in Requests \cup {None}
  BY DEF TypeOK, SocketTypeOK
<1>3. Custody
  BY HolderParts
<1>4. Custody'
  BY <1>1, <1>2, <1>3 DEF Custody
<1> QED BY <1>4, HolderParts

\* A request at the head of its socket's queue is there alone, and in no one's hands.
LEMMA HeadHolder ==
    ASSUME TypeOK, OneHolder, NEW s \in Slots, rxq[s] # <<>>, rxq' = [rxq EXCEPT ![s] = Tail(@)]
    PROVE  /\ \A t \in Slots : Queued(t)' = Queued(t) \ {Head(rxq[s])} /\ Once(rxq'[t])
           /\ Head(rxq[s]) \in Requests =>
                 /\ at[Head(rxq[s])] = "queue" /\ on[Head(rxq[s])] = s
                 /\ \A t \in Slots : cur[t] # Head(rxq[s])
           /\ Head(rxq[s]) \in Controls => \A t \in Slots : Queued(t)' = Queued(t)
<1>1. Custody /\ \A t \in Slots : Once(rxq[t])
  BY HolderParts
<1>2. Head(rxq[s]) \in Requests =>
         /\ Head(rxq[s]) \in Queued(s)
         /\ at[Head(rxq[s])] = "queue" /\ on[Head(rxq[s])] = s
  <2>1. Head(rxq[s]) \in Requests => Head(rxq[s]) \in Queued(s)
    BY HeadTaken
  <2> QED BY <1>1, <2>1 DEF Custody
<1>3. ASSUME NEW t \in Slots \ {s} PROVE Head(rxq[s]) \notin Queued(t)
  BY <1>1, <1>2 DEF Custody, Queued
<1>4. Head(rxq[s]) \in Requests => \A t \in Slots : cur[t] # Head(rxq[s])
  <2> SUFFICES ASSUME Head(rxq[s]) \in Requests, NEW t \in Slots, cur[t] = Head(rxq[s])
               PROVE  FALSE
    OBVIOUS
  <2>1. cur[t] # None
    BY SocketAssumption
  <2> QED BY <1>1, <1>2, <2>1 DEF Custody
<1>5. Head(rxq[s]) \in Controls => Head(rxq[s]) \notin Requests
  BY SocketAssumption
<1>6. \A t \in Slots : Queued(t) \subseteq Requests
  BY DEF Queued
<1>7. \A t \in Slots : Queued(t)' = Queued(t) \ {Head(rxq[s])} /\ Once(rxq'[t])
  <2>1. Queued(s)' = Queued(s) \ {Head(rxq[s])} /\ Once(rxq'[s])
    BY <1>1, <1>6, HeadTaken
  <2>2. \A t \in Slots \ {s} : Queued(t)' = Queued(t) \ {Head(rxq[s])} /\ Once(rxq'[t])
    BY <1>1, <1>3, HeadTaken
  <2> QED BY <2>1, <2>2
<1> QED BY <1>2, <1>4, <1>5, <1>6, <1>7

LEMMA ControlHolder ==
    ASSUME TypeOK, OneHolder, NEW s \in Slots, rxq[s] # <<>>, rxq' = [rxq EXCEPT ![s] = Tail(@)],
           Head(rxq[s]) \in Controls, UNCHANGED <<cur, at, on, reply>>
    PROVE  OneHolder'
<1>1. \A t \in Slots : Queued(t)' = Queued(t) /\ Once(rxq'[t])
  BY HeadHolder
<1> QED BY <1>1, HolderParts DEF Custody

\* The request at the head of the queue goes to the backend.
LEMMA TakeHolder ==
    ASSUME TypeOK, OneHolder, NEW s \in Slots, rxq[s] # <<>>, rxq' = [rxq EXCEPT ![s] = Tail(@)],
           Head(rxq[s]) \in Requests, at' = [at EXCEPT ![Head(rxq[s])] = "sent"],
           cur' = cur \/ cur' = [cur EXCEPT ![s] = Head(rxq[s])],
           UNCHANGED <<on, reply>>
    PROVE  OneHolder'
<1> DEFINE r == Head(rxq[s])
<1>1. Custody /\ at[r] = "queue" /\ on[r] = s /\ \A t \in Slots : cur[t] # r
  BY HeadHolder, HolderParts
<1>2. \A t \in Slots : Queued(t)' = Queued(t) \ {r} /\ Once(rxq'[t])
  BY HeadHolder
<1>3. /\ at'[r] = "sent" /\ \A q \in Requests \ {r} : at'[q] = at[q]
      /\ \A t \in Slots : cur[t] \in Requests \cup {None} /\ cur'[t] \in {cur[t], r}
      /\ \A t \in Slots \ {s} : cur'[t] = cur[t]
  BY DEF TypeOK, SocketTypeOK
<1> HIDE DEF r
<1>4. Custody'
  BY <1>1, <1>2, <1>3 DEF Custody
<1> QED BY <1>2, <1>4, HolderParts

\* The head of a response has come.
LEMMA ReadHolder ==
    ASSUME TypeOK, OneHolder, NEW r \in Requests, at[r] \in {"sent", "reading"},
           at' = [at EXCEPT ![r] = "reading"], UNCHANGED <<rxq, cur, on, reply>>
    PROVE  OneHolder'
<1>1. at'[r] = "reading" /\ \A q \in Requests \ {r} : at'[q] = at[q]
  BY DEF TypeOK, SocketTypeOK
<1>2. \A t \in Slots : Queued(t)' = Queued(t) /\ cur[t] \in Requests \cup {None}
  BY QueuedIsInQueue DEF TypeOK, SocketTypeOK
<1> QED BY <1>1, <1>2, HolderParts DEF Custody

\* What a dropped task held is lost, and held by no one.
LEMMA DropHolder ==
    ASSUME TypeOK, OneHolder, NEW tasks \in SUBSET Slots, NEW how, DropTasks(tasks, how)
    PROVE  OneHolder'
<1>1. Custody /\ \A t \in Slots : Once(rxq[t])
  BY HolderParts
<1>2. \A t \in tasks : rxq'[t] = <<>> /\ cur'[t] = None /\ Queued(t)' = {}
  BY QueueEmpty, QueuedIsInQueue DEF DropTasks
<1>3. \A t \in Slots \ tasks : rxq'[t] = rxq[t] /\ cur'[t] = cur[t] /\ Queued(t)' = Queued(t)
  BY QueuedIsInQueue DEF DropTasks
<1>4. \A t \in Slots : Once(rxq'[t])
  BY <1>1, <1>2, <1>3, QueueEmpty
<1>5. /\ \A r \in Requests : at'[r] = IF \E t \in tasks : r \in Held(t) THEN "lost" ELSE at[r]
      /\ on' = on /\ reply' = reply
      /\ \A t \in Slots : cur[t] \in Requests \cup {None}
  BY DEF DropTasks, TypeOK, SocketTypeOK
<1>6. \A r \in Requests, t \in Slots : r \in Held(t) => at[r] \in {"queue", "sent", "reading"} /\ on[r] = t
  BY <1>1 DEF Custody, Held
<1>7. \A r \in Requests, t \in Slots : r \in Queued(t)' <=> at'[r] = "queue" /\ on'[r] = t
  <2> SUFFICES ASSUME NEW r \in Requests, NEW t \in Slots
               PROVE  r \in Queued(t)' <=> at'[r] = "queue" /\ on'[r] = t
    OBVIOUS
  <2>1. CASE t \in tasks
    BY <1>1, <1>2, <1>5, <2>1 DEF Custody, Held
  <2>2. CASE t \notin tasks
    BY <1>1, <1>3, <1>5, <1>6, <2>2 DEF Custody
  <2> QED BY <2>1, <2>2
<1>8. \A t \in Slots : cur'[t] # None => at'[cur'[t]] \in {"sent", "reading"} /\ on'[cur'[t]] = t
  BY <1>1, <1>2, <1>3, <1>5, <1>6 DEF Custody
<1>9. \A r \in Requests : at'[r] = "answered" <=> reply'[r].code # "none"
  BY <1>1, <1>5, <1>6 DEF Custody
<1> QED BY <1>4, <1>7, <1>8, <1>9, HolderParts DEF Custody

LEMMA DeliverHolder ==
    ASSUME TypeOK, OneHolder, NEW s \in Slots, NEW r \in Requests, Deliver(s, r)
    PROVE  OneHolder'
<1>1. Custody /\ \A t \in Slots : Once(rxq[t])
  BY HolderParts
<1>2. at[r] = "idle" /\ \A t \in Slots : r \notin Queued(t)
  BY <1>1 DEF Custody, Deliver
<1>3. /\ \A t \in Slots : Once(rxq'[t])
      /\ Queued(s)' = Queued(s) \cup {r}
      /\ \A t \in Slots \ {s} : Queued(t)' = Queued(t)
  BY <1>1, <1>2, MessageAdded DEF Deliver, Messages
<1>4. /\ at'[r] = "queue" /\ on'[r] = s
      /\ \A q \in Requests \ {r} : at'[q] = at[q] /\ on'[q] = on[q]
      /\ \A t \in Slots : cur[t] \in Requests \cup {None} /\ cur'[t] = cur[t]
      /\ reply' = reply
  BY DEF Deliver, TypeOK, SocketTypeOK
<1>5. \A t \in Slots : cur[t] # None => cur[t] # r
  BY <1>1, <1>2 DEF Custody
<1>6. Custody'
  BY <1>1, <1>2, <1>3, <1>4, <1>5 DEF Custody
<1> QED BY <1>3, <1>6, HolderParts


LEMMA Http1Holder ==
    ASSUME TypeOK, OneHolder, TaskHolds, NEW s \in Slots,
           Http1Write(s) \/ Http1Response(s) \/ Http1Error(s) \/ Http1Timeout(s) \/ Http1Read(s)
    PROVE  OneHolder'
<1>1. Custody /\ \A t \in Slots : Once(rxq[t])
  BY HolderParts
<1>2. cur[s] \in Requests /\ cur[s] # None
  BY DEF TaskHolds, Http1Write, Http1Response, Http1Error, Http1Fails, Http1Timeout, Http1TimeoutTo, Http1Read,
         TypeOK, SocketTypeOK
<1>3. /\ at[cur[s]] \in {"sent", "reading"} /\ on[cur[s]] = s
      /\ \A t \in Slots : cur[s] \notin Queued(t)
      /\ \A t \in Slots \ {s} : cur[t] # cur[s]
  BY <1>1, <1>2 DEF Custody
<1>9. CASE Http1Write(s)
  BY <1>9, HolderKept DEF Http1Write
<1>4. CASE Http1Response(s)
  BY <1>2, <1>3, <1>4, ReadHolder DEF Http1Response
<1>5. ASSUME NEW code \in AnswerKinds, NEW data, Settle(cur[s], code, data),
             cur' = [cur EXCEPT ![s] = None], UNCHANGED <<rxq, on>>
      PROVE  OneHolder'
  <2>1. \A t \in Slots : Queued(t)' = Queued(t) \ {cur[s]} /\ Once(rxq'[t])
    BY <1>1, <1>3, <1>5, QueuedIsInQueue
  <2>2. \A t \in Slots : cur'[t] \in {cur[t], None} \ {cur[s]}
    BY <1>2, <1>3, <1>5 DEF TypeOK, SocketTypeOK
  <2> QED BY <1>2, <1>5, <2>1, <2>2, SettleHolder
<1>6. {"ServiceError", "Timeout", "response"} \subseteq AnswerKinds
  BY DEF AnswerKinds
<1>7. CASE Http1Error(s) \/ Http1Timeout(s)
  BY <1>5, <1>6, <1>7 DEF Http1Error, Http1Timeout, Http1TimeoutTo
<1>8. CASE Http1Read(s)
  BY <1>5, <1>6, <1>8 DEF Http1Read
<1> QED BY <1>4, <1>7, <1>8, <1>9

LEMMA StreamHolder ==
    ASSUME TypeOK, OneHolder, NEW r \in Requests, StreamMoves(r)
    PROVE  OneHolder'
<1>1. Custody /\ \A t \in Slots : Once(rxq[t])
  BY HolderParts
<1>2. at[r] \in {"sent", "reading"} /\ Stream(r)
  BY DEF StreamMoves, StreamNext, H2Panics, H2Write, H2Response, H2Error, H2ErrorAs, H2Timeout, H2TimeoutIn, H2Read, SettleStream
<1>3. /\ \A t \in Slots : r \notin Queued(t)
      /\ \A t \in Slots : cur[t] # r
  BY <1>1, <1>2, SocketAssumption DEF Custody, Stream
<1>4. CASE H2Response(r)
  BY <1>2, <1>4, ReadHolder DEF H2Response, taskVars
<1>5. ASSUME NEW code \in AnswerKinds, NEW data, Settle(r, code, data), UNCHANGED <<rxq, cur, on>>
      PROVE  OneHolder'
  <2>1. \A t \in Slots : Queued(t)' = Queued(t) \ {r} /\ Once(rxq'[t])
    BY <1>1, <1>3, <1>5, QueuedIsInQueue
  <2>2. \A t \in Slots : cur'[t] \in {cur[t], None} \ {r}
    BY <1>3, <1>5
  <2> QED BY <1>5, <2>1, <2>2, SettleHolder
<1>6. {"ServiceError", "Timeout", "response"} \subseteq AnswerKinds
  BY DEF AnswerKinds
<1>7. CASE H2Error(r) \/ H2Timeout(r)
  BY <1>5, <1>6, <1>7 DEF H2Error, H2ErrorAs, H2Timeout, H2TimeoutIn, SettleStream, taskVars
<1>8. CASE H2Read(r)
  BY <1>5, <1>6, <1>8 DEF H2Read, SettleStream, taskVars
<1>9. CASE H2Write(r)
  BY <1>9, HolderKept DEF H2Write, taskVars
<1>10. CASE H2Panics(r)
  <2>1. at'[r] = "lost" /\ \A q \in Requests \ {r} : at'[q] = at[q]
    BY <1>10 DEF H2Panics, TypeOK, SocketTypeOK
  <2>2. rxq' = rxq /\ cur' = cur /\ on' = on /\ reply' = reply /\ \A t \in Slots : Queued(t)' = Queued(t)
    BY <1>10, QueuedIsInQueue DEF H2Panics, taskVars
  <2>3. \A t \in Slots : cur[t] \in Requests \cup {None}
    BY DEF TypeOK, SocketTypeOK
  <2>4. Custody'
    BY <1>1, <1>2, <1>3, <2>1, <2>2, <2>3 DEF Custody
  <2> QED BY <1>1, <2>2, <2>4, HolderParts
<1> QED BY <1>4, <1>7, <1>8, <1>9, <1>10, <1>2 DEF StreamMoves, StreamNext, H2Panics

LEMMA QueueHolder ==
    ASSUME TypeOK, OneHolder, NEW s \in Slots, Serve(s) \/ Close(s)
    PROVE  OneHolder'
<1>1. ASSUME NEW code \in AnswerKinds, NEW data, rxq[s] # <<>>, rxq' = [rxq EXCEPT ![s] = Tail(@)],
             Head(rxq[s]) \in Requests, Settle(Head(rxq[s]), code, data), UNCHANGED <<cur, on>>
      PROVE  OneHolder'
  <2>1. \A t \in Slots : cur'[t] \in {cur[t], None} \ {Head(rxq[s])}
    BY <1>1, HeadHolder
  <2>2. \A t \in Slots : Queued(t)' = Queued(t) \ {Head(rxq[s])} /\ Once(rxq'[t])
    BY <1>1, HeadHolder
  <2> QED BY <1>1, <2>1, <2>2, SettleHolder
<1>2. {"ServiceError", "UnableToReachService"} \subseteq AnswerKinds
  BY DEF AnswerKinds
<1>3. ASSUME NEW r \in Requests, TakeRefused(s, r) \/ DrainRequest(s, r) PROVE OneHolder'
  BY <1>1, <1>2, <1>3 DEF TakeRefused, TakeHead, HeadIs, DrainRequest, DrainHead
<1>4. ASSUME NEW r \in Requests, TakeHttp1(s, r) \/ TakeH2(s, r) PROVE OneHolder'
  BY <1>4, TakeHolder DEF TakeHttp1, TakeH2, TakeHead, HeadIs
<1>5. CASE TakeIgnored(s) \/ TakeShutdown(s) \/ DrainOther(s)
  BY <1>5, ControlHolder
     DEF TakeIgnored, TakeShutdown, DrainOther, TakeHead, HeadIs, DrainHead, Controls, reqVars
<1>6. CASE TakeUnsupported(s) \/ Return(s) \/ BusFails(s)
  BY <1>6, DropHolder DEF TakeUnsupported, Return, BusFails
<1>7. CASE RemoveQueue(s) \/ Drained(s)
  BY <1>7, HolderKept DEF RemoveQueue, Unlist, Drained, reqVars
<1> QED BY <1>3, <1>4, <1>5, <1>6, <1>7 DEF Serve, Close

LEMMA EnvHolder ==
    ASSUME TypeOK, OneHolder, SocketEnv
    PROVE  OneHolder'
<1>1. ASSUME NEW s \in Slots, Control(s) PROVE OneHolder'
  <2>1. PICK m \in Controls : rxq' = [rxq EXCEPT ![s] = Append(@, m)]
    BY <1>1 DEF Control
  <2>2. m \in Messages /\ m \notin Requests /\ m \notin Queued(s)
    BY SocketAssumption DEF Messages, Queued
  <2>3. Queued(s)' = Queued(s) /\ (Once(rxq[s]) => Once(rxq'[s]))
    <3>1. m \in Messages /\ {m} \cap Requests = {}
      BY <2>2
    <3>2. Queued(s)' = Queued(s) \cup ({m} \cap Requests)
      BY <2>1, <3>1, MessageAdded
    <3>3. Once(rxq[s]) => Once(rxq'[s])
      BY <2>1, <2>2, MessageAdded
    <3> QED BY <3>1, <3>2, <3>3
  <2>4. \A t \in Slots \ {s} : Queued(t)' = Queued(t) /\ rxq'[t] = rxq[t]
    BY <2>1, <2>2, MessageAdded
  <2>5. \A t \in Slots : Queued(t)' = Queued(t) /\ (Once(rxq[t]) => Once(rxq'[t]))
    BY <2>3, <2>4
  <2> QED BY <1>1, <2>5, HolderParts DEF Custody, Control, reqVars
<1>2. CASE MainStops \/ (\E s \in Slots : LinkEnds(s)) \/ \E i \in Ids : LeftEnds(i)
  BY <1>2, HolderKept DEF MainStops, LinkEnds, LeftEnds, taskVars, reqVars
<1>3. ASSUME NEW r \in Requests, BodyArrives(r) PROVE OneHolder'
  BY <1>3, HolderKept DEF BodyArrives, taskVars
<1> QED BY <1>1, <1>2, <1>3, DeliverHolder DEF SocketEnv

LEMMA ProcHolder ==
    ASSUME TypeOK, OneHolder, ProcNext \/ Restart \/ Notify \/ UNCHANGED vars
    PROVE  OneHolder'
<1>1. ASSUME NEW how, AbortAll(how) PROVE OneHolder'
  BY <1>1, DropHolder DEF AbortAll, EndWith
<1>2. CASE RecvShutdown \/ RecvUnsupported \/ \E s \in Slots : JoinPanic(s)
  BY <1>1, <1>2 DEF RecvShutdown, RecvUnsupported, JoinPanic
<1>3. CASE UNCHANGED <<rxq, cur, at, on, reply>>
  BY <1>3, HolderKept
<1> QED BY <1>2, <1>3 DEF ProcNext, Start, StartFails, RecvService, JoinOk, JoinErr, Restart, Notify,
           vars, sockVars, taskVars, reqVars

LEMMA NextHolder == TypeOK /\ OneHolder /\ TaskHolds /\ [Next]_vars => OneHolder'
<1>1. ASSUME TypeOK, OneHolder, TaskHolds, NEW s \in Slots, TaskMoves(s) PROVE OneHolder'
  <2>1. CASE Connect(s) \/ AddQueue(s) \/ AddService(s) \/ LinkBroken(s)
    BY <1>1, <2>1, HolderKept DEF Connect, AddQueue, AddService, LinkBroken, reqVars
  <2>2. CASE ConnectFails(s) \/ NoBranchLeft(s) \/ Http1Panics(s)
    BY <1>1, <2>2, DropHolder DEF ConnectFails, NoBranchLeft, Http1Panics
  <2> QED BY <1>1, <2>1, <2>2, QueueHolder, Http1Holder DEF TaskMoves, TaskNext
<1> QED BY <1>1, SocketSteps, StreamHolder, EnvHolder, ProcHolder DEF Next

-----------------------------------------------------------------------------
\* What a task holds by its phase, and what it has on the wire.

TaskHas(s) ==
    /\ phase[s] \in {"sending", "reading"} => cur[s] # None
    /\ cur[s] # None => phase[s] \in {"sending", "reading", "removing", "draining", "dropping"}
    /\ phase[s] \notin Receiving => Queued(s) = {} /\ wire[s] = <<>>
    /\ phase[s] \in Joined => fd[s] \in Ids /\ proto[s] \in Protocols
    /\ phase[s] \in {"idle", "sending", "reading"} =>
          wire[s] = IF phase[s] = "sending" /\ resp[cur[s]].st = "due" THEN <<cur[s]>> ELSE <<>>

LEMMA HasParts == /\ TaskHolds /\ NoPipelining <=> \A s \in Slots : TaskHas(s)
                  /\ (TaskHolds /\ NoPipelining)' <=> \A s \in Slots : TaskHas(s)'
BY DEF TaskHolds, NoPipelining, TaskHas

Has == \A s \in Slots : TaskHas(s)

\* The response that a task waits for is as much due as before.
DueKept(s) == cur[s] # None => (resp'[cur[s]].st = "due" <=> resp[cur[s]].st = "due")

LEMMA SourceTypes ==
    ASSUME TypeOK
    PROVE  /\ at \in [Requests -> Places]
           /\ resp \in [Requests -> [st: {"none", "due", "whole", "partial"}, of: Requests \cup {None}]]
           /\ reply \in [Requests -> [code: AnswerKinds \cup {"none"}, of: Requests \cup {None}]]
           /\ cur \in [Slots -> Requests \cup {None}]
BY DEF TypeOK, SocketTypeOK

LEMMA SlotTypes ==
    ASSUME TypeOK
    PROVE  /\ phase \in [Slots -> Live \cup {"absent", "ended", "failed", "panicked", "aborted", "gone"}]
           /\ proto \in [Slots -> Protocols \cup {None}]
           /\ rxq \in [Slots -> Seq(Messages)]
           /\ cur \in [Slots -> Requests \cup {None}]
           /\ wire \in [Slots -> Seq(Requests)]
           /\ fd \in [Slots -> Ids \cup {None}]
           /\ listed \in [Ids -> Slots \cup {None}]
BY DEF TypeOK, SocketTypeOK, Messages

LEMMA SlotKept ==
    ASSUME NEW s \in Slots, TaskHas(s), phase'[s] = phase[s], proto'[s] = proto[s], rxq'[s] = rxq[s],
           cur'[s] = cur[s], wire'[s] = wire[s], fd'[s] = fd[s], DueKept(s)
    PROVE  TaskHas(s)'
BY QueuedIsInQueue DEF TaskHas, DueKept

LEMMA DropHas ==
    ASSUME TypeOK, Has, NEW tasks \in SUBSET Slots,
           NEW how \in {"ended", "failed", "panicked", "aborted"}, DropTasks(tasks, how)
    PROVE  Has'
<1>1. ASSUME NEW t \in tasks PROVE TaskHas(t)'
  <2>1. phase'[t] = how /\ cur'[t] = None /\ Queued(t)' = {} /\ wire'[t] = <<>>
    BY QueueEmpty, QueuedIsInQueue DEF DropTasks
  <2> QED BY <2>1 DEF TaskHas, Receiving, Joined
<1>2. ASSUME NEW t \in Slots \ tasks PROVE TaskHas(t)'
  <2>1. /\ phase'[t] = phase[t] /\ cur'[t] = cur[t] /\ rxq'[t] = rxq[t] /\ wire'[t] = wire[t]
        /\ proto'[t] = proto[t] /\ fd'[t] = fd[t] /\ DueKept(t)
    BY DEF DropTasks, DueKept
  <2> QED BY <2>1, SlotKept DEF Has
<1> QED BY <1>1, <1>2 DEF Has

\* A step of one task leaves the others as they are.
LEMMA OneSlotHas ==
    ASSUME TypeOK, Has, NEW s \in Slots, TaskHas(s)',
           \A t \in Slots \ {s} : /\ phase'[t] = phase[t] /\ proto'[t] = proto[t] /\ rxq'[t] = rxq[t]
                                  /\ cur'[t] = cur[t] /\ wire'[t] = wire[t] /\ fd'[t] = fd[t]
                                  /\ DueKept(t)
    PROVE  Has'
BY SlotKept DEF Has

LEMMA ServeHas ==
    ASSUME TypeOK, Has, OneHolder, Sourced, NEW s \in Slots, Serve(s)
    PROVE  Has'
<1> USE SlotTypes DEF Goto, ids, reqVars, TakeHead, HeadIs, DueKept
<1>1. TaskHas(s)
  BY DEF Has
<1>2. ASSUME NEW r \in Requests, TakeRefused(s, r) \/ TakeH2(s, r) PROVE Has'
  <2>1. TaskHas(s)'
    BY <1>1, <1>2 DEF TakeRefused, TakeH2, TaskHas, Receiving
  <2> QED BY <1>2, <2>1, OneSlotHas DEF TakeRefused, TakeH2
<1>3. ASSUME NEW r \in Requests, TakeHttp1(s, r) PROVE Has'
  <2>1. /\ phase[s] = "idle" /\ phase'[s] = "sending" /\ cur'[s] = r /\ r # None
        /\ wire' = wire /\ fd' = fd /\ proto' = proto /\ resp' = resp
    BY <1>3, SocketAssumption DEF TakeHttp1
  <2>2. wire'[s] = <<>> /\ resp'[r].st = "none"
    <3>1. at[r] = "queue"
      BY <1>3, HeadHolder DEF TakeHttp1
    <3> QED BY <1>1, <2>1, <3>1 DEF TaskHas, Sourced, NoResp
  <2>3. TaskHas(s)'
    BY <1>1, <2>1, <2>2 DEF TaskHas, Receiving, Joined
  <2> QED BY <1>3, <2>3, OneSlotHas DEF TakeHttp1
<1>4. CASE TakeIgnored(s) \/ TakeShutdown(s)
  <2>1. TaskHas(s)'
    BY <1>1, <1>4 DEF TakeIgnored, TakeShutdown, TaskHas, Receiving, Joined
  <2> QED BY <1>4, <2>1, OneSlotHas DEF TakeIgnored, TakeShutdown
<1>5. CASE TakeUnsupported(s)
  BY <1>5, DropHas DEF TakeUnsupported
<1> QED BY <1>2, <1>3, <1>4, <1>5 DEF Serve

LEMMA CloseHas ==
    ASSUME TypeOK, Has, NEW s \in Slots, Close(s)
    PROVE  Has'
<1> USE SlotTypes DEF Goto, ids, reqVars, DueKept
<1>1. TaskHas(s)
  BY DEF Has
<1>2. CASE RemoveQueue(s) \/ Drained(s)
  <2>1. TaskHas(s)'
    BY <1>1, <1>2 DEF RemoveQueue, Unlist, Drained, TaskHas, Receiving, Joined
  <2> QED BY <1>2, <2>1, OneSlotHas DEF RemoveQueue, Unlist, Drained
<1>3. CASE DrainOther(s) \/ \E r \in Requests : DrainRequest(s, r)
  <2>1. PICK r : DrainHead(s, r)
    BY <1>3 DEF DrainOther, DrainRequest
  <2>2. TaskHas(s)'
    BY <1>1, <2>1 DEF DrainHead, TaskHas, Receiving
  <2> QED BY <2>1, <2>2, OneSlotHas DEF DrainHead
<1>4. CASE Return(s) \/ BusFails(s)
  BY <1>4, DropHas DEF Return, BusFails
<1> QED BY <1>2, <1>3, <1>4 DEF Close

LEMMA LoopsApart ==
    ASSUME OneHolder, NEW s \in Slots, NEW t \in Slots \ {s}, cur[t] # None
    PROVE  cur[t] # cur[s]
<1>1. on[cur[t]] = t
  BY DEF OneHolder
<1>2. cur[s] # None => on[cur[s]] = s
  BY DEF OneHolder
<1> QED BY <1>1, <1>2

LEMMA TaskNextHas ==
    ASSUME TypeOK, Has, OneHolder, Sourced, NEW s \in Slots, TaskMoves(s)
    PROVE  Has'
<1> USE SlotTypes DEF Goto, ids, reqVars, DueKept
<1>1. TaskHas(s)
  BY DEF Has
<1>2. CASE Connect(s)
  <2>1. TaskHas(s)'
    BY <1>1, <1>2, QueuedIsInQueue DEF Connect, TaskHas, Receiving, Joined
  <2> QED BY <1>2, <2>1, OneSlotHas DEF Connect
<1>3. CASE AddQueue(s) \/ AddService(s) \/ LinkBroken(s)
  <2>1. TaskHas(s)'
    BY <1>1, <1>3, QueuedIsInQueue DEF AddQueue, AddService, LinkBroken, TaskHas, Receiving, Joined
  <2> QED BY <1>3, <2>1, OneSlotHas DEF AddQueue, AddService, LinkBroken
<1>4. CASE ConnectFails(s) \/ NoBranchLeft(s) \/ Http1Panics(s)
  BY <1>4, DropHas DEF ConnectFails, NoBranchLeft, Http1Panics
<1>7. \A t \in Slots \ {s} : cur[t] # None => cur[t] # cur[s]
  BY LoopsApart
<1>8. CASE Http1Write(s)
  <2>1. cur[s] \in Requests /\ phase[s] = "sending"
    BY <1>1, <1>8 DEF Http1Write, TaskHas
  <2>2. /\ resp'[cur[s]].st = "due"
        /\ \A q \in Requests \ {cur[s]} : resp'[q] = resp[q]
    BY <1>8, <2>1, SourceTypes DEF Http1Write
  <2>3. wire[s] = <<>> /\ wire'[s] = Append(wire[s], cur[s])
    BY <1>1, <1>8, <2>1 DEF Http1Write, Written, TaskHas
  <2>4. TaskHas(s)'
    BY <1>1, <1>8, <2>1, <2>2, <2>3, QueuedIsInQueue DEF Http1Write, TaskHas, Receiving, Joined
  <2> QED BY <1>7, <1>8, <2>2, <2>4, OneSlotHas DEF Http1Write
<1>5. CASE Http1Response(s)
  <2>1. wire'[s] = <<>>
    <3>1. wire[s] = <<cur[s]>> /\ wire'[s] = Tail(wire[s]) /\ cur[s] \in Requests
      BY <1>1, <1>5 DEF Http1Response, TaskHas
    <3>2. Tail(<<cur[s]>>) = <<>>
      OBVIOUS
    <3> QED BY <3>1, <3>2
  <2>2. TaskHas(s)'
    BY <1>1, <1>5, <2>1 DEF Http1Response, TaskHas, Receiving, Joined
  <2>3. PICK a : resp' = [resp EXCEPT ![cur[s]] = a]
    BY <1>5 DEF Http1Response
  <2>4. \A t \in Slots \ {s} : cur[t] # None => resp'[cur[t]] = resp[cur[t]]
    BY <1>7, <2>3, SourceTypes
  <2>5. /\ wire' = [wire EXCEPT ![s] = Tail(@)] /\ phase' = [phase EXCEPT ![s] = "reading"]
        /\ UNCHANGED <<proto, rxq, cur, fd>>
    BY <1>5 DEF Http1Response
  <2> QED BY <2>2, <2>4, <2>5, OneSlotHas
<1>6. CASE Http1Error(s) \/ Http1Timeout(s) \/ Http1Read(s)
  <2>1. ASSUME Http1Error(s) PROVE TaskHas(s)'
    <3>1. /\ phase[s] = "sending" /\ phase'[s] = "idle" /\ cur'[s] = None /\ wire'[s] = <<>>
          /\ rxq' = rxq /\ fd' = fd /\ proto' = proto
      BY <2>1 DEF Http1Error, Http1Fails
    <3>2. Queued(s)' = Queued(s)
      BY <3>1, QueuedIsInQueue
    <3> QED BY <1>1, <3>1, <3>2 DEF TaskHas, Receiving, Joined
  <2>2. ASSUME Http1Timeout(s) \/ Http1Read(s) PROVE TaskHas(s)'
    <3>1. /\ \/ phase[s] = "sending" /\ phase'[s] = "removing"
             \/ phase[s] = "reading" /\ phase'[s] = "idle"
          /\ cur'[s] = None /\ wire' = wire /\ rxq' = rxq /\ fd' = fd /\ proto' = proto
      BY <2>2 DEF Http1Timeout, Http1TimeoutTo, Http1Read
    <3>2. Queued(s)' = Queued(s)
      BY <3>1, QueuedIsInQueue
    <3> QED BY <1>1, <3>1, <3>2 DEF TaskHas, Receiving, Joined
  <2>3. TaskHas(s)'
    BY <1>6, <2>1, <2>2
  <2>4. /\ UNCHANGED <<proto, rxq, fd, resp>>
        /\ \A t \in Slots \ {s} : phase'[t] = phase[t] /\ cur'[t] = cur[t] /\ wire'[t] = wire[t]
    BY <1>6 DEF Http1Error, Http1Timeout, Http1TimeoutTo, Http1Read
  <2> QED BY <2>3, <2>4, OneSlotHas
<1> QED BY <1>2, <1>3, <1>4, <1>5, <1>6, <1>8, ServeHas, CloseHas DEF TaskMoves, TaskNext

LEMMA EnvHas ==
    ASSUME TypeOK, Has, SocketEnv
    PROVE  Has'
<1> USE SlotTypes DEF ids, reqVars, DueKept
<1>1. ASSUME NEW s \in Slots, Control(s) \/ \E r \in Requests : Deliver(s, r) PROVE Has'
  <2>1. TaskHas(s)
    BY DEF Has
  <2>2. phase[s] \in Receiving \/ Queued(s)' = {}
    <3>1. CASE \E r \in Requests : Deliver(s, r)
      BY <3>1 DEF Deliver
    <3>2. CASE Control(s)
      <4>1. PICK m \in Controls : rxq' = [rxq EXCEPT ![s] = Append(@, m)]
        BY <3>2 DEF Control
      <4>2. m \in Messages /\ {m} \cap Requests = {}
        BY SocketAssumption DEF Messages
      <4>3. Queued(s)' = Queued(s) \cup ({m} \cap Requests)
        BY <4>1, <4>2, MessageAdded
      <4> QED BY <2>1, <4>2, <4>3 DEF TaskHas
    <3> QED BY <1>1, <3>1, <3>2
  <2>3. TaskHas(s)'
    BY <1>1, <2>1, <2>2 DEF Control, Deliver, Exposed, TaskHas, Receiving
  <2> QED BY <1>1, <2>3, OneSlotHas DEF Control, Deliver
<1>2. CASE UNCHANGED <<phase, proto, rxq, cur, wire, fd, resp>>
  BY <1>2, SlotKept DEF Has
<1>3. ASSUME NEW r \in Requests, BodyArrives(r) PROVE Has'
  <2>1. resp[r].st = "partial" /\ resp'[r].st = "whole" /\ \A q \in Requests \ {r} : resp'[q] = resp[q]
    BY <1>3, SourceTypes DEF BodyArrives
  <2> QED BY <1>3, <2>1, SlotKept DEF Has, BodyArrives, taskVars
<1> QED BY <1>1, <1>2, <1>3 DEF SocketEnv, MainStops, LinkEnds, LeftEnds, taskVars

LEMMA ProcHas ==
    ASSUME TypeOK, Has, NoOrphans, ProcNext \/ Restart \/ Notify \/ UNCHANGED vars
    PROVE  Has'
<1> USE SlotTypes DEF ids, reqVars, DueKept
<1>1. CASE RecvShutdown \/ RecvUnsupported \/ \E s \in Slots : JoinPanic(s)
  BY <1>1, DropHas DEF RecvShutdown, RecvUnsupported, JoinPanic, AbortAll, EndWith
<1>2. CASE Start \/ Restart
  <2> SUFFICES ASSUME NEW s \in Slots PROVE TaskHas(s)'
    BY DEF Has
  <2>1. TaskHas(s) /\ phase[s] \notin Live
    BY <1>2 DEF Has, NoOrphans, Running, Start, Restart
  <2>2. phase'[s] \in {"connecting", "absent"} /\ UNCHANGED <<cur, wire>> /\ Queued(s)' = Queued(s)
    BY <1>2, QueuedIsInQueue DEF Start, Restart
  <2> QED BY <2>1, <2>2 DEF TaskHas, Live, Receiving, Joined
<1>3. ASSUME NEW s \in Slots, JoinOk(s) \/ JoinErr(s) PROVE Has'
  <2>1. TaskHas(s)
    BY DEF Has
  <2>2. TaskHas(s)'
    BY <1>3, <2>1, QueuedIsInQueue DEF JoinOk, JoinErr, Goto, TaskHas, Receiving, Joined
  <2> QED BY <1>3, <2>2, OneSlotHas DEF JoinOk, JoinErr, Goto
<1>4. CASE UNCHANGED <<phase, proto, rxq, cur, wire, fd, resp>>
  BY <1>4, SlotKept DEF Has
<1> QED BY <1>1, <1>2, <1>3, <1>4 DEF ProcNext, StartFails, RecvService, Notify, vars, sockVars, taskVars

\* What a spawned task gets is not what the task of a socket waits for.
LEMMA StreamHas ==
    ASSUME TypeOK, Has, OneHolder, NEW r \in Requests, StreamMoves(r)
    PROVE  Has'
<1>1. UNCHANGED <<phase, proto, rxq, cur, wire, fd>>
  BY DEF StreamMoves, StreamNext, H2Panics, H2Write, H2Response, H2Error, H2ErrorAs, H2Timeout,
         H2TimeoutIn, H2Read, SettleStream, taskVars, ids
<1>2. Stream(r) /\ (resp' = resp \/ \E a : resp' = [resp EXCEPT ![r] = a])
  <2>1. CASE H2Write(r)
    <3>1. resp' = [resp EXCEPT ![r] = [resp[r] EXCEPT !.st = "due"]]
      BY <2>1 DEF H2Write
    <3> QED BY <2>1, <3>1 DEF H2Write
  <2>2. CASE H2Response(r)
    BY <2>2 DEF H2Response
  <2> QED BY <2>1, <2>2 DEF StreamMoves, StreamNext, H2Panics, H2Error, H2ErrorAs, H2Timeout, H2TimeoutIn,
         H2Read, SettleStream
<1>3. \A s \in Slots : cur[s] # None => cur[s] # r
  BY <1>2 DEF OneHolder, Stream
<1>4. \A s \in Slots : DueKept(s)
  BY <1>2, <1>3, SourceTypes DEF DueKept
<1> QED BY <1>1, <1>4, SlotKept DEF Has

LEMMA NextHas == TypeOK /\ Has /\ NoOrphans /\ OneHolder /\ Sourced /\ [Next]_vars => Has'
BY SocketSteps, TaskNextHas, StreamHas, EnvHas, ProcHas DEF Next

-----------------------------------------------------------------------------
\* No task without its processor.

LEMMA TaskIsLive == ASSUME NEW s \in Slots, TaskMoves(s) PROVE phase[s] \in Live
BY DEF TaskMoves, TaskNext, Connect, ConnectFails, AddQueue, AddService, Serve, TakeRefused, TakeHttp1, TakeH2,
       TakeIgnored, TakeUnsupported, TakeShutdown, TakeHead, HeadIs, LinkBroken, NoBranchLeft, Close,
       RemoveQueue, Unlist, DrainOther, DrainRequest, DrainHead, Drained, Return, BusFails,
       Http1Write, Http1Response, Http1Error, Http1Fails, Http1Timeout, Http1TimeoutTo, Http1Read,
       Http1Panics, Live, Receiving

LEMMA NextOrphans == TypeOK /\ NoOrphans /\ [Next]_vars => NoOrphans'
<1> SUFFICES ASSUME TypeOK, NoOrphans, [Next]_vars, ~Running'
             PROVE  \A s \in Slots : phase'[s] \notin Live
  BY DEF NoOrphans
<1>1. CASE SocketNext /\ UNCHANGED procVars
  <2>1. \A s \in Slots : phase[s] \notin Live
    BY <1>1 DEF NoOrphans, Running, procVars
  <2>2. phase' = phase
    BY <1>1, <2>1, SocketSteps, TaskIsLive
       DEF StreamMoves, StreamNext, H2Panics, H2Write, H2Response, H2Error, H2ErrorAs, H2Timeout,
           H2TimeoutIn, H2Read, SettleStream, SocketEnv, Control, LinkEnds, LeftEnds, Deliver, MainStops,
           BodyArrives, taskVars
  <2> QED BY <2>1, <2>2
<1>2. CASE RecvShutdown \/ RecvUnsupported \/ \E s \in Slots : JoinPanic(s)
  <2>1. PICK how : AbortAll(how)
    BY <1>2 DEF RecvShutdown, RecvUnsupported, JoinPanic
  <2> QED BY <2>1, SlotTypes DEF AbortAll, EndWith, DropTasks, Live, Receiving
<1>3. CASE StartFails \/ Restart
  BY <1>3 DEF StartFails, Restart, NoOrphans, Running, Live, Receiving, sockVars, taskVars
<1>4. CASE Start \/ RecvService \/ \E s \in Slots : JoinOk(s) \/ JoinErr(s)
  BY <1>4 DEF Start, RecvService, TakeProc, JoinOk, JoinErr, Running, procVars
<1>5. CASE Notify \/ UNCHANGED vars
  BY <1>5 DEF Notify, vars, procVars, sockVars, taskVars, NoOrphans, Running
<1> QED BY <1>1, <1>2, <1>3, <1>4, <1>5 DEF Next, ProcNext

-----------------------------------------------------------------------------
\* Where the data of a reply comes from.

Source(r) ==
    /\ at[r] \in {"idle", "queue"} \/ reply[r].code = "UnableToReachService" => resp[r] = NoResp
    /\ resp[r].st \in {"partial", "whole"} => resp[r].of = r /\ at[r] # "sent"
    /\ reply[r].code = "response" => resp[r].st = "whole"
    /\ reply[r].of = IF reply[r].code = "response" THEN r ELSE None

LEMMA SourceParts == /\ Sourced <=> \A r \in Requests : Source(r)
                     /\ Sourced' <=> \A r \in Requests : Source(r)'
BY DEF Sourced, Source

\* Requests move on without an answer, and nothing comes for them.
LEMMA SourceKept ==
    ASSUME Sourced, UNCHANGED <<resp, reply>>,
           \A r \in Requests : \/ at'[r] = at[r]
                               \/ at[r] \in {"idle", "queue"} /\ at'[r] \in {"queue", "sent"}
                               \/ at'[r] \in {"lost", "reading"}
    PROVE  Sourced'
<1> SUFFICES ASSUME NEW r \in Requests PROVE Source(r)'
  BY SourceParts
<1> QED BY SourceParts DEF Source, NoResp

LEMMA SettleSource ==
    ASSUME TypeOK, Sourced, NEW r \in Requests, NEW code, NEW data, Settle(r, code, data), resp' = resp,
           \/ code \in {"ServiceError", "Timeout"} /\ data = None
           \/ code = "UnableToReachService" /\ data = None /\ at[r] = "queue"
           \/ code = "response" /\ data = resp[r].of /\ resp[r].st = "whole"
    PROVE  Sourced'
<1> SUFFICES ASSUME NEW q \in Requests PROVE Source(q)'
  BY SourceParts
<1>1. Source(q)
  BY SourceParts
<1>2. CASE q # r
  <2>1. reply'[q] = reply[q] /\ at'[q] = at[q]
    BY <1>2, SourceTypes DEF Settle
  <2> QED BY <1>1, <2>1 DEF Source
<1>3. CASE q = r
  <2>1. reply'[q] = [code |-> code, of |-> data] /\ at'[q] = "answered"
    BY <1>3, SourceTypes DEF Settle
  <2> QED BY <1>1, <1>3, <2>1 DEF Source
<1> QED BY <1>2, <1>3

\* A request is written, or the response to it begins or is complete.
LEMMA RespSource ==
    ASSUME TypeOK, OneHolder, Sourced, NEW r \in Requests, at[r] \in {"sent", "reading"},
           NEW place \in {"sent", "reading"}, at'[r] = place,
           resp'[r].st \in {"partial", "whole"} => resp'[r].of = r /\ place = "reading",
           \A q \in Requests \ {r} : resp'[q] = resp[q] /\ at'[q] = at[q], reply' = reply
    PROVE  Sourced'
<1>1. reply[r].code = "none"
  BY DEF OneHolder
<1> SUFFICES ASSUME NEW q \in Requests PROVE Source(q)'
  BY SourceParts
<1> QED BY <1>1, SourceParts DEF Source

LEMMA TaskSource ==
    ASSUME TypeOK, OneHolder, Has, Sourced, NEW s \in Slots, TaskMoves(s)
    PROVE  Sourced'
<1>1. TaskHas(s)
  BY DEF Has
<1>2. CASE Http1Response(s)
  <2>1. cur[s] \in Requests /\ wire[s] = <<cur[s]>> /\ at[cur[s]] \in {"sent", "reading"}
    BY <1>1, <1>2, SourceTypes DEF Http1Response, TaskHas, OneHolder
  <2>2. Head(wire[s]) = cur[s]
    BY <2>1
  <2>3. PICK b : resp' = [resp EXCEPT ![cur[s]] = [st |-> b, of |-> Head(wire[s])]]
    BY <1>2 DEF Http1Response
  <2>4. resp'[cur[s]].of = cur[s] /\ \A q \in Requests \ {cur[s]} : resp'[q] = resp[q]
    BY <2>1, <2>2, <2>3, SourceTypes
  <2>5. at'[cur[s]] = "reading" /\ \A q \in Requests \ {cur[s]} : at'[q] = at[q]
    BY <1>2, <2>1, SourceTypes DEF Http1Response
  <2> QED BY <1>2, <2>1, <2>4, <2>5, RespSource DEF Http1Response
<1>6. CASE Http1Write(s)
  <2>1. cur[s] \in Requests /\ at[cur[s]] \in {"sent", "reading"}
    BY <1>1, <1>6, SourceTypes DEF Http1Write, TaskHas, OneHolder
  <2>2. resp'[cur[s]].st = "due" /\ \A q \in Requests \ {cur[s]} : resp'[q] = resp[q]
    BY <1>6, <2>1, SourceTypes DEF Http1Write
  <2>3. at' = at /\ reply' = reply
    BY <1>6 DEF Http1Write
  <2> QED BY <2>1, <2>2, <2>3, RespSource
<1>3. CASE Http1Error(s) \/ Http1Timeout(s) \/ Http1Read(s)
  <2>1. cur[s] \in Requests
    BY <1>1, <1>3, SourceTypes DEF Http1Error, Http1Fails, Http1Timeout, Http1TimeoutTo, Http1Read, TaskHas
  <2> QED BY <1>3, <2>1, SettleSource DEF Http1Error, Http1Timeout, Http1TimeoutTo, Http1Read
<1>4. ASSUME NEW r \in Requests, TakeRefused(s, r) \/ DrainRequest(s, r) PROVE Sourced'
  <2>1. at[r] = "queue"
    BY <1>4, HeadHolder DEF TakeRefused, TakeHead, HeadIs, DrainRequest, DrainHead
  <2> QED BY <1>4, <2>1, SettleSource DEF TakeRefused, DrainRequest, DrainHead
<1>5. CASE UNCHANGED <<at, resp, reply>>
  BY <1>5 DEF Sourced
<1>7. ASSUME NEW r \in Requests, TakeHttp1(s, r) \/ TakeH2(s, r) PROVE Sourced'
  <2>1. at[r] = "queue"
    BY <1>7, HeadHolder DEF TakeHttp1, TakeH2, TakeHead, HeadIs
  <2> QED BY <1>7, <2>1, SourceKept, SourceTypes DEF TakeHttp1, TakeH2
<1>8. ASSUME NEW how, DropTasks({s}, how) PROVE Sourced'
  BY <1>8, SourceKept DEF DropTasks
<1> QED BY <1>2, <1>3, <1>4, <1>5, <1>6, <1>7, <1>8
        DEF TaskMoves, TaskNext, Connect, ConnectFails, AddQueue, AddService, Serve,
            TakeIgnored, TakeUnsupported, TakeShutdown, LinkBroken, NoBranchLeft, Close, Http1Panics,
            RemoveQueue, Unlist, DrainOther, DrainHead, Drained, Return, BusFails, reqVars

LEMMA StreamSource ==
    ASSUME TypeOK, OneHolder, Sourced, NEW r \in Requests, StreamMoves(r) \/ BodyArrives(r)
    PROVE  Sourced'
<1>1. CASE H2Response(r)
  <2>1. PICK b : resp' = [resp EXCEPT ![r] = [st |-> b, of |-> r]]
    BY <1>1 DEF H2Response
  <2>2. resp'[r].of = r /\ \A q \in Requests \ {r} : resp'[q] = resp[q]
    BY <2>1, SourceTypes
  <2>3. at'[r] = "reading" /\ \A q \in Requests \ {r} : at'[q] = at[q]
    BY <1>1, SourceTypes DEF H2Response
  <2> QED BY <1>1, <2>2, <2>3, RespSource DEF H2Response
<1>2. CASE BodyArrives(r)
  <2>1. at[r] = "reading" /\ resp[r].of = r
    BY <1>2 DEF BodyArrives, Sourced
  <2>2. resp'[r].of = r /\ \A q \in Requests \ {r} : resp'[q] = resp[q]
    BY <1>2, <2>1, SourceTypes DEF BodyArrives
  <2>3. at' = at /\ reply' = reply
    BY <1>2 DEF BodyArrives
  <2> QED BY <2>1, <2>2, <2>3, RespSource
<1>3. CASE H2Error(r) \/ H2Timeout(r) \/ H2Read(r)
  BY <1>3, SettleSource DEF H2Error, H2ErrorAs, H2Timeout, H2TimeoutIn, H2Read, SettleStream
<1>4. CASE H2Write(r)
  <2>1. resp'[r].st = "due" /\ \A q \in Requests \ {r} : resp'[q] = resp[q]
    BY <1>4, SourceTypes DEF H2Write
  <2>2. at' = at /\ reply' = reply /\ at[r] = "sent"
    BY <1>4 DEF H2Write
  <2> QED BY <2>1, <2>2, RespSource
<1>5. CASE H2Panics(r)
  BY <1>5, SourceKept, SourceTypes DEF H2Panics
<1> QED BY <1>1, <1>2, <1>3, <1>4, <1>5 DEF StreamMoves, StreamNext

LEMMA NextSource == TypeOK /\ OneHolder /\ Has /\ Sourced /\ [Next]_vars => Sourced'
<1>1. ASSUME UNCHANGED <<at, resp, reply>>, Sourced PROVE Sourced'
  BY <1>1 DEF Sourced
<1>2. ASSUME Sourced, ProcNext \/ Restart \/ Notify \/ UNCHANGED vars PROVE Sourced'
  <2>1. ASSUME NEW how, AbortAll(how) PROVE Sourced'
    BY <1>2, <2>1, SourceKept DEF AbortAll, EndWith, DropTasks
  <2>2. (\E how : AbortAll(how)) \/ UNCHANGED <<at, resp, reply>>
    BY <1>2 DEF ProcNext, Start, StartFails, RecvService, RecvShutdown, RecvUnsupported,
       JoinOk, JoinErr, JoinPanic, Restart, Notify, vars, sockVars, reqVars
  <2> QED BY <1>1, <1>2, <2>1, <2>2
<1>3. ASSUME TypeOK, Sourced, SocketEnv PROVE Sourced' \/ \E r \in Requests : BodyArrives(r)
  <2>1. ASSUME NEW s \in Slots, NEW r \in Requests, Deliver(s, r) PROVE Sourced'
    BY <1>3, <2>1, SourceKept, SourceTypes DEF Deliver
  <2> QED BY <1>1, <1>3, <2>1 DEF SocketEnv, Control, LinkEnds, LeftEnds, MainStops, reqVars
<1> QED BY <1>2, <1>3, SocketSteps, TaskSource, StreamSource DEF Next

-----------------------------------------------------------------------------
\* A socket that took its queue back.

Back(s) ==
    /\ phase[s] \in {"draining", "dropping"} => listed[fd[s]] # s
    /\ phase[s] = "dropping" => Queued(s) \subseteq stale

AllBack == \A s \in Slots : Back(s)

LEMMA BackParts == /\ TakenBack <=> AllBack
                   /\ TakenBack' <=> AllBack'
BY DEF TakenBack, AllBack, Back, Exposed, Receiving

LEMMA BackKept ==
    ASSUME TypeOK, NEW s \in Slots, TaskHas(s), Back(s),
           phase'[s] = phase[s], fd'[s] = fd[s], Queued(s)' \subseteq Queued(s), stale \subseteq stale',
           \A i \in Ids : listed'[i] = s => listed[i] = s
    PROVE  Back(s)'
<1>1. phase[s] \in {"draining", "dropping"} => fd[s] \in Ids
  BY DEF TaskHas, Joined, Receiving
<1> QED BY <1>1 DEF Back

LEMMA OneSlotBack ==
    ASSUME TypeOK, Has, AllBack, NEW s \in Slots, Back(s)', stale \subseteq stale',
           \A t \in Slots \ {s} : phase'[t] = phase[t] /\ fd'[t] = fd[t] /\ rxq'[t] = rxq[t],
           \A i \in Ids : listed'[i] \in {listed[i], s, None}
    PROVE  AllBack'
<1> SUFFICES ASSUME NEW t \in Slots, t # s PROVE Back(t)'
  BY DEF AllBack
<1>1. Queued(t)' = Queued(t)
  BY QueuedIsInQueue
<1>2. t # None
  BY SocketAssumption
<1> QED BY <1>1, <1>2, BackKept DEF Has, AllBack

LEMMA DropBack ==
    ASSUME TypeOK, Has, AllBack, NEW tasks \in SUBSET Slots,
           NEW how \in {"ended", "failed", "panicked", "aborted"}, DropTasks(tasks, how),
           \A i \in Ids : listed'[i] \in {listed[i], None}
    PROVE  AllBack'
<1> SUFFICES ASSUME NEW t \in Slots PROVE Back(t)'
  BY DEF AllBack
<1>1. CASE t \in tasks
  BY <1>1 DEF DropTasks, Back
<1>2. CASE t \notin tasks
  <2>1. phase'[t] = phase[t] /\ fd'[t] = fd[t] /\ rxq'[t] = rxq[t] /\ stale' = stale
    BY <1>2 DEF DropTasks
  <2>2. Queued(t)' = Queued(t)
    BY <2>1, QueuedIsInQueue
  <2>3. t # None
    BY SocketAssumption
  <2> QED BY <2>1, <2>2, <2>3, BackKept DEF Has, AllBack
<1> QED BY <1>1, <1>2

LEMMA CloseBack ==
    ASSUME TypeOK, Has, AllBack, NEW s \in Slots, Close(s)
    PROVE  AllBack'
<1> USE SlotTypes DEF Goto, ids, reqVars
<1>1. TaskHas(s) /\ Back(s)
  BY DEF Has, AllBack
<1>2. CASE RemoveQueue(s)
  <2>1. fd[s] \in Ids
    BY <1>1, <1>2 DEF RemoveQueue, Unlist, TaskHas, Joined, Receiving
  <2>2. Back(s)'
    BY <1>2, <2>1, SocketAssumption DEF RemoveQueue, Unlist, Back
  <2> QED BY <1>2, <2>1, <2>2, OneSlotBack DEF RemoveQueue, Unlist
<1>3. CASE Drained(s)
  <2>1. Queued(s)' = {}
    BY <1>3, QueuedIsInQueue, QueueEmpty DEF Drained
  <2>2. Back(s)'
    BY <1>1, <1>3, <2>1 DEF Drained, Back
  <2> QED BY <1>3, <2>2, OneSlotBack DEF Drained
<1>4. CASE DrainOther(s) \/ \E r \in Requests : DrainRequest(s, r)
  <2>1. PICK r : DrainHead(s, r)
    BY <1>4 DEF DrainOther, DrainRequest
  <2>2. Back(s)'
    BY <1>1, <2>1 DEF DrainHead, Back
  <2> QED BY <2>1, <2>2, OneSlotBack DEF DrainHead
<1>5. CASE Return(s) \/ BusFails(s)
  BY <1>5, DropBack DEF Return, BusFails
<1> QED BY <1>2, <1>3, <1>4, <1>5 DEF Close

LEMMA TaskBack ==
    ASSUME TypeOK, Has, AllBack, NEW s \in Slots, TaskMoves(s)
    PROVE  AllBack'
<1> USE SlotTypes DEF Goto, ids, reqVars
<1>1. TaskHas(s)
  BY DEF Has
<1>2. CASE Connect(s)
  <2>1. Back(s)'
    BY <1>2 DEF Connect, Back
  <2> QED BY <1>2, <2>1, OneSlotBack DEF Connect
<1>3. CASE AddQueue(s) \/ AddService(s)
  <2>1. Back(s)'
    BY <1>3 DEF AddQueue, AddService, Back
  <2>2. fd[s] \in Ids
    BY <1>1, <1>3 DEF AddQueue, AddService, TaskHas, Joined
  <2> QED BY <1>3, <2>1, <2>2, OneSlotBack DEF AddQueue, AddService
<1>4. CASE ConnectFails(s) \/ NoBranchLeft(s) \/ TakeUnsupported(s) \/ Http1Panics(s)
  BY <1>4, DropBack DEF ConnectFails, NoBranchLeft, TakeUnsupported, Http1Panics
<1>5. ASSUME phase'[s] \notin {"draining", "dropping"},
             \A t \in Slots \ {s} : phase'[t] = phase[t] /\ rxq'[t] = rxq[t],
             UNCHANGED <<fd, listed, stale>>
      PROVE  AllBack'
  <2>1. Back(s)'
    BY <1>5 DEF Back
  <2> QED BY <1>5, <2>1, OneSlotBack
<1>6. CASE LinkBroken(s)
  BY <1>5, <1>6 DEF LinkBroken
<1>7. CASE Http1Write(s) \/ Http1Response(s) \/ Http1Error(s) \/ Http1Timeout(s) \/ Http1Read(s)
  BY <1>5, <1>7 DEF Http1Write, Http1Response, Http1Error, Http1Fails, Http1Timeout, Http1TimeoutTo, Http1Read
<1>8. ASSUME NEW r \in Requests, TakeRefused(s, r) \/ TakeHttp1(s, r) \/ TakeH2(s, r) PROVE AllBack'
  BY <1>5, <1>8 DEF TakeRefused, TakeHttp1, TakeH2, TakeHead, HeadIs
<1>9. CASE TakeIgnored(s) \/ TakeShutdown(s)
  BY <1>5, <1>9 DEF TakeIgnored, TakeShutdown, TakeHead, HeadIs
<1> QED BY <1>2, <1>3, <1>4, <1>6, <1>7, <1>8, <1>9, CloseBack DEF TaskMoves, TaskNext, Serve

LEMMA EnvBack ==
    ASSUME TypeOK, Has, AllBack, SocketEnv
    PROVE  AllBack'
<1> USE SlotTypes DEF ids, reqVars
<1>1. ASSUME NEW s \in Slots, NEW r \in Requests, Deliver(s, r) PROVE AllBack'
  <2>1. phase' = phase /\ fd' = fd /\ listed' = listed /\ phase[s] \in Receiving
    BY <1>1 DEF Deliver
  <2>2. Queued(s)' = Queued(s) \cup {r}
    <3>1. r \in Messages /\ {r} \cap Requests = {r}
      BY DEF Messages
    <3> QED BY <1>1, <3>1, MessageAdded DEF Deliver
  <2>3. stale \subseteq stale' /\ (listed[fd[s]] # s => r \in stale')
    BY <1>1 DEF Deliver, Exposed
  <2>4. Back(s)'
    BY <2>1, <2>2, <2>3 DEF AllBack, Back
  <2> QED BY <1>1, <2>1, <2>3, <2>4, OneSlotBack DEF Deliver
<1>2. ASSUME NEW s \in Slots, Control(s) PROVE AllBack'
  <2>1. phase' = phase /\ fd' = fd /\ listed' = listed /\ stale' = stale
    BY <1>2 DEF Control
  <2>2. Back(s)'
    BY <1>2, <2>1 DEF Control, AllBack, Back, Exposed
  <2> QED BY <1>2, <2>1, <2>2, OneSlotBack DEF Control
<1>3. CASE UNCHANGED <<phase, fd, rxq, listed, stale>>
  BY <1>3, QueuedIsInQueue DEF AllBack, Back
<1> QED BY <1>1, <1>2, <1>3 DEF SocketEnv, MainStops, LinkEnds, LeftEnds, BodyArrives, taskVars

LEMMA ProcBack ==
    ASSUME TypeOK, Has, AllBack, ProcNext \/ Restart \/ Notify \/ UNCHANGED vars
    PROVE  AllBack'
<1> USE SlotTypes DEF ids, reqVars
<1>1. CASE RecvShutdown \/ RecvUnsupported \/ \E s \in Slots : JoinPanic(s)
  <2>1. \A i \in Ids : listed'[i] \in {listed[i], None}
    BY <1>1 DEF RecvShutdown, RecvUnsupported, JoinPanic
  <2>2. PICK how : AbortAll(how)
    BY <1>1 DEF RecvShutdown, RecvUnsupported, JoinPanic
  <2> QED BY <2>1, <2>2, DropBack DEF AbortAll, EndWith
<1>2. CASE Start \/ Restart
  BY <1>2 DEF Start, Restart, AllBack, Back
<1>3. ASSUME NEW s \in Slots, JoinOk(s) \/ JoinErr(s) PROVE AllBack'
  <2>1. Back(s)'
    BY <1>3 DEF JoinOk, JoinErr, Goto, Back
  <2> QED BY <1>3, <2>1, OneSlotBack DEF JoinOk, JoinErr, Goto
<1>4. CASE UNCHANGED <<phase, fd, rxq, listed, stale>>
  BY <1>4, QueuedIsInQueue DEF AllBack, Back
<1> QED BY <1>1, <1>2, <1>3, <1>4 DEF ProcNext, StartFails, RecvService, Notify, vars, sockVars, taskVars

LEMMA NextBack == TypeOK /\ Has /\ AllBack /\ [Next]_vars => AllBack'
<1>1. ASSUME NEW r \in Requests, StreamMoves(r) PROVE UNCHANGED <<phase, fd, rxq, listed, stale>>
  BY <1>1 DEF StreamMoves, StreamNext, H2Panics, H2Write, H2Response, H2Error, H2ErrorAs, H2Timeout, H2TimeoutIn, H2Read, SettleStream, taskVars, ids
<1>2. AllBack /\ UNCHANGED <<phase, fd, rxq, listed, stale>> => AllBack'
  BY QueuedIsInQueue DEF AllBack, Back
<1> QED BY <1>1, <1>2, SocketSteps, TaskBack, EnvBack, ProcBack DEF Next

-----------------------------------------------------------------------------
\* The invariant and what follows from it.

LEMMA InvParts == /\ IInv <=> TypeOK /\ OneHolder /\ Has /\ NoOrphans /\ Sourced /\ AllBack
                  /\ IInv' <=> TypeOK' /\ OneHolder' /\ Has' /\ NoOrphans' /\ Sourced' /\ AllBack'
BY HasParts, BackParts DEF IInv, Has

LEMMA HasTaskHolds == Has => TaskHolds
BY HasParts DEF Has

LEMMA InitInv == Init => IInv
<1> SUFFICES ASSUME Init PROVE IInv
  OBVIOUS
<1>1. \A s \in Slots : Queued(s) = {} /\ rxq[s] = <<>> /\ cur[s] = None /\ wire[s] = <<>>
  BY QueueEmpty, QueuedIsInQueue DEF Init, SocketInit
<1>2. OneHolder
  BY <1>1, HolderParts, QueueEmpty DEF Init, SocketInit, Custody, NoReply
<1>3. Has
  BY <1>1 DEF Init, Has, TaskHas, Receiving, Joined
<1>4. NoOrphans /\ AllBack
  BY DEF Init, NoOrphans, AllBack, Back, Live, Receiving
<1>5. Sourced
  BY DEF Init, SocketInit, Sourced, NoResp, NoReply
<1> QED BY <1>2, <1>3, <1>4, <1>5, InitType, InvParts

LEMMA NextInv == IInv /\ [Next]_vars => IInv'
BY InvParts, HasTaskHolds, NextType, NextHolder, NextHas, NextOrphans, NextSource, NextBack

\* The inductive invariant holds of every client.
THEOREM Invariance == Safety => []IInv
BY InitInv, NextInv, PTL DEF Safety

\* Every variable keeps its type.
THEOREM TypeCorrect == Safety => []TypeOK
<1>1. IInv => TypeOK
  BY DEF IInv
<1> QED BY <1>1, Invariance, PTL

\* A request has one holder until it is answered.
THEOREM HeldOnce == Safety => []OneHolder
<1>1. IInv => OneHolder
  BY DEF IInv
<1> QED BY <1>1, Invariance, PTL

\* An HTTP/1.1 connection is never asked twice before it answered.
THEOREM OneOnTheWire == Safety => []NoPipelining
<1>1. IInv => NoPipelining
  BY DEF IInv
<1> QED BY <1>1, Invariance, PTL

\* The data of an answer is from the response to the request it answers.
THEOREM AnswersOwn == Safety => []OwnResponse
<1>1. IInv => OwnResponse
  BY DEF IInv, Sourced, OwnResponse
<1> QED BY <1>1, Invariance, PTL

\* No socket outlives the processor that started it.
THEOREM TasksOwned == Safety => []NoOrphans
<1>1. IInv => NoOrphans
  BY DEF IInv
<1> QED BY <1>1, Invariance, PTL

-----------------------------------------------------------------------------
\* What a step can do to the requests.

Drops == \E tasks \in SUBSET {s \in Slots : phase[s] \in Live},
            how \in {"ended", "failed", "panicked", "aborted"} : DropTasks(tasks, how)
Answers(r) ==
    /\ at[r] \in {"queue", "sent", "reading"}
    /\ \E code \in AnswerKinds, data \in {r, None} : Settle(r, code, data)
Arrives(r) == at[r] = "idle" /\ at' = [at EXCEPT ![r] = "queue"] /\ reply' = reply
Moves(r) ==
    /\ at[r] \in {"queue", "sent", "reading"}
    /\ \E place \in {"sent", "reading"} : at' = [at EXCEPT ![r] = place]
    /\ reply' = reply

Loses(r) == at[r] \in {"sent", "reading"} /\ Stream(r) /\ at' = [at EXCEPT ![r] = "lost"] /\ UNCHANGED <<phase, reply>>

RequestStep ==
    \/ Drops
    \/ \E r \in Requests : Answers(r) \/ Arrives(r) \/ Moves(r) \/ Loses(r)
    \/ UNCHANGED <<at, reply>>

LEMMA DropsOne ==
    ASSUME NEW s \in Slots, phase[s] \in Live, NEW how \in {"ended", "failed", "panicked", "aborted"},
           DropTasks({s}, how)
    PROVE  RequestStep
BY DEF RequestStep, Drops

LEMMA QueueStep ==
    ASSUME TypeOK, OneHolder, NEW s \in Slots, Serve(s) \/ Close(s)
    PROVE  RequestStep
<1>1. \A r \in Requests : r \in Queued(s) => at[r] = "queue"
  BY DEF OneHolder
<1>2. ASSUME rxq[s] # <<>>, Head(rxq[s]) \in Requests, rxq' = [rxq EXCEPT ![s] = Tail(@)]
      PROVE  at[Head(rxq[s])] = "queue"
  BY <1>2, HeadHolder
<1>3. {"ServiceError", "UnableToReachService"} \subseteq AnswerKinds
  BY DEF AnswerKinds
<1>4. ASSUME NEW r \in Requests, TakeRefused(s, r) \/ DrainRequest(s, r) PROVE RequestStep
  <2>1. Answers(r)
    BY <1>2, <1>3, <1>4 DEF TakeRefused, TakeHead, HeadIs, DrainRequest, DrainHead, Answers
  <2> QED BY <2>1 DEF RequestStep
<1>5. ASSUME NEW r \in Requests, TakeHttp1(s, r) \/ TakeH2(s, r) PROVE RequestStep
  <2>1. Moves(r)
    BY <1>2, <1>5 DEF TakeHttp1, TakeH2, TakeHead, HeadIs, Moves
  <2> QED BY <2>1 DEF RequestStep
<1>6. CASE TakeUnsupported(s) \/ Return(s) \/ BusFails(s)
  <2>1. phase[s] \in Live
    BY <1>6 DEF TakeUnsupported, HeadIs, Return, BusFails, Live, Receiving
  <2> QED BY <1>6, <2>1, DropsOne DEF TakeUnsupported, Return, BusFails
<1> QED BY <1>4, <1>5, <1>6
        DEF Serve, Close, TakeIgnored, TakeShutdown, RemoveQueue, Unlist, DrainOther, Drained,
            reqVars, RequestStep

LEMMA AnswerStep ==
    ASSUME Sourced, NEW r \in Requests, at[r] \in {"queue", "sent", "reading"},
           \/ Settle(r, "ServiceError", None) \/ Settle(r, "Timeout", None)
           \/ resp[r].st = "whole" /\ Settle(r, "response", resp[r].of)
    PROVE  RequestStep
<1>1. {"ServiceError", "Timeout", "response"} \subseteq AnswerKinds
  BY DEF AnswerKinds
<1>2. resp[r].st = "whole" => resp[r].of = r
  BY DEF Sourced
<1>3. Answers(r)
  BY <1>1, <1>2 DEF Answers
<1> QED BY <1>3 DEF RequestStep

LEMMA TaskStep ==
    ASSUME TypeOK, OneHolder, Has, Sourced, NEW s \in Slots, TaskMoves(s)
    PROVE  RequestStep
<1>1. TaskHas(s) /\ phase[s] \in Live
  BY TaskIsLive DEF Has
<1>2. CASE ConnectFails(s) \/ NoBranchLeft(s) \/ Http1Panics(s)
  BY <1>1, <1>2, DropsOne DEF ConnectFails, NoBranchLeft, Http1Panics
<1>3. CASE Http1Response(s) \/ Http1Error(s) \/ Http1Timeout(s) \/ Http1Read(s)
  <2>4. phase[s] \in {"sending", "reading"}
    BY <1>3 DEF Http1Response, Http1Error, Http1Fails, Http1Timeout, Http1TimeoutTo, Http1Read
  <2>1. cur[s] \in Requests /\ at[cur[s]] \in {"sent", "reading"}
    BY <1>1, <2>4, SourceTypes, HolderParts DEF TaskHas, Custody
  <2>2. CASE Http1Response(s)
    <3>1. Moves(cur[s])
      BY <2>1, <2>2 DEF Http1Response, Moves
    <3> QED BY <2>1, <3>1 DEF RequestStep
  <2>3. CASE Http1Error(s) \/ Http1Timeout(s) \/ Http1Read(s)
    BY <2>1, <2>3, AnswerStep DEF Http1Error, Http1Timeout, Http1TimeoutTo, Http1Read
  <2> QED BY <1>3, <2>2, <2>3
<1>4. CASE UNCHANGED <<at, reply>>
  BY <1>4 DEF RequestStep
<1> QED BY <1>2, <1>3, <1>4, QueueStep
        DEF TaskMoves, TaskNext, Connect, AddQueue, AddService, LinkBroken, Http1Write, reqVars

LEMMA StreamStep ==
    ASSUME Sourced, NEW r \in Requests, StreamMoves(r)
    PROVE  RequestStep
<1>1. CASE H2Response(r)
  <2>1. Moves(r)
    BY <1>1 DEF H2Response, Moves
  <2> QED BY <2>1 DEF RequestStep
<1>2. CASE H2Error(r) \/ H2Timeout(r) \/ H2Read(r)
  BY <1>2, AnswerStep DEF H2Error, H2ErrorAs, H2Timeout, H2TimeoutIn, H2Read, SettleStream
<1>3. CASE H2Write(r)
  BY <1>3 DEF H2Write, RequestStep
<1>4. CASE H2Panics(r)
  <2>1. Loses(r)
    BY <1>4 DEF H2Panics, Loses, taskVars
  <2> QED BY <2>1 DEF RequestStep
<1> QED BY <1>1, <1>2, <1>3, <1>4 DEF StreamMoves, StreamNext, H2Panics

LEMMA NextStep ==
    ASSUME IInv, [Next]_vars
    PROVE  RequestStep
<1>1. TypeOK /\ OneHolder /\ Has /\ Sourced
  BY InvParts
<1>2. CASE UNCHANGED <<at, reply>>
  BY <1>2 DEF RequestStep
<1>3. ASSUME NEW s \in Slots, NEW r \in Requests, Deliver(s, r) PROVE RequestStep
  BY <1>3 DEF Deliver, Arrives, RequestStep
<1>4. ASSUME NEW how, AbortAll(how) PROVE RequestStep
  BY <1>4 DEF AbortAll, EndWith, Drops, RequestStep
<1>5. CASE SocketNext
  BY <1>1, <1>2, <1>3, <1>5, SocketSteps, TaskStep, StreamStep
     DEF SocketEnv, Control, LinkEnds, LeftEnds, MainStops, BodyArrives, reqVars
<1>6. CASE ProcNext \/ Restart \/ Notify \/ UNCHANGED vars
  BY <1>2, <1>4, <1>6 DEF ProcNext, Start, StartFails, RecvService, RecvShutdown, RecvUnsupported,
     JoinOk, JoinErr, JoinPanic, Restart, Notify, vars, sockVars, reqVars
<1> QED BY <1>5, <1>6 DEF Next

\* What a socket leaves unread when it closes in order was sent to it out of turn.
THEOREM NothingOwedIsDropped == Safety => OrderlyDrain
<1>1. IInv => \A s \in Slots : phase[s] = "dropping" /\ phase'[s] = "ended" => Queued(s) \subseteq stale
  BY DEF IInv, TakenBack
<1> QED BY <1>1, Invariance, PTL DEF OrderlyDrain

\* A request is lost only by a step that ends the socket whose queue or loop held it, or, once
\* it has a task of its own, alone.
THEOREM LostOnlyWithHolder == Safety => LostWithHolder
<1> DEFINE Held1(r) == \E s \in Slots : r \in Held(s) /\ phase[s] \in Live /\ phase'[s] \notin Live
           Alone1(r) ==
             /\ at[r] \in {"sent", "reading"} /\ Stream(r)
             /\ phase' = phase /\ \A q \in Requests \ {r} : at'[q] = at[q]
<1>1. ASSUME IInv, RequestStep, NEW r \in Requests, at[r] # "lost", at'[r] = "lost"
      PROVE  Held1(r) \/ Alone1(r)
  <2>1. at \in [Requests -> Places]
    BY <1>1, SourceTypes DEF IInv
  <2>2. CASE Drops
    <3>1. PICK tasks \in SUBSET {s \in Slots : phase[s] \in Live},
               how \in {"ended", "failed", "panicked", "aborted"} : DropTasks(tasks, how)
      BY <2>2 DEF Drops
    <3>2. PICK s \in tasks : r \in Held(s)
      BY <1>1, <3>1 DEF DropTasks
    <3>3. phase'[s] = how /\ how \notin Live
      BY <3>1, <3>2 DEF DropTasks, Live, Receiving
    <3> QED BY <3>1, <3>2, <3>3
  <2>3. ASSUME NEW q \in Requests, Loses(q) PROVE Alone1(r)
    <3>1. q = r
      BY <1>1, <2>1, <2>3 DEF Loses
    <3> QED BY <1>1, <2>1, <2>3, <3>1 DEF Loses
  <2> QED BY <1>1, <2>1, <2>2, <2>3 DEF RequestStep, Answers, Settle, Arrives, Moves
<1>2. IInv /\ [Next]_vars =>
        \A r \in Requests :
          at[r] # "lost" /\ at'[r] = "lost" =>
              \/ \E s \in Slots : r \in Held(s) /\ phase[s] \in Live /\ phase'[s] \notin Live
              \/ /\ at[r] \in {"sent", "reading"} /\ Stream(r)
                 /\ phase' = phase /\ \A q \in Requests \ {r} : at'[q] = at[q]
  BY <1>1, NextStep
<1> QED BY <1>2, Invariance, PTL DEF Safety, LostWithHolder

-----------------------------------------------------------------------------
\* A socket that serves is listed, as long as no two sockets can have the same descriptor.

Serving == {"idle", "sending", "reading", "removing"}
InTable(s) == phase[s] \in Serving => listed[fd[s]] = s
Apart(s, t) == phase[s] \in Joined /\ phase[t] \in Joined /\ fd[s] = fd[t] => s = t

Tabled == /\ \A s \in Slots : InTable(s)
          /\ \A s, t \in Slots : Apart(s, t)

LEMMA TabledIsListed == IInv /\ Tabled => ListedWhileServing /\ DescriptorsApart
BY DEF IInv, TakenBack, Tabled, InTable, Apart, Serving, ListedWhileServing, DescriptorsApart,
       Exposed, Receiving

\* A task that goes on with its descriptor, and a table that changed at most at that place.
LEMMA OneSlotTabled ==
    ASSUME TypeOK, Has, Tabled, NEW s \in Slots, phase[s] \in Joined, InTable(s)', fd' = fd,
           \A t \in Slots \ {s} : phase'[t] = phase[t],
           \A i \in Ids \ {fd[s]} : listed'[i] = listed[i]
    PROVE  Tabled'
<1>1. ASSUME NEW t \in Slots, t # s PROVE InTable(t)'
  <2>1. phase[t] \in Serving => fd[t] \in Ids \ {fd[s]}
    BY <1>1 DEF Tabled, Apart, Has, TaskHas, Serving, Joined, Receiving
  <2> QED BY <1>1, <2>1 DEF Tabled, InTable
<1>2. ASSUME NEW t \in Slots, NEW u \in Slots PROVE Apart(t, u)'
  BY DEF Tabled, Apart
<1> QED BY <1>1, <1>2 DEF Tabled

LEMMA DropTabled ==
    ASSUME TypeOK, Tabled, NEW tasks \in SUBSET Slots,
           NEW how \in {"ended", "failed", "panicked", "aborted"}, DropTasks(tasks, how),
           listed' = listed \/ tasks = {s \in Slots : phase[s] \in Live}
    PROVE  Tabled'
<1>1. \A t \in Slots : \/ phase'[t] = how
                       \/ t \notin tasks /\ phase'[t] = phase[t] /\ fd'[t] = fd[t]
  BY DEF DropTasks
<1>2. how \notin Joined \cup Serving
  BY DEF Joined, Serving, Receiving
<1>3. \A t \in Slots : InTable(t)'
  <2> SUFFICES ASSUME NEW t \in Slots, phase'[t] \in Serving PROVE listed'[fd'[t]] = t
    BY DEF InTable
  <2>1. t \notin tasks /\ phase'[t] = phase[t] /\ fd'[t] = fd[t] /\ phase[t] \in Live
    BY <1>1, <1>2 DEF Serving, Live, Receiving
  <2> QED BY <2>1 DEF Tabled, InTable
<1>4. \A t, u \in Slots : Apart(t, u)'
  BY <1>1, <1>2 DEF Tabled, Apart
<1> QED BY <1>3, <1>4 DEF Tabled

LEMMA ConnectTabled ==
    ASSUME OwnDescriptors, TypeOK, Has, Tabled, NEW s \in Slots, Connect(s)
    PROVE  Tabled'
<1>1. PICK i \in Ids : (\A t \in Slots : ~Opened(t, i)) /\ fd' = [fd EXCEPT ![s] = i]
  BY DEF Connect
<1>2. /\ fd'[s] = i /\ phase[s] = "connecting" /\ phase'[s] = "adding"
      /\ \A t \in Slots \ {s} : fd'[t] = fd[t] /\ phase'[t] = phase[t]
      /\ listed' = listed
  BY <1>1, SlotTypes DEF Connect, Goto
<1>3. \A t \in Slots \ {s} : phase[t] \in Joined => fd[t] # i
  <2> SUFFICES ASSUME NEW t \in Slots, t # s, phase[t] \in Joined, fd[t] = i
               PROVE  FALSE
    OBVIOUS
  <2>1. proto[t] \in Protocols
    BY DEF Has, TaskHas
  <2>2. proto[t] # "h2"
    BY <2>1 DEF OwnDescriptors
  <2> QED BY <1>1, <2>2 DEF Opened
<1>4. \A t \in Slots : InTable(t)'
  BY <1>2 DEF Tabled, InTable, Serving
<1>5. \A t, u \in Slots : Apart(t, u)'
  BY <1>2, <1>3 DEF Tabled, Apart
<1> QED BY <1>4, <1>5 DEF Tabled

LEMMA TaskTabled ==
    ASSUME OwnDescriptors, TypeOK, Has, Tabled, NEW s \in Slots, TaskMoves(s)
    PROVE  Tabled'
<1> USE SlotTypes DEF Goto, ids, reqVars
<1>1. ASSUME phase[s] \in Joined, InTable(s)', fd' = fd,
             phase' = phase \/ \E p : phase' = [phase EXCEPT ![s] = p],
             \A i \in Ids \ {fd[s]} : listed'[i] = listed[i]
      PROVE  Tabled'
  BY <1>1, OneSlotTabled
<1>2. phase[s] \in Joined => fd[s] \in Ids
  BY DEF Has, TaskHas
<1>3. CASE AddQueue(s) \/ AddService(s) \/ RemoveQueue(s)
  <2>1. phase[s] \in Joined
    BY <1>3 DEF AddQueue, AddService, RemoveQueue, Unlist, Joined, Receiving
  <2>2. InTable(s)'
    BY <1>2, <1>3, <2>1 DEF AddQueue, AddService, RemoveQueue, Unlist, InTable, Serving
  <2> QED BY <1>1, <1>3, <2>1, <2>2 DEF AddQueue, AddService, RemoveQueue, Unlist
<1>4. ASSUME phase[s] \in Receiving, UNCHANGED <<fd, listed>>, phase[s] \in Serving \/ phase'[s] \notin Serving,
             phase' = phase \/ \E p : phase' = [phase EXCEPT ![s] = p]
      PROVE  Tabled'
  <2>1. InTable(s)'
    BY <1>4 DEF Tabled, InTable
  <2> QED BY <1>1, <1>4, <2>1 DEF Joined
<1>5. CASE LinkBroken(s) \/ TakeIgnored(s) \/ TakeShutdown(s)
  BY <1>4, <1>5 DEF LinkBroken, TakeIgnored, TakeShutdown, TakeHead, HeadIs, Serving, Receiving
<1>6. CASE Http1Write(s) \/ Http1Response(s) \/ Http1Error(s) \/ Http1Timeout(s) \/ Http1Read(s)
  BY <1>4, <1>6 DEF Http1Write, Http1Response, Http1Error, Http1Fails, Http1Timeout, Http1TimeoutTo, Http1Read, Serving, Receiving
<1>7. ASSUME NEW r \in Requests, TakeRefused(s, r) \/ TakeHttp1(s, r) \/ TakeH2(s, r) PROVE Tabled'
  BY <1>4, <1>7 DEF TakeRefused, TakeHttp1, TakeH2, TakeHead, HeadIs, Serving, Receiving
<1>8. CASE DrainOther(s) \/ Drained(s) \/ \E r \in Requests : DrainRequest(s, r)
  BY <1>4, <1>8 DEF DrainOther, Drained, DrainRequest, DrainHead, Serving, Receiving
<1>9. CASE ConnectFails(s) \/ NoBranchLeft(s) \/ TakeUnsupported(s) \/ Return(s) \/ BusFails(s)
           \/ Http1Panics(s)
  BY <1>9, DropTabled DEF ConnectFails, NoBranchLeft, TakeUnsupported, Return, BusFails, Http1Panics
<1> QED BY <1>3, <1>5, <1>6, <1>7, <1>8, <1>9, ConnectTabled DEF TaskMoves, TaskNext, Serve, Close

LEMMA ProcTabled ==
    ASSUME TypeOK, NoOrphans, Tabled, ProcNext \/ Restart \/ Notify \/ UNCHANGED vars
    PROVE  Tabled'
<1> USE SlotTypes DEF ids
<1>1. CASE RecvShutdown \/ RecvUnsupported \/ \E s \in Slots : JoinPanic(s)
  <2>1. PICK how : AbortAll(how)
    BY <1>1 DEF RecvShutdown, RecvUnsupported, JoinPanic
  <2> QED BY <2>1, DropTabled DEF AbortAll, EndWith
<1>2. ASSUME UNCHANGED <<fd, listed>>,
             \A s \in Slots : phase'[s] = phase[s] \/ phase'[s] \in {"connecting", "absent", "gone"}
      PROVE  Tabled'
  BY <1>2 DEF Tabled, InTable, Apart, Serving, Joined, Receiving
<1>3. CASE Start \/ Restart \/ \E s \in Slots : JoinOk(s) \/ JoinErr(s)
  BY <1>2, <1>3 DEF Start, Restart, JoinOk, JoinErr, Goto
<1>4. CASE UNCHANGED <<phase, fd, listed>>
  BY <1>2, <1>4
<1> QED BY <1>1, <1>3, <1>4 DEF ProcNext, StartFails, RecvService, Notify, vars, sockVars, taskVars

LEMMA NextTabled == OwnDescriptors /\ IInv /\ Tabled /\ [Next]_vars => Tabled'
<1>1. Tabled /\ UNCHANGED <<phase, fd, listed>> => Tabled'
  BY DEF Tabled, InTable, Apart
<1>2. SocketEnv \/ (\E r \in Requests : StreamMoves(r)) => UNCHANGED <<phase, fd, listed>>
  BY DEF StreamMoves, StreamNext, H2Panics, H2Write, H2Response, H2Error, H2ErrorAs, H2Timeout, H2TimeoutIn, H2Read, SettleStream, SocketEnv,
         Control, LinkEnds, LeftEnds, Deliver, MainStops, BodyArrives, taskVars, ids
<1> QED BY <1>1, <1>2, SocketSteps, TaskTabled, ProcTabled, InvParts DEF Next

LEMMA InitTabled == Init => Tabled
BY DEF Init, Tabled, InTable, Apart, Serving, Joined, Receiving

\* A socket that reads its queue is listed, and one that empties it is not: for HTTP/1.1
\* connections, or with one socket.
THEOREM ServingIsListed == OwnDescriptors => (Safety => []ListedWhileServing)
<1> SUFFICES ASSUME OwnDescriptors PROVE Safety => []ListedWhileServing
  OBVIOUS
<1>1. Init => Tabled
  BY InitTabled
<1>2. IInv /\ Tabled /\ [Next]_vars => Tabled'
  BY NextTabled
<1>3. IInv /\ Tabled => ListedWhileServing
  BY TabledIsListed
<1> QED BY <1>1, <1>2, <1>3, Invariance, PTL DEF Safety

-----------------------------------------------------------------------------
\* The client implements the exchange it promises to the processors that call it.

Pending == {"queue", "sent", "reading"}

LEMMA PhaseOf ==
    \A r \in Requests :
        /\ RequestPhase[r] = CASE at[r] \in Pending -> "open" [] at[r] = "lost" -> "aborted" [] OTHER -> at[r]
        /\ RequestPhase'[r] = CASE at'[r] \in Pending -> "open" [] at'[r] = "lost" -> "aborted" [] OTHER -> at'[r]
BY DEF RequestPhase, Pending

\* The exchange sees one request change its phase.
LEMMA PhaseChange ==
    ASSUME TypeOK, NEW r \in Requests, NEW place, at' = [at EXCEPT ![r] = place],
           NEW p, p = CASE place \in Pending -> "open" [] place = "lost" -> "aborted" [] OTHER -> place
    PROVE  RequestPhase' = [RequestPhase EXCEPT ![r] = p]
<1>1. at'[r] = place /\ \A q \in Requests \ {r} : at'[q] = at[q]
  BY SourceTypes
<1>2. RequestPhase'[r] = p /\ \A q \in Requests \ {r} : RequestPhase'[q] = RequestPhase[q]
  BY <1>1, PhaseOf
<1>3. /\ RequestPhase = [q \in Requests |-> RequestPhase[q]]
      /\ RequestPhase' = [q \in Requests |-> RequestPhase'[q]]
  BY DEF RequestPhase
<1> QED BY <1>2, <1>3

LEMMA InitExchange == Init => Exchange!XInit
BY DEF Init, SocketInit, Exchange!XInit, Exchange!NoReply, RequestPhase, NoReply

LEMMA DropsExchange ==
    ASSUME TypeOK, OneHolder, Drops
    PROVE  Exchange!XNext
<1>1. PICK tasks \in SUBSET {s \in Slots : phase[s] \in Live},
           how \in {"ended", "failed", "panicked", "aborted"} : DropTasks(tasks, how)
  BY DEF Drops
<1> DEFINE ended == {r \in Requests : \E s \in tasks : r \in Held(s)}
<1>2. reply' = reply /\ \A r \in Requests : at'[r] = IF r \in ended THEN "lost" ELSE at[r]
  BY <1>1 DEF DropTasks
<1>3. ended \subseteq Requests /\ \A r \in ended : at[r] \in Pending
  BY DEF OneHolder, Held, Pending
<1> HIDE DEF ended
<1>4. \A r \in Requests : RequestPhase'[r] = IF r \in ended THEN "aborted" ELSE RequestPhase[r]
  BY <1>2, PhaseOf DEF Pending
<1>5. RequestPhase' = [r \in Requests |-> RequestPhase'[r]]
  BY DEF RequestPhase
<1>6. RequestPhase' = [r \in Requests |-> IF r \in ended THEN "aborted" ELSE RequestPhase[r]]
  BY <1>4, <1>5
<1>7. \A r \in ended : RequestPhase[r] = "open"
  BY <1>3, PhaseOf DEF Pending
<1>8. Exchange!Abort(ended)
  BY <1>2, <1>6, <1>7 DEF Exchange!Abort
<1> QED BY <1>3, <1>8 DEF Exchange!XNext

LEMMA StepExchange ==
    ASSUME TypeOK, OneHolder, RequestStep
    PROVE  [Exchange!XNext]_<<RequestPhase, reply>>
<1>1. ASSUME NEW r \in Requests, Answers(r) PROVE Exchange!XNext
  <2>1. PICK code \in AnswerKinds, data \in {r, None} : Settle(r, code, data)
    BY <1>1 DEF Answers
  <2>2. RequestPhase[r] = "open"
    BY <1>1, PhaseOf DEF Answers, Pending
  <2>3. RequestPhase' = [RequestPhase EXCEPT ![r] = "answered"]
    BY <2>1, PhaseChange DEF Settle, Pending
  <2>4. Exchange!Answer(r)
    BY <2>1, <2>2, <2>3 DEF Settle, Exchange!Answer
  <2> QED BY <2>4 DEF Exchange!XNext
<1>2. ASSUME NEW r \in Requests, Arrives(r) PROVE Exchange!XNext
  <2>1. RequestPhase[r] = "idle"
    BY <1>2, PhaseOf DEF Arrives, Pending
  <2>2. RequestPhase' = [RequestPhase EXCEPT ![r] = "open"]
    BY <1>2, PhaseChange DEF Arrives, Pending
  <2>3. Exchange!Begin(r)
    BY <1>2, <2>1, <2>2 DEF Arrives, Exchange!Begin
  <2> QED BY <2>3 DEF Exchange!XNext
<1>3. ASSUME NEW r \in Requests, Moves(r) PROVE UNCHANGED <<RequestPhase, reply>>
  <2>1. RequestPhase[r] = "open"
    BY <1>3, PhaseOf DEF Moves, Pending
  <2>2. RequestPhase' = [RequestPhase EXCEPT ![r] = "open"]
    BY <1>3, PhaseChange DEF Moves, Pending
  <2>3. RequestPhase' = RequestPhase
    BY <2>1, <2>2 DEF RequestPhase
  <2> QED BY <1>3, <2>3 DEF Moves
<1>4. CASE UNCHANGED <<at, reply>>
  BY <1>4 DEF RequestPhase
<1>5. ASSUME NEW r \in Requests, Loses(r) PROVE Exchange!XNext
  <2>1. RequestPhase[r] = "open"
    BY <1>5, PhaseOf DEF Loses, Pending
  <2>2. RequestPhase' = [RequestPhase EXCEPT ![r] = "aborted"]
    BY <1>5, PhaseChange DEF Loses, Pending
  <2>3. RequestPhase' = [q \in Requests |-> IF q \in {r} THEN "aborted" ELSE RequestPhase[q]]
    BY <2>2 DEF RequestPhase
  <2>4. Exchange!Abort({r})
    BY <1>5, <2>1, <2>3 DEF Loses, Exchange!Abort
  <2> QED BY <2>4 DEF Exchange!XNext
<1> QED BY <1>1, <1>2, <1>3, <1>4, <1>5, DropsExchange DEF RequestStep

\* Every behaviour of the client is one of the abstract exchange.
THEOREM Refinement == Safety => ImplementsExchange
<1>1. Init => Exchange!XInit
  BY InitExchange
<1>2. IInv /\ [Next]_vars => [Exchange!XNext]_<<RequestPhase, reply>>
  BY NextStep, StepExchange, InvParts
<1>3. [Exchange!XNext]_<<RequestPhase, reply>> => [Exchange!XNext]_Exchange!xvars
  BY DEF Exchange!xvars
<1> QED BY <1>1, <1>2, <1>3, Invariance, PTL DEF Safety, ImplementsExchange, Exchange!XSafety

=============================================================================
