------------------------- MODULE HyperGateway_proofs -------------------------
(***************************************************************************)
(* Proofs about HyperGateway: the client's sockets are services as         *)
(* HyperServer assumes them, and what an HTTP client is told is what       *)
(* happened to its request. The lemmas about either side are those of      *)
(* HyperClient_proofs and HyperServer_proofs.                              *)
(***************************************************************************)
EXTENDS HyperGateway, SequenceTheorems, TLAPS

CliP == INSTANCE HyperClient_proofs WITH
    Requests <- Calls, QueueCap <- ServiceCap, MainMayStop <- FALSE, cur <- msg, reply <- answer

SrvP == INSTANCE HyperServer_proofs WITH
    Services <- {Service}, Target <- [c \in Calls |-> Service], Serves <- [q \in Queues |-> Service],
    Errors <- {"ProtocolError", "Timeout", "UnableToReachService"},
    qstate <- QState, svcQ <- SvcQ, held <- Held

-----------------------------------------------------------------------------
\* Both sides' assumptions hold, and their definitions are those of the two proof modules.

LEMMA ClientAssumptions ==
    /\ Protocols \subseteq {"http1", "h2"} /\ Split \subseteq Protocols
    /\ ServiceCap \in Nat \ {0} /\ FALSE \in BOOLEAN
    /\ Calls \cap Cli!Controls = {} /\ Calls \cap CliP!Controls = {}
    /\ None \notin Calls \cup Slots \cup Ids /\ "gone" \notin Ids \cup {None}
    /\ MaxStarts \in Nat \ {0}
BY GatewayAssumption DEF Cli!Controls, CliP!Controls

LEMMA ServerAssumptions ==
    /\ [c \in Calls |-> Service] \in [Calls -> {Service}]
    /\ [q \in Queues |-> Service] \in [Queues -> {Service}]
    /\ {"ProtocolError", "Timeout", "UnableToReachService"} \subseteq SrvP!ServiceErrors
    /\ HttpCap \in Nat \ {0} /\ ServiceCap \in Nat \ {0} /\ BusCap \in Nat \ {0}
    /\ MaxEpoch \in Nat \ {0} /\ None \notin Calls
BY GatewayAssumption DEF SrvP!ServiceErrors
-----------------------------------------------------------------------------
\* The calls in a socket's queue.

Controls == Cli!Controls
OneControl(w) == \A i, j \in 1..Len(w) : {w[i], w[j]} \subseteq Controls => i = j

LEMMA WaitingEmpty == Waiting(<<>>) = <<>>
BY DEF Waiting, HasControl

LEMMA WaitingType ==
    ASSUME NEW w \in Seq(Calls \cup Controls), OneControl(w)
    PROVE  Waiting(w) \in Seq(Calls)
<1> DEFINE n == IF HasControl(w) THEN Len(w) - 1 ELSE Len(w)
<1>1. n \in Nat
  BY DEF HasControl
<1>2. ASSUME NEW i \in 1..n
      PROVE  (IF \E j \in 1..i : w[j] \in Controls THEN w[i + 1] ELSE w[i]) \in Calls
  <2>1. CASE \E j \in 1..i : w[j] \in Controls
    <3>1. PICK j \in 1..i : w[j] \in Controls
      BY <2>1
    <3>2. i + 1 \in 1..Len(w) /\ j \in 1..Len(w) /\ j # i + 1
      BY <1>2, <3>1 DEF HasControl, Controls
    <3>3. w[i + 1] \notin Controls
      BY <3>1, <3>2 DEF OneControl
    <3> QED BY <2>1, <3>2, <3>3
  <2>2. CASE ~\E j \in 1..i : w[j] \in Controls
    <3>1. i \in 1..Len(w) /\ w[i] \notin Controls
      BY <2>2
    <3> QED BY <2>2, <3>1
  <2> QED BY <2>1, <2>2
<1>3. Waiting(w) = [i \in 1..n |-> IF \E j \in 1..i : w[j] \in Controls THEN w[i + 1] ELSE w[i]]
  BY DEF Waiting, Controls
<1> HIDE DEF n
<1> QED BY <1>1, <1>2, <1>3

\* A control message comes in, or goes out.
LEMMA WaitingControlIn ==
    ASSUME NEW w \in Seq(Calls \cup Controls), NEW m \in Controls, ~HasControl(w)
    PROVE  Waiting(Append(w, m)) = Waiting(w)
<1> DEFINE v == Append(w, m)
<1>1. Len(v) = Len(w) + 1 /\ v[Len(v)] = m /\ \A i \in 1..Len(w) : v[i] = w[i]
  OBVIOUS
<1>2. HasControl(v)
  BY <1>1 DEF HasControl, Controls
<1>3. \A i \in 1..Len(w) : ~\E j \in 1..i : v[j] \in Controls
  BY <1>1 DEF HasControl, Controls
<1> HIDE DEF v
<1>4. Waiting(v) = [i \in 1..Len(w) |-> v[i]]
  BY <1>1, <1>2, <1>3 DEF Waiting, Controls
<1>5. Waiting(w) = [i \in 1..Len(w) |-> w[i]]
  BY DEF Waiting, HasControl
<1> QED BY <1>1, <1>4, <1>5 DEF v

LEMMA WaitingControlOut ==
    ASSUME NEW w \in Seq(Calls \cup Controls), w # <<>>, OneControl(w), Head(w) \in Controls
    PROVE  Waiting(Tail(w)) = Waiting(w)
<1> DEFINE v == Tail(w)
<1>1. /\ Len(w) \in Nat \ {0} /\ Len(v) = Len(w) - 1 /\ w[1] \in Controls
      /\ \A i \in 1..Len(v) : v[i] = w[i + 1]
  OBVIOUS
<1>2. HasControl(w) /\ \A i \in 1..(Len(w) - 1) : \E j \in 1..i : w[j] \in Controls
  BY <1>1 DEF HasControl, Controls
<1>3. \A i \in 1..Len(v) : v[i] \notin Controls
  BY <1>1 DEF OneControl
<1> HIDE DEF v
<1>4. Waiting(w) = [i \in 1..Len(v) |-> w[i + 1]]
  BY <1>1, <1>2 DEF Waiting, Controls
<1>5. Waiting(v) = [i \in 1..Len(v) |-> v[i]]
  BY <1>1, <1>3 DEF Waiting, HasControl, Controls
<1> QED BY <1>1, <1>4, <1>5 DEF v

LEMMA TailIs ==
    ASSUME NEW S, NEW q \in Seq(S), q # <<>>
    PROVE  Head(q) = q[1] /\ Tail(q) = [i \in 1..(Len(q) - 1) |-> q[i + 1]]
<1>1. /\ Tail(q) \in Seq(S) /\ Len(Tail(q)) = Len(q) - 1 /\ Len(q) \in Nat
      /\ \A i \in 1..(Len(q) - 1) : Tail(q)[i] = q[i + 1]
  OBVIOUS
<1>2. Tail(q) = [i \in 1..Len(Tail(q)) |-> Tail(q)[i]]
  <2>1. Tail(q) \in [1..Len(Tail(q)) -> S]
    BY <1>1, LenProperties
  <2> QED BY <2>1
<1> QED BY <1>1, <1>2

\* The call at the head of the queue goes out.
LEMMA WaitingCallOut ==
    ASSUME NEW w \in Seq(Calls \cup Controls), w # <<>>, OneControl(w), Head(w) \in Calls
    PROVE  /\ Waiting(w) # <<>> /\ Head(Waiting(w)) = Head(w)
           /\ Waiting(Tail(w)) = Tail(Waiting(w))
<1> DEFINE v == Tail(w)
           n == IF HasControl(w) THEN Len(w) - 1 ELSE Len(w)
<1>1. /\ Len(w) \in Nat \ {0} /\ Len(v) = Len(w) - 1 /\ w[1] = Head(w) /\ w[1] \notin Controls
      /\ \A i \in 1..Len(v) : v[i] = w[i + 1]
  BY ClientAssumptions DEF Controls
<1>2. HasControl(w) <=> HasControl(v)
  <2>1. ASSUME NEW i \in 1..Len(w), w[i] \in Controls PROVE HasControl(v)
    <3>1. i - 1 \in 1..Len(v) /\ v[i - 1] = w[i]
      BY <1>1, <2>1
    <3> QED BY <2>1, <3>1 DEF HasControl, Controls
  <2>2. ASSUME NEW i \in 1..Len(v), v[i] \in Controls PROVE HasControl(w)
    BY <1>1, <2>2 DEF HasControl, Controls
  <2> QED BY <2>1, <2>2 DEF HasControl, Controls
<1>3. n \in Nat \ {0}
  <2>1. HasControl(w) => Len(w) > 1
    BY <1>1 DEF HasControl, Controls
  <2> QED BY <1>1, <2>1
<1>4. \A i \in 1..(n - 1) : (\E j \in 1..i : v[j] \in Controls) <=> (\E j \in 1..(i + 1) : w[j] \in Controls)
  <2> SUFFICES ASSUME NEW i \in 1..(n - 1)
               PROVE  (\E j \in 1..i : v[j] \in Controls) <=> (\E j \in 1..(i + 1) : w[j] \in Controls)
    OBVIOUS
  <2>1. i \in 1..Len(v)
    BY <1>1, <1>3
  <2>2. ASSUME NEW j \in 1..i, v[j] \in Controls PROVE \E k \in 1..(i + 1) : w[k] \in Controls
    <3>1. j + 1 \in 1..(i + 1) /\ w[j + 1] = v[j]
      BY <1>1, <2>1
    <3> QED BY <2>2, <3>1
  <2>3. ASSUME NEW j \in 1..(i + 1), w[j] \in Controls PROVE \E k \in 1..i : v[k] \in Controls
    <3>1. j - 1 \in 1..i /\ v[j - 1] = w[j]
      BY <1>1, <2>1, <2>3
    <3> QED BY <2>3, <3>1
  <2> QED BY <2>2, <2>3
<1> DEFINE a(i) == IF \E j \in 1..i : w[j] \in Controls THEN w[i + 1] ELSE w[i]
           b(i) == IF \E j \in 1..i : v[j] \in Controls THEN v[i + 1] ELSE v[i]
<1>5. Waiting(w) = [i \in 1..n |-> a(i)]
  BY DEF Waiting, Controls
<1>6. Waiting(v) = [i \in 1..(n - 1) |-> b(i)]
  BY <1>1, <1>2 DEF Waiting, Controls
<1>7. \A i \in 1..(n - 1) : b(i) = a(i + 1)
  <2> SUFFICES ASSUME NEW i \in 1..(n - 1) PROVE b(i) = a(i + 1)
    OBVIOUS
  <2>1. CASE \E j \in 1..i : v[j] \in Controls
    <3>1. HasControl(v) /\ i + 1 \in 1..Len(v)
      <4>1. i \in 1..Len(v) /\ n <= Len(w)
        BY <1>1, <1>3
      <4>2. HasControl(v)
        BY <2>1, <4>1, <1>1 DEF HasControl, Controls
      <4> QED BY <1>1, <1>2, <1>3, <4>2
    <3>2. v[i + 1] = w[i + 1 + 1]
      BY <1>1, <3>1
    <3> QED BY <1>4, <2>1, <3>2
  <2>2. CASE ~\E j \in 1..i : v[j] \in Controls
    <3>1. v[i] = w[i + 1]
      BY <1>1, <1>3
    <3> QED BY <1>4, <2>2, <3>1
  <2> QED BY <2>1, <2>2
<1>8. a(1) = w[1]
  BY <1>1
<1> HIDE DEF n, a, b
<1>9. Waiting(w) \in Seq({a(i) : i \in 1..n}) /\ Len(Waiting(w)) = n /\ Waiting(w) # <<>>
  BY <1>3, <1>5
<1>10. Head(Waiting(w)) = a(1) /\ Tail(Waiting(w)) = [i \in 1..(n - 1) |-> Waiting(w)[i + 1]]
  <2>1. /\ Head(Waiting(w)) = Waiting(w)[1]
        /\ Tail(Waiting(w)) = [i \in 1..(Len(Waiting(w)) - 1) |-> Waiting(w)[i + 1]]
    BY <1>9, TailIs
  <2>2. 1 \in 1..n /\ Waiting(w)[1] = a(1)
    BY <1>3, <1>5
  <2>3. Len(Waiting(w)) = n
    BY <1>9
  <2> QED BY <2>1, <2>2, <2>3
<1>11. \A i \in 1..(n - 1) : Waiting(w)[i + 1] = b(i)
  BY <1>3, <1>5, <1>7
<1> QED BY <1>1, <1>6, <1>8, <1>9, <1>10, <1>11 DEF v

-----------------------------------------------------------------------------
\* The sockets' registrations.

LEMMA ClientTypes ==
    ASSUME Cli!IInv
    PROVE  /\ phase \in [Slots -> Cli!Live \cup {"absent", "ended", "failed", "panicked", "aborted", "gone"}]
           /\ rxq \in [Slots -> Seq(Calls \cup Controls)]
           /\ msg \in [Slots -> Calls \cup {None}]
           /\ fd \in [Slots -> Ids \cup {None}]
           /\ listed \in [Ids -> Slots \cup {None}]
           /\ at \in [Calls -> Cli!Places] /\ on \in [Calls -> Slots \cup {None}]
           /\ answer \in [Calls -> [code: Cli!AnswerKinds \cup {"none"}, of: Calls \cup {None}]]
BY DEF Cli!IInv, Cli!TypeOK, Cli!SocketTypeOK, Controls

SocketStep == \/ \E s \in Slots : Cli!TaskNext(s) \/ Cli!Control(s) \/ Cli!LinkEnds(s)
              \/ \E r \in Calls : Cli!StreamNext(r) \/ Cli!BodyArrives(r)
              \/ \E i \in Ids : Cli!LeftEnds(i)
ProcessorStep == Cli!ProcNext \/ Cli!Restart \/ Cli!Notify

\* Only add_proc_queue and add_service make a socket receive.
LEMMA PhaseStep ==
    ASSUME Cli!IInv, SocketStep \/ ProcessorStep
    PROVE  \A s \in Slots :
              /\ phase'[s] \in Cli!Receiving => phase[s] \in Cli!Receiving \/ Registers(s)
              /\ Registers(s) => Cli!AddService(s)
<1> USE ClientTypes DEF Registers, Cli!Goto, Cli!Receiving
<1> DEFINE Kept(s) == /\ phase'[s] \in Cli!Receiving => phase[s] \in Cli!Receiving
                      /\ ~Registers(s)
<1>1. CASE phase' = phase
  BY <1>1
<1>2. ASSUME NEW tasks, NEW how \in {"ended", "failed", "panicked", "aborted"}, Cli!DropTasks(tasks, how)
      PROVE  \A s \in Slots : Kept(s)
  BY <1>2 DEF Cli!DropTasks
<1>3. ASSUME NEW t \in Slots, Cli!TaskNext(t), ~Cli!AddService(t) PROVE \A s \in Slots : Kept(s)
  <2>1. CASE Cli!Connect(t) \/ Cli!AddQueue(t) \/ Cli!LinkBroken(t)
    BY <2>1 DEF Cli!Connect, Cli!AddQueue, Cli!LinkBroken
  <2>2. CASE Cli!ConnectFails(t) \/ Cli!NoBranchLeft(t) \/ Cli!TakeUnsupported(t) \/ Cli!Return(t) \/ Cli!BusFails(t)
    BY <1>2, <2>2 DEF Cli!ConnectFails, Cli!NoBranchLeft, Cli!TakeUnsupported, Cli!Return, Cli!BusFails
  <2>3. ASSUME NEW r, Cli!TakeRefused(t, r) \/ Cli!TakeHttp1(t, r) \/ Cli!TakeH2(t, r) PROVE \A s \in Slots : Kept(s)
    BY <2>3 DEF Cli!TakeRefused, Cli!TakeHttp1, Cli!TakeH2, Cli!TakeHead, Cli!HeadIs
  <2>4. CASE Cli!TakeIgnored(t) \/ Cli!TakeShutdown(t)
    BY <2>4 DEF Cli!TakeIgnored, Cli!TakeShutdown, Cli!TakeHead, Cli!HeadIs
  <2>5. CASE Cli!RemoveQueue(t) \/ Cli!DrainOther(t) \/ Cli!Drained(t) \/ \E r \in Calls : Cli!DrainRequest(t, r)
    BY <2>5 DEF Cli!RemoveQueue, Cli!Unlist, Cli!DrainOther, Cli!Drained, Cli!DrainRequest, Cli!DrainHead
  <2>6. CASE Cli!Http1Write(t) \/ Cli!Http1Response(t) \/ Cli!Http1Error(t) \/ Cli!Http1Timeout(t) \/ Cli!Http1Read(t)
    BY <2>6 DEF Cli!Http1Write, Cli!Http1Response, Cli!Http1Error, Cli!Http1Fails, Cli!Http1Timeout, Cli!Http1TimeoutTo, Cli!Http1Read
  <2> QED BY <1>3, <2>1, <2>2, <2>3, <2>4, <2>5, <2>6 DEF Cli!TaskNext, Cli!Serve, Cli!Close
<1>4. ASSUME NEW t \in Slots, Cli!AddService(t)
      PROVE  \A s \in Slots : Kept(s) \/ (s = t /\ Registers(s))
  BY <1>4 DEF Cli!AddService
<1>5. CASE Cli!RecvShutdown \/ Cli!RecvUnsupported \/ \E s \in Slots : Cli!JoinPanic(s)
  BY <1>2, <1>5 DEF Cli!RecvShutdown, Cli!RecvUnsupported, Cli!JoinPanic, Cli!AbortAll, Cli!EndWith
<1>6. CASE Cli!Start \/ Cli!Restart \/ \E s \in Slots : Cli!JoinOk(s) \/ Cli!JoinErr(s)
  BY <1>6 DEF Cli!Start, Cli!Restart, Cli!JoinOk, Cli!JoinErr
<1>7. CASE SocketStep
  <2>1. CASE \E t \in Slots : Cli!TaskNext(t)
    BY <1>3, <1>4, <2>1
  <2>2. CASE ~\E t \in Slots : Cli!TaskNext(t)
    BY <1>1, <1>7, <2>2 DEF SocketStep, Cli!Control, Cli!LinkEnds, Cli!LeftEnds, Cli!BodyArrives,
       Cli!StreamNext, Cli!H2Write, Cli!H2Response, Cli!H2Error, Cli!H2ErrorAs, Cli!H2Timeout, Cli!H2TimeoutIn,
       Cli!H2Read, Cli!SettleStream, Cli!taskVars
  <2> QED BY <2>1, <2>2
<1>8. CASE ProcessorStep
  BY <1>1, <1>5, <1>6, <1>8
     DEF ProcessorStep, Cli!ProcNext, Cli!StartFails, Cli!RecvService, Cli!Notify, Cli!sockVars, Cli!taskVars
<1> QED BY <1>7, <1>8

LEMMA EntriesStep ==
    ASSUME Cli!IInv, Cli!IInv', Registered, SocketStep \/ ProcessorStep, Entries
    PROVE  /\ gen' \in [Slots -> 0..MaxGen]
           /\ \A s \in Slots : gen'[s] = IF Registers(s) THEN gen[s] + 1 ELSE gen[s]
           /\ entry' \in [Ids -> Queues \cup {None}]
           /\ \A i \in Ids : entry'[i] # None =>
                 entry'[i] = entry[i] \/ \E s \in Slots : Registers(s) /\ entry'[i] = <<s, gen'[s]>>
           /\ \A s \in Slots : Registers(s) => fd[s] \in Ids /\ entry'[fd[s]] = <<s, gen'[s]>>
           /\ \A i \in Ids : listed'[i] = None => entry'[i] = None
           /\ listed' = listed /\ (\A s \in Slots : ~Registers(s)) => gen' = gen /\ entry' = entry
<1> USE ClientTypes
<1>1. /\ \A s \in Slots : gen'[s] = IF Registers(s) THEN gen[s] + 1 ELSE gen[s]
      /\ \A s \in Slots : gen'[s] <= MaxGen
      /\ gen \in [Slots -> 0..MaxGen]
  BY DEF Entries, Registered
<1>2. gen' \in [Slots -> 0..MaxGen]
  <2>1. gen' = [s \in Slots |-> gen'[s]]
    BY DEF Entries
  <2>2. ASSUME NEW s \in Slots PROVE gen'[s] \in 0..MaxGen
    <3>1. gen[s] \in 0..MaxGen /\ gen'[s] <= MaxGen /\ MaxGen \in Nat
      BY <1>1, GatewayAssumption
    <3>2. gen'[s] = gen[s] + 1 \/ gen'[s] = gen[s]
      BY <1>1
    <3> QED BY <3>1, <3>2
  <2> QED BY <2>1, <2>2
<1>3. \A s \in Slots : Registers(s) => /\ fd[s] \in Ids /\ fd' = fd /\ listed' = [listed EXCEPT ![fd[s]] = s]
                                       /\ <<s, gen'[s]>> \in Queues
  <2> SUFFICES ASSUME NEW s \in Slots, Registers(s)
               PROVE  /\ fd[s] \in Ids /\ fd' = fd /\ listed' = [listed EXCEPT ![fd[s]] = s]
                      /\ <<s, gen'[s]>> \in Queues
    OBVIOUS
  <2>1. Cli!AddService(s)
    BY PhaseStep
  <2>2. fd[s] \in Ids
    BY <2>1 DEF Cli!AddService, Cli!IInv, Cli!TaskHolds, Cli!Joined
  <2>3. gen'[s] \in 1..MaxGen
    BY <1>1, <1>2
  <2> QED BY <2>1, <2>2, <2>3 DEF Cli!AddService, Queues
<1> DEFINE e(i) == IF listed'[i] = None THEN None
                   ELSE IF Registers(listed'[i]) /\ fd'[listed'[i]] = i
                        THEN <<listed'[i], gen'[listed'[i]]>> ELSE entry[i]
<1>4. entry' = [i \in Ids |-> e(i)]
  BY DEF Entries
<1>5. listed' \in [Ids -> Slots \cup {None}]
  BY DEF Cli!IInv, Cli!TypeOK, Cli!SocketTypeOK
<1>6. \A i \in Ids : e(i) \in Queues \cup {None}
  BY <1>3, <1>5 DEF Registered
<1>7. entry' \in [Ids -> Queues \cup {None}]
  BY <1>4, <1>6
<1>8. \A i \in Ids : entry'[i] = e(i)
  BY <1>4
<1>9. \A s \in Slots : Registers(s) => entry'[fd[s]] = <<s, gen'[s]>>
  <2> SUFFICES ASSUME NEW s \in Slots, Registers(s) PROVE entry'[fd[s]] = <<s, gen'[s]>>
    OBVIOUS
  <2>1. listed'[fd[s]] = s /\ fd'[s] = fd[s] /\ fd[s] \in Ids /\ s # None
    BY <1>3, ClientAssumptions
  <2> QED BY <1>8, <2>1
<1>10. listed' = listed /\ (\A s \in Slots : ~Registers(s)) => gen' = gen /\ entry' = entry
  <2> SUFFICES ASSUME listed' = listed, \A s \in Slots : ~Registers(s) PROVE gen' = gen /\ entry' = entry
    OBVIOUS
  <2>1. \A i \in Ids : e(i) = entry[i]
    BY <1>5 DEF Registered
  <2>2. entry' = entry
    BY <1>8, <2>1, <1>7 DEF Registered
  <2> QED BY <1>1, <1>2, <2>2
<1>11. \A i \in Ids : entry'[i] # None =>
          entry'[i] = entry[i] \/ \E s \in Slots : Registers(s) /\ entry'[i] = <<s, gen'[s]>>
  BY <1>5, <1>8
<1>12. \A i \in Ids : listed'[i] = None => entry'[i] = None
  BY <1>8
<1> QED BY <1>1, <1>2, <1>3, <1>7, <1>9, <1>10, <1>11, <1>12
-----------------------------------------------------------------------------
\* What the two proof modules say of their own definitions holds of Cli's and Srv's.


LEMMA ClientInvSame == Cli!IInv <=> CliP!IInv
BY DEF Cli!IInv, CliP!IInv, Cli!TypeOK, CliP!TypeOK, Cli!SocketTypeOK, CliP!SocketTypeOK,
        Cli!Live, CliP!Live, Cli!Receiving, CliP!Receiving, Cli!Controls, CliP!Controls,
        Cli!Places, CliP!Places, Cli!AnswerKinds, CliP!AnswerKinds, Cli!OneHolder,
        CliP!OneHolder, Cli!Queued, CliP!Queued, Cli!NoPipelining, CliP!NoPipelining,
        Cli!NoOrphans, CliP!NoOrphans, Cli!Running, CliP!Running, Cli!TaskHolds, CliP!TaskHolds,
        Cli!Joined, CliP!Joined, Cli!Sourced, CliP!Sourced, Cli!TakenBack, CliP!TakenBack,
        Cli!Exposed, CliP!Exposed, Cli!NoResp, CliP!NoResp

LEMMA ClientNextSame == (Cli!Init <=> CliP!Init) /\ (Cli!Next <=> CliP!Next) /\ (UNCHANGED Cli!vars <=> UNCHANGED CliP!vars)
BY DEF Cli!Next, CliP!Next, Cli!SocketNext, CliP!SocketNext, Cli!TaskNext, CliP!TaskNext,
        Cli!Connect, CliP!Connect, Cli!Goto, CliP!Goto, Cli!Opened, CliP!Opened, Cli!reqVars,
        CliP!reqVars, Cli!ConnectFails, CliP!ConnectFails, Cli!DropTasks, CliP!DropTasks,
        Cli!Held, CliP!Held, Cli!Queued, CliP!Queued, Cli!Streams, CliP!Streams, Cli!AddQueue,
        CliP!AddQueue, Cli!AddService, CliP!AddService, Cli!Serve, CliP!Serve, Cli!TakeRefused,
        CliP!TakeRefused, Cli!TakeHead, CliP!TakeHead, Cli!HeadIs, CliP!HeadIs, Cli!Settle,
        CliP!Settle, Cli!ids, CliP!ids, Cli!TakeHttp1, CliP!TakeHttp1, Cli!TakeH2, CliP!TakeH2,
        Cli!TakeIgnored, CliP!TakeIgnored, Cli!TakeUnsupported, CliP!TakeUnsupported,
        Cli!TakeShutdown, CliP!TakeShutdown, Cli!LinkBroken, CliP!LinkBroken, Cli!NoBranchLeft,
        CliP!NoBranchLeft, Cli!Exposed, CliP!Exposed, Cli!Receiving, CliP!Receiving, Cli!Close,
        CliP!Close, Cli!RemoveQueue, CliP!RemoveQueue, Cli!Unlist, CliP!Unlist, Cli!DrainOther,
        CliP!DrainOther, Cli!Controls, CliP!Controls, Cli!DrainHead, CliP!DrainHead, Cli!Drained,
        CliP!Drained, Cli!Return, CliP!Return, Cli!BusFails, CliP!BusFails, Cli!DrainRequest,
        CliP!DrainRequest, Cli!Http1Response, CliP!Http1Response, Cli!Bodies, CliP!Bodies,
        Cli!Http1Error, CliP!Http1Error, Cli!Http1Timeout, CliP!Http1Timeout, Cli!Http1TimeoutTo,
        CliP!Http1TimeoutTo, Cli!Http1Read, CliP!Http1Read, Cli!StreamNext, CliP!StreamNext,
        Cli!H2Response, CliP!H2Response, Cli!Stream, CliP!Stream, Cli!Connected, CliP!Connected,
        Cli!taskVars, CliP!taskVars, Cli!H2Error, CliP!H2Error, Cli!H2ErrorAs, CliP!H2ErrorAs,
        Cli!H2Timeout, CliP!H2Timeout, Cli!H2TimeoutIn, CliP!H2TimeoutIn, Cli!H2Read,
        CliP!H2Read, Cli!SocketEnv, CliP!SocketEnv, Cli!Control, CliP!Control, Cli!LinkEnds,
        CliP!LinkEnds, Cli!Deliver, CliP!Deliver, Cli!MainStops, CliP!MainStops, Cli!BodyArrives,
        CliP!BodyArrives, Cli!Polled, CliP!Polled, Cli!procVars, CliP!procVars, Cli!ProcNext,
        CliP!ProcNext, Cli!Start, CliP!Start, Cli!StartFails, CliP!StartFails, Cli!sockVars,
        CliP!sockVars, Cli!RecvService, CliP!RecvService, Cli!TakeProc, CliP!TakeProc,
        Cli!RecvShutdown, CliP!RecvShutdown, Cli!AbortAll, CliP!AbortAll, Cli!EndWith,
        CliP!EndWith, Cli!Live, CliP!Live, Cli!RecvUnsupported, CliP!RecvUnsupported, Cli!JoinOk,
        CliP!JoinOk, Cli!JoinErr, CliP!JoinErr, Cli!JoinPanic, CliP!JoinPanic, Cli!Restart,
        CliP!Restart, Cli!Notify, CliP!Notify, Cli!vars, CliP!vars, Cli!Init, CliP!Init,
        Cli!SocketInit, CliP!SocketInit, Cli!NoResp, CliP!NoResp, Cli!NoReply, CliP!NoReply,
        Cli!Http1Write, CliP!Http1Write, Cli!Http1Fails, CliP!Http1Fails, Cli!Http1Panics,
        CliP!Http1Panics, Cli!H2Write, CliP!H2Write, Cli!H2Panics, CliP!H2Panics,
        Cli!AdaptorPanics, CliP!AdaptorPanics, Cli!SettleStream, CliP!SettleStream,
        Cli!LeftEnds, CliP!LeftEnds, Cli!LeftOpen, CliP!LeftOpen, Cli!LetGo, CliP!LetGo,
        Cli!Written, CliP!Written

LEMMA ServerInvSame == Srv!IInv <=> SrvP!IInv
BY DEF Srv!IInv, SrvP!IInv, Srv!TypeOK, SrvP!TypeOK, Srv!OneOwner, SrvP!OneOwner,
       Srv!Provenance, SrvP!Provenance, Srv!ForwardedOnce, SrvP!ForwardedOnce, Srv!Unsent,
       SrvP!Unsent, Srv!Current, SrvP!Current, Srv!Origin, SrvP!Origin, Srv!NoCur,
       SrvP!NoCur, Srv!Request, SrvP!Request, Srv!ServiceErrors, SrvP!ServiceErrors,
       Srv!Codes, SrvP!Codes, Srv!BusMessage, SrvP!BusMessage, Srv!QueueSteps,
       SrvP!QueueSteps, Srv!InLoop, SrvP!InLoop, Srv!Apart, SrvP!Apart, Srv!Valid,
       SrvP!Valid, Srv!Distinct, SrvP!Distinct, Srv!Elems, SrvP!Elems, Srv!Running,
       SrvP!Running, Srv!Fresh, SrvP!Fresh, Srv!Forwarding, SrvP!Forwarding

LEMMA ServerNextSame == (Srv!Init <=> SrvP!Init) /\ (Srv!Next <=> SrvP!Next) /\ (UNCHANGED Srv!vars <=> UNCHANGED SrvP!vars)
BY DEF Srv!Next, SrvP!Next, Srv!vars, SrvP!vars, Srv!Init, SrvP!Init, Srv!CallNext,
       SrvP!CallNext, Srv!LoopNext, SrvP!LoopNext, Srv!EnvNext, SrvP!EnvNext, Srv!loopVars,
       SrvP!loopVars, Srv!callVars, SrvP!callVars, Srv!svcVars, SrvP!svcVars, Srv!NoCur,
       SrvP!NoCur, Srv!Fresh, SrvP!Fresh, Srv!NoReply, SrvP!NoReply, Srv!BeginCall,
       SrvP!BeginCall, Srv!DirectCall, SrvP!DirectCall, Srv!Enqueue, SrvP!Enqueue,
       Srv!EnqueueClosed, SrvP!EnqueueClosed, Srv!FinishCall, SrvP!FinishCall,
       Srv!Disconnect, SrvP!Disconnect, Srv!Start, SrvP!Start, Srv!StartFails,
       SrvP!StartFails, Srv!RecvResponse, SrvP!RecvResponse, Srv!RecvError, SrvP!RecvError,
       Srv!RecvService, SrvP!RecvService, Srv!RecvShutdown, SrvP!RecvShutdown,
       Srv!RecvUnsupported, SrvP!RecvUnsupported, Srv!ForwardHttp, SrvP!ForwardHttp,
       Srv!RejectHttp, SrvP!RejectHttp, Srv!SendDone, SrvP!SendDone, Srv!SendFails,
       SrvP!SendFails, Srv!Expire, SrvP!Expire, Srv!AcceptFails, SrvP!AcceptFails,
       Srv!Restart, SrvP!Restart, Srv!BusControl, SrvP!BusControl, Srv!Announce,
       SrvP!Announce, Srv!ServicesChange, SrvP!ServicesChange, Srv!ServiceReplies,
       SrvP!ServiceReplies, Srv!ServiceTakes, SrvP!ServiceTakes, Srv!ServiceRefuses,
       SrvP!ServiceRefuses, Srv!Open, SrvP!Open, Srv!ChannelOpen, SrvP!ChannelOpen,
       Srv!Dropped, SrvP!Dropped, Srv!Code, SrvP!Code, Srv!BusHead, SrvP!BusHead,
       Srv!PullAndSend, SrvP!PullAndSend, Srv!Data, SrvP!Data, Srv!Failure, SrvP!Failure,
       Srv!Exit, SrvP!Exit, Srv!Candidates, SrvP!Candidates, Srv!Receives, SrvP!Receives,
       Srv!Elems, SrvP!Elems, Srv!BusSend, SrvP!BusSend, Srv!Listed, SrvP!Listed,
       Srv!QueueSteps, SrvP!QueueSteps, Srv!Answer, SrvP!Answer, Srv!TakeFrom,
       SrvP!TakeFrom, Srv!Running, SrvP!Running, Srv!ServiceErrors, SrvP!ServiceErrors,
       Srv!ErrorCode, SrvP!ErrorCode, Srv!Settle, SrvP!Settle, Srv!Pulled, SrvP!Pulled,
       Srv!Unwind, SrvP!Unwind, Srv!InLoop, SrvP!InLoop, Srv!Push, SrvP!Push, Srv!Forwarding,
       SrvP!Forwarding, Srv!Internal, SrvP!Internal, Srv!BusTake, SrvP!BusTake

LEMMA ClientNextInv == ASSUME Cli!IInv, [Cli!Next]_(Cli!vars) PROVE Cli!IInv'
<1>1. (Cli!IInv <=> CliP!IInv)'
  BY ClientInvSame, PTL
<1>2. CliP!IInv /\ [CliP!Next]_(CliP!vars)
  BY ClientInvSame, ClientNextSame
<1>3. CliP!IInv'
  BY <1>2, CliP!NextInv, ClientAssumptions
<1> QED BY <1>1, <1>3

LEMMA ServerNextInv == ASSUME Srv!IInv, [Srv!Next]_(Srv!vars) PROVE Srv!IInv'
<1>1. (Srv!IInv <=> SrvP!IInv)'
  BY ServerInvSame, PTL
<1>2. SrvP!IInv /\ [SrvP!Next]_(SrvP!vars)
  BY ServerInvSame, ServerNextSame
<1>3. SrvP!IInv'
  BY <1>2, SrvP!NextInv, ServerAssumptions
<1> QED BY <1>1, <1>3

-----------------------------------------------------------------------------
\* What a step of the client is for the queues: nothing new, a call that is taken, a call that
\* is answered as it is taken, or one that is answered after it was taken.

InHand == {"sent", "reading"}

Steady == /\ listed' = listed
          /\ \A s \in Slots : phase'[s] \in Cli!Receiving <=> phase[s] \in Cli!Receiving

Quiet ==
    /\ answer' = answer
    /\ \A s \in Slots : phase[s] \in Cli!Receiving /\ phase'[s] \in Cli!Receiving =>
                            Waiting(rxq'[s]) = Waiting(rxq[s])
    /\ \A s \in Slots : Registers(s) => Waiting(rxq'[s]) = <<>>
    /\ \A c \in Calls : at'[c] \in InHand => at[c] \in InHand
    /\ \/ \A c \in Calls : at[c] \in InHand => at'[c] \in InHand
       \/ \E s \in Slots : phase[s] \in Cli!Receiving /\ phase'[s] \notin Cli!Receiving

HeadOut(s, r) ==
    /\ Steady /\ phase[s] \in Cli!Receiving
    /\ rxq[s] # <<>> /\ Head(rxq[s]) = r
    /\ rxq' = [rxq EXCEPT ![s] = Tail(@)]
Settles(r) ==
    /\ at' = [at EXCEPT ![r] = "answered"]
    /\ \E code \in Cli!AnswerKinds, of \in Calls \cup {None} :
          answer' = [answer EXCEPT ![r] = [code |-> code, of |-> of]]

Takes(s, r)   == HeadOut(s, r) /\ at' = [at EXCEPT ![r] = "sent"] /\ answer' = answer
Refuses(s, r) == HeadOut(s, r) /\ Settles(r)
Replies(r)    == Steady /\ rxq' = rxq /\ at[r] \in InHand /\ Settles(r)

Kind == \/ Quiet
        \/ \E s \in Slots, r \in Calls : Takes(s, r) \/ Refuses(s, r)
        \/ \E r \in Calls : Replies(r)

LEMMA DropIsQuiet ==
    ASSUME Cli!IInv, NEW tasks \in SUBSET Slots, NEW how \in {"ended", "failed", "panicked", "aborted"},
           Cli!DropTasks(tasks, how)
    PROVE  Quiet
<1> USE ClientTypes DEF Cli!DropTasks
<1>1. \A s \in Slots : phase'[s] = IF s \in tasks THEN how ELSE phase[s]
  OBVIOUS
<1>2. how \notin Cli!Receiving /\ how # "idle"
  BY DEF Cli!Receiving
<1>3. \A s \in Slots : phase'[s] \in Cli!Receiving => s \notin tasks /\ phase'[s] = phase[s] /\ rxq'[s] = rxq[s]
  BY <1>1, <1>2
<1>4. \A s \in Slots : ~Registers(s)
  BY <1>1, <1>2 DEF Registers
<1>5. \A c \in Calls : at'[c] = IF \E s \in tasks : c \in Cli!Held(s) THEN "lost" ELSE at[c]
  OBVIOUS
<1>6. ASSUME NEW c \in Calls, at[c] \in InHand, at'[c] \notin InHand
      PROVE  \E s \in Slots : phase[s] \in Cli!Receiving /\ phase'[s] \notin Cli!Receiving
  <2>1. PICK s \in tasks : c \in Cli!Held(s)
    BY <1>5, <1>6
  <2>2. c \notin Cli!Queued(s)
    BY <1>6 DEF Cli!IInv, Cli!OneHolder, InHand
  <2>3. msg[s] # None
    BY <2>1, <2>2 DEF Cli!Held
  <2>4. phase[s] \in Cli!Receiving
    BY <2>3 DEF Cli!IInv, Cli!TaskHolds, Cli!Receiving
  <2> QED BY <1>1, <1>2, <2>4
<1>7. answer' = answer
  OBVIOUS
<1>8. \A c \in Calls : at'[c] \in InHand => at[c] \in InHand
  BY <1>5 DEF InHand
<1> QED BY <1>3, <1>4, <1>6, <1>7, <1>8 DEF Quiet

\* Steps that move no message and answer nobody.
LEMMA SameIsQuiet ==
    ASSUME UNCHANGED <<rxq, at, answer>>, \A s \in Slots : ~Registers(s)
    PROVE  Quiet
BY DEF Quiet

LEMMA ControlTaken ==
    ASSUME Cli!IInv, Registered, NEW s \in Slots, rxq[s] # <<>>, Head(rxq[s]) \in Controls,
           rxq' = [rxq EXCEPT ![s] = Tail(@)], UNCHANGED <<at, answer>>,
           \A t \in Slots : ~Registers(t)
    PROVE  Quiet
<1>1. rxq[s] \in Seq(Calls \cup Controls) /\ OneControl(rxq[s])
  BY ClientTypes DEF Registered, OneControl, Controls
<1>2. Waiting(rxq'[s]) = Waiting(rxq[s])
  BY <1>1, WaitingControlOut, ClientTypes
<1>3. \A t \in Slots : t # s => rxq'[t] = rxq[t]
  BY ClientTypes
<1> QED BY <1>2, <1>3 DEF Quiet

LEMMA WaitingNone ==
    ASSUME NEW w \in Seq(Calls \cup Controls), OneControl(w), \A i \in 1..Len(w) : w[i] \notin Calls
    PROVE  Waiting(w) = <<>>
<1>1. \A i \in 1..Len(w) : w[i] \in Controls
  OBVIOUS
<1>2. Len(w) \in Nat /\ Len(w) <= 1
  <2>1. SUFFICES ASSUME Len(w) > 1 PROVE FALSE
    OBVIOUS
  <2>2. 1 \in 1..Len(w) /\ 2 \in 1..Len(w)
    BY <2>1
  <2> QED BY <1>1, <2>2 DEF OneControl
<1>3. CASE Len(w) = 0
  <2>1. ~HasControl(w)
    BY <1>3 DEF HasControl
  <2> QED BY <1>3, <2>1 DEF Waiting
<1>4. CASE Len(w) = 1
  <2>1. 1 \in 1..Len(w)
    BY <1>4
  <2>2. HasControl(w)
    BY <1>1, <2>1 DEF HasControl, Controls
  <2> QED BY <1>4, <2>2 DEF Waiting
<1>5. \A n \in Nat : n <= 1 => n = 0 \/ n = 1
  OBVIOUS
<1>6. Len(w) = 0 \/ Len(w) = 1
  BY <1>2, <1>5, Zenon
<1> QED BY <1>3, <1>4, <1>6, Zenon

LEMMA ServeKind ==
    ASSUME Cli!IInv, Registered, NEW s \in Slots, Cli!Serve(s)
    PROVE  Kind
<1> USE ClientTypes DEF Cli!TakeHead, Cli!HeadIs
<1>1. ASSUME NEW r \in Calls, Cli!TakeRefused(s, r) PROVE Refuses(s, r)
  BY <1>1 DEF Cli!TakeRefused, Cli!Settle, Cli!ids, Refuses, HeadOut, Steady, Settles,
     Cli!Receiving, Cli!AnswerKinds
<1>2. ASSUME NEW r \in Calls, Cli!TakeHttp1(s, r) PROVE Takes(s, r)
  BY <1>2 DEF Cli!TakeHttp1, Cli!ids, Cli!Goto, Takes, HeadOut, Steady, Cli!Receiving
<1>3. ASSUME NEW r \in Calls, Cli!TakeH2(s, r) PROVE Takes(s, r)
  BY <1>3 DEF Cli!TakeH2, Cli!ids, Takes, HeadOut, Steady, Cli!Receiving
<1>4. CASE Cli!TakeIgnored(s) \/ Cli!TakeShutdown(s)
  <2>1. Head(rxq[s]) \in Controls /\ rxq[s] # <<>> /\ rxq' = [rxq EXCEPT ![s] = Tail(@)]
        /\ UNCHANGED <<at, answer>>
    BY <1>4 DEF Cli!TakeIgnored, Cli!TakeShutdown, Cli!reqVars, Controls, Cli!Controls
  <2>2. \A t \in Slots : ~Registers(t)
    BY <1>4 DEF Cli!TakeIgnored, Cli!TakeShutdown, Cli!Goto, Registers
  <2> QED BY <2>1, <2>2, ControlTaken DEF Kind
<1>5. CASE Cli!TakeUnsupported(s)
  BY <1>5, DropIsQuiet DEF Cli!TakeUnsupported, Kind
<1> QED BY <1>1, <1>2, <1>3, <1>4, <1>5 DEF Cli!Serve, Kind

LEMMA CloseKind ==
    ASSUME Cli!IInv, Registered, NEW s \in Slots, Cli!Close(s)
    PROVE  Kind
<1> USE ClientTypes
<1>1. CASE Cli!RemoveQueue(s) \/ Cli!Drained(s)
  <2>1. UNCHANGED <<rxq, at, answer>> /\ \A t \in Slots : ~Registers(t)
    BY <1>1 DEF Cli!RemoveQueue, Cli!Unlist, Cli!Drained, Cli!Goto, Cli!reqVars, Registers
  <2> QED BY <2>1, SameIsQuiet DEF Kind
<1>2. CASE Cli!DrainOther(s)
  <2>1. /\ Head(rxq[s]) \in Controls /\ rxq[s] # <<>> /\ rxq' = [rxq EXCEPT ![s] = Tail(@)]
        /\ UNCHANGED <<at, answer>> /\ phase' = phase
    BY <1>2 DEF Cli!DrainOther, Cli!DrainHead, Controls
  <2> QED BY <2>1, ControlTaken DEF Kind, Registers
<1>3. CASE Cli!Return(s) \/ Cli!BusFails(s)
  BY <1>3, DropIsQuiet DEF Cli!Return, Cli!BusFails, Kind
<1>4. ASSUME NEW r \in Calls, Cli!DrainRequest(s, r) PROVE Refuses(s, r)
  BY <1>4 DEF Cli!DrainRequest, Cli!DrainHead, Cli!Settle, Cli!ids, Refuses, HeadOut, Steady,
     Settles, Cli!Receiving, Cli!AnswerKinds
<1> QED BY <1>1, <1>2, <1>3, <1>4 DEF Cli!Close, Kind

LEMMA TaskKind ==
    ASSUME Cli!IInv, Registered, NEW s \in Slots, Cli!TaskNext(s)
    PROVE  Kind
<1> USE ClientTypes
<1>1. CASE Cli!Connect(s) \/ Cli!AddQueue(s) \/ Cli!LinkBroken(s)
  <2>1. UNCHANGED <<rxq, at, answer>> /\ \A t \in Slots : ~Registers(t)
    BY <1>1 DEF Cli!Connect, Cli!AddQueue, Cli!LinkBroken, Cli!Goto, Cli!reqVars, Registers
  <2> QED BY <2>1, SameIsQuiet DEF Kind
<1>2. CASE Cli!ConnectFails(s) \/ Cli!NoBranchLeft(s)
  BY <1>2, DropIsQuiet DEF Cli!ConnectFails, Cli!NoBranchLeft, Kind
<1>3. CASE Cli!AddService(s)
  <2>1. /\ UNCHANGED <<rxq, at, answer>> /\ phase[s] \notin Cli!Receiving
        /\ \A t \in Slots : Registers(t) => t = s
    BY <1>3 DEF Cli!AddService, Cli!Goto, Cli!reqVars, Cli!Receiving, Registers
  <2>2. Cli!Queued(s) = {} /\ OneControl(rxq[s])
    BY <2>1 DEF Cli!IInv, Cli!TaskHolds, Registered, OneControl, Controls
  <2>3. \A i \in 1..Len(rxq[s]) : rxq[s][i] \notin Calls
    BY <2>2 DEF Cli!Queued
  <2>4. Waiting(rxq[s]) = <<>>
    BY <2>2, <2>3, WaitingNone
  <2> QED BY <2>1, <2>4 DEF Quiet, Kind
<1>4. CASE Cli!Http1Write(s)
  BY <1>4, SameIsQuiet DEF Cli!Http1Write, Registers, Kind
<1>5. CASE Cli!Http1Response(s)
  <2>1. /\ rxq' = rxq /\ answer' = answer /\ at' = [at EXCEPT ![msg[s]] = "reading"]
        /\ msg[s] \in Calls /\ at[msg[s]] \in InHand
    <3>1. rxq' = rxq /\ answer' = answer /\ at' = [at EXCEPT ![msg[s]] = "reading"] /\ phase[s] = "sending"
      BY <1>5 DEF Cli!Http1Response
    <3>2. msg[s] \in Calls /\ at[msg[s]] \in InHand
      BY <3>1 DEF Cli!IInv, Cli!TaskHolds, Cli!OneHolder, InHand
    <3> QED BY <3>1, <3>2
  <2>2. \A t \in Slots : ~Registers(t)
    BY <1>5 DEF Cli!Http1Response, Cli!Goto, Registers
  <2>3. \A c \in Calls : at'[c] \in InHand <=> at[c] \in InHand
    BY <2>1 DEF InHand
  <2> QED BY <2>1, <2>2, <2>3 DEF Quiet, Kind
<1>6. CASE Cli!Http1Error(s) \/ Cli!Http1Timeout(s) \/ Cli!Http1Read(s)
  <2>1. /\ rxq' = rxq /\ UNCHANGED listed
        /\ \E code \in Cli!AnswerKinds, of \in Calls \cup {None} : Cli!Settle(msg[s], code, of)
    <3>1. CASE Cli!Http1Error(s)
      BY <3>1 DEF Cli!Http1Error, Cli!ids, Cli!AnswerKinds
    <3>2. CASE Cli!Http1Timeout(s)
      BY <3>2 DEF Cli!Http1Timeout, Cli!Http1TimeoutTo, Cli!ids, Cli!AnswerKinds
    <3>3. CASE Cli!Http1Read(s)
      <4>1. msg[s] \in Calls
        BY <3>3 DEF Cli!Http1Read, Cli!IInv, Cli!TaskHolds
      <4>2. resp[msg[s]].of \in Calls \cup {None}
        BY <4>1 DEF Cli!IInv, Cli!TypeOK, Cli!SocketTypeOK
      <4> QED BY <3>3, <4>2 DEF Cli!Http1Read, Cli!ids, Cli!AnswerKinds
    <3> QED BY <1>6, <3>1, <3>2, <3>3
  <2>2. phase[s] \in {"sending", "reading"} /\ \E p \in {"idle", "removing"} : Cli!Goto(s, p)
    BY <1>6 DEF Cli!Http1Error, Cli!Http1Fails, Cli!Http1Timeout, Cli!Http1TimeoutTo, Cli!Http1Read
  <2>3. msg[s] \in Calls /\ at[msg[s]] \in InHand
    BY <2>2 DEF Cli!IInv, Cli!TaskHolds, Cli!OneHolder, InHand
  <2>4. Steady
    BY <2>1, <2>2 DEF Steady, Cli!Goto, Cli!Receiving
  <2>5. Settles(msg[s])
    BY <2>1 DEF Settles, Cli!Settle
  <2> QED BY <2>1, <2>3, <2>4, <2>5 DEF Replies, Kind
<1>7. CASE Cli!Serve(s) \/ Cli!Close(s)
  BY <1>7, ServeKind, CloseKind
<1> QED BY <1>1, <1>2, <1>3, <1>4, <1>5, <1>6, <1>7 DEF Cli!TaskNext

LEMMA StreamKind ==
    ASSUME Cli!IInv, NEW r \in Calls, Cli!StreamNext(r) \/ Cli!BodyArrives(r)
    PROVE  Kind
<1> USE ClientTypes DEF Cli!taskVars, Cli!ids, Cli!SettleStream
<1>1. CASE Cli!BodyArrives(r) \/ Cli!H2Write(r)
  <2>1. UNCHANGED <<rxq, at, answer>> /\ \A t \in Slots : ~Registers(t)
    BY <1>1 DEF Cli!BodyArrives, Cli!H2Write, Registers
  <2> QED BY <2>1, SameIsQuiet DEF Kind
<1>2. CASE Cli!H2Response(r)
  <2>1. rxq' = rxq /\ answer' = answer /\ at[r] = "sent" /\ at' = [at EXCEPT ![r] = "reading"]
    BY <1>2 DEF Cli!H2Response
  <2>2. \A t \in Slots : ~Registers(t)
    BY <1>2 DEF Cli!H2Response, Registers
  <2>3. \A c \in Calls : at'[c] \in InHand <=> at[c] \in InHand
    BY <2>1 DEF InHand
  <2> QED BY <2>1, <2>2, <2>3 DEF Quiet, Kind
<1>3. CASE Cli!H2Error(r) \/ Cli!H2Timeout(r) \/ Cli!H2Read(r)
  <2>1. /\ UNCHANGED <<rxq, phase, listed>> /\ at[r] \in InHand
        /\ \E code \in Cli!AnswerKinds, of \in Calls \cup {None} : Cli!Settle(r, code, of)
    <3>1. CASE Cli!H2Error(r)
      BY <3>1 DEF Cli!H2Error, Cli!H2ErrorAs, Cli!AnswerKinds, InHand
    <3>2. CASE Cli!H2Timeout(r)
      BY <3>2 DEF Cli!H2Timeout, Cli!H2TimeoutIn, Cli!AnswerKinds, InHand
    <3>3. CASE Cli!H2Read(r)
      <4>1. resp[r].of \in Calls \cup {None}
        BY DEF Cli!IInv, Cli!TypeOK, Cli!SocketTypeOK
      <4> QED BY <3>3, <4>1 DEF Cli!H2Read, Cli!AnswerKinds, InHand
    <3> QED BY <1>3, <3>1, <3>2, <3>3
  <2> QED BY <2>1 DEF Replies, Steady, Settles, Cli!Settle, Kind
<1> QED BY <1>1, <1>2, <1>3 DEF Cli!StreamNext

LEMMA ControlKind ==
    ASSUME Cli!IInv, Registered, NEW s \in Slots, Cli!Control(s)
    PROVE  Kind
<1> USE ClientTypes DEF Cli!ids, Cli!reqVars
<1>1. /\ UNCHANGED <<phase, at, answer>> /\ ~HasControl(rxq[s])
      /\ \E m \in Controls : rxq' = [rxq EXCEPT ![s] = Append(@, m)]
  BY DEF Cli!Control, HasControl, Controls
<1>2. Waiting(rxq'[s]) = Waiting(rxq[s])
  BY <1>1, WaitingControlIn
<1>3. \A t \in Slots : t # s => rxq'[t] = rxq[t]
  BY <1>1
<1>4. \A t \in Slots : ~Registers(t)
  BY <1>1 DEF Registers
<1> QED BY <1>1, <1>2, <1>3, <1>4 DEF Quiet, Kind

LEMMA ProcessorKind ==
    ASSUME Cli!IInv, ProcessorStep
    PROVE  Kind
<1> USE ClientTypes
<1>1. CASE Cli!Start \/ Cli!Restart \/ Cli!StartFails \/ Cli!RecvService \/ Cli!Notify
           \/ \E s \in Slots : Cli!JoinOk(s) \/ Cli!JoinErr(s)
  <2>1. UNCHANGED <<rxq, at, answer>> /\ \A t \in Slots : ~Registers(t)
    BY <1>1 DEF Cli!Start, Cli!Restart, Cli!StartFails, Cli!RecvService, Cli!Notify, Cli!JoinOk, Cli!JoinErr,
       Cli!Goto, Cli!sockVars, Cli!taskVars, Cli!reqVars, Registers
  <2> QED BY <2>1, SameIsQuiet DEF Kind
<1>2. CASE Cli!RecvShutdown \/ Cli!RecvUnsupported \/ \E s \in Slots : Cli!JoinPanic(s)
  <2>1. \E tasks \in SUBSET Slots : Cli!DropTasks(tasks, "aborted")
    BY <1>2 DEF Cli!RecvShutdown, Cli!RecvUnsupported, Cli!JoinPanic, Cli!AbortAll, Cli!EndWith
  <2> QED BY <2>1, DropIsQuiet DEF Kind
<1> QED BY <1>1, <1>2 DEF ProcessorStep, Cli!ProcNext

LEMMA StepKind ==
    ASSUME Cli!IInv, Registered, SocketStep \/ ProcessorStep
    PROVE  Kind
<1>1. ASSUME NEW s \in Slots, Cli!LinkEnds(s) PROVE Kind
  <2>1. UNCHANGED <<rxq, at, answer>> /\ \A t \in Slots : ~Registers(t)
    BY <1>1, ClientTypes DEF Cli!LinkEnds, Registers
  <2> QED BY <2>1, SameIsQuiet DEF Kind
<1>2. ASSUME NEW i \in Ids, Cli!LeftEnds(i) PROVE Kind
  BY <1>2, SameIsQuiet DEF Cli!LeftEnds, Cli!taskVars, Registers, Kind
<1> QED BY <1>1, <1>2, TaskKind, StreamKind, ControlKind, ProcessorKind DEF SocketStep

-----------------------------------------------------------------------------
\* The queues as services of HyperServer.

LEMMA QueueIs ==
    ASSUME NEW q \in Queues
    PROVE  /\ q = <<q[1], q[2]>> /\ q[1] \in Slots /\ q[2] \in 1..MaxGen /\ q[2] \in Nat /\ q # None
BY GatewayAssumption DEF Queues

LEMMA QueueStep ==
    ASSUME Cli!IInv, Cli!IInv', Registered, SocketStep \/ ProcessorStep, Entries, NEW q \in Queues
    PROVE  /\ q[2] > gen[q[1]] => (q[2] > gen[q[1]])' \/ (Working(q) /\ InTable(q))'
           /\ ~(q[2] > gen[q[1]]) => ~(q[2] > gen[q[1]])' /\ (Working(q)' => Working(q)) /\ (InTable(q)' => InTable(q))
           /\ Working(q) /\ Working(q)' => ~(q[2] > gen[q[1]])
           /\ Working(q)' /\ ~Working(q) => Registers(q[1])
<1> DEFINE s == q[1]
<1>1. /\ gen[s] \in Nat /\ gen'[s] \in Nat /\ q[2] \in Nat /\ s \in Slots /\ q = <<s, q[2]>> /\ q # None
  BY QueueIs, EntriesStep, GatewayAssumption DEF Registered
<1>2. gen'[s] = IF Registers(s) THEN gen[s] + 1 ELSE gen[s]
  BY EntriesStep, <1>1
<1>3. Registers(s) => phase[s] \notin Cli!Receiving /\ phase'[s] \in Cli!Receiving
  BY DEF Registers, Cli!Receiving
<1>4. phase'[s] \in Cli!Receiving => phase[s] \in Cli!Receiving \/ Registers(s)
  BY <1>1, PhaseStep
<1>5. InTable(q)' => InTable(q) \/ (Registers(s) /\ q[2] = gen'[s])
  <2>1. SUFFICES ASSUME NEW i \in Ids, entry'[i] = q PROVE InTable(q) \/ (Registers(s) /\ q[2] = gen'[s])
    BY DEF InTable
  <2>2. entry'[i] = entry[i] \/ \E t \in Slots : Registers(t) /\ entry'[i] = <<t, gen'[t]>>
    BY <1>1, <2>1, EntriesStep
  <2> QED BY <1>1, <2>1, <2>2 DEF InTable
<1>6. Registers(s) /\ q[2] = gen'[s] => InTable(q)'
  BY <1>1, EntriesStep DEF InTable
<1> HIDE DEF s
<1>7. q[2] > gen[s] => q[2] > gen'[s] \/ (Working(q) /\ InTable(q))'
  <2> SUFFICES ASSUME q[2] > gen[s], ~(q[2] > gen'[s]) PROVE (Working(q) /\ InTable(q))'
    OBVIOUS
  <2>1. Registers(s) /\ q[2] = gen'[s]
    BY <1>1, <1>2
  <2> QED BY <1>3, <1>6, <2>1 DEF Working, s
<1>8. ~(q[2] > gen[s]) => ~(q[2] > gen'[s]) /\ (Working(q)' => Working(q)) /\ (InTable(q)' => InTable(q))
  <2> SUFFICES ASSUME ~(q[2] > gen[s])
               PROVE  ~(q[2] > gen'[s]) /\ (Working(q)' => Working(q)) /\ (InTable(q)' => InTable(q))
    OBVIOUS
  <2>1. ~(q[2] > gen'[s]) /\ ~(Registers(s) /\ q[2] = gen'[s])
    BY <1>1, <1>2
  <2>2. Working(q)' => Working(q)
    BY <1>2, <1>4, <2>1 DEF Working, s
  <2> QED BY <1>5, <2>1, <2>2
<1>9. Working(q) => ~(q[2] > gen[s])
  BY <1>1 DEF Working, s
<1>10. Working(q)' /\ ~Working(q) => Registers(s)
  BY <1>2, <1>4 DEF Working, s
<1> QED BY <1>7, <1>8, <1>9, <1>10 DEF s

LEMMA QStateStep ==
    ASSUME Cli!IInv, Cli!IInv', Registered, SocketStep \/ ProcessorStep, Entries
    PROVE  /\ QState' \in {f \in [Queues -> DOMAIN Srv!QueueSteps] :
                              \A q \in Queues : f[q] \in Srv!QueueSteps[QState[q]]}
           /\ \A q \in Queues : (Working(q)' <=> QState'[q] \in {"open", "leaving"})
                             /\ (Working(q) <=> QState[q] \in {"open", "leaving"})
                             /\ (QState'[q] = "new" => ~Working(q))
<1>1. ASSUME NEW q \in Queues
      PROVE  /\ QState'[q] \in DOMAIN Srv!QueueSteps /\ QState'[q] \in Srv!QueueSteps[QState[q]]
             /\ Working(q)' <=> QState'[q] \in {"open", "leaving"}
             /\ Working(q) <=> QState[q] \in {"open", "leaving"}
             /\ QState'[q] = "new" => ~Working(q)
  <2>1. QState[q] = CASE q[2] > gen[q[1]] -> "new"
                      [] Working(q) -> IF InTable(q) THEN "open" ELSE "leaving"
                      [] OTHER -> IF InTable(q) THEN "dead" ELSE "closed"
    BY DEF QState
  <2>2. QState'[q] = CASE (q[2] > gen[q[1]])' -> "new"
                       [] Working(q)' -> IF InTable(q)' THEN "open" ELSE "leaving"
                       [] OTHER -> IF InTable(q)' THEN "dead" ELSE "closed"
    BY DEF QState
  <2>3. Working(q) => ~(q[2] > gen[q[1]])
    BY QueueIs DEF Working, Registered
  <2>4. Working(q)' => ~(q[2] > gen[q[1]])'
    BY QueueIs, EntriesStep DEF Working, Registered
  <2>5. QState[q] = IF q[2] > gen[q[1]] THEN "new"
                    ELSE IF Working(q) THEN IF InTable(q) THEN "open" ELSE "leaving"
                    ELSE IF InTable(q) THEN "dead" ELSE "closed"
    BY <2>1, <2>3
  <2>6. QState'[q] = IF (q[2] > gen[q[1]])' THEN "new"
                     ELSE IF Working(q)' THEN IF InTable(q)' THEN "open" ELSE "leaving"
                     ELSE IF InTable(q)' THEN "dead" ELSE "closed"
    BY <2>2, <2>4
  <2> QED BY <2>3, <2>4, <2>5, <2>6, QueueStep DEF Srv!QueueSteps
<1>2. QState' = [q \in Queues |-> QState'[q]]
  BY DEF QState
<1> QED BY <1>1, <1>2

\* The requests that a queue of calls w stands for, by their numbers n.
Asked(n, w) == [i \in 1..Len(w) |-> [id |-> n[w[i]], call |-> w[i]]]

LEMMA SvcQIs ==
    ASSUME NEW q \in Queues
    PROVE  /\ SvcQ[q] = IF Working(q) THEN Asked(num, Waiting(rxq[q[1]])) ELSE <<>>
           /\ SvcQ'[q] = IF Working(q)' THEN Asked(num', Waiting(rxq'[q[1]])) ELSE <<>>
<1>1. SvcQ[q] = IF Working(q) THEN Asked(num, Waiting(rxq[q[1]])) ELSE <<>>
  BY DEF SvcQ, Asked, Sent
<1>2. SvcQ'[q] = IF Working(q)' THEN Asked(num', Waiting(rxq'[q[1]])) ELSE <<>>
  BY DEF SvcQ, Asked, Sent, Waiting, HasControl
<1> QED BY <1>1, <1>2

LEMMA HeldSame ==
    ASSUME num' = num, \A c \in Calls : at'[c] \in InHand => at[c] \in InHand
    PROVE  /\ Held' \subseteq Held
           /\ (\A c \in Calls : at[c] \in InHand => at'[c] \in InHand) => Held' = Held
BY DEF Held, Sent, InHand

LEMMA QuietStep ==
    ASSUME Cli!IInv, Cli!IInv', Registered, SocketStep \/ ProcessorStep, Entries, Quiet,
           UNCHANGED <<srvVars, num, busQ>>
    PROVE  Srv!ServicesChange \/ UNCHANGED Srv!vars
<1>1. /\ QState' \in {f \in [Queues -> DOMAIN Srv!QueueSteps] :
                          \A q \in Queues : f[q] \in Srv!QueueSteps[QState[q]]}
      /\ \A q \in Queues : (Working(q)' <=> QState'[q] \in {"open", "leaving"})
                        /\ (Working(q) <=> QState[q] \in {"open", "leaving"})
                        /\ (QState'[q] = "new" => ~Working(q))
  BY QStateStep
<1>2. \A q \in Queues : QState'[q] \in {"new", "open", "leaving", "dead", "closed"}
  BY <1>1 DEF Srv!QueueSteps
<1>3. ASSUME NEW q \in Queues
      PROVE  SvcQ'[q] = IF QState'[q] \in {"dead", "closed"} THEN <<>> ELSE SvcQ[q]
  <2>1. CASE Working(q)' /\ Working(q)
    <3>1. Waiting(rxq'[q[1]]) = Waiting(rxq[q[1]])
      BY <2>1, QueueIs DEF Quiet, Working
    <3>2. SvcQ'[q] = SvcQ[q]
      BY <2>1, <3>1, SvcQIs
    <3> QED BY <1>1, <2>1, <3>2
  <2>2. CASE Working(q)' /\ ~Working(q)
    <3>1. Registers(q[1])
      BY <2>2, QueueStep
    <3>2. Waiting(rxq'[q[1]]) = <<>>
      BY <3>1, QueueIs DEF Quiet
    <3>3. SvcQ'[q] = <<>> /\ SvcQ[q] = <<>>
      <4>1. \A n : Asked(n, <<>>) = <<>>
        BY DEF Asked
      <4> QED BY <2>2, <3>2, <4>1, SvcQIs
    <3> QED BY <3>3
  <2>3. CASE ~Working(q)'
    <3>1. SvcQ'[q] = <<>>
      BY <2>3, SvcQIs
    <3>2. QState'[q] \in {"new", "dead", "closed"}
      BY <1>1, <1>2, <2>3
    <3>3. QState'[q] = "new" => SvcQ[q] = <<>>
      BY <1>1, SvcQIs
    <3> QED BY <3>1, <3>2, <3>3
  <2> QED BY <2>1, <2>2, <2>3
<1>4. SvcQ' = [q \in Queues |-> IF QState'[q] \in {"dead", "closed"} THEN <<>> ELSE SvcQ[q]]
  <2>1. SvcQ' = [q \in Queues |-> SvcQ'[q]]
    BY DEF SvcQ
  <2> QED BY <1>3, <2>1
<1>5. Held' \subseteq Held
  BY HeldSame DEF Quiet, srvVars
<1>6. UNCHANGED <<Srv!loopVars, Srv!callVars, busQ, announced>>
  BY DEF srvVars, Srv!loopVars, Srv!callVars
<1>7. CASE QState' # QState
  <2>1. \E lost \in SUBSET Held : Held' = Held \ lost
    <3>1. Held' = Held \ (Held \ Held')
      BY <1>5
    <3> QED BY <3>1
  <2> QED BY <1>1, <1>4, <1>6, <1>7, <2>1 DEF Srv!ServicesChange
<1>8. CASE QState' = QState
  <2>1. SvcQ' = SvcQ
    <3>1. \A q \in Queues : QState'[q] \in {"dead", "closed"} => SvcQ[q] = <<>>
      BY <1>1, <1>8, SvcQIs
    <3>2. \A q \in Queues : SvcQ'[q] = SvcQ[q]
      BY <1>3, <3>1
    <3> QED BY <3>2 DEF SvcQ
  <2>2. ASSUME NEW s \in Slots, phase[s] \in Cli!Receiving, phase'[s] \notin Cli!Receiving PROVE FALSE
    <3>1. PICK q \in Queues : q[1] = s /\ q[2] = gen[s]
      <4>1. <<s, gen[s]>> \in Queues
        BY <2>2, GatewayAssumption DEF Registered, Queues
      <4> QED BY <4>1
    <3>2. Working(q) /\ ~Working(q)'
      BY <2>2, <3>1 DEF Working
    <3> QED BY <1>1, <1>8, <3>1, <3>2
  <2>3. Held' = Held
    BY <2>2, HeldSame DEF Quiet
  <2> QED BY <1>6, <1>8, <2>1, <2>3 DEF Srv!vars, Srv!svcVars
<1> QED BY <1>7, <1>8

LEMMA AskedTail ==
    ASSUME NEW n, NEW w \in Seq(Calls), w # <<>>
    PROVE  /\ Asked(n, w) # <<>> /\ Head(Asked(n, w)) = [id |-> n[Head(w)], call |-> Head(w)]
           /\ Tail(Asked(n, w)) = Asked(n, Tail(w))
<1> DEFINE a(i) == [id |-> n[w[i]], call |-> w[i]]
           S == {a(i) : i \in 1..Len(w)}
<1>1. Len(w) \in Nat \ {0} /\ Head(w) = w[1]
  OBVIOUS
<1>2. Asked(n, w) = [i \in 1..Len(w) |-> a(i)]
  BY DEF Asked
<1>3. \A i \in 1..Len(w) : a(i) \in S
  OBVIOUS
<1> HIDE DEF S
<1>4. Asked(n, w) \in Seq(S) /\ Len(Asked(n, w)) = Len(w) /\ Asked(n, w) # <<>>
  BY <1>1, <1>2, <1>3
<1>5. /\ Head(Asked(n, w)) = Asked(n, w)[1]
      /\ Tail(Asked(n, w)) = [i \in 1..(Len(w) - 1) |-> Asked(n, w)[i + 1]]
  BY <1>4, TailIs
<1>6. Tail(w) = [i \in 1..(Len(w) - 1) |-> w[i + 1]] /\ Len(Tail(w)) = Len(w) - 1
  BY TailIs
<1>7. \A i \in 1..(Len(w) - 1) : Asked(n, w)[i + 1] = [id |-> n[Tail(w)[i]], call |-> Tail(w)[i]]
  BY <1>1, <1>2, <1>6
<1>8. Asked(n, Tail(w)) = [i \in 1..(Len(w) - 1) |-> [id |-> n[Tail(w)[i]], call |-> Tail(w)[i]]]
  BY <1>6 DEF Asked
<1>9. Asked(n, w)[1] = [id |-> n[w[1]], call |-> w[1]]
  BY <1>1, <1>2
<1> QED BY <1>1, <1>4, <1>5, <1>7, <1>8, <1>9

LEMMA SteadyStep ==
    ASSUME Cli!IInv, Cli!IInv', Registered, SocketStep \/ ProcessorStep, Entries, Steady
    PROVE  /\ gen' = gen /\ entry' = entry /\ QState' = QState
           /\ \A q \in Queues : Working(q)' <=> Working(q)
<1>1. \A t \in Slots : ~Registers(t)
  BY DEF Steady, Registers, Cli!Receiving
<1>2. gen' = gen /\ entry' = entry
  BY <1>1, EntriesStep DEF Steady
<1>3. \A q \in Queues : (Working(q)' <=> Working(q)) /\ (InTable(q)' <=> InTable(q))
  BY <1>2, QueueIs DEF Working, InTable, Steady
<1>4. QState' = QState
  BY <1>2, <1>3 DEF QState
<1> QED BY <1>2, <1>3, <1>4

LEMMA HeadOutStep ==
    ASSUME Cli!IInv, Cli!IInv', Registered, SocketStep \/ ProcessorStep, Entries, num' = num,
           NEW s \in Slots, NEW r \in Calls, HeadOut(s, r)
    PROVE  \E q \in Queues :
              /\ Srv!Receives(q) /\ SvcQ[q] # <<>> /\ Head(SvcQ[q]) = Sent(r)
              /\ SvcQ' = [SvcQ EXCEPT ![q] = Tail(@)] /\ QState' = QState
<1> USE ClientTypes
<1>1. PICK q \in Queues : q[1] = s /\ q[2] = gen[s]
  <2>1. <<s, gen[s]>> \in Queues
    BY GatewayAssumption DEF Registered, Queues, HeadOut
  <2> QED BY <2>1
<1>2. Steady /\ phase[s] \in Cli!Receiving /\ rxq[s] # <<>> /\ Head(rxq[s]) = r /\ rxq' = [rxq EXCEPT ![s] = Tail(@)]
  BY DEF HeadOut
<1>3. /\ QState' = QState /\ Working(q) /\ Working(q)'
      /\ \A p \in Queues : (Working(p)' <=> Working(p)) /\ (Working(p) /\ p[1] = s => p = q)
  <2>1. QState' = QState /\ \A p \in Queues : Working(p)' <=> Working(p)
    BY <1>2, SteadyStep
  <2>2. \A p \in Queues : Working(p) /\ p[1] = s => p = q
    BY <1>1, QueueIs DEF Working
  <2>3. Working(q)
    BY <1>1, <1>2 DEF Working
  <2> QED BY <2>1, <2>2, <2>3
<1>4. /\ rxq[s] \in Seq(Calls \cup Controls) /\ OneControl(rxq[s])
  BY DEF Registered, OneControl, Controls
<1>5. /\ Waiting(rxq[s]) # <<>> /\ Head(Waiting(rxq[s])) = r
      /\ Waiting(rxq'[s]) = Tail(Waiting(rxq[s])) /\ Waiting(rxq[s]) \in Seq(Calls)
  BY <1>2, <1>4, WaitingCallOut, WaitingType
<1>6. SvcQ[q] # <<>> /\ Head(SvcQ[q]) = Sent(r) /\ SvcQ'[q] = Tail(SvcQ[q])
  <2>1. SvcQ[q] = Asked(num, Waiting(rxq[s])) /\ SvcQ'[q] = Asked(num, Waiting(rxq'[s]))
    BY <1>1, <1>3, SvcQIs
  <2>2. Sent(r) = [id |-> num[r], call |-> r]
    BY DEF Sent
  <2> QED BY <1>5, <2>1, <2>2, AskedTail
<1>7. ASSUME NEW p \in Queues, p # q PROVE SvcQ'[p] = SvcQ[p]
  <2>1. Working(p) => rxq'[p[1]] = rxq[p[1]]
    BY <1>2, <1>3, <1>7, QueueIs
  <2> QED BY <1>3, <2>1, SvcQIs
<1>8. SvcQ' = [SvcQ EXCEPT ![q] = Tail(@)]
  BY <1>6, <1>7 DEF SvcQ
<1>9. Srv!Receives(q)
  BY <1>3, QStateStep DEF Srv!Receives
<1> QED BY <1>3, <1>6, <1>8, <1>9

\* The demo client makes an HTTP request of what the demo server asks for, and takes any response.
LEMMA DemoOk == DemoRequest(DemoServer("GET", "/test").msg).ok /\ DemoResponse(Ok(200)).ok
<1>1. DemoServer("GET", "/test").msg = <<"GET", "/test">>
  BY DEF DemoServer, SrvReq
<1>2. 1 \in DOMAIN <<"GET", "/test">>
  OBVIOUS
<1> QED BY <1>1, <1>2 DEF DemoRequest, DemoResponse, Ok

\* The answer of the step: what it says, and that the bus gets it or loses it.
LEMMA AnswerStep ==
    ASSUME Cli!IInv, Cli!IInv', Reports, num' = num, NEW r \in Calls, at[r] # "answered", Settles(r)
    PROVE  /\ answer'[r].code \in Cli!AnswerKinds /\ answer[r].code = "none"
           /\ \A c \in Calls : c # r => answer'[c] = answer[c]
           /\ \/ Srv!BusSend(Message(r, answer'[r]))
              \/ (Len(busQ) = BusCap \/ loop = "ended") /\ UNCHANGED busQ
           /\ answer'[r].code = "response" => answer'[r].of = r
           /\ answer'[r].code = "ServiceError" => at[r] = "sent"
<1> USE ClientTypes
<1>1. answer'[r].code \in Cli!AnswerKinds /\ \A c \in Calls : c # r => answer'[c] = answer[c]
  BY DEF Settles
<1>2. answer[r].code = "none"
  BY DEF Cli!IInv, Cli!OneHolder
<1>3. \A c \in Calls : Answered(c) <=> c = r
  BY <1>1, <1>2 DEF Answered, Cli!AnswerKinds
<1>4. answer'[r].code = "response" => answer'[r].of = r
  BY DEF Cli!IInv, Cli!Sourced
<1>5. answer'[r].code = "ServiceError" => ~Adapted(r).ok
  BY <1>3 DEF Reports
<1>6. DemoRequest(DemoServer("GET", "/test").msg).ok /\ DemoResponse(Ok(200)).ok
  BY DemoOk
<1>7. answer'[r].code = "ServiceError" => at[r] = "sent"
  BY <1>5, <1>6 DEF Adapted
<1> QED BY <1>1, <1>2, <1>3, <1>4, <1>7 DEF Reports

LEMMA MessageIs ==
    ASSUME NEW r \in Calls, NEW a, a.code \in Cli!AnswerKinds, a.code = "response" => a.of = r,
           Srv!BusSend(Message(r, a)) \/ ((Len(busQ) = BusCap \/ loop = "ended") /\ UNCHANGED busQ)
    PROVE  Srv!Answer(Sent(r))
<1>1. CASE a.code = "response" /\ Srv!BusSend(Message(r, a))
  BY <1>1 DEF Message, Srv!Answer, Sent
<1>2. CASE a.code # "response" /\ Srv!BusSend(Message(r, a))
  <2>1. ErrorOf(a.code) \in {"ProtocolError", "Timeout", "UnableToReachService"}
    BY <1>2 DEF ErrorOf, DemoResponse, Err, Cli!AnswerKinds
  <2> QED BY <1>2, <2>1 DEF Message, Srv!Answer, Sent
<1>3. CASE (Len(busQ) = BusCap \/ loop = "ended") /\ UNCHANGED busQ
  BY <1>3 DEF Srv!Answer
<1> QED BY <1>1, <1>2, <1>3

LEMMA QueuedHead ==
    ASSUME Cli!IInv, NEW s \in Slots, NEW r \in Calls, rxq[s] # <<>>, Head(rxq[s]) = r
    PROVE  at[r] = "queue"
<1>1. rxq[s] \in Seq(Calls \cup Controls)
  BY ClientTypes
<1>2. 1 \in 1..Len(rxq[s]) /\ rxq[s][1] = r
  BY <1>1
<1>3. r \in Cli!Queued(s)
  BY <1>2 DEF Cli!Queued
<1> QED BY <1>3 DEF Cli!IInv, Cli!OneHolder

LEMMA NoAnswer ==
    ASSUME Reports, answer' = answer
    PROVE  busQ' = busQ
BY DEF Reports, Answered

LEMMA ClientStep ==
    ASSUME Cli!IInv, Cli!IInv', Registered, SocketStep \/ ProcessorStep,
           UNCHANGED <<srvVars, num>>, Entries, Reports
    PROVE  [Srv!Next]_(Srv!vars)
<1> USE ClientTypes
<1>1. UNCHANGED <<Srv!loopVars, Srv!callVars, announced>> /\ num' = num
  BY DEF srvVars, Srv!loopVars, Srv!callVars
<1>2. CASE Quiet
  BY <1>2, QuietStep, NoAnswer DEF Quiet, Srv!Next, Srv!EnvNext
<1>3. ASSUME NEW s \in Slots, NEW r \in Calls, Takes(s, r) PROVE Srv!Next
  <2>1. HeadOut(s, r) /\ at' = [at EXCEPT ![r] = "sent"] /\ answer' = answer
    BY <1>3 DEF Takes
  <2>2. PICK q \in Queues : /\ Srv!Receives(q) /\ SvcQ[q] # <<>> /\ Head(SvcQ[q]) = Sent(r)
                            /\ SvcQ' = [SvcQ EXCEPT ![q] = Tail(@)] /\ QState' = QState
    BY <1>1, <2>1, HeadOutStep
  <2>3. Held' = Held \cup {Sent(r)}
    <3>1. \A c \in Calls : at'[c] \in {"sent", "reading"} <=> at[c] \in {"sent", "reading"} \/ c = r
      BY <2>1
    <3> QED BY <1>1, <3>1 DEF Held, Sent
  <2>4. Srv!ServiceTakes(q)
    BY <1>1, <2>1, <2>2, <2>3, NoAnswer DEF Srv!ServiceTakes, Srv!TakeFrom
  <2> QED BY <2>4 DEF Srv!Next, Srv!EnvNext
<1>4. ASSUME NEW s \in Slots, NEW r \in Calls, Refuses(s, r) PROVE Srv!Next
  <2>1. HeadOut(s, r) /\ Settles(r) /\ at[r] = "queue" /\ at' = [at EXCEPT ![r] = "answered"]
    BY <1>4, QueuedHead DEF Refuses, HeadOut, Settles
  <2>2. PICK q \in Queues : /\ Srv!Receives(q) /\ SvcQ[q] # <<>> /\ Head(SvcQ[q]) = Sent(r)
                            /\ SvcQ' = [SvcQ EXCEPT ![q] = Tail(@)] /\ QState' = QState
    BY <1>1, <2>1, HeadOutStep
  <2>3. Held' = Held
    <3>1. \A c \in Calls : at'[c] \in {"sent", "reading"} <=> at[c] \in {"sent", "reading"}
      BY <2>1
    <3> QED BY <1>1, <3>1 DEF Held, Sent
  <2>4. Srv!Answer(Sent(r))
    BY <1>1, <2>1, AnswerStep, MessageIs
  <2>5. Srv!ServiceRefuses(q)
    BY <1>1, <2>2, <2>3, <2>4 DEF Srv!ServiceRefuses, Srv!TakeFrom
  <2> QED BY <2>5 DEF Srv!Next, Srv!EnvNext
<1>5. ASSUME NEW r \in Calls, Replies(r) PROVE Srv!Next
  <2>1. Steady /\ rxq' = rxq /\ at[r] \in {"sent", "reading"} /\ Settles(r) /\ at' = [at EXCEPT ![r] = "answered"]
    BY <1>5 DEF Replies, Settles, InHand
  <2>2. QState' = QState /\ \A q \in Queues : Working(q)' <=> Working(q)
    BY <2>1, SteadyStep
  <2>3. SvcQ' = SvcQ
    <3>1. \A q \in Queues : SvcQ'[q] = SvcQ[q]
      BY <1>1, <2>1, <2>2, SvcQIs
    <3> QED BY <3>1 DEF SvcQ
  <2>4. Sent(r) \in Held /\ Held' = Held \ {Sent(r)}
    <3>1. \A c \in Calls : at'[c] \in {"sent", "reading"} <=> at[c] \in {"sent", "reading"} /\ c # r
      BY <2>1
    <3>2. Held = {Sent(c) : c \in {c \in Calls : at[c] \in {"sent", "reading"}}}
          /\ Held' = {Sent(c) : c \in {c \in Calls : at[c] \in {"sent", "reading"} /\ c # r}}
      BY <1>1, <3>1 DEF Held, Sent
    <3>3. \A c, d \in Calls : Sent(c) = Sent(d) => c = d
      BY DEF Sent
    <3> QED BY <2>1, <3>2, <3>3
  <2>5. Srv!Answer(Sent(r))
    BY <1>1, <2>1, AnswerStep, MessageIs
  <2>6. Srv!ServiceReplies
    BY <1>1, <2>2, <2>3, <2>4, <2>5 DEF Srv!ServiceReplies
  <2> QED BY <2>6 DEF Srv!Next, Srv!EnvNext
<1> QED BY <1>2, <1>3, <1>4, <1>5, StepKind DEF Kind

-----------------------------------------------------------------------------
\* What a step of the client, other than a delivery, leaves of the calls and of the queues.

Kept ==
    /\ on' = on
    /\ \A c \in Calls : at'[c] = "idle" <=> at[c] = "idle"
    /\ \A s \in Slots : \/ rxq'[s] = rxq[s] \/ rxq'[s] = <<>>
                        \/ rxq[s] # <<>> /\ rxq'[s] = Tail(rxq[s])
                        \/ ~HasControl(rxq[s]) /\ \E m \in Controls : rxq'[s] = Append(rxq[s], m)

LEMMA DropKeeps ==
    ASSUME Cli!IInv, NEW tasks \in SUBSET Slots, NEW how, Cli!DropTasks(tasks, how)
    PROVE  Kept
<1> USE ClientTypes
<1>1. on' = on /\ \A s \in Slots : rxq'[s] = rxq[s] \/ rxq'[s] = <<>>
  BY DEF Cli!DropTasks
<1>2. \A c \in Calls : at'[c] = IF \E s \in tasks : c \in Cli!Held(s) THEN "lost" ELSE at[c]
  BY DEF Cli!DropTasks
<1>3. \A s \in Slots, c \in Calls : c \in Cli!Held(s) => at[c] # "idle"
  BY DEF Cli!IInv, Cli!OneHolder, Cli!Held
<1> QED BY <1>1, <1>2, <1>3 DEF Kept

LEMMA SettleKeeps ==
    ASSUME Cli!IInv, NEW r \in Calls, at[r] # "idle", NEW code, NEW of, Cli!Settle(r, code, of)
    PROVE  \A c \in Calls : at'[c] = "idle" <=> at[c] = "idle"
BY ClientTypes DEF Cli!Settle

LEMMA QueueKeeps ==
    ASSUME Cli!IInv, NEW s \in Slots, Cli!Serve(s) \/ Cli!Close(s)
    PROVE  Kept
<1> USE ClientTypes DEF Cli!TakeHead, Cli!HeadIs, Cli!DrainHead, Cli!reqVars
<1>1. ASSUME NEW r \in Calls, Cli!TakeRefused(s, r) \/ Cli!DrainRequest(s, r) PROVE Kept
  <2>1. rxq[s] # <<>> /\ rxq' = [rxq EXCEPT ![s] = Tail(@)] /\ on' = on /\ at[r] = "queue"
    BY <1>1, QueuedHead DEF Cli!TakeRefused, Cli!DrainRequest
  <2>2. \A c \in Calls : at'[c] = "idle" <=> at[c] = "idle"
    BY <1>1, <2>1, SettleKeeps DEF Cli!TakeRefused, Cli!DrainRequest
  <2> QED BY <2>1, <2>2 DEF Kept
<1>2. ASSUME NEW r \in Calls, Cli!TakeHttp1(s, r) \/ Cli!TakeH2(s, r) PROVE Kept
  <2>1. /\ rxq[s] # <<>> /\ rxq' = [rxq EXCEPT ![s] = Tail(@)] /\ on' = on /\ at[r] = "queue"
        /\ at' = [at EXCEPT ![r] = "sent"]
    BY <1>2, QueuedHead DEF Cli!TakeHttp1, Cli!TakeH2
  <2> QED BY <2>1 DEF Kept
<1>3. CASE Cli!TakeIgnored(s) \/ Cli!TakeShutdown(s) \/ Cli!DrainOther(s)
  <2>1. rxq[s] # <<>> /\ rxq' = [rxq EXCEPT ![s] = Tail(@)] /\ UNCHANGED <<on, at>>
    BY <1>3 DEF Cli!TakeIgnored, Cli!TakeShutdown, Cli!DrainOther
  <2> QED BY <2>1 DEF Kept
<1>4. CASE Cli!TakeUnsupported(s) \/ Cli!Return(s) \/ Cli!BusFails(s)
  BY <1>4, DropKeeps DEF Cli!TakeUnsupported, Cli!Return, Cli!BusFails
<1>5. CASE Cli!RemoveQueue(s) \/ Cli!Drained(s)
  <2>1. UNCHANGED <<rxq, on, at>>
    BY <1>5 DEF Cli!RemoveQueue, Cli!Unlist, Cli!Drained
  <2> QED BY <2>1 DEF Kept
<1> QED BY <1>1, <1>2, <1>3, <1>4, <1>5 DEF Cli!Serve, Cli!Close

LEMMA TaskKeeps ==
    ASSUME Cli!IInv, NEW s \in Slots, Cli!TaskNext(s)
    PROVE  Kept
<1> USE ClientTypes DEF Cli!reqVars
<1>1. CASE Cli!Connect(s) \/ Cli!AddQueue(s) \/ Cli!AddService(s) \/ Cli!LinkBroken(s)
  <2>1. UNCHANGED <<rxq, on, at>>
    BY <1>1 DEF Cli!Connect, Cli!AddQueue, Cli!AddService, Cli!LinkBroken
  <2> QED BY <2>1 DEF Kept
<1>2. CASE Cli!ConnectFails(s) \/ Cli!NoBranchLeft(s)
  BY <1>2, DropKeeps DEF Cli!ConnectFails, Cli!NoBranchLeft
<1>3. CASE Cli!Http1Response(s) \/ Cli!Http1Error(s) \/ Cli!Http1Timeout(s) \/ Cli!Http1Read(s)
  <2>1. UNCHANGED <<rxq, on>> /\ phase[s] \in {"sending", "reading"}
    BY <1>3 DEF Cli!Http1Response, Cli!Http1Error, Cli!Http1Fails, Cli!Http1Timeout, Cli!Http1TimeoutTo, Cli!Http1Read
  <2>2. msg[s] \in Calls /\ at[msg[s]] # "idle"
    <3>1. msg[s] # None
      BY <2>1 DEF Cli!IInv, Cli!TaskHolds
    <3>2. at[msg[s]] \in {"sent", "reading"}
      BY <3>1 DEF Cli!IInv, Cli!OneHolder
    <3> QED BY <3>1, <3>2
  <2>3. at' = [at EXCEPT ![msg[s]] = "reading"] \/ \E code, of : Cli!Settle(msg[s], code, of)
    BY <1>3 DEF Cli!Http1Response, Cli!Http1Error, Cli!Http1Timeout, Cli!Http1TimeoutTo, Cli!Http1Read
  <2>4. \A c \in Calls : at'[c] = "idle" <=> at[c] = "idle"
    BY <2>2, <2>3, SettleKeeps
  <2> QED BY <2>1, <2>4 DEF Kept
<1>4. CASE Cli!Http1Write(s)
  BY <1>4 DEF Cli!Http1Write, Kept
<1> QED BY <1>1, <1>2, <1>3, <1>4, QueueKeeps DEF Cli!TaskNext

LEMMA StreamKeeps ==
    ASSUME Cli!IInv, NEW r \in Calls, Cli!StreamNext(r) \/ Cli!BodyArrives(r)
    PROVE  Kept
<1> USE ClientTypes
<1>1. UNCHANGED <<rxq, on>>
  BY DEF Cli!BodyArrives, Cli!StreamNext, Cli!H2Write, Cli!H2Response, Cli!H2Error, Cli!H2ErrorAs, Cli!H2Timeout,
     Cli!H2TimeoutIn, Cli!H2Read, Cli!SettleStream, Cli!taskVars
<1>2. \/ at' = at
      \/ at[r] # "idle" /\ (at' = [at EXCEPT ![r] = "reading"] \/ \E code, of : Cli!Settle(r, code, of))
  BY DEF Cli!BodyArrives, Cli!StreamNext, Cli!H2Write, Cli!H2Response, Cli!H2Error, Cli!H2ErrorAs, Cli!H2Timeout,
     Cli!H2TimeoutIn, Cli!H2Read, Cli!SettleStream
<1>3. \A c \in Calls : at'[c] = "idle" <=> at[c] = "idle"
  BY <1>2, SettleKeeps
<1> QED BY <1>1, <1>3 DEF Kept

LEMMA StepKeeps ==
    ASSUME Cli!IInv, SocketStep \/ ProcessorStep
    PROVE  Kept
<1> USE ClientTypes
<1>1. ASSUME NEW s \in Slots, Cli!Control(s) PROVE Kept
  <2>1. /\ UNCHANGED <<on, at>> /\ ~HasControl(rxq[s])
        /\ \E m \in Controls : rxq' = [rxq EXCEPT ![s] = Append(@, m)]
    BY <1>1 DEF Cli!Control, Cli!reqVars, HasControl, Controls
  <2> QED BY <2>1 DEF Kept
<1>2. ASSUME NEW s \in Slots, Cli!LinkEnds(s) PROVE Kept
  <2>1. UNCHANGED <<rxq, on, at>>
    BY <1>2 DEF Cli!LinkEnds
  <2> QED BY <2>1 DEF Kept
<1>3. CASE ProcessorStep
  <2>1. CASE Cli!Start \/ Cli!Restart \/ Cli!StartFails \/ Cli!RecvService \/ Cli!Notify
             \/ \E s \in Slots : Cli!JoinOk(s) \/ Cli!JoinErr(s)
    <3>1. UNCHANGED <<rxq, on, at>>
      BY <2>1 DEF Cli!Start, Cli!Restart, Cli!StartFails, Cli!RecvService, Cli!Notify, Cli!JoinOk, Cli!JoinErr,
         Cli!sockVars, Cli!taskVars, Cli!reqVars
    <3> QED BY <3>1 DEF Kept
  <2>2. CASE Cli!RecvShutdown \/ Cli!RecvUnsupported \/ \E s \in Slots : Cli!JoinPanic(s)
    <3>1. \E tasks \in SUBSET Slots : Cli!DropTasks(tasks, "aborted")
      BY <2>2 DEF Cli!RecvShutdown, Cli!RecvUnsupported, Cli!JoinPanic, Cli!AbortAll, Cli!EndWith
    <3> QED BY <3>1, DropKeeps
  <2> QED BY <1>3, <2>1, <2>2 DEF ProcessorStep, Cli!ProcNext
<1>4. ASSUME NEW i \in Ids, Cli!LeftEnds(i) PROVE Kept
  BY <1>4 DEF Cli!LeftEnds, Cli!taskVars, Kept
<1> QED BY <1>1, <1>2, <1>3, <1>4, TaskKeeps, StreamKeeps DEF SocketStep

-----------------------------------------------------------------------------
\* The invariant over the steps of the client.

LEMMA OneControlKept ==
    ASSUME NEW w \in Seq(Calls \cup Controls), OneControl(w)
    PROVE  /\ OneControl(<<>>)
           /\ w # <<>> => OneControl(Tail(w))
           /\ \A c \in Calls : OneControl(Append(w, c))
           /\ ~HasControl(w) => \A m \in Controls : OneControl(Append(w, m))
<1>1. OneControl(<<>>)
  BY DEF OneControl
<1>2. ASSUME w # <<>> PROVE OneControl(Tail(w))
  <2>1. /\ Len(Tail(w)) = Len(w) - 1 /\ Len(w) \in Nat
        /\ \A i \in 1..Len(Tail(w)) : Tail(w)[i] = w[i + 1] /\ i + 1 \in 1..Len(w)
    BY <1>2
  <2> SUFFICES ASSUME NEW i \in 1..Len(Tail(w)), NEW j \in 1..Len(Tail(w)), {Tail(w)[i], Tail(w)[j]} \subseteq Controls
               PROVE  i = j
    BY DEF OneControl
  <2>2. i + 1 = j + 1
    BY <2>1 DEF OneControl
  <2> QED BY <2>1, <2>2
<1>3. ASSUME NEW c \in Calls PROVE OneControl(Append(w, c))
  <2>1. /\ Len(Append(w, c)) = Len(w) + 1 /\ Len(w) \in Nat /\ Append(w, c)[Len(w) + 1] \notin Controls
        /\ \A i \in 1..Len(w) : Append(w, c)[i] = w[i]
    BY ClientAssumptions DEF Controls
  <2> SUFFICES ASSUME NEW i \in 1..(Len(w) + 1), NEW j \in 1..(Len(w) + 1),
                      {Append(w, c)[i], Append(w, c)[j]} \subseteq Controls
               PROVE  i = j
    BY <2>1 DEF OneControl
  <2>2. i # Len(w) + 1 /\ j # Len(w) + 1
    BY <2>1
  <2>3. i \in 1..Len(w) /\ j \in 1..Len(w)
    BY <2>1, <2>2
  <2> QED BY <2>1, <2>3 DEF OneControl
<1>4. ASSUME ~HasControl(w), NEW m \in Controls PROVE OneControl(Append(w, m))
  <2>1. /\ Len(Append(w, m)) = Len(w) + 1 /\ Len(w) \in Nat
        /\ \A i \in 1..Len(w) : Append(w, m)[i] \notin Controls
    BY <1>4 DEF HasControl, Controls
  <2> QED BY <2>1 DEF OneControl
<1> QED BY <1>1, <1>2, <1>3, <1>4

LEMMA QueuesStep ==
    ASSUME Cli!IInv, Registered, Kept
    PROVE  \A s \in Slots : OneControl(rxq'[s])
<1> SUFFICES ASSUME NEW s \in Slots PROVE OneControl(rxq'[s])
  OBVIOUS
<1>1. rxq[s] \in Seq(Calls \cup Controls) /\ OneControl(rxq[s])
  BY ClientTypes DEF Registered, OneControl, Controls
<1> QED BY <1>1, OneControlKept DEF Kept

LEMMA RegisteredStep ==
    ASSUME Cli!IInv, Cli!IInv', Registered, SocketStep \/ ProcessorStep, Entries
    PROVE  Registered'
<1>1. gen' \in [Slots -> 0..MaxGen] /\ entry' \in [Ids -> Queues \cup {None}]
      /\ \A i \in Ids : listed'[i] = None => entry'[i] = None
  BY EntriesStep
<1>2. \A s \in Slots : /\ gen[s] \in Nat /\ gen'[s] \in Nat
                       /\ gen'[s] = IF Registers(s) THEN gen[s] + 1 ELSE gen[s]
  BY <1>1, EntriesStep DEF Registered
<1>3. ASSUME NEW s \in Slots, phase'[s] \in Cli!Receiving PROVE gen'[s] > 0
  BY <1>2, <1>3, PhaseStep DEF Registered
<1>4. ASSUME NEW i \in Ids, entry'[i] # None PROVE entry'[i][2] <= gen'[entry'[i][1]]
  <2>1. CASE entry'[i] = entry[i]
    <3>1. entry[i] \in Queues /\ entry[i][1] \in Slots /\ entry[i][2] \in Nat
      BY <1>1, <1>4, <2>1, QueueIs
    <3>2. entry[i][2] <= gen[entry[i][1]]
      BY <1>4, <2>1 DEF Registered
    <3>3. gen[entry[i][1]] <= gen'[entry[i][1]]
      BY <1>2, <3>1
    <3>4. gen[entry[i][1]] \in Nat /\ gen'[entry[i][1]] \in Nat
      BY <1>2, <3>1
    <3> QED BY <2>1, <3>1, <3>2, <3>3, <3>4
  <2>2. CASE \E s \in Slots : entry'[i] = <<s, gen'[s]>>
    BY <1>2, <2>2
  <2> QED BY <1>4, <2>1, <2>2, EntriesStep
<1>5. \A s \in Slots : OneControl(rxq'[s])
  BY StepKeeps, QueuesStep
<1> QED BY <1>1, <1>3, <1>4, <1>5 DEF Registered, OneControl, Controls

LEMMA NumberedStep ==
    ASSUME Cli!IInv, Numbered, SocketStep \/ ProcessorStep, UNCHANGED <<srvVars, num>>
    PROVE  Numbered'
BY StepKeeps DEF Numbered, Kept, srvVars

\* What Told says of one message.
BusTold(m) ==
    /\ m.kind = "response" /\ m.of # None => answer[m.of].code = "response"
    /\ m.kind = "error" =>
          \E c \in Calls : /\ at[c] # "idle" /\ m.id = num[c]
                           /\ answer[c].code \in Cli!AnswerKinds /\ m.err = ErrorOf(answer[c].code)

CallTold(c) ==
    /\ answer[c].code = "ServiceError" => resp[c].st # "whole"
    /\ chan[c].of # None \/ reply[c].of # None => answer[c].code = "response"
    /\ chan[c].st = "ProtocolError" \/ reply[c].code = 502 => answer[c].code = "ServiceError"
    /\ chan[c].st = "UnableToReachService" => at[c] = "idle" \/ answer[c].code = "UnableToReachService"

LEMMA ToldParts == Told <=> (\A i \in 1..Len(busQ) : BusTold(busQ[i])) /\ (\A c \in Calls : CallTold(c))
BY DEF Told, BusTold, CallTold

LEMMA ToldPartsNext ==
    ASSUME \A i \in 1..Len(busQ') : \E m : busQ'[i] = m /\ BusTold(m)', \A c \in Calls : CallTold(c)'
    PROVE  Told'
BY DEF Told, BusTold, CallTold

LEMMA ServerTypes ==
    ASSUME Srv!IInv
    PROVE  /\ busQ \in Seq(Srv!BusMessage) /\ sent \in Seq(Calls) /\ httpQ \in Seq(Calls)
           /\ Srv!Forwarding => cur.call \in Calls
           /\ \A i \in 1..Len(busQ) : busQ[i].kind = "response" => busQ[i].of \in Calls \cup {None}
<1>1. busQ \in Seq(Srv!BusMessage) /\ sent \in Seq(Calls) /\ httpQ \in Seq(Calls)
  BY DEF Srv!IInv, Srv!TypeOK
<1>2. Srv!Forwarding => cur.call \in Calls
  BY DEF Srv!IInv, Srv!TypeOK
<1>3. \A i \in 1..Len(busQ) : busQ[i].kind = "response" => busQ[i].of \in Calls \cup {None}
  BY <1>1 DEF Srv!IInv, Srv!Provenance
<1> QED BY <1>1, <1>2, <1>3

LEMMA BusStep ==
    ASSUME Srv!IInv, NEW m, Srv!BusSend(m)
    PROVE  \A i \in 1..Len(busQ') : busQ'[i] = m \/ (i \in 1..Len(busQ) /\ busQ'[i] = busQ[i])
<1>1. busQ' = Append(busQ, m) /\ busQ \in Seq(Srv!BusMessage)
  BY ServerTypes DEF Srv!BusSend
<1>2. Len(busQ) \in Nat /\ Len(busQ') = Len(busQ) + 1 /\ busQ'[Len(busQ) + 1] = m
      /\ \A i \in 1..Len(busQ) : busQ'[i] = busQ[i]
  BY <1>1
<1> QED BY <1>2

LEMMA AnswerOf ==
    ASSUME Cli!IInv, Cli!IInv', Registered, SocketStep \/ ProcessorStep, Reports, num' = num
    PROVE  \/ answer' = answer /\ busQ' = busQ
           \/ \E r \in Calls :
                 /\ answer'[r].code \in Cli!AnswerKinds /\ answer[r].code = "none" /\ at'[r] = "answered"
                 /\ \A c \in Calls : c # r => answer'[c] = answer[c]
                 /\ Srv!BusSend(Message(r, answer'[r])) \/ busQ' = busQ
                 /\ answer'[r].code = "response" => answer'[r].of = r
                 /\ answer'[r].code = "ServiceError" => at[r] = "sent"
<1>1. ASSUME answer' = answer PROVE busQ' = busQ
  BY <1>1, NoAnswer
<1>2. ASSUME NEW r \in Calls, Settles(r), at[r] # "answered"
      PROVE  /\ answer'[r].code \in Cli!AnswerKinds /\ answer[r].code = "none" /\ at'[r] = "answered"
             /\ \A c \in Calls : c # r => answer'[c] = answer[c]
             /\ Srv!BusSend(Message(r, answer'[r])) \/ busQ' = busQ
             /\ answer'[r].code = "response" => answer'[r].of = r
             /\ answer'[r].code = "ServiceError" => at[r] = "sent"
  BY <1>2, AnswerStep, ClientTypes DEF Settles
<1>3. ASSUME NEW s \in Slots, NEW r \in Calls, Refuses(s, r) PROVE Settles(r) /\ at[r] # "answered"
  BY <1>3, QueuedHead DEF Refuses, HeadOut
<1>4. ASSUME NEW r \in Calls, Replies(r) PROVE Settles(r) /\ at[r] # "answered"
  BY <1>4 DEF Replies, InHand
<1> QED BY <1>1, <1>2, <1>3, <1>4, StepKind DEF Kind, Quiet, Takes

\* A response changes only under a request that is in hand, in a step that answers nobody.
LEMMA RespStep ==
    ASSUME Cli!IInv, Registered, SocketStep \/ ProcessorStep
    PROVE  resp' = resp \/ (answer' = answer /\ \A c \in Calls : at[c] \notin InHand => resp'[c] = resp[c])
<1> USE ClientTypes DEF InHand
<1>1. resp \in [Calls -> [st: {"none", "due", "whole", "partial"}, of: Calls \cup {None}]]
  BY DEF Cli!IInv, Cli!TypeOK, Cli!SocketTypeOK
<1>2. ASSUME NEW tasks, NEW how, Cli!DropTasks(tasks, how) PROVE resp' = resp
  BY <1>2 DEF Cli!DropTasks
<1>3. ASSUME NEW s \in Slots, Cli!TaskNext(s)
      PROVE  resp' = resp \/ (answer' = answer /\ \A c \in Calls : at[c] \notin InHand => resp'[c] = resp[c])
  <2>1. CASE Cli!Http1Write(s) \/ Cli!Http1Response(s)
    <3>1. msg[s] \in Calls /\ at[msg[s]] \in InHand
      BY <2>1 DEF Cli!Http1Write, Cli!Http1Response, Cli!IInv, Cli!TaskHolds, Cli!OneHolder
    <3>2. answer' = answer /\ \A c \in Calls : c # msg[s] => resp'[c] = resp[c]
      BY <1>1, <2>1, <3>1 DEF Cli!Http1Write, Cli!Http1Response
    <3> QED BY <3>1, <3>2
  <2>2. CASE Cli!Connect(s) \/ Cli!AddQueue(s) \/ Cli!AddService(s) \/ Cli!LinkBroken(s)
    BY <2>2 DEF Cli!Connect, Cli!AddQueue, Cli!AddService, Cli!LinkBroken, Cli!reqVars
  <2>3. CASE Cli!ConnectFails(s) \/ Cli!NoBranchLeft(s) \/ Cli!TakeUnsupported(s) \/ Cli!Return(s) \/ Cli!BusFails(s)
    BY <1>2, <2>3 DEF Cli!ConnectFails, Cli!NoBranchLeft, Cli!TakeUnsupported, Cli!Return, Cli!BusFails
  <2>4. CASE \/ Cli!TakeIgnored(s) \/ Cli!TakeShutdown(s)
             \/ \E r \in Calls : Cli!TakeRefused(s, r) \/ Cli!TakeHttp1(s, r) \/ Cli!TakeH2(s, r)
    BY <2>4 DEF Cli!TakeIgnored, Cli!TakeShutdown, Cli!TakeRefused, Cli!TakeHttp1, Cli!TakeH2, Cli!reqVars
  <2>5. CASE \/ Cli!RemoveQueue(s) \/ Cli!DrainOther(s) \/ Cli!Drained(s)
             \/ \E r \in Calls : Cli!DrainRequest(s, r)
    BY <2>5 DEF Cli!RemoveQueue, Cli!Unlist, Cli!DrainOther, Cli!DrainRequest, Cli!DrainHead, Cli!Drained, Cli!reqVars
  <2>6. CASE Cli!Http1Error(s) \/ Cli!Http1Timeout(s) \/ Cli!Http1Read(s)
    BY <2>6 DEF Cli!Http1Error, Cli!Http1Timeout, Cli!Http1TimeoutTo, Cli!Http1Read
  <2> QED BY <1>3, <2>1, <2>2, <2>3, <2>4, <2>5, <2>6 DEF Cli!TaskNext, Cli!Serve, Cli!Close
<1>4. ASSUME NEW r \in Calls, Cli!StreamNext(r) \/ Cli!BodyArrives(r)
      PROVE  resp' = resp \/ (answer' = answer /\ \A c \in Calls : at[c] \notin InHand => resp'[c] = resp[c])
  <2>1. CASE Cli!H2Error(r) \/ Cli!H2Timeout(r) \/ Cli!H2Read(r)
    BY <2>1 DEF Cli!H2Error, Cli!H2ErrorAs, Cli!H2Timeout, Cli!H2TimeoutIn, Cli!H2Read, Cli!SettleStream
  <2>2. CASE Cli!H2Write(r) \/ Cli!H2Response(r) \/ Cli!BodyArrives(r)
    <3>1. at[r] \in InHand /\ answer' = answer /\ \A c \in Calls : c # r => resp'[c] = resp[c]
      BY <1>1, <2>2 DEF Cli!H2Write, Cli!H2Response, Cli!BodyArrives
    <3> QED BY <3>1
  <2> QED BY <1>4, <2>1, <2>2 DEF Cli!StreamNext
<1>5. ASSUME \/ \E s \in Slots : Cli!Control(s) \/ Cli!LinkEnds(s)
             \/ \E i \in Ids : Cli!LeftEnds(i)
      PROVE  resp' = resp
  BY <1>5 DEF Cli!Control, Cli!LinkEnds, Cli!LeftEnds, Cli!reqVars
<1>6. CASE ProcessorStep
  BY <1>2, <1>6 DEF ProcessorStep, Cli!ProcNext, Cli!Start, Cli!Restart, Cli!StartFails, Cli!RecvService, Cli!Notify,
     Cli!JoinOk, Cli!JoinErr, Cli!RecvShutdown, Cli!RecvUnsupported, Cli!JoinPanic, Cli!AbortAll, Cli!EndWith,
     Cli!sockVars, Cli!reqVars
<1> QED BY <1>3, <1>4, <1>5, <1>6 DEF SocketStep

LEMMA ToldStep ==
    ASSUME Cli!IInv, Cli!IInv', Srv!IInv, Registered, Told, SocketStep \/ ProcessorStep,
           UNCHANGED <<srvVars, num>>, Reports
    PROVE  Told'
<1>1. /\ UNCHANGED <<chan, reply, num>>
      /\ \A c \in Calls : at'[c] = "idle" <=> at[c] = "idle"
  BY StepKeeps DEF srvVars, Kept
<1>2. \A c \in Calls : answer[c].code # "none" => answer'[c] = answer[c]
  BY <1>1, AnswerOf
<1>3. ASSUME NEW m, BusTold(m), m.kind = "response" => m.of \in Calls \cup {None} PROVE BusTold(m)'
  <2>1. m.kind = "response" /\ m.of # None => answer'[m.of].code = "response"
    BY <1>2, <1>3 DEF BusTold
  <2>2. ASSUME m.kind = "error"
        PROVE  \E c \in Calls : /\ at'[c] # "idle" /\ m.id = num'[c]
                               /\ answer'[c].code \in Cli!AnswerKinds /\ m.err = ErrorOf(answer'[c].code)
    <3>1. PICK c \in Calls : /\ at[c] # "idle" /\ m.id = num[c]
                             /\ answer[c].code \in Cli!AnswerKinds /\ m.err = ErrorOf(answer[c].code)
      BY <1>3, <2>2 DEF BusTold
    <3>2. answer'[c] = answer[c]
      BY <1>2, <3>1 DEF Cli!AnswerKinds
    <3> QED BY <1>1, <3>1, <3>2
  <2> QED BY <2>1, <2>2 DEF BusTold, ErrorOf
<1>4. ASSUME NEW c \in Calls PROVE CallTold(c)'
  <2>1. answer'[c].code = "ServiceError" => resp'[c].st # "whole"
    <3> SUFFICES ASSUME answer'[c].code = "ServiceError" PROVE resp'[c].st # "whole"
      OBVIOUS
    <3>1. CASE answer'[c] = answer[c]
      <4>1. resp[c].st # "whole"
        BY <3>1, ToldParts DEF CallTold
      <4>2. at[c] \notin InHand
        BY <3>1 DEF Cli!IInv, Cli!OneHolder, InHand
      <4> QED BY <4>1, <4>2, RespStep
    <3>2. CASE answer'[c] # answer[c]
      <4>1. at[c] = "sent"
        BY <1>1, <3>2, AnswerOf
      <4>2. resp'[c] = resp[c] /\ resp[c].st # "whole"
        BY <3>2, <4>1, RespStep DEF Cli!IInv, Cli!Sourced
      <4> QED BY <4>2
    <3> QED BY <3>1, <3>2
  <2> QED BY <1>1, <1>2, <2>1, ToldParts DEF CallTold
<1>5. ASSUME NEW r \in Calls, NEW m, m = Message(r, answer'[r]), answer'[r].code \in Cli!AnswerKinds,
             at'[r] = "answered", answer'[r].code = "response" => answer'[r].of = r
      PROVE  BusTold(m)'
  <2>1. CASE answer'[r].code = "response"
    BY <1>5, <2>1 DEF Message, BusTold
  <2>2. CASE answer'[r].code # "response"
    <3>1. m.kind = "error" /\ m.id = num'[r] /\ m.err = ErrorOf(answer'[r].code)
      BY <1>1, <1>5, <2>2 DEF Message, Sent
    <3> QED BY <1>5, <3>1 DEF BusTold, ErrorOf
  <2> QED BY <2>1, <2>2
<1>6. ASSUME NEW i \in 1..Len(busQ') PROVE \E m : busQ'[i] = m /\ BusTold(m)'
  <2>1. CASE i \in 1..Len(busQ) /\ busQ'[i] = busQ[i]
    <3>1. BusTold(busQ[i]) /\ (busQ[i].kind = "response" => busQ[i].of \in Calls \cup {None})
      BY <2>1, ToldParts, ServerTypes
    <3> QED BY <1>3, <2>1, <3>1
  <2>2. CASE busQ' # busQ /\ ~(i \in 1..Len(busQ) /\ busQ'[i] = busQ[i])
    <3>1. PICK r \in Calls :
             /\ answer'[r].code \in Cli!AnswerKinds /\ at'[r] = "answered"
             /\ Srv!BusSend(Message(r, answer'[r]))
             /\ answer'[r].code = "response" => answer'[r].of = r
      BY <2>2, <1>1, AnswerOf
    <3>2. busQ'[i] = Message(r, answer'[r])
      BY <2>2, <3>1, BusStep
    <3> QED BY <1>5, <3>1, <3>2
  <2> QED BY <2>1, <2>2
<1> QED BY <1>4, <1>6, ToldPartsNext

-----------------------------------------------------------------------------
\* The invariant over the steps of the server, of which the client notices nothing.

ClientStill == UNCHANGED <<at, on, resp, answer, num>>
BusKeeps == \A i \in 1..Len(busQ') : \/ \E j \in 1..Len(busQ) : busQ'[i] = busQ[j]
                                     \/ busQ'[i].kind \notin {"response", "error"}
ChanKeeps(c) == chan'[c] = chan[c] \/ chan'[c] \in {Srv!Open, Srv!Dropped, Srv!Failure("Timeout")}

LEMMA BusHeadKeeps ==
    ASSUME Srv!IInv, NEW kind, Srv!BusHead(kind)
    PROVE  BusKeeps /\ Head(busQ) = busQ[1] /\ 1 \in 1..Len(busQ) /\ busQ[1].kind = kind
<1>1. busQ \in Seq(Srv!BusMessage) /\ busQ # <<>> /\ busQ' = Tail(busQ) /\ Head(busQ).kind = kind
  BY ServerTypes DEF Srv!BusHead, Srv!BusTake
<1>2. /\ Head(busQ) = busQ[1] /\ Len(busQ) \in Nat \ {0} /\ Len(busQ') = Len(busQ) - 1
      /\ \A i \in 1..Len(busQ') : busQ'[i] = busQ[i + 1] /\ i + 1 \in 1..Len(busQ)
  BY <1>1
<1> QED BY <1>1, <1>2 DEF BusKeeps

LEMMA BusSame == busQ' = busQ => BusKeeps
BY DEF BusKeeps

LEMMA BusTells ==
    ASSUME Told, ClientStill, BusKeeps, \A c \in Calls : CallTold(c)'
    PROVE  Told'
<1>1. UNCHANGED <<at, answer, num>>
  BY DEF ClientStill
<1>2. ASSUME NEW m, BusTold(m) PROVE BusTold(m)'
  BY <1>1, <1>2 DEF BusTold, ErrorOf
<1>3. ASSUME NEW m, m.kind \notin {"response", "error"} PROVE BusTold(m)
  BY <1>3 DEF BusTold
<1>4. ASSUME NEW i \in 1..Len(busQ') PROVE \E m : busQ'[i] = m /\ BusTold(m)'
  BY <1>2, <1>3, ToldParts DEF BusKeeps
<1> QED BY <1>4, ToldPartsNext

LEMMA ChanTells ==
    ASSUME Told, ClientStill, NEW c \in Calls, ChanKeeps(c), reply'[c] = reply[c]
    PROVE  CallTold(c)'
<1>1. at'[c] = at[c] /\ answer'[c] = answer[c] /\ resp'[c] = resp[c]
  BY DEF ClientStill
<1>2. CallTold(c)
  BY ToldParts
<1> QED BY <1>1, <1>2 DEF CallTold, ChanKeeps, Srv!Open, Srv!Dropped, Srv!Failure

LEMMA CallTells ==
    ASSUME Srv!IInv, Told, ClientStill, NEW d \in Calls, Srv!CallNext(d)
    PROVE  Told' /\ sent' = sent
<1> USE DEF Srv!loopVars, Srv!svcVars
<1>1. busQ' = busQ /\ sent' = sent
  BY DEF Srv!CallNext, Srv!BeginCall, Srv!DirectCall, Srv!Enqueue, Srv!EnqueueClosed, Srv!FinishCall, Srv!Disconnect
<1>2. chan \in [Calls -> [st: {"none", "open", "closed", "response"} \cup Srv!ServiceErrors, of: Calls \cup {None}]]
      /\ reply \in [Calls -> [code: Srv!Codes \cup {0}, of: Calls \cup {None}]]
  BY DEF Srv!IInv, Srv!TypeOK
<1>3. CASE Srv!BeginCall(d) \/ Srv!Enqueue(d) \/ Srv!EnqueueClosed(d) \/ Srv!Disconnect(d)
  <2>1. reply' = reply /\ \A c \in Calls : ChanKeeps(c)
    BY <1>2, <1>3 DEF Srv!BeginCall, Srv!Enqueue, Srv!EnqueueClosed, Srv!Disconnect, ChanKeeps
  <2> QED BY <1>1, <2>1, BusSame, BusTells, ChanTells
<1>4. CASE Srv!DirectCall(d) \/ Srv!FinishCall(d)
  <2>1. chan' = chan /\ \A c \in Calls : ChanKeeps(c)
    BY <1>4 DEF Srv!DirectCall, Srv!FinishCall, ChanKeeps
  <2>2. ASSUME NEW c \in Calls, reply'[c] # reply[c]
        PROVE  \/ reply'[c].code = 200 /\ reply'[c].of = None
               \/ reply'[c].code = Srv!Code(chan[c].st) /\ reply'[c].of = chan[c].of
    BY <1>2, <1>4, <2>2 DEF Srv!DirectCall, Srv!FinishCall
  <2>3. \A c \in Calls : Srv!Code(chan[c].st) = 502 => chan[c].st = "ProtocolError"
    BY <1>2 DEF Srv!Code, Srv!ErrorCode, Srv!ServiceErrors
  <2>4. ASSUME NEW c \in Calls PROVE CallTold(c)'
    <3>1. CallTold(c) /\ at'[c] = at[c] /\ answer'[c] = answer[c] /\ resp'[c] = resp[c]
      BY ToldParts DEF ClientStill
    <3> QED BY <2>1, <2>2, <2>3, <3>1 DEF CallTold
  <2> QED BY <1>1, <2>4, BusSame, BusTells
<1> QED BY <1>3, <1>4 DEF Srv!CallNext

\* The loop settles the oneshots of the messages with one id: those of one call.
LEMMA PulledIs ==
    ASSUME Srv!IInv, NEW id, NEW c \in Calls, \E p \in Srv!Pulled(id) : p.call = c
    PROVE  id \in 1..Len(sent) /\ sent[id] = c
BY DEF Srv!IInv, Srv!Provenance, Srv!Valid, Srv!Pulled

LEMMA SettlesOnly ==
    ASSUME Srv!IInv, NEW id, NEW value, Srv!PullAndSend(id, value)
    PROVE  /\ sent' = sent /\ reply' = reply
           /\ \A c \in Calls : \/ chan'[c] = chan[c]
                               \/ chan'[c] = value /\ id \in 1..Len(sent) /\ sent[id] = c
<1>1. sent' = sent /\ reply' = reply
      /\ chan' = [c \in Calls |-> IF \E p \in Srv!Pulled(id) : p.call = c THEN value ELSE chan[c]]
  BY DEF Srv!PullAndSend, Srv!Settle
<1> QED BY <1>1, PulledIs

LEMMA ResponseTells ==
    ASSUME Srv!IInv, Numbered, Told, ClientStill, Srv!RecvResponse \/ Srv!RecvError
    PROVE  Told' /\ sent' = sent
<1> DEFINE m == busQ[1]
<1>1. /\ BusKeeps /\ Head(busQ) = m /\ 1 \in 1..Len(busQ)
      /\ \/ m.kind = "response" /\ Srv!PullAndSend(m.id, IF m.of = None THEN Srv!Dropped ELSE Srv!Data(m.of))
         \/ m.kind = "error" /\ Srv!PullAndSend(m.id, Srv!Failure(m.err))
  BY BusHeadKeeps DEF Srv!RecvResponse, Srv!RecvError
<1>2. BusTold(m) /\ \A c \in Calls : CallTold(c)
  BY <1>1, ToldParts
<1>3. UNCHANGED <<sent, reply, at, on, resp, answer, num>>
  BY <1>1, SettlesOnly DEF ClientStill
<1>4. ASSUME m.kind = "response", Srv!PullAndSend(m.id, IF m.of = None THEN Srv!Dropped ELSE Srv!Data(m.of)),
             NEW c \in Calls, chan'[c] # chan[c]
      PROVE  CallTold(c)'
  <2>1. chan'[c] = (IF m.of = None THEN Srv!Dropped ELSE Srv!Data(m.of)) /\ sent[m.id] = c
    BY <1>4, SettlesOnly
  <2>2. m.of \in {c, None}
    BY <1>1, <1>4, <2>1 DEF Srv!IInv, Srv!Provenance
  <2>3. CASE m.of = None
    BY <1>3, <2>1, <2>3, ChanTells DEF ChanKeeps
  <2>4. CASE m.of # None
    <3>1. answer[c].code = "response" /\ chan'[c] = [st |-> "response", of |-> c]
      BY <1>2, <1>4, <2>1, <2>2, <2>4 DEF BusTold, Srv!Data
    <3> QED BY <1>2, <1>3, <3>1 DEF CallTold
  <2> QED BY <2>3, <2>4
<1>5. ASSUME m.kind = "error", Srv!PullAndSend(m.id, Srv!Failure(m.err)), NEW c \in Calls, chan'[c] # chan[c]
      PROVE  CallTold(c)'
  <2>1. chan'[c] = [st |-> m.err, of |-> None] /\ sent[m.id] = c
    BY <1>5, SettlesOnly DEF Srv!Failure
  <2>2. PICK d \in Calls : /\ at[d] # "idle" /\ m.id = num[d]
                           /\ answer[d].code \in Cli!AnswerKinds /\ m.err = ErrorOf(answer[d].code)
    BY <1>2, <1>5 DEF BusTold
  <2>3. d = c
    BY <2>1, <2>2 DEF Numbered
  <2>4. /\ m.err = "ProtocolError" => answer[c].code = "ServiceError"
        /\ m.err = "UnableToReachService" => answer[c].code = "UnableToReachService"
    BY <2>2, <2>3 DEF ErrorOf, DemoResponse, Err, Cli!AnswerKinds
  <2> HIDE DEF m
  <2> QED BY <1>2, <1>3, <2>1, <2>4 DEF CallTold
<1>6. ASSUME NEW c \in Calls, chan'[c] = chan[c] PROVE CallTold(c)'
  BY <1>3, <1>6, ChanTells DEF ChanKeeps
<1> QED BY <1>1, <1>3, <1>4, <1>5, <1>6, BusTells

LEMMA ExitTells ==
    ASSUME Srv!IInv, Told, ClientStill,
           Srv!RecvShutdown \/ Srv!RecvUnsupported \/ Srv!SendFails \/ Srv!AcceptFails
    PROVE  Told' /\ sent' = sent
<1>1. BusKeeps /\ \E how : Srv!Exit(how)
  BY BusHeadKeeps, BusSame DEF Srv!RecvShutdown, Srv!RecvUnsupported, Srv!SendFails, Srv!AcceptFails
<1>2. sent' = sent /\ reply' = reply /\ \A c \in Calls : ChanKeeps(c)
  BY <1>1 DEF Srv!Exit, Srv!Unwind, ChanKeeps
<1> QED BY <1>1, <1>2, BusTells, ChanTells

LEMMA RejectTells ==
    ASSUME Srv!IInv, Numbered, Told, ClientStill, Srv!RejectHttp
    PROVE  Told' /\ sent' = sent
<1> DEFINE h == Head(httpQ)
<1>1. /\ UNCHANGED <<sent, reply, busQ>> /\ httpQ # <<>> /\ httpQ \in Seq(Calls)
      /\ chan' = [chan EXCEPT ![h] = Srv!Failure("UnableToReachService")]
  BY ServerTypes DEF Srv!RejectHttp
<1>2. h \in Calls /\ h \in Srv!Elems(httpQ)
  BY <1>1 DEF Srv!Elems
<1>3. at[h] = "idle"
  <2>1. h \notin Srv!Elems(sent)
    BY <1>2 DEF Srv!IInv, Srv!Unsent
  <2> QED BY <1>2, <2>1 DEF Numbered, Srv!Elems
<1> HIDE DEF h
<1>4. ASSUME NEW c \in Calls PROVE CallTold(c)'
  <2>1. CASE c # h
    <3>1. chan'[c] = chan[c]
      BY <1>1, <2>1 DEF Srv!IInv, Srv!TypeOK
    <3> QED BY <1>1, <3>1, ChanTells DEF ChanKeeps
  <2>2. CASE c = h
    <3>1. chan'[c] = [st |-> "UnableToReachService", of |-> None] /\ at'[c] = "idle"
      BY <1>1, <1>3, <2>2 DEF Srv!IInv, Srv!TypeOK, Srv!Failure, ClientStill
    <3>2. CallTold(c) /\ reply'[c] = reply[c] /\ answer'[c] = answer[c] /\ resp'[c] = resp[c]
      BY <1>1, ToldParts DEF ClientStill
    <3> QED BY <3>1, <3>2 DEF CallTold
  <2> QED BY <2>1, <2>2
<1> QED BY <1>1, <1>4, BusSame, BusTells

LEMMA OtherTells ==
    ASSUME Srv!IInv, Told, ClientStill,
           \/ Srv!Start \/ Srv!StartFails \/ Srv!Restart \/ Srv!RecvService \/ Srv!Expire
           \/ Srv!ForwardHttp \/ Srv!Push \/ Srv!BusControl \/ Srv!Announce
    PROVE  Told' /\ (sent' = sent \/ \E c \in Calls : sent' = Append(sent, c))
<1> USE DEF Srv!loopVars, Srv!callVars, Srv!svcVars
<1>1. CASE Srv!Start \/ Srv!StartFails \/ Srv!Restart \/ Srv!RecvService \/ Srv!ForwardHttp
           \/ Srv!Push \/ Srv!BusControl \/ Srv!Announce
  <2>1. chan' = chan /\ reply' = reply /\ \A c \in Calls : ChanKeeps(c)
    BY <1>1 DEF Srv!Start, Srv!StartFails, Srv!Restart, Srv!RecvService, Srv!ForwardHttp,
       Srv!Push, Srv!BusControl, Srv!Announce, ChanKeeps
  <2>2. sent' = sent \/ \E c \in Calls : sent' = Append(sent, c)
    <3>1. CASE Srv!ForwardHttp
      <4>1. Head(httpQ) \in Calls /\ sent' = Append(sent, Head(httpQ))
        BY <3>1, ServerTypes DEF Srv!ForwardHttp
      <4> QED BY <4>1
    <3>2. CASE ~Srv!ForwardHttp
      BY <1>1, <3>2 DEF Srv!Start, Srv!StartFails, Srv!Restart, Srv!RecvService, Srv!Push, Srv!BusControl, Srv!Announce
    <3> QED BY <3>1, <3>2
  <2>3. BusKeeps
    <3>1. CASE Srv!BusControl \/ Srv!Announce
      <4>1. \E m : m.kind \notin {"response", "error"} /\ Srv!BusSend(m)
        BY <3>1 DEF Srv!BusControl, Srv!Announce
      <4> QED BY <4>1, BusStep DEF BusKeeps
    <3>2. CASE Srv!RecvService
      BY <3>2, BusHeadKeeps DEF Srv!RecvService
    <3>3. CASE busQ' = busQ
      BY <3>3, BusSame
    <3> QED BY <1>1, <3>1, <3>2, <3>3 DEF Srv!Start, Srv!StartFails, Srv!Restart, Srv!ForwardHttp, Srv!Push
  <2> QED BY <2>1, <2>2, <2>3, BusTells, ChanTells
<1>2. CASE Srv!Expire
  <2>1. busQ' = busQ /\ \E id : Srv!PullAndSend(id, Srv!Failure("Timeout"))
    BY <1>2 DEF Srv!Expire
  <2>2. sent' = sent /\ reply' = reply /\ \A c \in Calls : ChanKeeps(c)
    BY <2>1, SettlesOnly DEF ChanKeeps
  <2> QED BY <2>1, <2>2, BusSame, BusTells, ChanTells
<1> QED BY <1>1, <1>2

-----------------------------------------------------------------------------
\* The steps of the gateway.

LEMMA ClientMove ==
    ASSUME ClientNext \/ ClientFaults
    PROVE  /\ SocketStep \/ ProcessorStep
           /\ UNCHANGED <<srvVars, num>> /\ Entries /\ Reports
           /\ Cli!Next
<1>1. ASSUME NEW s \in Slots, TaskStep(Cli!TaskNext(s)) \/ TaskStep(Cli!Control(s) \/ Cli!LinkEnds(s))
      PROVE  SocketStep /\ Cli!Next /\ UNCHANGED <<srvVars, num>> /\ Entries /\ Reports
  BY <1>1 DEF TaskStep, ProcStep, Cli!Step, SocketStep, Cli!Next, Cli!SocketNext, Cli!SocketEnv
<1>2. ASSUME NEW r \in Calls, TaskStep(Cli!StreamNext(r) \/ Cli!BodyArrives(r))
      PROVE  SocketStep /\ Cli!Next /\ UNCHANGED <<srvVars, num>> /\ Entries /\ Reports
  BY <1>2 DEF TaskStep, ProcStep, Cli!Step, SocketStep, Cli!Next, Cli!SocketNext, Cli!SocketEnv
<1>3. ASSUME \/ ProcStep(Cli!Restart)
             \/ ProcStep(Cli!Start \/ Cli!RecvService \/ Cli!RecvShutdown \/ Cli!RecvUnsupported)
             \/ \E s \in Slots : ProcStep(Cli!JoinOk(s) \/ Cli!JoinErr(s) \/ Cli!JoinPanic(s))
             \/ ProcStep(Cli!Notify \/ Cli!StartFails)
      PROVE  ProcessorStep /\ Cli!Next /\ UNCHANGED <<srvVars, num>> /\ Entries /\ Reports
  BY <1>3 DEF ProcStep, ProcessorStep, Cli!Next, Cli!ProcNext
<1>4. ASSUME NEW i \in Ids, TaskStep(Cli!LeftEnds(i))
      PROVE  SocketStep /\ Cli!Next /\ UNCHANGED <<srvVars, num>> /\ Entries /\ Reports
  BY <1>4 DEF TaskStep, ProcStep, Cli!Step, SocketStep, Cli!Next, Cli!SocketNext, Cli!SocketEnv
<1> QED BY <1>1, <1>2, <1>3, <1>4 DEF ClientNext, ClientFaults

ServerPart ==
    \/ \E c \in Calls : Srv!CallNext(c)
    \/ Srv!RecvResponse \/ Srv!RecvError \/ Srv!RejectHttp
    \/ Srv!RecvShutdown \/ Srv!RecvUnsupported \/ Srv!SendFails \/ Srv!AcceptFails
    \/ Srv!Start \/ Srv!StartFails \/ Srv!Restart \/ Srv!RecvService \/ Srv!Expire
    \/ Srv!ForwardHttp \/ Srv!Push \/ Srv!BusControl \/ Srv!Announce

LEMMA ServerMove ==
    ASSUME ServerNext \/ ServerFaults
    PROVE  (ServerPart /\ UNCHANGED cliVars) \/ SendDone
<1>1. ASSUME NEW c \in Calls, Request(c) \/ ServiceFuture(c) PROVE Srv!CallNext(c)
  BY <1>1 DEF Request, ServiceFuture, Srv!CallNext
<1> QED BY <1>1 DEF ServerNext, ServerFaults, Alone, FromBus, FromHttp, ServerPart, Srv!CallNext

LEMMA PartIsNext == ServerPart => Srv!Next
BY DEF ServerPart, Srv!Next, Srv!LoopNext, Srv!EnvNext

LEMMA StillMeans ==
    ASSUME UNCHANGED cliVars
    PROVE  ClientStill /\ UNCHANGED Cli!vars /\ (Registered => Registered')
<1>1. UNCHANGED <<phase, proto, link, rxq, msg, wire, fd, listed, mainUp, at, on, resp, via, stale,
                  answer, proc, starts, procQ, gen, num, entry>>
  BY DEF cliVars
<1>2. ClientStill
  BY <1>1 DEF ClientStill
<1>3. UNCHANGED Cli!vars
  BY <1>1 DEF Cli!vars, Cli!sockVars, Cli!taskVars, Cli!ids, Cli!reqVars, Cli!procVars
<1>4. Registered => Registered'
  BY <1>1 DEF Registered
<1> QED BY <1>2, <1>3, <1>4

LEMMA SentGrows ==
    ASSUME Srv!IInv, Numbered, ClientStill, sent' = sent \/ \E c \in Calls : sent' = Append(sent, c)
    PROVE  Numbered'
<1>1. sent \in Seq(Calls)
  BY ServerTypes
<1>2. \A i \in 1..Len(sent) : i \in 1..Len(sent') /\ sent'[i] = sent[i]
  BY <1>1
<1> QED BY <1>2 DEF Numbered, ClientStill

LEMMA ServerPartInv ==
    ASSUME IInv, ServerPart, UNCHANGED cliVars
    PROVE  Registered' /\ Numbered' /\ Told'
<1>1. ClientStill /\ Registered'
  BY StillMeans DEF IInv
<1>2. Told' /\ (sent' = sent \/ \E c \in Calls : sent' = Append(sent, c))
  BY <1>1, CallTells, ResponseTells, ExitTells, RejectTells, OtherTells DEF ServerPart, IInv
<1> QED BY <1>1, <1>2, SentGrows DEF IInv

LEMMA SendDoneMove ==
    ASSUME IInv, SendDone
    PROVE  /\ Srv!Next /\ Cli!Next
           /\ Registered' /\ Numbered' /\ Told'
<1> USE ClientTypes DEF IInv
<1>1. PICK s \in Slots : cur.queue = <<s, gen[s]>> /\ Cli!Deliver(s, cur.call) /\ UNCHANGED Cli!procVars
  BY DEF SendDone, Cli!Step
<1>2. Srv!SendDone /\ UNCHANGED <<gen, entry>> /\ num' = [num EXCEPT ![cur.call] = cur.id]
  BY DEF SendDone
<1>3. cur.call \in Calls /\ Srv!Forwarding
  BY <1>2, ServerTypes DEF Srv!SendDone, Srv!Forwarding
<1>4. Srv!Next /\ Cli!Next
  BY <1>1, <1>2, <1>3 DEF Srv!Next, Srv!LoopNext, Cli!Next, Cli!SocketNext, Cli!SocketEnv
<1> DEFINE r == cur.call
<1>5. /\ at[r] = "idle" /\ at' = [at EXCEPT ![r] = "queue"] /\ on' = [on EXCEPT ![r] = s]
      /\ rxq' = [rxq EXCEPT ![s] = Append(@, r)] /\ UNCHANGED <<phase, listed, resp, answer>>
  BY <1>1 DEF Cli!Deliver, Cli!ids
<1>6. UNCHANGED <<sent, chan, reply, busQ>> /\ cur.id \in 1..Len(sent) /\ sent[cur.id] = r
  BY <1>2, <1>3 DEF Srv!SendDone, Srv!callVars, Srv!IInv, Srv!Provenance, Srv!Valid
<1>7. chan[r].st = "open"
  BY <1>3 DEF Srv!IInv, Srv!OneOwner, Srv!InLoop
<1> HIDE DEF r
<1>8. Registered'
  <2>1. ASSUME NEW t \in Slots PROVE OneControl(rxq'[t])
    <3>1. rxq[t] \in Seq(Calls \cup Controls) /\ OneControl(rxq[t])
      BY DEF Registered, OneControl, Controls
    <3>2. rxq'[t] = rxq[t] \/ rxq'[t] = Append(rxq[t], r)
      BY <1>5
    <3> QED BY <1>3, <3>1, <3>2, OneControlKept DEF r
  <2> QED BY <1>2, <1>5, <2>1 DEF Registered, OneControl, Controls
<1>9. Numbered'
  <2>1. num \in [Calls -> Nat] /\ cur.id \in Nat
    BY <1>6, ServerTypes DEF Numbered
  <2>2. num' \in [Calls -> Nat] /\ \A c \in Calls : num'[c] = IF c = r THEN cur.id ELSE num[c]
    BY <1>2, <1>3, <2>1 DEF r
  <2>3. ASSUME NEW c \in Calls, at'[c] # "idle"
        PROVE  num'[c] \in 1..Len(sent') /\ sent'[num'[c]] = c /\ on'[c] \in Slots
    <3>1. CASE c = r
      BY <1>5, <1>6, <2>2, <3>1
    <3>2. CASE c # r
      BY <1>5, <1>6, <2>2, <2>3, <3>2 DEF Numbered
    <3> QED BY <3>1, <3>2
  <2> QED BY <2>2, <2>3 DEF Numbered
<1>10. Told'
  <2>1. ASSUME NEW c \in Calls PROVE CallTold(c)'
    BY <1>3, <1>5, <1>6, <1>7, ToldParts DEF CallTold
  <2>2. ASSUME NEW m, BusTold(m) PROVE BusTold(m)'
    <3>1. m.kind = "response" /\ m.of # None => answer'[m.of].code = "response"
      BY <1>5, <2>2 DEF BusTold
    <3>2. ASSUME m.kind = "error"
          PROVE  \E c \in Calls : /\ at'[c] # "idle" /\ m.id = num'[c]
                                 /\ answer'[c].code \in Cli!AnswerKinds /\ m.err = ErrorOf(answer'[c].code)
      <4>1. PICK c \in Calls : /\ at[c] # "idle" /\ m.id = num[c]
                               /\ answer[c].code \in Cli!AnswerKinds /\ m.err = ErrorOf(answer[c].code)
        BY <2>2, <3>2 DEF BusTold
      <4>2. c # r /\ at'[c] = at[c] /\ num'[c] = num[c] /\ answer'[c] = answer[c]
        BY <1>2, <1>5, <4>1 DEF Numbered, r
      <4> QED BY <4>1, <4>2
    <3> QED BY <3>1, <3>2 DEF BusTold, ErrorOf
  <2> QED BY <1>6, <2>1, <2>2, ToldParts, ToldPartsNext
<1> QED BY <1>4, <1>8, <1>9, <1>10

LEMMA InitInv == Init => IInv /\ Srv!Init
<1> SUFFICES ASSUME Init PROVE IInv /\ Srv!Init
  OBVIOUS
<1>1. Cli!IInv
  <2>1. CliP!Init
    BY ClientNextSame DEF Init
  <2>2. CliP!IInv
    BY <2>1, CliP!InitInv, ClientAssumptions
  <2> QED BY <2>2, ClientInvSame
<1>2. /\ gen = [s \in Slots |-> 0] /\ entry = [i \in Ids |-> None] /\ listed = [i \in Ids |-> None]
      /\ num = [c \in Calls |-> 0] /\ rxq = [s \in Slots |-> <<>>] /\ at = [c \in Calls |-> "idle"]
      /\ phase = [s \in Slots |-> "absent"]
  BY DEF Init, Cli!Init, Cli!SocketInit
<1>3. Registered
  <2>1. gen \in [Slots -> 0..MaxGen]
    BY <1>2, GatewayAssumption
  <2>2. \A s \in Slots : phase[s] \notin Cli!Receiving
    BY <1>2 DEF Cli!Receiving
  <2>3. \A s \in Slots : Len(rxq[s]) = 0
    BY <1>2
  <2> QED BY <1>2, <2>1, <2>2, <2>3 DEF Registered
<1>4. Numbered
  BY <1>2 DEF Numbered
<1>5. Told
  <2>1. /\ busQ = <<>> /\ chan = [c \in Calls |-> [st |-> "none", of |-> None]]
        /\ reply = [c \in Calls |-> [code |-> 0, of |-> None]]
        /\ resp = [c \in Calls |-> [st |-> "none", of |-> None]]
    BY DEF Init, Cli!Init, Cli!SocketInit, Cli!NoResp
  <2> QED BY <2>1 DEF Told
<1>6. Srv!Init
  <2>1. QState = [q \in Queues |-> "new"]
    <3>1. \A q \in Queues : q[2] > gen[q[1]] /\ ~Working(q)
      BY <1>2, QueueIs DEF Working, Cli!Receiving
    <3>2. ASSUME NEW q \in Queues
          PROVE  (CASE q[2] > gen[q[1]] -> "new"
                    [] Working(q) -> IF InTable(q) THEN "open" ELSE "leaving"
                    [] OTHER -> IF InTable(q) THEN "dead" ELSE "closed") = "new"
      BY <3>1
    <3> QED BY <3>2 DEF QState
  <2>2. SvcQ = [q \in Queues |-> <<>>]
    <3>1. \A q \in Queues : ~Working(q)
      BY <1>2, QueueIs DEF Working, Cli!Receiving
    <3> QED BY <3>1 DEF SvcQ
  <2>3. Held = {}
    BY <1>2 DEF Held
  <2> QED BY <2>1, <2>2, <2>3 DEF Init, Srv!Init, Srv!NoCur, Srv!Fresh, Srv!NoReply
<1>7. Srv!IInv
  <2>1. SrvP!Init
    BY <1>6, ServerNextSame
  <2>2. SrvP!IInv
    BY <2>1, SrvP!InitInv, ServerAssumptions
  <2> QED BY <2>2, ServerInvSame
<1> QED BY <1>1, <1>3, <1>4, <1>5, <1>6, <1>7 DEF IInv

LEMMA StutterMeans ==
    ASSUME UNCHANGED vars
    PROVE  /\ UNCHANGED Cli!vars /\ UNCHANGED Srv!vars
           /\ (Registered => Registered') /\ (Numbered => Numbered') /\ (Told => Told')
<1>1. UNCHANGED cliVars /\ UNCHANGED <<srvVars, busQ>>
  BY DEF vars
<1>2. ClientStill /\ UNCHANGED Cli!vars /\ (Registered => Registered')
  BY <1>1, StillMeans
<1>3. UNCHANGED <<loop, epoch, table, cur, pending, sent, httpQ, call, conn, chan, reply, announced, busQ,
                  phase, rxq, at, on, resp, gen, num, entry, answer>>
  BY <1>1 DEF srvVars, cliVars
<1>4. QState' = QState
  BY <1>3 DEF QState, Working, InTable
<1>5. SvcQ' = SvcQ
  BY <1>3 DEF SvcQ, Working, Sent, Waiting, HasControl
<1>6. Held' = Held
  BY <1>3 DEF Held, Sent
<1>7. UNCHANGED Srv!vars
  BY <1>3, <1>4, <1>5, <1>6 DEF Srv!vars, Srv!loopVars, Srv!callVars, Srv!svcVars
<1>8. Numbered => Numbered'
  BY <1>3 DEF Numbered
<1>9. Told => Told'
  BY <1>3 DEF Told, ErrorOf
<1> QED BY <1>2, <1>7, <1>8, <1>9

LEMMA NextInv == ASSUME IInv, [Next]_vars PROVE IInv' /\ [Srv!Next]_(Srv!vars)
<1>1. CASE UNCHANGED vars
  <2>1. Registered' /\ Numbered' /\ Told' /\ [Srv!Next]_(Srv!vars) /\ [Cli!Next]_(Cli!vars)
    BY <1>1, StutterMeans DEF IInv
  <2> QED BY <2>1, ClientNextInv, ServerNextInv DEF IInv
<1>2. CASE ClientNext \/ ClientFaults
  <2>1. /\ SocketStep \/ ProcessorStep
        /\ UNCHANGED <<srvVars, num>> /\ Entries /\ Reports
        /\ Cli!Next
    BY <1>2, ClientMove
  <2>2. Cli!IInv'
    BY <2>1, ClientNextInv DEF IInv
  <2>3. [Srv!Next]_(Srv!vars)
    BY <2>1, <2>2, ClientStep DEF IInv
  <2>4. Registered' /\ Numbered' /\ Told'
    BY <2>1, <2>2, RegisteredStep, NumberedStep, ToldStep DEF IInv
  <2> QED BY <2>2, <2>3, <2>4, ServerNextInv DEF IInv
<1>3. CASE ServerPart /\ UNCHANGED cliVars
  <2>1. Srv!Next /\ UNCHANGED Cli!vars
    BY <1>3, PartIsNext, StillMeans
  <2> QED BY <1>3, <2>1, ServerPartInv, ClientNextInv, ServerNextInv DEF IInv
<1>4. CASE SendDone
  <2>1. Srv!Next /\ Cli!Next /\ Registered' /\ Numbered' /\ Told'
    BY <1>4, SendDoneMove
  <2> QED BY <2>1, ClientNextInv, ServerNextInv DEF IInv
<1> QED BY <1>1, <1>2, <1>3, <1>4, ServerMove DEF Next

-----------------------------------------------------------------------------
\* The invariant: each side keeps its own next to the other, each queue that main lists is a
\* registration of a socket, each call at a socket is the request the server made of it, and
\* what the server says of a call is what the client answered.
THEOREM Invariance == Safety => []IInv
<1>1. Init => IInv
  BY InitInv
<1>2. IInv /\ [Next]_vars => IInv'
  BY NextInv
<1> QED BY <1>1, <1>2, PTL DEF Safety

\* A server in front of this client is a HyperServer: the sockets register, leave, die and
\* answer as its environment, so that its theorems hold of the gateway.
THEOREM GatewayIsServer == Safety => ServerHolds
<1>1. Init => Srv!Init
  BY InitInv
<1>2. IInv /\ [Next]_vars => [Srv!Next]_(Srv!vars)
  BY NextInv
<1> QED BY <1>1, <1>2, Invariance, PTL DEF Safety, ServerHolds, Srv!Safety

LEMMA InvTellsOutcome == IInv => StatusTellsOutcome
<1> SUFFICES ASSUME IInv, NEW c \in Calls
             PROVE  /\ reply[c].of # None => reply[c].of = c /\ resp[c] = [st |-> "whole", of |-> c]
                    /\ reply[c].code = 502 => on[c] # None /\ resp[c].st # "whole"
                    /\ chan[c].st = "UnableToReachService" => resp[c].st = "none"
  BY DEF StatusTellsOutcome
<1>1. CallTold(c)
  BY ToldParts DEF IInv
<1>2. reply[c].of \in {c, None}
  BY DEF IInv, Srv!IInv, Srv!Origin
<1>3. answer[c].code = "response" => resp[c] = [st |-> "whole", of |-> c]
  <2>1. resp[c] \in [st: {"none", "due", "whole", "partial"}, of: Calls \cup {None}]
    BY DEF IInv, Cli!IInv, Cli!TypeOK, Cli!SocketTypeOK
  <2>2. answer[c].code = "response" => resp[c].st = "whole" /\ resp[c].of = c
    BY DEF IInv, Cli!IInv, Cli!Sourced
  <2> QED BY <2>1, <2>2
<1>4. answer[c].code = "ServiceError" => on[c] # None
  <2>1. answer[c].code = "ServiceError" => at[c] = "answered"
    BY DEF IInv, Cli!IInv, Cli!OneHolder
  <2>2. at[c] = "answered" => on[c] \in Slots
    BY DEF IInv, Numbered
  <2> QED BY <2>1, <2>2, GatewayAssumption
<1>5. at[c] = "idle" \/ answer[c].code = "UnableToReachService" => resp[c].st = "none"
  BY DEF IInv, Cli!IInv, Cli!Sourced, Cli!NoResp
<1> QED BY <1>1, <1>2, <1>3, <1>4, <1>5 DEF CallTold

\* A status never says more than is true: data is the backend's whole response to this very
\* call, a 502 call had a socket and no whole response, and a call told "Can't reach service"
\* was never written to a backend.
THEOREM OutcomeIsTold == Safety => []StatusTellsOutcome
BY Invariance, InvTellsOutcome, PTL

-----------------------------------------------------------------------------
\* What the theorems of either side say of the gateway.

\* Behind this server a call at the client has one holder, a connection of HTTP/1.1 one request
\* at a time, an answer its own data, and no socket outlives its processor.
THEOREM ClientInvariants ==
    Safety => [](Cli!OneHolder /\ Cli!NoPipelining /\ Cli!OwnResponse /\ Cli!NoOrphans)
<1>1. IInv => Cli!OneHolder /\ Cli!NoPipelining /\ Cli!NoOrphans
  BY DEF IInv, Cli!IInv
<1>2. IInv => Cli!OwnResponse
  BY DEF IInv, Cli!IInv, Cli!Sourced, Cli!OwnResponse
<1> QED BY <1>1, <1>2, Invariance, PTL

\* In front of this client, whatever becomes of its sockets: every open oneshot has one owner,
\* no response carries another call's data, no call is handed to a socket twice, no call waits
\* for a run that is gone, and 202, 502 and 504 are only given to calls that a socket got.
THEOREM ServerInvariants ==
    Safety => [](Srv!OneOwner /\ Srv!OwnData /\ Srv!ForwardedOnce /\ Srv!RestartSettles /\ Srv!GatewayCodes)
<1>1. IInv => Srv!OneOwner /\ Srv!ForwardedOnce
  BY DEF IInv, Srv!IInv
<1>2. IInv => Srv!OwnData /\ Srv!GatewayCodes
  BY DEF IInv, Srv!IInv, Srv!Origin, Srv!OwnData, Srv!GatewayCodes
<1>3. IInv => Srv!RestartSettles
  BY DEF IInv, Srv!IInv, Srv!OneOwner, Srv!Current, Srv!RestartSettles
<1> QED BY <1>1, <1>2, <1>3, Invariance, PTL

\* A oneshot that is settled stays as it is, however late or often the client answers.
THEOREM FirstAnswerCounts == Safety => Srv!SettledOnce
<1>1. IInv /\ [Next]_vars
         => [\A c \in Calls : chan[c].st \notin {"none", "open"} => chan'[c] = chan[c]]_(Srv!vars)
  <2> SUFFICES ASSUME IInv, [Next]_vars, NEW c \in Calls, chan[c].st \notin {"none", "open"}
               PROVE  chan'[c] = chan[c]
    OBVIOUS
  <2>1. Srv!IInv /\ [Srv!Next]_(Srv!vars)
    BY NextInv DEF IInv
  <2>2. SrvP!IInv /\ [SrvP!Next]_(SrvP!vars)
    BY <2>1, ServerInvSame, ServerNextSame
  <2> QED BY <2>2, SrvP!SettleKeeps, ServerAssumptions
<1> QED BY <1>1, Invariance, PTL DEF Safety, Srv!SettledOnce

\* Towards its HTTP clients the gateway is the abstract exchange.
THEOREM Refinement == Safety => Srv!ImplementsExchange
<1>1. Init => Srv!Exchange!XInit
  BY InitInv DEF Srv!Init, Srv!Exchange!XInit, Srv!Exchange!NoReply, Srv!Phase, Srv!NoReply
<1>2. IInv /\ [Next]_vars => [Srv!Exchange!XNext]_(Srv!Exchange!xvars)
  <2> SUFFICES ASSUME IInv, [Next]_vars PROVE [Srv!Exchange!XNext]_(Srv!Exchange!xvars)
    OBVIOUS
  <2>1. Srv!IInv /\ [Srv!Next]_(Srv!vars)
    BY NextInv DEF IInv
  <2>2. SrvP!IInv /\ [SrvP!Next]_(SrvP!vars)
    BY <2>1, ServerInvSame, ServerNextSame
  <2>3. [SrvP!Exchange!XNext]_<<SrvP!Phase, reply>>
    BY <2>2, SrvP!CallExchange, SrvP!OtherExchange, ServerAssumptions DEF SrvP!Next
  <2> QED BY <2>3 DEF SrvP!Exchange!XNext, Srv!Exchange!XNext, SrvP!Exchange!Begin, Srv!Exchange!Begin,
         SrvP!Exchange!Answer, Srv!Exchange!Answer, SrvP!Exchange!Leave, Srv!Exchange!Leave,
         SrvP!Exchange!Abort, Srv!Exchange!Abort, Srv!Exchange!xvars, SrvP!Phase, Srv!Phase,
         SrvP!Codes, Srv!Codes
<1> QED BY <1>1, <1>2, Invariance, PTL DEF Safety, Srv!ImplementsExchange, Srv!Exchange!XSafety

=============================================================================
