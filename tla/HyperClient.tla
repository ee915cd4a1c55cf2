----------------------------- MODULE HyperClient -----------------------------
(***************************************************************************)
(* The HTTP client processor: HyperClientProc::internal_run over its       *)
(* sockets. It starts min_socket sockets per backend, starts a socket      *)
(* again when its task returns Ok, and stops on main's shutdown; its       *)
(* JoinSet aborts the sockets' tasks when internal_run returns.            *)
(***************************************************************************)
EXTENDS HyperClientSocket

CONSTANTS
    Backend,        \* Slots -> the backend of the socket; {} slots: none is configured
    MaxStarts       \* bound: how often internal_run is started

ASSUME ClientAssumption == MaxStarts \in Nat \ {0}

VARIABLES
    proc,           \* where internal_run is
    starts,         \* how often it was started
    procQ           \* internal_rx_queue

procVars == <<proc, starts, procQ>>
vars == <<sockVars, procVars>>

\* Adaptor and main queue are set up, and every socket is spawned.
Start ==
    /\ proc = "starting"
    /\ Slots # {}
    /\ proc' = "running"
    /\ phase' = [s \in Slots |-> "connecting"]
    /\ UNCHANGED <<proto, link, rxq, cur, wire, ids, mainUp, reqVars, starts, procQ>>

\* A::new or add_proc fails, or there is no backend.
StartFails ==
    /\ proc = "starting"
    /\ proc' = "failed"
    /\ UNCHANGED <<sockVars, starts, procQ>>

EndWith(how, tasks) ==
    /\ DropTasks(tasks, "aborted")
    /\ proc' = how
    /\ UNCHANGED starts

\* Faulty: the tasks are detached.
DetachAll(how) == EndWith(how, {})

\* internal_run ends: the JoinSet is dropped and aborts every task it still has.
AbortAll(how) == EndWith(how, {s \in Slots : phase[s] \in Live})

TakeProc(m) ==
    /\ proc = "running"
    /\ procQ # <<>> /\ Head(procQ) = m
    /\ procQ' = Tail(procQ)

\* self.service is kept and never used.
RecvService ==
    /\ TakeProc("service")
    /\ UNCHANGED <<sockVars, proc, starts>>

\* remove_proc takes the processor's queues and services back, or fails.
RecvShutdown ==
    /\ TakeProc("shutdown")
    /\ IF mainUp
       THEN AbortAll("ended") /\ listed' = [i \in Ids |-> None]
       ELSE AbortAll("failed") /\ UNCHANGED listed
    /\ UNCHANGED mainUp

\* Request, Response and Error are a panic!, Command and Config a todo!().
RecvUnsupported ==
    /\ TakeProc("unsupported")
    /\ AbortAll("ended")
    /\ UNCHANGED <<listed, mainUp>>

\* Faulty: a socket that closed is not started again.
JoinOkForgets(s) ==
    /\ proc = "running" /\ phase[s] = "ended"
    /\ Goto(s, "gone")
    /\ UNCHANGED <<proto, link, rxq, cur, wire, ids, mainUp, reqVars, procVars>>

\* join_next yields the socket of a task that returned Ok: it is started again.
JoinOk(s) ==
    /\ proc = "running" /\ phase[s] = "ended"
    /\ Goto(s, "connecting")
    /\ UNCHANGED <<proto, link, rxq, cur, wire, ids, mainUp, reqVars, procVars>>

\* A task that returned an error is only logged.
JoinErr(s) ==
    /\ proc = "running" /\ phase[s] = "failed"
    /\ Goto(s, "gone")
    /\ UNCHANGED <<proto, link, rxq, cur, wire, ids, mainUp, reqVars, procVars>>

\* The JoinError of a task that panicked ends internal_run.
JoinPanic(s) ==
    /\ proc = "running" /\ phase[s] = "panicked"
    /\ AbortAll("failed")
    /\ UNCHANGED <<listed, mainUp, procQ>>

\* The environment: main restarts a failed processor, and sends it messages.
Restart ==
    /\ proc = "failed" /\ starts < MaxStarts
    /\ proc' = "starting"
    /\ starts' = starts + 1
    /\ phase' = [s \in Slots |-> "absent"]
    /\ UNCHANGED <<proto, link, rxq, cur, wire, ids, mainUp, reqVars, procQ>>

Notify ==
    /\ mainUp /\ procQ = <<>>
    /\ \E m \in {"service", "shutdown", "unsupported"} : procQ' = <<m>>
    /\ UNCHANGED <<sockVars, proc, starts>>

-----------------------------------------------------------------------------
Init ==
    /\ SocketInit
    /\ phase = [s \in Slots |-> "absent"]
    /\ proc = "starting" /\ starts = 1 /\ procQ = <<>>

ProcNext ==
    \/ Start \/ StartFails \/ RecvService \/ RecvShutdown \/ RecvUnsupported
    \/ \E s \in Slots : JoinOk(s) \/ JoinErr(s) \/ JoinPanic(s)

Next ==
    \/ SocketNext /\ UNCHANGED procVars
    \/ ProcNext \/ Restart \/ Notify

Step(A) == A /\ UNCHANGED procVars

\* Tasks are scheduled, select! passes over no ready branch for ever, timers elapse.
\* Backends owe nothing but the rest of a body they began (BodyArrives).
Fairness ==
    /\ \A s \in Slots :
          /\ WF_vars(Step(Serve(s))) /\ WF_vars(Step(LinkBroken(s))) /\ WF_vars(Step(Close(s)))
          /\ WF_vars(Step(Http1Error(s) \/ Http1Timeout(s))) /\ WF_vars(Step(Http1Read(s)))
          /\ WF_vars(Step(Connect(s) \/ ConnectFails(s)))
          /\ WF_vars(Step(AddQueue(s) \/ AddService(s)))
          /\ WF_vars(JoinOk(s)) /\ WF_vars(JoinErr(s)) /\ WF_vars(JoinPanic(s))
    /\ \A r \in Requests :
          /\ WF_vars(Step((H2Error(r) /\ ~Connected(r)) \/ H2Timeout(r))) /\ WF_vars(Step(H2Read(r)))
          /\ WF_vars(Step(BodyArrives(r)))
    /\ WF_vars(RecvService \/ RecvShutdown \/ RecvUnsupported)

Safety == Init /\ [][Next]_vars
Spec   == Safety /\ Fairness

-----------------------------------------------------------------------------
\* Properties.

Running == proc = "running"
Connections(b) == {s \in Slots : Backend[s] = b /\ phase[s] \in Live}

\* Every variable has its type.
TypeOK ==
    /\ SocketTypeOK
    /\ proc \in {"starting", "running", "failed", "ended"}
    /\ starts \in 1..MaxStarts
    /\ procQ \in Seq({"service", "shutdown", "unsupported"})

\* No socket works for a processor that does not run.
NoOrphans == ~Running => \A s \in Slots : phase[s] \notin Live

\* A socket that closed is started again, as long as the processor runs.
Reconnects ==
    \A s \in Slots : phase[s] = "ended" ~> phase[s] = "connecting" \/ ~Running

\* A queue that is full is not full for ever: the senders that wait for it, like the loop of
\* the HTTP server in its send().await, go on. This is what HyperServer's ServicesDrain asks.
QueueMoves == \A s \in Slots : Len(rxq[s]) = QueueCap ~> Len(rxq[s]) < QueueCap

\* "Minimum number of socket connections per target": every backend of a running
\* processor gets its sockets back.
KeepsMinSockets ==
    \A b \in {Backend[s] : s \in Slots} :
        [](Running => <>(~Running \/ Connections(b) = {s \in Slots : Backend[s] = b}))

\* "Timeout for HTTP messages": a request that was sent is answered or dropped.
HttpTimeout ==
    \A r \in Requests : at[r] \in {"sent", "reading"} ~> at[r] \in {"answered", "lost"}

\* "The client exposes a service if it is available": a socket without connection takes
\* its service back.
ExposedIsConnected ==
    \A s \in Slots : s \in Exposed /\ link[s] = "closed" ~> ~(s \in Exposed /\ link[s] = "closed")

\* "Remove the socket queue and wait message to finish": an HTTP/2 socket that was told to
\* shut down does not fail a request that it took, and whose connection is up.
ShutdownWaits ==
    [][\A s \in Slots :
          phase[s] = "dropping" /\ phase'[s] = "ended" /\ link[s] = "up" =>
              \A r \in Streams(s) : via'[r] # "gone"]_vars

-----------------------------------------------------------------------------
\* What the safety properties rest on.

\* The phases in which a task has a connection, and with it a socket_id.
Joined == Receiving \cup {"adding", "exposing"}

\* What a task has, by its phase: the request of an HTTP/1.1 loop (also when its connection
\* broke under it), requests in its queue and on the wire once it was listed, a descriptor
\* as long as it is connected.
TaskHolds ==
    \A s \in Slots :
        /\ phase[s] \in {"sending", "reading"} => cur[s] # None
        /\ cur[s] # None => phase[s] \in {"sending", "reading", "removing", "draining", "dropping"}
        /\ phase[s] \notin Receiving => Queued(s) = {} /\ wire[s] = <<>>
        /\ phase[s] \in Joined => fd[s] \in Ids /\ proto[s] \in Protocols

\* The response that is read for a request is its own, and data on the bus is from it.
Sourced ==
    \A r \in Requests :
        /\ at[r] \in {"idle", "queue"} \/ reply[r].code = "UnableToReachService" => resp[r] = NoResp
        /\ resp[r].st \in {"partial", "whole"} => resp[r].of = r /\ at[r] # "sent"
        /\ reply[r].code = "response" => resp[r].st = "whole"
        /\ reply[r].of = IF reply[r].code = "response" THEN r ELSE None

\* A socket that took its queue back is not listed, and what it leaves unread came after.
TakenBack ==
    \A s \in Slots :
        /\ phase[s] \in {"draining", "dropping"} => s \notin Exposed
        /\ phase[s] = "dropping" => Queued(s) \subseteq stale

\* The inductive invariant behind the safety properties.
IInv == TypeOK /\ OneHolder /\ NoPipelining /\ NoOrphans /\ TaskHolds /\ Sourced /\ TakenBack

\* No two sockets have a descriptor at the same time, so that none is listed in place of
\* another: hyper only closes a descriptor before its task is done for HTTP/2.
OwnDescriptors == "h2" \notin Protocols \/ \A s, t \in Slots : s = t

DescriptorsApart ==
    \A s, t \in Slots : phase[s] \in Joined /\ phase[t] \in Joined /\ fd[s] = fd[t] => s = t
=============================================================================
