---------------------------- MODULE HyperGateway ----------------------------
(***************************************************************************)
(* Both processors on one bus: the HTTP server forwards its calls to the   *)
(* service that the HTTP client exposes. The sockets of the client are the *)
(* queues of the server's environment, one per registration, and an answer *)
(* of the client is a message in the server's queue. Main lists what the   *)
(* sockets registered, also when their task is gone.                       *)
(*                                                                         *)
(* The adaptors are those of the examples. Environment: HTTP clients, the  *)
(* backend, and main.                                                      *)
(***************************************************************************)
EXTENDS HyperAdaptors, Sequences

CONSTANTS
    Calls, HttpCap, ServiceCap, BusCap, MaxEpoch,       \* of HyperServer
    Slots, Ids, Protocols, Split, Backend, MaxStarts,   \* of HyperClient
    Paths,          \* the paths that HTTP clients ask for
    MaxGen,         \* bound: how often a socket registers
    MaxFaults,      \* bound: how many faults the environment makes
    None

\* Each registration of a socket is a queue of its own.
Queues == Slots \X (1..MaxGen)

ASSUME GatewayAssumption ==
    /\ HttpCap \in Nat \ {0} /\ ServiceCap \in Nat \ {0} /\ BusCap \in Nat \ {0}
    /\ MaxEpoch \in Nat \ {0} /\ MaxStarts \in Nat \ {0}
    /\ MaxGen \in Nat \ {0} /\ MaxFaults \in Nat
    /\ Protocols \subseteq {"http1", "h2"} /\ Split \subseteq Protocols
    /\ Calls \cap {"shutdown", "unsupported", "ignored"} = {}
    /\ None \notin Calls \cup Slots \cup Queues \cup Ids
    /\ "gone" \notin Ids \cup {None}

VARIABLES
    loop, epoch, table, cur, pending, sent, httpQ, call, conn, chan, reply, busQ,
    phase, proto, link, rxq, msg, wire, fd, listed, mainUp, at, on, resp, via, stale, answer,
    proc, starts, procQ,
    gen,            \* Slots -> how often the socket registered
    num,            \* Calls -> the id of the request message that the socket got for the call
    entry,          \* Ids -> the registration that main lists: <<slot, gen>>
    announced,      \* the last service table that main sent
    faults          \* how many faults there were

Service == "SRV_TEST"

\* The client: its processor, with msg and answer for its cur and reply.
Cli == INSTANCE HyperClient WITH
    Requests <- Calls, QueueCap <- ServiceCap, MainMayStop <- FALSE, cur <- msg, reply <- answer

cliVars == <<phase, proto, link, rxq, msg, wire, fd, listed, mainUp, at, on, resp, via, stale,
             answer, proc, starts, procQ, gen, num, entry>>

-----------------------------------------------------------------------------
\* The client's sockets as the services of HyperServer's environment.

Sent(c) == [id |-> num[c], call |-> c]

Working(q) == q[2] = gen[q[1]] /\ phase[q[1]] \in Cli!Receiving
InTable(q) == \E i \in Ids : entry[i] = q

QState ==
    [q \in Queues |->
        CASE q[2] > gen[q[1]] -> "new"
          [] Working(q) -> IF InTable(q) THEN "open" ELSE "leaving"
          [] OTHER -> IF InTable(q) THEN "dead" ELSE "closed"]

\* The calls in a queue, which also holds a control message of main now and then.
HasControl(w) == \E i \in 1..Len(w) : w[i] \in Cli!Controls
Waiting(w) ==
    [i \in 1..(IF HasControl(w) THEN Len(w) - 1 ELSE Len(w)) |->
        IF \E j \in 1..i : w[j] \in Cli!Controls THEN w[i + 1] ELSE w[i]]

SvcQ ==
    [q \in Queues |->
        LET waiting == Waiting(rxq[q[1]])
        IN  IF Working(q) THEN [i \in 1..Len(waiting) |-> Sent(waiting[i])] ELSE <<>>]

Held == {Sent(c) : c \in {c \in Calls : at[c] \in {"sent", "reading"}}}

Srv == INSTANCE HyperServer WITH
    Services <- {Service}, Target <- [c \in Calls |-> Service], Serves <- [q \in Queues |-> Service],
    Errors <- {"ProtocolError", "Timeout", "UnableToReachService"},
    qstate <- QState, svcQ <- SvcQ, held <- Held

srvVars == <<loop, epoch, table, cur, pending, sent, httpQ, call, conn, chan, reply, announced>>
vars    == <<srvVars, busQ, cliVars, faults>>

-----------------------------------------------------------------------------
\* The server's steps. Its sends reach the socket as they are done.

Alone(A) == UNCHANGED cliVars /\ A

\* The demo adaptor of the server decides what becomes of an HTTP request.
Request(c) ==
    \E path \in Paths :
        LET r == DemoServer("GET", path)
        IN  IF r.kind = "SrvReq"
            THEN Srv!BeginCall(c)
            ELSE Srv!DirectCall(c) /\ call'[c] = IF r.kind = "HttpResp" THEN "answered" ELSE "aborted"

ServiceFuture(c) == Srv!Enqueue(c) \/ Srv!EnqueueClosed(c) \/ Srv!FinishCall(c)

\* Its handler always builds a response (see DemoServer).
Handled == \A c \in Calls : call[c] = "waiting" => call'[c] # "aborted"

FromBus == Srv!RecvResponse \/ Srv!RecvError \/ Srv!RecvService \/ Srv!RecvShutdown \/ Srv!RecvUnsupported
FromHttp == Srv!ForwardHttp \/ Srv!RejectHttp

SendDone ==
    /\ \E s \in Slots : cur.queue = <<s, gen[s]>> /\ Cli!Step(Cli!Deliver(s, cur.call))
    /\ num' = [num EXCEPT ![cur.call] = cur.id]
    /\ UNCHANGED <<gen, entry>>
    /\ Srv!SendDone

ServerNext ==
    \/ Alone(\E c \in Calls : Request(c) \/ (ServiceFuture(c) /\ Handled))
    \/ Alone(Srv!Start \/ FromBus \/ FromHttp \/ Srv!SendFails \/ Srv!Expire \/ Srv!Restart)
    \/ SendDone \/ Alone(Srv!Push)
    \/ Alone(Srv!Announce)

ServerFaults ==
    Alone(Srv!BusControl \/ Srv!AcceptFails \/ Srv!StartFails \/ \E c \in Calls : Srv!Disconnect(c))

-----------------------------------------------------------------------------
\* The client's steps.

\* A socket registers: main lists its new queue under its id.
Registers(s) == phase[s] = "exposing" /\ phase'[s] = "idle"

Entries ==
    /\ gen' = [s \in Slots |-> IF Registers(s) THEN gen[s] + 1 ELSE gen[s]]
    /\ \A s \in Slots : gen'[s] <= MaxGen
    /\ entry' = [i \in Ids |->
           IF listed'[i] = None THEN None
           ELSE IF Registers(listed'[i]) /\ fd'[listed'[i]] = i
                THEN <<listed'[i], gen'[listed'[i]]>> ELSE entry[i]]

Answered(r) == answer[r].code = "none" /\ answer'[r].code # "none"

\* What the demo adaptor of the client makes of a request, of a transport error, of a response.
Adapted(r) ==
    CASE at[r] = "queue" -> DemoRequest(DemoServer("GET", "/test").msg)
      [] at[r] = "sent" -> DemoResponse(Err("hyper"))
      [] OTHER -> DemoResponse(Ok(200))

\* Faulty: what the transport did not deliver is called unreachable.
ErrorUnreachable(code) == IF code = "Timeout" THEN "Timeout" ELSE "UnableToReachService"

\* The service error of an answer without data.
ErrorOf(code) == IF code = "ServiceError" THEN DemoResponse(Err("hyper")).val ELSE code

Message(r, a) ==
    LET id == Sent(r).id
    IN  IF a.code = "response"
        THEN [kind |-> "response", id |-> id, of |-> a.of]
        ELSE [kind |-> "error", id |-> id, err |-> ErrorOf(a.code)]

\* An answer goes to the server's queue, or is lost: the result of the send is ignored.
Reports ==
    IF \E r \in Calls : Answered(r)
    THEN \E r \in Calls :
           /\ Answered(r)
           /\ answer'[r].code = "ServiceError" => ~Adapted(r).ok
           /\ \/ Srv!BusSend(Message(r, answer'[r]))
              \/ (Len(busQ) = BusCap \/ loop = "ended") /\ UNCHANGED busQ
    ELSE UNCHANGED busQ

\* A is a step of the client's processor, B one of its sockets or streams.
ProcStep(A) == A /\ UNCHANGED <<srvVars, num>> /\ Entries /\ Reports
TaskStep(B) == ProcStep(Cli!Step(B))

ClientNext ==
    \/ \E s \in Slots : TaskStep(Cli!TaskNext(s))
    \/ \E r \in Calls : TaskStep(Cli!StreamNext(r) \/ Cli!BodyArrives(r))
    \/ ProcStep(Cli!Restart)
    \/ ProcStep(Cli!Start \/ Cli!RecvService \/ Cli!RecvShutdown \/ Cli!RecvUnsupported)
    \/ \E s \in Slots : ProcStep(Cli!JoinOk(s) \/ Cli!JoinErr(s) \/ Cli!JoinPanic(s))

ClientFaults ==
    \/ \E s \in Slots : TaskStep(Cli!Control(s) \/ Cli!LinkEnds(s))
    \/ \E i \in Ids : TaskStep(Cli!LeftEnds(i))
    \/ ProcStep(Cli!Notify \/ Cli!StartFails)

-----------------------------------------------------------------------------
Init ==
    /\ Cli!Init
    /\ gen = [s \in Slots |-> 0]
    /\ num = [c \in Calls |-> 0]
    /\ entry = [i \in Ids |-> None]
    /\ faults = 0
    /\ loop = "starting" /\ epoch = 0
    /\ table = {} /\ cur = [id |-> 0, call |-> None, queue |-> None]
    /\ pending = {} /\ sent = <<>> /\ httpQ = <<>> /\ busQ = <<>> /\ announced = {}
    /\ call = [c \in Calls |-> "idle"]
    /\ conn = [c \in Calls |-> 0]
    /\ chan = [c \in Calls |-> [st |-> "none", of |-> None]]
    /\ reply = [c \in Calls |-> [code |-> 0, of |-> None]]

Next ==
    \/ (ServerNext \/ ClientNext) /\ UNCHANGED faults
    \/ faults < MaxFaults /\ (ServerFaults \/ ClientFaults) /\ faults' = faults + 1

Safety == Init /\ [][Next]_vars

-----------------------------------------------------------------------------
\* Properties.

\* The sockets are services as HyperServer assumes them: each step of the gateway is a step
\* of HyperServer, whose theorems thereby hold of a server in front of this client.
ServerHolds == Srv!Safety

\* The status tells the HTTP client what became of its request: data, that it is the whole
\* response of the backend to this very request; 502, that a socket got the request and had no
\* whole response to it (whether the backend got the request it does not tell); "Can't reach
\* service", that the request was never written to a backend, so that it may be sent again.
StatusTellsOutcome ==
    \A c \in Calls :
        /\ reply[c].of # None => reply[c].of = c /\ resp[c] = [st |-> "whole", of |-> c]
        /\ reply[c].code = 502 => on[c] # None /\ resp[c].st # "whole"
        /\ chan[c].st = "UnableToReachService" => resp[c].st = "none"

-----------------------------------------------------------------------------
\* What the properties rest on.

\* The registrations: those of a socket that receives began, main lists none that is to come.
Registered ==
    /\ gen \in [Slots -> 0..MaxGen]
    /\ \A s \in Slots : phase[s] \in Cli!Receiving => gen[s] > 0
    /\ \A i \in Ids : listed[i] = None => entry[i] = None
    /\ entry \in [Ids -> Queues \cup {None}]
    /\ \A i \in Ids : entry[i] # None => entry[i][2] <= gen[entry[i][1]]
    /\ \A s \in Slots : \A i, j \in 1..Len(rxq[s]) :
          {rxq[s][i], rxq[s][j]} \subseteq Cli!Controls => i = j

\* What a socket got is the request that the server made for the call.
Numbered ==
    /\ num \in [Calls -> Nat]
    /\ \A c \in Calls : at[c] # "idle" =>
          num[c] \in 1..Len(sent) /\ sent[num[c]] = c /\ on[c] \in Slots

\* What the bus, the call's oneshot and the HTTP response say is what the client answered.
Told ==
    /\ \A i \in 1..Len(busQ) :
          /\ busQ[i].kind = "response" /\ busQ[i].of # None => answer[busQ[i].of].code = "response"
          /\ busQ[i].kind = "error" =>
                \E c \in Calls : /\ at[c] # "idle" /\ busQ[i].id = num[c]
                                 /\ answer[c].code \in Cli!AnswerKinds /\ busQ[i].err = ErrorOf(answer[c].code)
    /\ \A c \in Calls :
          /\ answer[c].code = "ServiceError" => resp[c].st # "whole"
          /\ chan[c].of # None \/ reply[c].of # None => answer[c].code = "response"
          /\ chan[c].st = "ProtocolError" \/ reply[c].code = 502 => answer[c].code = "ServiceError"
          /\ chan[c].st = "UnableToReachService" =>
                at[c] = "idle" \/ answer[c].code = "UnableToReachService"

\* The inductive invariant: that of each side, and how they belong together.
IInv == Cli!IInv /\ Srv!IInv /\ Registered /\ Numbered /\ Told
=============================================================================
