-------------------------- MODULE HyperClientSocket --------------------------
(***************************************************************************)
(* The socket tasks of the HTTP client: HyperClientSocket::spawn,          *)
(* spawn_http1 and spawn_h2. A task connects, registers a queue and the    *)
(* service at main, and serves the requests of its queue over its          *)
(* connection: HTTP/1.1 one at a time in the task itself, HTTP/2 in one    *)
(* spawned task per request.                                               *)
(*                                                                         *)
(* An HTTP/1.1 connection is the future that the task polls. For HTTP/2    *)
(* that future only hands requests to the connection, which hyper runs in  *)
(* a task of its own: it outlives the socket's task, with its descriptor,  *)
(* as long as requests are on it.                                          *)
(*                                                                         *)
(* Environment: the processors that call the service, main, and the        *)
(* backend behind hyper's connection future.                               *)
(***************************************************************************)
EXTENDS Naturals, Sequences

CONSTANTS
    Slots,          \* the sockets: one per backend and index below min_socket
    Ids,            \* file descriptors, at least one per socket
    Requests,       \* the service requests
    Protocols,      \* what a connection may negotiate (ALPN)
    Split,          \* the protocols over which a body may come after its head
    QueueCap,       \* capacity of a socket's queue (2048)
    MainMayStop,    \* whether main may stop under its processors
    None

Controls == {"shutdown", "unsupported", "ignored"}

ASSUME SocketAssumption ==
    /\ Protocols \subseteq {"http1", "h2"}
    /\ Split \subseteq Protocols
    /\ QueueCap \in Nat \ {0}
    /\ MainMayStop \in BOOLEAN
    /\ Requests \cap Controls = {}
    /\ None \notin Requests \cup Slots \cup Ids
    /\ "gone" \notin Ids \cup {None}

VARIABLES
    phase,          \* Slots -> where the task is
    proto,          \* Slots -> the negotiated protocol
    link,           \* Slots -> the connection: up, closed (its future is Ok) or broken (Err)
    rxq,            \* Slots -> rx_queue
    cur,            \* Slots -> HTTP/1.1: the request of msg_to_send, until it is answered
    wire,           \* Slots -> HTTP/1.1: requests written and not yet answered by the backend
    fd,             \* Slots -> the file descriptor of the connection, which is the socket_id
    listed,         \* Ids -> the slot whose queue and service main has registered under it
    mainUp,         \* main still receives
    at,             \* Requests -> where the request is
    on,             \* Requests -> the slot that got it
    resp,           \* Requests -> the HTTP response, due once the request is written: [st, of]
    via,            \* Requests -> HTTP/2: None (its socket's connection), the descriptor of one
                    \* that its socket left, or gone
    stale,          \* requests sent to a queue that main no longer lists
    reply           \* Requests -> the answer on the bus: [code, of]

ids      == <<fd, listed>>
taskVars == <<phase, proto, link, rxq, cur, wire, ids>>
reqVars  == <<at, on, resp, via, stale, reply>>
sockVars == <<taskVars, mainUp, reqVars>>

NoReply == [code |-> "none", of |-> None]
NoResp  == [st |-> "none", of |-> None]

\* The phases in which main may list rx_queue for its service.
Receiving == {"idle", "sending", "reading", "removing", "draining", "dropping"}
Live == Receiving \cup {"connecting", "adding", "exposing"}

\* The slots whose queue main lists (an entry of listed may also be left from a dead task).
Exposed == {s \in Slots : phase[s] \in Receiving /\ listed[fd[s]] = s}

Queued(s) == {r \in Requests : \E i \in 1..Len(rxq[s]) : rxq[s][i] = r}
Held(s) == Queued(s) \cup ({cur[s]} \ {None})
Streams(s) == {r \in Requests : at[r] \in {"sent", "reading"} /\ on[r] = s /\ cur[s] # r /\ via[r] = None}

Written(r) == resp[r].st # "none"

Goto(s, p) == phase' = [phase EXCEPT ![s] = p]

\* How much of the response body comes with its head.
Bodies(p) == IF p \in Split THEN {"whole", "partial"} ELSE {"whole"}

\* return_to_sender or return_error_to_sender consumes the message.
Settle(r, code, data) ==
    /\ at' = [at EXCEPT ![r] = "answered"]
    /\ reply' = [reply EXCEPT ![r] = [code |-> code, of |-> data]]

\* Sockets let go of their connections: hyper goes on with the HTTP/2 requests it wrote, and
\* fails those it did not get to.
LetGo(sockets) ==
    via' = [r \in Requests |->
        IF on[r] \in sockets /\ r \in Streams(on[r])
        THEN IF link[on[r]] = "up" /\ Written(r) THEN fd[on[r]] ELSE "gone"
        ELSE via[r]]

\* Dropping tasks drops their queue and message, and with HTTP/1.1 their connection. Requests
\* that were spawned as tasks of their own (HTTP/2) live on.
DropTasks(tasks, how) ==
    /\ phase' = [s \in Slots |-> IF s \in tasks THEN how ELSE phase[s]]
    /\ rxq' = [s \in Slots |-> IF s \in tasks THEN <<>> ELSE rxq[s]]
    /\ cur' = [s \in Slots |-> IF s \in tasks THEN None ELSE cur[s]]
    /\ wire' = [s \in Slots |-> IF s \in tasks THEN <<>> ELSE wire[s]]
    /\ link' = [s \in Slots |-> IF s \in tasks THEN "none" ELSE link[s]]
    /\ at' = [r \in Requests |-> IF \E s \in tasks : r \in Held(s) THEN "lost" ELSE at[r]]
    /\ LetGo(tasks)
    /\ fd' = [s \in Slots |-> IF s \in tasks THEN None ELSE fd[s]]
    /\ UNCHANGED <<proto, on, resp, stale, reply>>

-----------------------------------------------------------------------------
\* Connecting and registering.

\* The descriptor is in use. That of an HTTP/2 connection is closed by the task hyper
\* spawned for it, as soon as the connection ends, and not before.
Opened(s, i) == fd[s] = i /\ ~(proto[s] = "h2" /\ link[s] \in {"closed", "broken"})
LeftOpen(i) == \E r \in Requests : via[r] = i

\* TargetSetting::connect and the handshake, both under connect_timeout.
Connect(s) ==
    /\ phase[s] = "connecting"
    /\ Goto(s, "adding")
    /\ \E p \in Protocols : proto' = [proto EXCEPT ![s] = p]
    /\ \E i \in Ids : ~LeftOpen(i) /\ (\A t \in Slots : ~Opened(t, i)) /\ fd' = [fd EXCEPT ![s] = i]
    /\ link' = [link EXCEPT ![s] = "up"]
    /\ UNCHANGED <<rxq, cur, wire, listed, mainUp, reqVars>>

ConnectFails(s) ==
    /\ phase[s] = "connecting"
    /\ DropTasks({s}, "failed")
    /\ UNCHANGED <<listed, mainUp>>

\* add_proc_queue: a queue that main has under the same socket_id is replaced.
AddQueue(s) ==
    /\ phase[s] = "adding" /\ mainUp
    /\ Goto(s, "exposing")
    /\ listed' = [listed EXCEPT ![fd[s]] = None]
    /\ UNCHANGED <<proto, link, rxq, cur, wire, fd, mainUp, reqVars>>

AddService(s) ==
    /\ phase[s] = "exposing" /\ mainUp
    /\ Goto(s, "idle")
    /\ listed' = [listed EXCEPT ![fd[s]] = s]
    /\ UNCHANGED <<proto, link, rxq, cur, wire, fd, mainUp, reqVars>>

\* Without main, what the task asks of it fails and ends the task with the error.
BusFails(s) ==
    /\ phase[s] \in {"adding", "exposing", "removing"} /\ ~mainUp
    /\ DropTasks({s}, "failed")
    /\ UNCHANGED <<listed, mainUp>>

-----------------------------------------------------------------------------
\* The loop: what both protocols do with their queue.

HeadIs(s, m) == phase[s] = "idle" /\ rxq[s] # <<>> /\ m = Head(rxq[s])

\* Faulty: the message is worked on and stays in the queue.
PeekHead(s, m) == HeadIs(s, m) /\ UNCHANGED rxq

TakeHead(s, m) == HeadIs(s, m) /\ rxq' = [rxq EXCEPT ![s] = Tail(@)]

\* The adaptor's process_srv_request (HTTP/2: in the spawned task) fails.
TakeRefused(s, r) ==
    /\ TakeHead(s, r)
    /\ Settle(r, "ServiceError", None)
    /\ UNCHANGED <<phase, proto, link, cur, wire, ids, mainUp, on, resp, via, stale>>

TakeHttp1(s, r) ==
    /\ proto[s] = "http1"
    /\ TakeHead(s, r)
    /\ Goto(s, "sending")
    /\ cur' = [cur EXCEPT ![s] = r]
    /\ at' = [at EXCEPT ![r] = "sent"]
    /\ UNCHANGED <<proto, link, wire, ids, mainUp, on, resp, via, stale, reply>>

TakeH2(s, r) ==
    /\ proto[s] = "h2"
    /\ TakeHead(s, r)
    /\ at' = [at EXCEPT ![r] = "sent"]
    /\ UNCHANGED <<phase, proto, link, cur, wire, ids, mainUp, on, resp, via, stale, reply>>

\* Command, Config and Service have no effect.
TakeIgnored(s) ==
    /\ TakeHead(s, "ignored")
    /\ UNCHANGED <<phase, proto, link, cur, wire, ids, mainUp, reqVars>>

\* Response and Error are a panic! of the task.
TakeUnsupported(s) ==
    /\ HeadIs(s, "unsupported")
    /\ DropTasks({s}, "panicked")
    /\ UNCHANGED <<listed, mainUp>>

TakeShutdown(s) ==
    /\ TakeHead(s, "shutdown")
    /\ Goto(s, "removing")
    /\ UNCHANGED <<proto, link, cur, wire, ids, mainUp, reqVars>>

\* Err(_) = &mut connection. A connection that ends with Ok does not match: the branch
\* is off, and the loop goes on without a connection.
LinkBroken(s) ==
    /\ phase[s] \in {"idle", "sending"}
    /\ link[s] = "broken"
    /\ Goto(s, "removing")
    /\ UNCHANGED <<proto, link, rxq, cur, wire, ids, mainUp, reqVars>>

\* Once main is gone, or has another queue under the socket_id, all senders may be gone and
\* recv() yields None: with the connection closed too, select! has no branch left and panics.
NoBranchLeft(s) ==
    /\ phase[s] = "idle" /\ rxq[s] = <<>>
    /\ ~mainUp \/ s \notin Exposed
    /\ link[s] = "closed"
    /\ DropTasks({s}, "panicked")
    /\ UNCHANGED <<listed, mainUp>>

-----------------------------------------------------------------------------
\* HTTP/1.1: the request in the loop's hands.

\* The connection, polled in the select!, writes what send_request gave it.
Http1Write(s) ==
    /\ phase[s] = "sending" /\ link[s] = "up"
    /\ ~Written(cur[s])
    /\ wire' = [wire EXCEPT ![s] = Append(@, cur[s])]
    /\ resp' = [resp EXCEPT ![cur[s]].st = "due"]
    /\ UNCHANGED <<phase, proto, link, rxq, cur, ids, mainUp, at, on, via, stale, reply>>

\* The head of the response that the backend gives to the oldest request it has.
Http1Response(s) ==
    /\ phase[s] = "sending" /\ link[s] = "up"
    /\ wire[s] # <<>> /\ resp[cur[s]].st = "due"
    /\ \E b \in Bodies("http1") : resp' = [resp EXCEPT ![cur[s]] = [st |-> b, of |-> Head(wire[s])]]
    /\ wire' = [wire EXCEPT ![s] = Tail(@)]
    /\ at' = [at EXCEPT ![cur[s]] = "reading"]
    /\ Goto(s, "reading")
    /\ UNCHANGED <<proto, link, rxq, cur, ids, mainUp, on, via, stale, reply>>

\* send_request fails as the connection ended, or, as the code does not wait for ready(), on a
\* connection that is up and was not polled to its end since the last response.
Http1Fails(s) == phase[s] = "sending" /\ (link[s] = "up" => ~Written(cur[s]))

\* process_http_response gets the error.
Http1Error(s) ==
    /\ Http1Fails(s)
    /\ Settle(cur[s], "ServiceError", None)
    /\ cur' = [cur EXCEPT ![s] = None]
    /\ wire' = [wire EXCEPT ![s] = <<>>]
    /\ Goto(s, "idle")
    /\ UNCHANGED <<proto, link, rxq, ids, mainUp, on, resp, via, stale>>

Http1TimeoutTo(s, next) ==
    /\ phase[s] = "sending"
    /\ Settle(cur[s], "Timeout", None)
    /\ cur' = [cur EXCEPT ![s] = None]
    /\ Goto(s, next)
    /\ UNCHANGED <<proto, link, rxq, wire, ids, mainUp, on, resp, via, stale>>

\* Faulty: the connection is kept after a timeout.
Http1TimeoutKeeps(s) == Http1TimeoutTo(s, "idle")

\* Faulty: the timer is only looked at once the connection has something to say.
Http1TimeoutUnarmed(s) == link[s] # "up" /\ Http1TimeoutTo(s, "removing")

\* "Need to drop the connection because it's HTTP1".
Http1Timeout(s) == Http1TimeoutTo(s, "removing")

\* process_http_response(response).await returns once it has the whole body.
Http1Read(s) ==
    /\ phase[s] = "reading"
    /\ resp[cur[s]].st = "whole"
    /\ \/ Settle(cur[s], "response", resp[cur[s]].of)
       \/ Settle(cur[s], "ServiceError", None)
    /\ cur' = [cur EXCEPT ![s] = None]
    /\ Goto(s, "idle")
    /\ UNCHANGED <<proto, link, rxq, wire, ids, mainUp, on, resp, via, stale>>

\* The adaptor panics, and takes the socket's task with it.
Http1Panics(s) ==
    /\ proto[s] = "http1"
    /\ (\E r \in Requests : HeadIs(s, r)) \/ Http1Fails(s) \/ phase[s] = "reading"
    /\ DropTasks({s}, "panicked")
    /\ UNCHANGED <<listed, mainUp>>

-----------------------------------------------------------------------------
\* HTTP/2: the spawned task of one request.

Stream(r) == on[r] # None /\ cur[on[r]] # r
Connected(r) == IF via[r] = None THEN link[on[r]] = "up" ELSE via[r] # "gone"

\* A connection moves while its task polls it, in one of the two select!; that of HTTP/2
\* in hyper's task, which gets new requests only from the future in the select!.
Polled(s) == phase[s] \in {"idle", "sending"}

\* The future in the select! hands the request to hyper's task, which writes it.
H2Write(r) ==
    /\ at[r] = "sent" /\ Stream(r) /\ ~Written(r)
    /\ via[r] = None /\ link[on[r]] = "up" /\ Polled(on[r])
    /\ resp' = [resp EXCEPT ![r].st = "due"]
    /\ UNCHANGED <<taskVars, mainUp, at, on, via, stale, reply>>

H2Response(r) ==
    /\ at[r] = "sent" /\ Stream(r) /\ Connected(r)
    /\ resp[r].st = "due"
    /\ \E b \in Bodies("h2") : resp' = [resp EXCEPT ![r] = [st |-> b, of |-> r]]
    /\ at' = [at EXCEPT ![r] = "reading"]
    /\ UNCHANGED <<taskVars, mainUp, on, via, stale, reply>>

\* With its last request a connection that its socket left is closed.
SettleStream(r, code, data) ==
    /\ Settle(r, code, data)
    /\ via' = [via EXCEPT ![r] = None]
    /\ UNCHANGED <<taskVars, mainUp, on, resp, stale>>

H2ErrorAs(r, code) ==
    /\ Stream(r)
    /\ at[r] = "sent" \/ (at[r] = "reading" /\ resp[r].st = "partial")
    /\ SettleStream(r, code, None)

\* Faulty: the transport's error is passed on as it is.
H2ErrorRaw(r) == H2ErrorAs(r, "hyper")

\* send_request, or the rest of the body, fails: with the connection, or this request alone
\* (the backend resets or refuses its stream).
H2Error(r) == H2ErrorAs(r, "ServiceError")

H2TimeoutIn(r, places) ==
    /\ at[r] \in places /\ Stream(r)
    /\ SettleStream(r, "Timeout", None)

\* Faulty: the timer is not cancelled by the answer, or only covers the body.
H2TimeoutLate(r) == H2TimeoutIn(r, {"sent", "answered"})
H2TimeoutOfBody(r) == H2TimeoutIn(r, {"reading"})

\* timeout(http_timeout, sender.send_request(..)) elapses.
H2Timeout(r) == H2TimeoutIn(r, {"sent"})

H2Read(r) ==
    /\ at[r] = "reading" /\ Stream(r)
    /\ resp[r].st = "whole"
    /\ \/ SettleStream(r, "response", resp[r].of)
       \/ SettleStream(r, "ServiceError", None)

\* The adaptor panics in the request's task: the message is dropped with it.
H2Panics(r) ==
    /\ at[r] \in {"sent", "reading"} /\ Stream(r)
    /\ at' = [at EXCEPT ![r] = "lost"]
    /\ via' = [via EXCEPT ![r] = None]
    /\ UNCHANGED <<taskVars, mainUp, on, resp, stale, reply>>

-----------------------------------------------------------------------------
\* close_socket!: remove_proc_queue, answer what is in the queue, return Ok(self).

Unlist(s, table) ==
    /\ phase[s] = "removing" /\ mainUp
    /\ listed' = table
    /\ Goto(s, "draining")
    /\ UNCHANGED <<proto, link, rxq, cur, wire, fd, mainUp, reqVars>>

\* Faulty: main still lists the queue.
QueueKept(s) == Unlist(s, listed)

\* Whichever queue is listed under the socket_id.
RemoveQueue(s) == Unlist(s, [listed EXCEPT ![fd[s]] = None])

DrainHead(s, r) ==
    /\ phase[s] = "draining"
    /\ rxq[s] # <<>> /\ r = Head(rxq[s])
    /\ rxq' = [rxq EXCEPT ![s] = Tail(@)]
    /\ UNCHANGED <<phase, proto, link, cur, wire, ids, mainUp, on, resp, via, stale>>

\* Faulty: the request is thrown away.
DrainDrops(s, r) ==
    /\ DrainHead(s, r)
    /\ at' = [at EXCEPT ![r] = "lost"]
    /\ UNCHANGED reply

DrainRequest(s, r) == DrainHead(s, r) /\ Settle(r, "UnableToReachService", None)

DrainOther(s) == \E m \in Controls : DrainHead(s, m) /\ UNCHANGED <<at, reply>>

\* Faulty: the queue is dropped as it is.
DrainSkipped(s) ==
    /\ phase[s] = "draining"
    /\ Goto(s, "dropping")
    /\ UNCHANGED <<proto, link, rxq, cur, wire, ids, mainUp, reqVars>>

\* try_recv found nothing; a message may still come before the queue is dropped.
Drained(s) ==
    /\ phase[s] = "draining"
    /\ rxq[s] = <<>>
    /\ Goto(s, "dropping")
    /\ UNCHANGED <<proto, link, rxq, cur, wire, ids, mainUp, reqVars>>

Return(s) ==
    /\ phase[s] = "dropping"
    /\ DropTasks({s}, "ended")
    /\ UNCHANGED <<listed, mainUp>>

-----------------------------------------------------------------------------
\* The environment.

\* A processor sends a request to a queue that main lists, or listed in a table that
\* the processor still uses.
Deliver(s, r) ==
    /\ at[r] = "idle"
    /\ phase[s] \in Receiving
    /\ Len(rxq[s]) < QueueCap
    /\ rxq' = [rxq EXCEPT ![s] = Append(@, r)]
    /\ at' = [at EXCEPT ![r] = "queue"]
    /\ on' = [on EXCEPT ![r] = s]
    /\ stale' = IF s \in Exposed THEN stale ELSE stale \cup {r}
    /\ UNCHANGED <<phase, proto, link, cur, wire, ids, mainUp, resp, via, reply>>

\* main sends a control message to a queue it knows (one at a time), from the
\* add_proc_queue on.
Control(s) ==
    /\ mainUp
    /\ phase[s] = "exposing" \/ s \in Exposed
    /\ Len(rxq[s]) < QueueCap
    /\ ~\E i \in 1..Len(rxq[s]) : rxq[s][i] \in Controls
    /\ \E m \in Controls : rxq' = [rxq EXCEPT ![s] = Append(@, m)]
    /\ UNCHANGED <<phase, proto, link, cur, wire, ids, mainUp, reqVars>>

MainStops ==
    /\ MainMayStop /\ mainUp
    /\ mainUp' = FALSE
    /\ UNCHANGED <<taskVars, reqVars>>

\* hyper's connection future is ready: the backend closed it, or it failed. An HTTP/2 backend
\* may also take no new requests (GOAWAY) and go on with those it has.
LinkEnds(s) ==
    /\ link[s] = "up"
    /\ \/ \E how \in {"closed", "broken"} : link' = [link EXCEPT ![s] = how] /\ UNCHANGED via
       \/ proto[s] = "h2" /\ link' = [link EXCEPT ![s] = "closed"] /\ LetGo({s})
    /\ UNCHANGED <<phase, proto, rxq, cur, wire, ids, mainUp, at, on, resp, stale, reply>>

\* A connection that its socket left ends under its requests.
LeftEnds(i) ==
    /\ LeftOpen(i)
    /\ via' = [r \in Requests |-> IF via[r] = i THEN "gone" ELSE via[r]]
    /\ UNCHANGED <<taskVars, mainUp, at, on, resp, stale, reply>>

\* The rest of a body reaches its reader.
BodyArrives(r) ==
    /\ at[r] = "reading" /\ resp[r].st = "partial"
    /\ Connected(r) /\ (Stream(r) \/ Polled(on[r]))
    /\ resp' = [resp EXCEPT ![r].st = "whole"]
    /\ UNCHANGED <<taskVars, mainUp, at, on, via, stale, reply>>

-----------------------------------------------------------------------------
SocketInit ==
    /\ proto = [s \in Slots |-> None]
    /\ link = [s \in Slots |-> "none"]
    /\ rxq = [s \in Slots |-> <<>>]
    /\ cur = [s \in Slots |-> None]
    /\ wire = [s \in Slots |-> <<>>]
    /\ fd = [s \in Slots |-> None]
    /\ listed = [i \in Ids |-> None]
    /\ mainUp = TRUE
    /\ at = [r \in Requests |-> "idle"]
    /\ on = [r \in Requests |-> None]
    /\ resp = [r \in Requests |-> NoResp]
    /\ via = [r \in Requests |-> None]
    /\ stale = {}
    /\ reply = [r \in Requests |-> NoReply]

Serve(s) ==
    \/ \E r \in Requests : TakeRefused(s, r) \/ TakeHttp1(s, r) \/ TakeH2(s, r)
    \/ TakeIgnored(s) \/ TakeUnsupported(s) \/ TakeShutdown(s)

Close(s) ==
    \/ RemoveQueue(s) \/ DrainOther(s) \/ Drained(s) \/ Return(s) \/ BusFails(s)
    \/ \E r \in Requests : DrainRequest(s, r)

TaskNext(s) ==
    \/ Connect(s) \/ ConnectFails(s) \/ AddQueue(s) \/ AddService(s)
    \/ Serve(s) \/ LinkBroken(s) \/ NoBranchLeft(s) \/ Close(s)
    \/ Http1Write(s) \/ Http1Response(s) \/ Http1Error(s) \/ Http1Timeout(s) \/ Http1Read(s)

StreamNext(r) == H2Write(r) \/ H2Response(r) \/ H2Error(r) \/ H2Timeout(r) \/ H2Read(r)

\* What an adaptor may do to the tasks.
AdaptorPanics == (\E s \in Slots : Http1Panics(s)) \/ (\E r \in Requests : H2Panics(r))

SocketEnv ==
    \/ \E s \in Slots : Control(s) \/ LinkEnds(s) \/ \E r \in Requests : Deliver(s, r)
    \/ MainStops
    \/ (\E r \in Requests : BodyArrives(r)) \/ (\E i \in Ids : LeftEnds(i))

SocketNext ==
    \/ (\E s \in Slots : TaskNext(s)) \/ (\E r \in Requests : StreamNext(r))
    \/ AdaptorPanics \/ SocketEnv

-----------------------------------------------------------------------------
\* Properties of the sockets.

AnswerKinds == {"response", "ServiceError", "Timeout", "UnableToReachService"}
Places == {"idle", "queue", "sent", "reading", "answered", "lost"}

\* Every variable has its type.
SocketTypeOK ==
    /\ phase \in [Slots -> Live \cup {"absent", "ended", "failed", "panicked", "aborted", "gone"}]
    /\ proto \in [Slots -> Protocols \cup {None}]
    /\ link \in [Slots -> {"none", "up", "closed", "broken"}]
    /\ rxq \in [Slots -> Seq(Requests \cup Controls)]
    /\ cur \in [Slots -> Requests \cup {None}]
    /\ wire \in [Slots -> Seq(Requests)]
    /\ fd \in [Slots -> Ids \cup {None}]
    /\ listed \in [Ids -> Slots \cup {None}]
    /\ mainUp \in BOOLEAN
    /\ at \in [Requests -> Places]
    /\ on \in [Requests -> Slots \cup {None}]
    /\ resp \in [Requests -> [st: {"none", "due", "whole", "partial"}, of: Requests \cup {None}]]
    /\ via \in [Requests -> Ids \cup {None, "gone"}]
    /\ stale \subseteq Requests
    /\ reply \in [Requests -> [code: AnswerKinds \cup {"none"}, of: Requests \cup {None}]]

\* The message of a service request has one holder until it is answered: the queue of its
\* socket, the HTTP/1.1 loop of its socket, or a spawned HTTP/2 task. An answered or lost
\* request is held nowhere, so that it is never answered twice and never left behind.
OneHolder ==
    /\ \A s \in Slots, r \in Requests : r \in Queued(s) <=> at[r] = "queue" /\ on[r] = s
    /\ \A s \in Slots : \A i, j \in 1..Len(rxq[s]) :
          rxq[s][i] \in Requests /\ rxq[s][i] = rxq[s][j] => i = j
    /\ \A s \in Slots : cur[s] # None => at[cur[s]] \in {"sent", "reading"} /\ on[cur[s]] = s
    /\ \A r \in Requests : at[r] = "answered" <=> reply[r].code # "none"

\* At most one request of an HTTP/1.1 connection is with the backend, and it is the one
\* whose answer the loop waits for.
NoPipelining ==
    \A s \in Slots : phase[s] \in {"idle", "sending", "reading"} =>
        wire[s] = IF phase[s] = "sending" /\ resp[cur[s]].st = "due" THEN <<cur[s]>> ELSE <<>>

\* The data a requester gets comes from the HTTP response to its own request, also when
\* the request before it on the connection timed out.
OwnResponse == \A r \in Requests : reply[r].of \in {r, None}

\* A socket that reads its queue is listed at main, and one that closes in order is no
\* longer listed once it begins to empty its queue.
ListedWhileServing ==
    \A s \in Slots :
        /\ phase[s] \in {"idle", "sending", "reading", "removing"} => s \in Exposed
        /\ phase[s] \in {"draining", "dropping"} => s \notin Exposed

\* "The client exposes a service if it is available": a socket with a connection that waits
\* for requests is listed, whatever the other sockets do with their own listing.
AvailableIsExposed ==
    \A s \in Slots : phase[s] = "idle" /\ link[s] = "up" => s \in Exposed

\* When a socket closes in order, what it drops unread was sent to it by a processor that
\* used an old service table: everything sent while it was listed was answered.
OrderlyDrain ==
    [][\A s \in Slots : phase[s] = "dropping" /\ phase'[s] = "ended" => Queued(s) \subseteq stale]_sockVars

\* A request is only lost with what holds it: in a queue or an HTTP/1.1 loop, by the end of
\* that socket's task; once spawned for HTTP/2, never by its socket, and alone.
LostWithHolder ==
    [][\A r \in Requests :
          at[r] # "lost" /\ at'[r] = "lost" =>
              \/ \E s \in Slots : r \in Held(s) /\ phase[s] \in Live /\ phase'[s] \notin Live
              \/ /\ at[r] \in {"sent", "reading"} /\ Stream(r)
                 /\ phase' = phase /\ \A q \in Requests \ {r} : at'[q] = at[q]]_sockVars

\* Every request that a socket got is answered or lost in the end.
RequestsSettle ==
    \A r \in Requests : at[r] \in {"queue", "sent", "reading"} ~> at[r] \in {"answered", "lost"}

\* The refinement mapping: a lost request is one whose call ended without a reply.
RequestPhase ==
    [r \in Requests |->
        CASE at[r] \in {"queue", "sent", "reading"} -> "open"
          [] at[r] = "lost" -> "aborted"
          [] OTHER -> at[r]]

Exchange == INSTANCE HttpExchange WITH
    Calls <- Requests, Codes <- AnswerKinds, NoCode <- "none", phase <- RequestPhase

\* The sockets implement the exchange towards the processors that call the service.
ImplementsExchange == Exchange!XSafety
=============================================================================
