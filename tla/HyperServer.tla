---------------------------- MODULE HyperServer ----------------------------
(***************************************************************************)
(* The HTTP server processor: HyperServerProc::internal_run (the select!   *)
(* loop) and the HyperService future that every HTTP request runs in its   *)
(* connection's task. They share the bounded channel http_tx/http_rx and,  *)
(* per call, a oneshot channel on which the answer comes back.             *)
(*                                                                         *)
(* Environment: the HTTP clients (they call and they disconnect), the      *)
(* ProSA bus (service tables, shutdown, restart of a failed processor) and *)
(* the service processors behind their queues.                             *)
(***************************************************************************)
EXTENDS Naturals, Sequences

CONSTANTS
    Calls,          \* HTTP requests, each handed to HyperService::call once
    Queues,         \* queues under which service processors register
    Services,       \* service names
    Target,         \* Calls -> the service its adaptor asks for (HyperResp::SrvReq)
    Serves,         \* Queues -> the service the queue is registered for
    Errors,         \* the ServiceError variants a service may answer with
    HttpCap,        \* capacity of the channel of HTTP requests (2048)
    ServiceCap,     \* capacity of a service processor's queue
    BusCap,         \* capacity of the processor's internal queue
    MaxEpoch,       \* bound: how often internal_run is started
    None

ServiceErrors == {"NoError", "UnableToReachService", "Timeout", "ProtocolError"}

ASSUME ServerAssumption ==
    /\ Target \in [Calls -> Services]
    /\ Serves \in [Queues -> Services]
    /\ Errors \subseteq ServiceErrors
    /\ HttpCap \in Nat \ {0} /\ ServiceCap \in Nat \ {0} /\ BusCap \in Nat \ {0}
    /\ MaxEpoch \in Nat \ {0}
    /\ None \notin Calls

VARIABLES
    loop,           \* where internal_run is
    epoch,          \* how often it reached its loop: one http channel each
    table,          \* self.service, as the queues it lists
    cur,            \* the request that service.proc_queue.send(..).await forwards, until it
                    \* is in pending_req
    pending,        \* pending_req: {[id, call]}
    sent,           \* the internal requests made so far: sent[id] is the call
    httpQ,          \* http_rx
    call,           \* Calls -> where the HyperService future is
    conn,           \* Calls -> the epoch that accepted the call's connection
    chan,           \* Calls -> the oneshot resp_tx/resp_rx: [st, of]
    reply,          \* Calls -> the HTTP response: [code, of]
    busQ,           \* internal_rx_queue
    qstate,         \* Queues -> life of the queue: its receiver, and main's listing of it
    svcQ,           \* Queues -> requests waiting in the service's queue
    held,           \* requests a service processor took and has not answered
    announced       \* the last service table that main sent

loopVars == <<loop, epoch, table, cur, pending, sent, httpQ>>
callVars == <<call, conn, chan, reply>>
svcVars  == <<qstate, svcQ, held, announced>>
vars     == <<loopVars, callVars, busQ, svcVars>>

NoReply  == [code |-> 0, of |-> None]
NoCur    == [id |-> 0, call |-> None, queue |-> None]
Fresh    == [st |-> "none", of |-> None]
Open     == [st |-> "open", of |-> None]
Dropped  == [st |-> "closed", of |-> None]     \* resp_tx dropped, nothing sent
Failure(err) == [st |-> err, of |-> None]      \* InternalMsg::Error
Data(c)      == [st |-> "response", of |-> c]  \* InternalMsg::Response

Forwarding == loop \in {"sending", "handed"}
Running == loop = "select" \/ Forwarding
Elems(s) == {s[i] : i \in 1..Len(s)}
Distinct(s) == \A i, j \in 1..Len(s) : s[i] = s[j] => i = j

\* The calls whose RequestMsg (hence whose resp_tx) the processor owns.
InLoop ==
    Elems(httpQ) \cup {p.call : p \in pending}
                 \cup (IF Forwarding THEN {cur.call} ELSE {})

-----------------------------------------------------------------------------
\* The HyperService future of one call.

\* Faulty: a dropped oneshot is an internal error.
CodeDropped500(st) == IF st = "closed" THEN 500 ELSE 202

\* Faulty: a service that cannot be reached is a bad gateway.
CodeUnreachable502(st) == IF st = "UnableToReachService" THEN 502 ELSE 200

\* default_srv_error_response.
ErrorCode ==
    [NoError |-> 202, ProtocolError |-> 502, Timeout |-> 504, UnableToReachService |-> 503]

\* 200 stands for what the handler builds from data, 503 is the "Can't handle your
\* request for now" of a dropped resp_tx.
Code(st) ==
    IF st = "response" THEN 200 ELSE IF st \in ServiceErrors THEN ErrorCode[st] ELSE 503

\* The adaptor wants a service: the oneshot and the RequestMsg are made.
BeginCall(c) ==
    /\ call[c] = "idle"
    /\ \E e \in 1..epoch : conn' = [conn EXCEPT ![c] = e]
    /\ call' = [call EXCEPT ![c] = "sending"]
    /\ chan' = [chan EXCEPT ![c] = Open]
    /\ UNCHANGED <<reply, loopVars, busQ, svcVars>>

\* The adaptor answers by itself (HttpResp) or fails (HttpErr).
DirectCall(c) ==
    /\ call[c] = "idle"
    /\ \E e \in 1..epoch : conn' = [conn EXCEPT ![c] = e]
    /\ \/ /\ call' = [call EXCEPT ![c] = "answered"]
          /\ reply' = [reply EXCEPT ![c] = [code |-> 200, of |-> None]]
       \/ /\ call' = [call EXCEPT ![c] = "aborted"]
          /\ UNCHANGED reply
    /\ UNCHANGED <<chan, loopVars, busQ, svcVars>>

\* Faulty: one channel for all the runs of internal_run.
ChannelShared(c) == Running

\* http_rx lives in the run of internal_run that accepted the connection.
ChannelOpen(c) == Running /\ conn[c] = epoch

Enqueue(c) ==
    /\ call[c] = "sending"
    /\ ChannelOpen(c)
    /\ Len(httpQ) < HttpCap
    /\ httpQ' = Append(httpQ, c)
    /\ call' = [call EXCEPT ![c] = "waiting"]
    /\ UNCHANGED <<loop, epoch, table, cur, pending, sent>>
    /\ UNCHANGED <<conn, chan, reply, busQ, svcVars>>

\* The failed send gives the RequestMsg back and the future drops it.
EnqueueClosed(c) ==
    /\ call[c] = "sending"
    /\ ~ChannelOpen(c)
    /\ chan' = [chan EXCEPT ![c] = Dropped]
    /\ call' = [call EXCEPT ![c] = "waiting"]
    /\ UNCHANGED <<conn, reply, loopVars, busQ, svcVars>>

\* resp_rx.await is ready. The handler may fail; without handler it is a 503.
FinishCall(c) ==
    /\ call[c] = "waiting"
    /\ chan[c].st # "open"
    /\ \/ /\ call' = [call EXCEPT ![c] = "answered"]
          /\ reply' = [reply EXCEPT ![c] = [code |-> Code(chan[c].st), of |-> chan[c].of]]
       \/ /\ chan[c].st # "closed"
          /\ call' = [call EXCEPT ![c] = "aborted"]
          /\ UNCHANGED reply
    /\ UNCHANGED <<conn, chan, loopVars, busQ, svcVars>>

\* The HTTP client goes away: hyper drops the future, and with it a RequestMsg
\* that was not yet in the channel.
Disconnect(c) ==
    /\ call[c] \in {"sending", "waiting"}
    /\ call' = [call EXCEPT ![c] = "gone"]
    /\ chan' = IF call[c] = "sending" THEN [chan EXCEPT ![c] = Dropped] ELSE chan
    /\ UNCHANGED <<conn, reply, loopVars, busQ, svcVars>>

-----------------------------------------------------------------------------
\* internal_run.

Unwind(how, calls) ==
    /\ loop' = how
    /\ chan' = [c \in Calls |-> IF c \in calls THEN Dropped ELSE chan[c]]
    /\ httpQ' = <<>>
    /\ pending' = {}
    /\ cur' = NoCur
    /\ UNCHANGED <<epoch, table, sent, call, conn, reply, svcVars>>

\* Faulty: the pending messages are forgotten without dropping their oneshots.
ExitKeepsPending(how) == Unwind(how, InLoop \ {p.call : p \in pending})

\* Everything internal_run owns is dropped when it returns or unwinds.
Exit(how) == Unwind(how, InLoop)

\* Adaptor, main queue, channel, pending table and listener are set up.
Start ==
    /\ loop = "starting"
    /\ loop' = "select"
    /\ epoch' = epoch + 1
    /\ UNCHANGED <<table, cur, pending, sent, httpQ, callVars, busQ, svcVars>>

StartFails ==
    /\ loop = "starting"
    /\ loop' = "failed"
    /\ UNCHANGED <<epoch, table, cur, pending, sent, httpQ, callVars, busQ, svcVars>>

BusTake(kind, where) ==
    /\ loop \in where
    /\ busQ # <<>>
    /\ Head(busQ).kind = kind
    /\ busQ' = Tail(busQ)

\* Faulty: answers are also taken while the request they answer is being put in pending_req.
BusHeadEarly(kind) == BusTake(kind, {"select", "handed"})

BusHead(kind) == BusTake(kind, {"select"})

\* Faulty: answers are taken to come in the order of the requests.
PulledUpTo(id) == {p \in pending : p.id <= id}

\* pending_req.pull_msg(id).
Pulled(id) == {p \in pending : p.id = id}

\* The oneshot of the pulled message gets value.
Settle(id, value) ==
    /\ chan' = [c \in Calls |-> IF \E p \in Pulled(id) : p.call = c THEN value ELSE chan[c]]
    /\ UNCHANGED <<loop, epoch, table, cur, sent, httpQ, call, conn, reply, svcVars>>

\* Faulty: the message is looked up and stays in pending_req.
PeekAndSend(id, value) == Settle(id, value) /\ UNCHANGED pending

PullAndSend(id, value) == Settle(id, value) /\ pending' = pending \ Pulled(id)

\* A response without data still pulls the message, and drops it.
RecvResponse ==
    /\ BusHead("response")
    /\ LET m == Head(busQ)
       IN  PullAndSend(m.id, IF m.of = None THEN Dropped ELSE Data(m.of))

RecvError ==
    /\ BusHead("error")
    /\ PullAndSend(Head(busQ).id, Failure(Head(busQ).err))

RecvService ==
    /\ BusHead("service")
    /\ table' = Head(busQ).table
    /\ UNCHANGED <<loop, epoch, cur, pending, sent, httpQ, callVars, svcVars>>

\* remove_proc may fail, and then the processor fails instead of stopping.
RecvShutdown ==
    /\ BusHead("shutdown")
    /\ \E how \in {"ended", "failed"} : Exit(how)

\* Request is a panic!, Command and Config are todo!(): the loop unwinds.
RecvUnsupported ==
    /\ BusHead("unsupported")
    /\ Exit("ended")

\* The receiver of the queue is there.
Receives(q) == qstate[q] \in {"open", "leaving"}

\* What the service gets of a request, and pending_req keeps: the id, and whose it is.
Internal(f) == [id |-> f.id, call |-> f.call]

Candidates(c) == {q \in table : Serves[q] = Target[c]}

\* get_proc_service picks one of the service's queues; the send may block.
ForwardHttp ==
    /\ loop = "select"
    /\ httpQ # <<>>
    /\ \E q \in Candidates(Head(httpQ)) :
          cur' = [id |-> Len(sent) + 1, call |-> Head(httpQ), queue |-> q]
    /\ sent' = Append(sent, Head(httpQ))
    /\ httpQ' = Tail(httpQ)
    /\ loop' = "sending"
    /\ UNCHANGED <<epoch, table, pending, callVars, busQ, svcVars>>

RejectHttp ==
    /\ loop = "select"
    /\ httpQ # <<>>
    /\ Candidates(Head(httpQ)) = {}
    /\ chan' = [chan EXCEPT ![Head(httpQ)] = Failure("UnableToReachService")]
    /\ httpQ' = Tail(httpQ)
    /\ UNCHANGED <<loop, epoch, table, cur, pending, sent, call, conn, reply, busQ, svcVars>>

\* The service's queue takes the request: from here on the service may answer it.
SendDone ==
    /\ loop = "sending"
    /\ Receives(cur.queue)
    /\ Len(svcQ[cur.queue]) < ServiceCap
    /\ svcQ' = [svcQ EXCEPT ![cur.queue] = Append(@, Internal(cur))]
    /\ loop' = "handed"
    /\ UNCHANGED <<epoch, table, cur, pending, sent, httpQ, callVars, busQ, qstate, held, announced>>

\* pending_req.push_with_id, in the same arm of the select!: no answer is taken before it.
Push ==
    /\ loop = "handed"
    /\ pending' = pending \cup {Internal(cur)}
    /\ cur' = NoCur
    /\ loop' = "select"
    /\ UNCHANGED <<epoch, table, sent, httpQ, callVars, busQ, svcVars>>

\* Faulty: the request that could not be sent is put back in the channel.
SendRetried ==
    /\ loop = "sending"
    /\ ~Receives(cur.queue)
    /\ httpQ' = Append(httpQ, cur.call)
    /\ cur' = NoCur
    /\ loop' = "select"
    /\ UNCHANGED <<epoch, table, pending, sent, callVars, busQ, svcVars>>

\* The service's receiver is gone: the error leaves internal_run.
SendFails ==
    /\ loop = "sending"
    /\ ~Receives(cur.queue)
    /\ Exit("failed")
    /\ UNCHANGED busQ

\* Faulty: the timer is not armed for a message that is alone.
ExpireNotAlone ==
    /\ loop = "select"
    /\ \E p, r \in pending : p # r /\ PullAndSend(p.id, Failure("Timeout"))
    /\ UNCHANGED busQ

\* pending_req.pull(): the service timeout of a pending message elapsed.
Expire ==
    /\ loop = "select"
    /\ \E p \in pending : PullAndSend(p.id, Failure("Timeout"))
    /\ UNCHANGED busQ

\* accept_result? leaves internal_run; a connection that is accepted changes
\* nothing here (its calls appear in BeginCall and DirectCall).
AcceptFails ==
    /\ loop = "select"
    /\ Exit("failed")
    /\ UNCHANGED busQ

-----------------------------------------------------------------------------
\* The environment: ProSA's main processor and the service processors.

\* A recoverable error has internal_run called again (HyperProcError::recoverable).
Restart ==
    /\ loop = "failed"
    /\ epoch < MaxEpoch
    /\ loop' = "starting"
    /\ UNCHANGED <<epoch, table, cur, pending, sent, httpQ, callVars, busQ, svcVars>>

BusSend(m) ==
    /\ Len(busQ) < BusCap
    /\ busQ' = Append(busQ, m)

\* main sends shutdown, or a kind of message that the loop does not support.
BusControl ==
    /\ ~\E m \in Elems(busQ) : m.kind \in {"shutdown", "unsupported"}
    /\ \E kind \in {"shutdown", "unsupported"} : BusSend([kind |-> kind])
    /\ UNCHANGED <<loopVars, callVars, svcVars>>

\* A service that ended without leaving the bus is listed until main learns of it.
Listed == {q \in Queues : qstate[q] \in {"open", "dead"}}

\* main sends the table after services changed, whenever it gets to it.
Announce ==
    /\ announced # Listed
    /\ announced' = Listed
    /\ BusSend([kind |-> "service", table |-> Listed])
    /\ UNCHANGED <<loopVars, callVars, qstate, svcQ, held>>

\* A service registers its queue; leaves main's table while it still receives; ends, in
\* order or not; and main forgets one that is dead.
QueueSteps ==
    [new |-> {"new", "open"}, open |-> {"open", "leaving", "dead", "closed"},
     leaving |-> {"leaving", "closed"}, dead |-> {"dead", "closed"}, closed |-> {"closed"}]

\* A processor may end with several queues at once: what is in them, and any request it
\* has taken, may go with it.
ServicesChange ==
    /\ qstate' \in {f \in [Queues -> DOMAIN QueueSteps] : \A q \in Queues : f[q] \in QueueSteps[qstate[q]]}
    /\ qstate' # qstate
    /\ svcQ' = [q \in Queues |-> IF qstate'[q] \in {"dead", "closed"} THEN <<>> ELSE svcQ[q]]
    /\ \E lost \in SUBSET held : held' = held \ lost
    /\ UNCHANGED <<loopVars, callVars, busQ, announced>>

TakeFrom(q) ==
    /\ Receives(q)
    /\ svcQ[q] # <<>>
    /\ svcQ' = [svcQ EXCEPT ![q] = Tail(@)]
    /\ UNCHANGED <<loopVars, callVars, qstate, announced>>

ServiceTakes(q) ==
    /\ TakeFrom(q)
    /\ held' = held \cup {Head(svcQ[q])}
    /\ UNCHANGED busQ

\* return_to_sender and return_error_to_sender: the result is ignored, so a
\* reply that finds the queue full, or the processor ended, is lost.
Answer(h) ==
    \/ \E of \in {h.call, None} : BusSend([kind |-> "response", id |-> h.id, of |-> of])
    \/ \E err \in Errors : BusSend([kind |-> "error", id |-> h.id, err |-> err])
    \/ (Len(busQ) = BusCap \/ loop = "ended") /\ UNCHANGED busQ

ServiceReplies ==
    /\ \E h \in held : held' = held \ {h} /\ Answer(h)
    /\ UNCHANGED <<loopVars, callVars, qstate, svcQ, announced>>

\* A request that is answered as it is taken.
ServiceRefuses(q) == TakeFrom(q) /\ Answer(Head(svcQ[q])) /\ UNCHANGED held

-----------------------------------------------------------------------------
Init ==
    /\ loop = "starting" /\ epoch = 0
    /\ table = {} /\ cur = NoCur /\ pending = {} /\ sent = <<>> /\ httpQ = <<>>
    /\ call = [c \in Calls |-> "idle"]
    /\ conn = [c \in Calls |-> 0]
    /\ chan = [c \in Calls |-> Fresh]
    /\ reply = [c \in Calls |-> NoReply]
    /\ busQ = <<>>
    /\ qstate = [q \in Queues |-> "new"]
    /\ svcQ = [q \in Queues |-> <<>>]
    /\ held = {} /\ announced = {}

CallNext(c) ==
    \/ BeginCall(c) \/ DirectCall(c) \/ Enqueue(c) \/ EnqueueClosed(c)
    \/ FinishCall(c) \/ Disconnect(c)

LoopNext ==
    \/ Start \/ StartFails
    \/ RecvResponse \/ RecvError \/ RecvService \/ RecvShutdown \/ RecvUnsupported
    \/ ForwardHttp \/ RejectHttp \/ SendDone \/ Push \/ SendFails
    \/ Expire \/ AcceptFails

EnvNext ==
    \/ Restart \/ BusControl \/ Announce \/ ServicesChange \/ ServiceReplies
    \/ \E q \in Queues : ServiceTakes(q) \/ ServiceRefuses(q)

Next == (\E c \in Calls : CallNext(c)) \/ LoopNext \/ EnvNext

\* Connection tasks are scheduled by tokio; select! polls its ready branches in
\* random order, so none is passed over for ever; timers elapse.
Fairness ==
    /\ \A c \in Calls : WF_vars(Enqueue(c) \/ EnqueueClosed(c)) /\ WF_vars(FinishCall(c))
    /\ WF_vars(RecvResponse \/ RecvError \/ RecvService \/ RecvShutdown \/ RecvUnsupported)
    /\ WF_vars(ForwardHttp \/ RejectHttp)
    /\ WF_vars(SendDone \/ SendFails) /\ WF_vars(Push)
    /\ WF_vars(Expire)

\* The assumption on the services: they go on taking requests from their queue.
ServicesDrain == \A q \in Queues : WF_vars(ServiceTakes(q))

Safety       == Init /\ [][Next]_vars
StalledSpec  == Safety /\ Fairness
Spec         == Safety /\ Fairness /\ ServicesDrain

-----------------------------------------------------------------------------
\* Properties.

Codes == {200, 202, 502, 503, 504}
Request == [id: Nat, call: Calls]
BusMessage ==
    [kind: {"response"}, id: Nat, of: Calls \cup {None}]
        \cup [kind: {"error"}, id: Nat, err: Errors]
        \cup [kind: {"service"}, table: SUBSET Queues]
        \cup [kind: {"shutdown", "unsupported"}]

\* Every variable has its type (the ids of internal requests are positions in sent).
TypeOK ==
    /\ loop \in {"starting", "select", "sending", "handed", "failed", "ended"}
    /\ epoch \in Nat
    /\ table \subseteq Queues
    /\ IF Forwarding
       THEN cur \in [id: Nat, call: Calls, queue: Queues]
       ELSE cur = NoCur
    /\ pending \subseteq Request
    /\ sent \in Seq(Calls)
    /\ httpQ \in Seq(Calls)
    /\ call \in [Calls -> {"idle", "sending", "waiting", "answered", "aborted", "gone"}]
    /\ conn \in [Calls -> Nat]
    /\ chan \in [Calls -> [st: {"none", "open", "closed", "response"} \cup ServiceErrors,
                           of: Calls \cup {None}]]
    /\ reply \in [Calls -> [code: Codes \cup {0}, of: Calls \cup {None}]]
    /\ busQ \in Seq(BusMessage)
    /\ qstate \in [Queues -> DOMAIN QueueSteps]
    /\ svcQ \in [Queues -> Seq(Request)]
    /\ held \subseteq Request
    /\ announced \subseteq Queues

\* The places where the processor keeps a RequestMsg never share one.
Apart ==
    /\ Distinct(httpQ)
    /\ \A p \in pending : p.call \notin Elems(httpQ)
    /\ \A p, r \in pending : (p.id = r.id \/ p.call = r.call) => p = r
    /\ Forwarding => cur.call \notin Elems(httpQ) \cup {p.call : p \in pending}

\* A oneshot that is still open has exactly one RequestMsg that can settle it: with the
\* future that is sending it, in the channel, with the forwarding or in pending_req. So
\* no call waits on a channel that nobody will ever answer or drop.
OneOwner ==
    /\ \A c \in Calls : chan[c].st = "open" <=> (call[c] = "sending" \/ c \in InLoop)
    /\ \A c \in Calls : call[c] = "sending" => c \notin InLoop
    /\ Apart

\* Service data in an HTTP response is the data computed for that very call, whatever
\* was reordered, late, or answered across a restart of the processor.
OwnData == \A c \in Calls : reply[c].of \in {c, None}

\* A call is handed to a service at most once: nothing that fails is sent again.
ForwardedOnce == Distinct(sent)

\* A call that is still unanswered belongs to the current run of internal_run: what an
\* earlier run accepted was settled when that run ended, also on connections that live on.
RestartSettles ==
    \A c \in Calls : call[c] = "waiting" /\ chan[c].st = "open" => Running /\ conn[c] = epoch

\* 202, 502 and 504 are only given to a call whose request was handed to a service.
GatewayCodes ==
    \A c \in Calls : reply[c].code \in {202, 502, 504} => c \in Elems(sent)

\* The first answer counts: an answer that comes after the timeout, or a second one,
\* changes nothing for the call.
SettledOnce ==
    [][\A c \in Calls : chan[c].st \notin {"none", "open"} => chan'[c] = chan[c]]_vars

\* No answer comes too early: whenever the loop takes one for a call that is still open, the
\* call is settled by it, however soon after the send the service answered.
AnswersCount ==
    [][busQ # <<>> /\ busQ' = Tail(busQ) /\ Head(busQ).kind \in {"response", "error"} =>
          chan'[sent[Head(busQ).id]].st # "open"]_vars

\* Every message leaves pending_req: it is answered, it expires or the processor ends.
PendingDrains ==
    \A c \in Calls : (\E p \in pending : p.call = c) ~> ~(\E p \in pending : p.call = c)

-----------------------------------------------------------------------------
\* The inductive invariant behind the safety properties.

Valid(t) == t.id \in 1..Len(sent) /\ sent[t.id] = t.call

\* Every copy of an internal request, wherever it is, and every answer in the queue name
\* a request that was made, and that request's own call.
Provenance ==
    /\ \A p \in pending \cup held : Valid(p)
    /\ \A q \in Queues : \A i \in 1..Len(svcQ[q]) : Valid(svcQ[q][i])
    /\ Forwarding => Valid(cur)
    /\ \A i \in 1..Len(busQ) :
          /\ busQ[i].kind \in {"response", "error"} => busQ[i].id \in 1..Len(sent)
          /\ busQ[i].kind = "response" => busQ[i].of \in {sent[busQ[i].id], None}

\* What has not reached the loop, or waits in its channel, was never forwarded.
Unsent ==
    /\ \A c \in Calls : call[c] \in {"idle", "sending"} => c \notin Elems(sent)
    /\ Elems(httpQ) \cap Elems(sent) = {}

\* The processor only owns calls of its current run, and none when it does not run.
Current ==
    /\ \A c \in InLoop : Running /\ conn[c] = epoch
    /\ \A c \in Calls : call[c] = "idle" => chan[c] = Fresh

\* Whose data, and what kind of failure, the oneshots and the responses may carry.
Origin ==
    \A c \in Calls :
        /\ chan[c].of \in {c, None}
        /\ reply[c].of \in {c, None}
        /\ chan[c].st \in {"NoError", "ProtocolError", "Timeout"} => c \in Elems(sent)
        /\ reply[c].code \in {202, 502, 504} => c \in Elems(sent)

\* Type correctness, single custody and provenance together are kept by every step.
IInv ==
    /\ TypeOK /\ OneOwner /\ Provenance /\ ForwardedOnce /\ Unsent
    /\ Current /\ Origin

-----------------------------------------------------------------------------
\* The refinement mapping: for the HTTP client a call is open while its future runs.
Phase == [c \in Calls |-> IF call[c] \in {"sending", "waiting"} THEN "open" ELSE call[c]]

Exchange == INSTANCE HttpExchange WITH phase <- Phase, NoCode <- 0

\* The server implements the exchange: its steps, and that every call is finished.
ImplementsExchange == Exchange!XSafety
FinishesCalls == Exchange!XFinishes
=============================================================================
