# ProSA-Hyper in TLA+

ProSA-Hyper puts HTTP on a ProSA bus: a *server* processor turns HTTP requests into
service requests, a *client* processor turns service requests into HTTP requests. Both are
tokio programs: select! loops, spawned tasks, bounded channels, oneshots, timers. This
directory models both processors, on their own and on one bus, checks them with TLC, and
proves their safety with TLAPS: that of the server, of its listener, of the client, and of the
two on one bus.

Paths below are relative to the crate: `server/proc.rs` is `src/server/proc.rs`.

## 1. Inventory

### Server

| part | code | state | operations |
|---|---|---|---|
| processor loop | `server/proc.rs`, `internal_run` | the listener, the channel `http_tx`/`http_rx` (2048), `pending_req` with its timers, the service table, the internal queue | start; bus messages (response, error, service table, shutdown, unsupported ones); HTTP request from `http_rx`: forward or reject; accept; timeout of a pending message |
| service future | `server/service.rs`, `HyperService` | per HTTP request: the oneshot `resp_tx`/`resp_rx` | direct answer, send to the loop, wait, answer; dropped when the HTTP client leaves |
| listener and connection tasks | `server/proc.rs:106-130`, `182-226` | the listening socket (an `Arc` that every task clones), the protocol of each connection, the socket gauge | bind, accept, handshake, serve; independent of the loop that accepted the connection |
| adaptor | `server/adaptor.rs`, `lib.rs` | none | request to `HyperResp`, handler of the answer, default status of an error |

The future and the loop interact through the channel (a `RequestMsg` that owns `resp_tx`)
and the oneshot. The loop and the services interact through the services' bounded queues
and the loop's own internal queue. Main sends service tables, shutdown, and calls
`internal_run` again after a recoverable error.

What is hard: answers come in any order, late, twice or never; the loop *awaits* a send
inside one of its arms; any error that leaves the loop drops everything it owns; the
connections of a failed run live on, hold the sender of a channel that is gone, and keep the
listening socket that the next run wants to bind; HTTP clients leave at any time; the service
table is older than the services.

Correct means: every HTTP call is finished once, with its own data or with a status that
says what happened; no call waits on a oneshot that nobody can settle; nothing is forwarded
twice; nothing leaks from one run to the next; every pending message leaves the table; a
processor that failed listens again; no client is left in the backlog of a dead run; the gauge
counts what it says.

### Client

| part | code | state | operations |
|---|---|---|---|
| processor loop | `client/proc.rs`, `internal_run` | the `JoinSet` of socket tasks, the internal queue | start `min_socket` sockets per backend; bus messages; `join_next`: start again, log, or fail |
| socket task | `client/socket.rs` | the connection, `rx_queue` (2048), for HTTP/1.1 the message being sent | connect, handshake, register at main, serve, close in order |
| request task | `client/socket.rs:380-409` | one HTTP/2 request | send, read, answer, time out |
| adaptor | `client/adaptor.rs` | none | service request to HTTP request, HTTP response to service response |

What is hard: HTTP/1.1 answers have no id, so that a connection must not be used after a
timeout; the connection only moves while its task polls it; a close is several steps
(remove at main, empty, drop) while processors with an older table still send; HTTP/2
requests outlive their socket's task, and so does the connection that hyper runs for those it
sent; a panic of one socket's task takes all sockets down, that of a request's task only itself; main knows
a socket by its file descriptor, which the system gives away again.

Correct means: a service request has one holder until it is answered; an answer is the
answer to that request; a socket is listed while it reads and not listed when it empties
its queue; a request is only lost with the task that holds it; no task outlives its processor; a
request that was accepted is settled in the end.

### Around them

The examples put the two together with a demo adaptor each: an HTTP request for `/test` becomes a
service request, a service request an HTTP request. Correct means, end to end: the status that
the HTTP client gets says what became of its request at the backend.

ProSA (main, service tables, `PendingMsgs`, message types), hyper (connections, bodies), tokio and
the operating system are external: modelled as environment, from how the code uses them. What is
not modelled at all is in section 8.

## 2. Modules

| module | what it is |
|---|---|
| `HttpExchange` | what both processors promise: an exchange is answered at most once, from its own data, and is not left open |
| `HyperServer` | server loop, service futures, service processors and main |
| `HyperServer_proofs` | its theorems and proofs |
| `HyperClientSocket` | socket tasks, HTTP/2 request tasks, hyper's connection, main, senders |
| `HyperClient` | the client's loop over the sockets (EXTENDS `HyperClientSocket`) |
| `HyperClient_proofs` | theorems and proofs of the client |
| `HyperConnection` | the listening socket over the runs of the server's loop, and its connection tasks |
| `HyperConnection_proofs` | its theorems and proofs |
| `HyperAdaptors` | `HyperResp`, its conversions, and the demo adaptors, as operators |
| `HyperGateway` | both processors on one bus: an instance of `HyperServer` and one of `HyperClient` |
| `HyperGateway_proofs` | its theorems and proofs, over those of both sides |
| `MCHyperServer`, `MCHyperClient`, `MCHyperConnection`, `MCHyperGateway` | small instances for TLC |

`HttpExchange` is the abstract specification of each processor (`ImplementsExchange`), and
`HyperServer`, whose environment are services of any kind, that of the gateway (`ServerHolds`).

### HyperServer: state and code

- `loop`: where `internal_run` is: before its loop (`starting`), in `select!`, blocked in
  `send().await` (`sending`, with the request in `cur`), past it and before `push_with_id`
  (`handed`, which `Push` ends: the answer may be in the queue by then), left with an error that main answers
  with another run (`failed`), or left for good (`ended`).
- `epoch`: the number of the run. Each run has its own `http_tx`/`http_rx`; `conn[c]` is the
  run that accepted the connection of call c.
- `httpQ` is `http_rx`; `pending` is `pending_req`; `table` is `self.service`; `busQ` the
  internal queue. `sent` records the internal requests: a position in it is a request id
  (`RequestMsg::new` numbers them).
- `call[c]`: the future: `sending` into the channel, `waiting` on the oneshot, `answered`,
  `aborted` (the future ends in an error), or `gone` (its HTTP client left).
- `chan[c]`: the oneshot: open, or settled by an answer, an error or the drop of the sender.
- `svcQ`, `held`, `announced`: the queues of the service processors, the requests they took, and
  the table that main announced last.
- `qstate`: the life of a queue, which main and its owner see differently: `new`; `open`, received
  from and listed; `leaving`, received from and no longer listed; `dead`, listed and gone;
  `closed`. Services may end in order or not, with several queues at once, and lose what they
  took; they may answer a request at once (`ServiceRefuses`), later, without data, or not at all, but
  not twice.

One action is one arm of the select!, one await to the next of the future, or one step of the
environment. `Exit` is what Rust does when `internal_run` returns or unwinds: every message
in the channel, in the blocked send and in the table is dropped, and its oneshot with it.
Timers are not counted: a pending message may expire whenever the loop is in `select!`.

### HyperClientSocket and HyperClient: state and code

- `phase[s]`: `connecting`, `adding` (`add_proc_queue`), `exposing` (`add_service`), `idle`
  and `sending` (the two select! of HTTP/1.1; HTTP/2 only has the first), `reading`
  (`process_http_response(..).await`), `removing`, `draining`, `dropping` (`close_socket!`),
  then how the task ended: `ended` (Ok), `failed` (Err), `panicked`, `aborted`; `gone` is a
  failed task that `join_next` has logged.
- `link[s]`: the future `connection` of the task: `up`, ready with Ok (`closed`) or with Err
  (`broken`). With HTTP/1.1 it is the connection. With HTTP/2 it only hands requests to the
  connection, which `http2::handshake(TokioExecutor, ..)` has hyper run in a task of its own.
- `wire[s]`: HTTP/1.1 requests the backend has not answered, in order: the answer that comes
  is the answer to the oldest, whoever waits for it.
- `at[r]`, `on[r]`, `resp[r]`, `reply[r]`: where a service request is, the socket that got
  it, its HTTP response (`due` from the moment the request is written, then `partial` or `whole`),
  its answer on the bus.
- `via[r]`: what an HTTP/2 request has of a connection: that of its socket (`None`), one that its
  socket left and hyper goes on with (its descriptor), or none any more (`gone`).
- `fd[s]`: the file descriptor of the connection, which is the `socket_id`. `listed`: what main
  has under each id. A descriptor is free again when its connection is closed, and
  `add_proc_queue` replaces what is listed under the same id. `Exposed` are the sockets whose own
  queue is listed. `stale`: the requests that were sent to a socket main no longer listed.
- `proc`, `starts`, `procQ`: the client's `internal_run`, its runs, its queue.

`Polled` says when hyper can make progress on a connection: only in a select! that has
`&mut connection` among its branches. `DropTasks` is the drop of socket tasks, by their return
or by an abort, with their queue and message, and with HTTP/1.1 their connection. With HTTP/2 the
future that hands over requests is dropped: hyper goes on with what it wrote, and keeps the
descriptor until the last of these is done, and fails what it had not got to (`LetGo`). The same
happens where the backend takes no new requests (GOAWAY, in `LinkEnds`); `LeftEnds` is the end of a
connection that its socket left.
A request may also fail on a connection that is up: a stream is reset or refused (`H2Error`), or
`send_request`, which is called without `ready()`, comes before hyper has finished with the response
before it (`Http1Fails`). `Http1Panics` and `H2Panics` are panics of the adaptor, in the socket's task
and in the task of one request.
`NoBranchLeft` is the panic of a select! whose branches are all off: a queue without senders
(main is gone) and a connection that ended with Ok.

### HyperConnection: state and code

- `loop`: `starting` (up to the bind), `listening`, `failed`, `ended`. `run`: how often the loop got
  a listener.
- `conn[c]`: `none`, `backlog` (the kernel completed the connection, nobody accepted it),
  `handshake`, `serving`, or how it ended: `closed`, `reset`, `panicked`.
- `from[c]`: the run whose listening socket the connection came through.
- `gauge`: `prosa_hyper_srv_socket`, per version.

`Holders` are the tasks with a clone of a run's `Arc`; `Bound` says that the run's listening socket
is open: the loop has it, or a task does. An address has one listening socket, so that `Bind` waits
for all of them (`BindFails` is the error in between). When the last holder goes, the kernel resets
the backlog (`Become`). `HyperServer` does not restrict in which order runs see connections and so
allows more than `HyperConnection` does.

### HyperGateway: composition

The sockets of the client are the services of the server. Each registration of a socket is a
queue, `<<slot, gen>>`; `QState`, `SvcQ` and `Held` derive the server's view of it from the
client's state: `open` while the task receives and main lists it, `leaving` between
`remove_proc_queue` and the drop, `dead` when the task panicked or was aborted. The `SendDone` of
the server and the `Deliver` of the client are one step. An answer of the client (`Reports`) is a message in the
server's internal queue, or lost if that is full or gone. A step of one processor leaves the other
one alone. The adaptors are those of the examples: the server's decides per path, its handler
never fails; the client's maps a transport error to `ProtocolError`; neither panics, so that the
panics of the client's model have no place here.

`ServerHolds` is `Safety` of that instance of `HyperServer`: each step of the gateway is, seen from
the server, a step of `HyperServer` or a stutter. So what is proved of `HyperServer` for every
environment holds of a server in front of this client. `HyperGateway_proofs` proves it.

`Waiting` is the calls in a socket's queue: the queue without the control message that main may
have put there. It is written without the recursive filter of the library, which the proofs could
not look into.

## 3. Runs

| run | instance | shows |
|---|---|---|
| `Server_safety` | 2 calls, 1 queue, channel 1, service queue 1, internal queue 2, 2 runs of the loop | the safety properties, `IInv` (the inductive invariant of the proofs), `SettledOnce`, `AnswersCount`, and the refinement to `HttpExchange` |
| `Server_liveness` | 2 calls, all capacities 1, 2 runs, services drain | `PendingDrains`, `FinishesCalls` |
| `Server_stalled` | as above, 1 run, services owe nothing | **violated**: finding 1 |
| `Server_connections` | 3 connections, two that offer HTTP/2 and one that does not, 3 runs of the loop | `RunsDisjoint`, `GaugeCounts`, `IInv`, `Rebinds`, `BacklogSettles` |
| `Client_safety` | 1 socket, 2 descriptors, 2 requests, both protocols, queue 2, 2 runs of the processor, main may stop | the safety and action properties, `IInv`, and the refinement to `HttpExchange` |
| `Client_liveness` | 1 socket, 2 requests, both protocols, queue 1, HTTP/1.1 bodies come with their head | `RequestsSettle`, `Reconnects`, `QueueMoves` |
| `Client_split_body` | HTTP/1.1, bodies may come after their head | **violated**: finding 2 |
| `Client_min_socket` | 2 sockets, HTTP/1.1 | **violated**: finding 3 |
| `Client_closed_link` | 1 socket, HTTP/1.1 | **violated**: finding 4 |
| `Client_shutdown` | 1 socket, HTTP/2 | **violated**: finding 5 |
| `Client_fd_reuse` | 2 sockets, 2 descriptors, HTTP/2 | **violated**: finding 6 |
| `Gateway` | 2 calls, 1 socket, 2 descriptors, 2 registrations, both protocols, all capacities 1, 2 runs of each processor, 1 fault | `StatusTellsOutcome`, `IInv`, `ServerHolds` |

Deadlock is not checked: the systems may stop (main shuts the processor down, or all calls and
connections are done).

**Bounds.** Two calls are the least that can be confused, block each other, or fill a queue
of one; a queue of one is full as often as it can be, and the internal queue of two holds
the answer and the error of one request, or the answers of two in either order. Two runs are
the least that shows what survives a restart. `MaxEpoch` and `MaxStarts` bound the restarts;
`BusControl`, `Control` and `Notify` send one control message at a time. `MainMayStop` is only
TRUE in `Client_safety`: what the violations show does not need a main that stops. Three
connections and three runs let a run that holds one connection fail while another is in its
backlog and a third waits for the run after. The theorems need none of these bounds.

The second descriptor of `Client_safety` lets its socket connect again while hyper still goes on
with requests on the connection it left. It has one slot: what happens to *other* sockets when one
panics or its processor ends is said by the theorems (`NoOrphans`, `LostWithHolder`, `OneHolder` for
any slots) and not by this run. Two slots with HTTP/2 would break `ListedWhileServing`, by finding 6.
Requests and descriptors are interchangeable there, and TLC uses that symmetry.

In `Gateway`, `MaxGen` 2 lets a socket register again after its first queue is gone, so that the
server's table may list a dead queue and a live one of the same service, and its calls choose
between them. `MaxFaults` bounds what the environment does wrong (a broken connection, a control
message, a failed accept or start, a disconnect) to one per behaviour: one is enough to reach
every status (200, 502, 503, 504), a restart of either processor, a dead queue that is listed, a
late answer and a lost one. Bodies come with their head there (`Split` is empty): finding 2 is not
repeated. Timeouts are no faults and are not bounded. Calls and descriptors are interchangeable
there, and TLC uses that symmetry, which is sound as its properties are about states and steps.
A second socket, or a second fault, makes the instance too large; sockets side by side are in the
client's own runs.

### Properties of the server

- `OneOwner`: a oneshot is open exactly as long as one RequestMsg can settle it: with the
  future, in the channel, in the blocked send, or in the table; never in two of them.
- `OwnData`: data in an HTTP response is that call's own, whatever was late or reordered.
- `ForwardedOnce`: no call is handed to services twice.
- `RestartSettles`: a call that is still waiting belongs to the current run.
- `GatewayCodes`: 202, 502 and 504 imply that a service was handed the request.
- `SettledOnce`: a settled oneshot never changes.
- `AnswersCount`: the loop takes no answer for an open call without settling it, also when the
  service answers before the message is in `pending_req`: `push_with_id` comes after the send, but
  nothing is awaited in between, so that the loop cannot take the answer first.
- `PendingDrains`, `FinishesCalls`: messages leave the table, calls are finished.
- `ImplementsExchange`: every step is a step of `HttpExchange` or a stutter.
- `RunsDisjoint`: a run that listens serves no connection of an earlier run.
- `GaugeCounts`: the gauge is the number of served connections, plus those whose task panicked,
  which never decrement it.
- `Rebinds`: a processor that failed listens again. `BacklogSettles`: who got through to a
  listening socket is accepted or reset, also when the run that listened has failed.

### Properties of the client

- `OneHolder`: queue, HTTP/1.1 loop or HTTP/2 task: one of them, until the answer.
- `NoPipelining`, `OwnResponse`: one request on an HTTP/1.1 connection, and every answer is
  to its own request.
- `ListedWhileServing`, `OrderlyDrain`: a socket is listed while it reads; when it closes in
  order it only drops what was sent with an old table.
- `LostWithHolder`: a request in a queue or with an HTTP/1.1 loop is lost only in the step that ends
  that socket's task; one that HTTP/2 has spawned only by a panic of the adaptor in its own task, and
  alone.
- `NoOrphans`: no socket task outlives `internal_run`.
- `RequestsSettle`, `Reconnects`: requests settle; a socket that closed is started again.
- `QueueMoves`: a full queue of a socket is not full for ever. It is what `ServicesDrain` asks of
  the services of a server, and so what keeps finding 1 away from a server before this client,
  as long as finding 2 does not strike (the run has HTTP/1.1 bodies come with their head).
- `ImplementsExchange`: as for the server, towards the senders of service requests.

### Properties of the gateway

- `StatusTellsOutcome`: data is the backend's whole response to this very call; 502 says that a
  socket got the call and had no whole response to it; "Can't reach service", that it was never
  written to a backend, so that it may be sent again. Of a 502 neither half can be said of the
  backend: the connection may have failed before the request was written, after, or be up.
- `ServerHolds`: the refinement of section 2.

## 4. Fairness

Server: a future whose channel has room sends, a future whose oneshot is settled finishes
(tokio schedules every task), and the loop goes from a send to its
`push_with_id`. The arms of the select! are weakly fair: tokio polls them in a
random order, so none that stays ready is passed over for ever. Weak fairness is enough as the
calls are finitely many. `Expire` is fair because timers elapse. Nothing is assumed of HTTP
clients, of main, or of failures, and services need not answer. `Spec` adds `ServicesDrain`:
services go on *taking* requests. That is an assumption about other processors;
`StalledSpec` leaves it out, and finding 1 is what then happens.

Listener: the select! goes on accepting, a handshake succeeds or fails, a bind does, and ProSA
restarts what failed (`recoverable` in `lib.rs` for the errors of the library; that a bind error is
among those is ProSA's decision and assumed). `ConnectionsEnd` is an assumption about HTTP
clients: none keeps its connection for ever. Without it a restarted processor may never bind.

Client: every socket task, HTTP/2 task and `join_next` goes on; connect and HTTP timers elapse.
The backend owes nothing but the rest of a body that it began (`BodyArrives`, in HTTP/2 only
where the run allows split bodies). A socket that failed or broke is covered by its own steps.
`H2Error` is fair only for a request whose connection is gone: no stream need be reset on one that is
up. Panics of adaptors are never fair.

## 5. Proofs

`HyperServer_proofs` proves, for any set of calls, queues and services, any capacities and
any number of restarts, from `ServerAssumption` alone:

| theorem | states |
|---|---|
| `Invariance` | `Safety => []IInv` |
| `TypeCorrect`, `SingleCustody`, `AtMostOnce` | `TypeOK`, `OneOwner`, `ForwardedOnce` |
| `NoCrossTalk`, `GatewayCodesHold`, `NothingAcrossRestarts` | `OwnData`, `GatewayCodes`, `RestartSettles` |
| `FirstAnswerCounts`, `NoAnswerTooEarly` | `SettledOnce`, `AnswersCount`, action properties |
| `Refinement` | `ImplementsExchange` |

The argument. `OwnData` is not inductive: a wrong answer in the internal queue would break it
one step later. Two ideas make it so. *Provenance*: every copy of an internal request, in the
table, in a service's queue, held by a service, or in the blocked send, and every answer in the
internal queue, names an id that was made and the call it was made for. As an id is made for
one call, the message that an answer pulls belongs to the call whose data it carries.
*Custody*: `OneOwner` says who can settle a oneshot, and its part `Apart` that the places that
keep messages never share one; without it a step that settles one call could reopen or settle
another. `Unsent` adds that what waits in the channel was never forwarded (hence
`ForwardedOnce`), `Current` that the loop only owns calls of its own run (hence
`RestartSettles`), `Origin` whose data and which failures oneshots and responses carry (hence
`OwnData` and `GatewayCodes`). `IInv` is their conjunction; TLC checks it in
`Server_safety`.

`Invariance` has one lemma per conjunct that a group of actions can disturb. `SettledOnce`
follows from `IInv`: every step that settles a oneshot settles one that the loop owns, which
is open. `AnswersCount` follows from custody too: when the loop is in `select!`, a forwarded call
that is still open can only be in the table, and under the one id it was sent with. `Refinement` maps each action to `Begin`, `Answer`, `Abort`, `Leave` or a stutter.

`HyperConnection_proofs` proves, for any finite set of connections, whatever they offer, and any
number of runs, from `ConnectionAssumption`:

| theorem | states |
|---|---|
| `Invariance` | `Safety => []IInv` |
| `OneRunAtATime` | `RunsDisjoint` |
| `GaugeExact` | `GaugeCounts` |

`RunsDisjoint` is not inductive: an accept needs that what is in the backlog came through a run
there was, and the bind of a new run that no task of an earlier run is left. `Reached` adds the
first (no connection waits or is worked on that came through a run yet to come); the second is the
guard of `Bind`, through `Bound` and `Holders`. `GaugeCounts` counts a finite set, and follows from
the library's facts on cardinality, one element more or less at a time.

`HyperClient_proofs` proves, for any slots, descriptors, requests and protocols, any capacity of the
queues, any backends and any number of runs, from the assumptions of the two client modules:

| theorem | states |
|---|---|
| `Invariance` | `Safety => []IInv` |
| `TypeCorrect`, `HeldOnce`, `OneOnTheWire` | `TypeOK`, `OneHolder`, `NoPipelining` |
| `AnswersOwn`, `TasksOwned` | `OwnResponse`, `NoOrphans` |
| `NothingOwedIsDropped`, `LostOnlyWithHolder` | `OrderlyDrain`, `LostWithHolder`, action properties |
| `ServingIsListed` | `ListedWhileServing`, if no two sockets have a descriptor at the same time |
| `Refinement` | `ImplementsExchange` |

Three parts of `IInv` are needed that no property says. `TaskHolds` says what a task has in each of
its phases: an HTTP/1.1 loop has a request exactly from `sending` on, and may still have it while it
closes, when its connection broke under it; a queue and a wire are empty before a socket is listed
and after its task ended; a connected task has a descriptor. Without it a socket that is started
again could begin with what its predecessor left. `Sourced` follows the data back: the response
that is read for a request is its own, and data on the bus is from a whole response (hence
`OwnResponse`). `TakenBack` says that a socket that took its queue back is not listed, and that all
it leaves in its queue came after, from senders with an old table (hence `OrderlyDrain`).
`LostWithHolder` and `Refinement` need one fact more, of steps: a step drops tasks with all they
hold, or loses one HTTP/2 request alone, or answers one request, or moves or delivers some (`RequestStep`).

`ListedWhileServing` is not true of every instance: where HTTP/2 gives a descriptor away before the
task that had it removes its queue, another socket's queue goes with it (finding 6). `ServingIsListed`
has that as its hypothesis, `OwnDescriptors`: no HTTP/2, or one slot. It is proved by a second
invariant on top of `IInv`, that sockets that are connected at the same time have different
descriptors (`DescriptorsApart`) and that main lists each under its own.

`HyperGateway_proofs` proves, for any calls, sockets, descriptors, paths and capacities, and any
number of registrations, runs and faults, from `GatewayAssumption`:

| theorem | states |
|---|---|
| `Invariance` | `Safety => []IInv` |
| `GatewayIsServer` | `ServerHolds` |
| `OutcomeIsTold` | `StatusTellsOutcome` |
| `ServerInvariants`, `ClientInvariants` | `OneOwner`, `OwnData`, `ForwardedOnce`, `RestartSettles`, `GatewayCodes`; `OneHolder`, `NoPipelining`, `OwnResponse`, `NoOrphans`, of the two sides of the gateway |
| `FirstAnswerCounts`, `Refinement` | `SettledOnce` and `ImplementsExchange` of the server in it |

The two proof modules are used as they are, as instances: `ClientAssumptions` and
`ServerAssumptions` prove that the gateway gives their constants values they allow, and `...Same`
that the definitions of the two instances are the same formulas, so that `ClientNextInv` and
`ServerNextInv` are their `NextInv`. What is left is how the two sides belong together, in three
more parts of `IInv`:

- `Registered`: a socket that receives registered, main lists no registration yet to come, and a
  queue has at most one control message (what `Waiting` relies on);
- `Numbered`: what a socket got for a call is the request that the server made for that call, so
  that an answer with `num[c]` is an answer to call c;
- `Told`: what is on the bus, in the oneshot and in the status of a call is what the client
  answered to it, and with `ServiceError` only what has no whole response (its adaptor refuses none).
  It is `StatusTellsOutcome`, followed back through every place an answer passes.

`GatewayIsServer` splits the steps of the client by what they are for the queues (`StepKind`): they
leave all of them alone, take the head of one, refuse it, or answer what was taken. Beside that, the state
of each queue may only go as the life of a queue does (`QStateStep`), and only a queue that lives keeps
what it had. Together these are `ServiceTakes`, `ServiceRefuses`, `ServiceReplies`, `ServicesChange` or
a stutter of `HyperServer` (`ClientStep`).

What stays with TLC alone:

- liveness (`PendingDrains`, `FinishesCalls`, `Rebinds`, `BacklogSettles`, `RequestsSettle`,
  `Reconnects`, `QueueMoves`): the prover does not reason about fairness or ENABLED;
- the runs that expect a violation: a counterexample is an instance.

## 6. Findings

1. `server/proc.rs:169` awaits a send to a bounded service queue in an arm of the select!. While
   one service's queue is full, the loop serves no timeout, answer, accept or shutdown:
   `service_timeout` ("Timeout for internal service requests") does not hold. `Server_stalled`.
2. `client/socket.rs:248` reads the body outside of `http_timeout`, and in HTTP/1.1 without
   polling the connection that must deliver it: a body that comes after its head hangs the
   socket and the request ("Timeout for HTTP messages in milliseconds"). `Client_split_body`.
   In HTTP/2 the connection goes on being polled: the body arrives if the backend sends it.
3. `client/proc.rs:192` only logs a socket task that failed: a backend that refused one connect
   stays below `min_socket` ("Minimum number of socket connections per target").
   `Client_min_socket`.
4. `Err(_) = &mut connection` (`client/socket.rs:230`, `269`, `363`) does not match a connection
   that ended with Ok: the service stays exposed without a connection, against "The client exposes
   a service if it is available." `Client_closed_link`. The model keeps a completed
   connection future silent when it is polled again.
5. `client/socket.rs:430` closes an HTTP/2 socket on Shutdown without waiting for the requests it
   spawned, although its comment says "Remove the socket queue and wait message to finish". hyper goes
   on with those that are on the connection. But the future that hands over new ones is dropped when
   `spawn_h2` returns, so that a request the socket had taken, and whose turn had not come, is answered
   with an error though its connection is up. `Client_shutdown`.
6. `client/socket.rs:342` registers a socket under its raw file descriptor. hyper closes an HTTP/2
   connection from a task of its own when it ends, before `close_socket!` removes the queue. A socket
   that connects in between gets the same descriptor and the same id: its queue replaces the other,
   whose removal then takes the new one away. The socket stays connected and serves nothing, against
   "The client exposes a service if it is available." `Client_fd_reuse`.

Read, and without a run: a panic of an adaptor on an HTTP/1.1 connection skips the decrement of the
socket gauge (`GaugeCounts` counts those); `max_socket` is never used; `is_http2` stays set when a later connection
negotiates HTTP/1.1 (it is only logged); handler errors are not counted
(`server/service.rs:79`).

## 7. Plan

Done: the order is by importance, the server first, since it owns the most shared state.

1. `HttpExchange`, `HyperServer`, its runs, `HyperServer_proofs` (done).
2. `HyperClientSocket`, `HyperClient`, their runs (done).
3. `HyperConnection`, its run, `HyperConnection_proofs` (done).
4. `HyperAdaptors`, `HyperGateway` and its run (done). Main's table is part of `HyperServer`'s
   environment (`qstate`) and of the client's (`listed`), and needs no module of its own.
5. Proofs of the client, and of the gateway, so that the theorems of the server carry over to a
   gateway of any size (done).
6. Liveness of the gateway, under the fairness of both processors.
7. `PendingMsgs` in detail: one timer queue, `push_with_id`, `pull` and `pull_msg`, against the set
   used here; timers with an order. It is external code.

## 8. Not modelled

- Contents of HTTP messages, headers, URLs and bodies, and with them the Hello adaptor (a constant
  answer): data conversion. What an adaptor may decide (answer, refuse, fail) is modelled, and for
  the demo adaptors what they do decide.
- Durations: a timer may fire whenever it is armed and its task polls it.
- Settings other than ALPN, TLS and certificates, the message counters and histograms, tracing,
  error texts, the main functions of the examples: no effect on the modelled state.
- A listener on port 0: each run then gets an address of its own, runs overlap, and
  `RunsDisjoint` is about a fixed address only. `HyperServer` allows the overlap.
- Flow control inside HTTP/2, hyper's own limits, TCP.
- The time between a call to main and its effect: `add_proc_queue`, `add_service` and
  `remove_proc_queue` change main's table when the await returns. Processors that still send by an
  older table are modelled (`stale`, and the server's `table` and `announced`).
- A request without data on the client (`take_data` is None): answered like one that the adaptor
  refuses.
