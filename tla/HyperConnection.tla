-------------------------- MODULE HyperConnection --------------------------
(***************************************************************************)
(* The listening socket of the HTTP server and the connections accepted    *)
(* from it, over the runs of HyperServerProc::internal_run. Each accepted  *)
(* connection is handed to a detached task that makes the handshake,       *)
(* serves the connection over the protocol that was negotiated, and counts *)
(* it in a gauge. The task owns a clone of the listener's Arc until it     *)
(* ends.                                                                   *)
(*                                                                         *)
(* Environment: the HTTP clients, the operating system (one listening      *)
(* socket per address, which is kept while any Arc of it is), ProSA.       *)
(***************************************************************************)
EXTENDS Integers, Sequences, FiniteSets

CONSTANTS
    Conns,          \* connections that HTTP clients open, each once
    Tls,            \* url_is_ssl: the listener speaks TLS
    Offers,         \* Conns -> the protocols that the client offers by ALPN
    MaxRuns,        \* bound: how often internal_run gets its listener
    None

ASSUME ConnectionAssumption ==
    /\ IsFiniteSet(Conns)
    /\ Tls \in BOOLEAN
    /\ Offers \in [Conns -> SUBSET {"h2", "http/1.1"}]
    /\ MaxRuns \in Nat \ {0}

VARIABLES
    loop,           \* where internal_run is
    run,            \* how often it got its listener
    conn,           \* Conns -> where the connection is
    from,           \* Conns -> the run whose listening socket the client reached
    gauge           \* prosa_hyper_srv_socket: connections per version

vars == <<loop, run, conn, from, gauge>>

\* "Set default protocol to HTTP2": what the server accepts, in its order.
Alpn == IF Tls THEN <<"h2", "http/1.1">> ELSE <<>>

\* What a socket of this library's client offers, over TLS.
SocketOffers == {"h2", "http/1.1"}

\* The server's first protocol that the client offers too.
Selected(c) ==
    LET common == SelectSeq(Alpn, LAMBDA p : p \in Offers[c])
    IN  IF common = <<>> THEN None ELSE Head(common)

Versions == {"HTTP/1.1", "HTTP/2"}
Version(c) == IF Selected(c) = "h2" THEN "HTTP/2" ELSE "HTTP/1.1"

\* The states of a connection whose task runs.
Tasked == {"handshake", "serving"}

\* Faulty: the task drops its clone of the listener after the handshake.
HoldersUntilHandshake(f, n) == {c \in Conns : f[c] = "handshake" /\ from[c] = n}

\* Faulty: the clone of a connection that was closed is leaked.
HoldersLeak(f, n) == {c \in Conns : f[c] \in Tasked \cup {"closed"} /\ from[c] = n}

\* The tasks that own a clone of run n's listener, when the connections are as f says.
Holders(f, n) == {c \in Conns : f[c] \in Tasked /\ from[c] = n}

\* Run n's listening socket is open, when the loop is in l.
Bound(f, l, n) == (n = run /\ l = "listening") \/ Holders(f, n) # {}

\* The connections and the loop change; what is still in the backlog of a listening socket
\* that is now closed is reset.
Become(f, l) ==
    /\ loop' = l
    /\ conn' = [c \in Conns |-> IF f[c] = "backlog" /\ ~Bound(f, l, from[c]) THEN "reset" ELSE f[c]]

-----------------------------------------------------------------------------
\* internal_run.

\* listener.bind(): an address has one listening socket.
Bind ==
    /\ loop = "starting"
    /\ \A n \in 1..run : ~Bound(conn, loop, n)
    /\ loop' = "listening" /\ run' = run + 1
    /\ UNCHANGED <<conn, from, gauge>>

\* Faulty: the error ends the processor for good.
BindFailsForGood ==
    /\ loop = "starting"
    /\ \E n \in 1..run : Bound(conn, loop, n)
    /\ loop' = "ended"
    /\ UNCHANGED <<run, conn, from, gauge>>

BindFails ==
    /\ loop = "starting"
    /\ \E n \in 1..run : Bound(conn, loop, n)
    /\ loop' = "failed"
    /\ UNCHANGED <<run, conn, from, gauge>>

\* accept_raw: the connection gets a task of its own.
Accept(c) ==
    /\ loop = "listening"
    /\ conn[c] = "backlog" /\ from[c] = run
    /\ conn' = [conn EXCEPT ![c] = "handshake"]
    /\ UNCHANGED <<loop, run, from, gauge>>

\* internal_run returns: on shutdown, or with the error of an accept or a send.
LoopEnds ==
    /\ loop = "listening"
    /\ \E how \in {"failed", "ended"} : Become(conn, how)
    /\ UNCHANGED <<run, from, gauge>>

\* A recoverable error: ProSA runs the processor again.
Restart ==
    /\ loop = "failed" /\ run < MaxRuns
    /\ loop' = "starting"
    /\ UNCHANGED <<run, conn, from, gauge>>

-----------------------------------------------------------------------------
\* The task of one connection.

Count(c, d) == gauge' = [gauge EXCEPT ![Version(c)] = @ + d]

\* The task is over, and with it its clone of the listener.
TaskEnds(c, how) == Become([conn EXCEPT ![c] = how], loop) /\ UNCHANGED <<run, from>>

HandshakeOk(c) ==
    /\ conn[c] = "handshake"
    /\ conn' = [conn EXCEPT ![c] = "serving"]
    /\ Count(c, 1)
    /\ UNCHANGED <<loop, run, from>>

HandshakeFails(c) == conn[c] = "handshake" /\ TaskEnds(c, "closed") /\ UNCHANGED gauge

\* serve_connection returns Ok: the client closed it.
ServeOk(c) == conn[c] = "serving" /\ TaskEnds(c, "closed") /\ Count(c, -1)

\* Faulty: the error returns from the task.
ServeErrReturns(c) == conn[c] = "serving" /\ TaskEnds(c, "closed") /\ UNCHANGED gauge

\* serve_connection fails: a transport error, or the error of an HTTP/1.1 service future.
ServeErr(c) == conn[c] = "serving" /\ TaskEnds(c, "closed") /\ Count(c, -1)

\* A panic of the adaptor unwinds the task, which is the connection's for HTTP/1.1 (hyper
\* runs every HTTP/2 request in a task of its own).
ServePanics(c) ==
    /\ conn[c] = "serving" /\ Version(c) = "HTTP/1.1"
    /\ TaskEnds(c, "panicked")
    /\ UNCHANGED gauge

-----------------------------------------------------------------------------
\* The environment: a client connects to the listening socket there is. The kernel
\* completes the connection whether or not anybody accepts it.
ClientConnects(c) ==
    /\ conn[c] = "none"
    /\ \E n \in 1..run :
          /\ Bound(conn, loop, n)
          /\ from' = [from EXCEPT ![c] = n]
    /\ conn' = [conn EXCEPT ![c] = "backlog"]
    /\ UNCHANGED <<loop, run, gauge>>

ClientLeaves(c) ==
    /\ conn[c] = "backlog"
    /\ conn' = [conn EXCEPT ![c] = "closed"]
    /\ UNCHANGED <<loop, run, from, gauge>>

-----------------------------------------------------------------------------
Init ==
    /\ loop = "starting" /\ run = 0
    /\ conn = [c \in Conns |-> "none"]
    /\ from = [c \in Conns |-> 0]
    /\ gauge = [v \in Versions |-> 0]

Serve(c) == ServeOk(c) \/ ServeErr(c) \/ ServePanics(c)

ConnNext(c) ==
    \/ Accept(c) \/ HandshakeOk(c) \/ HandshakeFails(c) \/ Serve(c)
    \/ ClientConnects(c) \/ ClientLeaves(c)

Next == Bind \/ BindFails \/ LoopEnds \/ Restart \/ \E c \in Conns : ConnNext(c)

\* The select! goes on accepting, handshakes come to an end, and ProSA restarts what failed.
Fairness ==
    /\ WF_vars(Bind \/ BindFails) /\ WF_vars(Restart)
    /\ \A c \in Conns : WF_vars(Accept(c)) /\ WF_vars(HandshakeOk(c) \/ HandshakeFails(c))

\* The assumption on the HTTP clients: no connection is kept for ever.
ConnectionsEnd == \A c \in Conns : WF_vars(Serve(c))

Safety == Init /\ [][Next]_vars
Spec   == Safety /\ Fairness /\ ConnectionsEnd

-----------------------------------------------------------------------------
\* Properties.

\* Every variable has its type.
TypeOK ==
    /\ loop \in {"starting", "listening", "failed", "ended"}
    /\ run \in Nat
    /\ conn \in [Conns -> Tasked \cup {"none", "backlog", "reset", "closed", "panicked"}]
    /\ from \in [Conns -> Nat]
    /\ gauge \in [Versions -> Int]

\* A run that listens serves no connection of an earlier run: the tasks of the earlier run
\* keep its listening socket, so that the address is only free once they are all gone.
\* No two runs ever work on connections at the same time.
RunsDisjoint ==
    \A c \in Conns : conn[c] \in Tasked => from[c] <= run /\ (loop = "listening" => from[c] = run)

Counted(v) == {c \in Conns : Version(c) = v /\ conn[c] \in {"serving", "panicked"}}

\* The gauge is the number of connections of each version, plus those whose task panicked.
GaugeCounts == \A v \in Versions : gauge[v] = Cardinality(Counted(v))

\* What still waits or is worked on came through the listening socket of a run there was.
Reached == \A c \in Conns : conn[c] \in Tasked \cup {"backlog"} => from[c] \in 1..run

\* The inductive invariant behind the safety properties.
IInv == TypeOK /\ Reached /\ RunsDisjoint /\ GaugeCounts

\* When connections end, a processor that failed listens again (within the bound on runs).
Rebinds == loop = "failed" /\ run < MaxRuns ~> loop = "listening"

\* When connections end, a client that got through to the listening socket is accepted or
\* reset, also when the run that listened has failed.
BacklogSettles == \A c \in Conns : conn[c] = "backlog" ~> conn[c] # "backlog"
=============================================================================
