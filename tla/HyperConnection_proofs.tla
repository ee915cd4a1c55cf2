----------------------- MODULE HyperConnection_proofs -----------------------
(***************************************************************************)
(* Proofs about HyperConnection for every finite set of connections,       *)
(* whatever they offer, and any number of runs.                            *)
(***************************************************************************)
EXTENDS HyperConnection, FiniteSetTheorems, TLAPS

-----------------------------------------------------------------------------
\* Who is counted.

LEMMA CountedFinite == ASSUME NEW v PROVE IsFiniteSet(Counted(v))
<1>1. Counted(v) \subseteq Conns
  BY DEF Counted
<1> QED BY <1>1, ConnectionAssumption, FS_Subset DEF ConnectionAssumption

LEMMA VersionType == ASSUME NEW c PROVE Version(c) \in Versions
BY DEF Version, Versions

\* Connections that are served, or whose task panicked, stay as they are.
LEMMA SameCounted ==
    ASSUME GaugeCounts, UNCHANGED gauge,
           \A c \in Conns : conn'[c] \in {"serving", "panicked"} <=> conn[c] \in {"serving", "panicked"}
    PROVE  GaugeCounts'
<1>1. \A v \in Versions : Counted(v)' = Counted(v)
  BY DEF Counted
<1> QED BY <1>1 DEF GaugeCounts

\* One connection is counted, or no longer counted.
LEMMA OneMore ==
    ASSUME TypeOK, GaugeCounts, NEW c \in Conns, Count(c, 1),
           conn[c] = "handshake", conn' = [conn EXCEPT ![c] = "serving"]
    PROVE  GaugeCounts'
<1> SUFFICES ASSUME NEW v \in Versions PROVE gauge'[v] = Cardinality(Counted(v)')
  BY DEF GaugeCounts
<1>1. CASE v = Version(c)
  <2>1. Counted(v)' = Counted(v) \cup {c} /\ c \notin Counted(v)
    BY <1>1 DEF Counted, TypeOK
  <2>2. Cardinality(Counted(v) \cup {c}) = Cardinality(Counted(v)) + 1
    BY <2>1, CountedFinite, FS_AddElement
  <2> QED BY <1>1, <2>1, <2>2 DEF Count, GaugeCounts, TypeOK
<1>2. CASE v # Version(c)
  <2>1. Counted(v)' = Counted(v)
    BY <1>2 DEF Counted, TypeOK
  <2> QED BY <1>2, <2>1 DEF Count, GaugeCounts, TypeOK
<1> QED BY <1>1, <1>2

LEMMA OneLess ==
    ASSUME TypeOK, GaugeCounts, NEW c \in Conns, Count(c, -1),
           conn[c] = "serving", TaskEnds(c, "closed")
    PROVE  GaugeCounts'
<1> SUFFICES ASSUME NEW v \in Versions PROVE gauge'[v] = Cardinality(Counted(v)')
  BY DEF GaugeCounts
<1>1. CASE v = Version(c)
  <2>1. Counted(v)' = Counted(v) \ {c} /\ c \in Counted(v)
    BY <1>1 DEF Counted, TypeOK, TaskEnds, Become
  <2>2. Cardinality(Counted(v) \ {c}) = Cardinality(Counted(v)) - 1
    BY <2>1, CountedFinite, FS_RemoveElement
  <2> QED BY <1>1, <2>1, <2>2, CountedFinite, FS_CardinalityType DEF Count, GaugeCounts, TypeOK
<1>2. CASE v # Version(c)
  <2>1. Counted(v)' = Counted(v)
    BY <1>2 DEF Counted, TypeOK, TaskEnds, Become
  <2> QED BY <1>2, <2>1 DEF Count, GaugeCounts, TypeOK
<1> QED BY <1>1, <1>2

-----------------------------------------------------------------------------
\* The invariant is kept by every step.

LEMMA InitInv == Init => IInv
<1> SUFFICES ASSUME Init PROVE IInv
  OBVIOUS
<1>1. TypeOK /\ Reached /\ RunsDisjoint
  BY DEF Init, TypeOK, Reached, RunsDisjoint, Tasked
<1>2. \A v \in Versions : Counted(v) = {}
  BY DEF Init, Counted
<1> QED BY <1>1, <1>2, FS_EmptySet DEF Init, IInv, GaugeCounts

\* What a step may do to where connections are, when no new task begins.
LEMMA EndingKeeps ==
    ASSUME IInv, run' = run, from' = from, gauge' \in [Versions -> Int],
           loop' = loop \/ loop' \in {"failed", "ended"},
           conn' \in [Conns -> Tasked \cup {"none", "backlog", "reset", "closed", "panicked"}],
           \A c \in Conns : conn'[c] \in Tasked => conn[c] \in Tasked,
           \A c \in Conns : conn'[c] = "backlog" => conn[c] = "backlog"
    PROVE  TypeOK' /\ Reached' /\ RunsDisjoint'
BY DEF IInv, TypeOK, Reached, RunsDisjoint

LEMMA LoopInv ==
    ASSUME IInv, Bind \/ BindFails \/ LoopEnds \/ Restart
    PROVE  IInv'
<1>1. CASE Bind
  <2>1. \A c \in Conns : conn[c] \notin Tasked
    BY <1>1 DEF Bind, Bound, Holders, IInv, Reached
  <2>2. TypeOK' /\ Reached' /\ RunsDisjoint'
    BY <1>1, <2>1 DEF Bind, IInv, TypeOK, Reached, RunsDisjoint
  <2>3. GaugeCounts'
    BY <1>1, SameCounted DEF Bind, IInv
  <2> QED BY <2>2, <2>3 DEF IInv
<1>2. CASE BindFails \/ Restart
  <2>1. TypeOK' /\ Reached' /\ RunsDisjoint'
    BY <1>2 DEF BindFails, Restart, IInv, TypeOK, Reached, RunsDisjoint
  <2>2. GaugeCounts'
    BY <1>2, SameCounted DEF BindFails, Restart, IInv
  <2> QED BY <2>1, <2>2 DEF IInv
<1>3. CASE LoopEnds
  <2>1. PICK how \in {"failed", "ended"} : Become(conn, how)
    BY <1>3 DEF LoopEnds
  <2>2. \A c \in Conns : conn'[c] = conn[c] \/ (conn[c] = "backlog" /\ conn'[c] = "reset")
    BY <2>1 DEF Become
  <2>3. conn' \in [Conns -> Tasked \cup {"none", "backlog", "reset", "closed", "panicked"}]
    BY <2>1 DEF Become, IInv, TypeOK
  <2>4. TypeOK' /\ Reached' /\ RunsDisjoint'
    BY <1>3, <2>1, <2>2, <2>3, EndingKeeps DEF LoopEnds, Become, IInv, TypeOK, Tasked
  <2>5. GaugeCounts'
    BY <1>3, <2>2, SameCounted DEF LoopEnds, IInv
  <2> QED BY <2>4, <2>5 DEF IInv
<1> QED BY <1>1, <1>2, <1>3

\* The task of c is over.
LEMMA TaskEndsKeeps ==
    ASSUME IInv, NEW c \in Conns, conn[c] \in Tasked, NEW how \in {"closed", "panicked"},
           TaskEnds(c, how), gauge' \in [Versions -> Int]
    PROVE  /\ TypeOK' /\ Reached' /\ RunsDisjoint'
           /\ conn'[c] = how
           /\ \A d \in Conns \ {c} :
                 conn'[d] = conn[d] \/ (conn[d] = "backlog" /\ conn'[d] = "reset")
<1>1. /\ conn'[c] = how
      /\ \A d \in Conns \ {c} :
            conn'[d] = conn[d] \/ (conn[d] = "backlog" /\ conn'[d] = "reset")
  BY DEF TaskEnds, Become, IInv, TypeOK
<1>2. conn' \in [Conns -> Tasked \cup {"none", "backlog", "reset", "closed", "panicked"}]
  BY DEF TaskEnds, Become, IInv, TypeOK
<1>3. loop' = loop /\ run' = run /\ from' = from
  BY DEF TaskEnds, Become
<1>4. TypeOK' /\ Reached' /\ RunsDisjoint'
  BY <1>1, <1>2, <1>3, EndingKeeps DEF Tasked
<1> QED BY <1>1, <1>4

LEMMA TaskInv ==
    ASSUME IInv, NEW c \in Conns,
           HandshakeOk(c) \/ HandshakeFails(c) \/ ServeOk(c) \/ ServeErr(c) \/ ServePanics(c)
    PROVE  IInv'
<1> USE DEF IInv
<1>1. CASE HandshakeOk(c)
  <2>1. gauge' \in [Versions -> Int]
    BY <1>1, VersionType DEF HandshakeOk, Count, TypeOK
  <2>2. TypeOK' /\ Reached' /\ RunsDisjoint'
    BY <1>1, <2>1 DEF HandshakeOk, TypeOK, Reached, RunsDisjoint, Tasked
  <2>3. GaugeCounts'
    BY <1>1, OneMore DEF HandshakeOk
  <2> QED BY <2>2, <2>3
<1>2. CASE HandshakeFails(c)
  <2>1. conn[c] = "handshake" /\ TaskEnds(c, "closed") /\ gauge' = gauge
    BY <1>2 DEF HandshakeFails
  <2>2. gauge' \in [Versions -> Int]
    BY <2>1 DEF TypeOK
  <2>3. /\ TypeOK' /\ Reached' /\ RunsDisjoint'
        /\ conn'[c] = "closed"
        /\ \A d \in Conns \ {c} :
              conn'[d] = conn[d] \/ (conn[d] = "backlog" /\ conn'[d] = "reset")
    BY <2>1, <2>2, TaskEndsKeeps DEF Tasked
  <2>4. GaugeCounts'
    BY <2>1, <2>3, SameCounted
  <2> QED BY <2>3, <2>4
<1>3. CASE ServeOk(c) \/ ServeErr(c)
  <2>1. conn[c] = "serving" /\ TaskEnds(c, "closed") /\ Count(c, -1)
    BY <1>3 DEF ServeOk, ServeErr
  <2>2. gauge' \in [Versions -> Int]
    BY <2>1, VersionType DEF Count, TypeOK
  <2>3. TypeOK' /\ Reached' /\ RunsDisjoint'
    BY <2>1, <2>2, TaskEndsKeeps DEF Tasked
  <2>4. GaugeCounts'
    BY <2>1, OneLess
  <2> QED BY <2>3, <2>4
<1>4. CASE ServePanics(c)
  <2>1. conn[c] = "serving" /\ TaskEnds(c, "panicked") /\ gauge' = gauge
    BY <1>4 DEF ServePanics
  <2>2. gauge' \in [Versions -> Int]
    BY <2>1 DEF TypeOK
  <2>3. /\ TypeOK' /\ Reached' /\ RunsDisjoint'
        /\ conn'[c] = "panicked"
        /\ \A d \in Conns \ {c} :
              conn'[d] = conn[d] \/ (conn[d] = "backlog" /\ conn'[d] = "reset")
    BY <2>1, <2>2, TaskEndsKeeps DEF Tasked
  <2>4. GaugeCounts'
    BY <2>1, <2>3, SameCounted
  <2> QED BY <2>3, <2>4
<1> QED BY <1>1, <1>2, <1>3, <1>4

LEMMA ClientInv ==
    ASSUME IInv, NEW c \in Conns, Accept(c) \/ ClientConnects(c) \/ ClientLeaves(c)
    PROVE  IInv'
<1>1. CASE Accept(c)
  <2>1. TypeOK' /\ Reached' /\ RunsDisjoint'
    BY <1>1 DEF Accept, IInv, TypeOK, Reached, RunsDisjoint, Tasked
  <2>2. GaugeCounts'
    BY <1>1, SameCounted DEF Accept, IInv, TypeOK
  <2> QED BY <2>1, <2>2 DEF IInv
<1>2. CASE ClientConnects(c)
  <2>1. TypeOK' /\ Reached' /\ RunsDisjoint'
    BY <1>2 DEF ClientConnects, IInv, TypeOK, Reached, RunsDisjoint, Tasked
  <2>2. GaugeCounts'
    BY <1>2, SameCounted DEF ClientConnects, IInv, TypeOK
  <2> QED BY <2>1, <2>2 DEF IInv
<1>3. CASE ClientLeaves(c)
  <2>1. TypeOK' /\ Reached' /\ RunsDisjoint'
    BY <1>3 DEF ClientLeaves, IInv, TypeOK, Reached, RunsDisjoint, Tasked
  <2>2. GaugeCounts'
    BY <1>3, SameCounted DEF ClientLeaves, IInv, TypeOK
  <2> QED BY <2>1, <2>2 DEF IInv
<1> QED BY <1>1, <1>2, <1>3

LEMMA StutterInv == IInv /\ UNCHANGED vars => IInv'
<1> SUFFICES ASSUME IInv, UNCHANGED vars PROVE IInv'
  OBVIOUS
<1>1. TypeOK' /\ Reached' /\ RunsDisjoint'
  BY DEF vars, IInv, TypeOK, Reached, RunsDisjoint
<1>2. GaugeCounts'
  BY SameCounted DEF vars, IInv
<1> QED BY <1>1, <1>2 DEF IInv

\* The invariant holds in every state.
THEOREM Invariance == Safety => []IInv
<1>1. IInv /\ [Next]_vars => IInv'
  BY LoopInv, TaskInv, ClientInv, StutterInv DEF Next, ConnNext, Serve
<1> QED BY <1>1, InitInv, PTL DEF Safety

\* No two runs of internal_run work on connections at the same time.
THEOREM OneRunAtATime == Safety => []RunsDisjoint
<1>1. IInv => RunsDisjoint
  BY DEF IInv
<1> QED BY <1>1, Invariance, PTL

\* The gauge is exact but for connections whose task panicked.
THEOREM GaugeExact == Safety => []GaugeCounts
<1>1. IInv => GaugeCounts
  BY DEF IInv
<1> QED BY <1>1, Invariance, PTL
=============================================================================
