------------------------- MODULE HyperServer_proofs -------------------------
(***************************************************************************)
(* Proofs about HyperServer for every set of calls, queues and services    *)
(* and every capacity.                                                     *)
(***************************************************************************)
EXTENDS HyperServer, TLAPS

-----------------------------------------------------------------------------
\* Sequences: what Append and Tail do to the elements and to distinctness.

LEMMA ElemsEmpty == Elems(<<>>) = {}
BY DEF Elems

LEMMA ElemsAppend ==
    ASSUME NEW S, NEW s \in Seq(S), NEW x \in S
    PROVE  /\ Elems(Append(s, x)) = Elems(s) \cup {x}
           /\ Distinct(s) /\ x \notin Elems(s) => Distinct(Append(s, x))
BY DEF Elems, Distinct

LEMMA ElemsTail ==
    ASSUME NEW S, NEW s \in Seq(S), s # <<>>
    PROVE  /\ Head(s) \in S /\ Tail(s) \in Seq(S)
           /\ Elems(s) = Elems(Tail(s)) \cup {Head(s)}
           /\ Distinct(s) => Distinct(Tail(s)) /\ Head(s) \notin Elems(Tail(s))
<1>1. Head(s) \in S /\ Tail(s) \in Seq(S) /\ Len(s) \in Nat /\ Len(s) > 0
  OBVIOUS
<1>2. /\ Head(s) = s[1]
      /\ Len(Tail(s)) = Len(s) - 1
      /\ \A i \in 1..Len(Tail(s)) : Tail(s)[i] = s[i + 1]
  OBVIOUS
<1>3. Elems(s) \subseteq Elems(Tail(s)) \cup {Head(s)}
  <2> SUFFICES ASSUME NEW i \in 1..Len(s), i # 1
               PROVE  s[i] \in Elems(Tail(s))
    BY <1>2 DEF Elems
  <2>1. i - 1 \in 1..Len(Tail(s)) /\ Tail(s)[i - 1] = s[i]
    BY <1>1, <1>2
  <2> QED BY <2>1 DEF Elems
<1>4. Elems(Tail(s)) \cup {Head(s)} \subseteq Elems(s)
  BY <1>1, <1>2 DEF Elems
<1>5. Distinct(s) => Distinct(Tail(s)) /\ Head(s) \notin Elems(Tail(s))
  BY <1>1, <1>2 DEF Elems, Distinct
<1> QED BY <1>1, <1>3, <1>4, <1>5

LEMMA TailIsShorter ==
    ASSUME NEW S, NEW s \in Seq(S), s # <<>>
    PROVE  Tail(s) # s /\ \A x \in S : Tail(s) # Append(s, x)
<1>1. Len(s) \in Nat /\ Len(Tail(s)) = Len(s) - 1 /\ \A x \in S : Len(Append(s, x)) = Len(s) + 1
  OBVIOUS
<1>2. \A n \in Nat : n - 1 # n /\ n - 1 # n + 1
  OBVIOUS
<1>3. Len(Tail(s)) # Len(s) /\ \A x \in S : Len(Tail(s)) # Len(Append(s, x))
  BY <1>1, <1>2, Zenon
<1> QED BY <1>3, Zenon

LEMMA ElemsIn == ASSUME NEW S, NEW s \in Seq(S) PROVE Elems(s) \subseteq S
BY DEF Elems
-----------------------------------------------------------------------------
\* Type correctness.

LEMMA UnwindType ==
    ASSUME TypeOK, NEW how \in {"ended", "failed"}, Exit(how), busQ' \in Seq(BusMessage)
    PROVE  TypeOK'
<1>1. chan' \in [Calls -> [st: {"none", "open", "closed", "response"} \cup ServiceErrors,
                           of: Calls \cup {None}]]
  BY DEF TypeOK, Exit, Unwind, Dropped
<1>2. /\ ~Forwarding' /\ cur' = NoCur
      /\ pending' = {} /\ httpQ' \in Seq(Calls)
  BY DEF Exit, Unwind, Forwarding
<1> QED BY <1>1, <1>2 DEF TypeOK, Exit, Unwind, svcVars

LEMMA SettleType ==
    ASSUME TypeOK, NEW id, NEW value \in [st: {"closed", "response"} \cup ServiceErrors,
                                           of: Calls \cup {None}],
           PullAndSend(id, value), busQ' \in Seq(BusMessage)
    PROVE  TypeOK'
BY DEF TypeOK, PullAndSend, Settle, svcVars, Forwarding

LEMMA BusType ==
    ASSUME TypeOK, NEW kind, BusHead(kind)
    PROVE  /\ Head(busQ) \in BusMessage /\ Head(busQ).kind = kind
           /\ busQ' \in Seq(BusMessage)
BY DEF TypeOK, BusHead, BusTake

LEMMA ReplyType ==
    ASSUME TypeOK, NEW c \in Calls, NEW r \in [code: Codes, of: Calls \cup {None}],
           reply' = [reply EXCEPT ![c] = r]
    PROVE  reply' \in [Calls -> [code: Codes \cup {0}, of: Calls \cup {None}]]
BY DEF TypeOK

LEMMA CallType ==
    ASSUME TypeOK, NEW c \in Calls, CallNext(c)
    PROVE  TypeOK'
<1> USE DEF TypeOK, loopVars, svcVars, Forwarding
<1>1. CASE BeginCall(c)
  BY <1>1 DEF BeginCall, Open
<1>2. CASE DirectCall(c)
  <2>1. [code |-> 200, of |-> None] \in [code: Codes, of: Calls \cup {None}]
    BY DEF Codes
  <2>2. reply' \in [Calls -> [code: Codes \cup {0}, of: Calls \cup {None}]]
    BY <1>2, <2>1, ReplyType DEF DirectCall
  <2>3. conn' \in [Calls -> Nat]
    BY <1>2 DEF DirectCall
  <2>4. call' \in [Calls -> {"idle", "sending", "waiting", "answered", "aborted", "gone"}]
    BY <1>2 DEF DirectCall
  <2> QED BY <1>2, <2>2, <2>3, <2>4 DEF DirectCall
<1>3. CASE Enqueue(c)
  BY <1>3 DEF Enqueue
<1>4. CASE EnqueueClosed(c)
  BY <1>4 DEF EnqueueClosed, Dropped
<1>5. CASE FinishCall(c)
  <2>1. Code(chan[c].st) \in Codes
    BY DEF Code, Codes, ErrorCode, ServiceErrors
  <2>2. [code |-> Code(chan[c].st), of |-> chan[c].of]
            \in [code: Codes, of: Calls \cup {None}]
    BY <2>1
  <2>3. reply' \in [Calls -> [code: Codes \cup {0}, of: Calls \cup {None}]]
    BY <1>5, <2>2, ReplyType DEF FinishCall
  <2> QED BY <1>5, <2>3 DEF FinishCall
<1>6. CASE Disconnect(c)
  BY <1>6 DEF Disconnect, Dropped
<1> QED BY <1>1, <1>2, <1>3, <1>4, <1>5, <1>6 DEF CallNext

LEMMA LoopType ==
    ASSUME TypeOK, LoopNext
    PROVE  TypeOK'
<1> USE DEF loopVars, callVars, svcVars, Forwarding
<1>1. CASE Start
  BY <1>1 DEF TypeOK, Start
<1>2. CASE StartFails
  BY <1>2 DEF TypeOK, StartFails
<1>3. CASE RecvResponse
  <2>1. BusHead("response") /\ PullAndSend(Head(busQ).id,
            IF Head(busQ).of = None THEN Dropped ELSE Data(Head(busQ).of))
    BY <1>3 DEF RecvResponse
  <2>2. Head(busQ).of \in Calls \cup {None}
    BY <2>1, BusType DEF BusMessage
  <2> QED BY <2>1, <2>2, BusType, SettleType DEF Dropped, Data
<1>4. CASE RecvError
  <2>1. BusHead("error") /\ PullAndSend(Head(busQ).id, Failure(Head(busQ).err))
    BY <1>4 DEF RecvError
  <2>2. Head(busQ).err \in ServiceErrors
    BY <2>1, BusType, ServerAssumption DEF BusMessage
  <2> QED BY <2>1, <2>2, BusType, SettleType DEF Failure
<1>5. CASE RecvService
  <2>1. BusHead("service") /\ table' = Head(busQ).table
    BY <1>5 DEF RecvService
  <2>2. Head(busQ).table \subseteq Queues
    BY <2>1, BusType DEF BusMessage
  <2> QED BY <1>5, <2>1, <2>2, BusType DEF TypeOK, RecvService
<1>6. CASE RecvShutdown
  BY <1>6, BusType, UnwindType DEF RecvShutdown
<1>7. CASE RecvUnsupported
  BY <1>7, BusType, UnwindType DEF RecvUnsupported
<1>8. CASE ForwardHttp
  BY <1>8 DEF TypeOK, ForwardHttp, Candidates
<1>9. CASE RejectHttp
  BY <1>9 DEF TypeOK, RejectHttp, Failure, ServiceErrors
<1>10. CASE SendDone
  <2> DEFINE p == Internal(cur)
  <2>1. p \in Request /\ cur.queue \in Queues
    BY <1>10 DEF TypeOK, SendDone, Request, Internal
  <2>2. svcQ' \in [Queues -> Seq(Request)]
    <3>1. svcQ' = [svcQ EXCEPT ![cur.queue] = Append(@, p)]
      BY <1>10 DEF SendDone
    <3> HIDE DEF p
    <3> QED BY <2>1, <3>1 DEF TypeOK
  <2> QED BY <1>10, <2>1, <2>2 DEF TypeOK, SendDone
<1>14. CASE Push
  <2>1. Internal(cur) \in Request
    BY <1>14 DEF TypeOK, Push, Request, Internal
  <2> QED BY <1>14, <2>1 DEF TypeOK, Push
<1>11. CASE SendFails
  BY <1>11, UnwindType DEF SendFails, TypeOK
<1>12. CASE Expire
  BY <1>12, SettleType DEF Expire, TypeOK, Failure, ServiceErrors
<1>13. CASE AcceptFails
  BY <1>13, UnwindType DEF AcceptFails, TypeOK
<1> QED BY <1>1, <1>2, <1>3, <1>4, <1>5, <1>6, <1>7, <1>8, <1>9, <1>10,
           <1>11, <1>12, <1>13, <1>14 DEF LoopNext

LEMMA AnswerType ==
    ASSUME TypeOK, NEW h \in Request, Answer(h)
    PROVE  busQ' \in Seq(BusMessage)
<1> USE DEF TypeOK
<1>1. h.id \in Nat /\ h.call \in Calls
  BY DEF Request
<1>2. ASSUME NEW m \in BusMessage, BusSend(m) PROVE busQ' \in Seq(BusMessage)
  BY <1>2 DEF BusSend
<1>3. ASSUME NEW of \in {h.call, None}
      PROVE  [kind |-> "response", id |-> h.id, of |-> of] \in BusMessage
  BY <1>1 DEF BusMessage
<1>4. ASSUME NEW err \in Errors
      PROVE  [kind |-> "error", id |-> h.id, err |-> err] \in BusMessage
  BY <1>1 DEF BusMessage
<1> QED BY <1>2, <1>3, <1>4 DEF Answer

LEMMA TakeType ==
    ASSUME TypeOK, NEW q \in Queues, TakeFrom(q)
    PROVE  /\ Head(svcQ[q]) \in Request
           /\ svcQ' \in [Queues -> Seq(Request)]
BY DEF TypeOK, TakeFrom

LEMMA EnvType ==
    ASSUME TypeOK, EnvNext
    PROVE  TypeOK'
<1> USE DEF TypeOK, loopVars, callVars, Forwarding
<1>1. CASE Restart
  BY <1>1 DEF Restart, svcVars
<1>2. CASE BusControl
  BY <1>2 DEF BusControl, BusSend, BusMessage, svcVars
<1>3. CASE Announce
  BY <1>3 DEF Announce, BusSend, BusMessage, Listed
<1>4. CASE ServiceReplies
  <2>1. PICK h \in held : held' = held \ {h} /\ Answer(h)
    BY <1>4 DEF ServiceReplies
  <2>2. busQ' \in Seq(BusMessage)
    BY <2>1, AnswerType
  <2> QED BY <1>4, <2>1, <2>2 DEF ServiceReplies
<1>5. CASE ServicesChange
  <2>1. svcQ' \in [Queues -> Seq(Request)]
    BY <1>5 DEF ServicesChange
  <2>2. qstate' \in [Queues -> DOMAIN QueueSteps] /\ held' \subseteq Request
    BY <1>5 DEF ServicesChange
  <2> QED BY <1>5, <2>1, <2>2 DEF ServicesChange
<1>6. ASSUME NEW q \in Queues, ServiceTakes(q) PROVE TypeOK'
  BY <1>6, TakeType DEF ServiceTakes, TakeFrom
<1>7. ASSUME NEW q \in Queues, ServiceRefuses(q) PROVE TypeOK'
  <2>1. busQ' \in Seq(BusMessage)
    BY <1>7, TakeType, AnswerType DEF ServiceRefuses
  <2> QED BY <1>7, <2>1, TakeType DEF ServiceRefuses, TakeFrom
<1> QED BY <1>1, <1>2, <1>3, <1>4, <1>5, <1>6, <1>7 DEF EnvNext

LEMMA InitType == Init => TypeOK
<1>1. "new" \in DOMAIN QueueSteps
  BY DEF QueueSteps
<1> QED BY <1>1 DEF Init, TypeOK, NoCur, Fresh, NoReply, Forwarding

LEMMA NextType == TypeOK /\ [Next]_vars => TypeOK'
<1>1. TypeOK /\ UNCHANGED vars => TypeOK'
  BY DEF TypeOK, vars, loopVars, callVars, svcVars, Forwarding
<1> QED BY <1>1, CallType, LoopType, EnvType DEF Next
-----------------------------------------------------------------------------
\* The inductive invariant. First the steps of the calls: apart from Enqueue they leave
\* the loop alone, and only touch the oneshot of a call that the loop does not own.

LEMMA SameLoop ==
    ASSUME UNCHANGED loopVars
    PROVE  /\ InLoop' = InLoop /\ Running' = Running
           /\ Apart' = Apart
BY DEF loopVars, InLoop, Running, Apart, Forwarding

LEMMA LoopCalls == TypeOK => InLoop \subseteq Calls /\ \A p \in pending : p.call \in InLoop
BY ElemsIn DEF TypeOK, InLoop, Request

LEMMA SameService ==
    ASSUME UNCHANGED <<sent, pending, cur, loop, busQ, svcVars>>
    PROVE  Provenance' = Provenance
BY DEF Provenance, Valid, svcVars, Forwarding

LEMMA InitInv == Init => IInv
<1> SUFFICES ASSUME Init PROVE IInv
  OBVIOUS
<1>1. InLoop = {} /\ Elems(httpQ) = {} /\ Elems(sent) = {}
  BY ElemsEmpty DEF Init, InLoop, Forwarding
<1>2. Distinct(httpQ) /\ Distinct(sent)
  BY DEF Init, Distinct
<1>3. OneOwner
  BY <1>1, <1>2 DEF Init, OneOwner, Apart, Fresh, Forwarding
<1>4. Provenance
  BY DEF Init, Provenance, Forwarding
<1>5. Unsent /\ Current /\ Origin
  BY <1>1 DEF Init, Unsent, Current, Origin, Fresh, NoReply
<1> QED BY <1>2, <1>3, <1>4, <1>5, InitType DEF IInv, ForwardedOnce

LEMMA BeginCallInv ==
    ASSUME IInv, TypeOK', NEW c \in Calls, BeginCall(c)
    PROVE  IInv'
<1>1. /\ chan'[c] = Open /\ \A d \in Calls \ {c} : chan'[d] = chan[d]
      /\ call[c] = "idle" /\ call'[c] = "sending"
      /\ \A d \in Calls \ {c} : call'[d] = call[d] /\ conn'[d] = conn[d]
      /\ UNCHANGED <<loopVars, reply, sent, httpQ, epoch>>
  BY DEF IInv, TypeOK, BeginCall, loopVars
<1>2. c \notin InLoop
  BY <1>1 DEF IInv, OneOwner, Current, Fresh
<1>3. OneOwner'
  BY <1>1, <1>2, SameLoop DEF IInv, OneOwner, Open
<1>4. Provenance'
  BY SameService DEF IInv, BeginCall, loopVars
<1>5. Unsent' /\ Origin' /\ ForwardedOnce'
  BY <1>1 DEF IInv, Unsent, Origin, Open, ForwardedOnce
<1>6. Current'
  BY <1>1, <1>2, SameLoop, LoopCalls DEF IInv, Current
<1> QED BY <1>3, <1>4, <1>5, <1>6 DEF IInv
LEMMA DirectCallInv ==
    ASSUME IInv, TypeOK', NEW c \in Calls, DirectCall(c)
    PROVE  IInv'
<1>1. /\ call[c] = "idle" /\ call'[c] \in {"answered", "aborted"}
      /\ \A d \in Calls \ {c} : call'[d] = call[d] /\ conn'[d] = conn[d]
      /\ UNCHANGED <<loopVars, chan, sent, httpQ, epoch>>
  BY DEF IInv, TypeOK, DirectCall, loopVars
<1>2. /\ \A d \in Calls \ {c} : reply'[d] = reply[d]
      /\ reply'[c] \in {reply[c], [code |-> 200, of |-> None]}
  BY DEF IInv, TypeOK, DirectCall
<1>3. c \notin InLoop
  BY <1>1 DEF IInv, OneOwner, Current, Fresh
<1>4. OneOwner'
  BY <1>1, SameLoop DEF IInv, OneOwner
<1>5. Provenance'
  BY SameService DEF IInv, DirectCall, loopVars
<1>6. Unsent' /\ ForwardedOnce'
  BY <1>1 DEF IInv, Unsent, ForwardedOnce
<1>7. Current'
  BY <1>1, <1>3, SameLoop, LoopCalls DEF IInv, Current
<1>8. Origin'
  BY <1>1, <1>2 DEF IInv, Origin
<1> QED BY <1>4, <1>5, <1>6, <1>7, <1>8 DEF IInv

LEMMA EnqueueInv ==
    ASSUME IInv, TypeOK', NEW c \in Calls, Enqueue(c)
    PROVE  IInv'
<1>1. /\ call[c] = "sending" /\ call'[c] = "waiting"
      /\ \A d \in Calls \ {c} : call'[d] = call[d]
      /\ UNCHANGED <<chan, conn, reply, sent, loop, epoch, pending, cur>>
      /\ Running /\ conn[c] = epoch
      /\ c \notin InLoop
  BY DEF IInv, TypeOK, OneOwner, Enqueue, ChannelOpen
<1>2. Elems(httpQ') = Elems(httpQ) \cup {c}
  BY ElemsAppend DEF IInv, TypeOK, Enqueue
<1>3. c \notin Elems(httpQ) /\ \A p \in pending : p.call # c
  BY <1>1 DEF InLoop
<1>4. Distinct(httpQ')
  BY <1>3, ElemsAppend DEF IInv, TypeOK, OneOwner, Apart, Enqueue
<1>5. InLoop' = InLoop \cup {c} /\ Running'
  BY <1>1, <1>2 DEF InLoop, Running, Forwarding
<1>6. (Forwarding => cur.call # c) /\ Forwarding' = Forwarding
  BY <1>1 DEF InLoop, Forwarding
<1>7. OneOwner'
  BY <1>1, <1>2, <1>3, <1>4, <1>5, <1>6 DEF IInv, OneOwner, Apart
<1>8. Provenance'
  BY SameService DEF IInv, Enqueue
<1>9. Unsent' /\ ForwardedOnce'
  BY <1>1, <1>2 DEF IInv, Unsent, ForwardedOnce
<1>10. Current'
  BY <1>1, <1>5 DEF IInv, Current
<1>11. Origin'
  BY <1>1 DEF IInv, Origin
<1> QED BY <1>7, <1>8, <1>9, <1>10, <1>11 DEF IInv

\* EnqueueClosed and Disconnect: a future that holds its RequestMsg drops it.
LEMMA DropInv ==
    ASSUME IInv, TypeOK', NEW c \in Calls, EnqueueClosed(c) \/ Disconnect(c)
    PROVE  IInv'
<1>1. /\ call[c] \in {"sending", "waiting"} /\ call'[c] \in {"waiting", "gone"}
      /\ \A d \in Calls \ {c} : call'[d] = call[d] /\ chan'[d] = chan[d]
      /\ chan'[c] = IF call[c] = "sending" THEN Dropped ELSE chan[c]
      /\ UNCHANGED <<loopVars, conn, reply, sent, httpQ, epoch>>
  BY DEF IInv, TypeOK, EnqueueClosed, Disconnect, loopVars
<1>2. call[c] = "sending" => c \notin InLoop
  BY DEF IInv, OneOwner
<1>3. OneOwner'
  BY <1>1, <1>2, SameLoop DEF IInv, OneOwner, Dropped
<1>4. Provenance'
  BY SameService DEF IInv, EnqueueClosed, Disconnect, loopVars
<1>5. Unsent' /\ ForwardedOnce'
  BY <1>1 DEF IInv, Unsent, ForwardedOnce
<1>6. Current'
  BY <1>1, SameLoop DEF IInv, Current
<1>7. Origin'
  BY <1>1 DEF IInv, Origin, Dropped
<1> QED BY <1>3, <1>4, <1>5, <1>6, <1>7 DEF IInv

LEMMA FinishCallInv ==
    ASSUME IInv, TypeOK', NEW c \in Calls, FinishCall(c)
    PROVE  IInv'
<1>1. /\ call[c] = "waiting" /\ call'[c] \in {"answered", "aborted"}
      /\ \A d \in Calls \ {c} : call'[d] = call[d] /\ reply'[d] = reply[d]
      /\ UNCHANGED <<loopVars, conn, chan, sent, httpQ, epoch>>
  BY DEF IInv, TypeOK, FinishCall, loopVars
<1>2. reply'[c] \in {reply[c], [code |-> Code(chan[c].st), of |-> chan[c].of]}
  BY DEF IInv, TypeOK, FinishCall
<1>3. Code(chan[c].st) \in {202, 502, 504} => chan[c].st \in {"NoError", "ProtocolError", "Timeout"}
  BY DEF Code, ErrorCode, ServiceErrors
<1>4. OneOwner'
  BY <1>1, SameLoop DEF IInv, OneOwner
<1>5. Provenance'
  BY SameService DEF IInv, FinishCall, loopVars
<1>6. Unsent' /\ ForwardedOnce'
  BY <1>1 DEF IInv, Unsent, ForwardedOnce
<1>7. Current'
  BY <1>1, SameLoop DEF IInv, Current
<1>8. Origin'
  BY <1>1, <1>2, <1>3 DEF IInv, Origin
<1> QED BY <1>4, <1>5, <1>6, <1>7, <1>8 DEF IInv
-----------------------------------------------------------------------------
\* The steps of internal_run.

\* What is taken from the head of the queue leaves only messages that were there.
LEMMA BusTail ==
    ASSUME TypeOK, NEW kind, BusHead(kind)
    PROVE  \A i \in 1..Len(busQ') : \E j \in 1..Len(busQ) : busQ'[i] = busQ[j]
<1>1. busQ \in Seq(BusMessage) /\ busQ # <<>> /\ busQ' = Tail(busQ)
  BY DEF TypeOK, BusHead, BusTake
<1>2. /\ Len(busQ) \in Nat /\ Len(busQ') = Len(busQ) - 1
      /\ \A i \in 1..Len(busQ') : busQ'[i] = busQ[i + 1]
  BY <1>1
<1> QED BY <1>2

\* Steps that leave custody and answers alone.
LEMMA SameCustody ==
    ASSUME IInv, TypeOK', Provenance',
           UNCHANGED <<loop, epoch, cur, pending, sent, httpQ, callVars>>
    PROVE  IInv'
<1>1. InLoop' = InLoop /\ Running' = Running /\ Apart' = Apart
  BY DEF InLoop, Running, Apart, Forwarding
<1> QED BY <1>1 DEF IInv, OneOwner, ForwardedOnce, Unsent, Current, Origin, callVars

LEMMA IdleLoopInv ==
    ASSUME IInv, TypeOK', Start \/ StartFails \/ Restart
    PROVE  IInv'
<1>1. /\ InLoop = {} /\ ~Running /\ ~Forwarding /\ ~Forwarding'
      /\ UNCHANGED <<cur, pending, sent, httpQ, callVars, busQ, svcVars>>
  BY DEF IInv, Current, Running, Forwarding, Start, StartFails, Restart
<1>2. InLoop' = {}
  BY <1>1 DEF InLoop
<1>3. Apart'
  BY <1>1 DEF IInv, OneOwner, Apart
<1>4. OneOwner'
  BY <1>1, <1>2, <1>3 DEF IInv, OneOwner, callVars
<1>5. Provenance'
  BY <1>1 DEF IInv, Provenance, Valid, svcVars
<1>6. Unsent' /\ ForwardedOnce' /\ Origin' /\ Current'
  BY <1>1, <1>2 DEF IInv, Unsent, ForwardedOnce, Origin, Current, callVars
<1> QED BY <1>4, <1>5, <1>6 DEF IInv

LEMMA UnwindInv ==
    ASSUME IInv, TypeOK', NEW how \in {"ended", "failed"}, Exit(how),
           \A i \in 1..Len(busQ') : \E j \in 1..Len(busQ) : busQ'[i] = busQ[j]
    PROVE  IInv'
<1>1. /\ ~Forwarding' /\ pending' = {} /\ httpQ' = <<>>
      /\ \A c \in Calls : chan'[c] = IF c \in InLoop THEN Dropped ELSE chan[c]
      /\ UNCHANGED <<epoch, sent, call, conn, reply, held, svcQ>>
  BY DEF Exit, Unwind, svcVars, Forwarding
<1>2. InLoop' = {} /\ Elems(httpQ') = {} /\ Distinct(httpQ')
  BY <1>1, ElemsEmpty DEF InLoop, Distinct
<1>3. OneOwner'
  BY <1>1, <1>2 DEF IInv, OneOwner, Apart, Dropped
<1>4. Provenance'
  BY <1>1 DEF IInv, Provenance, Valid
<1>5. Unsent' /\ ForwardedOnce' /\ Origin'
  BY <1>1, <1>2 DEF IInv, Unsent, ForwardedOnce, Origin, Dropped
<1>6. Current'
  <2>1. \A c \in Calls : call[c] = "idle" => c \notin InLoop
    BY DEF IInv, OneOwner, Current, Fresh
  <2> QED BY <1>1, <1>2, <2>1 DEF IInv, Current
<1> QED BY <1>3, <1>4, <1>5, <1>6 DEF IInv

\* A pulled message leaves the custody of the loop, and its oneshot is settled.
LEMMA SettleInv ==
    ASSUME IInv, TypeOK', NEW id, NEW value,
           loop = "select", PullAndSend(id, value),
           value.st \notin {"none", "open"},
           \A p \in Pulled(id) : value.of \in {p.call, None},
           \A i \in 1..Len(busQ') : \E j \in 1..Len(busQ) : busQ'[i] = busQ[j]
    PROVE  IInv'
<1> DEFINE out == {p.call : p \in Pulled(id)}
<1>1. /\ \A c \in Calls : chan'[c] = IF c \in out THEN value ELSE chan[c]
      /\ pending' = pending \ Pulled(id) /\ ~Forwarding /\ ~Forwarding'
      /\ UNCHANGED <<loop, epoch, cur, sent, httpQ, call, conn, reply, svcQ, held>>
  BY DEF PullAndSend, Settle, svcVars, Forwarding
<1>2. /\ out \subseteq InLoop
      /\ \A p \in Pulled(id) : p \in pending /\ p.call \in Elems(sent)
  BY DEF Pulled, InLoop, IInv, Provenance, Valid, Elems
<1>3. InLoop' = InLoop \ out
  <2>1. Elems(httpQ) \cap out = {}
    BY <1>2 DEF IInv, OneOwner, Apart
  <2>2. \A p \in pending : p.call \in out => p \in Pulled(id)
    BY <1>2 DEF IInv, OneOwner, Apart
  <2> QED BY <1>1, <2>1, <2>2 DEF InLoop
<1>4. Apart'
  BY <1>1 DEF IInv, OneOwner, Apart
<1>5. OneOwner'
  BY <1>1, <1>2, <1>3, <1>4 DEF IInv, OneOwner
<1>6. Provenance'
  BY <1>1 DEF IInv, Provenance, Valid
<1>7. Unsent' /\ ForwardedOnce'
  BY <1>1 DEF IInv, Unsent, ForwardedOnce
<1>8. Origin'
  BY <1>1, <1>2 DEF IInv, Origin
<1>9. Current'
  <2>1. \A c \in Calls : call[c] = "idle" => c \notin InLoop
    BY DEF IInv, OneOwner, Current, Fresh
  <2>2. Running' = Running
    BY <1>1 DEF Running, Forwarding
  <2> QED BY <1>1, <1>2, <1>3, <2>1, <2>2 DEF IInv, Current
<1> QED BY <1>5, <1>6, <1>7, <1>8, <1>9 DEF IInv
LEMMA RecvResponseInv ==
    ASSUME IInv, TypeOK', RecvResponse
    PROVE  IInv'
<1> DEFINE m == Head(busQ)
           value == IF m.of = None THEN Dropped ELSE Data(m.of)
<1>1. BusHead("response") /\ PullAndSend(m.id, value) /\ loop = "select"
  BY DEF RecvResponse, BusHead, BusTake
<1>2. m.id \in 1..Len(sent) /\ m.of \in {sent[m.id], None}
  <2>1. m = busQ[1] /\ 1 \in 1..Len(busQ) /\ m.kind = "response"
    BY <1>1 DEF BusHead, BusTake, IInv, TypeOK
  <2> QED BY <2>1 DEF IInv, Provenance
<1>3. \A p \in Pulled(m.id) : p.call = sent[m.id]
  BY DEF Pulled, IInv, Provenance, Valid
<1>4. value.st \notin {"none", "open"} /\ value.of \in {m.of, None}
  BY DEF Dropped, Data
<1>5. \A p \in Pulled(m.id) : value.of \in {p.call, None}
  BY <1>2, <1>3, <1>4
<1> HIDE DEF value, m
<1> QED BY <1>1, <1>4, <1>5, BusTail, SettleInv DEF IInv

LEMMA RecvErrorInv ==
    ASSUME IInv, TypeOK', RecvError
    PROVE  IInv'
<1>1. /\ BusHead("error") /\ loop = "select"
      /\ PullAndSend(Head(busQ).id, Failure(Head(busQ).err))
  BY DEF RecvError, BusHead, BusTake
<1>2. Head(busQ).err \in ServiceErrors
  BY <1>1, BusType, ServerAssumption DEF IInv, BusMessage
<1>3. Failure(Head(busQ).err).st \notin {"none", "open"} /\ Failure(Head(busQ).err).of = None
  BY <1>2 DEF Failure, ServiceErrors
<1> QED BY <1>1, <1>3, BusTail, SettleInv DEF IInv

LEMMA ExpireInv ==
    ASSUME IInv, TypeOK', Expire
    PROVE  IInv'
<1>1. PICK p \in pending : PullAndSend(p.id, Failure("Timeout"))
  BY DEF Expire
<1>2. Failure("Timeout").st = "Timeout" /\ Failure("Timeout").of = None
  BY DEF Failure
<1>3. \A i \in 1..Len(busQ') : \E j \in 1..Len(busQ) : busQ'[i] = busQ[j]
  BY DEF Expire
<1> QED BY <1>1, <1>2, <1>3, SettleInv DEF Expire

LEMMA ExitInv ==
    ASSUME IInv, TypeOK', RecvShutdown \/ RecvUnsupported \/ SendFails \/ AcceptFails
    PROVE  IInv'
<1>1. CASE RecvShutdown
  BY <1>1, BusTail, UnwindInv DEF RecvShutdown, IInv
<1>2. CASE RecvUnsupported
  BY <1>2, BusTail, UnwindInv DEF RecvUnsupported, IInv
<1>3. CASE SendFails
  BY <1>3, UnwindInv DEF SendFails
<1>4. CASE AcceptFails
  BY <1>4, UnwindInv DEF AcceptFails
<1> QED BY <1>1, <1>2, <1>3, <1>4

LEMMA RecvServiceInv ==
    ASSUME IInv, TypeOK', RecvService
    PROVE  IInv'
<1>1. \A i \in 1..Len(busQ') : \E j \in 1..Len(busQ) : busQ'[i] = busQ[j]
  BY BusTail DEF IInv, RecvService
<1>2. Provenance'
  BY <1>1 DEF IInv, Provenance, Valid, Forwarding, RecvService, svcVars
<1> QED BY <1>2, SameCustody DEF RecvService

\* The next request goes from the channel into the blocked send, and gets its id.
LEMMA ForwardHttpInv ==
    ASSUME IInv, TypeOK', ForwardHttp
    PROVE  IInv'
<1> DEFINE c == Head(httpQ)
<1>1. /\ c \in Calls /\ httpQ' = Tail(httpQ)
      /\ Elems(httpQ) = Elems(httpQ') \cup {c}
      /\ Distinct(httpQ') /\ c \notin Elems(httpQ')
  BY ElemsTail DEF IInv, TypeOK, OneOwner, Apart, ForwardHttp
<1>2. /\ loop = "select" /\ loop' = "sending" /\ ~Forwarding /\ Forwarding'
      /\ cur'.id = Len(sent) + 1 /\ cur'.call = c
      /\ sent' = Append(sent, c)
      /\ UNCHANGED <<epoch, pending, call, conn, chan, reply, busQ, svcQ, held>>
  BY DEF ForwardHttp, callVars, svcVars, Forwarding
<1>3. c \notin Elems(sent) /\ \A p \in pending : p.call # c
  BY <1>1 DEF IInv, Unsent, OneOwner, Apart
<1>4. Elems(sent') = Elems(sent) \cup {c} /\ Distinct(sent')
  BY <1>1, <1>2, <1>3, ElemsAppend DEF IInv, TypeOK, ForwardedOnce
<1> HIDE DEF c
<1>5. /\ Len(sent) \in Nat /\ Len(sent') = Len(sent) + 1 /\ sent'[Len(sent) + 1] = c
      /\ \A i \in 1..Len(sent) : sent'[i] = sent[i] /\ i \in 1..Len(sent')
  BY <1>1, <1>2 DEF IInv, TypeOK
<1>6. InLoop' = InLoop /\ Running' /\ c \in InLoop
  BY <1>1, <1>2 DEF InLoop, Running
<1>7. OneOwner'
  BY <1>1, <1>2, <1>3, <1>6 DEF IInv, OneOwner, Apart
<1>8. Provenance'
  <2>1. \A t : Valid(t) => Valid(t)'
    BY <1>5 DEF Valid
  <2>2. Valid(cur)'
    BY <1>2, <1>5 DEF Valid
  <2>3. ASSUME NEW i \in 1..Len(busQ')
        PROVE  /\ busQ'[i].kind \in {"response", "error"} => busQ'[i].id \in 1..Len(sent')
               /\ busQ'[i].kind = "response" => busQ'[i].of \in {sent'[busQ'[i].id], None}
    BY <1>2, <1>5 DEF IInv, Provenance
  <2> QED BY <1>2, <2>1, <2>2, <2>3 DEF IInv, Provenance
<1>9. Unsent'
  <2>1. call[c] \notin {"idle", "sending"}
    BY <1>1, <1>6 DEF IInv, OneOwner, Current, Fresh
  <2> QED BY <1>1, <1>2, <1>4, <2>1 DEF IInv, Unsent
<1>10. Current'
  BY <1>2, <1>6 DEF IInv, Current
<1>11. Origin'
  BY <1>2, <1>4 DEF IInv, Origin
<1> QED BY <1>4, <1>7, <1>8, <1>9, <1>10, <1>11 DEF IInv, ForwardedOnce

LEMMA RejectHttpInv ==
    ASSUME IInv, TypeOK', RejectHttp
    PROVE  IInv'
<1> DEFINE c == Head(httpQ)
<1>1. /\ c \in Calls /\ httpQ' = Tail(httpQ)
      /\ Elems(httpQ) = Elems(httpQ') \cup {c}
      /\ Distinct(httpQ') /\ c \notin Elems(httpQ')
  BY ElemsTail DEF IInv, TypeOK, OneOwner, Apart, RejectHttp
<1>2. /\ loop = "select" /\ ~Forwarding /\ ~Forwarding'
      /\ chan' = [chan EXCEPT ![c] = Failure("UnableToReachService")]
      /\ UNCHANGED <<loop, epoch, cur, pending, sent, call, conn, reply, busQ, svcVars>>
  BY DEF RejectHttp, Forwarding
<1>3. c \in InLoop /\ \A p \in pending : p.call # c
  BY <1>1 DEF InLoop, IInv, OneOwner, Apart
<1> HIDE DEF c
<1>4. /\ chan'[c].st = "UnableToReachService" /\ chan'[c].of = None
      /\ \A d \in Calls \ {c} : chan'[d] = chan[d]
  BY <1>1, <1>2 DEF IInv, TypeOK, Failure
<1>5. InLoop' = InLoop \ {c} /\ Running' = Running
  BY <1>1, <1>2, <1>3 DEF InLoop, Running
<1>6. OneOwner'
  BY <1>1, <1>2, <1>3, <1>4, <1>5 DEF IInv, OneOwner, Apart
<1>7. Provenance'
  BY <1>2, SameService
     DEF IInv
<1>8. Unsent' /\ ForwardedOnce'
  BY <1>1, <1>2 DEF IInv, Unsent, ForwardedOnce
<1>9. Current'
  <2>1. call[c] # "idle"
    BY <1>1, <1>3 DEF IInv, OneOwner, Current, Fresh
  <2> QED BY <1>1, <1>2, <1>4, <1>5, <2>1, LoopCalls DEF IInv, Current
<1>10. Origin'
  BY <1>2, <1>4 DEF IInv, Origin
<1> QED BY <1>6, <1>7, <1>8, <1>9, <1>10 DEF IInv

LEMMA SendDoneInv ==
    ASSUME IInv, TypeOK', SendDone
    PROVE  IInv'
<1> DEFINE p == Internal(cur)
<1>1. /\ Forwarding /\ Forwarding'
      /\ svcQ' = [svcQ EXCEPT ![cur.queue] = Append(@, p)]
      /\ UNCHANGED <<epoch, cur, pending, sent, httpQ, call, conn, chan, reply, busQ, held>>
  BY DEF SendDone, callVars, Forwarding
<1>2. cur.queue \in Queues /\ p \in Request /\ Valid(p)
  BY <1>1 DEF IInv, TypeOK, Request, Provenance, Valid, Internal
<1>3. \A q \in Queues : \A i \in 1..Len(svcQ'[q]) :
         svcQ'[q][i] = p \/ \E j \in 1..Len(svcQ[q]) : svcQ'[q][i] = svcQ[q][j]
  <2> HIDE DEF p
  <2> SUFFICES ASSUME NEW q \in Queues, q = cur.queue
               PROVE  \A i \in 1..Len(svcQ'[q]) :
                         svcQ'[q][i] = p \/ \E j \in 1..Len(svcQ[q]) : svcQ'[q][i] = svcQ[q][j]
    BY <1>1 DEF IInv, TypeOK
  <2>1. svcQ[q] \in Seq(Request) /\ svcQ'[q] = Append(svcQ[q], p)
    BY <1>1 DEF IInv, TypeOK
  <2> QED BY <1>2, <2>1
<1> HIDE DEF p
<1>4. InLoop' = InLoop /\ Running' /\ Running
  BY <1>1 DEF InLoop, Running
<1>5. OneOwner'
  BY <1>1, <1>4 DEF IInv, OneOwner, Apart
<1>6. Provenance'
  <2>1. \A t : Valid(t)' = Valid(t)
    BY <1>1 DEF Valid
  <2> QED BY <1>1, <1>2, <1>3, <2>1 DEF IInv, Provenance
<1>7. Unsent' /\ ForwardedOnce' /\ Origin'
  BY <1>1 DEF IInv, Unsent, ForwardedOnce, Origin
<1>8. Current'
  BY <1>1, <1>4 DEF IInv, Current
<1> QED BY <1>5, <1>6, <1>7, <1>8 DEF IInv

\* The request that the service got takes its place in pending_req.
LEMMA PushInv ==
    ASSUME IInv, TypeOK', Push
    PROVE  IInv'
<1> DEFINE p == Internal(cur)
<1>1. /\ Forwarding /\ ~Forwarding' /\ loop' = "select"
      /\ pending' = pending \cup {p}
      /\ UNCHANGED <<epoch, sent, httpQ, call, conn, chan, reply, busQ, svcQ, held>>
  BY DEF Push, callVars, svcVars, Forwarding
<1>2. p \in Request /\ Valid(p) /\ p.call = cur.call /\ p.id = cur.id
  BY <1>1 DEF IInv, TypeOK, Request, Provenance, Valid, Internal
<1>3. \A r \in pending : r.call # p.call /\ r.id # p.id
  BY <1>1, <1>2 DEF IInv, OneOwner, Apart, Provenance, Valid
<1> HIDE DEF p
<1>4. InLoop' = InLoop /\ Running' /\ Running
  BY <1>1, <1>2 DEF InLoop, Running
<1>5. OneOwner'
  BY <1>1, <1>2, <1>3, <1>4 DEF IInv, OneOwner, Apart
<1>6. Provenance'
  <2>1. \A t : Valid(t)' = Valid(t)
    BY <1>1 DEF Valid
  <2> QED BY <1>1, <1>2, <2>1 DEF IInv, Provenance
<1>7. Unsent' /\ ForwardedOnce' /\ Origin'
  BY <1>1 DEF IInv, Unsent, ForwardedOnce, Origin
<1>8. Current'
  BY <1>1, <1>4 DEF IInv, Current
<1> QED BY <1>5, <1>6, <1>7, <1>8 DEF IInv
-----------------------------------------------------------------------------
\* The steps of the environment move copies of requests and add answers.

LEMMA BusAppend ==
    ASSUME TypeOK, NEW m \in BusMessage, BusSend(m)
    PROVE  \A i \in 1..Len(busQ') : busQ'[i] = m \/ \E j \in 1..Len(busQ) : busQ'[i] = busQ[j]
<1>1. busQ \in Seq(BusMessage) /\ busQ' = Append(busQ, m)
  BY DEF TypeOK, BusSend
<1>2. /\ Len(busQ) \in Nat /\ Len(busQ') = Len(busQ) + 1 /\ busQ'[Len(busQ) + 1] = m
      /\ \A i \in 1..Len(busQ) : busQ'[i] = busQ[i]
  BY <1>1
<1> QED BY <1>2

\* m is an answer to the request h, if it is an answer at all.
Answers(m, h) ==
    /\ m.kind \in {"response", "error"} => m.id = h.id
    /\ m.kind = "response" => m.of \in {h.call, None}

\* What an answer puts in the internal queue names its own request.
LEMMA AnswerInv ==
    ASSUME IInv, NEW h \in Request, Answer(h)
    PROVE  \A i \in 1..Len(busQ') :
              \/ \E j \in 1..Len(busQ) : busQ'[i] = busQ[j]
              \/ Answers(busQ'[i], h)
<1> DEFINE Kept(i) == \E j \in 1..Len(busQ) : busQ'[i] = busQ[j]
           New(i) == Answers(busQ'[i], h)
<1>1. ASSUME NEW of \in {h.call, None}
      PROVE  [kind |-> "response", id |-> h.id, of |-> of] \in BusMessage
  BY DEF BusMessage, Request
<1>2. ASSUME NEW err \in Errors
      PROVE  [kind |-> "error", id |-> h.id, err |-> err] \in BusMessage
  BY DEF BusMessage, Request
<1>3. CASE UNCHANGED busQ
  BY <1>3
<1>4. ASSUME NEW of \in {h.call, None}, BusSend([kind |-> "response", id |-> h.id, of |-> of])
      PROVE  \A i \in 1..Len(busQ') : Kept(i) \/ New(i)
  BY <1>1, <1>4, BusAppend DEF IInv, Answers
<1>5. ASSUME NEW err \in Errors, BusSend([kind |-> "error", id |-> h.id, err |-> err])
      PROVE  \A i \in 1..Len(busQ') : Kept(i) \/ New(i)
  BY <1>2, <1>5, BusAppend DEF IInv, Answers
<1> QED BY <1>3, <1>4, <1>5 DEF Answer

\* A service's queue only loses requests, and the one that is taken is a valid one.
LEMMA TakeInv ==
    ASSUME IInv, NEW q \in Queues, TakeFrom(q)
    PROVE  /\ Valid(Head(svcQ[q])) /\ Head(svcQ[q]) \in Request
           /\ \A r \in Queues : \A i \in 1..Len(svcQ'[r]) :
                 \E j \in 1..Len(svcQ[r]) : svcQ'[r][i] = svcQ[r][j]
<1>1. svcQ[q] \in Seq(Request) /\ svcQ[q] # <<>>
  BY DEF TakeFrom, IInv, TypeOK
<1>2. Head(svcQ[q]) = svcQ[q][1] /\ 1 \in 1..Len(svcQ[q]) /\ Head(svcQ[q]) \in Request
  BY <1>1
<1>3. /\ Len(svcQ[q]) \in Nat /\ Len(Tail(svcQ[q])) = Len(svcQ[q]) - 1
      /\ \A i \in 1..Len(Tail(svcQ[q])) : Tail(svcQ[q])[i] = svcQ[q][i + 1]
  BY <1>1
<1>4. Valid(Head(svcQ[q]))
  BY <1>2 DEF IInv, Provenance
<1>5. svcQ'[q] = Tail(svcQ[q]) /\ \A r \in Queues \ {q} : svcQ'[r] = svcQ[r]
  BY DEF TakeFrom, IInv, TypeOK
<1>6. \A i \in 1..Len(svcQ'[q]) : \E j \in 1..Len(svcQ[q]) : svcQ'[q][i] = svcQ[q][j]
  BY <1>3, <1>5
<1> QED BY <1>2, <1>4, <1>5, <1>6

LEMMA EnvInv ==
    ASSUME IInv, TypeOK', EnvNext
    PROVE  IInv'
<1>1. CASE Restart
  BY <1>1, IdleLoopInv
<1>2. CASE BusControl \/ Announce
  <2>1. PICK m \in BusMessage : BusSend(m) /\ m.kind \notin {"response", "error"}
    <3>1. CASE BusControl
      <4>1. PICK kind \in {"shutdown", "unsupported"} : BusSend([kind |-> kind])
        BY <3>1 DEF BusControl
      <4>2. [kind |-> kind] \in BusMessage
        BY DEF BusMessage
      <4> QED BY <4>1, <4>2
    <3>2. CASE Announce
      <4>1. BusSend([kind |-> "service", table |-> Listed])
        BY <3>2 DEF Announce
      <4>2. [kind |-> "service", table |-> Listed] \in BusMessage
        BY DEF BusMessage, Listed
      <4> QED BY <4>1, <4>2
    <3> QED BY <1>2, <3>1, <3>2
  <2>2. \A i \in 1..Len(busQ') : busQ'[i] = m \/ \E j \in 1..Len(busQ) : busQ'[i] = busQ[j]
    BY <2>1, BusAppend DEF IInv
  <2>3. UNCHANGED <<loop, epoch, cur, pending, sent, httpQ, callVars, held, svcQ>>
    BY <1>2 DEF BusControl, Announce, loopVars, svcVars
  <2>4. Provenance'
    BY <2>1, <2>2, <2>3 DEF IInv, Provenance, Valid, Forwarding
  <2> QED BY <2>3, <2>4, SameCustody
<1>3. CASE ServiceReplies
  <2>1. PICK h \in held : held' = held \ {h} /\ Answer(h)
    BY <1>3 DEF ServiceReplies
  <2>2. Valid(h) /\ h \in Request
    BY DEF IInv, Provenance, TypeOK
  <2>3. UNCHANGED <<loop, epoch, cur, pending, sent, httpQ, callVars, svcQ>>
    BY <1>3 DEF ServiceReplies, loopVars
  <2>4. Provenance'
    <3>1. \A i \in 1..Len(busQ') :
              \/ \E j \in 1..Len(busQ) : busQ'[i] = busQ[j]
              \/ Answers(busQ'[i], h)
      BY <2>1, <2>2, AnswerInv
    <3> QED BY <2>1, <2>2, <2>3, <3>1 DEF IInv, Provenance, Valid, Answers, Forwarding
  <2> QED BY <2>3, <2>4, SameCustody
<1>4. CASE ServicesChange
  <2>1. UNCHANGED <<loop, epoch, cur, pending, sent, httpQ, callVars, busQ>> /\ held' \subseteq held
    BY <1>4 DEF ServicesChange, loopVars
  <2>2. \A q \in Queues : svcQ'[q] = svcQ[q] \/ svcQ'[q] = <<>>
    BY <1>4 DEF ServicesChange
  <2>3. Provenance'
    BY <2>1, <2>2 DEF IInv, Provenance, Valid, Forwarding
  <2> QED BY <2>1, <2>3, SameCustody
<1>5. ASSUME NEW q \in Queues, ServiceTakes(q) \/ ServiceRefuses(q)
      PROVE  IInv'
  <2>1. TakeFrom(q)
    BY <1>5 DEF ServiceTakes, ServiceRefuses
  <2>2. UNCHANGED <<loop, epoch, cur, pending, sent, httpQ, callVars>>
    BY <2>1 DEF TakeFrom, loopVars
  <2>3. \A t : Valid(t)' = Valid(t)
    BY <2>2 DEF Valid
  <2>4. \A h \in held' : Valid(h)
    BY <1>5, <2>1, TakeInv DEF ServiceTakes, ServiceRefuses, IInv, Provenance
  <2>5. \A r \in Queues : \A i \in 1..Len(svcQ'[r]) : Valid(svcQ'[r][i])
    BY <2>1, TakeInv DEF IInv, Provenance
  <2>6. \A i \in 1..Len(busQ') :
          /\ busQ'[i].kind \in {"response", "error"} => busQ'[i].id \in 1..Len(sent)
          /\ busQ'[i].kind = "response" => busQ'[i].of \in {sent[busQ'[i].id], None}
    <3>1. CASE ServiceTakes(q)
      BY <3>1 DEF ServiceTakes, IInv, Provenance
    <3>2. CASE ServiceRefuses(q)
      <4>1. Valid(Head(svcQ[q])) /\ Head(svcQ[q]) \in Request /\ Answer(Head(svcQ[q]))
        BY <2>1, <3>2, TakeInv DEF ServiceRefuses
      <4>2. \A i \in 1..Len(busQ') :
                \/ \E j \in 1..Len(busQ) : busQ'[i] = busQ[j]
                \/ Answers(busQ'[i], Head(svcQ[q]))
        BY <4>1, AnswerInv
      <4> QED BY <4>1, <4>2 DEF IInv, Provenance, Valid, Answers
    <3> QED BY <1>5, <3>1, <3>2
  <2>7. Provenance'
    BY <2>2, <2>3, <2>4, <2>5, <2>6 DEF IInv, Provenance, Forwarding
  <2> QED BY <2>2, <2>7, SameCustody
<1> QED BY <1>1, <1>2, <1>3, <1>4, <1>5 DEF EnvNext

LEMMA CallInv ==
    ASSUME IInv, TypeOK', NEW c \in Calls, CallNext(c)
    PROVE  IInv'
BY BeginCallInv, DirectCallInv, EnqueueInv, DropInv, FinishCallInv DEF CallNext

LEMMA LoopInv ==
    ASSUME IInv, TypeOK', LoopNext
    PROVE  IInv'
BY IdleLoopInv, RecvResponseInv, RecvErrorInv, RecvServiceInv, ExitInv,
   ForwardHttpInv, RejectHttpInv, SendDoneInv, PushInv, ExpireInv DEF LoopNext

LEMMA NextInv == IInv /\ [Next]_vars => IInv'
<1> SUFFICES ASSUME IInv, [Next]_vars PROVE IInv'
  OBVIOUS
<1>1. TypeOK'
  BY NextType DEF IInv
<1>2. CASE UNCHANGED vars
  <2>1. UNCHANGED <<loop, epoch, cur, pending, sent, httpQ, callVars, busQ, svcVars>>
    BY <1>2 DEF vars, loopVars
  <2>2. Provenance'
    BY <2>1, SameService DEF IInv
  <2> QED BY <1>1, <2>1, <2>2, SameCustody
<1> QED BY <1>1, <1>2, CallInv, LoopInv, EnvInv DEF Next

-----------------------------------------------------------------------------
\* The theorems.

\* The inductive invariant holds in every reachable state.
THEOREM Invariance == Safety => []IInv
<1>1. Init => IInv
  BY InitInv
<1>2. IInv /\ [Next]_vars => IInv'
  BY NextInv
<1> QED BY <1>1, <1>2, PTL DEF Safety

\* Every variable keeps its type.
THEOREM TypeCorrect == Safety => []TypeOK
<1>1. IInv => TypeOK
  BY DEF IInv
<1> QED BY <1>1, Invariance, PTL

\* An open oneshot has exactly one RequestMsg that can settle it.
THEOREM SingleCustody == Safety => []OneOwner
<1>1. IInv => OneOwner
  BY DEF IInv
<1> QED BY <1>1, Invariance, PTL

\* The data in an HTTP response is the data computed for its own call.
THEOREM NoCrossTalk == Safety => []OwnData
<1>1. IInv => OwnData
  BY DEF IInv, Origin, OwnData
<1> QED BY <1>1, Invariance, PTL

\* No call is handed to a service twice.
THEOREM AtMostOnce == Safety => []ForwardedOnce
<1>1. IInv => ForwardedOnce
  BY DEF IInv
<1> QED BY <1>1, Invariance, PTL

\* After a restart no call waits on what an earlier run of internal_run accepted.
THEOREM NothingAcrossRestarts == Safety => []RestartSettles
<1>1. IInv => RestartSettles
  BY DEF IInv, OneOwner, Current, RestartSettles
<1> QED BY <1>1, Invariance, PTL

\* A gateway code is only given for a request that a service was sent.
THEOREM GatewayCodesHold == Safety => []GatewayCodes
<1>1. IInv => GatewayCodes
  BY DEF IInv, Origin, GatewayCodes
<1> QED BY <1>1, Invariance, PTL
\* Only a oneshot that is open, or that does not exist yet, is ever changed.
LEMMA SettleKeeps ==
    ASSUME IInv, [Next]_vars, NEW c \in Calls, chan[c].st \notin {"none", "open"}
    PROVE  chan'[c] = chan[c]
<1>1. c \notin InLoop /\ call[c] \notin {"idle", "sending"}
  BY DEF IInv, OneOwner, Current, Fresh
<1>2. ASSUME NEW d \in Calls, CallNext(d) PROVE chan'[c] = chan[c]
  <2>1. d = c => ~BeginCall(d) /\ ~EnqueueClosed(d) /\ ~(Disconnect(d) /\ call[d] = "sending")
    BY <1>1 DEF BeginCall, EnqueueClosed
  <2> QED BY <1>2, <2>1 DEF CallNext, BeginCall, DirectCall, Enqueue, EnqueueClosed,
             FinishCall, Disconnect, IInv, TypeOK
<1>3. ASSUME NEW id, NEW value, PullAndSend(id, value) PROVE chan'[c] = chan[c]
  <2>1. \A p \in Pulled(id) : p.call # c
    BY <1>1, LoopCalls DEF Pulled, IInv
  <2> QED BY <1>3, <2>1 DEF PullAndSend, Settle
<1>4. ASSUME NEW how, Exit(how) PROVE chan'[c] = chan[c]
  BY <1>1, <1>4 DEF Exit, Unwind
<1>5. CASE RejectHttp
  <2>1. Head(httpQ) \in InLoop
    BY <1>5, ElemsTail DEF RejectHttp, InLoop, IInv, TypeOK
  <2> QED BY <1>1, <1>5, <2>1 DEF RejectHttp, IInv, TypeOK
<1>6. CASE LoopNext
  BY <1>3, <1>4, <1>5, <1>6 DEF LoopNext, Start, StartFails, RecvResponse, RecvError, RecvService,
     RecvShutdown, RecvUnsupported, ForwardHttp, SendDone, Push, SendFails, Expire, AcceptFails, callVars
<1>7. CASE EnvNext
  BY <1>7 DEF EnvNext, Restart, BusControl, Announce, ServicesChange, ServiceReplies,
     ServiceTakes, ServiceRefuses, TakeFrom, callVars
<1>8. CASE UNCHANGED vars
  BY <1>8 DEF vars, callVars
<1> QED BY <1>2, <1>6, <1>7, <1>8 DEF Next

\* The first answer of a call is the one that counts.
THEOREM FirstAnswerCounts == Safety => SettledOnce
<1>1. IInv /\ [Next]_vars
         => [\A c \in Calls : chan[c].st \notin {"none", "open"} => chan'[c] = chan[c]]_vars
  BY SettleKeeps
<1> QED BY <1>1, Invariance, PTL DEF Safety, SettledOnce

\* Only an answer for a call that is still pending finds it open, and it settles it.
LEMMA AnswerSettles ==
    ASSUME IInv, NEW value, value.st # "open", loop = "select", NEW id \in 1..Len(sent),
           PullAndSend(id, value)
    PROVE  chan'[sent[id]].st # "open"
<1> DEFINE c == sent[id]
<1>1. c \in Calls /\ c \in Elems(sent)
  BY DEF IInv, TypeOK, Elems
<1>2. chan'[c] = IF \E p \in Pulled(id) : p.call = c THEN value ELSE chan[c]
  BY <1>1 DEF PullAndSend, Settle
<1>3. ASSUME chan[c].st = "open" PROVE \E p \in Pulled(id) : p.call = c
  <2>1. c \in InLoop
    BY <1>1, <1>3 DEF IInv, OneOwner, Unsent
  <2>2. PICK p \in pending : p.call = c
    BY <1>1, <2>1 DEF InLoop, Forwarding, IInv, Unsent
  <2>3. p.id \in 1..Len(sent) /\ sent[p.id] = sent[id]
    BY <2>2 DEF IInv, Provenance, Valid
  <2>4. p.id = id
    BY <2>3 DEF IInv, ForwardedOnce, Distinct
  <2> QED BY <2>2, <2>4 DEF Pulled
<1> QED BY <1>2, <1>3

LEMMA AnswerTaken ==
    ASSUME IInv, [Next]_vars, busQ # <<>>, busQ' = Tail(busQ),
           Head(busQ).kind \in {"response", "error"}
    PROVE  chan'[sent[Head(busQ).id]].st # "open"
<1>1. busQ' # busQ /\ \A m \in BusMessage : ~BusSend(m)
  <2>1. busQ \in Seq(BusMessage)
    BY DEF IInv, TypeOK
  <2> QED BY <2>1, TailIsShorter DEF BusSend
<1>2. Head(busQ).id \in 1..Len(sent)
  <2>1. Head(busQ) = busQ[1] /\ 1 \in 1..Len(busQ)
    BY DEF IInv, TypeOK
  <2> QED BY <2>1 DEF IInv, Provenance
<1>3. ~\E c \in Calls : CallNext(c)
  BY <1>1 DEF CallNext, BeginCall, DirectCall, Enqueue, EnqueueClosed, FinishCall, Disconnect
<1>4. ~EnvNext
  <2>1. ASSUME NEW h \in Request PROVE ~Answer(h)
    <3>1. ASSUME NEW of \in {h.call, None}
          PROVE  [kind |-> "response", id |-> h.id, of |-> of] \in BusMessage
      BY DEF BusMessage, Request
    <3>2. ASSUME NEW err \in Errors
          PROVE  [kind |-> "error", id |-> h.id, err |-> err] \in BusMessage
      BY DEF BusMessage, Request
    <3> QED BY <1>1, <3>1, <3>2 DEF Answer
  <2>2. \A kind \in {"shutdown", "unsupported"} : [kind |-> kind] \in BusMessage
    BY DEF BusMessage
  <2>3. [kind |-> "service", table |-> Listed] \in BusMessage
    BY DEF BusMessage, Listed
  <2>4. ~BusControl /\ ~Announce
    BY <1>1, <2>2, <2>3 DEF BusControl, Announce
  <2>5. ~ServiceReplies
    BY <2>1 DEF ServiceReplies, IInv, TypeOK
  <2>6. ASSUME NEW q \in Queues PROVE ~ServiceTakes(q) /\ ~ServiceRefuses(q)
    BY <1>1, <2>1, TakeType DEF ServiceTakes, ServiceRefuses, IInv
  <2> QED BY <1>1, <2>4, <2>5, <2>6 DEF EnvNext, Restart, ServicesChange
<1>5. RecvResponse \/ RecvError
  <2>1. LoopNext
    BY <1>1, <1>3, <1>4 DEF Next, vars
  <2> QED BY <1>1, <2>1 DEF LoopNext, Start, StartFails, RecvService, RecvShutdown, RecvUnsupported,
         BusHead, BusTake, ForwardHttp, RejectHttp, SendDone, Push, SendFails, Expire, AcceptFails
<1>6. CASE RecvResponse
  BY <1>2, <1>6, AnswerSettles DEF RecvResponse, BusHead, BusTake, Dropped, Data
<1>7. CASE RecvError
  <2>1. Head(busQ).err \in ServiceErrors
    BY <1>7, BusType, ServerAssumption DEF RecvError, IInv, BusMessage
  <2> QED BY <1>2, <1>7, <2>1, AnswerSettles DEF RecvError, BusHead, BusTake, Failure, ServiceErrors
<1> QED BY <1>5, <1>6, <1>7

\* No answer is taken before its request is in pending_req: an open call is settled by it.
THEOREM NoAnswerTooEarly == Safety => AnswersCount
<1>1. IInv /\ [Next]_vars =>
        (busQ # <<>> /\ busQ' = Tail(busQ) /\ Head(busQ).kind \in {"response", "error"} =>
            chan'[sent[Head(busQ).id]].st # "open")
  BY AnswerTaken
<1> QED BY <1>1, Invariance, PTL DEF Safety, AnswersCount

-----------------------------------------------------------------------------
\* The server implements the exchange it promises to its HTTP clients.

LEMMA InitExchange == Init => Exchange!XInit
BY DEF Init, Exchange!XInit, Exchange!NoReply, Phase, NoReply

LEMMA CallExchange ==
    ASSUME IInv, NEW c \in Calls, CallNext(c)
    PROVE  [Exchange!XNext]_<<Phase, reply>>
<1>1. call \in [Calls -> {"idle", "sending", "waiting", "answered", "aborted", "gone"}]
  BY DEF IInv, TypeOK
<1>2. reply \in [Calls -> [code: Codes \cup {0}, of: Calls \cup {None}]]
  BY DEF IInv, TypeOK
<1>3. CASE BeginCall(c)
  <2>1. Exchange!Begin(c)
    BY <1>1, <1>3 DEF BeginCall, Exchange!Begin, Phase
  <2> QED BY <2>1 DEF Exchange!XNext
<1>4. CASE DirectCall(c)
  <2>1. Phase[c] = "idle" /\ 200 \in Codes
    BY <1>4 DEF DirectCall, Phase, Codes
  <2>2. CASE /\ call' = [call EXCEPT ![c] = "answered"]
             /\ reply' = [reply EXCEPT ![c] = [code |-> 200, of |-> None]]
    <3>1. Phase' = [Phase EXCEPT ![c] = "answered"]
      BY <1>1, <2>2 DEF Phase
    <3>2. Exchange!Answer(c)
      BY <2>1, <2>2, <3>1 DEF Exchange!Answer
    <3> QED BY <3>2 DEF Exchange!XNext
  <2>3. CASE call' = [call EXCEPT ![c] = "aborted"] /\ UNCHANGED reply
    <3>1. Exchange!Abort({c})
      BY <1>1, <2>1, <2>3 DEF Exchange!Abort, Phase
    <3> QED BY <3>1 DEF Exchange!XNext
  <2> QED BY <1>4, <2>2, <2>3 DEF DirectCall
<1>5. CASE Enqueue(c) \/ EnqueueClosed(c)
  <2>1. UNCHANGED <<Phase, reply>>
    BY <1>1, <1>5 DEF Enqueue, EnqueueClosed, Phase
  <2> QED BY <2>1
<1>6. CASE FinishCall(c)
  <2>1. Code(chan[c].st) \in Codes /\ chan[c].of \in {c, None}
    BY DEF IInv, Origin, Code, Codes, ErrorCode, ServiceErrors
  <2>2. Phase[c] = "open"
    BY <1>6 DEF FinishCall, Phase
  <2>3. CASE /\ call' = [call EXCEPT ![c] = "answered"]
             /\ reply' = [reply EXCEPT ![c] = [code |-> Code(chan[c].st), of |-> chan[c].of]]
    <3>1. Phase' = [Phase EXCEPT ![c] = "answered"]
      BY <1>1, <2>3 DEF Phase
    <3>2. Exchange!Answer(c)
      BY <2>1, <2>2, <2>3, <3>1 DEF Exchange!Answer
    <3> QED BY <3>2 DEF Exchange!XNext
  <2>4. CASE call' = [call EXCEPT ![c] = "aborted"] /\ UNCHANGED reply
    <3>1. Exchange!Abort({c})
      BY <1>1, <2>2, <2>4 DEF Exchange!Abort, Phase
    <3> QED BY <3>1 DEF Exchange!XNext
  <2> QED BY <1>6, <2>3, <2>4 DEF FinishCall
<1>7. CASE Disconnect(c)
  <2>1. Exchange!Leave(c)
    BY <1>1, <1>7 DEF Disconnect, Exchange!Leave, Phase
  <2> QED BY <2>1 DEF Exchange!XNext
<1> QED BY <1>3, <1>4, <1>5, <1>6, <1>7 DEF CallNext

LEMMA OtherExchange ==
    ASSUME LoopNext \/ EnvNext \/ UNCHANGED vars
    PROVE  UNCHANGED <<Phase, reply>>
<1>1. UNCHANGED <<call, reply>>
  BY DEF vars, callVars, svcVars, LoopNext, Start, StartFails, RecvResponse, RecvError,
     RecvService, RecvShutdown, RecvUnsupported, ForwardHttp, RejectHttp, SendDone, Push, SendFails,
     Expire, AcceptFails, Exit, Unwind, PullAndSend, Settle, EnvNext, Restart, BusControl,
     Announce, ServicesChange, ServiceReplies, ServiceTakes, ServiceRefuses, TakeFrom
<1> QED BY <1>1 DEF Phase

\* Every behaviour of the server is one of the abstract exchange.
THEOREM Refinement == Safety => ImplementsExchange
<1>1. Init => Exchange!XInit
  BY InitExchange
<1>2. IInv /\ [Next]_vars => [Exchange!XNext]_<<Phase, reply>>
  BY CallExchange, OtherExchange DEF Next
<1>3. [Exchange!XNext]_<<Phase, reply>> => [Exchange!XNext]_Exchange!xvars
  BY DEF Exchange!xvars
<1> QED BY <1>1, <1>2, <1>3, Invariance, PTL DEF Safety, ImplementsExchange, Exchange!XSafety
=============================================================================
