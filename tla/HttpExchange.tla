---------------------------- MODULE HttpExchange ----------------------------
(***************************************************************************)
(* What both processors of ProSA-Hyper promise to their callers, without   *)
(* saying how: a call is finished at most once; when the reply carries     *)
(* data, it is the data computed for that very call; and no call is left   *)
(* hanging. For the server a call is an HTTP request that hyper hands over *)
(* and is answered by an HTTP response; for the client a call is a service *)
(* request from the bus and is answered by a service response or error.    *)
(***************************************************************************)
CONSTANTS
    Calls,      \* the requests, each made once
    Codes,      \* what a reply may say: the HTTP status codes, or the kinds of answer
    NoCode,     \* "no reply yet"
    None        \* "no call": the reply carries no service data

VARIABLES
    phase,      \* Calls -> where the exchange is
    reply       \* Calls -> [code, of]: the response, and whose data it carries

xvars == <<phase, reply>>

Finished == {"answered", "aborted", "gone"}

NoReply == [code |-> NoCode, of |-> None]

XInit ==
    /\ phase = [c \in Calls |-> "idle"]
    /\ reply = [c \in Calls |-> NoReply]

Begin(c) ==
    /\ phase[c] = "idle"
    /\ phase' = [phase EXCEPT ![c] = "open"]
    /\ UNCHANGED reply

\* The response is produced: from the call's own data, or without any data.
Answer(c) ==
    /\ phase[c] \in {"idle", "open"}
    /\ phase' = [phase EXCEPT ![c] = "answered"]
    /\ \E code \in Codes, of \in {c, None} :
          reply' = [reply EXCEPT ![c] = [code |-> code, of |-> of]]

\* Calls end without a reply: the HTTP service future ends in an error, or the socket
\* that holds service requests goes and drops them all.
Abort(ended) ==
    /\ \A c \in ended : phase[c] \in {"idle", "open"}
    /\ phase' = [c \in Calls |-> IF c \in ended THEN "aborted" ELSE phase[c]]
    /\ UNCHANGED reply

\* The caller itself went away.
Leave(c) ==
    /\ phase[c] = "open"
    /\ phase' = [phase EXCEPT ![c] = "gone"]
    /\ UNCHANGED reply

XNext ==
    \/ \E c \in Calls : Begin(c) \/ Answer(c) \/ Leave(c)
    \/ \E ended \in SUBSET Calls : Abort(ended)

XSafety == XInit /\ [][XNext]_xvars

\* No exchange stays open for ever.
XFinishes == \A c \in Calls : phase[c] = "open" ~> phase[c] \in Finished

XSpec == XSafety /\ XFinishes
=============================================================================
