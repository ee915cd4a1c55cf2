--------------------------- MODULE MCHyperServer ---------------------------
(* Small instances of HyperServer for TLC. *)
EXTENDS HyperServer

CONSTANTS c1, c2, c3, q1, q2, web, api

\* c1 and c2 ask for the service of q1, c3 for that of q2.
MCTarget == [c \in Calls |-> IF c = c3 THEN api ELSE web]
MCServes == [q \in Queues |-> IF q = q2 THEN api ELSE web]
=============================================================================
