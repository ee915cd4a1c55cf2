------------------------ MODULE MCHyperConnection ------------------------
(* Small instances of HyperConnection for TLC. *)
EXTENDS HyperConnection

CONSTANTS k1, k2, k3

\* Two clients that know HTTP/2, as the HTTP client of this library does, and one that does not.
MCOffers == [c \in Conns |-> IF c = k3 THEN {"http/1.1"} ELSE SocketOffers]
=============================================================================
