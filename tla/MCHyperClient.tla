--------------------------- MODULE MCHyperClient ---------------------------
(* Small instances of HyperClient for TLC. *)
EXTENDS HyperClient, TLC

CONSTANTS s1, s2, r1, r2, r3, b1, f1, f2

\* All sockets belong to one backend: min_socket is their number.
MCBackend == [s \in Slots |-> b1]

\* No requests, and no descriptors, are told apart. For the run without liveness.
MCSymmetry == Permutations(Requests) \cup Permutations(Ids)
=============================================================================
