--------------------------- MODULE MCHyperGateway ---------------------------
(* Small instances of HyperGateway for TLC. *)
EXTENDS HyperGateway, TLC

CONSTANTS c1, c2, s1, s2, f1, f2, b1

MCBackend == [s \in Slots |-> b1]

\* Calls and file descriptors are interchangeable.
MCSymmetry == Permutations(Calls) \cup Permutations(Ids)
=============================================================================
