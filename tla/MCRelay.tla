------------------------------ MODULE MCRelay ------------------------------
EXTENDS RelayProps, TLC

(* Socket ids are interchangeable.  Not for the runs with liveness. *)
Symmetry == Permutations(Fd)
=============================================================================
