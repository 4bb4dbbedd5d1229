----------------------------- MODULE MCSplitter -----------------------------
EXTENDS Splitter, TLC

(* Socket ids are interchangeable.  Not for the run with liveness. *)
Symmetry == Permutations(Fd)
=============================================================================
