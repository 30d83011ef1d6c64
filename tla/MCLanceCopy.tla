---------------------------- MODULE MCLanceCopy -----------------------------
(* Small instances of LanceCopy for TLC. *)
EXTENDS LanceCopy, TLC

ThreadSymmetry == Permutations(Threads)
=============================================================================
