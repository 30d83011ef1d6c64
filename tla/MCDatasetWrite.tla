--------------------------- MODULE MCDatasetWrite ---------------------------
(* Small instances of DatasetWrite for TLC. *)
EXTENDS DatasetWrite, TLC

WriterSymmetry == Permutations(Writers)
WriteSymmetry  == Permutations(Writers) \cup Permutations(Batches)
=============================================================================
