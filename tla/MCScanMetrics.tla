--------------------------- MODULE MCScanMetrics ----------------------------
(* Small instances of ScanMetrics for TLC. *)
EXTENDS ScanMetrics, TLC

CONSTANTS a, b, c

ThreeFiles == {a, b, c}
FileSizes  == a :> 2 @@ b :> 0 @@ c :> 1
Symmetry   == Permutations(Threads)
=============================================================================
