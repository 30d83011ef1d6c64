---------------------------- MODULE MCReadAhead -----------------------------
(* Small instances of ReadAhead for TLC. *)
EXTENDS ReadAhead

\* A batch larger than the budget, one whose size saturates, an empty row
\* group, a batch of no bytes.
BatchSizes == <<<<1, 3, 1>>, <<>>, <<6, 0>>, <<1>>>>
=============================================================================
