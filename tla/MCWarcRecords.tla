--------------------------- MODULE MCWarcRecords ----------------------------
(* Small instances of WarcRecords for TLC. *)
EXTENDS WarcRecords

\* Bodies that fill a batch exactly, exceed it alone or exceed the limit of a
\* BinaryView, an empty body and an empty file.
RecordBodies == <<<<1, 2, 1>>, <<>>, <<0, 4>>, <<2, 2, 9>>>>
=============================================================================
