---------------------------- MODULE MCWarcIndex -----------------------------
(* Small instances of WarcIndex for TLC: every offset and length in a small *)
(* archive, with entries that end at, or beyond, the largest integer.       *)
EXTENDS WarcIndex

SmallOffsets == 0 .. 4
SmallLengths == 0 .. 2
=============================================================================
