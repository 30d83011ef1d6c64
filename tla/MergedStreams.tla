--------------------------- MODULE MergedStreams ----------------------------
(***************************************************************************)
(* How a source merges the streams of its parts (row groups, files, work   *)
(* units) into the one stream DuckDB pulls.                                *)
(*                                                                         *)
(* With the order preserved, buffered(Parallelism) keeps a queue of parts  *)
(* and try_flatten drains the first of them before it takes the next;      *)
(* without, flatten_unordered(Parallelism) drains several at once.  Both   *)
(* advance only while the consumer, ArrowBatchReader::next in block_on,    *)
(* polls.  The modules of the sources add what goes on inside a part.      *)
(***************************************************************************)
EXTENDS Naturals, Sequences, FiniteSets, Functions, SequencesExt

CONSTANTS
  NumStreams,   \* the parts of the source, in source order
  Parallelism   \* max_read_parallelism

ASSUME MergeAssumption ==
  /\ NumStreams \in Nat
  /\ Parallelism \in Nat \ {0}

VARIABLES
  preserve,   \* preserve_insertion_order
  pulled,     \* how many parts the adapter has pulled
  waiting,    \* the queue of buffered
  merging,    \* the parts being flattened
  consumer,   \* "idle" between two polls, "polling", or how the stream ended
  output      \* the batches the consumer received

mergeVars == <<preserve, pulled, waiting, merging, consumer, output>>

Streams  == 1 .. NumStreams
InFlight == merging \cup Range(waiting)

MergeInit ==
  /\ preserve \in BOOLEAN
  /\ pulled = 0 /\ waiting = <<>> /\ merging = {}
  /\ consumer = "idle" /\ output = <<>>

\* The adapter may pull another part.  buffered is polled only between two
\* parts that try_flatten drains.
EagerRoom ==                     \* mutant: it also pulls while one is drained
  IF preserve THEN Len(waiting) < Parallelism ELSE Cardinality(merging) < Parallelism
Room ==
  IF preserve THEN merging = {} /\ Len(waiting) < Parallelism
              ELSE Cardinality(merging) < Parallelism

Pull(s) ==
  /\ consumer = "polling" /\ Room
  /\ pulled < NumStreams /\ s = pulled + 1
  /\ pulled' = s
  /\ IF preserve THEN waiting' = Append(waiting, s) /\ UNCHANGED merging
                 ELSE merging' = merging \cup {s} /\ UNCHANGED waiting
  /\ UNCHANGED <<preserve, consumer, output>>

\* The order preserved: the next part is the one that waits longest.
AnyTurn(i) == i <= Len(waiting)        \* mutant: whichever comes first
Turn(i)    == i = 1

Advance(s) ==
  /\ consumer = "polling" /\ preserve /\ merging = {}
  /\ Len(waiting) = Parallelism \/ pulled = NumStreams
  /\ \E i \in DOMAIN waiting :
       Turn(i) /\ s = waiting[i] /\ waiting' = RemoveAt(waiting, i)
  /\ merging' = {s}
  /\ UNCHANGED <<preserve, pulled, consumer, output>>

\* The poll returns a batch of part s, or its error.
Emit(s, batch) ==
  /\ consumer = "polling" /\ s \in merging
  /\ output' = Append(output, <<s, batch>>)
  /\ consumer' = "idle"
  /\ UNCHANGED <<preserve, pulled, waiting, merging>>

Fail(s) ==
  /\ consumer = "polling" /\ s \in merging
  /\ consumer' = "failed"
  /\ UNCHANGED <<preserve, pulled, waiting, merging, output>>

\* Part s has no more batches.
Exhaust(s) ==
  /\ consumer = "polling" /\ s \in merging
  /\ merging' = merging \ {s}
  /\ UNCHANGED <<preserve, pulled, waiting, consumer, output>>

\* The poll returns the end of the stream.
End ==
  /\ consumer = "polling"
  /\ merging = {} /\ waiting = <<>> /\ pulled = NumStreams
  /\ consumer' = "ended"
  /\ UNCHANGED <<preserve, pulled, waiting, merging, output>>

Poll ==
  /\ consumer = "idle"
  /\ consumer' = "polling"
  /\ UNCHANGED <<preserve, pulled, waiting, merging, output>>

\* DuckDB releases the Arrow stream: at its end, on an error or early.
Release ==
  /\ consumer \in {"idle", "ended", "failed"}
  /\ consumer' = "dropped"
  /\ UNCHANGED <<preserve, pulled, waiting, merging, output>>

MergeTypeOK ==
  /\ preserve \in BOOLEAN
  /\ pulled \in 0 .. NumStreams
  /\ waiting \in Seq(Streams)
  /\ merging \subseteq Streams
  /\ consumer \in {"idle", "polling", "ended", "failed", "dropped"}
=============================================================================
