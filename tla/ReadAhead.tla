------------------------------ MODULE ReadAhead -----------------------------
(***************************************************************************)
(* open_parquet_paths of rust/src/source/parquet.rs, once the footers are  *)
(* read: one reader per row group, decoded by a task of its own that       *)
(* queues batches under a budget of permits until the consumer takes them, *)
(* or, without read-ahead, decoded by the poll itself.                     *)
(***************************************************************************)
EXTENDS MergedStreams

CONSTANTS
  Sizes,          \* the decoded size of each batch of each row group
  ReadAheadSizes, \* the values of read_ahead_bytes
  MaxPermits      \* u32::MAX

ASSUME ReadAssumption ==
  /\ Sizes \in [Streams -> Seq(Nat)]
  /\ ReadAheadSizes \subseteq Nat
  /\ MaxPermits \in Nat \ {0}

VARIABLES
  readAheadBytes,
  task,      \* the task of each row group, or "inline" without one
  decoded,   \* how many batches its reader has produced
  permits,   \* the free permits of each budget
  channel    \* the unbounded channel of each task

readVars == <<mergeVars, readAheadBytes, task, decoded, permits, channel>>

\* ReadAheadBudget::new and reserve.
Least(a, b)    == IF a < b THEN a ELSE b
Greatest(a, b) == IF a < b THEN b ELSE a
Capacity       == Greatest(1, Least(readAheadBytes, MaxPermits))
PerBatch(size) == 1                    \* mutant: batches are counted, not bytes
Uncapped(size) == Greatest(1, Least(size, MaxPermits))  \* mutant: not clamped to the budget
Reserved(size) == Least(Greatest(1, Least(size, MaxPermits)), Capacity)

\* Each row group has a budget of its own.
SharedBudget(g) == 1                   \* mutant: one budget for all
Budget(g)       == g

Item  == [batch : Nat, permits : Nat]
Error == [batch |-> 0, permits |-> 0]

\* The reader has another batch.
MoreBatches(g) == decoded[g] < Len(Sizes[g])

Alive(g) == task[g] \in {"reading", "reserving"}

ReadInit ==
  /\ MergeInit
  /\ readAheadBytes \in ReadAheadSizes
  /\ task = [g \in Streams |-> "none"]
  /\ decoded = [g \in Streams |-> 0]
  /\ permits = [g \in Streams |-> Capacity]
  /\ channel = [g \in Streams |-> <<>>]

SetTask(g, state) == task' = [task EXCEPT ![g] = state]
-----------------------------------------------------------------------------
\* The row group is pulled: its reader is built and its task spawned.  A
\* reader that does not build is an error in the place of its batches.
OpenRowGroup(g) ==
  /\ Pull(g)
  /\ \/ /\ SetTask(g, IF readAheadBytes = 0 THEN "inline" ELSE "reading")
        /\ UNCHANGED channel
     \/ /\ SetTask(g, "ended")
        /\ channel' = [channel EXCEPT ![g] = <<Error>>]
  /\ UNCHANGED <<readAheadBytes, decoded, permits>>

Decode(g) ==
  /\ task[g] = "reading" /\ MoreBatches(g)
  /\ decoded' = [decoded EXCEPT ![g] = @ + 1]
  /\ SetTask(g, "reserving")
  /\ UNCHANGED <<mergeVars, readAheadBytes, permits, channel>>

\* reserve, then send.  The send fails once the consumer is gone.
Reserve(g) ==
  /\ task[g] = "reserving"
  /\ LET need == Reserved(Sizes[g][decoded[g]]) IN
       /\ permits[Budget(g)] >= need
       /\ IF consumer = "dropped"
          THEN SetTask(g, "ended") /\ UNCHANGED <<permits, channel>>
          ELSE /\ SetTask(g, "reading")
               /\ permits' = [permits EXCEPT ![Budget(g)] = @ - need]
               /\ channel' = [channel EXCEPT ![g] =
                    Append(@, [batch |-> decoded[g], permits |-> need])]
  /\ UNCHANGED <<mergeVars, readAheadBytes, decoded>>

\* The reader yields an error, and nothing after it.
DecodeError(g) ==
  /\ task[g] = "reading"
  /\ SetTask(g, "ended")
  /\ channel' = IF consumer = "dropped" THEN channel
                ELSE [channel EXCEPT ![g] = Append(@, Error)]
  /\ UNCHANGED <<mergeVars, readAheadBytes, decoded, permits>>

ReaderEnd(g) ==
  /\ task[g] = "reading" /\ ~MoreBatches(g)
  /\ SetTask(g, "ended")
  /\ UNCHANGED <<mergeVars, readAheadBytes, decoded, permits, channel>>

Panic(g) ==
  /\ task[g] = "reading"
  /\ SetTask(g, "panicked")
  /\ UNCHANGED <<mergeVars, readAheadBytes, decoded, permits, channel>>

\* AbortOnDropHandle.
Abort(g) ==
  /\ consumer = "dropped" /\ Alive(g)
  /\ SetTask(g, "aborted")
  /\ UNCHANGED <<mergeVars, readAheadBytes, decoded, permits, channel>>
-----------------------------------------------------------------------------
\* The consumer takes the next item; dropping its permit refills the budget.
Take(g) ==
  /\ channel[g] # <<>>
  /\ LET item == Head(channel[g]) IN
       /\ IF item = Error THEN Fail(g) ELSE Emit(g, item.batch)
       /\ permits' = [permits EXCEPT ![Budget(g)] = @ + item.permits]
  /\ channel' = [channel EXCEPT ![g] = Tail(@)]
  /\ UNCHANGED <<readAheadBytes, task, decoded>>

\* Without read-ahead the poll decodes.
TakeInline(g) ==
  /\ task[g] = "inline"
  /\ \/ /\ MoreBatches(g)
        /\ decoded' = [decoded EXCEPT ![g] = @ + 1]
        /\ Emit(g, decoded[g] + 1)
     \/ /\ Fail(g)
        /\ UNCHANGED decoded
  /\ UNCHANGED <<readAheadBytes, task, permits, channel>>

\* The channel is closed and empty: the completion of spawn_row_group turns a
\* panic into an error.
NeverFailed(g) == FALSE                \* mutant: the task's result is ignored
TaskFailed(g)  == task[g] = "panicked"

Complete(g) ==
  /\ channel[g] = <<>>
  /\ task[g] \in {"ended", "panicked"} \/ (task[g] = "inline" /\ ~MoreBatches(g))
  /\ IF TaskFailed(g) THEN Fail(g) ELSE Exhaust(g)
  /\ UNCHANGED <<readAheadBytes, task, decoded, permits, channel>>

Queued(g) == SumFunction([i \in DOMAIN channel[g] |-> channel[g][i].permits])

\* Dropping the stream drops what is queued, and the permits with it.
DropStream ==
  /\ Release
  /\ permits' = [g \in Streams |-> permits[g] + Queued(g)]
  /\ channel' = [g \in Streams |-> <<>>]
  /\ UNCHANGED <<readAheadBytes, task, decoded>>
-----------------------------------------------------------------------------
TaskStep(g) == Decode(g) \/ Reserve(g) \/ ReaderEnd(g)

MergeStep ==
  \/ \E g \in Streams :
       \/ OpenRowGroup(g) \/ Take(g) \/ TakeInline(g) \/ Complete(g)
       \/ Advance(g) /\ UNCHANGED <<readAheadBytes, task, decoded, permits, channel>>
  \/ (Poll \/ End) /\ UNCHANGED <<readAheadBytes, task, decoded, permits, channel>>

ReadNext ==
  \/ MergeStep
  \/ \E g \in Streams : TaskStep(g) \/ DecodeError(g) \/ Panic(g) \/ Abort(g)
  \/ DropStream

ReadSpec == ReadInit /\ [][ReadNext]_readVars

\* DuckDB polls until the stream ends, and the runtime runs every task.
FairReadSpec ==
  /\ ReadSpec
  /\ WF_readVars(MergeStep)
  /\ \A g \in Streams : WF_readVars(TaskStep(g))
-----------------------------------------------------------------------------
ReadTypeOK ==
  /\ MergeTypeOK /\ output \in Seq(Streams \X (Nat \ {0}))
  /\ readAheadBytes \in ReadAheadSizes
  /\ task \in [Streams -> {"none", "inline", "reading", "reserving", "ended", "panicked", "aborted"}]
  /\ \A g \in Streams : decoded[g] \in 0 .. Len(Sizes[g])
  /\ permits \in [Streams -> 0 .. Capacity]
  /\ channel \in [Streams -> Seq(Item)]

\* The batches of a row group queued ahead of the consumer stay within
\* read_ahead_bytes, but for a batch that alone exceeds it; and no permit is
\* ever lost, whether its batch is taken, dropped or never sent (parquet.rs,
\* ReadAheadBudget).
QueuedBytes(g) ==
  SumFunction([i \in DOMAIN channel[g] |->
    IF channel[g][i] = Error THEN 0 ELSE Sizes[g][channel[g][i].batch]])
BudgetKept ==
  \A g \in Streams :
    /\ \/ QueuedBytes(g) <= readAheadBytes
       \/ Cardinality({i \in DOMAIN channel[g] : channel[g][i] # Error}) = 1
    /\ permits[g] + Queued(g) = Capacity

\* The consumer waits for no row group that waits for it: while the stream is
\* held, an open row group has a batch queued, or its end, or its reader can go
\* on, for which a decoded batch finds its permits free whatever its size
\* (parquet.rs, spawn_row_group).
NeverStarved ==
  consumer # "dropped" => \A g \in InFlight :
    \/ channel[g] # <<>>
    \/ task[g] \in {"inline", "reading", "ended", "panicked"}
    \/ /\ task[g] = "reserving"
       /\ permits[Budget(g)] >= Reserved(Sizes[g][decoded[g]])

\* At most max_read_parallelism row groups are open at a time, in both modes,
\* and while the stream is held only those have a task (parquet.rs,
\* open_parquet_paths).
InFlightBounded ==
  /\ Cardinality(InFlight) <= Parallelism
  /\ consumer # "dropped" => \A g \in Streams : Alive(g) => g \in InFlight

\* What the consumer received: no batch twice, the batches of a row group in
\* order, and with the order preserved the row groups in order too, although
\* later ones may be decoded first.
InSourceOrder ==
  \A i, j \in DOMAIN output : i < j =>
    /\ output[i][1] = output[j][1] => output[i][2] < output[j][2]
    /\ preserve => output[i][1] <= output[j][1]

\* A stream that ends without an error delivered every batch of every row
\* group: no failed task passes for a short row group.
NeverTruncated ==
  consumer = "ended" =>
    Range(output) = UNION {{g} \X (1 .. Len(Sizes[g])) : g \in Streams}

\* A scan that keeps polling gets to the end or to an error, also with a batch
\* larger than the whole budget and a later row group that filled its own.
ScanEnds == <>(consumer \in {"ended", "failed", "dropped"})
=============================================================================
