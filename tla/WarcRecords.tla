----------------------------- MODULE WarcRecords ----------------------------
(***************************************************************************)
(* read_warc (rust/src/source/warc.rs and warc_index.rs): each input is    *)
(* parsed by a task that cuts its records into batches and sends them      *)
(* through a bounded channel.  The inputs are one file, the files of a     *)
(* segment, opened and drained in any order, or the ranges of an index,    *)
(* fetched ahead and drained in archive order.                             *)
(***************************************************************************)
EXTENDS MergedStreams

CONSTANTS
  Bodies,          \* the body length of each record of each input
  BatchSize,       \* batch_size
  MaxBatchBody,    \* MAX_BATCH_BODY_BYTES
  MaxBody          \* u32::MAX, the limit of a BinaryView

ASSUME WarcAssumption ==
  /\ NumStreams >= 1     \* an empty segment or index is an error when it is opened
  /\ Bodies \in [Streams -> Seq(Nat)]
  /\ BatchSize \in Nat \ {0}
  /\ MaxBatchBody \in Nat \ {0}
  /\ MaxBody \in Nat

VARIABLES
  kind,         \* "file", "segment" or "index"
  includeBody,  \* the projection reads the body
  parser,       \* the task of each input
  read,         \* how many records it has put into batches
  batch,        \* the records of the batch it builds
  bodyBytes,    \* the body bytes in that batch
  channel       \* its channel

warcVars == <<mergeVars, kind, includeBody, parser, read, batch, bodyBytes, channel>>
taskVars == <<parser, read, batch, bodyBytes, channel>>

Error           == <<>>    \* no batch is empty, so <<>> stands for an error
ChannelCapacity == 1
Inputs          == IF kind = "file" THEN {1} ELSE Streams

\* One file is opened, and its task spawned, before the first poll.
WarcInit ==
  /\ kind \in {"file", "segment", "index"}
  /\ includeBody \in BOOLEAN
  /\ preserve = (kind = "index")
  /\ pulled = (IF kind = "file" THEN NumStreams ELSE 0)
  /\ merging = (IF kind = "file" THEN {1} ELSE {})
  /\ waiting = <<>> /\ consumer = "idle" /\ output = <<>>
  /\ parser = [s \in Streams |-> IF kind = "file" /\ s = 1 THEN "parsing" ELSE "none"]
  /\ read = [s \in Streams |-> 0]
  /\ batch = [s \in Streams |-> <<>>]
  /\ bodyBytes = [s \in Streams |-> 0]
  /\ channel = [s \in Streams |-> <<>>]

SetParser(s, state) == parser' = [parser EXCEPT ![s] = state]
-----------------------------------------------------------------------------
\* The adapter pulls an input; opening it needs the consumer's polls.
PullInput(s) ==
  /\ Pull(s)
  /\ SetParser(s, "opening")
  /\ UNCHANGED <<kind, includeBody, read, batch, bodyBytes, channel>>

\* A segment file is opened while its stream is polled, an index range is
\* fetched while buffered is.
Opening(s) ==
  /\ consumer = "polling" /\ parser[s] = "opening"
  /\ s \in merging \/ (merging = {} /\ s \in Range(waiting))

OpenInput(s) ==
  /\ Opening(s)
  /\ \/ SetParser(s, "parsing") /\ UNCHANGED channel
     \/ SetParser(s, "ended") /\ channel' = [channel EXCEPT ![s] = <<Error>>]
  /\ UNCHANGED <<mergeVars, kind, includeBody, read, batch, bodyBytes>>

\* buffered yields a range once it is fetched.
AdvanceInput(s) ==
  /\ Advance(s)
  /\ parser[s] # "opening"
  /\ UNCHANGED <<kind, includeBody, taskVars>>
-----------------------------------------------------------------------------
(***************************************************************************)
(* stream_records.                                                         *)
(***************************************************************************)
More(s)    == read[s] < Len(Bodies[s])
BodyLen(s) == IF includeBody THEN Bodies[s][read[s] + 1] ELSE 0

CutAtLimit(s) ==                  \* mutant: checks what is already in the batch
  includeBody /\ bodyBytes[s] > MaxBatchBody
WouldExceedBodyLimit(s) ==
  includeBody /\ bodyBytes[s] + BodyLen(s) > MaxBatchBody

SkipRecord(s) ==                  \* mutant: the record that does not fit is lost
  /\ parser[s] = "parsing" /\ More(s) /\ BodyLen(s) <= MaxBody
  /\ batch[s] # <<>> /\ WouldExceedBodyLimit(s)
  /\ SetParser(s, "sending")
  /\ read' = [read EXCEPT ![s] = @ + 1]
  /\ UNCHANGED <<mergeVars, kind, includeBody, batch, bodyBytes, channel>>

\* A record that does not fit is kept for the next batch.
Cut(s) ==
  /\ parser[s] = "parsing" /\ More(s) /\ BodyLen(s) <= MaxBody
  /\ batch[s] # <<>> /\ WouldExceedBodyLimit(s)
  /\ SetParser(s, "sending")
  /\ UNCHANGED <<mergeVars, kind, includeBody, read, batch, bodyBytes, channel>>

Full(rows, body) == rows = BatchSize \/ body >= MaxBatchBody

AppendRecord(s) ==
  /\ parser[s] = "parsing" /\ More(s) /\ BodyLen(s) <= MaxBody
  /\ batch[s] = <<>> \/ ~WouldExceedBodyLimit(s)
  /\ read' = [read EXCEPT ![s] = @ + 1]
  /\ batch' = [batch EXCEPT ![s] = Append(@, read[s] + 1)]
  /\ bodyBytes' = [bodyBytes EXCEPT ![s] = @ + BodyLen(s)]
  /\ IF Full(Len(batch'[s]), bodyBytes'[s]) THEN SetParser(s, "sending") ELSE UNCHANGED parser
  /\ UNCHANGED <<mergeVars, kind, includeBody, channel>>

\* A record does not parse, its body cannot be read or is too long.
RecordError(s) ==
  /\ parser[s] = "parsing"
  /\ SetParser(s, "failing")
  /\ UNCHANGED <<mergeVars, kind, includeBody, read, batch, bodyBytes, channel>>

\* The last batch goes out short.
DropLast(s) == "ended"            \* mutant: it is dropped
LastStep(s) == IF batch[s] = <<>> THEN "ended" ELSE "sendingLast"

EndOfInput(s) ==
  /\ parser[s] = "parsing" /\ ~More(s)
  /\ SetParser(s, LastStep(s))
  /\ UNCHANGED <<mergeVars, kind, includeBody, read, batch, bodyBytes, channel>>

\* send_batch and take_empty; the parser stops once the consumer is gone.
SendBatch(s) ==
  /\ parser[s] \in {"sending", "sendingLast"}
  /\ consumer = "dropped" \/ Len(channel[s]) < ChannelCapacity
  /\ SetParser(s, IF parser[s] = "sendingLast" \/ consumer = "dropped" THEN "ended" ELSE "parsing")
  /\ channel' = IF consumer = "dropped" THEN channel
                ELSE [channel EXCEPT ![s] = Append(@, batch[s])]
  /\ batch' = [batch EXCEPT ![s] = <<>>]
  /\ bodyBytes' = [bodyBytes EXCEPT ![s] = 0]
  /\ UNCHANGED <<mergeVars, kind, includeBody, read>>

\* spawn_records sends the error of stream_records last.
SendError(s) ==
  /\ parser[s] = "failing"
  /\ consumer = "dropped" \/ Len(channel[s]) < ChannelCapacity
  /\ SetParser(s, "ended")
  /\ channel' = IF consumer = "dropped" THEN channel
                ELSE [channel EXCEPT ![s] = Append(@, Error)]
  /\ UNCHANGED <<mergeVars, kind, includeBody, read, batch, bodyBytes>>

Panic(s) ==
  /\ parser[s] = "parsing"
  /\ SetParser(s, "panicked")
  /\ UNCHANGED <<mergeVars, kind, includeBody, read, batch, bodyBytes, channel>>

Running(s) == parser[s] \in {"parsing", "sending", "sendingLast", "failing"}

\* AbortOnDropHandle.
Abort(s) ==
  /\ consumer = "dropped" /\ Running(s)
  /\ SetParser(s, "aborted")
  /\ UNCHANGED <<mergeVars, kind, includeBody, read, batch, bodyBytes, channel>>
-----------------------------------------------------------------------------
Take(s) ==
  /\ channel[s] # <<>>
  /\ IF Head(channel[s]) = Error THEN Fail(s) ELSE Emit(s, Head(channel[s]))
  /\ channel' = [channel EXCEPT ![s] = Tail(@)]
  /\ UNCHANGED <<kind, includeBody, parser, read, batch, bodyBytes>>

\* The task owned the only sender.
SenderKept(s) == FALSE            \* mutant: the stream keeps one too
Closed(s)     == parser[s] \in {"ended", "panicked"}

\* The channel is closed and empty: the completion of spawn_records reports a
\* panic of the parser.
NeverFailed(s) == FALSE           \* mutant: the task's result is ignored
TaskFailed(s)  == parser[s] = "panicked"

Complete(s) ==
  /\ channel[s] = <<>> /\ Closed(s)
  /\ IF TaskFailed(s) THEN Fail(s) ELSE Exhaust(s)
  /\ UNCHANGED <<kind, includeBody, taskVars>>

\* What is queued is dropped, and inputs still being opened with it.
DropStream ==
  /\ Release
  /\ channel' = [s \in Streams |-> <<>>]
  /\ parser' = [s \in Streams |-> IF parser[s] = "opening" THEN "none" ELSE parser[s]]
  /\ UNCHANGED <<kind, includeBody, read, batch, bodyBytes>>
-----------------------------------------------------------------------------
ParserStep(s) == Cut(s) \/ AppendRecord(s) \/ EndOfInput(s) \/ SendBatch(s) \/ SendError(s)
               \/ (parser[s] = "parsing" /\ More(s) /\ BodyLen(s) > MaxBody /\ RecordError(s))

MergeStep ==
  \/ \E s \in Streams :
       PullInput(s) \/ OpenInput(s) \/ AdvanceInput(s) \/ Take(s) \/ Complete(s)
  \/ (Poll \/ End) /\ UNCHANGED <<kind, includeBody, taskVars>>

WarcNext ==
  \/ MergeStep
  \/ \E s \in Streams : ParserStep(s) \/ RecordError(s) \/ Panic(s) \/ Abort(s)
  \/ DropStream

WarcSpec == WarcInit /\ [][WarcNext]_warcVars

\* DuckDB polls until the stream ends, storage answers, and the runtime runs
\* every task.
FairWarcSpec ==
  /\ WarcSpec
  /\ WF_warcVars(MergeStep)
  /\ \A s \in Streams : WF_warcVars(ParserStep(s))
-----------------------------------------------------------------------------
\* Every batch, queued, being built or delivered, is within the limits: rows
\* within batch_size, and body bytes within MAX_BATCH_BODY_BYTES but for a
\* record that alone exceeds it (warc.rs, stream_records).
BodySum(s, records) == SumFunction([i \in DOMAIN records |-> Bodies[s][records[i]]])
WithinLimits(s, records) ==
  /\ Len(records) <= BatchSize
  /\ includeBody => BodySum(s, records) <= MaxBatchBody \/ Len(records) = 1
BatchLimits ==
  /\ \A s \in Streams :
       /\ WithinLimits(s, batch[s])
       /\ \A i \in DOMAIN channel[s] : WithinLimits(s, channel[s][i])
  /\ \A i \in DOMAIN output : WithinLimits(output[i][1], output[i][2])

\* No record is lost, repeated or out of order on the way: what was delivered
\* of an input, what is queued and what is being built are its records up to
\* the one the parser reads next.
Delivered(s) ==
  FlattenSeq([i \in DOMAIN output |-> IF output[i][1] = s THEN output[i][2] ELSE <<>>])
QueuedRecords(s) == FlattenSeq(channel[s])
RecordsKept ==
  consumer # "dropped" =>
    \A s \in Inputs :
      Delivered(s) \o QueuedRecords(s) \o batch[s] = [i \in 1 .. read[s] |-> i]

\* A stream that ends without an error delivered every record, and an indexed
\* one in archive order (warc_index.rs, open_indexed_warc).
ScanComplete ==
  /\ consumer = "ended" => \A s \in Inputs : Len(Delivered(s)) = Len(Bodies[s])
  /\ kind = "index" =>
       \A i, j \in DOMAIN output : i < j => output[i][1] <= output[j][1]

\* A scan that keeps polling gets to the end or to an error.
ScanEnds == <>(consumer \in {"ended", "failed", "dropped"})
=============================================================================
