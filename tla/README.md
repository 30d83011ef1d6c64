# Verification of the DuckDB Lance conversion extension

TLA+ models of the extension, from the planning of a COPY and the binding of a
source to the commit of a dataset, the TLC configurations that check them on
small instances, and TLAPS proofs of their safety properties for every
instance. Paths below are relative to the repository.

## Inventory

| Part | Code | State | Operations | Correct when |
| --- | --- | --- | --- | --- |
| Dataset write | `rust/src/ffi.rs`, `rust/src/sink/lance/{fragment,dataset,index}.rs` | dataset and writer handles, one channel and one Tokio task per writer, the list of finished transactions, the destination's versions | `lance_conversion_open`, `writer_open`, `push`, `writer_finish`, `writer_destroy`, `finish`, `destroy` | a commit holds exactly the acknowledged batches of the writers that finished; every call returns; no task is left behind |
| COPY | `src/lance_copy.cpp` | options, bind data, global and local states | plan, bind, initialize, sink, combine, prepare, flush, finalize, destructors | the options mean the same in any order; a COPY is all or nothing; row order is kept when it must be; errors never publish |
| Parquet / Hugging Face source | `rust/src/source/{parquet,parquet_metadata,huggingface}.rs` | one task, channel and permit budget per row group in flight | open, poll, drop | row groups are read ahead within the budget, in order when asked; a failed task is an error, never a short stream |
| WARC source | `rust/src/source/{warc,warc_index,warc_segment}.rs` | parser task and channel per input, batch builder | open, poll, drop; index work units | each record is in exactly one batch, in order within a file; work units cover the index once |
| ATIF source | `rust/src/source/atif.rs`, `rust/src/source/atif/media.rs` | line reader, media resolver | open, poll | one row per trajectory; each payload is of what its part refers to and in its place, never less than the size that was statted |
| Scan metrics | `rust/src/source/metrics.rs`, `src/arrow_source_scan.cpp` | cumulative atomic counters, reported watermark | add, snapshot, take delta, progress | a byte or a row is reported once |
| Source factory | `rust/src/ffi.rs` (`SourceStreamFactory`) | the reader opened at bind | bind, open reader | every scan sees the whole source in the columns it asked for; the bound reader serves one scan |
| Column storage and encoding | `rust/src/sink/lance/{column_storage,column_encoding}.rs`, `rust/src/schema.rs` | none | schema and array transforms | per-column settings land on the column they name |
| Storage | `rust/src/storage.rs`, `src/storage_options.cpp` | OpenDAL operators | configure, open, list | layer order, retry and timeout settings |
| Metadata, options, registration | `src/source_metadata.cpp`, `src/source_options.cpp`, `src/function_metadata.cpp`, `src/lance_conversion_extension.cpp` | none | conversions | type metadata survives the Arrow crossing |

How they interact: DuckDB's threads call the callbacks of `lance_copy.cpp`,
which call the C ABI of `ffi.rs`, which blocks on a Tokio runtime where the
writer tasks run. On the reading side DuckDB pulls an Arrow stream through
`ArrowBatchReader`, which polls the source's stream; its row groups or files
are read by tasks of the shared source runtime. The two sides meet only in
DuckDB, chunk by chunk.

Hard behaviours: calls that wait for a task that may die; a bounded channel;
commits racing late finishes and other processes; errors and cancellation
between any two callbacks; concurrent preparation of batches that must be
written in order; read-ahead under a budget; cumulative counters read by
several threads. `PROJECT.json` lists them as hazards, each at its line.

## Modules

* **DatasetWrite** models the handles, the calls, the writer tasks and the
  commit. Each C call is one or more actions: a call that waits (`send` on a
  full channel, `join_worker`) is split where it waits, and `call[w]` says
  where. `sink[w]` is `SinkState`, `queue[w]` the `channel(1)`, `worker[w]` the
  task, `transactions` the mutex-protected list of `DatasetWrite`, `stage` the
  progress of `commit`. Batches stand for their rows. Lance is external: a
  write or a commit may fail at any step, a task may even return early
  (`WorkerStop`), and other processes commit between any two steps
  (`OtherCommit`). `log` is the destination's sequence of versions.
* **LanceCopy** extends it with the callbacks of `lance_copy.cpp` as DuckDB
  drives them in its three modes: every thread sinks into its own writer
  (`PARALLEL`), threads prepare batches and one at a time flushes the next
  batch into the ordered writer (`BATCH`), or one thread sinks alone
  (`REGULAR`). Any callback may throw (`Throw`), the query may be cancelled at
  any time (`Interrupt`), finalize runs only when no thread failed, and the
  destructors run in the order of the C++ states.
* **AtomicCopy** is what a COPY promises about its destination. LanceCopy
  implements it: `ImplementsAtomicCopy` checks the refinement mapping
  (`exists <- log # <<>>`, `rows <- Latest`, `existed <- loaded`,
  `copy <- Outcome`). An index that fails after the data version was committed
  fails the query although its rows are there: AtomicCopy allows that, as the
  code does.
* **MergedStreams** is what the sources share: the adapter that merges the
  streams of row groups, files or work units, and the consumer that polls it
  through `block_on`. Nothing advances in it unless the consumer polls.
  `buffered(n)` fills its queue only between two parts that `try_flatten`
  drains, which is why an ordered scan keeps `n` parts in flight and not
  `n + 1` (`Room`, `Advance`).
* **ReadAhead** extends it with a row group's task, its unbounded channel and
  its budget of permits (`spawn_row_group`, `ReadAheadBudget`), or decoding in
  the poll when `read_ahead_bytes` is 0. Any read may fail, any task may panic,
  and DuckDB may drop the stream between two polls, which aborts the tasks.
* **WarcRecords** extends it with the parser of an input
  (`spawn_records`, `stream_records`): one action per record, with the two
  places where a batch is cut, and a channel of one batch. `kind` says whether
  the inputs are one file, the files of a segment or the ranges of an index.
* **WarcIndex** is the computation of those ranges: `parse_warc_index` and the
  two loops of `build_index_work_units`, a step per entry, `sort_unstable` as
  any order that is sorted by offset.
* **ScanMetrics** is the accounting of a scan: `add_object` under its mutex,
  the byte counter, and the compare-exchange loop of `TakeDelta`. Its loads may
  return older values, as relaxed atomics allow, but none older than the thread
  has seen.
* **SourceScan** is `SourceStreamFactory`: the opening at bind and that of each
  scan, which reader a scan gets, and how the requested columns become those of
  its batches. It has the openings of every source: the listing of a split and
  of its partial conversion (`ListShards`), the footers that load a few at a
  time and arrive in any order (`FetchFooter`, `Retained`, `FootersLoaded`),
  what a WARC path is taken for and the files its crawl's manifest has
  (`ParseSegment`, `SegmentFiles`, `OpenWarc`), and an ATIF document. Any opening
  may fail. A reader has a stream per row group or file (`RowGroups`, one list
  over all shards) and reads it batch by batch: one stream after the other where
  the order is kept, else any that has a batch, so that the row groups of one
  shard interleave as those of different shards do (`NextBatch`). The tasks that
  do so are in ReadAhead and WarcRecords. The files of a segment are chosen by a
  prefix of the text of the manifest's entries (`Text`, with `Spelling` for the
  names that begin with another), as `starts_with` does. `Ascending` is the list
  of the projected columns in the order of the file.
* **AtifScan** is a scan of `read_atif`: the bind's checks, the document, its
  batches, and the media resolver, one action per stat, read and end of a
  medium. Others replace a medium at any point of that (`Replace`). The stat and
  the read pin no version, so that each response is of any version since the stat
  (`ReadMedium`), and a byte is known by the version it came from. A path on disk
  keeps what looks like a query in the name of the file (`FileName`); a URL does
  not.
* **ColumnStorage** has the fields of a schema from the source's metadata to what
  Lance stores, as operators on functions from paths to fields: DuckDB's types
  and back, blobs and ATIF text, encodings by dotted name, the index plan.
* **CopyPlan** extends it with the planning of a COPY: the sample and the
  generated columns, each without fields below it, then `BindOption`, an action
  per option that takes any option left, as the code's hash map may, then
  `lance_conversion_open`. Names are compared without case on DuckDB's side and
  exactly on Rust's.
* **LanceCopyProofs** has the theorems of DatasetWrite (part I) and of LanceCopy
  (part II), **MergedStreamsProofs** the lemmas about the merge that
  **ReadAheadProofs** and **WarcProofs** (WarcRecords, then WarcIndex) rest on,
  **ScanProofs** those of ScanMetrics and SourceScan, **AtifScanProofs** and
  **CopyPlanProofs** those of their modules. **FoldLemmas** has what they need
  of sums, `FlattenSeq` and folds. The MC modules give TLC the values of the
  constants and the symmetry sets.

Definitions marked "mutant" restate one definition with a plausible bug; no
specification uses them. They document what each property is able to catch.

## Runs

| Run | Bounds | Shows |
| --- | --- | --- |
| `write` | 2 writers, 2 batches, 1 foreign row, 1 index, append | `CommittedWhole`, `PublishedExactly`, `OneOperation`, `NoOrphanTask`, `DestinationKept`, `MergedFrozen` |
| `write_live` | 2 writers, 1 batch, overwrite | `CallsReturn`: no call waits for ever |
| `copy` | 2 threads and the ordered writer, 3 chunks, batches of 2, append | `NeverPartial`, `OrderPreserved`, refinement of AtomicCopy; no deadlock before every handle is freed |
| `copy_create` | 2 threads, 2 chunks, create | refinement of AtomicCopy when another process creates the destination |
| `copy_live` | 2 threads, 2 chunks, overwrite | `CopyEnds`: every COPY ends and frees its handles |
| `read_ahead` | 4 row groups of up to 3 batches, 2 in flight, budgets 0, 2 and 7 of at most 5 permits | `BudgetKept`, `NeverStarved`, `InFlightBounded`, `InSourceOrder`, `NeverTruncated`, `ScanEnds` |
| `warc_records` | 4 inputs of up to 3 records, 2 in flight, batches of 2 records and 3 body bytes | `BatchLimits`, `RecordsKept`, `ScanComplete`, `ScanEnds` |
| `warc_index` | every index of up to 4 entries within 5 bytes, parallelism 1 to 3 | `UnitsCover`, `OverlapsRejected`, `UnitsBalanced` |
| `scan_metrics` | 3 files, 2 threads reporting twice | `ReportedOnce`, `NothingUnreported`, `EstimateExact`, `ProgressBounded` |
| `source_scan` | 2 scans of 17 sources, 17 lists of up to 3 columns, with repetitions and an unknown name, 3 shards, row groups of 1 or 2 batches, 2 footers at a time, 2 batches per WARC file | `ScanDelivers` |
| `atif_scan` | local, S3 and HTTP documents with 16 forms of reference, media whose names differ in a query, batches of a trajectory, up to 3 versions of a medium over time | `MediaComplete`, `TotalsCover` |
| `copy_plan` | a flat and a nested ATIF source; every combination of options that meet in a field or a check, in every order | `BoundOpens`, `SettingsStored`, `IndexesAsAsked`, `GeneratedAligned`, `PolicyKept` |

Why the bounds are enough. Two writers are the least that race each other's
finish, the commit and, in the append run, the first commit of another process
between two tasks' starts; two batches fill the channel of one message while a
third call waits. Three chunks in batches of two give a full and a short batch,
so the last batch and a flush that stops halfway both occur. One foreign row is
one other commit, at any point. One index is enough for a failure before,
between and after data and index versions. Threads are symmetric, and so are
batches in DatasetWrite, where nothing depends on their order.

On the reading side, four parts with two in flight leave parts that wait and
parts that are not pulled yet. The batch sizes include one above the whole
budget, one that saturates the permit count, an empty row group and a batch of
no bytes; the record bodies one that fills a batch, one that exceeds it alone,
one beyond the BinaryView limit, an empty one and an empty file. Four index
entries make two runs of two, or three adjacent ones and a gap; the largest
integer is small, so offsets and totals overflow. Two reporting threads are the
least that race, twice each so that one may hold an old snapshot across the
other's report. Two scans race for the one bound reader; three shards of which
two load at a time leave one to start when another arrives. The sources have a
splits that preserve their order and one that does not, each of these with a
shard of two row groups; a partial conversion beside a full one and alone, a
shard without row groups, shards of two schemas, no shards; and for a crawl
segments 1 and 12, crawls e and e2, other kinds of files, a mirror below a
directory, and entries that are only the directory's name, with and without its
slash. What each of the 17 sources holds (`Contents`) is written out by hand,
not computed by the operators under test.

A medium of two bytes, replaced by 0 to 3 bytes up to twice, shrinks or grows
before, between and after its reads, which may then mix its versions; one medium
changes, which is enough since they are read one at a time. Where each reference leads (`Targets`) is written
out by hand too. In `copy_plan` options that touch different parts of the bind
data are not combined: each family that meets in a field or a check is, with a
column whose name holds a dot and another whose field has that dotted name.

Deadlock is not checked in the modules of the sources, where a scan stops at
its end, nor in `copy_plan`, which stops when the statement is opened or
refused, nor in `write` and `write_live`, where a client may stop calling.
In the LanceCopy runs it is: the only final state is the one with every handle
freed.

Fairness. Weak fairness of each writer's calls and task steps: the Tokio
runtime schedules every ready task and a blocked `block_on` is woken. Of the
commit's steps: Lance answers a request, with success or an error. Of every
DuckDB thread and of the query's own steps in LanceCopy: DuckDB's scheduler
runs them. On the reading side, of the consumer's polls and what they drive
(`MergeStep`: DuckDB pulls until the stream ends, storage answers) and of each
task's steps, one by one; a task that waits for permits or for room is not
helped by fairness. Nothing makes a client call, an error, an interruption or another
process's commit happen.

## Theorems

Every invariant and every action property that a run checks is also proved, for
all values of the constants that satisfy the named assumptions, and so are the
refinement of AtomicCopy and that a COPY's steps on a dataset are steps of
DatasetWrite. A theorem has the form `Spec => []P`; its proof has an inductive
invariant, one lemma for the initial states, one per action, and the temporal
step. The temporal steps need no fairness.

**DatasetWrite**, for every set of writers, batches and foreign rows, every mode
and number of indexes.

| Theorem | Property | Inductive invariant |
| --- | --- | --- |
| `TypeCorrect` | `TypeOK` | `TypeInv` adds that a merge is never of an empty list: `commit` writes an empty transaction in its place |
| `CommitsWholeWriters`, `TasksJoined` | `CommittedWhole`, `NoOrphanTask` | `Inv`, with `WriterInv` of each writer: which states of the handle go with which pending call, that a live task has read exactly what was acknowledged but the one batch in the channel, and that the finish message enters an empty channel last |
| `CommitFrozen` | `MergedFrozen` | follows from the steps |
| `MergedOperation` | `OneOperation` | `OperationInv`: nothing is merged before the commit starts |
| `RowsKept` | `DestinationKept` | `DestinationInv`: what a destination that was there at open means for each task. An append appends, a create writes nothing |
| `PublishesExactly` | `PublishedExactly` | `VersionsInv`: of all versions at most one has data of this write, with the acknowledged rows of the merged writers, and its index versions come after it |

**LanceCopy**, for every set of threads, number of chunks and batch size.

| Theorem | States | Inductive invariant |
| --- | --- | --- |
| `CopyIsWrite` | `CopySpec => Spec`: a step of a COPY is a step of DatasetWrite or a stutter | none; the theorems above so hold of a COPY |
| `CopyTypeCorrect` | `CopyTypeOK` | `EngineInv`: a flusher is within its batch (`FlushBounds`), the query follows the stage of the commit (`PhaseInv`), a mode uses the writers of the threads or the ordered one |
| `CopyNeverPartial`, `CopyKeepsOrder` | `NeverPartial`, `OrderPreserved` | `ChunksInv`, one conjunct per mode: in PARALLEL every chunk handed out is acknowledged or in the hands of a thread, in REGULAR one thread runs alone, in BATCH the ordered writer has exactly the flushed prefix and the chunks before `pos`; then what finalize (`FinishingInv`) and the commit (`CommittingInv`) take from them |
| `CopyIsAtomic` | `ImplementsAtomicCopy` | those above and `AppendsInv`; each step maps to one of AtomicCopy or to a stutter |

**ReadAhead**, for every number and size of row groups and batches, every budget
and parallelism: `ReadTypeCorrect` (`ReadTypeOK`), `OpenGroupsBounded`
(`InFlightBounded`), `BatchesInOrder` (`InSourceOrder`), `ReadsAll`
(`NeverTruncated`), `BudgetHolds` (`BudgetKept`) and `NoStarvation`
(`NeverStarved`). `MergeInv` is the invariant of the merge that all sources
share: with the order preserved, the queue holds the last parts pulled, in
source order, and only the part before them may be flattened. `ReadInv` adds
each row group's: the channel holds the batches from the one that the consumer
takes next, each with its reservation; the free permits and the queued ones are
the budget; a group leaves the merge when all of it was decoded and taken.
`BudgetHolds` bounds the bytes queued by the permits reserved for them, sum
against sum, but where a batch larger than the budget is alone in the channel.
`NoStarvation` is the part of `ScanEnds` that needs no fairness: with an empty
channel all permits of its budget are free, and no reservation exceeds the
budget, so that no open row group waits for a consumer that waits for it.

**WarcRecords**, for every list of inputs and bodies: `BatchesWithinLimits`
(`BatchLimits`), `EveryRecordKept` (`RecordsKept`) and `ScansComplete`
(`ScanComplete`). `WarcInv` is `MergeInv` and, of each input, that delivered,
queued and unfinished records are those read so far in order (`KeptInv`), what
the batch being built may hold (`BatchInv`), and that a parser ends without an
error only when it has sent everything (`StageInv`).

**WarcIndex**, for every index, parallelism and width of integers: the types,
the total within a `u64` among them (`IndexTypeCorrect`), that the work units
are in archive order, do not overlap and cover exactly the indexed bytes
(`WorkUnitsCover`), that no index with an overlap is accepted and none without
one is rejected for it or for its total (`OverlapsAreRejected`), and that units
are balanced (`UnitsAreBalanced`). `LoopInv` says that the units so far cover the
entries that the loop has passed. `BalanceInv` counts the total as the size of
the set of bytes that the entries cover, which it is unless two overlap
(`SumInv`), so that a total that overflows a `u64` implies an overlap; and it
bounds the units by the runs of adjacent entries and the full units among them
(`CoalescedInv`).

**ScanMetrics**, for all finite sets of files and threads and every interleaving
of their relaxed loads: `BytesReportedOnce` (`ReportedOnce`), `AllBytesReported`
(`NothingUnreported`), `EstimateEndsExact` (`EstimateExact`) and
`EstimateCovers` (`ProgressBounded`). `MetricsInv` has that no thread is ahead
of the counters it loaded and that the deltas tracked and held sum to the
watermark (`ReportInv`), and that the guarded count and size are those of the
files added, whose extrapolation covers them (`ReaderInv`).

**SourceScan**, for every source, scan and list of columns, if `Contents` is
what the listings find (`ContentsListed`): `SourceScanDelivers`
(`ScanDelivers`), among others that the columns of a
batch are those requested, repetitions and their order included, and that the
batches of a row group come in order also where row groups interleave.
`SourceInv` has the types of readers, that the bound reader serves one scan that
asked for every column (`UsingInv`), that an open reader has all the row groups
or files of its source and projects what its scan wants (`ReadersInv`), and that
a scan received what its reader took (`ScansInv`).

**AtifScan**, for every document, reference and replacement of the media while
they are read: `TotalsAlwaysCover` (`TotalsCover`) and `MediaAreComplete`
(`MediaComplete`). `AtifInv`: bytes read, trajectories not read and the rest of
the medium in progress sum to the total (`CountInv`); delivered and parsed rows
are a prefix of the document (`RowsInv`); the bytes of the medium in progress
came each from its place in a version since the stat, and are no more than was
statted (`MediumInv`); each payload resolved or delivered is of what its part
refers to, complete to the size of the stat, with its bytes from the versions
until then (`ResolvedInv`, `DeliveredInv`). Versions are only ever appended,
which keeps this true of payloads delivered before.

**CopyPlan**, for every source, every combination of options and every order in
which the hash map yields them: `PlannedAsAsked` (`IndexesAsAsked`),
`SettingsKept` (`SettingsStored`), `ExpressionsAligned` (`GeneratedAligned`),
`PoliciesKept` (`PolicyKept`) and `BoundIsOpened` (`BoundOpens`).
`PlanInv` relates the consumed options, the generated columns, the bound types,
the index plan and the phase; `DataInv` has the sizes, the blob columns and, at
the end of bind, the padded expressions. `EncInv` says that the entries for the
columns hold exactly the settings of the options consumed so far, whichever these
are: `SettingsRecorded` is the induction over the settings of one option. The
step from DuckDB to Rust is `TargetOf`: a name that stands for one field in any
case (`StandsFor`) crosses in the spelling by which the exact lookup finds the
same field, also when a column has a dot in its name.

### Assumptions

`ConstantsAssumption`, `CopyAssumption`, `MergeAssumption`, `ReadAssumption`,
`WarcAssumption`, `IndexAssumption`, `MetricsAssumption`, `SourceAssumption`,
`AtifAssumption` and `PlanAssumption` give the constants their types and what
the code has by construction: a positive parallelism and batch size, at least
one thread and one WARC input (an empty list is an error at open), `Finish` is no
batch, columns of a DuckDB query and fields of a struct differ in more than
case, only ATIF sources carry storage policies. `TargetsAssumption` says that the
table written by hand, against which `MediaComplete` compares, is right about the
target of each reference. TLC evaluates every assumption on its runs.

`ContentsListed`, that `Contents` is right about the row groups or files of each
source, is no assumption of the module but a hypothesis of `SourceScanDelivers`:
without it the theorem would say nothing about which files a scan has. The run
does not assume it, so that a mistake in a listing or in a prefix is found there
as a violation of `ScanDelivers`.

### How sums, lists and folds are proved

The induction theorems of the library take an operator and cannot be used with
these provers. FoldLemmas proves `Induction` for a set instead (a set of naturals
that has 0 and is closed under successor has every natural) from the library's
fact that a well-founded relation has minimal elements; each induction defines the set of the
numbers for which its statement holds. From it follow the sum of a function over
a finite set, of a sequence as it grows or loses its head, `FlattenSeq` of an
appended sequence and the places of its items, and `FoldLeft` on sequences.

Proofs changed the models in a few places, without a change of behaviour: two
`CASE`s whose arms overlapped (`Outcome`, `ConfigureField`) are disjoint, since
TLC takes the first arm and the logic any; concatenations that were folds in no
determined order are `FlattenSeq`, sums over a sequence `SumFunction`; the projected
columns are `Ascending`. The check of a vector index names the item field of the
array that it looks at.

Model-checked only: liveness (`CallsReturn`, `CopyEnds`, `ScanEnds`), which rests
on fairness and `ENABLED`, outside what the prover supports.

Every leaf is small enough to be checked in about a second, so that the proofs
do not depend on the speed of the machine: a fact about a sequence, a sum or an
interval is derived in a step that does not know the state, with the definitions
it does not need hidden. A step about an empty string is left to Zenon behind
an operator of its own (`HasSetting`), since the SMT backend has none.

## Not modelled

* What Lance's commit does with a dataset that appeared after the write opened
  is Lance's: the models allow both outcomes.
* How the value of an option is parsed from text: the models know values that
  are accepted and values that are not. The open arguments of the sources and
  the option parsers of the table functions other than `read_atif`.
* The conversion of arrays to the stored fields (`transform_array`, the URIs of
  blob columns), and the walk of the media resolver over nested arrays: they
  keep no state. A document is a sequence of content parts instead.
* The configuration of OpenDAL operators with their retry and timeout layers,
  the cache of object stores, the descriptions and the registration of the
  functions, and error messages.
* The parser of ATIF documents, which is a library, and the parsing of a WARC
  record's headers into columns.
* `lance_conversion_dataset_exists`, `lance_conversion_remove_dataset`
  (nothing in the extension calls their wrappers), and the check of an append's
  generated columns against the dataset's: each asks the destination once. The
  counters of `WriteSummary`.
* A source that changes between bind and scan, or between two scans. The columns
  of a scan are resolved in the schema seen at bind, the source is opened again,
  and nothing compares the two; the models keep the source fixed. Media are the
  exception: they do change in AtifScan.
* The contents of batches, files and messages. A batch is its number and its
  size, a record its number and its body length, a byte of a medium its place and
  version.
* Nothing pins the version of a medium between the stat and the read of
  `media.rs`. `MediaComplete` promises what the check of the size gives: as many
  bytes as were statted, each at its place in a version of that time. A medium
  that nobody replaces meanwhile is so delivered whole, and one that shrinks never
  without its end; but of one replaced by an object as long or longer a scan may
  deliver the start, or a mixture of both, and both do occur in `atif_scan`.
* How a name is encoded on its way to the file system: that a local reference
  keeps its query means another file than the one without it, and the model does
  not say how the storage libraries spell the question mark.
* `BudgetKept` counts queued batches. The batch a task has decoded and holds
  while it waits for permits comes on top of them, one per row group, as the
  doc of `open_parquet_paths` says.
* A panic while the poll itself decodes (`read_ahead_bytes` 0) unwinds through
  DuckDB's stream and is not modelled.
* The total of a Parquet scan (its unread column chunks), and the cutting of a
  read into ranges.
* ScanMetrics is one scan of a segment and AtifScan one of a document. The
  counters of a factory accumulate over its scans, while ATIF and WARC files set
  the total to their own size again, so that the progress of a second scan is
  cut at 100 percent. Sizes are far from the width of a `u64` there. Rows go
  through the same `TakeDelta`.

Type invariants are checked by TLC in DatasetWrite, LanceCopy and WarcIndex; that
of ReadAhead is proved (`ReadTypeCorrect`). In the other modules the typing is
part of the inductive invariant of the proofs.

## Plan

1. DatasetWrite, LanceCopy, AtomicCopy and the theorems above (done).
2. The reading side: MergedStreams, ReadAhead, WarcRecords, WarcIndex,
   ScanMetrics, SourceScan (done).
3. SourceScan with the openings of the sources (done).
4. AtifScan (done).
5. ColumnStorage and CopyPlan (done).
6. Theorems of DatasetWrite and LanceCopy, the refinement of AtomicCopy (done).
7. Theorems of the sources, of the plan of a COPY and of the operators on
   sequences and sums that they rest on (done).
8. The check of generated columns on an append, `lance_conversion_dataset_exists` and
   `lance_conversion_remove_dataset`, the total of a Parquet scan and the storage options.
