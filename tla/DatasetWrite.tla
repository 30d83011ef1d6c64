---------------------------- MODULE DatasetWrite ----------------------------
(***************************************************************************)
(* One Lance dataset write behind the C ABI of rust/src/ffi.rs: a dataset  *)
(* handle (lance_conversion_open / finish / destroy), any number of        *)
(* fragment writers (lance_conversion_writer_open / push / writer_finish / *)
(* writer_destroy), each with a background task that reads a bounded       *)
(* channel, and the commit that publishes the finished writers.            *)
(*                                                                         *)
(* The client may make any calls the header allows.  Lance itself, and     *)
(* the other processes that commit to the same destination, are external:  *)
(* a Lance operation may always fail, and other commits may land between   *)
(* any two steps.                                                          *)
(***************************************************************************)
EXTENDS Naturals, Sequences, FiniteSets, Functions

CONSTANTS
  Writers,     \* the fragment writer handles a client may open
  Batches,     \* the record batches a client may push, each at most once
  Foreign,     \* the rows other processes may commit; bounds their commits
  Mode,        \* WriteMode: "create", "append" or "overwrite"
  NumIndexes,  \* the indexes of the LanceIndexPlan, in plan order
  Finish       \* Message::Finish

ASSUME ConstantsAssumption ==
  /\ Mode \in {"create", "append", "overwrite"}
  /\ NumIndexes \in Nat
  /\ Finish \notin Batches
  /\ Batches \cap Foreign = {}

VARIABLES
  \* The destination and the dataset handle
  log,           \* the dataset versions at the URI, oldest first
  handle,        \* LanceConversionDataset*: "None", "Live" or "Freed"
  loaded,        \* DatasetWrite.dataset is Some: it existed at create
  stage,         \* how far lance_conversion_finish has come
  transactions,  \* DatasetWrite.transactions: the writers they come from
  merged,        \* the writers of the transaction being committed, in order
  mergedOp,      \* its Operation: "Append" or "Overwrite"
  built,         \* how many indexes of the plan are built
  \* Each fragment writer, its channel and its task
  sink,          \* LanceFragmentWriter.state
  queue,         \* the channel between the writer and its task
  worker,        \* the task running write_fragments
  op,            \* the Operation of the task's transaction
  taken,         \* the batches the task has read, in order
  \* The call in progress on each writer, and its history
  call,          \* the step the call waits at, "idle" without a call
  arg,           \* the message the call sends
  ret,           \* what the last call returned
  acked,         \* the batches whose push returned success, in order
  pushed         \* the batches passed to push so far

datasetVars == <<log, handle, loaded, stage, transactions, merged, mergedOp, built>>
taskVars    == <<queue, worker, op, taken>>
callVars    == <<sink, call, arg, ret, acked, pushed>>
vars        == <<datasetVars, taskVars, callVars>>
-----------------------------------------------------------------------------
(***************************************************************************)
(* The destination: a log of versions.  A version says who committed it    *)
(* and which rows it holds; a batch stands for the rows in it.             *)
(***************************************************************************)
Rows    == Batches \cup Foreign
Version == [by : {"other", "data", "index"}, rows : SUBSET Rows]

Latest  == IF log = <<>> THEN {} ELSE log[Len(log)].rows
Publish(by, rows) == log' = Append(log, [by |-> by, rows |-> rows])

\* The channel of LanceFragmentWriter::spawn: channel(1).
TwoMessageCapacity == 2          \* mutant: one more message fits
QueueCapacity == 1

\* The receiver lives as long as the stream over it does.
Receiving(w)    == worker[w] \in {"Starting", "Running"}
Exited(w)       == worker[w] \in {"Ok", "Err"}

\* The rows the merged transaction adds.
EveryWritersRows == UNION {Range(taken[w]) : w \in Writers}  \* mutant: unfinished writers too
MergedRows       == UNION {Range(taken[w]) : w \in Range(merged)}

\* merge_transactions accepts transactions of one kind only.
AnyOperations        == TRUE     \* mutant: the check is dropped
CompatibleOperations == \A i \in 1 .. Len(merged) : op[merged[i]] = op[merged[1]]

\* The indexes of the plan still to build.
OneMoreIndex == built <= NumIndexes     \* mutant: off by one
MoreIndexes  == built < NumIndexes

\* The mode of DatasetWrite.params, which every writer's InsertBuilder gets.
OverwriteMode == "overwrite"     \* mutant: the mode of the options is not passed on
ParamsMode    == Mode

\* InsertBuilder: the operation a write in this mode produces, given whether
\* the destination it resolves exists.  Create against an existing dataset
\* is refused instead.
Operation(exists) == IF ParamsMode = "append" /\ exists THEN "Append" ELSE "Overwrite"
Refused(exists)   == ParamsMode = "create" /\ exists
Exists            == loaded \/ log # <<>>

Init ==
  /\ log \in {<<>>} \cup {<<[by |-> "other", rows |-> r]>> : r \in SUBSET Foreign}
  /\ handle = "None"
  /\ loaded = FALSE
  /\ stage = "unopened"
  /\ transactions = <<>> /\ merged = <<>> /\ mergedOp = "Overwrite" /\ built = 0
  /\ sink = [w \in Writers |-> "Unopened"]
  /\ queue = [w \in Writers |-> <<>>]
  /\ worker = [w \in Writers |-> "None"]
  /\ op = [w \in Writers |-> "Overwrite"]
  /\ taken = [w \in Writers |-> <<>>]
  /\ call = [w \in Writers |-> "idle"]
  /\ arg = [w \in Writers |-> Finish]
  /\ ret = [w \in Writers |-> "ok"]
  /\ acked = [w \in Writers |-> <<>>]
  /\ pushed = {}
-----------------------------------------------------------------------------
(***************************************************************************)
(* The dataset handle.                                                     *)
(***************************************************************************)

\* lance_conversion_open: LanceDatasetWriter::create validates the options
\* before any file is written and loads the destination if it exists.
ConversionOpen ==
  /\ stage = "unopened"
  /\ \/ /\ handle' = "Live" /\ stage' = "open"
        /\ loaded' = (log # <<>>)
     \/ /\ stage' = "failed"
        /\ UNCHANGED <<handle, loaded>>
  /\ UNCHANGED <<log, transactions, merged, mergedOp, built, taskVars, callVars>>

\* lance_conversion_finish takes the dataset writer, and commit takes the
\* transactions added so far.
ConversionFinish ==
  /\ handle = "Live" /\ stage = "open"
  /\ merged' = transactions
  /\ transactions' = <<>>
  /\ stage' = IF transactions = <<>> THEN "empty" ELSE "merge"
  /\ UNCHANGED <<log, handle, loaded, mergedOp, built, taskVars, callVars>>

\* commit without a transaction: an empty one is written in its place.
WriteEmpty ==
  /\ stage = "empty"
  /\ \/ /\ ~Refused(Exists)
        /\ mergedOp' = Operation(Exists)
        /\ stage' = "execute"
     \/ /\ stage' = "failed"
        /\ UNCHANGED mergedOp
  /\ UNCHANGED <<log, handle, loaded, transactions, merged, built, taskVars, callVars>>

\* merge_transactions: transactions of different kinds are refused.
Merge ==
  /\ stage = "merge"
  /\ IF CompatibleOperations
     THEN /\ mergedOp' = op[merged[1]]
          /\ stage' = "execute"
     ELSE /\ stage' = "failed"
          /\ UNCHANGED mergedOp
  /\ UNCHANGED <<log, handle, loaded, transactions, merged, built, taskVars, callVars>>

\* CommitBuilder::execute publishes the merged transaction or nothing: an
\* append extends the latest version, an overwrite replaces it.
Execute ==
  /\ stage = "execute"
  /\ \/ /\ mergedOp = "Append" => log # <<>>
        /\ Publish("data", IF mergedOp = "Append" THEN Latest \cup MergedRows ELSE MergedRows)
        /\ stage' = "index"
     \/ /\ stage' = "failed"
        /\ UNCHANGED log
  /\ UNCHANGED <<handle, loaded, transactions, merged, mergedOp, built, taskVars, callVars>>

\* LanceIndexPlan::create: one index after another, each its own version; the
\* first failure ends the finish call.
BuildIndex ==
  /\ stage = "index" /\ MoreIndexes
  /\ \/ /\ Publish("index", Latest)
        /\ built' = built + 1
        /\ UNCHANGED stage
     \/ /\ stage' = "failed"
        /\ UNCHANGED <<log, built>>
  /\ UNCHANGED <<handle, loaded, transactions, merged, mergedOp, taskVars, callVars>>

\* commit returns, and lance_conversion_finish records the summary.
FinishReturn ==
  /\ stage = "index" /\ ~MoreIndexes
  /\ stage' = "done"
  /\ UNCHANGED <<log, handle, loaded, transactions, merged, mergedOp, built, taskVars, callVars>>

\* lance_conversion_destroy, with no other call on the dataset in progress.
ConversionDestroy ==
  /\ handle = "Live" /\ stage \in {"open", "done", "failed"}
  /\ handle' = "Freed"
  /\ UNCHANGED <<log, loaded, stage, transactions, merged, mergedOp, built, taskVars, callVars>>

\* Another process commits to the destination.
OtherCommit ==
  /\ \E r \in Foreign :
       /\ \A i \in 1 .. Len(log) : r \notin log[i].rows
       /\ Publish("other", Latest \cup {r})
  /\ UNCHANGED <<handle, loaded, stage, transactions, merged, mergedOp, built, taskVars, callVars>>
-----------------------------------------------------------------------------
(***************************************************************************)
(* The calls on a fragment writer.  A handle is used by one thread at a    *)
(* time, so at most one call is in progress on it.                         *)
(***************************************************************************)
HandleValid(w) == sink[w] \notin {"Unopened", "Freed"}

\* close_input drops the sender, keeping the task to join.
KeepTaskUnjoined(w) ==           \* mutant: the task is forgotten, not joined
  sink' = [sink EXCEPT ![w] = IF @ = "Open" THEN "Failed" ELSE @]
KeepSender(w) == UNCHANGED sink  \* mutant: the sender is not dropped
CloseInput(w) == sink' = [sink EXCEPT ![w] = IF @ = "Open" THEN "Closing" ELSE @]

\* add_transaction.  What a running commit took is not touched.
AddToCommit(w) ==                \* mutant: the running commit shares the list
  /\ transactions' = Append(transactions, w)
  /\ merged' = IF stage = "open" THEN merged ELSE Append(merged, w)
AddTransaction(w) ==
  /\ transactions' = Append(transactions, w)
  /\ UNCHANGED merged

Return(w, result) ==
  /\ call' = [call EXCEPT ![w] = "idle"]
  /\ ret' = [ret EXCEPT ![w] = result]

\* lance_conversion_writer_open: LanceFragmentWriter::spawn.  Refused once
\* lance_conversion_finish has taken the dataset writer.
WriterOpen(w) ==
  /\ handle = "Live" /\ stage = "open"
  /\ sink[w] = "Unopened"
  /\ sink' = [sink EXCEPT ![w] = "Open"]
  /\ worker' = [worker EXCEPT ![w] = "Starting"]
  /\ UNCHANGED <<datasetVars, queue, op, taken, call, arg, ret, acked, pushed>>

\* lance_conversion_push of a batch, up to the send of write_batch: a batch
\* that does not convert leaves the writer as it is, one of another schema
\* aborts it, and a writer that is not open refuses it.
Push(w, b) ==
  /\ HandleValid(w) /\ call[w] = "idle"
  /\ b \notin pushed
  /\ pushed' = pushed \cup {b}
  /\ \/ /\ sink[w] = "Open"
        /\ call' = [call EXCEPT ![w] = "send"]
        /\ arg' = [arg EXCEPT ![w] = b]
        /\ UNCHANGED <<sink, ret>>
     \/ /\ sink[w] = "Open"
        /\ call' = [call EXCEPT ![w] = "joinPush"]
        /\ CloseInput(w)
        /\ UNCHANGED <<arg, ret>>
     \/ /\ Return(w, "err")
        /\ UNCHANGED <<sink, arg>>
  /\ UNCHANGED <<datasetVars, taskVars, acked>>

\* lance_conversion_writer_finish, up to the send of finish.
WriterFinish(w) ==
  /\ HandleValid(w) /\ call[w] = "idle"
  /\ \/ /\ sink[w] = "Open"
        /\ call' = [call EXCEPT ![w] = "send"]
        /\ arg' = [arg EXCEPT ![w] = Finish]
        /\ UNCHANGED ret
     \/ /\ sink[w] # "Open"
        /\ Return(w, "err")
        /\ UNCHANGED arg
  /\ UNCHANGED <<datasetVars, taskVars, sink, acked, pushed>>

\* The channel takes the message.  A push returns; finish drops the sender
\* and joins the task.
Send(w) ==
  /\ call[w] = "send"
  /\ Receiving(w) /\ Len(queue[w]) < QueueCapacity
  /\ queue' = [queue EXCEPT ![w] = Append(@, arg[w])]
  /\ \/ /\ arg[w] = Finish
        /\ CloseInput(w)
        /\ call' = [call EXCEPT ![w] = "joinFinish"]
        /\ UNCHANGED <<ret, acked>>
     \/ /\ arg[w] # Finish
        /\ acked' = [acked EXCEPT ![w] = Append(@, arg[w])]
        /\ Return(w, "ok")
        /\ UNCHANGED sink
  /\ UNCHANGED <<datasetVars, worker, op, taken, arg, pushed>>

\* The receiver is gone: the call drops the sender and joins the task.
ReceiverKept(w) == FALSE         \* mutant: the closed channel goes unnoticed
ReceiverGone(w) == ~Receiving(w)

SendClosed(w) ==
  /\ call[w] = "send"
  /\ ReceiverGone(w)
  /\ CloseInput(w)
  /\ call' = [call EXCEPT ![w] = IF arg[w] = Finish THEN "joinUnsent" ELSE "joinPush"]
  /\ UNCHANGED <<datasetVars, taskVars, arg, ret, acked, pushed>>

\* finish after join_worker: a transaction is added only when the task
\* succeeded and the finish message reached the channel.
JoinFinish(w) ==
  /\ call[w] \in {"joinFinish", "joinUnsent"}
  /\ Exited(w)
  /\ IF worker[w] = "Ok" /\ call[w] = "joinFinish"
     THEN /\ AddTransaction(w)
          /\ sink' = [sink EXCEPT ![w] = "Finished"]
          /\ Return(w, "ok")
     ELSE /\ sink' = [sink EXCEPT ![w] = "Failed"]
          /\ Return(w, "err")
          /\ UNCHANGED <<transactions, merged>>
  /\ UNCHANGED <<log, handle, loaded, stage, mergedOp, built, taskVars, arg, acked, pushed>>

\* write_batch after join_worker: always an error.
JoinPush(w) ==
  /\ call[w] = "joinPush"
  /\ Exited(w)
  /\ sink' = [sink EXCEPT ![w] = "Failed"]
  /\ Return(w, "err")
  /\ UNCHANGED <<datasetVars, taskVars, arg, acked, pushed>>

\* lance_conversion_writer_destroy: abort drops the sender and waits for the
\* task of an unfinished writer before the handle is freed.
WriterDestroy(w) ==
  /\ HandleValid(w) /\ call[w] = "idle"
  /\ \/ /\ sink[w] = "Open"
        /\ CloseInput(w)
        /\ call' = [call EXCEPT ![w] = "joinDestroy"]
     \/ /\ sink[w] # "Open"
        /\ sink' = [sink EXCEPT ![w] = "Freed"]
        /\ UNCHANGED call
  /\ UNCHANGED <<datasetVars, taskVars, arg, ret, acked, pushed>>

JoinDestroy(w) ==
  /\ call[w] = "joinDestroy"
  /\ Exited(w)
  /\ sink' = [sink EXCEPT ![w] = "Freed"]
  /\ call' = [call EXCEPT ![w] = "idle"]
  /\ UNCHANGED <<datasetVars, taskVars, arg, ret, acked, pushed>>
-----------------------------------------------------------------------------
(***************************************************************************)
(* The task of a fragment writer: write_fragments over batch_stream.       *)
(***************************************************************************)

\* The task ends and drops the receiver, with what is still in the channel.
Exit(w, result) ==
  /\ worker' = [worker EXCEPT ![w] = result]
  /\ queue' = [queue EXCEPT ![w] = <<>>]

\* InsertBuilder resolves the destination: the handle loaded at create, or
\* whatever is at the URI by now.
Resolve(w) ==
  /\ worker[w] = "Starting"
  /\ IF Refused(Exists)
     THEN Exit(w, "Err") /\ UNCHANGED op
     ELSE /\ worker' = [worker EXCEPT ![w] = "Running"]
          /\ op' = [op EXCEPT ![w] = Operation(Exists)]
          /\ UNCHANGED queue
  /\ UNCHANGED <<datasetVars, callVars, taken>>

\* batch_stream yields the next batch, which write_fragments counts.
ReceiveBatch(w) ==
  /\ worker[w] = "Running"
  /\ queue[w] # <<>> /\ Head(queue[w]) # Finish
  /\ taken' = [taken EXCEPT ![w] = Append(@, Head(queue[w]))]
  /\ queue' = [queue EXCEPT ![w] = Tail(@)]
  /\ UNCHANGED <<datasetVars, callVars, worker, op>>

\* Message::Finish ends the stream, and the receiver with it.
ReceiveFinish(w) ==
  /\ worker[w] = "Running"
  /\ queue[w] # <<>> /\ Head(queue[w]) = Finish
  /\ Exit(w, "Flushing")
  /\ UNCHANGED <<datasetVars, callVars, op, taken>>

\* The sender is gone without a finish: the stream yields an error.
ReceiveClosed(w) ==
  /\ worker[w] = "Running"
  /\ queue[w] = <<>> /\ sink[w] # "Open"
  /\ Exit(w, "Err")
  /\ UNCHANGED <<datasetVars, callVars, op, taken>>

\* The data files are complete, or writing the last of them fails.
Flush(w) ==
  /\ worker[w] = "Flushing"
  /\ \E result \in {"Ok", "Err"} : Exit(w, result)
  /\ UNCHANGED <<datasetVars, callVars, op, taken>>

\* Writing a data file fails, or the task panics, at any time.
WorkerFail(w) ==
  /\ Receiving(w)
  /\ Exit(w, "Err")
  /\ UNCHANGED <<datasetVars, callVars, op, taken>>

\* Lance returns a transaction without reading the stream to its end: the
\* case the "stopped before" errors of write_batch and finish are there for.
WorkerStop(w) ==
  /\ worker[w] = "Running"
  /\ Exit(w, "Ok")
  /\ UNCHANGED <<datasetVars, callVars, op, taken>>
-----------------------------------------------------------------------------
CallStep(w) ==
  \/ Send(w) \/ SendClosed(w)
  \/ JoinFinish(w) \/ JoinPush(w) \/ JoinDestroy(w)

WorkerStep(w) ==
  \/ Resolve(w)
  \/ ReceiveBatch(w) \/ ReceiveFinish(w) \/ ReceiveClosed(w)
  \/ Flush(w)

WorkerFault(w) == WorkerFail(w) \/ WorkerStop(w)

CommitStep ==
  \/ WriteEmpty \/ Merge \/ Execute \/ BuildIndex \/ FinishReturn

ClientStep(w) ==
  \/ WriterOpen(w)
  \/ \E b \in Batches : Push(w, b)
  \/ WriterFinish(w)
  \/ WriterDestroy(w)

Next ==
  \/ ConversionOpen \/ ConversionFinish \/ ConversionDestroy
  \/ CommitStep
  \/ OtherCommit
  \/ \E w \in Writers :
       ClientStep(w) \/ CallStep(w) \/ WorkerStep(w) \/ WorkerFault(w)

Spec == Init /\ [][Next]_vars

\* The runtime schedules every task and every blocked call, and Lance answers
\* every request; nothing makes a client call or a write fail.
Fairness ==
  /\ WF_vars(CommitStep)
  /\ \A w \in Writers : WF_vars(CallStep(w)) /\ WF_vars(WorkerStep(w))

FairSpec == Spec /\ Fairness
-----------------------------------------------------------------------------
TypeOK ==
  /\ log \in Seq(Version)
  /\ handle \in {"None", "Live", "Freed"}
  /\ loaded \in BOOLEAN
  /\ stage \in {"unopened", "open", "empty", "merge", "execute", "index", "done", "failed"}
  /\ transactions \in Seq(Writers)
  /\ merged \in Seq(Writers)
  /\ mergedOp \in {"Append", "Overwrite"}
  /\ built \in 0 .. NumIndexes
  /\ sink \in [Writers -> {"Unopened", "Open", "Closing", "Finished", "Failed", "Freed"}]
  /\ queue \in [Writers -> Seq(Batches \cup {Finish})]
  /\ worker \in [Writers -> {"None", "Starting", "Running", "Flushing", "Ok", "Err"}]
  /\ op \in [Writers -> {"Append", "Overwrite"}]
  /\ taken \in [Writers -> Seq(Batches)]
  /\ call \in [Writers -> {"idle", "send", "joinFinish", "joinUnsent", "joinPush", "joinDestroy"}]
  /\ arg \in [Writers -> Batches \cup {Finish}]
  /\ ret \in [Writers -> {"ok", "err"}]
  /\ acked \in [Writers -> Seq(Batches)]
  /\ pushed \in SUBSET Batches

\* What a commit takes is whole writers only, each once: a writer in the
\* transaction list or in the merged transaction finished with success, its
\* task wrote exactly the batches whose push succeeded, in push order, and
\* none is in both.  The sent check of finish and the join before
\* add_transaction leave no acknowledged batch behind in the channel
\* (fragment.rs write_batch and finish, dataset.rs add_transaction, commit).
CommittedWhole ==
  /\ \A w \in Range(transactions) \cup Range(merged) :
       /\ sink[w] \in {"Finished", "Freed"}
       /\ taken[w] = acked[w]
  /\ Range(transactions) \cap Range(merged) = {}
  /\ IsInjective(transactions) /\ IsInjective(merged)

\* The versions of one dataset write: at most one with data, which holds
\* exactly the batches acknowledged by the merged writers beside the rows it
\* appends to, then one per index in plan order, and nothing before
\* lance_conversion_finish (dataset.rs commit, index.rs create).
DataVersions  == {i \in 1 .. Len(log) : log[i].by = "data"}
IndexVersions == {i \in 1 .. Len(log) : log[i].by = "index"}
PublishedExactly ==
  /\ Cardinality(DataVersions) = (IF DataVersions = {} THEN 0 ELSE 1)
  /\ DataVersions = {} => Latest \cap Batches = {} /\ IndexVersions = {}
  /\ \A d \in DataVersions :
       /\ log[d].rows \cap Batches = UNION {Range(acked[w]) : w \in Range(merged)}
       /\ \A i \in IndexVersions : d < i
  /\ Cardinality(IndexVersions) = built
  /\ stage = "done" => DataVersions # {} /\ built = NumIndexes

\* The merged transaction has one operation for the fragments of every writer
\* in it, even when the destination appeared between two writers' starts
\* (dataset.rs, merge_transactions).
OneOperation ==
  stage \in {"execute", "index", "done"} =>
    \A w \in Range(merged) : op[w] = mergedOp

\* No task outlives its handle, so the last handle to go may drop the runtime
\* (ffi.rs, lance_conversion_writer_destroy; fragment.rs, abort).
NoOrphanTask ==
  \A w \in Writers : sink[w] \in {"Freed", "Failed", "Finished"} => Exited(w)

\* A destination that existed when the write opened keeps every row of its
\* latest version, whoever committed it, unless the mode is overwrite: an
\* append only adds, and a create that finds a dataset publishes nothing
\* (dataset.rs, write_fragments and commit).
DestinationKept ==
  [][ (Mode # "overwrite" /\ loaded /\ log' # log) => Latest \subseteq Latest' ]_vars

\* Once the commit has taken the transactions, later finishes do not change
\* what it publishes (lance_conversion.h: fragments of writers finished after
\* lance_conversion_finish are never committed).
MergedFrozen ==
  [][ stage \notin {"unopened", "open"} => merged' = merged ]_vars

\* Every call on a writer returns, even when the task dies while the channel
\* is full or the call already waits for it.
CallsReturn == \A w \in Writers : call[w] # "idle" ~> call[w] = "idle"
=============================================================================
