----------------------------- MODULE LanceCopy ------------------------------
(***************************************************************************)
(* COPY ... TO ... (FORMAT LANCE): the copy function of src/lance_copy.cpp *)
(* driven by DuckDB's copy operators over a DatasetWrite.                  *)
(*                                                                         *)
(* The source hands out chunks 1 .. NumChunks in order.  Without order     *)
(* preservation every thread sinks chunks into a writer of its own; with   *)
(* batch indexes threads prepare batches concurrently and flush them, one  *)
(* at a time in batch order, into the writer of the global state; without  *)
(* them one thread sinks everything.  Any step may throw: the query then   *)
(* skips the finalize callback and destroys the states.                    *)
(***************************************************************************)
EXTENDS DatasetWrite

CONSTANTS
  Threads,        \* the sinking threads; each is also its local writer
  Ordered,        \* LanceGlobalState.ordered_writer
  NumChunks,      \* the chunks of the query
  BatchSize,      \* the chunks in a prepared batch
  LocalPath       \* the destination is a local path, not s3://

NoThread == "none"

ASSUME CopyAssumption ==
  /\ Threads # {} /\ NoThread \notin Threads
  /\ Ordered \notin Threads
  /\ Writers = Threads \cup {Ordered}
  /\ NumChunks \in Nat
  /\ Batches = 1 .. NumChunks
  /\ BatchSize \in Nat \ {0}
  /\ LocalPath \in BOOLEAN

VARIABLES
  preserveOrder,  \* the row order of the query must be kept
  mode,      \* the execution mode DuckDB plans the COPY with
  query,     \* the phase of the COPY
  failed,    \* the executor holds an error; threads stop when they see it
  next,      \* the next chunk, or batch, the source hands out
  pc,        \* what each thread does
  held,      \* the chunk or batch each thread works on
  prepared,  \* the batches prepared so far
  flushed,   \* the batches flushed so far
  flusher,   \* the thread flushing a batch, if any
  pos        \* the chunk being flushed

planVars   == <<preserveOrder, mode>>
flushVars  == <<prepared, flushed, flusher, pos>>
engineVars == <<planVars, query, failed, next, pc, held, flushVars>>
copyVars   == <<vars, engineVars>>

\* LanceExecutionMode.
BatchIndexIsEnough(preserve, batchIndex) ==  \* mutant: the arguments are confused
  IF ~preserve \/ batchIndex THEN "PARALLEL" ELSE "REGULAR"
LanceExecutionMode(preserve, batchIndex) ==
  IF ~preserve THEN "PARALLEL" ELSE IF batchIndex THEN "BATCH" ELSE "REGULAR"

NumUnits ==
  IF mode = "BATCH" THEN (NumChunks + BatchSize - 1) \div BatchSize ELSE NumChunks
FirstChunk(batch) == (batch - 1) * BatchSize + 1
WholeBatch(batch) == batch * BatchSize       \* mutant: the last batch is full
LastChunk(batch)  == IF batch * BatchSize < NumChunks THEN batch * BatchSize ELSE NumChunks

CopyInit ==
  /\ Init
  /\ \E batchIndex \in BOOLEAN :
       /\ preserveOrder \in BOOLEAN
       /\ mode = LanceExecutionMode(preserveOrder, batchIndex)
  /\ query = "planned" /\ failed = FALSE
  /\ next = 1
  \* A REGULAR_COPY_TO_FILE sink runs on one thread.
  /\ \E runs \in SUBSET Threads :
       /\ IF mode = "REGULAR" THEN \E t \in Threads : runs = {t} ELSE runs = Threads
       /\ pc = [t \in Threads |-> IF t \in runs THEN "idle" ELSE "combined"]
  /\ held = [t \in Threads |-> 0]
  /\ prepared = {} /\ flushed = 0 /\ flusher = NoThread /\ pos = 0

Goto(t, step) == pc' = [pc EXCEPT ![t] = step]

\* An error leaves the callback: the thread stops and the query fails.
Swallow(t) == Goto(t, "combined") /\ UNCHANGED failed  \* mutant: the error is lost
Throw(t) == Goto(t, "stopped") /\ failed' = TRUE
-----------------------------------------------------------------------------
\* LanceBind: CREATE refuses a local destination that exists.
Bind ==
  /\ query = "planned"
  /\ query' = IF Mode = "create" /\ LocalPath /\ log # <<>> THEN "error" ELSE "bound"
  /\ UNCHANGED <<vars, planVars, failed, next, pc, held, flushVars>>

\* LanceInitialize.
Initialize ==
  /\ query = "bound"
  /\ ConversionOpen
  /\ query' = IF stage' = "open" THEN "running" ELSE "error"
  /\ UNCHANGED <<planVars, failed, next, pc, held, flushVars>>

\* The query is cancelled, or another operator of it fails.
Interrupt ==
  /\ query = "running" /\ ~failed
  /\ failed' = TRUE
  /\ UNCHANGED <<vars, planVars, query, next, pc, held, flushVars>>

\* A thread sees the error of another one.
Stop(t) ==
  /\ query = "running" /\ failed /\ pc[t] = "idle"
  /\ Goto(t, "stopped")
  /\ UNCHANGED <<vars, planVars, query, failed, next, held, flushVars>>

\* Opens a writer on its first use.
OpenLanceWriter(w) == IF sink[w] = "Unopened" THEN WriterOpen(w) ELSE UNCHANGED vars

\* LanceSinkChunk: the thread's own writer, then the push of the chunk.
SinkChunk(t) ==
  /\ query = "running" /\ mode # "BATCH"
  /\ pc[t] = "idle" /\ next <= NumUnits
  /\ OpenLanceWriter(t)
  /\ held' = [held EXCEPT ![t] = next]
  /\ next' = next + 1
  /\ Goto(t, "push")
  /\ UNCHANGED <<planVars, query, failed, flushVars>>

PushChunk(t) ==
  /\ pc[t] = "push"
  /\ Push(t, held[t])
  /\ Goto(t, "pushing")
  /\ UNCHANGED <<planVars, query, failed, next, held, flushVars>>

SinkReturn(t) ==
  /\ pc[t] = "pushing" /\ call[t] = "idle"
  /\ \/ ret[t] = "ok" /\ Goto(t, "idle") /\ UNCHANGED failed
     \/ ret[t] = "err" /\ Throw(t)
  /\ UNCHANGED <<vars, planVars, query, next, held, flushVars>>

\* LanceCombine, once the source has nothing left for the thread.
Combine(t) ==
  /\ query = "running"
  /\ pc[t] = "idle" /\ next > NumUnits
  /\ IF sink[t] = "Unopened"
     THEN Goto(t, "combined") /\ UNCHANGED vars
     ELSE Goto(t, "combining") /\ WriterFinish(t)
  /\ UNCHANGED <<planVars, query, failed, next, held, flushVars>>

CombineReturn(t) ==
  /\ pc[t] = "combining" /\ call[t] = "idle"
  /\ \/ ret[t] = "ok" /\ Goto(t, "combined") /\ UNCHANGED failed
     \/ ret[t] = "err" /\ Throw(t)
  /\ UNCHANGED <<vars, planVars, query, next, held, flushVars>>
-----------------------------------------------------------------------------
\* BATCH_COPY_TO_FILE: a thread collects a batch and prepares it.
TakeBatch(t) ==
  /\ query = "running" /\ mode = "BATCH"
  /\ pc[t] = "idle" /\ next <= NumUnits
  /\ held' = [held EXCEPT ![t] = next]
  /\ next' = next + 1
  /\ Goto(t, "prepare")
  /\ UNCHANGED <<vars, planVars, query, failed, flushVars>>

\* LancePrepareBatch.
PrepareBatch(t) ==
  /\ pc[t] = "prepare"
  /\ prepared' = prepared \cup {held[t]}
  /\ Goto(t, "idle")
  /\ UNCHANGED <<vars, planVars, query, failed, next, held, flushed, flusher, pos>>

\* LanceFlushBatch: DuckDB calls it for one batch at a time in batch order,
\* from a sinking thread or from the thread that finalizes the operator.
FlushBatch(t) ==
  /\ query = "running" /\ flusher = NoThread
  /\ pc[t] = "idle" \/ (pc[t] = "combined" /\ ~failed)
  /\ flushed + 1 \in prepared
  /\ OpenLanceWriter(Ordered)
  /\ flusher' = t
  /\ pos' = FirstChunk(flushed + 1)
  /\ Goto(t, "flush")
  /\ UNCHANGED <<planVars, query, failed, next, held, prepared, flushed>>

FlushChunk(t) ==
  /\ pc[t] = "flush"
  /\ Push(Ordered, pos)
  /\ Goto(t, "flushing")
  /\ UNCHANGED <<planVars, query, failed, next, held, flushVars>>

FlushReturn(t) ==
  /\ pc[t] = "flushing" /\ call[Ordered] = "idle"
  /\ \/ /\ ret[Ordered] = "ok" /\ pos < LastChunk(flushed + 1)
        /\ pos' = pos + 1
        /\ Goto(t, "flush")
        /\ UNCHANGED <<failed, flushed, flusher>>
     \/ /\ ret[Ordered] = "ok" /\ pos = LastChunk(flushed + 1)
        /\ flushed' = flushed + 1
        /\ flusher' = NoThread
        /\ Goto(t, "idle")
        /\ UNCHANGED <<failed, pos>>
     \/ /\ ret[Ordered] = "err"
        /\ Throw(t)
        /\ UNCHANGED <<flushed, flusher, pos>>
  /\ UNCHANGED <<vars, planVars, query, next, held, prepared>>
-----------------------------------------------------------------------------
\* LanceFinalize, after every thread combined without an error: finish the
\* ordered writer if there is one, then commit.
Finalize ==
  /\ query = "running" /\ ~failed
  /\ \A t \in Threads : pc[t] = "combined"
  /\ mode = "BATCH" => flushed = NumUnits
  /\ IF sink[Ordered] = "Unopened"
     THEN ConversionFinish /\ query' = "committing"
     ELSE WriterFinish(Ordered) /\ query' = "finishing"
  /\ UNCHANGED <<planVars, failed, next, pc, held, flushVars>>

FinalizeCommit ==
  /\ query = "finishing" /\ call[Ordered] = "idle"
  /\ \/ ret[Ordered] = "ok" /\ ConversionFinish /\ query' = "committing"
     \/ ret[Ordered] = "err" /\ UNCHANGED vars /\ query' = "error"
  /\ UNCHANGED <<planVars, failed, next, pc, held, flushVars>>

IgnoredResult == "success"       \* mutant: the result of the commit is ignored
FinishResult  == IF stage = "done" THEN "success" ELSE "error"

FinalizeReturn ==
  /\ query = "committing" /\ stage \in {"done", "failed"}
  /\ query' = FinishResult
  /\ UNCHANGED <<vars, planVars, failed, next, pc, held, flushVars>>

\* The query fails once no thread is inside a callback.
FailQuery ==
  /\ query = "running" /\ failed
  /\ \A t \in Threads : pc[t] \in {"combined", "stopped"}
  /\ query' = "error"
  /\ UNCHANGED <<vars, planVars, failed, next, pc, held, flushVars>>

Ended == query \in {"success", "error"}

\* ~LanceLocalState, any time after the thread's last callback.
LocalDestroy(t) ==
  /\ pc[t] \in {"combined", "stopped"}
  /\ WriterDestroy(t)
  /\ UNCHANGED engineVars

\* ~LanceGlobalState: the ordered writer first, then the dataset.
GlobalDestroy ==
  /\ Ended
  /\ \/ WriterDestroy(Ordered)
     \/ sink[Ordered] \in {"Unopened", "Freed"} /\ ConversionDestroy
  /\ UNCHANGED engineVars

\* Every handle is freed.
Released ==
  /\ Ended
  /\ handle # "Live"
  /\ \A w \in Writers : sink[w] \in {"Unopened", "Freed"}

Terminated == Released /\ UNCHANGED copyVars
-----------------------------------------------------------------------------
ThreadStep(t) ==
  \/ SinkChunk(t) \/ PushChunk(t) \/ SinkReturn(t)
  \/ TakeBatch(t) \/ PrepareBatch(t)
  \/ FlushBatch(t) \/ FlushChunk(t) \/ FlushReturn(t)
  \/ Combine(t) \/ CombineReturn(t)
  \/ Stop(t)
  \/ LocalDestroy(t)

QueryStep ==
  \/ Bind \/ Initialize
  \/ Finalize \/ FinalizeCommit \/ FinalizeReturn
  \/ FailQuery \/ GlobalDestroy

\* The steps the callbacks wait for.
WriteStep ==
  /\ \/ CommitStep \/ OtherCommit
     \/ \E w \in Writers : CallStep(w) \/ WorkerStep(w) \/ WorkerFault(w)
  /\ UNCHANGED engineVars

CopyNext ==
  \/ QueryStep
  \/ Interrupt
  \/ \E t \in Threads : ThreadStep(t)
  \/ WriteStep
  \/ Terminated

CopySpec == CopyInit /\ [][CopyNext]_copyVars

\* DuckDB's scheduler runs every thread; see Fairness for the rest.
FairCopySpec ==
  /\ CopySpec
  /\ WF_copyVars(QueryStep)
  /\ \A t \in Threads : WF_copyVars(ThreadStep(t))
  /\ WF_copyVars(CommitStep /\ UNCHANGED engineVars)
  /\ \A w \in Writers :
       /\ WF_copyVars(CallStep(w) /\ UNCHANGED engineVars)
       /\ WF_copyVars(WorkerStep(w) /\ UNCHANGED engineVars)
-----------------------------------------------------------------------------
CopyTypeOK ==
  /\ TypeOK
  /\ preserveOrder \in BOOLEAN
  /\ mode \in {"PARALLEL", "BATCH", "REGULAR"}
  /\ query \in {"planned", "bound", "running", "finishing", "committing", "success", "error"}
  /\ failed \in BOOLEAN
  /\ next \in 1 .. NumUnits + 1
  /\ pc \in [Threads -> {"idle", "push", "pushing", "prepare", "flush", "flushing",
                         "combining", "combined", "stopped"}]
  /\ held \in [Threads -> 0 .. NumUnits]
  /\ prepared \in SUBSET (1 .. NumUnits)
  /\ flushed \in 0 .. NumUnits
  /\ flusher \in Threads \cup {NoThread}
  /\ pos \in 0 .. NumChunks

\* No reader of the dataset ever sees part of a COPY: the version with its
\* data holds every chunk of the query, whichever threads sank them and
\* whatever failed on the way (docs/performance_notes.md: one version for its
\* data, committed after every thread finishes).
NeverPartial ==
  \A d \in DataVersions : Batches \subseteq log[d].rows

\* With order preserved the committed rows are in source order, although
\* several threads prepare and flush the batches.
OrderPreserved ==
  (preserveOrder /\ DataVersions # {} /\ NumChunks > 0) =>
    /\ Len(merged) = 1
    /\ taken[merged[1]] = [c \in 1 .. NumChunks |-> c]

\* Every behavior of a COPY is one of AtomicCopy: its rows appear in one
\* step, and the query reports success only after that.
Outcome ==
  CASE Ended -> query
    [] ~Ended /\ DataVersions # {} -> "published"
    [] ~Ended /\ DataVersions = {} /\ stage = "unopened" -> "pending"
    [] OTHER -> "running"

Abstract == INSTANCE AtomicCopy WITH
  Copied <- Batches, Others <- Foreign, Mode <- Mode,
  exists <- log # <<>>, rows <- Latest, existed <- loaded, copy <- Outcome

ImplementsAtomicCopy == Abstract!Spec

\* Every COPY ends, with success or an error, and frees every handle, so no
\* thread waits for a task that waits for it.
CopyEnds == <>Released
=============================================================================
