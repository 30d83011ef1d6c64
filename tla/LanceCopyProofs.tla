--------------------------- MODULE LanceCopyProofs --------------------------
(***************************************************************************)
(* Theorems about the write of a Lance dataset.  Part I is about           *)
(* DatasetWrite, for every set of writers, batches and foreign rows, every *)
(* write mode and every number of indexes.  Part II is about COPY ... TO   *)
(* ... (FORMAT LANCE) over it, for every number of threads and chunks,     *)
(* every batch size and execution mode: what a COPY publishes is all of    *)
(* the query, in order when order is kept, in one atomic step.             *)
(***************************************************************************)
EXTENDS LanceCopy, FiniteSetTheorems, TLAPS
-----------------------------------------------------------------------------
(***************************************************************************)
(* Part I.  DatasetWrite: type correctness.                                *)
(***************************************************************************)

\* commit merges only a list with a transaction in it, so the operation of
\* the first one is there to take.
TypeInv ==
  /\ TypeOK
  /\ stage = "merge" => merged # <<>>

LEMMA LatestType ==
  ASSUME TypeOK
  PROVE  Latest \in SUBSET Rows
<1>1. CASE log = <<>>
  BY <1>1 DEF Latest
<1>2. CASE log # <<>>
  <2>1. Len(log) \in 1 .. Len(log) /\ log[Len(log)] \in Version
    BY <1>2 DEF TypeOK
  <2> QED
    BY <1>2, <2>1 DEF Latest, Version
<1> QED
  BY <1>1, <1>2

LEMMA MergedRowsType ==
  ASSUME TypeOK
  PROVE  MergedRows \in SUBSET Batches
<1>1. SUFFICES ASSUME NEW w \in Range(merged)
               PROVE  Range(taken[w]) \subseteq Batches
  BY DEF MergedRows
<1>2. w \in Writers
  BY <1>1 DEF Range, TypeOK
<1> QED
  BY <1>2 DEF Range, TypeOK

LEMMA PublishType ==
  ASSUME TypeOK, NEW by \in {"other", "data", "index"}, NEW rows \in SUBSET Rows,
         Publish(by, rows)
  PROVE  log' \in Seq(Version)
BY DEF TypeOK, Publish, Version

LEMMA InitType == ASSUME ConstantsAssumption, Init PROVE TypeOK
<1>1. log \in Seq(Version)
  <2>1. CASE log = <<>>
    BY <2>1
  <2>2. ASSUME NEW r \in SUBSET Foreign, log = <<[by |-> "other", rows |-> r]>>
        PROVE  log \in Seq(Version)
    BY <2>2 DEF Version, Rows
  <2> QED
    BY <2>1, <2>2 DEF Init
<1>2. /\ transactions \in Seq(Writers) /\ merged \in Seq(Writers)
      /\ queue \in [Writers -> Seq(Batches \cup {Finish})]
      /\ taken \in [Writers -> Seq(Batches)]
      /\ acked \in [Writers -> Seq(Batches)]
  <2>1. <<>> \in Seq(Batches) /\ <<>> \in Seq(Batches \cup {Finish}) /\ <<>> \in Seq(Writers)
    OBVIOUS
  <2> QED
    BY <2>1 DEF Init
<1>3. built \in 0 .. NumIndexes
  BY DEF Init, ConstantsAssumption
<1> QED
  BY <1>1, <1>2, <1>3 DEF Init, TypeOK

\* The steps on the dataset handle.
LEMMA DatasetType ==
  ASSUME TypeInv,
         ConversionOpen \/ ConversionFinish \/ ConversionDestroy \/ CommitStep \/ OtherCommit
  PROVE  TypeOK'
<1> USE DEF datasetVars, taskVars, callVars
<1>0. TypeOK
  BY DEF TypeInv
<1>1. CASE ConversionOpen
  BY <1>0, <1>1 DEF TypeOK, ConversionOpen
<1>2. CASE ConversionFinish
  BY <1>0, <1>2 DEF TypeOK, ConversionFinish
<1>3. CASE ConversionDestroy
  BY <1>0, <1>3 DEF TypeOK, ConversionDestroy
<1>4. CASE WriteEmpty
  BY <1>0, <1>4 DEF TypeOK, WriteEmpty, Operation
<1>5. CASE Merge
  <2>1. merged[1] \in Writers
    BY <1>0, <1>5 DEF TypeOK, TypeInv, Merge
  <2>2. op[merged[1]] \in {"Append", "Overwrite"}
    BY <1>0, <2>1 DEF TypeOK
  <2> QED
    BY <1>0, <1>5, <2>2 DEF TypeOK, Merge
<1>6. CASE Execute
  <2>1. log' \in Seq(Version)
    BY <1>0, <1>6, LatestType, MergedRowsType, PublishType DEF Execute, Rows, TypeOK
  <2> QED
    BY <1>0, <1>6, <2>1 DEF TypeOK, Execute
<1>7. CASE BuildIndex
  <2>1. log' \in Seq(Version)
    BY <1>0, <1>7, LatestType, PublishType DEF BuildIndex, TypeOK
  <2>2. built' \in 0 .. NumIndexes
    BY <1>0, <1>7, ConstantsAssumption DEF BuildIndex, MoreIndexes, TypeOK, ConstantsAssumption
  <2> QED
    BY <1>0, <1>7, <2>1, <2>2 DEF TypeOK, BuildIndex
<1>8. CASE FinishReturn
  BY <1>0, <1>8 DEF TypeOK, FinishReturn
<1>9. CASE OtherCommit
  <2>1. log' \in Seq(Version)
    BY <1>0, <1>9, LatestType, PublishType DEF OtherCommit, Rows
  <2> QED
    BY <1>0, <1>9, <2>1 DEF TypeOK, OtherCommit
<1> QED
  BY <1>1, <1>2, <1>3, <1>4, <1>5, <1>6, <1>7, <1>8, <1>9 DEF CommitStep

SinkStates == {"Unopened", "Open", "Closing", "Finished", "Failed", "Freed"}
CallStates == {"idle", "send", "joinFinish", "joinUnsent", "joinPush", "joinDestroy"}

\* What a call writes keeps the types of a sink's variables.
LEMMA CallTypes ==
  ASSUME TypeOK, NEW w \in Writers
  PROVE  /\ CloseInput(w) => sink' \in [Writers -> SinkStates]
         /\ \A s \in SinkStates : [sink EXCEPT ![w] = s] \in [Writers -> SinkStates]
         /\ \A c \in CallStates : [call EXCEPT ![w] = c] \in [Writers -> CallStates]
         /\ \A a \in Batches \cup {Finish} : [arg EXCEPT ![w] = a] \in [Writers -> Batches \cup {Finish}]
         /\ \A r \in {"ok", "err"} : [ret EXCEPT ![w] = r] \in [Writers -> {"ok", "err"}]
         /\ sink \in [Writers -> SinkStates] /\ call \in [Writers -> CallStates]
         /\ arg \in [Writers -> Batches \cup {Finish}] /\ ret \in [Writers -> {"ok", "err"}]
<1>1. CloseInput(w) => sink' \in [Writers -> SinkStates]
  BY DEF TypeOK, CloseInput, SinkStates
<1>2. \A s \in SinkStates : [sink EXCEPT ![w] = s] \in [Writers -> SinkStates]
  BY DEF TypeOK, SinkStates
<1>3. \A c \in CallStates : [call EXCEPT ![w] = c] \in [Writers -> CallStates]
  BY DEF TypeOK, CallStates
<1>4. \A a \in Batches \cup {Finish} : [arg EXCEPT ![w] = a] \in [Writers -> Batches \cup {Finish}]
  BY DEF TypeOK
<1>5. \A r \in {"ok", "err"} : [ret EXCEPT ![w] = r] \in [Writers -> {"ok", "err"}]
  BY DEF TypeOK
<1>6. /\ sink \in [Writers -> SinkStates] /\ call \in [Writers -> CallStates]
      /\ arg \in [Writers -> Batches \cup {Finish}] /\ ret \in [Writers -> {"ok", "err"}]
  BY DEF TypeOK, SinkStates, CallStates
<1> QED
  BY <1>1, <1>2, <1>3, <1>4, <1>5, <1>6

\* The client's calls and their completion.
LEMMA CallType ==
  ASSUME TypeOK, NEW w \in Writers, ClientStep(w) \/ CallStep(w)
  PROVE  TypeOK'
<1> USE DEF datasetVars, taskVars, callVars, TypeOK, SinkStates, CallStates
<1>1. CASE WriterOpen(w)
  BY <1>1 DEF WriterOpen
<1>2. ASSUME NEW b \in Batches, Push(w, b)
      PROVE  TypeOK'
  <2>1. /\ sink' = sink \/ CloseInput(w)
        /\ call' = call \/ \E c \in {"idle", "send", "joinPush"} : call' = [call EXCEPT ![w] = c]
        /\ arg' = arg \/ arg' = [arg EXCEPT ![w] = b]
        /\ ret' = ret \/ ret' = [ret EXCEPT ![w] = "err"]
        /\ pushed' = pushed \cup {b} /\ UNCHANGED <<datasetVars, taskVars, acked>>
    <3> HIDE DEF TypeOK, datasetVars, taskVars
    <3> QED
      BY <1>2 DEF Push, Return
  <2>2. sink' \in [Writers -> SinkStates]
    <3> HIDE DEF TypeOK, SinkStates
    <3> QED
      BY <2>1, CallTypes, Zenon
  <2>3. call' \in [Writers -> CallStates]
    <3> HIDE DEF TypeOK
    <3> QED
      BY <2>1, CallTypes, Zenon
  <2>4. arg' \in [Writers -> Batches \cup {Finish}] /\ ret' \in [Writers -> {"ok", "err"}]
    <3> HIDE DEF TypeOK
    <3>1. /\ [arg EXCEPT ![w] = b] \in [Writers -> Batches \cup {Finish}]
          /\ arg \in [Writers -> Batches \cup {Finish}]
      BY CallTypes
    <3>2. arg' \in [Writers -> Batches \cup {Finish}]
      BY <2>1, <3>1
    <3>3. ret' \in [Writers -> {"ok", "err"}]
      BY <2>1, CallTypes, Zenon
    <3> QED
      BY <3>2, <3>3
  <2>5. pushed' \in SUBSET Batches /\ UNCHANGED <<datasetVars, taskVars, acked>>
    BY <2>1
  <2> QED
    BY <2>2, <2>3, <2>4, <2>5
<1>3. CASE WriterFinish(w)
  <2>1. /\ call' = call \/ \E c \in {"idle", "send"} : call' = [call EXCEPT ![w] = c]
        /\ arg' = arg \/ arg' = [arg EXCEPT ![w] = Finish]
        /\ ret' = ret \/ ret' = [ret EXCEPT ![w] = "err"]
        /\ sink' = sink /\ UNCHANGED <<datasetVars, taskVars, acked, pushed>>
    <3> HIDE DEF TypeOK, datasetVars, taskVars
    <3> QED
      BY <1>3 DEF WriterFinish, Return
  <2>2. call' \in [Writers -> CallStates]
    <3> HIDE DEF TypeOK
    <3> QED
      BY <2>1, CallTypes, Zenon
  <2>3. arg' \in [Writers -> Batches \cup {Finish}] /\ ret' \in [Writers -> {"ok", "err"}]
    <3> HIDE DEF TypeOK
    <3> QED
      BY <2>1, CallTypes, Zenon
  <2>4. UNCHANGED <<datasetVars, taskVars, sink, acked, pushed>>
    BY <2>1
  <2> QED
    BY <2>2, <2>3, <2>4
<1>4. CASE WriterDestroy(w)
  <2>1. /\ sink' = [sink EXCEPT ![w] = "Freed"] \/ CloseInput(w)
        /\ call' = call \/ call' = [call EXCEPT ![w] = "joinDestroy"]
        /\ UNCHANGED <<datasetVars, taskVars, arg, ret, acked, pushed>>
    <3> HIDE DEF TypeOK, datasetVars, taskVars
    <3> QED
      BY <1>4 DEF WriterDestroy
  <2>2. sink' \in [Writers -> SinkStates] /\ call' \in [Writers -> CallStates]
    <3> HIDE DEF TypeOK
    <3> QED
      BY <2>1, CallTypes, Zenon
  <2>3. UNCHANGED <<datasetVars, taskVars, arg, ret, acked, pushed>>
    BY <2>1
  <2> QED
    BY <2>2, <2>3
<1>5. CASE Send(w)
  <2>1. queue' \in [Writers -> Seq(Batches \cup {Finish})]
    BY <1>5 DEF Send
  <2>2. acked' \in [Writers -> Seq(Batches)]
    <3>1. CASE arg[w] = Finish
      BY <3>1, <1>5 DEF Send
    <3>2. CASE arg[w] # Finish
      <4>1. Append(acked[w], arg[w]) \in Seq(Batches)
        BY <3>2
      <4>2. acked' = [acked EXCEPT ![w] = Append(acked[w], arg[w])]
        BY <3>2, <1>5 DEF Send
      <4> QED
        BY <4>1, <4>2
    <3> QED
      BY <3>1, <3>2
  <2>3. /\ sink' = sink \/ CloseInput(w)
        /\ \E c \in {"idle", "joinFinish"} : call' = [call EXCEPT ![w] = c]
        /\ ret' = ret \/ ret' = [ret EXCEPT ![w] = "ok"]
        /\ UNCHANGED <<datasetVars, worker, op, taken, arg, pushed>>
    <3> HIDE DEF TypeOK, datasetVars, taskVars
    <3> QED
      BY <1>5 DEF Send, Return
  <2>4. sink' \in [Writers -> SinkStates]
    <3> HIDE DEF TypeOK, SinkStates
    <3> QED
      BY <2>3, CallTypes, Zenon
  <2>5. call' \in [Writers -> CallStates] /\ ret' \in [Writers -> {"ok", "err"}]
    <3> HIDE DEF TypeOK
    <3> QED
      BY <2>3, CallTypes, Zenon
  <2>6. UNCHANGED <<datasetVars, worker, op, taken, arg, pushed>>
    BY <2>3
  <2> QED
    BY <2>1, <2>2, <2>4, <2>5, <2>6
<1>6. CASE SendClosed(w)
  BY <1>6 DEF SendClosed, CloseInput
<1>7. CASE JoinFinish(w)
  <2>1. transactions' \in Seq(Writers)
    <3>1. Append(transactions, w) \in Seq(Writers)
      OBVIOUS
    <3>2. transactions' = Append(transactions, w) \/ transactions' = transactions
      BY <1>7 DEF JoinFinish, AddTransaction
    <3> QED
      BY <3>1, <3>2
  <2>2. /\ \E s \in {"Finished", "Failed"} : sink' = [sink EXCEPT ![w] = s]
        /\ call' = [call EXCEPT ![w] = "idle"]
        /\ \E r \in {"ok", "err"} : ret' = [ret EXCEPT ![w] = r]
        /\ UNCHANGED <<log, handle, loaded, stage, merged, mergedOp, built, taskVars, arg, acked, pushed>>
    <3> HIDE DEF TypeOK, datasetVars, taskVars
    <3> QED
      BY <1>7 DEF JoinFinish, AddTransaction, Return
  <2>3. /\ sink' \in [Writers -> SinkStates] /\ call' \in [Writers -> CallStates]
        /\ ret' \in [Writers -> {"ok", "err"}]
    <3> HIDE DEF TypeOK
    <3> QED
      BY <2>2, CallTypes, Zenon
  <2>4. UNCHANGED <<log, handle, loaded, stage, merged, mergedOp, built, taskVars, arg, acked, pushed>>
    BY <2>2
  <2> QED
    BY <2>1, <2>3, <2>4
<1>8. CASE JoinPush(w)
  BY <1>8 DEF JoinPush, Return
<1>9. CASE JoinDestroy(w)
  BY <1>9 DEF JoinDestroy
<1> QED
  BY <1>1, <1>2, <1>3, <1>4, <1>5, <1>6, <1>7, <1>8, <1>9 DEF ClientStep, CallStep

\* The steps of a task.
LEMMA TaskType ==
  ASSUME TypeOK, NEW w \in Writers, WorkerStep(w) \/ WorkerFault(w)
  PROVE  TypeOK'
<1> USE DEF datasetVars, callVars, TypeOK, Exit
<1>1. CASE Resolve(w)
  <2>1. Operation(Exists) \in {"Append", "Overwrite"}
    BY DEF Operation
  <2>2. CASE Refused(Exists)
    <3>1. queue' = [queue EXCEPT ![w] = <<>>]
      BY <2>2, <1>1 DEF Resolve
    <3>2. worker' = [worker EXCEPT ![w] = "Err"] /\ UNCHANGED <<datasetVars, callVars, taken, op>>
      BY <2>2, <1>1 DEF Resolve
    <3> QED
      BY <3>1, <3>2
  <2>3. CASE ~Refused(Exists)
    <3>1. /\ worker' = [worker EXCEPT ![w] = "Running"]
          /\ op' = [op EXCEPT ![w] = Operation(Exists)]
          /\ UNCHANGED <<datasetVars, callVars, queue, taken>>
      BY <2>3, <1>1 DEF Resolve
    <3>2. op' \in [Writers -> {"Append", "Overwrite"}]
      BY <2>1, <3>1
    <3> QED
      BY <3>1, <3>2
  <2> QED
    BY <2>2, <2>3
<1>2. CASE ReceiveBatch(w)
  <2>1. queue[w] \in Seq(Batches \cup {Finish}) /\ queue[w] # <<>> /\ Head(queue[w]) # Finish
    BY <1>2 DEF ReceiveBatch
  <2>2. Head(queue[w]) \in Batches /\ Tail(queue[w]) \in Seq(Batches \cup {Finish})
    BY <2>1
  <2>3. Append(taken[w], Head(queue[w])) \in Seq(Batches)
    BY <2>2
  <2> QED
    BY <1>2, <2>2, <2>3 DEF ReceiveBatch
<1>3. CASE ReceiveFinish(w)
  BY <1>3 DEF ReceiveFinish
<1>4. CASE ReceiveClosed(w)
  BY <1>4 DEF ReceiveClosed
<1>5. CASE Flush(w)
  BY <1>5 DEF Flush
<1>6. CASE WorkerFail(w)
  BY <1>6 DEF WorkerFail
<1>7. CASE WorkerStop(w)
  BY <1>7 DEF WorkerStop
<1> QED
  BY <1>1, <1>2, <1>3, <1>4, <1>5, <1>6, <1>7 DEF WorkerStep, WorkerFault

LEMMA NextType == ASSUME TypeInv, [Next]_vars PROVE TypeInv'
<1>1. TypeOK'
  <2>1. CASE UNCHANGED vars
    BY <2>1 DEF TypeInv, TypeOK, vars, datasetVars, taskVars, callVars
  <2>2. CASE Next
    BY <2>2, DatasetType, CallType, TaskType DEF Next, TypeInv
  <2> QED
    BY <2>1, <2>2
<1>2. stage' = "merge" => merged' # <<>>
  <2> USE DEF TypeInv, datasetVars, taskVars, callVars
  <2>1. CASE UNCHANGED vars
    BY <2>1 DEF vars
  <2>2. CASE \/ ConversionOpen \/ ConversionFinish \/ ConversionDestroy
             \/ CommitStep \/ OtherCommit
    BY <2>2 DEF ConversionOpen, ConversionFinish, ConversionDestroy, CommitStep, OtherCommit,
                WriteEmpty, Merge, Execute, BuildIndex, FinishReturn
  <2>3. ASSUME NEW w \in Writers,
               ClientStep(w) \/ CallStep(w) \/ WorkerStep(w) \/ WorkerFault(w)
        PROVE  UNCHANGED <<stage, merged>>
    BY <2>3 DEF ClientStep, CallStep, WorkerStep, WorkerFault, WriterOpen, Push, WriterFinish,
                WriterDestroy, Send, SendClosed, JoinFinish, AddTransaction, JoinPush, JoinDestroy, Resolve,
                ReceiveBatch, ReceiveFinish, ReceiveClosed, Flush, WorkerFail, WorkerStop
  <2> QED
    BY <2>1, <2>2, <2>3 DEF Next
<1> QED
  BY <1>1, <1>2 DEF TypeInv

\* Every variable of a dataset write stays in its type.
THEOREM TypeCorrect == Spec => []TypeOK
<1>1. Init => TypeInv
  BY InitType, ConstantsAssumption DEF TypeInv, Init
<1>2. TypeInv /\ [Next]_vars => TypeInv'
  BY NextType
<1>3. TypeInv => TypeOK
  BY DEF TypeInv
<1> QED
  BY <1>1, <1>2, <1>3, PTL DEF Spec

-----------------------------------------------------------------------------
(***************************************************************************)
(* A commit takes whole writers.  CommittedWhole alone is not inductive: a *)
(* writer enters the transaction list when its call returns, so the        *)
(* invariant follows the handle, the channel and the task up to there.     *)
(***************************************************************************)
WriterInv(w) ==
  \* A handle that was never opened has no task.
  /\ sink[w] = "Unopened" <=> worker[w] = "None"
  \* A call in progress keeps the handle open, or closing once it joins.
  /\ sink[w] = "Unopened" => call[w] = "idle" /\ acked[w] = taken[w]
  /\ call[w] = "send" => sink[w] = "Open"
  /\ call[w] \notin {"idle", "send"} <=> sink[w] = "Closing"
  \* A handle that is done has joined its task.
  /\ sink[w] \in {"Finished", "Failed", "Freed"} => Exited(w)
  \* The task has read what was acknowledged but the batch in the channel.
  /\ Len(queue[w]) <= QueueCapacity
  /\ Receiving(w) =>
       acked[w] = IF queue[w] = <<>> \/ queue[w][1] = Finish
                  THEN taken[w] ELSE Append(taken[w], queue[w][1])
  /\ ~Receiving(w) => queue[w] = <<>>
  \* The finish message goes in last, into an empty channel.
  /\ call[w] = "joinFinish" =>
       /\ taken[w] = acked[w]
       /\ Receiving(w) => queue[w] = <<Finish>>

Inv ==
  /\ TypeInv
  /\ \A w \in Writers : WriterInv(w)
  /\ CommittedWhole

LEMMA InvInit == ASSUME ConstantsAssumption, Init PROVE Inv
<1>1. TypeInv
  BY InitType DEF TypeInv, Init
<1>2. ASSUME NEW w \in Writers
      PROVE  WriterInv(w)
  BY DEF Init, WriterInv, Exited, Receiving, QueueCapacity
<1>3. Range(transactions) = {} /\ Range(merged) = {}
  BY DEF Init, Range
<1>4. IsInjective(transactions) /\ IsInjective(merged)
  BY DEF Init, IsInjective
<1> QED
  BY <1>1, <1>2, <1>3, <1>4 DEF Inv, CommittedWhole

\* The steps on the dataset handle leave the writers alone.
LEMMA WriterInvDataset ==
  ASSUME Inv, NEW w \in Writers, UNCHANGED <<taskVars, callVars>>
  PROVE  WriterInv(w)'
BY DEF Inv, WriterInv, Exited, Receiving, QueueCapacity, taskVars, callVars

\* A step of one writer leaves the others alone.
OnlyWriter(w) ==
  \A v \in Writers \ {w} :
    /\ sink'[v] = sink[v] /\ queue'[v] = queue[v] /\ worker'[v] = worker[v]
    /\ taken'[v] = taken[v] /\ call'[v] = call[v] /\ acked'[v] = acked[v]

LEMMA WriterFrame ==
  ASSUME TypeOK, NEW w \in Writers,
         ClientStep(w) \/ CallStep(w) \/ WorkerStep(w) \/ WorkerFault(w)
  PROVE  OnlyWriter(w)
<1> USE DEF TypeOK, OnlyWriter, datasetVars, taskVars, callVars
<1>1. CASE ClientStep(w)
  BY <1>1 DEF ClientStep, WriterOpen, Push, WriterFinish, WriterDestroy, Return, CloseInput
<1>2. CASE CallStep(w)
  BY <1>2 DEF CallStep, Send, SendClosed, JoinFinish, JoinPush, JoinDestroy, Return, CloseInput
<1>3. CASE WorkerStep(w) \/ WorkerFault(w)
  BY <1>3 DEF WorkerStep, WorkerFault, Resolve, ReceiveBatch, ReceiveFinish, ReceiveClosed,
              Flush, WorkerFail, WorkerStop, Exit
<1> QED
  BY <1>1, <1>2, <1>3

LEMMA WriterInvOther ==
  ASSUME Inv, NEW w \in Writers, OnlyWriter(w), NEW v \in Writers \ {w}
  PROVE  WriterInv(v)'
BY DEF Inv, WriterInv, Exited, Receiving, QueueCapacity, OnlyWriter

LEMMA WriterInvCall ==
  ASSUME Inv, NEW w \in Writers, ClientStep(w) \/ CallStep(w)
  PROVE  WriterInv(w)'
<1> DEFINE TaskKept == /\ queue'[w] = queue[w] /\ worker'[w] = worker[w]
                       /\ taken'[w] = taken[w] /\ acked'[w] = acked[w]
<1>0. TypeOK /\ WriterInv(w)
  BY DEF Inv, TypeInv
<1> USE DEF Exited, Receiving, QueueCapacity
<1>1. CASE WriterOpen(w)
  <2>1. /\ sink[w] = "Unopened" /\ sink'[w] = "Open" /\ worker'[w] = "Starting"
        /\ queue'[w] = queue[w] /\ taken'[w] = taken[w] /\ acked'[w] = acked[w]
        /\ call'[w] = call[w]
    BY <1>0, <1>1 DEF WriterOpen, TypeOK
  <2>2. queue[w] = <<>> /\ acked[w] = taken[w]
    BY <1>0, <2>1 DEF WriterInv
  <2> QED
    BY <1>0, <2>1, <2>2 DEF WriterInv
<1>2. ASSUME NEW b \in Batches, Push(w, b)
      PROVE  WriterInv(w)'
  <2>1. TaskKept
    BY <1>2 DEF Push, taskVars
  <2>2. /\ call[w] = "idle"
        /\ \/ sink[w] = "Open" /\ sink'[w] = "Open" /\ call'[w] = "send"
           \/ sink[w] = "Open" /\ sink'[w] = "Closing" /\ call'[w] = "joinPush"
           \/ sink'[w] = sink[w] /\ call'[w] = "idle"
    BY <1>0, <1>2 DEF Push, Return, CloseInput, TypeOK
  <2> QED
    BY <1>0, <2>1, <2>2 DEF WriterInv
<1>3. CASE WriterFinish(w)
  <2>1. TaskKept /\ sink'[w] = sink[w]
    BY <1>3 DEF WriterFinish, taskVars
  <2>2. call[w] = "idle" /\ ((sink[w] = "Open" /\ call'[w] = "send") \/ call'[w] = "idle")
    BY <1>0, <1>3 DEF WriterFinish, Return, TypeOK
  <2> QED
    BY <1>0, <2>1, <2>2 DEF WriterInv
<1>4. CASE WriterDestroy(w)
  <2>1. TaskKept
    BY <1>4 DEF WriterDestroy, taskVars
  <2>2. /\ call[w] = "idle" /\ sink[w] # "Unopened"
        /\ \/ sink[w] = "Open" /\ sink'[w] = "Closing" /\ call'[w] = "joinDestroy"
           \/ sink[w] # "Open" /\ sink'[w] = "Freed" /\ call'[w] = "idle"
    BY <1>0, <1>4 DEF WriterDestroy, HandleValid, CloseInput, TypeOK
  <2>3. sink[w] # "Open" => Exited(w)
    BY <1>0, <2>2 DEF WriterInv, TypeOK
  <2> QED
    BY <1>0, <2>1, <2>2, <2>3 DEF WriterInv
<1>5. CASE Send(w)
  <2>0. queue[w] = <<>>
    <3>1. queue[w] \in Seq(Batches \cup {Finish}) /\ Len(queue[w]) < 1
      BY <1>0, <1>5 DEF Send, TypeOK
    <3> QED
      BY <3>1
  <2>1. /\ queue[w] = <<>> /\ queue'[w] = <<arg[w]>> /\ taken'[w] = taken[w]
        /\ worker'[w] = worker[w] /\ call[w] = "send" /\ Receiving(w)
    BY <1>0, <1>5, <2>0 DEF Send, TypeOK
  <2>2. acked[w] = taken[w] /\ sink[w] = "Open" /\ Len(queue'[w]) = 1 /\ queue'[w][1] = arg[w]
    BY <1>0, <2>1 DEF WriterInv
  <2>3. CASE arg[w] = Finish
    <3>1. sink'[w] = "Closing" /\ call'[w] = "joinFinish" /\ acked'[w] = acked[w]
      BY <1>0, <1>5, <2>2, <2>3 DEF Send, CloseInput, TypeOK
    <3> QED
      BY <1>0, <2>1, <2>2, <2>3, <3>1 DEF WriterInv
  <2>4. CASE arg[w] # Finish
    <3>1. /\ sink'[w] = "Open" /\ call'[w] = "idle"
          /\ acked'[w] = Append(taken[w], queue'[w][1])
      BY <1>0, <1>5, <2>2, <2>4 DEF Send, Return, TypeOK
    <3> QED
      BY <1>0, <2>1, <2>2, <2>4, <3>1 DEF WriterInv
  <2> QED
    BY <2>3, <2>4
<1>6. CASE SendClosed(w)
  <2>1. /\ TaskKept /\ call[w] = "send" /\ ~Receiving(w)
        /\ call'[w] \in {"joinUnsent", "joinPush"}
        /\ sink'[w] = IF sink[w] = "Open" THEN "Closing" ELSE sink[w]
    BY <1>0, <1>6 DEF SendClosed, ReceiverGone, CloseInput, TypeOK, taskVars
  <2> QED
    BY <1>0, <2>1 DEF WriterInv
<1>7. CASE JoinFinish(w) \/ JoinPush(w) \/ JoinDestroy(w)
  <2>1. /\ TaskKept /\ Exited(w) /\ call[w] \notin {"idle", "send"} /\ call'[w] = "idle"
        /\ sink'[w] \in {"Finished", "Failed", "Freed"}
    BY <1>0, <1>7 DEF JoinFinish, JoinPush, JoinDestroy, Return, TypeOK, taskVars
  <2> QED
    BY <1>0, <2>1 DEF WriterInv
<1> QED
  BY <1>1, <1>2, <1>3, <1>4, <1>5, <1>6, <1>7 DEF ClientStep, CallStep

LEMMA WriterInvTask ==
  ASSUME Inv, NEW w \in Writers, WorkerStep(w) \/ WorkerFault(w)
  PROVE  WriterInv(w)'
<1>0. TypeOK /\ WriterInv(w)
  BY DEF Inv, TypeInv
<1>1. sink'[w] = sink[w] /\ call'[w] = call[w] /\ acked'[w] = acked[w]
  BY DEF WorkerStep, WorkerFault, Resolve, ReceiveBatch, ReceiveFinish, ReceiveClosed, Flush,
         WorkerFail, WorkerStop, callVars
<1> USE DEF Exited, Receiving, QueueCapacity
\* The task goes on or ends without reading a batch.
<1>2. CASE ~ReceiveBatch(w)
  <2>1. /\ taken'[w] = taken[w]
        /\ \/ worker[w] = "Starting" /\ worker'[w] = "Running" /\ queue'[w] = queue[w]
           \/ /\ worker[w] \in {"Starting", "Running", "Flushing"}
              /\ worker'[w] \in {"Flushing", "Ok", "Err"} /\ queue'[w] = <<>>
    BY <1>0, <1>2 DEF WorkerStep, WorkerFault, Resolve, ReceiveFinish, ReceiveClosed, Flush,
         WorkerFail, WorkerStop, Exit, TypeOK
  <2> QED
    BY <1>0, <1>1, <2>1 DEF WriterInv
<1>3. CASE ReceiveBatch(w)
  <2>1. /\ worker[w] = "Running" /\ worker'[w] = worker[w]
        /\ queue[w] # <<>> /\ Head(queue[w]) # Finish
        /\ queue'[w] = Tail(queue[w]) /\ taken'[w] = Append(taken[w], Head(queue[w]))
    BY <1>0, <1>3 DEF ReceiveBatch, TypeOK
  <2>2. queue[w] \in Seq(Batches \cup {Finish}) /\ Len(queue[w]) <= 1
    BY <1>0 DEF WriterInv, TypeOK
  <2>3. Head(queue[w]) = queue[w][1] /\ Tail(queue[w]) = <<>>
    BY <2>1, <2>2
  <2>4. taken'[w] = acked[w] /\ queue'[w] = <<>>
    BY <1>0, <2>1, <2>3 DEF WriterInv
  <2>5. call[w] # "joinFinish"
    <3>1. queue[w] # <<Finish>>
      BY <2>1, <2>3
    <3> QED
      BY <1>0, <2>1, <3>1 DEF WriterInv
  <2> QED
    BY <1>0, <1>1, <2>1, <2>4, <2>5 DEF WriterInv
<1> QED
  BY <1>2, <1>3

\* Only finish adds a transaction, and only conversion_finish takes them.
LEMMA ListFrame ==
  ASSUME NEW w \in Writers, ClientStep(w) \/ CallStep(w) \/ WorkerStep(w) \/ WorkerFault(w),
         ~JoinFinish(w)
  PROVE  UNCHANGED <<transactions, merged>>
BY DEF ClientStep, CallStep, WorkerStep, WorkerFault, WriterOpen, Push, WriterFinish,
       WriterDestroy, Send, SendClosed, JoinPush, JoinDestroy, Resolve, ReceiveBatch,
       ReceiveFinish, ReceiveClosed, Flush, WorkerFail, WorkerStop, datasetVars

\* A writer in a list stays finished and its task reads no more.
Whole(w) == sink[w] \in {"Finished", "Freed"} /\ taken[w] = acked[w]

LEMMA WholeStable ==
  ASSUME Inv, NEW w \in Writers, Whole(w),
         NEW v \in Writers,
         ClientStep(v) \/ CallStep(v) \/ WorkerStep(v) \/ WorkerFault(v)
  PROVE  Whole(w)'
<1>0. TypeOK /\ WriterInv(w)
  BY DEF Inv, TypeInv
<1>1. CASE w # v
  BY <1>0, <1>1, WriterFrame DEF Whole, OnlyWriter
<1>2. CASE w = v
  <2>1. call[w] = "idle" /\ Exited(w)
    BY <1>0 DEF Whole, WriterInv
  <2>2. CASE ClientStep(w)
    BY <1>0, <2>1, <2>2 DEF Whole, TypeOK, ClientStep, WriterOpen, Push, WriterFinish,
                            WriterDestroy, Return, CloseInput, taskVars
  <2>3. CASE CallStep(w)
    BY <2>1, <2>3 DEF CallStep, Send, SendClosed, JoinFinish, JoinPush, JoinDestroy
  <2>4. CASE WorkerStep(w) \/ WorkerFault(w)
    BY <2>1, <2>4 DEF WorkerStep, WorkerFault, Resolve, ReceiveBatch, ReceiveFinish,
                      ReceiveClosed, Flush, WorkerFail, WorkerStop, Exited, Receiving
  <2> QED
    BY <1>2, <2>2, <2>3, <2>4
<1> QED
  BY <1>1, <1>2

LEMMA CommittedWholeDataset ==
  ASSUME Inv, UNCHANGED <<taskVars, callVars>>,
         \/ UNCHANGED <<transactions, merged>>
         \/ merged' = transactions /\ transactions' = <<>>
  PROVE  CommittedWhole'
<1>1. Range(<<>>) = {} /\ IsInjective(<<>>)
  BY DEF Range, IsInjective
<1> QED
  BY <1>1 DEF Inv, CommittedWhole, taskVars, callVars

LEMMA RangeAppend ==
  ASSUME NEW S, NEW s \in Seq(S), NEW x \in S
  PROVE  Range(Append(s, x)) = Range(s) \cup {x}
<1> DEFINE t == Append(s, x)
<1>1. /\ DOMAIN t = 1 .. Len(s) + 1 /\ DOMAIN s = 1 .. Len(s) /\ Len(s) \in Nat
      /\ t[Len(s) + 1] = x
      /\ \A i \in 1 .. Len(s) : t[i] = s[i]
  OBVIOUS
<1> HIDE DEF t
<1>2. Range(t) \subseteq Range(s) \cup {x}
  BY <1>1 DEF Range
<1>3. Range(s) \cup {x} \subseteq Range(t)
  BY <1>1 DEF Range
<1> QED
  BY <1>2, <1>3 DEF t

LEMMA InjectiveAppend ==
  ASSUME NEW S, NEW s \in Seq(S), NEW x \in S, x \notin Range(s), IsInjective(s)
  PROVE  IsInjective(Append(s, x))
<1> DEFINE t == Append(s, x)
<1>1. /\ DOMAIN t = 1 .. Len(s) + 1 /\ DOMAIN s = 1 .. Len(s) /\ Len(s) \in Nat
      /\ t[Len(s) + 1] = x
      /\ \A i \in 1 .. Len(s) : t[i] = s[i]
  OBVIOUS
<1> HIDE DEF t
<1>2. \A i \in 1 .. Len(s) : s[i] # x
  BY <1>1 DEF Range
<1>3. IsInjective(t)
  BY <1>1, <1>2 DEF IsInjective
<1> QED
  BY <1>3 DEF t

\* The lists hold writers.
LEMMA ListedWriters ==
  ASSUME TypeOK
  PROVE  \A v \in Range(transactions) \cup Range(merged) : v \in Writers
<1>1. transactions \in Seq(Writers) /\ merged \in Seq(Writers)
  BY DEF TypeOK
<1>2. ASSUME NEW q \in Seq(Writers), NEW v \in Range(q)
      PROVE  v \in Writers
  BY DEF Range
<1> QED
  BY <1>1, <1>2

\* What finish appends: a writer that is whole and in neither list yet.
LEMMA CommittedWholeFinish ==
  ASSUME Inv, NEW w \in Writers, JoinFinish(w)
  PROVE  CommittedWhole'
<1>0. TypeOK /\ WriterInv(w) /\ CommittedWhole
  BY DEF Inv, TypeInv
<1>1. /\ merged' = merged
      /\ \/ transactions' = transactions
         \/ /\ transactions' = Append(transactions, w)
            /\ call[w] = "joinFinish" /\ sink'[w] = "Finished"
            /\ UNCHANGED <<taken, acked>>
  BY <1>0 DEF JoinFinish, AddTransaction, TypeOK, taskVars
<1>2. sink[w] = "Closing"
  BY <1>0 DEF JoinFinish, WriterInv
<1>3. w \notin Range(transactions) \cup Range(merged)
  BY <1>0, <1>2 DEF CommittedWhole
<1>4. ASSUME NEW v \in Range(transactions) \cup Range(merged)
      PROVE  Whole(v)'
  <2>1. v \in Writers
    BY <1>0, ListedWriters
  <2>2. Whole(v)
    BY <1>0 DEF CommittedWhole, Whole
  <2> QED
    BY <2>1, <2>2, WholeStable DEF CallStep
<1>5. CASE transactions' = transactions
  BY <1>0, <1>1, <1>4, <1>5 DEF CommittedWhole, Whole
<1>6. CASE /\ transactions' = Append(transactions, w)
           /\ call[w] = "joinFinish" /\ sink'[w] = "Finished"
           /\ UNCHANGED <<taken, acked>>
  <2>1. Range(transactions') = Range(transactions) \cup {w}
    BY <1>0, <1>6, RangeAppend DEF TypeOK
  <2>2. IsInjective(transactions')
    BY <1>0, <1>3, <1>6, InjectiveAppend DEF TypeOK, CommittedWhole
  <2>3. Whole(w)'
    BY <1>0, <1>6 DEF Whole, WriterInv
  <2> QED
    BY <1>0, <1>1, <1>3, <1>4, <2>1, <2>2, <2>3 DEF CommittedWhole, Whole
<1> QED
  BY <1>1, <1>5, <1>6

LEMMA InvNext == ASSUME Inv, [Next]_vars PROVE Inv'
<1>1. TypeInv'
  BY NextType DEF Inv
<1>2. CASE UNCHANGED vars \/ ConversionOpen \/ ConversionFinish \/ ConversionDestroy
           \/ CommitStep \/ OtherCommit
  <2>1. UNCHANGED <<taskVars, callVars>>
    BY <1>2 DEF vars, ConversionOpen, ConversionFinish, ConversionDestroy, CommitStep,
                OtherCommit, WriteEmpty, Merge, Execute, BuildIndex, FinishReturn
  <2>2. \/ UNCHANGED <<transactions, merged>>
        \/ merged' = transactions /\ transactions' = <<>>
    BY <1>2 DEF vars, datasetVars, ConversionOpen, ConversionFinish, ConversionDestroy,
                CommitStep, OtherCommit, WriteEmpty, Merge, Execute, BuildIndex, FinishReturn
  <2> QED
    BY <1>1, <2>1, <2>2, WriterInvDataset, CommittedWholeDataset DEF Inv
<1>3. ASSUME NEW w \in Writers,
             ClientStep(w) \/ CallStep(w) \/ WorkerStep(w) \/ WorkerFault(w)
      PROVE  Inv'
  <2>1. ASSUME NEW v \in Writers
        PROVE  WriterInv(v)'
    <3>1. CASE v = w
      BY <1>3, <3>1, WriterInvCall, WriterInvTask
    <3>2. CASE v # w
      BY <1>3, <3>2, WriterFrame, WriterInvOther DEF Inv, TypeInv
    <3> QED
      BY <3>1, <3>2
  <2>2. CommittedWhole'
    <3>1. CASE JoinFinish(w)
      BY <3>1, CommittedWholeFinish
    <3>2. CASE ~JoinFinish(w)
      <4>1. UNCHANGED <<transactions, merged>>
        BY <1>3, <3>2, ListFrame
      <4>2. ASSUME NEW v \in Range(transactions) \cup Range(merged)
            PROVE  Whole(v)'
        <5>1. v \in Writers /\ Whole(v)
          <6>1. v \in Writers
            BY ListedWriters DEF Inv, TypeInv
          <6> QED
            BY <6>1 DEF Inv, CommittedWhole, Whole
        <5> QED
          BY <1>3, <5>1, WholeStable
      <4> QED
        BY <4>1, <4>2 DEF Inv, CommittedWhole, Whole
    <3> QED
      BY <3>1, <3>2
  <2> QED
    BY <1>1, <2>1, <2>2 DEF Inv
<1> QED
  BY <1>2, <1>3 DEF Next

LEMMA InvHolds == Spec => []Inv
<1>1. Init => Inv
  BY InvInit, ConstantsAssumption
<1>2. Inv /\ [Next]_vars => Inv'
  BY InvNext
<1> QED
  BY <1>1, <1>2, PTL DEF Spec

\* What a commit takes is whole writers, each once: all the batches whose
\* push succeeded, in push order, and nothing of a writer that failed.
THEOREM CommitsWholeWriters == Spec => []CommittedWhole
<1>1. Inv => CommittedWhole
  BY DEF Inv
<1> QED
  BY <1>1, InvHolds, PTL

\* No task outlives its handle: freeing a handle waits for its task.
THEOREM TasksJoined == Spec => []NoOrphanTask
<1>1. Inv => NoOrphanTask
  BY DEF Inv, WriterInv, NoOrphanTask
<1> QED
  BY <1>1, InvHolds, PTL

\* What a commit publishes is fixed when it starts, whatever writers finish
\* later.
THEOREM CommitFrozen == Spec => MergedFrozen
<1>1. [Next]_vars => [stage \notin {"unopened", "open"} => merged' = merged]_vars
  <2>1. SUFFICES ASSUME Next, stage \notin {"unopened", "open"}
                 PROVE  merged' = merged
    OBVIOUS
  <2>2. CASE \/ ConversionOpen \/ ConversionFinish \/ ConversionDestroy
             \/ CommitStep \/ OtherCommit
    BY <2>1, <2>2 DEF ConversionOpen, ConversionFinish, ConversionDestroy, CommitStep,
                      OtherCommit, WriteEmpty, Merge, Execute, BuildIndex, FinishReturn
  <2>3. ASSUME NEW w \in Writers,
               ClientStep(w) \/ CallStep(w) \/ WorkerStep(w) \/ WorkerFault(w)
        PROVE  merged' = merged
    BY <2>3, ListFrame DEF JoinFinish, AddTransaction
  <2> QED
    BY <2>1, <2>2, <2>3 DEF Next
<1> QED
  BY <1>1, PTL DEF Spec, MergedFrozen
-----------------------------------------------------------------------------
(***************************************************************************)
(* What a dataset write publishes: the versions of the destination, the    *)
(* operation of the merged transaction and the rows that were there        *)
(* before.  These rest on the invariant Inv above, which follows the       *)
(* writers.                                                                *)
(***************************************************************************)
AWriterStep(w) == ClientStep(w) \/ CallStep(w) \/ WorkerStep(w) \/ WorkerFault(w)
ADatasetStep   == \/ ConversionOpen \/ ConversionFinish \/ ConversionDestroy
                  \/ CommitStep \/ OtherCommit

\* A step of a writer does not touch the destination or the commit.
LEMMA WriterStepFrame ==
  ASSUME NEW w \in Writers, AWriterStep(w)
  PROVE  UNCHANGED <<log, handle, loaded, stage, merged, mergedOp, built>>
BY DEF AWriterStep, ClientStep, CallStep, WorkerStep, WorkerFault, WriterOpen, Push, WriterFinish,
       WriterDestroy, Send, SendClosed, JoinFinish, AddTransaction, JoinPush, JoinDestroy,
       Resolve, ReceiveBatch, ReceiveFinish, ReceiveClosed, Flush, WorkerFail, WorkerStop,
       datasetVars

\* A step on the dataset handle does not touch the writers.
LEMMA DatasetStepFrame ==
  ASSUME ADatasetStep
  PROVE  UNCHANGED <<taskVars, callVars>>
BY DEF ADatasetStep, ConversionOpen, ConversionFinish, ConversionDestroy, CommitStep, OtherCommit,
       WriteEmpty, Merge, Execute, BuildIndex, FinishReturn

\* The writers of the merged transaction have ended their tasks.
LEMMA MergedExited ==
  ASSUME Inv, NEW w \in Range(merged)
  PROVE  w \in Writers /\ Exited(w) /\ taken[w] = acked[w] /\ call[w] = "idle"
<1>1. w \in Writers
  BY DEF Inv, TypeInv, TypeOK, Range
<1> QED
  BY <1>1 DEF Inv, CommittedWhole, WriterInv

\* Neither its operation nor its acknowledged batches change any more.
LEMMA MergedStable ==
  ASSUME Inv, NEW w \in Range(merged), NEW v \in Writers, AWriterStep(v)
  PROVE  op'[w] = op[w] /\ acked'[w] = acked[w]
<1>1. w \in Writers /\ Exited(w) /\ call[w] = "idle"
  BY MergedExited
<1>2. TypeOK
  BY DEF Inv, TypeInv
<1>3. CASE ClientStep(v)
  BY <1>3 DEF ClientStep, WriterOpen, Push, WriterFinish, WriterDestroy, taskVars
<1>4. CASE CallStep(v)
  BY <1>1, <1>2, <1>4 DEF CallStep, Send, SendClosed, JoinFinish, JoinPush, JoinDestroy, taskVars, TypeOK
<1>5. CASE WorkerStep(v) \/ WorkerFault(v)
  BY <1>1, <1>2, <1>5 DEF WorkerStep, WorkerFault, Resolve, ReceiveBatch, ReceiveFinish, ReceiveClosed,
       Flush, WorkerFail, WorkerStop, Exited, callVars, TypeOK
<1> QED
  BY <1>3, <1>4, <1>5 DEF AWriterStep

-----------------------------------------------------------------------------
(***************************************************************************)
(* One operation.                                                          *)
(***************************************************************************)
OperationInv ==
  /\ stage \in {"unopened", "open", "empty"} => merged = <<>>
  /\ OneOperation

LEMMA OperationInit == Init => OperationInv
BY DEF Init, OperationInv, OneOperation

LEMMA OperationNext ==
  ASSUME Inv, OperationInv, [Next]_vars
  PROVE  OperationInv'
<1>0. TypeOK /\ (stage = "merge" => merged # <<>>)
  BY DEF Inv, TypeInv
<1>e. Range(<<>>) = {}
  BY DEF Range
<1>1. CASE UNCHANGED vars
  BY <1>1 DEF OperationInv, OneOperation, vars, datasetVars, taskVars
<1>2. CASE ADatasetStep
  <2>1. op' = op
    BY <1>2, DatasetStepFrame DEF taskVars
  <2>2. CASE WriteEmpty
    BY <1>e, <2>2 DEF WriteEmpty, OperationInv, OneOperation
  <2>3. CASE Merge
    <3>1. CASE CompatibleOperations
      <4>1. \A w \in Range(merged) : op[w] = op[merged[1]]
        <5>1. DOMAIN merged = 1 .. Len(merged)
          BY <1>0 DEF TypeOK
        <5> QED
          BY <5>1, <3>1 DEF CompatibleOperations, Range
      <4> QED
        BY <2>1, <2>3, <3>1, <4>1 DEF Merge, OperationInv, OneOperation
    <3>2. CASE ~CompatibleOperations
      BY <2>3, <3>2 DEF Merge, OperationInv, OneOperation
    <3> QED
      BY <3>1, <3>2
  <2>4. CASE ~WriteEmpty /\ ~Merge
    BY <1>2, <2>1, <2>4 DEF ADatasetStep, OperationInv, OneOperation, ConversionOpen, ConversionFinish,
         ConversionDestroy, CommitStep, OtherCommit, Execute, BuildIndex, FinishReturn
  <2> QED
    BY <2>2, <2>3, <2>4
<1>3. ASSUME NEW w \in Writers, AWriterStep(w)
      PROVE  OperationInv'
  BY <1>3, WriterStepFrame, MergedStable DEF OperationInv, OneOperation
<1> QED
  BY <1>1, <1>2, <1>3 DEF Next, ADatasetStep, AWriterStep

\* The merged transaction has one operation, that of every writer in it, even
\* when the destination appeared between two writers' starts.
THEOREM MergedOperation == Spec => []OneOperation
<1>1. Init => OperationInv
  BY OperationInit
<1>2. Inv /\ OperationInv /\ [Next]_vars => OperationInv'
  BY OperationNext
<1>3. OperationInv => OneOperation
  BY DEF OperationInv
<1> QED
  BY <1>1, <1>2, <1>3, InvHolds, PTL DEF Spec

-----------------------------------------------------------------------------
(***************************************************************************)
(* The destination's rows are kept.                                        *)
(***************************************************************************)
NothingWritten ==
  /\ transactions = <<>> /\ merged = <<>>
  /\ stage \notin {"merge", "execute", "index", "done"}
  /\ \A w \in Writers : worker[w] \in {"None", "Starting", "Err"}

\* What a destination that was there at open means for every task: an append
\* appends, a create writes nothing.
DestinationInv ==
  /\ loaded => log # <<>>
  /\ stage = "unopened" =>
       /\ handle = "None" /\ transactions = <<>> /\ merged = <<>>
       /\ \A w \in Writers : worker[w] = "None"
  /\ stage = "empty" => merged = <<>>
  /\ \A w \in Range(transactions) \cup Range(merged) : worker[w] = "Ok"
  /\ loaded /\ Mode = "append" =>
       /\ \A w \in Writers : worker[w] \in {"Running", "Flushing", "Ok"} => op[w] = "Append"
       /\ stage \in {"execute", "index"} => mergedOp = "Append"
  /\ loaded /\ Mode = "create" => NothingWritten

LEMMA DestinationInit == Init => DestinationInv
BY DEF Init, DestinationInv, NothingWritten, Range

LEMMA PublishLatest ==
  ASSUME TypeOK, NEW by, NEW rows, Publish(by, rows)
  PROVE  log' # <<>> /\ Latest' = rows
<1>1. Len(log') = Len(log) + 1 /\ log'[Len(log) + 1] = [by |-> by, rows |-> rows]
  BY DEF TypeOK, Publish
<1>2. Len(log) \in Nat
  BY DEF TypeOK
<1>3. log' # <<>>
  BY <1>1, <1>2
<1> QED
  BY <1>1, <1>3 DEF Latest

LEMMA DestinationDataset ==
  ASSUME Inv, DestinationInv, ADatasetStep
  PROVE  DestinationInv'
<1>0. TypeOK /\ (stage = "merge" => merged # <<>>)
  BY DEF Inv, TypeInv
<1>1. UNCHANGED <<worker, op>>
  BY DatasetStepFrame DEF taskVars
<1>2. log # <<>> => log' # <<>>
  <2>1. ASSUME NEW by, NEW rows, Publish(by, rows)
        PROVE  log' # <<>>
    BY <1>0, <2>1, PublishLatest
  <2> QED
    BY <2>1 DEF ADatasetStep, ConversionOpen, ConversionFinish, ConversionDestroy, CommitStep,
         OtherCommit, WriteEmpty, Merge, Execute, BuildIndex, FinishReturn
<1>e. Range(<<>>) = {}
  BY DEF Range
<1> USE DEF DestinationInv
<1>3. CASE ConversionOpen
  <2>1. /\ transactions' = <<>> /\ merged' = <<>> /\ stage' \in {"open", "failed"} /\ log' = log
        /\ \A w \in Writers : worker'[w] = "None"
    BY <1>1, <1>3 DEF ConversionOpen
  <2>2. loaded' => log # <<>>
    BY <1>3 DEF ConversionOpen
  <2>3. NothingWritten'
    BY <2>1 DEF NothingWritten
  <2> QED
    BY <1>e, <2>1, <2>2, <2>3
<1>4. CASE ConversionFinish
  <2>1. /\ merged' = transactions /\ transactions' = <<>> /\ loaded' = loaded
        /\ stage' = IF transactions = <<>> THEN "empty" ELSE "merge"
    BY <1>4 DEF ConversionFinish
  <2>2. Range(transactions') = {} /\ Range(merged') = Range(transactions)
    BY <2>1, <1>e
  <2>3. NothingWritten => NothingWritten'
    BY <1>1, <2>1 DEF NothingWritten
  <2> QED
    BY <1>1, <1>2, <1>4, <2>1, <2>2, <2>3 DEF ConversionFinish
<1>5. CASE WriteEmpty
  BY <1>1, <1>2, <1>5 DEF WriteEmpty, NothingWritten, Operation, Refused, Exists, ParamsMode
<1>6. CASE Merge
  <2>1. merged[1] \in Range(merged) /\ merged[1] \in Writers
    BY <1>0, <1>6 DEF Merge, TypeOK, Range
  <2> QED
    BY <1>1, <1>2, <1>6, <2>1 DEF Merge, NothingWritten
<1>7. CASE ConversionDestroy \/ Execute \/ BuildIndex \/ FinishReturn \/ OtherCommit
  BY <1>1, <1>2, <1>7 DEF ConversionDestroy, Execute, BuildIndex, FinishReturn, OtherCommit, NothingWritten
<1> QED
  BY <1>3, <1>4, <1>5, <1>6, <1>7 DEF ADatasetStep, CommitStep

LEMMA DestinationWriter ==
  ASSUME Inv, DestinationInv, NEW v \in Writers, AWriterStep(v)
  PROVE  DestinationInv'
<1>0. TypeOK /\ WriterInv(v) /\ CommittedWhole
  BY DEF Inv, TypeInv
<1>1. UNCHANGED <<log, handle, loaded, stage, merged, mergedOp, built>>
  BY WriterStepFrame
<1>2. CASE ClientStep(v)
  <2>1. UNCHANGED <<transactions, op>>
    BY <1>2 DEF ClientStep, WriterOpen, Push, WriterFinish, WriterDestroy, taskVars, datasetVars
  <2>2. \/ worker' = worker
        \/ /\ stage # "unopened" /\ worker[v] = "None"
           /\ worker' = [worker EXCEPT ![v] = "Starting"]
    BY <1>0, <1>2 DEF ClientStep, WriterOpen, Push, WriterFinish, WriterDestroy, taskVars, WriterInv
  <2>3. CASE worker' = worker
    BY <1>1, <2>1, <2>3 DEF DestinationInv, NothingWritten
  <2>4. CASE /\ stage # "unopened" /\ worker[v] = "None"
             /\ worker' = [worker EXCEPT ![v] = "Starting"]
    <3>1. worker'[v] = "Starting" /\ \A w \in Writers \ {v} : worker'[w] = worker[w]
      BY <1>0, <2>4 DEF TypeOK
    <3>2. \A w \in Range(transactions) \cup Range(merged) : w \in Writers /\ w # v
      <4>1. \A w \in Range(transactions) \cup Range(merged) : w \in Writers
        BY <1>0, ListedWriters
      <4> QED
        BY <2>4, <4>1 DEF DestinationInv
    <3> QED
      BY <1>1, <2>1, <2>4, <3>1, <3>2 DEF DestinationInv, NothingWritten
  <2> QED
    BY <2>2, <2>3, <2>4
<1>3. CASE CallStep(v)
  <2>1. UNCHANGED <<worker, op>>
    BY <1>3 DEF CallStep, Send, SendClosed, JoinFinish, JoinPush, JoinDestroy, taskVars
  <2>2. \/ transactions' = transactions
        \/ worker[v] = "Ok" /\ transactions' = Append(transactions, v)
    BY <1>3 DEF CallStep, Send, SendClosed, JoinFinish, AddTransaction, JoinPush, JoinDestroy, datasetVars
  <2>3. CASE transactions' = transactions
    BY <1>1, <2>1, <2>3 DEF DestinationInv, NothingWritten
  <2>4. CASE worker[v] = "Ok" /\ transactions' = Append(transactions, v)
    <3>1. Range(transactions') = Range(transactions) \cup {v}
      BY <1>0, <2>4, RangeAppend DEF TypeOK
    <3>2. stage # "unopened" /\ ~(loaded /\ Mode = "create")
      BY <2>4 DEF DestinationInv, NothingWritten
    <3> QED
      BY <1>1, <2>1, <2>4, <3>1, <3>2 DEF DestinationInv
  <2> QED
    BY <2>2, <2>3, <2>4
<1>4. CASE WorkerStep(v) \/ WorkerFault(v)
  <2>1. UNCHANGED transactions
    BY <1>4 DEF WorkerStep, WorkerFault, Resolve, ReceiveBatch, ReceiveFinish, ReceiveClosed,
         Flush, WorkerFail, WorkerStop, datasetVars
  <2>2. worker[v] \in {"Starting", "Running", "Flushing"}
    BY <1>4 DEF WorkerStep, WorkerFault, Resolve, ReceiveBatch, ReceiveFinish, ReceiveClosed,
         Flush, WorkerFail, WorkerStop, Receiving
  <2>3. stage # "unopened" /\ v \notin Range(transactions) \cup Range(merged)
    BY <2>2 DEF DestinationInv
  <2>4. /\ \A w \in Writers \ {v} : worker'[w] = worker[w] /\ op'[w] = op[w]
        /\ \/ /\ worker[v] \in {"Starting", "Running"} /\ worker'[v] = "Err"
           \/ /\ worker[v] = "Starting" /\ worker'[v] = "Running"
              /\ ~Refused(Exists) /\ op'[v] = Operation(Exists)
           \/ /\ worker[v] \in {"Running", "Flushing"} /\ op'[v] = op[v]
    BY <1>0, <1>4 DEF WorkerStep, WorkerFault, Resolve, ReceiveBatch, ReceiveFinish, ReceiveClosed,
         Flush, WorkerFail, WorkerStop, Receiving, Exit, TypeOK
  <2>5. \A w \in Range(transactions) \cup Range(merged) : w \in Writers
    BY <1>0, ListedWriters
  <2>6. loaded => (Refused(Exists) <=> Mode = "create") /\ (Mode = "append" => Operation(Exists) = "Append")
    BY DEF Refused, Operation, Exists, ParamsMode
  <2>7. ASSUME loaded, Mode = "append", NEW w \in Writers, worker'[w] \in {"Running", "Flushing", "Ok"}
        PROVE  op'[w] = "Append"
    BY <2>4, <2>6, <2>7 DEF DestinationInv
  <2>8. loaded /\ Mode = "create" => NothingWritten'
    BY <1>1, <2>1, <2>4, <2>6 DEF DestinationInv, NothingWritten
  <2> QED
    BY <1>1, <2>1, <2>3, <2>4, <2>5, <2>7, <2>8 DEF DestinationInv
<1> QED
  BY <1>2, <1>3, <1>4 DEF AWriterStep

LEMMA DestinationNext ==
  ASSUME Inv, DestinationInv, [Next]_vars
  PROVE  DestinationInv'
<1>1. CASE UNCHANGED vars
  BY <1>1 DEF DestinationInv, NothingWritten, vars, datasetVars, taskVars, callVars
<1>2. CASE Next
  BY <1>2, DestinationDataset, DestinationWriter DEF Next, ADatasetStep, AWriterStep
<1> QED
  BY <1>1, <1>2

LEMMA DestinationStep ==
  ASSUME Inv, DestinationInv, [Next]_vars, Mode # "overwrite", loaded, log' # log
  PROVE  Latest \subseteq Latest'
<1>0. TypeOK /\ Mode \in {"create", "append"}
  BY ConstantsAssumption DEF Inv, TypeInv, ConstantsAssumption
<1>1. Execute \/ BuildIndex \/ OtherCommit
  BY WriterStepFrame DEF Next, AWriterStep, vars, datasetVars, ConversionOpen, ConversionFinish,
     ConversionDestroy, CommitStep, WriteEmpty, Merge, FinishReturn
<1>2. CASE Execute
  <2>1. mergedOp = "Append" /\ Publish("data", Latest \cup MergedRows)
    BY <1>0, <1>2 DEF Execute, DestinationInv, NothingWritten
  <2> QED
    BY <1>0, <2>1, PublishLatest
<1>3. CASE BuildIndex
  BY <1>0, <1>3, PublishLatest DEF BuildIndex
<1>4. CASE OtherCommit
  BY <1>0, <1>4, PublishLatest DEF OtherCommit
<1> QED
  BY <1>1, <1>2, <1>3, <1>4

\* A destination that existed when the write opened keeps every row of its
\* latest version, unless the mode is overwrite.
THEOREM RowsKept == Spec => DestinationKept
<1>1. Init => DestinationInv
  BY DestinationInit
<1>2. Inv /\ DestinationInv /\ [Next]_vars => DestinationInv'
  BY DestinationNext
<1>3. Inv /\ DestinationInv /\ [Next]_vars
        => [(Mode # "overwrite" /\ loaded /\ log' # log) => Latest \subseteq Latest']_vars
  BY DestinationStep
<1> QED
  BY <1>1, <1>2, <1>3, InvHolds, PTL DEF Spec, DestinationKept

-----------------------------------------------------------------------------
(***************************************************************************)
(* The versions of one write.  PublishedExactly alone is not inductive: it *)
(* does not say that no version precedes its stage, nor that the versions  *)
(* of others hold no batch until the data is there.                        *)
(***************************************************************************)
AckedRows == UNION {Range(acked[w]) : w \in Range(merged)}

NoVersionYet ==
  /\ DataVersions = {} /\ IndexVersions = {} /\ built = 0
  /\ \A i \in 1 .. Len(log) : log[i].rows \cap Batches = {}

OneDataVersion ==
  \E d \in 1 .. Len(log) :
    /\ DataVersions = {d}
    /\ log[d].rows \cap Batches = AckedRows
    /\ \A i \in IndexVersions : d < i

VersionsInv ==
  /\ NoVersionYet \/ OneDataVersion
  /\ stage \in {"unopened", "open", "empty", "merge", "execute"} => NoVersionYet
  /\ stage \in {"index", "done"} => OneDataVersion
  /\ stage = "done" => built = NumIndexes
  /\ IsFiniteSet(IndexVersions) /\ Cardinality(IndexVersions) = built

LEMMA VersionsInit == Init => VersionsInv
<1> SUFFICES ASSUME Init PROVE VersionsInv
  OBVIOUS
<1>1. \A i \in 1 .. Len(log) : log[i].by = "other" /\ log[i].rows \subseteq Foreign
  <2>1. CASE log = <<>>
    BY <2>1
  <2>2. ASSUME NEW r \in SUBSET Foreign, log = <<[by |-> "other", rows |-> r]>>
        PROVE  \A i \in 1 .. Len(log) : log[i].by = "other" /\ log[i].rows \subseteq Foreign
    BY <2>2
  <2> QED
    BY <2>1, <2>2 DEF Init
<1>2. NoVersionYet
  BY <1>1, ConstantsAssumption DEF ConstantsAssumption, NoVersionYet, DataVersions, IndexVersions, Init
<1>3. stage = "unopened" /\ built = 0
  BY DEF Init
<1> QED
  BY <1>2, <1>3, FS_EmptySet DEF VersionsInv, NoVersionYet

\* A version is published at the end of the log, and the others stay.
LEMMA PublishVersions ==
  ASSUME TypeOK, NEW by, NEW rows, Publish(by, rows)
  PROVE  /\ Len(log) \in Nat
         /\ Len(log') = Len(log) + 1
         /\ log'[Len(log) + 1].rows = rows
         /\ \A i \in 1 .. Len(log) : log'[i] = log[i]
         /\ DataVersions' = IF by = "data" THEN DataVersions \cup {Len(log) + 1} ELSE DataVersions
         /\ IndexVersions' = IF by = "index" THEN IndexVersions \cup {Len(log) + 1} ELSE IndexVersions
<1>1. /\ Len(log) \in Nat
      /\ Len(log') = Len(log) + 1
      /\ log'[Len(log) + 1] = [by |-> by, rows |-> rows]
      /\ \A i \in 1 .. Len(log) : log'[i] = log[i]
  BY DEF TypeOK, Publish
<1>2. 1 .. Len(log') = (1 .. Len(log)) \cup {Len(log) + 1}
  BY <1>1
<1>3. log'[Len(log) + 1].rows = rows /\ log'[Len(log) + 1].by = by
  BY <1>1
<1>4. DataVersions' = IF by = "data" THEN DataVersions \cup {Len(log) + 1} ELSE DataVersions
  BY <1>1, <1>2, <1>3 DEF DataVersions
<1>5. IndexVersions' = IF by = "index" THEN IndexVersions \cup {Len(log) + 1} ELSE IndexVersions
  BY <1>1, <1>2, <1>3 DEF IndexVersions
<1> QED
  BY <1>1, <1>3, <1>4, <1>5

\* The rows the merged transaction adds are the acknowledged batches of its
\* writers.
LEMMA MergedAcked ==
  ASSUME Inv
  PROVE  MergedRows = AckedRows /\ AckedRows \subseteq Batches
<1>1. \A w \in Range(merged) : taken[w] = acked[w]
  BY MergedExited
<1>2. MergedRows \in SUBSET Batches
  BY MergedRowsType DEF Inv, TypeInv
<1> QED
  BY <1>1, <1>2 DEF MergedRows, AckedRows

LEMMA LatestClean ==
  ASSUME TypeOK, NoVersionYet
  PROVE  Latest \cap Batches = {}
<1>1. CASE log = <<>>
  BY <1>1 DEF Latest
<1>2. CASE log # <<>>
  <2>1. Len(log) \in 1 .. Len(log)
    BY <1>2 DEF TypeOK
  <2> QED
    BY <1>2, <2>1 DEF Latest, NoVersionYet
<1> QED
  BY <1>1, <1>2

LEMMA VersionsExecute ==
  ASSUME Inv, VersionsInv, Execute
  PROVE  VersionsInv'
<1>0. TypeOK /\ NoVersionYet /\ stage = "execute"
  BY DEF Inv, TypeInv, VersionsInv, Execute
<1>1. acked' = acked /\ merged' = merged /\ built' = built
  BY DEF Execute, callVars
<1>2. CASE stage' = "failed" /\ log' = log
  BY <1>0, <1>1, <1>2 DEF VersionsInv, NoVersionYet, DataVersions, IndexVersions
<1>3. ASSUME NEW rows, Publish("data", rows), rows = Latest \cup MergedRows \/ rows = MergedRows, stage' = "index"
      PROVE  VersionsInv'
  <2>1. /\ Len(log) \in Nat /\ Len(log') = Len(log) + 1
        /\ log'[Len(log) + 1].rows = rows
        /\ DataVersions' = {Len(log) + 1} /\ IndexVersions' = {}
    BY <1>0, <1>3, PublishVersions DEF NoVersionYet
  <2>2. rows \cap Batches = AckedRows
    BY <1>0, <1>3, LatestClean, MergedAcked
  <2>3. AckedRows' = AckedRows
    BY <1>1 DEF AckedRows
  <2>4. Len(log) + 1 \in 1 .. Len(log')
    BY <2>1
  <2>5. OneDataVersion'
    BY <2>1, <2>2, <2>3, <2>4 DEF OneDataVersion
  <2>6. built' = 0
    BY <1>0, <1>1 DEF NoVersionYet
  <2> QED
    BY <1>3, <2>1, <2>5, <2>6, FS_EmptySet DEF VersionsInv
<1> QED
  BY <1>2, <1>3 DEF Execute

LEMMA VersionsIndex ==
  ASSUME Inv, VersionsInv, BuildIndex
  PROVE  VersionsInv'
<1>0. TypeOK /\ OneDataVersion /\ stage = "index"
  BY DEF Inv, TypeInv, VersionsInv, BuildIndex
<1>1. acked' = acked /\ merged' = merged
  BY DEF BuildIndex, callVars
<1>2. AckedRows' = AckedRows
  BY <1>1 DEF AckedRows
<1>3. CASE stage' = "failed" /\ log' = log /\ built' = built
  BY <1>0, <1>2, <1>3 DEF VersionsInv, NoVersionYet, OneDataVersion, DataVersions, IndexVersions
<1>4. CASE Publish("index", Latest) /\ built' = built + 1 /\ stage' = stage
  <2>1. /\ Len(log) \in Nat /\ Len(log') = Len(log) + 1
        /\ \A i \in 1 .. Len(log) : log'[i] = log[i]
        /\ DataVersions' = DataVersions /\ IndexVersions' = IndexVersions \cup {Len(log) + 1}
    BY <1>0, <1>4, PublishVersions
  <2>2. OneDataVersion'
    <3>1. PICK d \in 1 .. Len(log) : /\ DataVersions = {d}
                                     /\ log[d].rows \cap Batches = AckedRows
                                     /\ \A i \in IndexVersions : d < i
      BY <1>0 DEF OneDataVersion
    <3>2. d \in 1 .. Len(log') /\ d < Len(log) + 1 /\ log'[d] = log[d]
      BY <2>1
    <3> QED
      BY <1>2, <2>1, <3>1, <3>2 DEF OneDataVersion
  <2>3. Len(log) + 1 \notin IndexVersions
    BY <2>1 DEF IndexVersions
  <2>4. IsFiniteSet(IndexVersions') /\ Cardinality(IndexVersions') = Cardinality(IndexVersions) + 1
    BY <2>1, <2>3, FS_AddElement DEF VersionsInv
  <2> QED
    BY <1>0, <1>4, <2>2, <2>4 DEF VersionsInv
<1> QED
  BY <1>3, <1>4 DEF BuildIndex

LEMMA VersionsOther ==
  ASSUME Inv, VersionsInv, OtherCommit
  PROVE  VersionsInv'
<1>0. TypeOK
  BY DEF Inv, TypeInv
<1>1. acked' = acked /\ merged' = merged /\ stage' = stage /\ built' = built
  BY DEF OtherCommit, callVars
<1>2. AckedRows' = AckedRows
  BY <1>1 DEF AckedRows
<1>3. PICK r \in Foreign : Publish("other", Latest \cup {r})
  BY DEF OtherCommit
<1>4. /\ Len(log) \in Nat /\ Len(log') = Len(log) + 1
      /\ \A i \in 1 .. Len(log) : log'[i] = log[i]
      /\ log'[Len(log) + 1].rows = Latest \cup {r}
      /\ DataVersions' = DataVersions /\ IndexVersions' = IndexVersions
  BY <1>0, <1>3, PublishVersions
<1>5. NoVersionYet => NoVersionYet'
  <2>1. NoVersionYet => log'[Len(log) + 1].rows \cap Batches = {}
    BY <1>0, <1>4, LatestClean, ConstantsAssumption DEF ConstantsAssumption
  <2> QED
    BY <1>1, <1>4, <2>1 DEF NoVersionYet
<1>6. OneDataVersion => OneDataVersion'
  BY <1>2, <1>4 DEF OneDataVersion
<1> QED
  BY <1>1, <1>4, <1>5, <1>6 DEF VersionsInv

LEMMA VersionsNext ==
  ASSUME Inv, VersionsInv, [Next]_vars
  PROVE  VersionsInv'
<1>1. CASE UNCHANGED <<log, stage, merged, built, acked>>
  BY <1>1 DEF VersionsInv, NoVersionYet, OneDataVersion, DataVersions, IndexVersions, AckedRows
<1>2. CASE UNCHANGED vars
  BY <1>1, <1>2 DEF vars, datasetVars, callVars
<1>3. CASE ConversionOpen \/ ConversionFinish \/ ConversionDestroy \/ WriteEmpty \/ Merge \/ FinishReturn
  <2>1. log' = log /\ built' = built
    BY <1>3 DEF ConversionOpen, ConversionFinish, ConversionDestroy, WriteEmpty, Merge, FinishReturn
  <2>2. NoVersionYet => NoVersionYet'
    BY <2>1 DEF NoVersionYet, DataVersions, IndexVersions
  <2>3. CASE ConversionFinish
    BY <2>1, <2>2, <2>3 DEF ConversionFinish, VersionsInv, DataVersions, IndexVersions
  <2>4. CASE ~ConversionFinish
    <3>1. merged' = merged /\ acked' = acked
      BY <1>3, <2>4 DEF ConversionOpen, ConversionDestroy, WriteEmpty, Merge, FinishReturn, callVars
    <3>2. OneDataVersion => OneDataVersion'
      BY <2>1, <3>1 DEF OneDataVersion, AckedRows, DataVersions, IndexVersions
    <3>3. \/ stage' = "failed" \/ stage' = stage
          \/ stage \in {"unopened", "open", "empty", "merge"} /\ stage' \in {"open", "execute"}
          \/ stage = "index" /\ stage' = "done" /\ built >= NumIndexes
      BY <1>3, <2>4, ConstantsAssumption DEF ConversionOpen, ConversionDestroy, WriteEmpty, Merge,
         FinishReturn, MoreIndexes, Inv, TypeInv, TypeOK, ConstantsAssumption
    <3>4. built \in 0 .. NumIndexes /\ NumIndexes \in Nat
      BY ConstantsAssumption DEF Inv, TypeInv, TypeOK, ConstantsAssumption
    <3>5. IndexVersions' = IndexVersions
      BY <2>1 DEF IndexVersions
    <3> QED
      BY <2>1, <2>2, <3>2, <3>3, <3>4, <3>5 DEF VersionsInv
  <2> QED
    BY <2>3, <2>4
<1>4. ASSUME NEW w \in Writers, AWriterStep(w)
      PROVE  VersionsInv'
  <2>1. UNCHANGED <<log, stage, merged, built>>
    BY <1>4, WriterStepFrame
  <2>2. AckedRows' = AckedRows
    <3>1. \A v \in Range(merged) : acked'[v] = acked[v]
      BY <1>4, MergedStable
    <3> QED
      BY <2>1, <3>1 DEF AckedRows
  <2> QED
    BY <2>1, <2>2 DEF VersionsInv, NoVersionYet, OneDataVersion, DataVersions, IndexVersions
<1> QED
  BY <1>2, <1>3, <1>4, VersionsExecute, VersionsIndex, VersionsOther
     DEF Next, CommitStep, AWriterStep

LEMMA VersionsExact == Inv /\ VersionsInv => PublishedExactly
<1> SUFFICES ASSUME Inv, VersionsInv PROVE PublishedExactly
  OBVIOUS
<1>1. CASE NoVersionYet
  <2>1. Cardinality({}) = 0
    BY FS_EmptySet
  <2>2. Latest \cap Batches = {}
    BY <1>1, LatestClean DEF Inv, TypeInv
  <2>3. stage # "done"
    BY <1>1 DEF VersionsInv, NoVersionYet, OneDataVersion
  <2> QED
    BY <1>1, <2>1, <2>2, <2>3 DEF NoVersionYet, VersionsInv, PublishedExactly
<1>2. CASE OneDataVersion
  <2>1. PICK d \in 1 .. Len(log) : /\ DataVersions = {d}
                                   /\ log[d].rows \cap Batches = AckedRows
                                   /\ \A i \in IndexVersions : d < i
    BY <1>2 DEF OneDataVersion
  <2>2. Cardinality({d}) = 1
    BY FS_Singleton
  <2> QED
    BY <2>1, <2>2 DEF VersionsInv, AckedRows, PublishedExactly
<1> QED
  BY <1>1, <1>2 DEF VersionsInv

\* One write publishes at most one version with data, which holds exactly the
\* batches acknowledged by the merged writers, then one version per index, and
\* nothing before lance_conversion_finish.
THEOREM PublishesExactly == Spec => []PublishedExactly
<1>1. Init => VersionsInv
  BY VersionsInit
<1>2. Inv /\ VersionsInv /\ [Next]_vars => VersionsInv'
  BY VersionsNext
<1>3. Inv /\ VersionsInv => PublishedExactly
  BY VersionsExact
<1> QED
  BY <1>1, <1>2, <1>3, InvHolds, PTL DEF Spec
-----------------------------------------------------------------------------
(***************************************************************************)
(* Part II.  LanceCopy.                                                    *)
(*                                                                         *)
(* Batch arithmetic: the batches 1 .. NumUnits cut the chunks into         *)
(* consecutive runs.                                                       *)
(***************************************************************************)
LEMMA DivBounds ==
  ASSUME NEW n \in Nat, NEW b \in Nat \ {0}
  PROVE  /\ n \div b \in Nat
         /\ (n \div b) * b <= n
         /\ n < (n \div b) * b + b
OBVIOUS

LEMMA UnitCount ==
  /\ NumUnits \in Nat
  /\ mode # "BATCH" => NumUnits = NumChunks
  /\ mode = "BATCH" => NumUnits * BatchSize >= NumChunks /\ NumUnits * BatchSize < NumChunks + BatchSize
<1> USE CopyAssumption DEF CopyAssumption
<1> DEFINE n == NumChunks + BatchSize - 1
<1>1. n \in Nat
  OBVIOUS
<1>2. /\ n \div BatchSize \in Nat
      /\ (n \div BatchSize) * BatchSize <= n
      /\ n < (n \div BatchSize) * BatchSize + BatchSize
  BY <1>1, DivBounds
<1> QED
  BY <1>1, <1>2 DEF NumUnits

LEMMA BatchBounds ==
  ASSUME mode = "BATCH", NEW f \in 0 .. NumUnits - 1
  PROVE  /\ FirstChunk(f + 1) = LastChunk(f) + 1
         /\ FirstChunk(f + 1) \in 1 .. NumChunks
         /\ LastChunk(f + 1) \in FirstChunk(f + 1) .. NumChunks
<1> USE CopyAssumption DEF CopyAssumption
<1>1. NumUnits \in Nat /\ NumUnits * BatchSize < NumChunks + BatchSize
  BY UnitCount
<1>2. (f + 1) * BatchSize <= NumUnits * BatchSize
  BY <1>1
<1>3. (f + 1) * BatchSize = f * BatchSize + BatchSize /\ f * BatchSize \in Nat
  BY <1>1
<1>4. f * BatchSize < NumChunks
  BY <1>1, <1>2, <1>3
<1>5. FirstChunk(f + 1) = f * BatchSize + 1
  BY <1>1 DEF FirstChunk
<1>6. LastChunk(f) = f * BatchSize
  BY <1>4 DEF LastChunk
<1>7. LastChunk(f + 1) = IF f * BatchSize + BatchSize < NumChunks THEN f * BatchSize + BatchSize ELSE NumChunks
  BY <1>3 DEF LastChunk
<1> QED
  BY <1>3, <1>4, <1>5, <1>6, <1>7

LEMMA BatchEnds == mode = "BATCH" => LastChunk(0) = 0 /\ LastChunk(NumUnits) = NumChunks
<1> USE CopyAssumption DEF CopyAssumption
<1>1. LastChunk(0) = 0
  BY DEF LastChunk
<1>2. ASSUME mode = "BATCH" PROVE LastChunk(NumUnits) = NumChunks
  <2>1. NumUnits \in Nat /\ NumUnits * BatchSize \in Nat /\ NumUnits * BatchSize >= NumChunks
    BY <1>2, UnitCount
  <2> QED
    BY <2>1 DEF LastChunk
<1> QED
  BY <1>1, <1>2

-----------------------------------------------------------------------------
(***************************************************************************)
(* Type correctness of the engine.  A thread holds a unit it took, a       *)
(* flusher is inside the bounds of its batch, and the phase of the query   *)
(* follows the stage of the commit.                                        *)
(***************************************************************************)
EngineType ==
  /\ preserveOrder \in BOOLEAN
  /\ mode \in {"PARALLEL", "BATCH", "REGULAR"}
  /\ mode = "PARALLEL" <=> preserveOrder = FALSE
  /\ query \in {"planned", "bound", "running", "finishing", "committing", "success", "error"}
  /\ failed \in BOOLEAN
  /\ next \in 1 .. NumUnits + 1
  /\ pc \in [Threads -> {"idle", "push", "pushing", "prepare", "flush", "flushing",
                         "combining", "combined", "stopped"}]
  /\ held \in [Threads -> 0 .. NumUnits]
  /\ prepared \in SUBSET (1 .. NumUnits)
  /\ flushed \in 0 .. NumUnits
  /\ flusher \in Threads \cup {NoThread}
  /\ pos \in 0 .. NumChunks

UnitHeld(t) ==
  /\ pc[t] \in {"push", "pushing"} => mode # "BATCH" /\ held[t] \in 1 .. NumUnits
  /\ pc[t] = "prepare" => mode = "BATCH" /\ held[t] \in 1 .. NumUnits
  /\ pc[t] = "combining" => mode # "BATCH"
  /\ pc[t] \in {"flush", "flushing"} => flusher = t

FlushBounds ==
  /\ mode # "BATCH" => prepared = {} /\ flusher = NoThread
  /\ flusher # NoThread =>
       /\ flushed \in 0 .. NumUnits - 1
       /\ pos \in FirstChunk(flushed + 1) .. LastChunk(flushed + 1)

PhaseInv ==
  /\ query \in {"planned", "bound"} => stage = "unopened"
  /\ query \in {"running", "finishing"} => stage = "open"
  /\ query = "committing" => stage \in {"empty", "merge", "execute", "index", "done", "failed"}
  /\ stage \in {"empty", "merge", "execute", "index"} => query = "committing"

\* A mode uses the writers of the threads or the ordered writer, never both.
WritersOfMode ==
  /\ mode = "BATCH" => \A t \in Threads : sink[t] = "Unopened"
  /\ mode # "BATCH" => sink[Ordered] = "Unopened"
  /\ \A w \in Writers : sink[w] = "Unopened" => acked[w] = <<>>

EngineInv ==
  /\ EngineType
  /\ \A t \in Threads : UnitHeld(t)
  /\ FlushBounds
  /\ PhaseInv
  /\ WritersOfMode

\* The invariants of the dataset write hold of a COPY's write.
WriteInv == Inv /\ OperationInv /\ DestinationInv /\ VersionsInv

LEMMA PlanKept == ASSUME [CopyNext]_copyVars PROVE UNCHANGED planVars /\ NumUnits' = NumUnits
<1>1. UNCHANGED planVars
  BY DEF CopyNext, copyVars, QueryStep, Bind, Initialize, Finalize, FinalizeCommit, FinalizeReturn,
     FailQuery, GlobalDestroy, Interrupt, ThreadStep, SinkChunk, PushChunk, SinkReturn, TakeBatch,
     PrepareBatch, FlushBatch, FlushChunk, FlushReturn, Combine, CombineReturn, Stop, LocalDestroy,
     WriteStep, Terminated, engineVars
<1> QED
  BY <1>1 DEF planVars, NumUnits

LEMMA CopyWriters ==
  /\ Ordered \in Writers /\ Ordered \notin Threads
  /\ \A t \in Threads : t \in Writers /\ t # Ordered /\ t # NoThread
  /\ Batches = 1 .. NumChunks
BY CopyAssumption DEF CopyAssumption

\* What a chunk or a batch stands for is pushed as a batch of the write.
LEMMA PushesBatches ==
  ASSUME EngineInv, NEW t \in Threads
  PROVE  /\ pc[t] = "push" => held[t] \in Batches
         /\ pc[t] = "flush" => pos \in Batches
<1>1. pc[t] = "push" => held[t] \in Batches
  BY UnitCount, CopyWriters DEF EngineInv, UnitHeld
<1>2. ASSUME pc[t] = "flush" PROVE pos \in Batches
  <2>1. /\ mode = "BATCH" /\ flushed \in 0 .. NumUnits - 1
        /\ pos \in FirstChunk(flushed + 1) .. LastChunk(flushed + 1)
    BY <1>2, CopyWriters DEF EngineInv, UnitHeld, FlushBounds
  <2>2. FirstChunk(flushed + 1) \in 1 .. NumChunks /\ LastChunk(flushed + 1) \in 1 .. NumChunks
    BY <2>1, BatchBounds, UnitCount
  <2> QED
    BY <2>1, <2>2, CopyWriters, CopyAssumption DEF CopyAssumption
<1> QED
  BY <1>1, <1>2

\* A COPY makes only the calls a client may make: it takes steps of the write.
LEMMA CopyStepWrites ==
  ASSUME EngineInv, [CopyNext]_copyVars
  PROVE  [Next]_vars
<1>1. CASE UNCHANGED copyVars
  BY <1>1 DEF copyVars
<1>2. CASE QueryStep
  <2>1. \/ UNCHANGED vars \/ ConversionOpen \/ ConversionFinish \/ ConversionDestroy
        \/ WriterFinish(Ordered) \/ WriterDestroy(Ordered)
    BY <1>2 DEF QueryStep, Bind, Initialize, Finalize, FinalizeCommit, FinalizeReturn, FailQuery,
       GlobalDestroy
  <2> QED
    BY <2>1, CopyWriters DEF Next, ClientStep
<1>3. CASE Interrupt \/ Terminated
  BY <1>3 DEF Interrupt, Terminated, copyVars
<1>4. CASE WriteStep
  BY <1>4 DEF WriteStep, Next
<1>5. ASSUME NEW t \in Threads, ThreadStep(t)
      PROVE  [Next]_vars
  <2>1. CASE PushChunk(t) \/ FlushChunk(t)
    <3>1. (\E b \in Batches : Push(t, b)) \/ (\E b \in Batches : Push(Ordered, b))
      BY <2>1, PushesBatches DEF PushChunk, FlushChunk
    <3> QED
      BY <3>1, CopyWriters DEF Next, ClientStep
  <2>2. CASE ~PushChunk(t) /\ ~FlushChunk(t)
    <3>1. \/ UNCHANGED vars \/ WriterOpen(t) \/ WriterOpen(Ordered)
          \/ WriterFinish(t) \/ WriterDestroy(t)
      BY <1>5, <2>2 DEF ThreadStep, SinkChunk, SinkReturn, TakeBatch, PrepareBatch, FlushBatch,
         FlushReturn, Combine, CombineReturn, Stop, LocalDestroy, OpenLanceWriter
    <3> QED
      BY <3>1, CopyWriters DEF Next, ClientStep
  <2> QED
    BY <2>1, <2>2
<1> QED
  BY <1>1, <1>2, <1>3, <1>4, <1>5 DEF CopyNext

LEMMA EngineInit == ASSUME CopyInit PROVE EngineInv
<1> USE UnitCount, CopyAssumption DEF CopyAssumption
<1>1. EngineType
  <2>1. /\ preserveOrder \in BOOLEAN /\ mode \in {"PARALLEL", "BATCH", "REGULAR"}
        /\ mode = "PARALLEL" <=> preserveOrder = FALSE
    BY DEF CopyInit, LanceExecutionMode
  <2>2. /\ pc \in [Threads -> {"idle", "combined"}]
        /\ held = [t \in Threads |-> 0]
    BY DEF CopyInit
  <2>3. /\ query = "planned" /\ failed = FALSE /\ next = 1
        /\ prepared = {} /\ flushed = 0 /\ flusher = NoThread /\ pos = 0
    BY DEF CopyInit
  <2>4. /\ next \in 1 .. NumUnits + 1 /\ flushed \in 0 .. NumUnits /\ pos \in 0 .. NumChunks
        /\ held \in [Threads -> 0 .. NumUnits]
    BY <2>2, <2>3
  <2>5. pc \in [Threads -> {"idle", "push", "pushing", "prepare", "flush", "flushing",
                           "combining", "combined", "stopped"}]
    BY <2>2
  <2> QED
    BY <2>1, <2>3, <2>4, <2>5, Zenon DEF EngineType
<1>2. \A t \in Threads : UnitHeld(t)
  BY DEF CopyInit, UnitHeld
<1>3. FlushBounds /\ PhaseInv /\ WritersOfMode
  BY DEF CopyInit, Init, FlushBounds, PhaseInv, WritersOfMode
<1> QED
  BY <1>1, <1>2, <1>3 DEF EngineInv

\* A step of one writer that opens none leaves the unopened ones unopened, and
\* no batch is acknowledged to an unopened writer.
LEMMA UnopenedKept ==
  ASSUME Inv, NEW v \in Writers, NEW w \in Writers, sink[w] = "Unopened",
         \/ \E b \in Batches : Push(v, b)
         \/ WriterFinish(v) \/ WriterDestroy(v)
         \/ CallStep(v) \/ WorkerStep(v) \/ WorkerFault(v)
  PROVE  sink'[w] = "Unopened" /\ acked'[w] = acked[w]
<1>0. TypeOK /\ call[w] = "idle"
  BY DEF Inv, TypeInv, WriterInv
<1>1. CASE v # w
  <2>1. ClientStep(v) \/ CallStep(v) \/ WorkerStep(v) \/ WorkerFault(v)
    BY DEF ClientStep
  <2> QED
    BY <1>0, <1>1, <2>1, WriterFrame DEF OnlyWriter
<1>2. CASE v = w
  BY <1>0, <1>2 DEF Push, HandleValid, Return, WriterFinish, WriterDestroy, CallStep, Send, SendClosed, JoinFinish,
     JoinPush, JoinDestroy, WorkerStep, WorkerFault, Resolve, ReceiveBatch, ReceiveFinish,
     ReceiveClosed, Flush, WorkerFail, WorkerStop, callVars, datasetVars, taskVars
<1> QED
  BY <1>1, <1>2

\* The writer a step of the engine opens, if any, is one of the mode's.
LEMMA WritersOfModeNext ==
  ASSUME Inv, EngineInv, [CopyNext]_copyVars
  PROVE  WritersOfMode'
<1>1. mode' = mode
  BY PlanKept DEF planVars
<1>2. TypeOK
  BY DEF Inv, TypeInv
<1>3. CASE UNCHANGED <<sink, acked>>
  BY <1>1, <1>3 DEF EngineInv, WritersOfMode
<1>4. ASSUME NEW v \in Writers, WriterOpen(v), mode = "BATCH" => v = Ordered, mode # "BATCH" => v \in Threads
      PROVE  WritersOfMode'
  <2>1. acked' = acked /\ \A w \in Writers : sink'[w] = IF w = v THEN "Open" ELSE sink[w]
    BY <1>2, <1>4 DEF WriterOpen, TypeOK
  <2> QED
    BY <1>1, <1>4, <2>1, CopyWriters DEF EngineInv, WritersOfMode
<1>5. ASSUME NEW v \in Writers,
             \/ \E b \in Batches : Push(v, b)
             \/ WriterFinish(v) \/ WriterDestroy(v)
             \/ CallStep(v) \/ WorkerStep(v) \/ WorkerFault(v)
      PROVE  WritersOfMode'
  <2>1. ASSUME NEW w \in Writers, sink[w] = "Unopened"
        PROVE  sink'[w] = "Unopened" /\ acked'[w] = acked[w]
    BY <1>5, <2>1, UnopenedKept
  <2>2. ASSUME NEW w \in Writers, sink'[w] = "Unopened"
        PROVE  sink[w] = "Unopened"
    <3>1. sink'[w] = sink[w] \/ sink'[w] \in {"Closing", "Finished", "Failed", "Freed"}
      <4>1. sink' = sink \/ \E r \in {"Closing", "Finished", "Failed", "Freed"} : sink' = [sink EXCEPT ![v] = r]
                         \/ sink' = [sink EXCEPT ![v] = IF @ = "Open" THEN "Closing" ELSE @]
        BY <1>5 DEF Push, WriterFinish, WriterDestroy, CloseInput, CallStep, Send, SendClosed, JoinFinish,
           JoinPush, JoinDestroy, WorkerStep, WorkerFault, Resolve, ReceiveBatch, ReceiveFinish,
           ReceiveClosed, Flush, WorkerFail, WorkerStop, callVars
      <4> QED
        BY <1>2, <4>1 DEF TypeOK
    <3> QED
      BY <2>2, <3>1
  <2> QED
    BY <1>1, <2>1, <2>2, CopyWriters DEF EngineInv, WritersOfMode
<1>6. CASE QueryStep
  <2>1. \/ UNCHANGED callVars \/ WriterFinish(Ordered) \/ WriterDestroy(Ordered)
    BY <1>6 DEF QueryStep, Bind, Initialize, Finalize, FinalizeCommit, FinalizeReturn, FailQuery,
       GlobalDestroy, ConversionOpen, ConversionFinish, ConversionDestroy, vars
  <2> QED
    BY <1>3, <1>5, <2>1, CopyWriters DEF callVars
<1>7. CASE Interrupt \/ Terminated \/ UNCHANGED copyVars
  BY <1>3, <1>7 DEF Interrupt, Terminated, copyVars, vars, callVars
<1>8. CASE WriteStep
  <2>1. CASE CommitStep \/ OtherCommit
    BY <1>3, <2>1, DatasetStepFrame DEF ADatasetStep, callVars
  <2> QED
    BY <1>5, <1>8, <2>1 DEF WriteStep
<1>9. ASSUME NEW t \in Threads, ThreadStep(t)
      PROVE  WritersOfMode'
  <2>1. CASE PushChunk(t) \/ FlushChunk(t)
    <3>1. (\E b \in Batches : Push(t, b)) \/ (\E b \in Batches : Push(Ordered, b))
      BY <2>1, PushesBatches DEF PushChunk, FlushChunk
    <3> QED
      BY <1>5, <3>1, CopyWriters
  <2>2. CASE SinkChunk(t)
    <3>1. mode # "BATCH" /\ (UNCHANGED vars \/ WriterOpen(t))
      BY <2>2 DEF SinkChunk, OpenLanceWriter
    <3> QED
      BY <1>3, <1>4, <3>1, CopyWriters DEF vars, callVars
  <2>3. CASE FlushBatch(t)
    <3>1. mode = "BATCH" /\ (UNCHANGED vars \/ WriterOpen(Ordered))
      BY <2>3 DEF FlushBatch, OpenLanceWriter, EngineInv, FlushBounds
    <3> QED
      BY <1>3, <1>4, <3>1, CopyWriters DEF vars, callVars
  <2>4. CASE ~PushChunk(t) /\ ~FlushChunk(t) /\ ~SinkChunk(t) /\ ~FlushBatch(t)
    <3>1. UNCHANGED vars \/ WriterFinish(t) \/ WriterDestroy(t)
      BY <1>9, <2>4 DEF ThreadStep, SinkReturn, TakeBatch, PrepareBatch,
         FlushReturn, Combine, CombineReturn, Stop, LocalDestroy
    <3> QED
      BY <1>3, <1>5, <3>1, CopyWriters DEF vars, callVars
  <2> QED
    BY <2>1, <2>2, <2>3, <2>4
<1> QED
  BY <1>6, <1>7, <1>8, <1>9 DEF CopyNext

\* The phase of the query and the stage of the commit move together.
LEMMA PhaseNext ==
  ASSUME EngineInv, [CopyNext]_copyVars
  PROVE  PhaseInv'
<1> USE DEF PhaseInv
<1>0. PhaseInv
  BY DEF EngineInv
<1>1. CASE UNCHANGED <<stage, query>>
  BY <1>0, <1>1
<1>2. CASE QueryStep
  <2>1. CASE Bind \/ Initialize
    BY <1>0, <2>1 DEF Bind, Initialize, ConversionOpen, vars, datasetVars
  <2>2. CASE Finalize \/ FinalizeCommit
    BY <1>0, <2>2 DEF Finalize, FinalizeCommit, ConversionFinish, WriterFinish, vars, datasetVars
  <2>3. CASE FinalizeReturn
    BY <1>0, <2>3 DEF FinalizeReturn, FinishResult, vars, datasetVars
  <2>4. CASE FailQuery
    BY <1>0, <2>4 DEF FailQuery, vars, datasetVars
  <2>5. CASE GlobalDestroy
    BY <1>1, <2>5 DEF GlobalDestroy, ConversionDestroy, WriterDestroy, engineVars, datasetVars
  <2> QED
    BY <1>2, <2>1, <2>2, <2>3, <2>4, <2>5 DEF QueryStep
<1>3. CASE Interrupt \/ Terminated \/ UNCHANGED copyVars
  BY <1>1, <1>3 DEF Interrupt, Terminated, copyVars, vars, datasetVars, engineVars
<1>4. CASE WriteStep
  <2>0. query' = query
    BY <1>4 DEF WriteStep, engineVars
  <2>1. CASE CommitStep
    BY <1>0, <2>0, <2>1 DEF CommitStep, WriteEmpty, Merge, Execute, BuildIndex, FinishReturn
  <2>2. CASE OtherCommit
    BY <1>1, <2>0, <2>2 DEF OtherCommit
  <2>3. ASSUME NEW w \in Writers, CallStep(w) \/ WorkerStep(w) \/ WorkerFault(w)
        PROVE  stage' = stage
    BY <2>3, WriterStepFrame DEF AWriterStep
  <2> QED
    BY <1>1, <1>4, <2>0, <2>1, <2>2, <2>3 DEF WriteStep
<1>5. ASSUME NEW t \in Threads, ThreadStep(t)
      PROVE  UNCHANGED <<stage, query>>
  BY <1>5 DEF ThreadStep, SinkChunk, PushChunk, SinkReturn, TakeBatch, PrepareBatch, FlushBatch,
     FlushChunk, FlushReturn, Combine, CombineReturn, Stop, LocalDestroy, OpenLanceWriter, WriterOpen,
     Push, WriterFinish, WriterDestroy, vars, datasetVars, engineVars
<1> QED
  BY <1>1, <1>2, <1>3, <1>4, <1>5 DEF CopyNext

\* A thread or the finalize callback moves from one step to the next.
LEMMA UnitsNext ==
  ASSUME EngineInv, [CopyNext]_copyVars
  PROVE  EngineType' /\ (\A t \in Threads : UnitHeld(t)') /\ FlushBounds'
<1> USE UnitCount, PlanKept, CopyWriters, CopyAssumption DEF CopyAssumption, planVars, EngineInv
<1>1. CASE UNCHANGED <<failed, next, pc, held, flushVars>>
  <2>1. query' \in {"planned", "bound", "running", "finishing", "committing", "success", "error"}
    BY DEF EngineType, CopyNext, QueryStep, Bind, Initialize, Finalize, FinalizeCommit, FinalizeReturn, FinishResult,
       FailQuery, GlobalDestroy, Interrupt, ThreadStep, SinkChunk, PushChunk, SinkReturn, TakeBatch,
       PrepareBatch, FlushBatch, FlushChunk, FlushReturn, Combine, CombineReturn, Stop, LocalDestroy,
       WriteStep, Terminated, engineVars, copyVars
  <2> QED
    BY <1>1, <2>1 DEF EngineType, UnitHeld, FlushBounds, flushVars
<1>2. CASE Interrupt
  BY <1>2 DEF Interrupt, EngineType, UnitHeld, FlushBounds, flushVars
<1>3. CASE QueryStep \/ WriteStep \/ Terminated \/ UNCHANGED copyVars
  BY <1>1, <1>3 DEF QueryStep, Bind, Initialize, Finalize, FinalizeCommit, FinalizeReturn, FailQuery,
     GlobalDestroy, WriteStep, Terminated, copyVars, engineVars
<1>4. ASSUME NEW t \in Threads, ThreadStep(t)
      PROVE  EngineType' /\ (\A u \in Threads : UnitHeld(u)') /\ FlushBounds'
  <2>1. CASE LocalDestroy(t)
    BY <1>1, <2>1 DEF LocalDestroy, engineVars
  <2>0. NumUnits' = NumUnits /\ NumUnits \in Nat /\ preserveOrder' = preserveOrder /\ mode' = mode
    OBVIOUS
  <2>2. CASE SinkChunk(t) \/ TakeBatch(t)
    <3>1. /\ next \in 1 .. NumUnits /\ next' = next + 1 /\ held' = [held EXCEPT ![t] = next]
          /\ \/ mode # "BATCH" /\ pc' = [pc EXCEPT ![t] = "push"]
             \/ mode = "BATCH" /\ pc' = [pc EXCEPT ![t] = "prepare"]
          /\ UNCHANGED <<query, failed, flushVars>>
      BY <2>0, <2>2 DEF SinkChunk, TakeBatch, EngineType, Goto
    <3>2. \A u \in Threads : UnitHeld(u)'
      BY <2>0, <3>1 DEF EngineType, UnitHeld, flushVars
    <3>3. EngineType' /\ FlushBounds'
      BY <2>0, <3>1 DEF EngineType, FlushBounds, flushVars
    <3> QED
      BY <3>2, <3>3
  <2>3. CASE PushChunk(t) \/ Combine(t) \/ Stop(t)
    <3>1. /\ UNCHANGED <<query, failed, next, held, flushVars>>
          /\ \/ pc[t] = "push" /\ pc' = [pc EXCEPT ![t] = "pushing"]
             \/ /\ \E step \in {"combined", "combining", "stopped"} : pc' = [pc EXCEPT ![t] = step]
                /\ pc'[t] = "combining" => sink[t] # "Unopened"
      BY <2>0, <2>3 DEF PushChunk, Combine, Stop, EngineType, Goto
    <3>2. \A u \in Threads : UnitHeld(u)'
      <4>1. UNCHANGED <<held, flusher>> /\ \A u \in Threads : u # t => pc'[u] = pc[u]
        BY <3>1 DEF EngineType, flushVars
      <4>2. /\ pc'[t] \in {"pushing", "combined", "combining", "stopped"}
            /\ pc'[t] = "pushing" => pc[t] = "push"
            /\ pc'[t] = "combining" => sink[t] # "Unopened"
        BY <3>1 DEF EngineType
      <4>3. ASSUME NEW u \in Threads, u # t PROVE UnitHeld(u)'
        BY <2>0, <4>1, <4>3 DEF UnitHeld
      <4>4. UnitHeld(t)'
        BY <2>0, <4>1, <4>2 DEF UnitHeld, WritersOfMode
      <4> QED
        BY <4>3, <4>4
    <3>3. EngineType' /\ FlushBounds'
      BY <2>0, <3>1 DEF EngineType, FlushBounds, flushVars
    <3> QED
      BY <3>2, <3>3
  <2>4. CASE SinkReturn(t) \/ CombineReturn(t)
    <3>1. /\ \E step \in {"idle", "combined", "stopped"} : pc' = [pc EXCEPT ![t] = step]
          /\ failed' = failed \/ failed' = TRUE
          /\ UNCHANGED <<query, next, held, flushVars>>
      BY <2>4 DEF SinkReturn, CombineReturn, Goto, Throw
    <3>2. EngineType'
      BY <2>0, <3>1 DEF EngineType, flushVars
    <3>3. FlushBounds'
      BY <2>0, <3>1 DEF FlushBounds, flushVars
    <3>4. ASSUME NEW u \in Threads PROVE UnitHeld(u)'
      <4>1. pc'[u] = pc[u] \/ pc'[u] \in {"idle", "combined", "stopped"}
        BY <3>1 DEF EngineType
      <4> QED
        BY <2>0, <3>1, <4>1 DEF UnitHeld, flushVars
    <3> QED
      BY <3>2, <3>3, <3>4
  <2>5. CASE PrepareBatch(t)
    BY <2>0, <2>5 DEF PrepareBatch, EngineType, UnitHeld, FlushBounds, flushVars, Goto
  <2>6. CASE FlushBatch(t)
    <3>1. /\ flusher = NoThread /\ mode = "BATCH" /\ flushed \in 0 .. NumUnits - 1
          /\ flusher' = t /\ pos' = FirstChunk(flushed + 1) /\ pc' = [pc EXCEPT ![t] = "flush"]
          /\ UNCHANGED <<query, failed, next, held, prepared, flushed>>
      BY <2>0, <2>6 DEF FlushBatch, EngineType, FlushBounds, Goto
    <3>2. /\ FirstChunk(flushed + 1) \in 1 .. NumChunks
          /\ LastChunk(flushed + 1) \in FirstChunk(flushed + 1) .. NumChunks
      BY <3>1, BatchBounds
    <3>3. FlushBounds'
      BY <2>0, <3>1, <3>2 DEF FlushBounds
    <3>4. \A u \in Threads : UnitHeld(u)'
      BY <2>0, <3>1 DEF EngineType, UnitHeld
    <3>5. EngineType'
      BY <2>0, <3>1, <3>2 DEF EngineType
    <3> QED
      BY <3>3, <3>4, <3>5
  <2>7. CASE FlushChunk(t)
    BY <2>0, <2>7 DEF FlushChunk, EngineType, UnitHeld, FlushBounds, flushVars, Goto
  <2>8. CASE FlushReturn(t)
    <3>1. /\ flusher = t /\ mode = "BATCH" /\ flushed \in 0 .. NumUnits - 1
          /\ pos \in FirstChunk(flushed + 1) .. LastChunk(flushed + 1)
          /\ UNCHANGED <<query, next, held, prepared>>
      BY <2>0, <2>8 DEF FlushReturn, UnitHeld, FlushBounds
    <3>2. /\ FirstChunk(flushed + 1) \in 1 .. NumChunks
          /\ LastChunk(flushed + 1) \in FirstChunk(flushed + 1) .. NumChunks
      BY <3>1, BatchBounds
    <3>3. \/ /\ pos < LastChunk(flushed + 1) /\ pos' = pos + 1 /\ pc' = [pc EXCEPT ![t] = "flush"]
             /\ UNCHANGED <<failed, flushed, flusher>>
          \/ /\ flushed' = flushed + 1 /\ flusher' = NoThread /\ pc' = [pc EXCEPT ![t] = "idle"]
             /\ UNCHANGED <<failed, pos>>
          \/ /\ pc' = [pc EXCEPT ![t] = "stopped"] /\ failed' = TRUE
             /\ UNCHANGED <<flushed, flusher, pos>>
      BY <2>8 DEF FlushReturn, Goto, Throw
    <3>4. FlushBounds'
      BY <2>0, <3>1, <3>2, <3>3 DEF FlushBounds
    <3>5. \A u \in Threads : UnitHeld(u)'
      BY <2>0, <3>1, <3>3 DEF EngineType, UnitHeld
    <3>6. EngineType'
      <4>1. pos' \in 0 .. NumChunks /\ flushed' \in 0 .. NumUnits
        BY <2>0, <3>1, <3>2, <3>3 DEF EngineType
      <4>2. failed' \in BOOLEAN /\ flusher' \in Threads \cup {NoThread}
        BY <3>3 DEF EngineType
      <4>3. \E step \in {"flush", "idle", "stopped"} : pc' = [pc EXCEPT ![t] = step]
        BY <3>3
      <4> QED
        BY <2>0, <3>1, <4>1, <4>2, <4>3 DEF EngineType
    <3> QED
      BY <3>4, <3>5, <3>6
  <2> QED
    BY <1>4, <2>1, <2>2, <2>3, <2>4, <2>5, <2>6, <2>7, <2>8 DEF ThreadStep
<1> QED
  BY <1>2, <1>3, <1>4 DEF CopyNext

LEMMA EngineNext == ASSUME Inv, EngineInv, [CopyNext]_copyVars PROVE EngineInv'
BY UnitsNext, PhaseNext, WritersOfModeNext DEF EngineInv

LEMMA CopyInvHolds == CopySpec => [](WriteInv /\ EngineInv)
<1>1. CopyInit => WriteInv /\ EngineInv
  BY EngineInit, InvInit, ConstantsAssumption, OperationInit, DestinationInit, VersionsInit DEF CopyInit, WriteInv
<1>2. WriteInv /\ EngineInv /\ [CopyNext]_copyVars => (WriteInv /\ EngineInv)'
  BY CopyStepWrites, EngineNext, InvNext, OperationNext, DestinationNext, VersionsNext DEF WriteInv
<1> QED
  BY <1>1, <1>2, PTL DEF CopySpec

\* A COPY is a use of the write: every behaviour of it is one of DatasetWrite,
\* so what is proved of the write holds of every COPY.
THEOREM CopyIsWrite == CopySpec => Spec
<1>1. CopyInit => Init
  BY DEF CopyInit
<1>2. EngineInv /\ [CopyNext]_copyVars => [Next]_vars
  BY CopyStepWrites
<1> QED
  BY <1>1, <1>2, CopyInvHolds, PTL DEF CopySpec, Spec

\* Every variable of a COPY stays in its type, every chunk pushed is one of the
\* query, and a flushing thread stays inside its batch.
THEOREM CopyTypeCorrect == CopySpec => []CopyTypeOK
<1>1. WriteInv /\ EngineInv => CopyTypeOK
  BY DEF WriteInv, Inv, TypeInv, EngineInv, EngineType, CopyTypeOK
<1> QED
  BY <1>1, CopyInvHolds, PTL

-----------------------------------------------------------------------------
(***************************************************************************)
(* No partial version.  The invariant follows every chunk from the source  *)
(* to the acknowledgement of its push, and every writer from its last push *)
(* to the transaction list, in each of the three execution modes.          *)
(***************************************************************************)
Prefix(k) == [c \in 1 .. k |-> c]

Listed(w) == w \in Range(transactions) \cup Range(merged)

\* The call in progress on a writer acknowledges nothing.
Quiet(w) == call[w] = "send" => arg[w] = Finish

\* A push of b on a writer, and one on a writer that takes all chunks in order.
Pushing(w, b) ==
  \/ call[w] = "send" /\ arg[w] = b
  \/ call[w] = "joinPush"
  \/ call[w] = "idle" /\ (ret[w] = "err" \/ b \in Range(acked[w]))

PushingNext(w, b) ==
  \/ call[w] = "send" /\ arg[w] = b /\ acked[w] = Prefix(b - 1)
  \/ call[w] = "joinPush"
  \/ call[w] = "idle" /\ (ret[w] = "err" \/ acked[w] = Prefix(b))

Finishing(w) ==
  \/ call[w] = "send" /\ arg[w] = Finish
  \/ call[w] \in {"joinFinish", "joinUnsent"}
  \/ call[w] = "idle" /\ (ret[w] = "err" \/ Listed(w))

ThreadInv(t) ==
  /\ pc[t] # "pushing" => Quiet(t)
  /\ pc[t] = "pushing" => Pushing(t, held[t])
  /\ pc[t] = "combining" => Finishing(t)
  /\ pc[t] = "combined" => sink[t] = "Unopened" \/ Listed(t)

\* Every chunk handed out is acknowledged, or some thread is at work on it.
ParallelInv ==
  mode = "PARALLEL" /\ ~failed =>
    /\ \A c \in 1 .. next - 1 :
         \E t \in Threads : \/ held[t] = c /\ pc[t] \in {"push", "pushing"}
                            \/ c \in Range(acked[t])
    /\ \A t \in Threads : pc[t] \in {"combining", "combined"} => next > NumUnits

\* One thread pushes all chunks in order; the others never start.
RunsAlone(t) ==
  /\ \A u \in Threads \ {t} : sink[u] = "Unopened" /\ pc[u] = "combined"
  /\ pc[t] \in {"push", "pushing"} => held[t] = next - 1
  /\ pc[t] = "push" => acked[t] = Prefix(next - 2)
  /\ pc[t] = "pushing" => PushingNext(t, next - 1)
  /\ pc[t] \notin {"push", "pushing"} => acked[t] = Prefix(next - 1)
  /\ pc[t] \in {"combining", "combined"} => next > NumUnits

RegularInv == mode = "REGULAR" /\ ~failed => \E t \in Threads : RunsAlone(t)

\* The ordered writer has every chunk of the batches flushed so far, and those
\* before pos of the batch being flushed.
BatchInv ==
  (mode = "BATCH" /\ ~failed /\ query \in {"planned", "bound", "running"}) =>
    \/ /\ flusher = NoThread
       /\ Quiet(Ordered) /\ acked[Ordered] = Prefix(LastChunk(flushed))
    \/ /\ flusher # NoThread /\ pc[flusher] = "flush"
       /\ Quiet(Ordered) /\ acked[Ordered] = Prefix(pos - 1)
    \/ /\ flusher # NoThread /\ pc[flusher] = "flushing"
       /\ PushingNext(Ordered, pos)

\* Finalize waits for the ordered writer, which has every chunk.
FinishingInv ==
  query = "finishing" =>
    /\ \A t \in Threads : pc[t] = "combined"
    /\ mode = "BATCH" /\ acked[Ordered] = Prefix(NumChunks) /\ Finishing(Ordered)

\* What lance_conversion_finish takes is the whole query.
WholeQuery(writers) ==
  /\ Batches \subseteq UNION {Range(acked[w]) : w \in Range(writers)}
  /\ preserveOrder = TRUE /\ NumChunks > 0 =>
       Len(writers) = 1 /\ acked[writers[1]] = Prefix(NumChunks)

CommittingInv ==
  (stage \in {"empty", "merge", "execute", "index", "done"} \/ DataVersions # {}) =>
    WholeQuery(merged)

ChunksInv ==
  /\ \A t \in Threads : ThreadInv(t)
  /\ ParallelInv /\ RegularInv /\ BatchInv
  /\ FinishingInv
  /\ CommittingInv

-----------------------------------------------------------------------------
\* The first k chunks.
LEMMA PrefixFacts ==
  /\ Prefix(0) = <<>>
  /\ \A k \in Nat : Range(Prefix(k)) = 1 .. k
  /\ \A k \in Nat \ {0} : Prefix(k) # <<>> /\ Append(Prefix(k - 1), k) = Prefix(k)
<1>1. Prefix(0) = <<>>
  BY DEF Prefix
<1>2. ASSUME NEW k \in Nat PROVE Range(Prefix(k)) = 1 .. k
  BY DEF Prefix, Range
<1>3. ASSUME NEW k \in Nat \ {0} PROVE Prefix(k) # <<>> /\ Append(Prefix(k - 1), k) = Prefix(k)
  <2>1. Prefix(k) \in Seq(Nat) /\ Len(Prefix(k)) = k /\ \A c \in 1 .. k : Prefix(k)[c] = c
    BY DEF Prefix
  <2>2. /\ Prefix(k - 1) \in Seq(Nat) /\ Len(Prefix(k - 1)) = k - 1
        /\ \A c \in 1 .. k - 1 : Prefix(k - 1)[c] = c
    BY DEF Prefix
  <2>3. /\ Append(Prefix(k - 1), k) \in Seq(Nat) /\ Len(Append(Prefix(k - 1), k)) = k
        /\ \A c \in 1 .. k : Append(Prefix(k - 1), k)[c] = c
    BY <2>2
  <2>4. Append(Prefix(k - 1), k) = Prefix(k)
    BY <2>1, <2>3
  <2> QED
    BY <2>1, <2>4
<1> QED
  BY <1>1, <1>2, <1>3

\* What the calls on a writer see of it.
SameView(w) ==
  call'[w] = call[w] /\ arg'[w] = arg[w] /\ ret'[w] = ret[w] /\ acked'[w] = acked[w]

WaitStep ==
  \/ CommitStep \/ OtherCommit
  \/ \E v \in Writers : CallStep(v) \/ WorkerStep(v) \/ WorkerFault(v)

LEMMA OtherView ==
  ASSUME TypeOK, NEW v \in Writers, NEW w \in Writers \ {v},
         ClientStep(v) \/ CallStep(v) \/ WorkerStep(v) \/ WorkerFault(v)
  PROVE  SameView(w) /\ sink'[w] = sink[w]
<1>1. sink'[w] = sink[w]
  BY WriterFrame DEF OnlyWriter
<1> USE DEF TypeOK, SameView
<1>2. CASE ClientStep(v)
  BY <1>1, <1>2 DEF ClientStep, WriterOpen, Push, WriterFinish, WriterDestroy, Return
<1>3. CASE CallStep(v)
  BY <1>1, <1>3 DEF CallStep, Send, SendClosed, JoinFinish, JoinPush, JoinDestroy, Return
<1>4. CASE WorkerStep(v) \/ WorkerFault(v)
  BY <1>1, <1>4 DEF WorkerStep, WorkerFault, Resolve, ReceiveBatch, ReceiveFinish, ReceiveClosed,
     Flush, WorkerFail, WorkerStop, callVars
<1> QED
  BY <1>2, <1>3, <1>4

LEMMA WaitView ==
  ASSUME TypeOK, WaitStep, NEW w \in Writers
  PROVE  SameView(w) \/ CallStep(w)
<1>1. CASE CommitStep \/ OtherCommit
  BY <1>1, DatasetStepFrame DEF ADatasetStep, callVars, SameView
<1>2. ASSUME NEW v \in Writers, WorkerStep(v) \/ WorkerFault(v)
      PROVE  SameView(w)
  BY <1>2 DEF WorkerStep, WorkerFault, Resolve, ReceiveBatch, ReceiveFinish, ReceiveClosed,
     Flush, WorkerFail, WorkerStop, callVars, SameView
<1> QED
  BY <1>1, <1>2, OtherView DEF WaitStep

\* A call in progress: the send, the join, the return.
LEMMA CallEffect ==
  ASSUME TypeOK, NEW w \in Writers, CallStep(w)
  PROVE  /\ arg'[w] = arg[w]
         /\ \/ /\ call[w] = "send" /\ arg[w] = Finish
               /\ call'[w] \in {"joinFinish", "joinUnsent"} /\ acked'[w] = acked[w]
            \/ /\ call[w] = "send" /\ arg[w] # Finish
               /\ call'[w] = "joinPush" /\ acked'[w] = acked[w]
            \/ /\ call[w] = "send" /\ arg[w] # Finish
               /\ call'[w] = "idle" /\ ret'[w] = "ok" /\ acked'[w] = Append(acked[w], arg[w])
            \/ /\ call[w] \in {"joinFinish", "joinUnsent"} /\ acked'[w] = acked[w]
               /\ call'[w] = "idle"
               /\ ret'[w] = "err" \/ transactions' = Append(transactions, w)
            \/ /\ call[w] = "joinPush" /\ acked'[w] = acked[w]
               /\ call'[w] = "idle" /\ ret'[w] = "err"
            \/ /\ call[w] = "joinDestroy" /\ acked'[w] = acked[w] /\ call'[w] = "idle"
<1> USE DEF TypeOK, Return
<1>1. CASE Send(w)
  BY <1>1 DEF Send
<1>2. CASE SendClosed(w)
  BY <1>2 DEF SendClosed
<1>3. CASE JoinFinish(w)
  BY <1>3 DEF JoinFinish, AddTransaction
<1>4. CASE JoinPush(w) \/ JoinDestroy(w)
  BY <1>4 DEF JoinPush, JoinDestroy
<1> QED
  BY <1>1, <1>2, <1>3, <1>4 DEF CallStep

LEMMA ListedKept ==
  ASSUME Inv, OperationInv, [Next]_vars, NEW w \in Writers, Listed(w)
  PROVE  Listed(w)'
<1>0. TypeOK /\ Range(<<>>) = {}
  BY DEF Inv, TypeInv, Range
<1>1. CASE UNCHANGED <<transactions, merged>>
  BY <1>1 DEF Listed
<1>2. CASE ConversionFinish
  BY <1>0, <1>2 DEF ConversionFinish, OperationInv, Listed
<1>3. CASE ADatasetStep /\ ~ConversionFinish
  BY <1>1, <1>3 DEF ADatasetStep, ConversionOpen, ConversionDestroy, CommitStep, OtherCommit,
     WriteEmpty, Merge, Execute, BuildIndex, FinishReturn
<1>4. ASSUME NEW v \in Writers, AWriterStep(v)
      PROVE  Listed(w)'
  <2>1. CASE JoinFinish(v)
    <3>1. merged' = merged /\ (transactions' = transactions \/ transactions' = Append(transactions, v))
      BY <2>1 DEF JoinFinish, AddTransaction
    <3>2. Range(Append(transactions, v)) = Range(transactions) \cup {v}
      BY <1>0, RangeAppend DEF TypeOK
    <3> QED
      BY <3>1, <3>2 DEF Listed
  <2>2. CASE ~JoinFinish(v)
    BY <1>1, <1>4, <2>2, ListFrame DEF AWriterStep
  <2> QED
    BY <2>1, <2>2
<1> QED
  BY <1>1, <1>2, <1>3, <1>4 DEF Next, ADatasetStep, AWriterStep, vars, datasetVars

LEMMA AckedGrows ==
  ASSUME Inv, [Next]_vars, NEW w \in Writers
  PROVE  Range(acked[w]) \subseteq Range(acked'[w])
<1>0. TypeOK
  BY DEF Inv, TypeInv
<1>1. CASE UNCHANGED vars \/ ADatasetStep
  BY <1>1, DatasetStepFrame DEF vars, callVars
<1>2. ASSUME NEW v \in Writers, AWriterStep(v)
      PROVE  Range(acked[w]) \subseteq Range(acked'[w])
  <2>1. CASE v # w
    BY <1>0, <1>2, <2>1, OtherView DEF AWriterStep, SameView
  <2>2. CASE v = w /\ CallStep(w)
    <3>1. acked'[w] = acked[w] \/ (arg[w] \in Batches /\ acked'[w] = Append(acked[w], arg[w]))
      BY <1>0, <2>2, CallEffect DEF TypeOK
    <3>2. arg[w] \in Batches => Range(Append(acked[w], arg[w])) = Range(acked[w]) \cup {arg[w]}
      BY <1>0, RangeAppend DEF TypeOK
    <3> QED
      BY <3>1, <3>2
  <2>3. CASE v = w /\ ~CallStep(w)
    BY <1>2, <2>3 DEF AWriterStep, ClientStep, WriterOpen, Push, WriterFinish, WriterDestroy, WorkerStep,
       WorkerFault, Resolve, ReceiveBatch, ReceiveFinish, ReceiveClosed, Flush, WorkerFail, WorkerStop, callVars
  <2> QED
    BY <2>1, <2>2, <2>3
<1> QED
  BY <1>1, <1>2 DEF Next, ADatasetStep, AWriterStep

\* The calls run on while the engine waits.
LEMMA QuietKept ==
  ASSUME TypeOK, WaitStep, NEW w \in Writers, Quiet(w)
  PROVE  Quiet(w)' /\ acked'[w] = acked[w]
<1>1. CASE SameView(w)
  BY <1>1 DEF SameView, Quiet
<1>2. CASE CallStep(w)
  BY <1>2, CallEffect DEF Quiet
<1> QED
  BY <1>1, <1>2, WaitView

LEMMA PushingKept ==
  ASSUME TypeOK, WaitStep, NEW w \in Writers, NEW b \in Batches, Pushing(w, b)
  PROVE  Pushing(w, b)'
<1>1. CASE SameView(w)
  BY <1>1 DEF SameView, Pushing
<1>2. CASE CallStep(w)
  <2>1. b # Finish
    BY ConstantsAssumption DEF ConstantsAssumption
  <2>2. b \in Range(Append(acked[w], b))
    BY RangeAppend DEF TypeOK
  <2> QED
    BY <1>2, <2>1, <2>2, CallEffect DEF Pushing
<1> QED
  BY <1>1, <1>2, WaitView

LEMMA PushingNextKept ==
  ASSUME TypeOK, WaitStep, NEW w \in Writers, NEW b \in Batches, PushingNext(w, b)
  PROVE  PushingNext(w, b)'
<1>1. CASE SameView(w)
  BY <1>1 DEF SameView, PushingNext
<1>2. CASE CallStep(w)
  <2>1. b # Finish
    BY ConstantsAssumption DEF ConstantsAssumption
  <2>2. Append(Prefix(b - 1), b) = Prefix(b)
    BY PrefixFacts, CopyWriters, CopyAssumption DEF CopyAssumption
  <2> QED
    BY <1>2, <2>1, <2>2, CallEffect DEF PushingNext
<1> QED
  BY <1>1, <1>2, WaitView

LEMMA FinishingKept ==
  ASSUME Inv, OperationInv, [Next]_vars, WaitStep, NEW w \in Writers, Finishing(w)
  PROVE  Finishing(w)' /\ acked'[w] = acked[w]
<1>0. TypeOK
  BY DEF Inv, TypeInv
<1>1. Listed(w) => Listed(w)'
  BY ListedKept
<1>2. CASE SameView(w)
  BY <1>1, <1>2 DEF SameView, Finishing
<1>3. CASE CallStep(w)
  <2>1. transactions' = Append(transactions, w) => Listed(w)'
    <3>1. Range(Append(transactions, w)) = Range(transactions) \cup {w}
      BY <1>0, RangeAppend DEF TypeOK
    <3> QED
      BY <3>1 DEF Listed
  <2> QED
    BY <1>0, <1>1, <1>3, <2>1, CallEffect DEF Finishing
<1> QED
  BY <1>0, <1>2, <1>3, WaitView

-----------------------------------------------------------------------------
\* The steps of the query do not touch the threads.
LEMMA QueryFrame ==
  ASSUME TypeOK, QueryStep \/ Interrupt \/ Terminated \/ UNCHANGED copyVars
  PROVE  /\ UNCHANGED <<next, pc, held, flushVars>>
         /\ failed' = failed \/ failed' = TRUE
         /\ \A t \in Threads : SameView(t) /\ sink'[t] = sink[t]
<1>1. UNCHANGED <<next, pc, held, flushVars>> /\ (failed' = failed \/ failed' = TRUE)
  BY DEF QueryStep, Bind, Initialize, Finalize, FinalizeCommit, FinalizeReturn, FailQuery,
     GlobalDestroy, Interrupt, Terminated, copyVars, engineVars
<1>2. UNCHANGED callVars \/ ClientStep(Ordered)
  BY DEF QueryStep, Bind, Initialize, Finalize, FinalizeCommit, FinalizeReturn, FailQuery,
     GlobalDestroy, ConversionOpen, ConversionFinish, ConversionDestroy, Interrupt, Terminated, copyVars, vars,
     ClientStep
<1>3. ASSUME NEW t \in Threads PROVE SameView(t) /\ sink'[t] = sink[t]
  BY <1>2, OtherView, CopyWriters DEF callVars, SameView
<1> QED
  BY <1>1, <1>3

\* A step of a thread is its own, or on the ordered writer.
LEMMA ThreadFrame ==
  ASSUME TypeOK, EngineInv, NEW u \in Threads, NEW t \in Threads \ {u}, ThreadStep(u)
  PROVE  SameView(t) /\ sink'[t] = sink[t] /\ pc'[t] = pc[t] /\ held'[t] = held[t]
<1>1. pc'[t] = pc[t] /\ held'[t] = held[t]
  BY DEF EngineInv, EngineType, ThreadStep, SinkChunk, PushChunk, SinkReturn, TakeBatch, PrepareBatch,
     FlushBatch, FlushChunk, FlushReturn, Combine, CombineReturn, Stop, LocalDestroy, Goto, Throw, engineVars
<1>2. UNCHANGED vars \/ ClientStep(u) \/ ClientStep(Ordered)
  <2>1. CASE PushChunk(u) \/ FlushChunk(u)
    BY <2>1, PushesBatches DEF PushChunk, FlushChunk, ClientStep
  <2>2. CASE ~PushChunk(u) /\ ~FlushChunk(u)
    BY <2>2 DEF ThreadStep, SinkChunk, SinkReturn, TakeBatch, PrepareBatch, FlushBatch,
         FlushReturn, Combine, CombineReturn, Stop, LocalDestroy, OpenLanceWriter, ClientStep
  <2> QED
    BY <2>1, <2>2
<1>3. SameView(t) /\ sink'[t] = sink[t]
  BY <1>2, OtherView, CopyWriters DEF vars, callVars, SameView
<1> QED
  BY <1>1, <1>3

\* While the engine waits, an unopened writer stays so.
LEMMA UnopenedWaits ==
  ASSUME Inv, WaitStep, NEW w \in Writers, sink[w] = "Unopened"
  PROVE  sink'[w] = "Unopened"
<1>1. CASE CommitStep \/ OtherCommit
  BY <1>1, DatasetStepFrame DEF ADatasetStep, callVars
<1> QED
  BY <1>1, UnopenedKept DEF WaitStep

LEMMA ThreadInvKept ==
  ASSUME Inv, OperationInv, [Next]_vars, NEW t \in Threads, ThreadInv(t),
         SameView(t), pc'[t] = pc[t], held'[t] = held[t],
         sink[t] = "Unopened" => sink'[t] = "Unopened"
  PROVE  ThreadInv(t)'
<1>1. Listed(t) => Listed(t)'
  BY ListedKept, CopyWriters
<1> QED
  BY <1>1 DEF ThreadInv, SameView, Quiet, Pushing, Finishing

LEMMA ThreadInvNext ==
  ASSUME Inv, OperationInv, EngineInv, [CopyNext]_copyVars, NEW t \in Threads, ThreadInv(t)
  PROVE  ThreadInv(t)'
<1>0. TypeOK /\ [Next]_vars /\ t \in Writers /\ t # Ordered /\ EngineType
  BY CopyStepWrites, CopyWriters DEF Inv, TypeInv, EngineInv
<1>1. CASE QueryStep \/ Interrupt \/ Terminated \/ UNCHANGED copyVars
  BY <1>0, <1>1, QueryFrame, ThreadInvKept
<1>2. CASE WriteStep
  <2>1. WaitStep /\ pc'[t] = pc[t] /\ held'[t] = held[t]
    BY <1>2 DEF WriteStep, WaitStep, engineVars
  <2>2. pc[t] = "pushing" => held[t] \in Batches
    BY UnitCount, CopyWriters DEF EngineInv, UnitHeld
  <2>3. Listed(t) => Listed(t)'
    BY <1>0, ListedKept
  <2>4. sink[t] = "Unopened" => sink'[t] = "Unopened"
    BY <1>0, <2>1, UnopenedWaits
  <2>5. pc[t] # "pushing" => Quiet(t)'
    BY <1>0, <2>1, QuietKept DEF ThreadInv
  <2>6. pc[t] = "pushing" => Pushing(t, held[t])'
    <3>1. SUFFICES ASSUME pc[t] = "pushing" PROVE Pushing(t, held[t])'
      OBVIOUS
    <3>2. held[t] \in Batches /\ Pushing(t, held[t])
      BY <2>2, <3>1 DEF ThreadInv
    <3>3. \A b \in Batches : Pushing(t, b) => Pushing(t, b)'
      BY <1>0, <2>1, PushingKept
    <3> QED
      BY <2>1, <3>2, <3>3 DEF Pushing
  <2>7. pc[t] = "combining" => Finishing(t)'
    BY <1>0, <2>1, FinishingKept DEF ThreadInv
  <2> QED
    BY <2>1, <2>3, <2>4, <2>5, <2>6, <2>7 DEF ThreadInv
<1>3. ASSUME NEW u \in Threads \ {t}, ThreadStep(u)
      PROVE  ThreadInv(t)'
  BY <1>0, <1>3, ThreadFrame, ThreadInvKept
<1>4. CASE ThreadStep(t)
  <2> USE <1>0
  <2>1. CASE SinkChunk(t)
    <3>1. pc[t] = "idle" /\ pc'[t] = "push" /\ call'[t] = call[t] /\ arg'[t] = arg[t]
      BY <2>1 DEF SinkChunk, OpenLanceWriter, WriterOpen, Goto, EngineType, vars, callVars
    <3> QED
      BY <3>1 DEF ThreadInv, Quiet
  <2>2. CASE PushChunk(t)
    <3>1. /\ pc'[t] = "pushing" /\ held'[t] = held[t]
          /\ \/ call'[t] = "send" /\ arg'[t] = held[t]
             \/ call'[t] = "joinPush"
             \/ call'[t] = "idle" /\ ret'[t] = "err"
      BY <2>2 DEF PushChunk, Push, Return, Goto, EngineType, TypeOK
    <3> QED
      BY <3>1 DEF ThreadInv, Pushing
  <2>3. CASE SinkReturn(t)
    <3>1. pc'[t] \in {"idle", "stopped"} /\ call'[t] = "idle"
      BY <2>3 DEF SinkReturn, Goto, Throw, EngineType, vars, callVars
    <3> QED
      BY <3>1 DEF ThreadInv, Quiet
  <2>4. CASE Combine(t)
    <3>1. CASE sink[t] = "Unopened"
      <4>1. pc'[t] = "combined" /\ pc[t] = "idle" /\ sink'[t] = "Unopened" /\ SameView(t)
        BY <2>4, <3>1 DEF Combine, Goto, EngineType, vars, callVars, SameView
      <4> QED
        BY <4>1 DEF ThreadInv, Quiet, SameView
    <3>2. CASE sink[t] # "Unopened"
      <4>1. /\ pc'[t] = "combining"
            /\ \/ call'[t] = "send" /\ arg'[t] = Finish
               \/ call'[t] = "idle" /\ ret'[t] = "err"
        BY <2>4, <3>2 DEF Combine, WriterFinish, Return, Goto, EngineType, TypeOK
      <4> QED
        BY <4>1 DEF ThreadInv, Quiet, Finishing
    <3> QED
      BY <3>1, <3>2
  <2>5. CASE CombineReturn(t)
    <3>1. /\ pc[t] = "combining" /\ call[t] = "idle" /\ SameView(t)
          /\ \/ pc'[t] = "stopped"
             \/ pc'[t] = "combined" /\ ret[t] = "ok"
      BY <2>5 DEF CombineReturn, Goto, Throw, EngineType, vars, callVars, SameView
    <3>2. Listed(t) => Listed(t)'
      BY ListedKept
    <3> QED
      BY <3>1, <3>2 DEF ThreadInv, Quiet, Finishing, SameView
  <2>6. CASE LocalDestroy(t)
    <3>1. /\ pc'[t] = pc[t] /\ pc[t] \in {"combined", "stopped"}
          /\ sink[t] # "Unopened" /\ (call'[t] = call[t] \/ call'[t] = "joinDestroy") /\ arg'[t] = arg[t]
      BY <2>6 DEF LocalDestroy, WriterDestroy, HandleValid, engineVars, TypeOK
    <3>2. Listed(t) => Listed(t)'
      BY ListedKept
    <3> QED
      BY <3>1, <3>2 DEF ThreadInv, Quiet
  <2>7. CASE Stop(t) \/ TakeBatch(t) \/ PrepareBatch(t) \/ FlushBatch(t) \/ FlushChunk(t) \/ FlushReturn(t)
    <3>1. /\ pc[t] \in {"idle", "combined", "prepare", "flush", "flushing"}
          /\ pc'[t] \in {"stopped", "prepare", "idle", "flush", "flushing"}
      BY <2>7 DEF Stop, TakeBatch, PrepareBatch, FlushBatch, FlushChunk, FlushReturn, Goto, Throw, EngineType
    <3>2. UNCHANGED vars \/ ClientStep(Ordered)
      BY <2>7, PushesBatches DEF Stop, TakeBatch, PrepareBatch, FlushBatch, FlushChunk, FlushReturn,
         OpenLanceWriter, ClientStep
    <3>3. SameView(t)
      BY <3>2, OtherView, CopyWriters DEF vars, callVars, SameView
    <3> QED
      BY <3>1, <3>3 DEF ThreadInv, Quiet, SameView
  <2> QED
    BY <1>4, <2>1, <2>2, <2>3, <2>4, <2>5, <2>6, <2>7 DEF ThreadStep
<1> QED
  BY <1>1, <1>2, <1>3, <1>4 DEF CopyNext

-----------------------------------------------------------------------------
\* No chunk is lost between the threads of a parallel COPY.
LEMMA ParallelNext ==
  ASSUME Inv, OperationInv, EngineInv, \A t \in Threads : ThreadInv(t), ParallelInv,
         [CopyNext]_copyVars
  PROVE  ParallelInv'
<1>0. TypeOK /\ [Next]_vars /\ EngineType /\ mode' = mode /\ NumUnits' = NumUnits /\ NumUnits \in Nat
  BY CopyStepWrites, PlanKept, UnitCount DEF Inv, TypeInv, EngineInv, planVars
<1>1. \A t \in Threads : Range(acked[t]) \subseteq Range(acked'[t])
  BY <1>0, AckedGrows, CopyWriters
<1>2. CASE mode # "PARALLEL" \/ failed'
  BY <1>0, <1>2 DEF ParallelInv
<1>3. CASE UNCHANGED <<next, pc, held, failed>>
  BY <1>0, <1>1, <1>3 DEF ParallelInv
<1>4. CASE QueryStep \/ Interrupt \/ Terminated \/ UNCHANGED copyVars
  BY <1>0, <1>2, <1>3, <1>4, QueryFrame
<1>5. CASE WriteStep
  BY <1>3, <1>5 DEF WriteStep, engineVars
<1>6. ASSUME NEW u \in Threads, ThreadStep(u), mode = "PARALLEL", ~failed'
      PROVE  ParallelInv'
  <2>0. ~failed
    BY <1>6 DEF ThreadStep, SinkChunk, PushChunk, SinkReturn, TakeBatch, PrepareBatch,
       FlushBatch, FlushChunk, FlushReturn, Combine, CombineReturn, Stop, LocalDestroy, Throw, engineVars
  <2>1. /\ \A c \in 1 .. next - 1 :
             \E t \in Threads : \/ held[t] = c /\ pc[t] \in {"push", "pushing"}
                                \/ c \in Range(acked[t])
        /\ \A t \in Threads : pc[t] \in {"combining", "combined"} => next > NumUnits
    BY <1>6, <2>0 DEF ParallelInv
  <2>2. \A t \in Threads \ {u} : pc'[t] = pc[t] /\ held'[t] = held[t]
    BY <1>0, <1>6, ThreadFrame
  <2>3. CASE SinkChunk(u)
    <3>1. /\ pc[u] = "idle" /\ pc'[u] = "push" /\ held'[u] = next /\ next' = next + 1
          /\ next \in 1 .. NumUnits
      BY <1>0, <2>3 DEF SinkChunk, Goto, EngineType
    <3>2. \A t \in Threads : pc[t] \notin {"combining", "combined"}
      BY <1>0, <2>1, <3>1
    <3>3. \A t \in Threads : pc'[t] \in {"combining", "combined"} => next' > NumUnits'
      BY <2>2, <3>1, <3>2
    <3>4. ASSUME NEW c \in 1 .. next' - 1
          PROVE  \E t \in Threads : \/ held'[t] = c /\ pc'[t] \in {"push", "pushing"}
                                    \/ c \in Range(acked'[t])
      <4>1. CASE c = next
        BY <3>1, <4>1
      <4>2. CASE c # next
        <5>1. c \in 1 .. next - 1
          BY <3>1, <4>2
        <5> QED
          BY <1>1, <2>1, <2>2, <3>1, <5>1
      <4> QED
        BY <4>1, <4>2
    <3> QED
      BY <3>3, <3>4 DEF ParallelInv
  <2>4. CASE ~SinkChunk(u)
    <3>1. next' = next
      BY <1>6, <2>4 DEF ThreadStep, PushChunk, SinkReturn, TakeBatch, PrepareBatch,
       FlushBatch, FlushChunk, FlushReturn, Combine, CombineReturn, Stop, LocalDestroy, engineVars
    <3>2. /\ pc[u] \in {"push", "pushing"} =>
               held'[u] = held[u] /\ (pc'[u] = "pushing" \/ held[u] \in Range(acked[u]))
          /\ pc'[u] \in {"combining", "combined"} => pc[u] \in {"combining", "combined"} \/ next > NumUnits
      <4>1. CASE PushChunk(u)
        BY <1>0, <4>1 DEF PushChunk, Goto, EngineType
      <4>2. CASE SinkReturn(u)
        BY <1>0, <1>6, <4>2 DEF SinkReturn, Goto, Throw, EngineType, ThreadInv, Pushing
      <4>3. CASE Combine(u) \/ CombineReturn(u)
        BY <1>0, <4>3 DEF Combine, CombineReturn, Goto, Throw, EngineType
      <4>4. CASE TakeBatch(u) \/ PrepareBatch(u) \/ FlushBatch(u) \/ FlushChunk(u) \/ FlushReturn(u) \/ Stop(u)
        BY <1>0, <4>4 DEF TakeBatch, PrepareBatch, FlushBatch, FlushChunk, FlushReturn, Stop, Goto, Throw, EngineType
      <4>5. CASE LocalDestroy(u)
        BY <4>5 DEF LocalDestroy, engineVars
      <4> QED
        BY <1>6, <2>4, <4>1, <4>2, <4>3, <4>4, <4>5 DEF ThreadStep
    <3>3. \A t \in Threads : pc'[t] \in {"combining", "combined"} => next' > NumUnits'
      BY <1>0, <2>1, <2>2, <3>1, <3>2
    <3>4. ASSUME NEW c \in 1 .. next' - 1
          PROVE  \E t \in Threads : \/ held'[t] = c /\ pc'[t] \in {"push", "pushing"}
                                    \/ c \in Range(acked'[t])
      BY <1>1, <2>1, <2>2, <3>1, <3>2
    <3> QED
      BY <3>3, <3>4 DEF ParallelInv
  <2> QED
    BY <2>3, <2>4
<1> QED
  BY <1>2, <1>4, <1>5, <1>6 DEF CopyNext

\* The chunks of a COPY on one thread stay in order.
LEMMA RegularNext ==
  ASSUME Inv, OperationInv, EngineInv, \A t \in Threads : ThreadInv(t), RegularInv,
         [CopyNext]_copyVars
  PROVE  RegularInv'
<1>0. TypeOK /\ [Next]_vars /\ EngineType /\ mode' = mode /\ NumUnits' = NumUnits /\ NumUnits \in Nat
  BY CopyStepWrites, PlanKept, UnitCount DEF Inv, TypeInv, EngineInv, planVars
<1>1. failed' = failed \/ failed' = TRUE
  <2>1. ASSUME NEW u \in Threads, ThreadStep(u) PROVE failed' = failed \/ failed' = TRUE
    BY <2>1 DEF ThreadStep, SinkChunk, PushChunk, SinkReturn, TakeBatch, PrepareBatch,
       FlushBatch, FlushChunk, FlushReturn, Combine, CombineReturn, Stop, LocalDestroy, Throw, engineVars
  <2> QED
    BY <1>0, <2>1, QueryFrame DEF CopyNext, WriteStep, engineVars
<1>2. SUFFICES ASSUME mode = "REGULAR", ~failed, ~failed'
               PROVE  \E t \in Threads : RunsAlone(t)'
  BY <1>0, <1>1 DEF RegularInv
<1>3. PICK t \in Threads : RunsAlone(t)
  BY <1>2 DEF RegularInv
<1>4. t \in Writers /\ t # Ordered
  BY CopyWriters
<1>5. CASE QueryStep \/ Interrupt \/ Terminated \/ UNCHANGED copyVars
  <2>1. UNCHANGED <<next, pc, held>> /\ \A u \in Threads : SameView(u) /\ sink'[u] = sink[u]
    BY <1>0, <1>5, QueryFrame
  <2> QED
    BY <1>0, <1>3, <2>1 DEF RunsAlone, SameView, PushingNext
<1>6. CASE WriteStep
  <2>1. WaitStep /\ UNCHANGED <<next, pc, held>>
    BY <1>6 DEF WriteStep, WaitStep, engineVars
  <2>2. \A u \in Threads \ {t} : sink'[u] = "Unopened" /\ pc'[u] = "combined"
    BY <1>3, <2>1, UnopenedWaits, CopyWriters DEF RunsAlone
  <2>3. pc[t] # "pushing" => acked'[t] = acked[t]
    BY <1>0, <1>4, <2>1, QuietKept DEF ThreadInv
  <2>4. pc[t] = "pushing" => PushingNext(t, next - 1)'
    <3>1. SUFFICES ASSUME pc[t] = "pushing" PROVE PushingNext(t, next - 1)'
      OBVIOUS
    <3>2. next - 1 \in Batches /\ PushingNext(t, next - 1)
      BY <1>3, <3>1, UnitCount, CopyWriters DEF EngineInv, UnitHeld, RunsAlone
    <3>3. \A b \in Batches : PushingNext(t, b) => PushingNext(t, b)'
      BY <1>0, <1>4, <2>1, PushingNextKept
    <3> QED
      BY <2>1, <3>2, <3>3 DEF PushingNext
  <2> QED
    BY <1>0, <1>3, <2>1, <2>2, <2>3, <2>4 DEF RunsAlone
<1>7. ASSUME NEW u \in Threads \ {t}, ThreadStep(u)
      PROVE  RunsAlone(t)'
  <2>1. sink[u] = "Unopened" /\ pc[u] = "combined"
    BY <1>3, <1>7 DEF RunsAlone
  <2> QED
    BY <1>2, <1>7, <2>1 DEF ThreadStep, SinkChunk, PushChunk, SinkReturn, TakeBatch, PrepareBatch,
       FlushBatch, FlushChunk, FlushReturn, Combine, CombineReturn, Stop, LocalDestroy, WriterDestroy,
       HandleValid, EngineInv, FlushBounds
<1>8. CASE ThreadStep(t)
  <2>1. \A u \in Threads \ {t} : sink'[u] = "Unopened" /\ pc'[u] = "combined"
    BY <1>0, <1>3, <1>8, ThreadFrame DEF RunsAlone
  <2>2. CASE SinkChunk(t)
    <3>1. /\ pc[t] = "idle" /\ pc'[t] = "push" /\ held'[t] = next /\ next' = next + 1 /\ next \in 1 .. NumUnits
          /\ acked' = acked
      BY <1>0, <2>2 DEF SinkChunk, OpenLanceWriter, WriterOpen, Goto, EngineType, vars, callVars
    <3>2. next' - 1 = next /\ next' - 2 = next - 1
      BY <3>1
    <3> QED
      BY <1>3, <2>1, <3>1, <3>2 DEF RunsAlone
  <2>3. CASE PushChunk(t)
    <3>1. held[t] = next - 1 /\ acked[t] = Prefix(next - 2) /\ next - 2 = (next - 1) - 1
      BY <1>0, <1>3, <2>3 DEF RunsAlone, PushChunk, EngineType
    <3>2. /\ pc'[t] = "pushing" /\ held'[t] = held[t] /\ next' = next /\ acked'[t] = acked[t]
          /\ \/ call'[t] = "send" /\ arg'[t] = held[t]
             \/ call'[t] = "joinPush"
             \/ call'[t] = "idle" /\ ret'[t] = "err"
      BY <1>0, <1>4, <2>3 DEF PushChunk, Push, Return, Goto, EngineType, TypeOK
    <3>3. PushingNext(t, next - 1)'
      BY <3>1, <3>2 DEF PushingNext
    <3> QED
      BY <2>1, <3>1, <3>2, <3>3 DEF RunsAlone
  <2>4. CASE SinkReturn(t)
    <3>1. /\ pc[t] = "pushing" /\ pc'[t] = "idle" /\ next' = next /\ acked' = acked
          /\ call[t] = "idle" /\ ret[t] = "ok"
      BY <1>0, <1>2, <2>4 DEF SinkReturn, Goto, Throw, EngineType, vars, callVars
    <3> QED
      BY <1>3, <2>1, <3>1 DEF RunsAlone, PushingNext
  <2>5. CASE Combine(t)
    <3>1. /\ pc[t] = "idle" /\ pc'[t] \in {"combining", "combined"} /\ next' = next /\ next > NumUnits
          /\ acked' = acked
      BY <1>0, <2>5 DEF Combine, WriterFinish, Goto, EngineType, vars, callVars
    <3> QED
      BY <1>0, <1>3, <2>1, <3>1 DEF RunsAlone
  <2>6. CASE CombineReturn(t)
    <3>1. pc[t] = "combining" /\ pc'[t] = "combined" /\ next' = next /\ acked' = acked
      BY <1>0, <1>2, <2>6 DEF CombineReturn, Goto, Throw, EngineType, vars, callVars
    <3> QED
      BY <1>0, <1>3, <2>1, <3>1 DEF RunsAlone
  <2>7. CASE LocalDestroy(t)
    <3>1. UNCHANGED <<pc, held, next, acked>> /\ pc[t] \in {"combined", "stopped"}
      BY <2>7 DEF LocalDestroy, WriterDestroy, engineVars
    <3> QED
      BY <1>0, <1>3, <2>1, <3>1 DEF RunsAlone
  <2>8. CASE Stop(t) \/ TakeBatch(t) \/ PrepareBatch(t) \/ FlushBatch(t) \/ FlushChunk(t) \/ FlushReturn(t)
    BY <1>2, <2>8, CopyWriters DEF Stop, TakeBatch, PrepareBatch, FlushBatch, FlushChunk, FlushReturn, EngineInv,
       UnitHeld, FlushBounds
  <2> QED
    BY <1>8, <2>2, <2>3, <2>4, <2>5, <2>6, <2>7, <2>8 DEF ThreadStep
<1> QED
  BY <1>5, <1>6, <1>7, <1>8 DEF CopyNext

-----------------------------------------------------------------------------
\* The batches of a COPY go to the ordered writer one after the other.
LEMMA BatchKept ==
  ASSUME BatchInv, TypeOK, UNCHANGED <<failed, flusher, flushed, pos>>, mode' = mode,
         query' \in {"planned", "bound", "running"} => query \in {"planned", "bound", "running"},
         flusher # NoThread => pc'[flusher] = pc[flusher],
         SameView(Ordered)
  PROVE  BatchInv'
BY DEF BatchInv, SameView, Quiet, PushingNext, LastChunk

LEMMA BatchNext ==
  ASSUME Inv, OperationInv, EngineInv, BatchInv, [CopyNext]_copyVars
  PROVE  BatchInv'
<1>0. TypeOK /\ EngineType /\ mode' = mode /\ Ordered \in Writers
  BY PlanKept, CopyWriters DEF Inv, TypeInv, EngineInv, planVars
<1>1. CASE mode # "BATCH" \/ failed' \/ query' \notin {"planned", "bound", "running"}
  BY <1>0, <1>1 DEF BatchInv
<1>2. CASE UNCHANGED vars /\ UNCHANGED <<failed, pc, flushVars>> /\ (query' = query \/ query = "planned")
  BY <1>0, <1>2, BatchKept DEF vars, callVars, SameView, flushVars
<1>3. CASE QueryStep \/ Interrupt \/ Terminated \/ UNCHANGED copyVars
  <2>1. CASE Bind \/ Terminated \/ UNCHANGED copyVars
    BY <1>2, <2>1 DEF Bind, Terminated, copyVars, engineVars
  <2>2. CASE Initialize
    BY <1>0, <2>2, BatchKept DEF Initialize, ConversionOpen, callVars, SameView, flushVars
  <2>3. CASE Interrupt \/ Finalize \/ FinalizeCommit \/ FinalizeReturn \/ FailQuery \/ GlobalDestroy
    BY <1>1, <2>3 DEF Interrupt, Finalize, FinalizeCommit, FinalizeReturn, FinishResult, FailQuery,
       GlobalDestroy, Ended, engineVars
  <2> QED
    BY <1>3, <2>1, <2>2, <2>3 DEF QueryStep
<1>4. CASE WriteStep
  <2>1. WaitStep /\ UNCHANGED <<failed, query, pc, flushed, flusher, pos>>
    BY <1>4 DEF WriteStep, WaitStep, engineVars, flushVars
  <2>2. Quiet(Ordered) => Quiet(Ordered)' /\ acked'[Ordered] = acked[Ordered]
    BY <1>0, <2>1, QuietKept
  <2>3. pos \in Batches /\ PushingNext(Ordered, pos) => PushingNext(Ordered, pos)'
    <3>1. \A b \in Batches : PushingNext(Ordered, b) => PushingNext(Ordered, b)'
      BY <1>0, <2>1, PushingNextKept
    <3> QED
      BY <2>1, <3>1 DEF PushingNext
  <2>4. flusher # NoThread => pos \in Batches
    <3>1. SUFFICES ASSUME flusher # NoThread PROVE pos \in Batches
      OBVIOUS
    <3>2. /\ mode = "BATCH" /\ flushed \in 0 .. NumUnits - 1
          /\ pos \in FirstChunk(flushed + 1) .. LastChunk(flushed + 1)
      BY <3>1 DEF EngineInv, FlushBounds
    <3>3. FirstChunk(flushed + 1) \in 1 .. NumChunks /\ LastChunk(flushed + 1) \in 1 .. NumChunks
      BY <3>2, BatchBounds, UnitCount
    <3> QED
      BY <3>2, <3>3, CopyWriters, CopyAssumption DEF CopyAssumption
  <2> QED
    BY <1>0, <2>1, <2>2, <2>3, <2>4 DEF BatchInv, LastChunk
<1>5. ASSUME NEW u \in Threads, ThreadStep(u), mode = "BATCH", ~failed', query' \in {"planned", "bound", "running"}
      PROVE  BatchInv'
  <2>0. ~failed /\ query \in {"planned", "bound", "running"} /\ u # NoThread /\ u # Ordered /\ u \in Writers
    BY <1>5, CopyWriters DEF ThreadStep, SinkChunk, PushChunk, SinkReturn, TakeBatch, PrepareBatch,
       FlushBatch, FlushChunk, FlushReturn, Combine, CombineReturn, Stop, LocalDestroy, Throw, engineVars
  <2>1. \/ /\ flusher = NoThread
           /\ Quiet(Ordered) /\ acked[Ordered] = Prefix(LastChunk(flushed))
        \/ /\ flusher # NoThread /\ pc[flusher] = "flush"
           /\ Quiet(Ordered) /\ acked[Ordered] = Prefix(pos - 1)
        \/ /\ flusher # NoThread /\ pc[flusher] = "flushing"
           /\ PushingNext(Ordered, pos)
    BY <1>5, <2>0 DEF BatchInv
  <2>2. CASE FlushBatch(u)
    <3>1. /\ flusher = NoThread /\ flushed + 1 \in 1 .. NumUnits
          /\ flusher' = u /\ pos' = FirstChunk(flushed + 1) /\ pc'[u] = "flush"
          /\ call'[Ordered] = call[Ordered] /\ arg'[Ordered] = arg[Ordered] /\ acked' = acked
      BY <1>0, <2>2 DEF FlushBatch, OpenLanceWriter, WriterOpen, Goto, EngineType, vars, callVars
    <3>2. FirstChunk(flushed + 1) = LastChunk(flushed) + 1 /\ LastChunk(flushed) \in Int
      <4>1. flushed \in 0 .. NumUnits - 1
        BY <1>0, <3>1, UnitCount DEF EngineType
      <4> QED
        BY <1>5, <4>1, BatchBounds, CopyAssumption DEF LastChunk, CopyAssumption
    <3>3. pos' - 1 = LastChunk(flushed)
      BY <3>1, <3>2
    <3> QED
      BY <2>0, <2>1, <3>1, <3>3 DEF BatchInv, Quiet
  <2>3. CASE FlushChunk(u)
    <3>1. /\ pc[u] = "flush" /\ flusher = u /\ flusher' = u /\ pc'[u] = "flushing" /\ pos' = pos
          /\ acked'[Ordered] = acked[Ordered]
          /\ \/ call'[Ordered] = "send" /\ arg'[Ordered] = pos
             \/ call'[Ordered] = "joinPush"
             \/ call'[Ordered] = "idle" /\ ret'[Ordered] = "err"
      BY <1>0, <2>3 DEF FlushChunk, Push, Return, Goto, EngineType, TypeOK, EngineInv, UnitHeld, flushVars
    <3>2. acked[Ordered] = Prefix(pos - 1)
      BY <2>0, <2>1, <3>1
    <3>3. PushingNext(Ordered, pos)'
      BY <3>1, <3>2 DEF PushingNext
    <3> QED
      BY <2>0, <3>1, <3>3 DEF BatchInv
  <2>4. CASE FlushReturn(u)
    <3>1. /\ pc[u] = "flushing" /\ flusher = u /\ call[Ordered] = "idle" /\ ret[Ordered] = "ok"
          /\ UNCHANGED <<call, arg, acked>>
      BY <1>0, <1>5, <2>4 DEF FlushReturn, Throw, EngineInv, UnitHeld, vars, callVars
    <3>2. acked[Ordered] = Prefix(pos)
      BY <2>0, <2>1, <3>1 DEF PushingNext
    <3>3. \/ pos' = pos + 1 /\ flusher' = u /\ pc'[u] = "flush"
          \/ pos = LastChunk(flushed + 1) /\ flushed' = flushed + 1 /\ flusher' = NoThread
      BY <1>0, <1>5, <2>4, <3>1 DEF FlushReturn, Goto, Throw, EngineType
    <3>4. pos' = pos + 1 => pos' - 1 = pos
      BY <1>0, CopyAssumption DEF EngineType, CopyAssumption
    <3>5. Quiet(Ordered)' /\ acked' = acked
      BY <3>1 DEF Quiet
    <3> QED
      BY <2>0, <3>2, <3>3, <3>4, <3>5 DEF BatchInv, LastChunk
  <2>5. CASE ~FlushBatch(u) /\ ~FlushChunk(u) /\ ~FlushReturn(u)
    <3>1. UNCHANGED <<failed, query, flushed, flusher, pos>>
      BY <1>5, <2>0, <2>5 DEF ThreadStep, SinkChunk, PushChunk, SinkReturn, TakeBatch, PrepareBatch,
       Combine, CombineReturn, Stop, LocalDestroy, Throw, engineVars, flushVars
    <3>2. SameView(Ordered)
      <4>1. UNCHANGED vars \/ ClientStep(u)
        BY <1>5, <2>5, PushesBatches DEF ThreadStep, SinkChunk, PushChunk, SinkReturn, TakeBatch, PrepareBatch,
           Combine, CombineReturn, Stop, LocalDestroy, OpenLanceWriter, ClientStep
      <4> QED
        BY <1>0, <2>0, <4>1, OtherView DEF vars, callVars, SameView
    <3>3. flusher # NoThread => pc'[flusher] = pc[flusher]
      <4>1. CASE flusher \in Threads \ {u}
        BY <1>0, <1>5, <4>1, ThreadFrame
      <4>2. CASE flusher = u
        <5>1. pc[u] \in {"flush", "flushing"}
          BY <2>0, <2>1, <4>2
        <5> QED
          BY <1>5, <2>5, <4>2, <5>1 DEF ThreadStep, SinkChunk, PushChunk, SinkReturn, TakeBatch, PrepareBatch,
           Combine, CombineReturn, Stop, LocalDestroy, engineVars
      <4> QED
        BY <1>0, <4>1, <4>2 DEF EngineType
    <3> QED
      BY <1>0, <3>1, <3>2, <3>3, BatchKept
  <2> QED
    BY <2>2, <2>3, <2>4, <2>5
<1> QED
  BY <1>1, <1>3, <1>4, <1>5 DEF CopyNext

\* At finalize no batch is being flushed and the ordered writer has them all.
LEMMA BatchComplete ==
  ASSUME EngineInv, BatchInv, mode = "BATCH", query = "running", ~failed, flushed = NumUnits,
         \A t \in Threads : pc[t] = "combined"
  PROVE  acked[Ordered] = Prefix(NumChunks)
<1>1. flusher \in Threads \cup {NoThread}
  BY DEF EngineInv, EngineType
<1>2. acked[Ordered] = Prefix(LastChunk(flushed))
  BY <1>1 DEF BatchInv
<1> QED
  BY <1>2, BatchEnds

LEMMA FinishingNext ==
  ASSUME Inv, OperationInv, EngineInv, BatchInv, FinishingInv, [CopyNext]_copyVars
  PROVE  FinishingInv'
<1>0. TypeOK /\ [Next]_vars /\ EngineType /\ mode' = mode /\ Ordered \in Writers
  BY CopyStepWrites, PlanKept, CopyWriters DEF Inv, TypeInv, EngineInv, planVars
<1>1. CASE query' # "finishing"
  BY <1>1 DEF FinishingInv
<1>2. CASE query = "finishing" /\ query' = "finishing" /\ pc' = pc /\ SameView(Ordered)
  <2>1. Listed(Ordered) => Listed(Ordered)'
    BY <1>0, ListedKept
  <2> QED
    BY <1>0, <1>2, <2>1 DEF FinishingInv, SameView, Finishing
<1>3. CASE Finalize /\ query' = "finishing"
  <2>1. /\ query = "running" /\ ~failed /\ (\A t \in Threads : pc[t] = "combined") /\ pc' = pc
        /\ sink[Ordered] # "Unopened" /\ (mode = "BATCH" => flushed = NumUnits)
        /\ WriterFinish(Ordered)
    BY <1>3 DEF Finalize
  <2>2. mode = "BATCH"
    BY <2>1 DEF EngineInv, WritersOfMode
  <2>3. acked[Ordered] = Prefix(NumChunks)
    BY <2>1, <2>2, BatchComplete
  <2>4. /\ acked' = acked
        /\ \/ call'[Ordered] = "send" /\ arg'[Ordered] = Finish
           \/ call'[Ordered] = "idle" /\ ret'[Ordered] = "err"
    BY <1>0, <2>1 DEF WriterFinish, Return, TypeOK
  <2> QED
    BY <1>0, <2>1, <2>2, <2>3, <2>4 DEF FinishingInv, Finishing
<1>4. CASE WriteStep
  <2>1. WaitStep /\ UNCHANGED <<query, pc>>
    BY <1>4 DEF WriteStep, WaitStep, engineVars
  <2>2. Finishing(Ordered) => Finishing(Ordered)' /\ acked'[Ordered] = acked[Ordered]
    BY <1>0, <2>1, FinishingKept
  <2> QED
    BY <1>0, <2>1, <2>2 DEF FinishingInv
<1>5. CASE \/ Bind \/ Initialize \/ FinalizeCommit \/ FinalizeReturn \/ FailQuery \/ GlobalDestroy
           \/ Interrupt
  BY <1>1, <1>5 DEF Bind, Initialize, FinalizeCommit, FinalizeReturn, FinishResult, FailQuery,
     GlobalDestroy, Ended, Interrupt, engineVars
<1>6. CASE Terminated \/ UNCHANGED copyVars
  BY <1>1, <1>2, <1>6 DEF Terminated, copyVars, engineVars, vars, callVars, SameView
<1>7. ASSUME NEW u \in Threads, ThreadStep(u), query' = "finishing"
      PROVE  FinishingInv'
  <2>1. query = "finishing"
    BY <1>7 DEF ThreadStep, SinkChunk, PushChunk, SinkReturn, TakeBatch, PrepareBatch,
       FlushBatch, FlushChunk, FlushReturn, Combine, CombineReturn, Stop, LocalDestroy, engineVars
  <2>2. LocalDestroy(u)
    BY <1>7, <2>1 DEF FinishingInv, ThreadStep, SinkChunk, PushChunk, SinkReturn, TakeBatch, PrepareBatch,
       FlushBatch, FlushChunk, FlushReturn, Combine, CombineReturn, Stop
  <2>3. pc' = pc /\ ClientStep(u) /\ u \in Writers /\ u # Ordered
    BY <2>2, CopyWriters DEF LocalDestroy, ClientStep, engineVars
  <2>4. SameView(Ordered)
    BY <1>0, <2>3, OtherView
  <2> QED
    BY <1>2, <1>7, <2>1, <2>3, <2>4
<1> QED
  BY <1>1, <1>3, <1>4, <1>5, <1>6, <1>7 DEF CopyNext, QueryStep

-----------------------------------------------------------------------------
\* A list with one element, once.
LEMMA SingleList ==
  ASSUME NEW S, NEW s \in Seq(S), IsInjective(s), NEW x, Range(s) = {x}
  PROVE  Len(s) = 1 /\ s[1] = x
<1>1. DOMAIN s = 1 .. Len(s) /\ Len(s) \in Nat
  OBVIOUS
<1>2. \A i \in 1 .. Len(s) : s[i] = x
  BY <1>1 DEF Range
<1>3. 1 .. Len(s) # {}
  BY <1>1 DEF Range
<1>4. Len(s) < 2
  <2>1. SUFFICES ASSUME Len(s) >= 2 PROVE FALSE
    BY <1>1
  <2>2. 1 \in DOMAIN s /\ 2 \in DOMAIN s /\ s[1] = s[2]
    BY <1>1, <1>2, <2>1
  <2> QED
    BY <2>2 DEF IsInjective
<1> QED
  BY <1>1, <1>2, <1>3, <1>4

\* A writer that took every chunk in order, alone in the list.
LEMMA OneWriterWhole ==
  ASSUME TypeOK, CommittedWhole, NEW w \in Writers, acked[w] = Prefix(NumChunks),
         NumChunks > 0 => w \in Range(transactions),
         \A v \in Range(transactions) : v = w
  PROVE  WholeQuery(transactions)
<1>1. CASE NumChunks = 0
  <2>1. Batches = {}
    BY <1>1, CopyWriters
  <2> QED
    BY <1>1, <2>1 DEF WholeQuery
<1>2. CASE NumChunks > 0
  <2>1. Range(transactions) = {w}
    BY <1>2
  <2>2. Len(transactions) = 1 /\ transactions[1] = w
    <3>1. transactions \in Seq(Writers) /\ IsInjective(transactions)
      BY DEF CommittedWhole, TypeOK
    <3> QED
      BY <2>1, <3>1, SingleList
  <2>3. Range(acked[w]) = Batches
    BY PrefixFacts, CopyWriters, CopyAssumption DEF CopyAssumption
  <2> QED
    BY <2>1, <2>2, <2>3 DEF WholeQuery
<1> QED
  BY <1>1, <1>2, CopyAssumption DEF CopyAssumption

LEMMA ListedOpened ==
  ASSUME Inv, NEW w \in Range(transactions)
  PROVE  w \in Writers /\ sink[w] # "Unopened"
<1>1. w \in Writers
  BY DEF Inv, TypeInv, TypeOK, Range
<1>2. sink[w] \in {"Finished", "Freed"}
  BY DEF Inv, CommittedWhole
<1> QED
  BY <1>1, <1>2

\* Without an ordered writer, the finished threads have the whole query.
LEMMA FinalizeWhole ==
  ASSUME Inv, OperationInv, EngineInv, \A t \in Threads : ThreadInv(t),
         ParallelInv, RegularInv, BatchInv, Finalize, sink[Ordered] = "Unopened"
  PROVE  WholeQuery(transactions)
<1>0. /\ TypeOK /\ CommittedWhole /\ mode \in {"PARALLEL", "REGULAR", "BATCH"}
      /\ NumChunks \in Nat /\ NumUnits \in Nat /\ next \in Nat /\ Threads # {}
  BY UnitCount, CopyAssumption DEF Inv, TypeInv, EngineInv, EngineType, CopyAssumption
<1>1. /\ query = "running" /\ ~failed /\ (\A t \in Threads : pc[t] = "combined")
      /\ (mode = "BATCH" => flushed = NumUnits)
  BY DEF Finalize
<1>2. merged = <<>>
  BY <1>1 DEF EngineInv, PhaseInv, OperationInv
<1>3. \A t \in Threads : acked[t] # <<>> => t \in Range(transactions)
  <2>1. Range(merged) = {}
    BY <1>2 DEF Range
  <2> QED
    BY <1>1, <2>1, CopyWriters DEF ThreadInv, Listed, EngineInv, WritersOfMode
<1>4. \A w \in Range(transactions) : w \in Threads /\ sink[w] # "Unopened"
  <2>1. \A w \in Range(transactions) : w \in Writers /\ sink[w] # "Unopened"
    BY ListedOpened
  <2> QED
    BY <2>1, CopyAssumption DEF CopyAssumption
<1>5. CASE mode = "PARALLEL"
  <2>1. next - 1 >= NumChunks
    BY <1>0, <1>1, <1>5, UnitCount DEF ParallelInv
  <2>2. ASSUME NEW c \in Batches PROVE \E w \in Range(transactions) : c \in Range(acked[w])
    <3>1. c \in 1 .. next - 1
      BY <1>0, <2>1, <2>2, CopyWriters
    <3>2. PICK t \in Threads : c \in Range(acked[t])
      BY <1>1, <1>5, <3>1 DEF ParallelInv
    <3>3. acked[t] # <<>>
      BY <3>2 DEF Range
    <3> QED
      BY <1>3, <3>2, <3>3
  <2> QED
    BY <1>5, <2>2 DEF WholeQuery, EngineInv, EngineType
<1>6. CASE mode = "REGULAR"
  <2>1. PICK t \in Threads : RunsAlone(t)
    BY <1>1, <1>6 DEF RegularInv
  <2>2. acked[t] = Prefix(NumChunks)
    <3>1. next - 1 = NumChunks
      BY <1>0, <1>1, <1>6, <2>1, UnitCount DEF RunsAlone, EngineInv, EngineType
    <3> QED
      BY <1>1, <2>1, <3>1 DEF RunsAlone
  <2>3. NumChunks > 0 => t \in Range(transactions)
    BY <1>0, <1>3, <2>2, PrefixFacts
  <2>4. \A v \in Range(transactions) : v = t
    BY <1>4, <2>1 DEF RunsAlone
  <2> QED
    BY <1>0, <2>2, <2>3, <2>4, OneWriterWhole, CopyWriters
<1>7. CASE mode = "BATCH"
  <2>1. acked[Ordered] = Prefix(NumChunks) /\ acked[Ordered] = <<>>
    BY <1>1, <1>7, BatchComplete, CopyWriters DEF EngineInv, WritersOfMode
  <2>2. NumChunks = 0
    BY <1>0, <2>1, PrefixFacts
  <2>3. Batches = {}
    BY <2>2, CopyWriters
  <2> QED
    BY <2>2, <2>3 DEF WholeQuery
<1> QED
  BY <1>0, <1>5, <1>6, <1>7

\* With one, the ordered writer has it.
LEMMA FinalizeCommitWhole ==
  ASSUME Inv, OperationInv, EngineInv, FinishingInv, FinalizeCommit, ret[Ordered] = "ok"
  PROVE  WholeQuery(transactions)
<1>0. TypeOK /\ CommittedWhole
  BY DEF Inv, TypeInv
<1>1. query = "finishing" /\ call[Ordered] = "idle"
  BY DEF FinalizeCommit
<1>2. merged = <<>> /\ Range(<<>>) = {}
  BY <1>1 DEF EngineInv, PhaseInv, OperationInv, Range
<1>3. mode = "BATCH" /\ acked[Ordered] = Prefix(NumChunks) /\ Ordered \in Range(transactions)
  BY <1>1, <1>2 DEF FinishingInv, Finishing, Listed
<1>4. \A w \in Range(transactions) : w \in Writers /\ sink[w] # "Unopened"
  BY ListedOpened
<1>5. \A w \in Range(transactions) : w = Ordered
  BY <1>3, <1>4, CopyAssumption DEF CopyAssumption, EngineInv, WritersOfMode
<1> QED
  BY <1>0, <1>3, <1>5, OneWriterWhole, CopyWriters

\* Once taken, it stays what the commit publishes.
LEMMA CommittingKept ==
  ASSUME Inv, CommittingInv, [Next]_vars, ~ConversionFinish, preserveOrder' = preserveOrder
  PROVE  CommittingInv'
<1> DEFINE Taken == stage \in {"empty", "merge", "execute", "index", "done"} \/ DataVersions # {}
<1>0. TypeOK
  BY DEF Inv, TypeInv
<1>1. (Taken' => Taken) /\ merged' = merged
  <2>1. CASE UNCHANGED vars \/ ConversionOpen \/ ConversionDestroy
    BY <2>1 DEF vars, datasetVars, ConversionOpen, ConversionDestroy, DataVersions
  <2>2. CASE CommitStep
    BY <2>2 DEF CommitStep, WriteEmpty, Merge, Execute, BuildIndex, FinishReturn
  <2>3. CASE OtherCommit
    <3>1. DataVersions' = DataVersions
      BY <1>0, <2>3, PublishVersions DEF OtherCommit
    <3> QED
      BY <2>3, <3>1 DEF OtherCommit
  <2>4. ASSUME NEW v \in Writers, AWriterStep(v) PROVE (Taken' => Taken) /\ merged' = merged
    BY <2>4, WriterStepFrame DEF DataVersions
  <2> QED
    BY <2>1, <2>2, <2>3, <2>4 DEF Next, AWriterStep
<1>2. \A w \in Range(merged) : acked'[w] = acked[w]
  <2>1. CASE UNCHANGED vars \/ ADatasetStep
    BY <2>1, DatasetStepFrame DEF vars, callVars
  <2> QED
    BY <2>1, MergedStable DEF Next, ADatasetStep, AWriterStep
<1>3. WholeQuery(merged) => WholeQuery(merged)'
  <2>1. Len(merged) = 1 => merged[1] \in Range(merged)
    BY <1>0 DEF TypeOK, Range
  <2> QED
    BY <1>1, <1>2, <2>1 DEF WholeQuery
<1> QED
  BY <1>1, <1>3 DEF CommittingInv

LEMMA CommittingNext ==
  ASSUME Inv, OperationInv, EngineInv, ChunksInv, [CopyNext]_copyVars
  PROVE  CommittingInv'
<1>0. [Next]_vars /\ preserveOrder' = preserveOrder
  BY CopyStepWrites, PlanKept DEF planVars
<1>1. CASE ~ConversionFinish
  BY <1>0, <1>1, CommittingKept DEF ChunksInv
<1>2. CASE ConversionFinish
  <2>1. merged' = transactions /\ acked' = acked /\ stage = "open" /\ stage' # stage
    BY <1>2 DEF ConversionFinish, callVars
  <2>2. Finalize \/ FinalizeCommit
    <3>1. ASSUME NEW t \in Threads, ThreadStep(t) PROVE stage' = stage
      BY <3>1 DEF ThreadStep, SinkChunk, PushChunk, SinkReturn, TakeBatch, PrepareBatch, FlushBatch,
         FlushChunk, FlushReturn, Combine, CombineReturn, Stop, LocalDestroy, OpenLanceWriter, WriterOpen,
         Push, WriterFinish, WriterDestroy, vars, datasetVars
    <3>2. CASE Bind \/ Initialize \/ FinalizeReturn \/ FailQuery \/ GlobalDestroy
      BY <2>1, <3>2 DEF Bind, Initialize, ConversionOpen, FinalizeReturn, FailQuery, GlobalDestroy,
         ConversionDestroy, WriterDestroy, vars, datasetVars
    <3>3. CASE WriteStep
      <4>1. ~CommitStep /\ ~OtherCommit
        BY <2>1 DEF CommitStep, OtherCommit, WriteEmpty, Merge, Execute, BuildIndex, FinishReturn
      <4> QED
        BY <2>1, <3>3, <4>1, WriterStepFrame DEF WriteStep, AWriterStep
    <3>4. CASE Interrupt \/ Terminated \/ UNCHANGED copyVars
      BY <2>1, <3>4 DEF Interrupt, Terminated, copyVars, vars, datasetVars
    <3> QED
      BY <2>1, <3>1, <3>2, <3>3, <3>4 DEF CopyNext, QueryStep
  <2>3. WholeQuery(transactions)
    <3>1. CASE Finalize
      <4>1. sink[Ordered] = "Unopened"
        BY <2>1, <3>1 DEF Finalize, WriterFinish, datasetVars
      <4> QED
        BY <3>1, <4>1, FinalizeWhole DEF ChunksInv
    <3>2. CASE FinalizeCommit
      <4>1. ret[Ordered] = "ok"
        BY <2>1, <3>2 DEF FinalizeCommit, vars, datasetVars
      <4> QED
        BY <3>2, <4>1, FinalizeCommitWhole DEF ChunksInv
    <3> QED
      BY <2>2, <3>1, <3>2
  <2> QED
    BY <1>0, <2>1, <2>3 DEF CommittingInv, WholeQuery
<1> QED
  BY <1>1, <1>2

LEMMA ChunksInit == ASSUME CopyInit PROVE ChunksInv
<1>1. \A t \in Threads : sink[t] = "Unopened" /\ call[t] = "idle" /\ acked[t] = <<>> /\ pc[t] \in {"idle", "combined"}
  BY CopyWriters DEF CopyInit, Init
<1>2. /\ call[Ordered] = "idle" /\ acked[Ordered] = <<>> /\ next = 1 /\ flusher = NoThread /\ flushed = 0
      /\ query = "planned" /\ stage = "unopened"
  BY CopyWriters DEF CopyInit, Init
<1>3. \A t \in Threads : ThreadInv(t)
  BY <1>1 DEF ThreadInv, Quiet
<1>4. mode = "PARALLEL" => \A t \in Threads : pc[t] = "idle"
  BY DEF CopyInit
<1>5. ParallelInv
  <2>1. 1 .. next - 1 = {}
    BY <1>2
  <2> QED
    BY <1>4, <2>1 DEF ParallelInv
<1>6. RegularInv
  <2>1. SUFFICES ASSUME mode = "REGULAR" PROVE \E t \in Threads : RunsAlone(t)
    BY DEF RegularInv
  <2>2. PICK t \in Threads : pc = [u \in Threads |-> IF u \in {t} THEN "idle" ELSE "combined"]
    BY <2>1 DEF CopyInit
  <2>3. pc[t] = "idle" /\ \A u \in Threads \ {t} : pc[u] = "combined"
    BY <2>2
  <2>4. Prefix(next - 1) = <<>>
    <3>1. next - 1 = 0
      BY <1>2
    <3> QED
      BY <3>1, PrefixFacts
  <2> QED
    BY <1>1, <2>3, <2>4 DEF RunsAlone
<1>7. BatchInv
  <2>1. mode = "BATCH" => Prefix(LastChunk(flushed)) = <<>>
    BY <1>2, BatchEnds, PrefixFacts
  <2> QED
    BY <1>2, <2>1 DEF BatchInv, Quiet
<1>8. FinishingInv
  BY <1>2 DEF FinishingInv
<1>9. CommittingInv
  BY <1>2, VersionsInit DEF CopyInit, CommittingInv, VersionsInv, NoVersionYet
<1> QED
  BY <1>3, <1>5, <1>6, <1>7, <1>8, <1>9 DEF ChunksInv

LEMMA ChunksNext ==
  ASSUME Inv, OperationInv, EngineInv, ChunksInv, [CopyNext]_copyVars
  PROVE  ChunksInv'
<1>1. \A t \in Threads : ThreadInv(t)'
  BY ThreadInvNext DEF ChunksInv
<1>2. ParallelInv' /\ RegularInv' /\ BatchInv' /\ FinishingInv'
  BY ParallelNext, RegularNext, BatchNext, FinishingNext DEF ChunksInv
<1>3. CommittingInv'
  BY CommittingNext
<1> QED
  BY <1>1, <1>2, <1>3 DEF ChunksInv

LEMMA ChunksHold == CopySpec => []ChunksInv
<1>1. CopyInit => ChunksInv
  BY ChunksInit
<1>2. WriteInv /\ EngineInv /\ ChunksInv /\ [CopyNext]_copyVars => ChunksInv'
  BY ChunksNext DEF WriteInv
<1> QED
  BY <1>1, <1>2, CopyInvHolds, PTL DEF CopySpec

\* No reader ever sees part of a COPY: a version with its data holds every
\* chunk of the query, whichever threads sank them and whatever failed.
THEOREM CopyNeverPartial == CopySpec => []NeverPartial
<1>1. WriteInv /\ ChunksInv => NeverPartial
  <2>1. SUFFICES ASSUME WriteInv, ChunksInv, NEW d \in DataVersions
                 PROVE  Batches \subseteq log[d].rows
    BY DEF NeverPartial
  <2>2. Batches \subseteq AckedRows
    BY <2>1 DEF ChunksInv, CommittingInv, WholeQuery, AckedRows
  <2>3. log[d].rows \cap Batches = AckedRows
    BY <2>1 DEF WriteInv, VersionsInv, NoVersionYet, OneDataVersion
  <2> QED
    BY <2>2, <2>3
<1> QED
  BY <1>1, ChunksHold, CopyInvHolds, PTL

\* With order preserved, one writer has all chunks, in source order.
THEOREM CopyKeepsOrder == CopySpec => []OrderPreserved
<1>1. WriteInv /\ ChunksInv => OrderPreserved
  <2>1. SUFFICES ASSUME WriteInv, ChunksInv, preserveOrder, DataVersions # {}, NumChunks > 0
                 PROVE  Len(merged) = 1 /\ taken[merged[1]] = Prefix(NumChunks)
    BY DEF OrderPreserved, Prefix
  <2>2. Len(merged) = 1 /\ acked[merged[1]] = Prefix(NumChunks)
    BY <2>1 DEF ChunksInv, CommittingInv, WholeQuery
  <2>3. merged[1] \in Range(merged)
    BY <2>1, <2>2 DEF WriteInv, Inv, TypeInv, TypeOK, Range
  <2>4. taken[merged[1]] = acked[merged[1]]
    BY <2>1, <2>3 DEF WriteInv, Inv, CommittedWhole
  <2> QED
    BY <2>2, <2>4
<1> QED
  BY <1>1, ChunksHold, CopyInvHolds, PTL

-----------------------------------------------------------------------------
(***************************************************************************)
(* A COPY implements AtomicCopy: its initial states map to initial states, *)
(* and every step to a step of it or to a stutter.                         *)
(***************************************************************************)

\* Only a write in append mode appends.
AppendsInv ==
  /\ \A w \in Writers : op[w] = "Append" => Mode = "append"
  /\ mergedOp = "Append" => Mode = "append"

LEMMA AppendsNext ==
  ASSUME Inv, AppendsInv, [Next]_vars
  PROVE  AppendsInv'
<1> USE DEF AppendsInv
<1>0. TypeOK /\ (stage = "merge" => merged # <<>>)
  BY DEF Inv, TypeInv
<1>1. CASE UNCHANGED <<op, mergedOp>>
  BY <1>1
<1>2. CASE Merge
  <2>1. merged[1] \in Writers
    BY <1>0, <1>2 DEF Merge, TypeOK
  <2> QED
    BY <1>2, <2>1 DEF Merge, taskVars
<1>3. CASE WriteEmpty
  BY <1>3 DEF WriteEmpty, Operation, ParamsMode, taskVars
<1>4. CASE ADatasetStep /\ ~Merge /\ ~WriteEmpty
  BY <1>1, <1>4 DEF ADatasetStep, ConversionOpen, ConversionFinish, ConversionDestroy, CommitStep, OtherCommit,
     Execute, BuildIndex, FinishReturn, taskVars
<1>5. ASSUME NEW v \in Writers, Resolve(v)
      PROVE  AppendsInv'
  <2>1. /\ mergedOp' = mergedOp
        /\ op' = op \/ op' = [op EXCEPT ![v] = Operation(Exists)]
    BY <1>5 DEF Resolve, datasetVars
  <2>2. Operation(Exists) = "Append" => Mode = "append"
    BY DEF Operation, ParamsMode
  <2> QED
    BY <1>0, <2>1, <2>2 DEF TypeOK
<1>6. ASSUME NEW v \in Writers, AWriterStep(v), ~Resolve(v)
      PROVE  AppendsInv'
  BY <1>1, <1>6 DEF AWriterStep, ClientStep, CallStep, WorkerStep, WorkerFault, WriterOpen, Push, WriterFinish,
     WriterDestroy, Send, SendClosed, JoinFinish, JoinPush, JoinDestroy, ReceiveBatch, ReceiveFinish,
     ReceiveClosed, Flush, WorkerFail, WorkerStop, datasetVars, taskVars
<1> QED
  BY <1>1, <1>2, <1>3, <1>4, <1>5, <1>6 DEF Next, ADatasetStep, AWriterStep, vars, datasetVars, taskVars

LEMMA AppendsHold == Spec => []AppendsInv
<1>1. Init => AppendsInv
  BY DEF Init, AppendsInv
<1>2. Inv /\ AppendsInv /\ [Next]_vars => AppendsInv'
  BY AppendsNext
<1> QED
  BY <1>1, <1>2, InvHolds, PTL DEF Spec

OutcomeOf(ended, q, versions, s) ==
  IF ended THEN q
  ELSE IF versions # {} THEN "published"
  ELSE IF s = "unopened" THEN "pending" ELSE "running"

LEMMA OutcomeIs ==
  /\ Outcome = OutcomeOf(Ended, query, DataVersions, stage)
  /\ Outcome' = OutcomeOf(Ended', query', DataVersions', stage')
<1>1. Outcome = OutcomeOf(Ended, query, DataVersions, stage)
  BY DEF Outcome, OutcomeOf
<1>2. Outcome' = OutcomeOf(Ended', query', DataVersions', stage')
  BY DEF Outcome, OutcomeOf
<1> QED
  BY <1>1, <1>2

LEMMA RefineInit == ASSUME CopyInit PROVE Abstract!Init
<1>1. DataVersions = {} /\ stage = "unopened" /\ ~Ended /\ loaded = FALSE
  BY VersionsInit DEF CopyInit, Init, VersionsInv, NoVersionYet, Ended
<1>2. Outcome = "pending"
  BY <1>1, OutcomeIs DEF OutcomeOf
<1>3. (log # <<>>) \in BOOLEAN /\ Latest \in SUBSET Foreign /\ (~(log # <<>>) => Latest = {})
  <2>1. CASE log = <<>>
    BY <2>1 DEF Latest
  <2>2. ASSUME NEW r \in SUBSET Foreign, log = <<[by |-> "other", rows |-> r]>>
        PROVE  log # <<>> /\ Latest = r
    <3>1. Len(log) = 1 /\ log[1].rows = r
      BY <2>2
    <3> QED
      BY <3>1 DEF Latest
  <2> QED
    BY <2>1, <2>2 DEF CopyInit, Init
<1> QED
  BY <1>1, <1>2, <1>3 DEF Abstract!Init

\* The step that makes the rows visible.
LEMMA RefineExecute ==
  ASSUME WriteInv, AppendsInv, EngineInv, ChunksInv, Execute, UNCHANGED engineVars
  PROVE  [Abstract!Next]_(Abstract!vars)
<1>0. TypeOK /\ stage = "execute" /\ loaded' = loaded
  BY DEF WriteInv, Inv, TypeInv, Execute
<1>1. ~Ended /\ ~Ended'
  <2>1. query = "committing" /\ query' = query
    BY <1>0 DEF EngineInv, PhaseInv, engineVars
  <2> QED
    BY <2>1 DEF Ended
<1>2. DataVersions = {}
  BY <1>0 DEF WriteInv, VersionsInv, NoVersionYet
<1>3. Outcome = "running"
  BY <1>0, <1>1, <1>2, OutcomeIs DEF OutcomeOf
<1>4. MergedRows = Batches
  BY <1>0, MergedAcked DEF WriteInv, ChunksInv, CommittingInv, WholeQuery, AckedRows
<1>5. CASE log' = log /\ stage' = "failed"
  <2>1. DataVersions' = {} /\ Latest' = Latest
    BY <1>2, <1>5 DEF DataVersions, Latest
  <2>2. Outcome' = "running"
    BY <1>1, <1>5, <2>1, OutcomeIs DEF OutcomeOf
  <2> QED
    BY <1>0, <1>3, <1>5, <2>1, <2>2 DEF Abstract!vars
<1>6. ASSUME Publish("data", IF mergedOp = "Append" THEN Latest \cup MergedRows ELSE MergedRows)
      PROVE  Abstract!PublishAll
  <2>1. log' # <<>> /\ Latest' = IF mergedOp = "Append" THEN Latest \cup Batches ELSE Batches
    BY <1>0, <1>4, <1>6, PublishLatest
  <2>2. DataVersions' # {}
    BY <1>0, <1>6, PublishVersions
  <2>3. Outcome' = "published"
    BY <1>1, <2>2, OutcomeIs DEF OutcomeOf
  <2>4. Mode = "create" => ~loaded
    BY <1>0 DEF WriteInv, DestinationInv, NothingWritten
  <2>5. Mode = "append" /\ loaded => mergedOp = "Append"
    BY <1>0 DEF WriteInv, DestinationInv
  <2>6. mergedOp = "Append" => Mode = "append"
    BY DEF AppendsInv
  <2> QED
    BY <1>0, <1>3, <2>1, <2>3, <2>4, <2>5, <2>6 DEF Abstract!PublishAll
<1> QED
  BY <1>5, <1>6 DEF Execute, Abstract!Next

\* Nothing else the engine or the write does changes the rows of the query.
LEMMA RefineStutter ==
  ASSUME UNCHANGED <<log, loaded>>, Outcome' = Outcome
  PROVE  [Abstract!Next]_(Abstract!vars)
BY DEF Abstract!vars, Latest

LEMMA RefineFail ==
  ASSUME UNCHANGED <<log, loaded>>, ~Ended, query' = "error"
  PROVE  [Abstract!Next]_(Abstract!vars)
<1>1. Outcome \in {"pending", "running", "published"} /\ Outcome' = "error"
  BY OutcomeIs DEF OutcomeOf, Ended
<1>2. Latest' = Latest
  BY DEF Latest
<1> QED
  BY <1>1, <1>2 DEF Abstract!Next, Abstract!Fail

LEMMA RefineQuery ==
  ASSUME WriteInv, EngineInv, QueryStep
  PROVE  [Abstract!Next]_(Abstract!vars)
<1>0. PhaseInv
  BY DEF EngineInv
<1>1. CASE Bind
  <2>1. UNCHANGED <<log, loaded, stage>> /\ query = "planned" /\ query' \in {"error", "bound"}
    BY <1>1 DEF Bind, vars, datasetVars
  <2>2. DataVersions' = DataVersions
    BY <2>1 DEF DataVersions
  <2>3. query' = "bound" => Outcome' = Outcome
    BY <2>1, <2>2, OutcomeIs DEF OutcomeOf, Ended
  <2>4. ~Ended
    BY <2>1 DEF Ended
  <2> QED
    BY <2>1, <2>3, <2>4, RefineStutter, RefineFail
<1>2. CASE Initialize
  <2>1. /\ log' = log /\ query = "bound" /\ stage = "unopened"
        /\ \/ query' = "running" /\ stage' = "open" /\ loaded' = (log # <<>>)
           \/ query' = "error" /\ loaded' = loaded
    BY <1>2 DEF Initialize, ConversionOpen
  <2>2. DataVersions = {} /\ DataVersions' = DataVersions /\ Latest' = Latest /\ ~Ended
    BY <2>1 DEF WriteInv, VersionsInv, NoVersionYet, DataVersions, Latest, Ended
  <2>3. CASE query' = "error"
    BY <2>1, <2>2, <2>3, RefineFail
  <2>4. CASE query' = "running" /\ stage' = "open" /\ loaded' = (log # <<>>)
    <3>1. Outcome = "pending" /\ Outcome' = "running"
      BY <2>1, <2>2, <2>4, OutcomeIs DEF OutcomeOf, Ended
    <3> QED
      BY <2>1, <2>2, <2>4, <3>1 DEF Abstract!Next, Abstract!Open
  <2> QED
    BY <2>1, <2>3, <2>4
<1>3. CASE Finalize \/ FinalizeCommit
  <2>1. UNCHANGED <<log, loaded>> /\ query \in {"running", "finishing"} /\ stage = "open"
    BY <1>0, <1>3 DEF PhaseInv, Finalize, FinalizeCommit, ConversionFinish, WriterFinish, vars, datasetVars
  <2>2. query' = "error" \/ (query' \in {"finishing", "committing"} /\ stage' # "unopened")
    BY <1>3, <2>1 DEF Finalize, FinalizeCommit, ConversionFinish, WriterFinish, vars, datasetVars
  <2>3. DataVersions' = DataVersions /\ ~Ended
    BY <2>1 DEF DataVersions, Ended
  <2>4. query' # "error" => Outcome' = Outcome
    BY <2>1, <2>2, <2>3, OutcomeIs DEF OutcomeOf, Ended
  <2> QED
    BY <2>1, <2>3, <2>4, RefineStutter, RefineFail
<1>4. CASE FinalizeReturn
  <2>1. /\ UNCHANGED <<log, loaded>> /\ query = "committing" /\ query' \in {"success", "error"}
        /\ query' = "success" => stage = "done"
    BY <1>4 DEF FinalizeReturn, FinishResult, vars, datasetVars
  <2>2. ~Ended /\ Latest' = Latest
    BY <2>1 DEF Ended, Latest
  <2>3. CASE query' = "success"
    <3>1. DataVersions # {}
      BY <2>1, <2>3 DEF WriteInv, VersionsInv, OneDataVersion
    <3>2. Outcome = "published" /\ Outcome' = "success"
      BY <2>2, <2>3, <3>1, OutcomeIs DEF OutcomeOf, Ended
    <3> QED
      BY <2>1, <2>2, <3>2 DEF Abstract!Next, Abstract!Succeed
  <2> QED
    BY <2>1, <2>2, <2>3, RefineFail
<1>5. CASE FailQuery
  BY <1>5, RefineFail DEF FailQuery, Ended, vars, datasetVars
<1>6. CASE GlobalDestroy
  <2>1. UNCHANGED <<log, loaded, query>> /\ Ended
    BY <1>6 DEF GlobalDestroy, WriterDestroy, ConversionDestroy, engineVars, datasetVars
  <2>2. Outcome' = Outcome
    BY <2>1, OutcomeIs DEF OutcomeOf, Ended
  <2> QED
    BY <2>1, <2>2, RefineStutter
<1> QED
  BY <1>1, <1>2, <1>3, <1>4, <1>5, <1>6 DEF QueryStep

LEMMA RefineStep ==
  ASSUME WriteInv, AppendsInv, EngineInv, ChunksInv, [CopyNext]_copyVars
  PROVE  [Abstract!Next]_(Abstract!vars)
<1>0. TypeOK /\ PhaseInv
  BY DEF WriteInv, Inv, TypeInv, EngineInv
<1>1. CASE UNCHANGED <<log, loaded, stage, query>>
  <2>1. Outcome' = Outcome
    BY <1>1, OutcomeIs DEF OutcomeOf, DataVersions, Ended
  <2> QED
    BY <1>1, <2>1, RefineStutter
<1>2. CASE QueryStep
  BY <1>2, RefineQuery
<1>3. CASE Interrupt \/ Terminated \/ UNCHANGED copyVars
  BY <1>1, <1>3 DEF Interrupt, Terminated, copyVars, vars, datasetVars, engineVars
<1>4. ASSUME NEW t \in Threads, ThreadStep(t)
      PROVE  [Abstract!Next]_(Abstract!vars)
  <2>1. UNCHANGED <<log, loaded, stage, query>>
    BY <1>4 DEF ThreadStep, SinkChunk, PushChunk, SinkReturn, TakeBatch, PrepareBatch, FlushBatch,
       FlushChunk, FlushReturn, Combine, CombineReturn, Stop, LocalDestroy, OpenLanceWriter, WriterOpen,
       Push, WriterFinish, WriterDestroy, vars, datasetVars, engineVars
  <2> QED
    BY <1>1, <2>1
<1>5. CASE WriteStep
  <2>0. UNCHANGED engineVars /\ query' = query /\ (Ended' <=> Ended)
    BY <1>5 DEF WriteStep, engineVars, Ended
  <2>1. CASE Execute
    BY <2>0, <2>1, RefineExecute
  <2>2. CASE BuildIndex
    <3>1. /\ stage = "index" /\ stage' \in {"index", "failed"} /\ loaded' = loaded
          /\ log' = log \/ Publish("index", Latest)
      BY <2>2 DEF BuildIndex
    <3>2. DataVersions # {} /\ log # <<>>
      <4>1. PICK d \in 1 .. Len(log) : DataVersions = {d}
        BY <3>1 DEF WriteInv, VersionsInv, OneDataVersion
      <4>2. Len(<<>>) = 0
        OBVIOUS
      <4> QED
        BY <4>1, <4>2
    <3>3. DataVersions' = DataVersions /\ log' # <<>> /\ Latest' = Latest
      <4>1. CASE log' = log
        BY <3>2, <4>1 DEF DataVersions, Latest
      <4>2. CASE Publish("index", Latest)
        BY <1>0, <4>2, PublishVersions, PublishLatest
      <4> QED
        BY <3>1, <4>1, <4>2
    <3>4. Outcome' = Outcome
      BY <2>0, <3>2, <3>3, OutcomeIs DEF OutcomeOf
    <3> QED
      BY <3>1, <3>2, <3>3, <3>4 DEF Abstract!vars
  <2>3. CASE WriteEmpty \/ Merge \/ FinishReturn
    <3>1. UNCHANGED <<log, loaded>> /\ stage # "unopened" /\ stage' # "unopened"
      BY <2>3 DEF WriteEmpty, Merge, FinishReturn
    <3>2. Outcome' = Outcome
      BY <2>0, <3>1, OutcomeIs DEF OutcomeOf, DataVersions
    <3> QED
      BY <3>1, <3>2, RefineStutter
  <2>4. CASE OtherCommit
    <3>1. PICK r \in Foreign : Publish("other", Latest \cup {r})
      BY <2>4 DEF OtherCommit
    <3>2. log' # <<>> /\ Latest' = Latest \cup {r} /\ DataVersions' = DataVersions
      BY <1>0, <3>1, PublishLatest, PublishVersions
    <3>3. Outcome' = Outcome
      BY <2>0, <2>4, <3>2, OutcomeIs DEF OutcomeOf, OtherCommit
    <3> QED
      BY <2>4, <3>2, <3>3 DEF OtherCommit, Abstract!Next, Abstract!OtherCommit
  <2>5. ASSUME NEW v \in Writers, CallStep(v) \/ WorkerStep(v) \/ WorkerFault(v)
        PROVE  [Abstract!Next]_(Abstract!vars)
    BY <1>1, <2>0, <2>5, WriterStepFrame DEF AWriterStep
  <2> QED
    BY <1>5, <2>1, <2>2, <2>3, <2>4, <2>5 DEF WriteStep, CommitStep
<1> QED
  BY <1>2, <1>3, <1>4, <1>5 DEF CopyNext

\* Every behaviour of a COPY is one of AtomicCopy: the rows of the query become
\* visible in one step or never, and success is reported only after that.
THEOREM CopyIsAtomic == CopySpec => ImplementsAtomicCopy
<1>1. CopyInit => Abstract!Init
  BY RefineInit
<1>2. WriteInv /\ AppendsInv /\ EngineInv /\ ChunksInv /\ [CopyNext]_copyVars
        => [Abstract!Next]_(Abstract!vars)
  BY RefineStep
<1> QED
  BY <1>1, <1>2, CopyIsWrite, AppendsHold, CopyInvHolds, ChunksHold, PTL
     DEF CopySpec, ImplementsAtomicCopy, Abstract!Spec
=============================================================================
