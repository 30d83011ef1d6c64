--------------------------- MODULE ReadAheadProofs --------------------------
(***************************************************************************)
(* Theorems about ReadAhead, for every number and size of row groups and   *)
(* batches, every budget and every parallelism.                            *)
(***************************************************************************)
EXTENDS ReadAhead, MergedStreamsProofs

TaskStates == {"none", "inline", "reading", "reserving", "ended", "panicked", "aborted"}
-----------------------------------------------------------------------------
(***************************************************************************)
(* The permits of a queue.                                                 *)
(***************************************************************************)
PermitsOf(q) == [i \in DOMAIN q |-> q[i].permits]

LEMMA SumIsTotal == \A f : SumFunction(f) = Total(f, DOMAIN f)
  BY DEF SumFunction, SumFunctionOnSet, Total

LEMMA PermitsType ==
  ASSUME NEW q \in Seq(Item)
  PROVE  /\ DOMAIN PermitsOf(q) = 1 .. Len(q) /\ Len(q) \in Nat
         /\ \A i \in 1 .. Len(q) : PermitsOf(q)[i] = q[i].permits /\ PermitsOf(q)[i] \in Nat
<1>1. \A i \in 1 .. Len(q) : q[i] \in Item
  OBVIOUS
<1>2. \A item \in Item : item.permits \in Nat
  BY DEF Item
<1>3. DOMAIN PermitsOf(q) = 1 .. Len(q)
  BY DEF PermitsOf
<1>4. \A i \in 1 .. Len(q) : PermitsOf(q)[i] = q[i].permits
  BY DEF PermitsOf
<1> QED BY <1>1, <1>2, <1>3, <1>4

LEMMA PermitsEmpty == SumFunction(PermitsOf(<<>>)) = 0
<1>1. DOMAIN PermitsOf(<<>>) = {}
  BY DEF PermitsOf
<1> QED BY <1>1, SumIsTotal, TotalEmpty

LEMMA PermitsNat ==
  ASSUME NEW q \in Seq(Item)
  PROVE  SumFunction(PermitsOf(q)) \in Nat
<1>1. DOMAIN PermitsOf(q) = 1 .. Len(q) /\ IsFiniteSet(1 .. Len(q))
  BY PermitsType, FS_Interval
<1>2. \A i \in 1 .. Len(q) : PermitsOf(q)[i] \in Nat
  BY PermitsType
<1> QED BY <1>1, <1>2, SumIsTotal, TotalBounds

LEMMA PermitsAppend ==
  ASSUME NEW q \in Seq(Item), NEW item \in Item
  PROVE  SumFunction(PermitsOf(Append(q, item))) = SumFunction(PermitsOf(q)) + item.permits
<1> DEFINE n == Len(q)
           f == PermitsOf(q)
           h == PermitsOf(Append(q, item))
<1>1. n \in Nat /\ DOMAIN f = 1 .. n /\ DOMAIN h = 1 .. n + 1
  BY DEF PermitsOf
<1>2. \A i \in 1 .. n : f[i] = h[i]
  BY DEF PermitsOf
<1>3. h[n + 1] = item.permits
  BY DEF PermitsOf
<1>4. \A i \in 1 .. n + 1 : h[i] \in Int
  <2>1. \A i \in 1 .. n : f[i] \in Int
    BY PermitsType
  <2>2. item.permits \in Int
    BY DEF Item
  <2> QED BY <1>1, <1>2, <1>3, <2>1, <2>2
<1>5. Total(h, 1 .. n + 1) = Total(f, 1 .. n) + h[n + 1]
  <2> HIDE DEF f, h, n
  <2> QED BY <1>1, <1>2, <1>4, TotalAppend
<1> QED BY <1>1, <1>3, <1>5, SumIsTotal

LEMMA PermitsTail ==
  ASSUME NEW q \in Seq(Item), q # <<>>
  PROVE  SumFunction(PermitsOf(q)) = Head(q).permits + SumFunction(PermitsOf(Tail(q)))
<1> DEFINE n == Len(q) - 1
           f == PermitsOf(q)
           h == PermitsOf(Tail(q))
<1>1. n \in Nat /\ DOMAIN f = 1 .. n + 1 /\ DOMAIN h = 1 .. n
  BY DEF PermitsOf
<1>2. \A i \in 1 .. n : h[i] = f[i + 1]
  BY DEF PermitsOf
<1>3. f[1] = Head(q).permits
  BY DEF PermitsOf
<1>4. \A i \in 1 .. n + 1 : f[i] \in Int
  BY PermitsType
<1>5. Total(f, 1 .. n + 1) = f[1] + Total(h, 1 .. n)
  <2> HIDE DEF f, h, n
  <2> QED BY <1>1, <1>2, <1>4, TotalHead
<1> QED BY <1>1, <1>3, <1>5, SumIsTotal

\* A reservation is within the budget, and covers the batch unless it takes
\* all of it.
LEMMA ReservedBounds ==
  ASSUME readAheadBytes \in Nat, NEW size \in Nat
  PROVE  /\ Capacity \in Nat \ {0}
         /\ Reserved(size) \in Nat /\ 1 <= Reserved(size) /\ Reserved(size) <= Capacity
         /\ Reserved(size) < Capacity => size <= Reserved(size)
         /\ readAheadBytes > 0 => Capacity <= readAheadBytes
BY ReadAssumption DEF Capacity, Reserved, Least, Greatest
-----------------------------------------------------------------------------
(***************************************************************************)
(* The invariant of a row group.                                           *)
(***************************************************************************)
ReadBase ==
  /\ readAheadBytes \in ReadAheadSizes
  /\ task \in [Streams -> TaskStates]
  /\ decoded \in [Streams -> Nat]
  /\ permits \in [Streams -> Nat]
  /\ channel \in [Streams -> Seq(Item)]
  /\ output \in Seq(Streams \X (Nat \ {0}))

\* The last thing queued is an error; what is queued ahead of it; what was
\* queued so far; and what of that the consumer took.
Failing(g) == channel[g] # <<>> /\ channel[g][Len(channel[g])] = Error
Whole(g)   == IF Failing(g) THEN Len(channel[g]) - 1 ELSE Len(channel[g])
Sent(g)    == IF task[g] = "reserving" THEN decoded[g] - 1 ELSE decoded[g]
Taken(g)   == Sent(g) - Whole(g)

\* The queue holds the batches from the one the consumer takes next, each with
\* its reservation, and perhaps an error behind them.
QueueInv(g) ==
  /\ Taken(g) \in Nat
  /\ \A i \in 1 .. Whole(g) :
       channel[g][i] = [batch   |-> Taken(g) + i,
                        permits |-> Reserved(Sizes[g][Taken(g) + i])]
  /\ Failing(g) => task[g] = "ended"
  /\ task[g] \in {"none", "inline"} => channel[g] = <<>>
  /\ \A b : <<g, b>> \in Range(output) <=> b \in 1 .. Taken(g)

\* A row group is opened when it is pulled, and leaves the merge when all of it
\* was decoded and taken.
StageInv(g) ==
  /\ task[g] # "aborted"
  /\ pulled < g => task[g] = "none" /\ decoded[g] = 0
  /\ g <= pulled => task[g] # "none"
  /\ g \notin InFlight => channel[g] = <<>> /\ ~Alive(g)
  /\ consumer # "failed" /\ task[g] = "ended" /\ ~Failing(g) => decoded[g] = Len(Sizes[g])
  /\ consumer # "failed" /\ g \notin InFlight /\ g <= pulled =>
       task[g] \in {"ended", "inline"} /\ decoded[g] = Len(Sizes[g])

PartInv(g) ==
  /\ decoded[g] \in 0 .. Len(Sizes[g])
  /\ task[g] = "reserving" => decoded[g] >= 1
  /\ permits[g] + Queued(g) = Capacity
  /\ readAheadBytes = 0 => ~Alive(g) /\ Whole(g) = 0
  /\ IF consumer = "dropped" THEN channel[g] = <<>> ELSE QueueInv(g) /\ StageInv(g)

\* A batch is received after those before it.
OrderInv ==
  \A i, j \in DOMAIN output :
    i < j /\ output[i][1] = output[j][1] => output[i][2] < output[j][2]

ReadInv ==
  /\ MergeInv /\ ReadBase /\ OrderInv
  /\ \A g \in Streams : PartInv(g)

LEMMA QueuedIs == \A g : Queued(g) = SumFunction(PermitsOf(channel[g]))
  BY DEF Queued, PermitsOf

\* A step that leaves a row group alone.
LEMMA PartFrame ==
  ASSUME NEW h \in Streams, PartInv(h), consumer # "dropped", consumer' # "dropped",
         UNCHANGED <<readAheadBytes, task[h], decoded[h], permits[h], channel[h]>>,
         (h \in InFlight') = (h \in InFlight),
         (h <= pulled') = (h <= pulled), (pulled' < h) = (pulled < h),
         \A b : <<h, b>> \in Range(output') <=> <<h, b>> \in Range(output),
         consumer = "failed" => consumer' = "failed"
  PROVE  PartInv(h)'
<1>1. /\ Failing(h)' = Failing(h) /\ Whole(h)' = Whole(h) /\ Sent(h)' = Sent(h)
      /\ Queued(h)' = Queued(h) /\ Capacity' = Capacity /\ Alive(h)' = Alive(h)
      /\ \A size : Reserved(size)' = Reserved(size)
  BY DEF Failing, Whole, Sent, Queued, Capacity, Alive, Reserved
<1>2. Taken(h)' = Taken(h)
  BY <1>1 DEF Taken
<1>3. QueueInv(h)'
  BY <1>1, <1>2 DEF PartInv, QueueInv
<1>4. StageInv(h)'
  BY <1>1 DEF PartInv, StageInv
<1> QED BY <1>1, <1>3, <1>4 DEF PartInv

\* A step of a task, once the stream is dropped.
LEMMA DroppedFrame ==
  ASSUME NEW h \in Streams, PartInv(h), consumer = "dropped", consumer' = "dropped",
         UNCHANGED <<readAheadBytes, permits[h], channel[h]>>,
         decoded'[h] \in 0 .. Len(Sizes[h]),
         task'[h] = "reserving" => decoded'[h] >= 1,
         Alive(h)' => Alive(h)
  PROVE  PartInv(h)'
<1>1. /\ Queued(h)' = Queued(h) /\ Capacity' = Capacity /\ Failing(h)' = Failing(h)
      /\ Whole(h)' = Whole(h)
  BY DEF Queued, Capacity, Failing, Whole
<1> QED BY <1>1 DEF PartInv

-----------------------------------------------------------------------------
(***************************************************************************)
(* The steps of a task.                                                    *)
(***************************************************************************)
LEMMA TypeFacts ==
  ASSUME ReadInv
  PROVE  /\ readAheadBytes \in Nat /\ pulled \in Nat
         /\ Capacity \in Nat \ {0} /\ Capacity <= MaxPermits
         /\ \A g \in Streams :
              /\ g \in Nat \ {0} /\ Len(Sizes[g]) \in Nat /\ Sizes[g] \in Seq(Nat)
              /\ task[g] \in TaskStates /\ decoded[g] \in Nat /\ permits[g] \in Nat
              /\ channel[g] \in Seq(Item) /\ Len(channel[g]) \in Nat
              /\ Whole(g) \in Nat /\ Whole(g) <= Len(channel[g])
<1>1. readAheadBytes \in Nat /\ pulled \in Nat
  BY ReadAssumption, MergeAssumption DEF ReadInv, ReadBase, MergeInv, MergeTypeOK
<1>2. Capacity \in Nat \ {0} /\ Capacity <= MaxPermits
  BY <1>1, ReadAssumption DEF Capacity, Least, Greatest
<1>3. ASSUME NEW g \in Streams
      PROVE  /\ g \in Nat \ {0} /\ Len(Sizes[g]) \in Nat /\ Sizes[g] \in Seq(Nat)
             /\ task[g] \in TaskStates /\ decoded[g] \in Nat /\ permits[g] \in Nat
             /\ channel[g] \in Seq(Item) /\ Len(channel[g]) \in Nat
  <2>1. Sizes[g] \in Seq(Nat)
    BY ReadAssumption
  <2>2. g \in Nat \ {0}
    BY MergeAssumption DEF Streams
  <2>3. channel[g] \in Seq(Item)
    BY DEF ReadInv, ReadBase
  <2> QED BY <2>1, <2>2, <2>3 DEF ReadInv, ReadBase
<1>4. ASSUME NEW g \in Streams PROVE Whole(g) \in Nat /\ Whole(g) <= Len(channel[g])
  <2>1. channel[g] # <<>> => Len(channel[g]) >= 1
    BY <1>3
  <2> QED BY <1>3, <2>1 DEF Whole, Failing
<1> QED BY <1>1, <1>2, <1>3, <1>4

\* What is left to show of a step of the task of row group g.
LEMMA TaskFrame ==
  ASSUME ReadInv, ReadBase', NEW g \in Streams,
         UNCHANGED <<mergeVars, readAheadBytes>>,
         \A h \in Streams \ {g} : UNCHANGED <<task[h], decoded[h], permits[h], channel[h]>>,
         consumer # "dropped" => PartInv(g)',
         consumer = "dropped" => /\ UNCHANGED <<permits[g], channel[g]>>
                                 /\ decoded'[g] \in 0 .. Len(Sizes[g])
                                 /\ task'[g] = "reserving" => decoded'[g] >= 1
                                 /\ Alive(g)' => Alive(g)
  PROVE  ReadInv'
<1>1. MergeInv'
  BY MergeStepInv DEF ReadInv, MergeAct
<1>2. OrderInv'
  BY DEF ReadInv, OrderInv, mergeVars
<1>3. InFlight' = InFlight /\ UNCHANGED <<pulled, output, consumer>>
  BY DEF InFlight, mergeVars
<1>4. ASSUME NEW h \in Streams PROVE PartInv(h)'
  <2>0. PartInv(h)
    BY DEF ReadInv
  <2>1. CASE consumer = "dropped"
    <3>1. /\ UNCHANGED <<permits[h], channel[h]>>
          /\ decoded'[h] \in 0 .. Len(Sizes[h])
          /\ task'[h] = "reserving" => decoded'[h] >= 1
          /\ Alive(h)' => Alive(h)
      <4>1. CASE h = g
        BY <2>1, <4>1
      <4>2. CASE h # g
        BY <2>0, <4>2 DEF PartInv, Alive
      <4> QED BY <4>1, <4>2
    <3> QED BY <1>3, <2>0, <2>1, <3>1, DroppedFrame
  <2>2. CASE consumer # "dropped"
    <3>1. CASE h = g
      BY <2>2, <3>1
    <3>2. CASE h # g
      <4>1. UNCHANGED <<task[h], decoded[h], permits[h], channel[h]>>
        BY <3>2
      <4> QED BY <1>3, <2>0, <2>2, <4>1, PartFrame
    <3> QED BY <3>1, <3>2
  <2> QED BY <2>1, <2>2
<1> QED BY <1>1, <1>2, <1>4 DEF ReadInv

\* The parts of the invariant that such a step leaves alone.
LEMMA TaskState ==
  ASSUME ReadInv, NEW g \in Streams, consumer # "dropped", Alive(g)
  PROVE  /\ QueueInv(g) /\ StageInv(g) /\ ~Failing(g) /\ Whole(g) = Len(channel[g])
         /\ g \in InFlight /\ g <= pulled /\ readAheadBytes # 0
         /\ decoded[g] \in 0 .. Len(Sizes[g]) /\ permits[g] + Queued(g) = Capacity
<1>1. PartInv(g) /\ QueueInv(g) /\ StageInv(g)
  BY DEF ReadInv, PartInv
<1>2. ~Failing(g) /\ Whole(g) = Len(channel[g])
  BY <1>1 DEF QueueInv, Alive, Whole
<1>3. g \in InFlight
  BY <1>1 DEF StageInv
<1>4. g <= pulled
  <2>1. g \in Nat /\ pulled \in Nat
    BY TypeFacts
  <2> QED BY <1>1, <2>1 DEF StageInv, Alive
<1> QED BY <1>1, <1>2, <1>3, <1>4 DEF PartInv

LEMMA DecodeStep ==
  ASSUME ReadInv, NEW g \in Streams, Decode(g)
  PROVE  ReadInv'
<1>1. /\ task[g] = "reading" /\ decoded[g] < Len(Sizes[g])
      /\ decoded' = [decoded EXCEPT ![g] = @ + 1] /\ task' = [task EXCEPT ![g] = "reserving"]
      /\ UNCHANGED <<mergeVars, readAheadBytes, permits, channel>>
  BY DEF Decode, MoreBatches, SetTask
<1>2. ReadBase'
  <2>1. task' \in [Streams -> TaskStates]
    BY <1>1 DEF ReadInv, ReadBase, TaskStates
  <2>2. decoded' \in [Streams -> Nat]
    BY <1>1 DEF ReadInv, ReadBase
  <2> QED BY <1>1, <2>1, <2>2 DEF ReadInv, ReadBase, mergeVars
<1>3. task'[g] = "reserving" /\ decoded'[g] = decoded[g] + 1
  BY <1>1 DEF ReadInv, ReadBase
<1>4. decoded[g] \in Nat /\ Len(Sizes[g]) \in Nat
  BY TypeFacts
<1>5. ASSUME consumer # "dropped" PROVE PartInv(g)'
  <2>1. Alive(g)
    BY <1>1 DEF Alive
  <2>2. /\ QueueInv(g) /\ StageInv(g) /\ ~Failing(g) /\ Whole(g) = Len(channel[g])
        /\ g \in InFlight /\ g <= pulled /\ readAheadBytes # 0
        /\ permits[g] + Queued(g) = Capacity
    BY <1>5, <2>1, TaskState
  <2>3. /\ Failing(g)' = Failing(g) /\ Whole(g)' = Whole(g) /\ Queued(g)' = Queued(g)
        /\ Capacity' = Capacity /\ InFlight' = InFlight
        /\ UNCHANGED <<consumer, pulled, output>>
        /\ \A size : Reserved(size)' = Reserved(size)
    BY <1>1 DEF Failing, Whole, Queued, Capacity, InFlight, mergeVars, Reserved
  <2>4. Sent(g)' = Sent(g)
    BY <1>1, <1>3, <1>4 DEF Sent
  <2>5. Taken(g)' = Taken(g)
    BY <2>3, <2>4 DEF Taken
  <2>6. QueueInv(g)'
    BY <1>1, <1>3, <2>2, <2>3, <2>5 DEF QueueInv
  <2>7. StageInv(g)'
    <3>1. ~(pulled < g)
      BY <2>2, TypeFacts
    <3> QED BY <1>3, <2>2, <2>3, <3>1 DEF StageInv
  <2> QED BY <1>1, <1>3, <1>4, <2>2, <2>3, <2>6, <2>7, <1>5 DEF PartInv
<1>6. \A h \in Streams \ {g} : UNCHANGED <<task[h], decoded[h], permits[h], channel[h]>>
  BY <1>1 DEF ReadInv, ReadBase
<1>7. Alive(g)
  BY <1>1 DEF Alive
<1>8. decoded'[g] \in 0 .. Len(Sizes[g]) /\ decoded'[g] >= 1 /\ UNCHANGED <<permits[g], channel[g]>>
  BY <1>1, <1>3, <1>4
<1> QED BY <1>1, <1>2, <1>5, <1>6, <1>7, <1>8, TaskFrame


\* A task that ends or panics without touching its queue.
LEMMA TaskStops ==
  ASSUME ReadInv, NEW g \in Streams, NEW state \in {"ended", "panicked"},
         task[g] = "reading", task' = [task EXCEPT ![g] = state],
         state = "ended" => decoded[g] = Len(Sizes[g]) \/ consumer = "dropped",
         UNCHANGED <<mergeVars, readAheadBytes, decoded, permits, channel>>
  PROVE  ReadInv'
<1>2. ReadBase'
  BY DEF ReadInv, ReadBase, TaskStates, mergeVars
<1>3. task'[g] = state
  BY DEF ReadInv, ReadBase
<1>5. ASSUME consumer # "dropped" PROVE PartInv(g)'
  <2>1. Alive(g)
    BY DEF Alive
  <2>2. /\ QueueInv(g) /\ StageInv(g) /\ ~Failing(g) /\ Whole(g) = Len(channel[g])
        /\ g \in InFlight /\ g <= pulled /\ readAheadBytes # 0
        /\ decoded[g] \in 0 .. Len(Sizes[g]) /\ permits[g] + Queued(g) = Capacity
    BY <1>5, <2>1, TaskState
  <2>3. /\ Failing(g)' = Failing(g) /\ Whole(g)' = Whole(g) /\ Queued(g)' = Queued(g)
        /\ Capacity' = Capacity /\ InFlight' = InFlight
        /\ UNCHANGED <<consumer, pulled, output>>
        /\ \A size : Reserved(size)' = Reserved(size)
    BY DEF Failing, Whole, Queued, Capacity, InFlight, mergeVars, Reserved
  <2>4. Sent(g)' = Sent(g)
    BY <1>3 DEF Sent
  <2>5. Taken(g)' = Taken(g)
    BY <2>3, <2>4 DEF Taken
  <2>6. QueueInv(g)'
    BY <1>3, <2>2, <2>3, <2>5 DEF QueueInv
  <2>7. StageInv(g)'
    <3>1. ~(pulled < g)
      BY <2>2, TypeFacts
    <3> QED BY <1>3, <1>5, <2>2, <2>3, <3>1 DEF StageInv
  <2> QED BY <1>3, <1>5, <2>2, <2>3, <2>6, <2>7 DEF PartInv
<1>6. \A h \in Streams \ {g} : UNCHANGED <<task[h], decoded[h], permits[h], channel[h]>>
  BY DEF ReadInv, ReadBase
<1>7. decoded'[g] \in 0 .. Len(Sizes[g]) /\ ~Alive(g)' /\ UNCHANGED <<permits[g], channel[g]>>
  BY <1>3 DEF ReadInv, PartInv, Alive
<1> QED BY <1>2, <1>3, <1>5, <1>6, <1>7, TaskFrame

LEMMA ReaderEndStep ==
  ASSUME ReadInv, NEW g \in Streams, ReaderEnd(g)
  PROVE  ReadInv'
<1>1. /\ task[g] = "reading" /\ ~(decoded[g] < Len(Sizes[g]))
      /\ task' = [task EXCEPT ![g] = "ended"]
      /\ UNCHANGED <<mergeVars, readAheadBytes, decoded, permits, channel>>
  BY DEF ReaderEnd, MoreBatches, SetTask
<1>2. decoded[g] = Len(Sizes[g])
  BY <1>1, TypeFacts DEF ReadInv, PartInv
<1> QED BY <1>1, <1>2, TaskStops

LEMMA PanicStep ==
  ASSUME ReadInv, NEW g \in Streams, Panic(g)
  PROVE  ReadInv'
BY TaskStops DEF Panic, SetTask

LEMMA AbortStep ==
  ASSUME ReadInv, NEW g \in Streams, Abort(g)
  PROVE  ReadInv'
<1>1. /\ consumer = "dropped" /\ task' = [task EXCEPT ![g] = "aborted"]
      /\ UNCHANGED <<mergeVars, readAheadBytes, decoded, permits, channel>>
  BY DEF Abort, SetTask
<1>2. ReadBase'
  BY <1>1 DEF ReadInv, ReadBase, TaskStates, mergeVars
<1>3. task'[g] = "aborted"
  BY <1>1 DEF ReadInv, ReadBase
<1>4. \A h \in Streams \ {g} : UNCHANGED <<task[h], decoded[h], permits[h], channel[h]>>
  BY <1>1 DEF ReadInv, ReadBase
<1>5. decoded'[g] \in 0 .. Len(Sizes[g]) /\ ~Alive(g)'
  BY <1>1, <1>3 DEF ReadInv, PartInv, Alive
<1> QED BY <1>1, <1>2, <1>3, <1>4, <1>5, TaskFrame

\* An item is queued: the next batch with its reservation.
LEMMA SendStep ==
  ASSUME ReadInv, NEW g \in Streams, Reserve(g), consumer # "dropped"
  PROVE  ReadInv'
<1> DEFINE need == Reserved(Sizes[g][decoded[g]])
           item == [batch |-> decoded[g], permits |-> need]
<1>1. /\ task[g] = "reserving" /\ permits[g] >= need
      /\ task' = [task EXCEPT ![g] = "reading"]
      /\ permits' = [permits EXCEPT ![g] = @ - need]
      /\ channel' = [channel EXCEPT ![g] = Append(@, item)]
      /\ UNCHANGED <<mergeVars, readAheadBytes, decoded>>
  BY DEF Reserve, SetTask, Budget
<1>2. /\ QueueInv(g) /\ StageInv(g) /\ ~Failing(g) /\ Whole(g) = Len(channel[g])
      /\ g \in InFlight /\ g <= pulled /\ readAheadBytes # 0
      /\ decoded[g] \in 0 .. Len(Sizes[g]) /\ permits[g] + Queued(g) = Capacity
  <2>1. Alive(g)
    BY <1>1 DEF Alive
  <2> QED BY <2>1, TaskState
<1>3. decoded[g] \in Nat \ {0} /\ decoded[g] <= Len(Sizes[g])
  <2>1. decoded[g] # 0
    BY <1>1 DEF ReadInv, PartInv
  <2>2. Len(Sizes[g]) \in Nat
    BY TypeFacts
  <2> QED BY <1>2, <2>1, <2>2
<1>4. Sizes[g][decoded[g]] \in Nat
  <2>1. Sizes[g] \in Seq(Nat)
    BY TypeFacts
  <2> QED BY <1>3, <2>1
<1>5. need \in Nat
  BY <1>4, TypeFacts, ReservedBounds
<1>6. item \in Item /\ item # Error
  BY <1>3, <1>5 DEF Item, Error
<1>7. /\ channel[g] \in Seq(Item) /\ permits[g] \in Nat /\ Len(channel[g]) \in Nat /\ Queued(g) \in Nat
      /\ task'[g] = "reading" /\ permits'[g] = permits[g] - need /\ decoded'[g] = decoded[g]
      /\ channel'[g] = Append(channel[g], item)
  <2>1. channel[g] \in Seq(Item)
    BY TypeFacts
  <2>2. Queued(g) \in Nat
    BY <2>1, QueuedIs, PermitsNat
  <2> HIDE DEF need, item
  <2> QED BY <1>1, <2>1, <2>2, TypeFacts DEF ReadInv, ReadBase
<1> HIDE DEF need
<1>8. ReadBase'
  <2>1. permits[g] - need \in Nat
    BY <1>1, <1>5, <1>7
  <2>2. Append(channel[g], item) \in Seq(Item)
    BY <1>6, <1>7
  <2> HIDE DEF item
  <2> QED BY <1>1, <2>1, <2>2 DEF ReadInv, ReadBase, TaskStates, mergeVars
<1>9. /\ Len(channel'[g]) = Len(channel[g]) + 1 /\ channel'[g] # <<>>
      /\ channel'[g][Len(channel[g]) + 1] = item
      /\ \A i \in 1 .. Len(channel[g]) : channel'[g][i] = channel[g][i]
  <2> HIDE DEF item
  <2> QED BY <1>6, <1>7
<1>10. ~Failing(g)' /\ Whole(g)' = Whole(g) + 1
  BY <1>2, <1>6, <1>9 DEF Failing, Whole
<1>11. Taken(g)' = Taken(g) /\ Taken(g) + (Whole(g) + 1) = decoded[g]
  <2>1. Sent(g) = decoded[g] - 1 /\ Sent(g)' = decoded[g]
    BY <1>1, <1>7 DEF Sent
  <2>2. Whole(g) \in Nat
    BY <1>2, <1>7
  <2>3. Taken(g) = (decoded[g] - 1) - Whole(g) /\ Taken(g)' = decoded[g] - (Whole(g) + 1)
    BY <1>10, <2>1 DEF Taken
  <2> QED BY <1>3, <2>2, <2>3
<1>12. QueueInv(g)'
  <2>1. Taken(g) \in Nat /\ UNCHANGED <<output>>
    BY <1>1, <1>2 DEF QueueInv, mergeVars
  <2>2. \A size : Reserved(size)' = Reserved(size)
    BY <1>1 DEF Reserved, Capacity
  <2>3. ASSUME NEW i \in 1 .. Whole(g) + 1
        PROVE  channel'[g][i] = [batch   |-> Taken(g) + i,
                                 permits |-> Reserved(Sizes[g][Taken(g) + i])]
    <3>1. CASE i = Whole(g) + 1
      BY <1>2, <1>9, <1>11, <3>1 DEF need
    <3>2. CASE i # Whole(g) + 1
      <4>1. i \in 1 .. Whole(g) /\ i \in 1 .. Len(channel[g])
        BY <1>2, <1>7, <3>2
      <4> QED BY <1>2, <1>9, <4>1 DEF QueueInv
    <3> QED BY <3>1, <3>2
  <2> QED BY <1>2, <1>7, <1>10, <1>11, <2>1, <2>2, <2>3 DEF QueueInv
<1>13. StageInv(g)'
  <2>1. ~(pulled < g)
    BY <1>2, TypeFacts
  <2>2. InFlight' = InFlight /\ UNCHANGED <<consumer, pulled>>
    BY <1>1 DEF InFlight, mergeVars
  <2> QED BY <1>2, <1>7, <2>1, <2>2 DEF StageInv
<1>14. permits'[g] + Queued(g)' = Capacity'
  <2>1. Queued(g)' = Queued(g) + need
    <3>1. Queued(g)' = SumFunction(PermitsOf(Append(channel[g], item)))
      BY <1>7, QueuedIs DEF Queued, PermitsOf
    <3>2. item.permits = need
      OBVIOUS
    <3> HIDE DEF item
    <3> QED BY <1>6, <1>7, <3>1, <3>2, PermitsAppend, QueuedIs
  <2>2. Capacity' = Capacity
    BY <1>1 DEF Capacity
  <2> QED BY <1>2, <1>5, <1>7, <2>1, <2>2
<1>15. PartInv(g)'
  <2>1. consumer' = consumer
    BY <1>1 DEF mergeVars
  <2> HIDE DEF item
  <2> QED BY <1>1, <1>2, <1>7, <1>12, <1>13, <1>14, <2>1 DEF PartInv
<1>16. \A h \in Streams \ {g} : UNCHANGED <<task[h], decoded[h], permits[h], channel[h]>>
  BY <1>1 DEF ReadInv, ReadBase
<1> QED BY <1>1, <1>8, <1>15, <1>16, TaskFrame

LEMMA ReserveStep ==
  ASSUME ReadInv, NEW g \in Streams, Reserve(g)
  PROVE  ReadInv'
<1>1. CASE consumer # "dropped"
  BY <1>1, SendStep
<1>2. CASE consumer = "dropped"
  <2>1. /\ task' = [task EXCEPT ![g] = "ended"]
        /\ UNCHANGED <<mergeVars, readAheadBytes, decoded, permits, channel>>
    BY <1>2 DEF Reserve, SetTask
  <2>2. ReadBase'
    BY <2>1 DEF ReadInv, ReadBase, TaskStates, mergeVars
  <2>3. task'[g] = "ended"
    BY <2>1 DEF ReadInv, ReadBase
  <2>4. \A h \in Streams \ {g} : UNCHANGED <<task[h], decoded[h], permits[h], channel[h]>>
    BY <2>1 DEF ReadInv, ReadBase
  <2>5. decoded'[g] \in 0 .. Len(Sizes[g]) /\ ~Alive(g)'
    BY <2>1, <2>3 DEF ReadInv, PartInv, Alive
  <2> QED BY <1>2, <2>1, <2>2, <2>3, <2>4, <2>5, TaskFrame
<1> QED BY <1>1, <1>2

LEMMA DecodeErrorStep ==
  ASSUME ReadInv, NEW g \in Streams, DecodeError(g)
  PROVE  ReadInv'
<1>1. /\ task[g] = "reading" /\ task' = [task EXCEPT ![g] = "ended"]
      /\ UNCHANGED <<mergeVars, readAheadBytes, decoded, permits>>
  BY DEF DecodeError, SetTask
<1>2. CASE consumer = "dropped"
  <2>1. UNCHANGED channel
    BY <1>2 DEF DecodeError
  <2> QED BY <1>1, <1>2, <2>1, TaskStops
<1>3. CASE consumer # "dropped"
  <2>1. channel' = [channel EXCEPT ![g] = Append(@, Error)]
    BY <1>3 DEF DecodeError
  <2>2. /\ QueueInv(g) /\ StageInv(g) /\ ~Failing(g) /\ Whole(g) = Len(channel[g])
        /\ g \in InFlight /\ g <= pulled /\ readAheadBytes # 0
        /\ decoded[g] \in 0 .. Len(Sizes[g]) /\ permits[g] + Queued(g) = Capacity
    <3>1. Alive(g)
      BY <1>1 DEF Alive
    <3> QED BY <1>3, <3>1, TaskState
  <2>3. Error \in Item /\ Error.permits = 0
    BY DEF Item, Error
  <2>4. /\ channel[g] \in Seq(Item) /\ Len(channel[g]) \in Nat /\ Queued(g) \in Nat /\ permits[g] \in Nat
        /\ task'[g] = "ended" /\ channel'[g] = Append(channel[g], Error)
    <3>1. channel[g] \in Seq(Item)
      BY TypeFacts
    <3>2. Queued(g) \in Nat
      BY <3>1, QueuedIs, PermitsNat
    <3> QED BY <1>1, <2>1, <3>1, <3>2, TypeFacts DEF ReadInv, ReadBase
  <2>5. ReadBase'
    <3>1. Append(channel[g], Error) \in Seq(Item)
      BY <2>3, <2>4
    <3> QED BY <1>1, <2>1, <3>1 DEF ReadInv, ReadBase, TaskStates, mergeVars
  <2>6. /\ Len(channel'[g]) = Len(channel[g]) + 1 /\ channel'[g] # <<>>
        /\ channel'[g][Len(channel[g]) + 1] = Error
        /\ \A i \in 1 .. Len(channel[g]) : channel'[g][i] = channel[g][i]
    BY <2>3, <2>4
  <2>7. Failing(g)' /\ Whole(g)' = Whole(g)
    BY <2>2, <2>4, <2>6 DEF Failing, Whole
  <2>8. Taken(g)' = Taken(g)
    <3>1. Sent(g)' = Sent(g)
      BY <1>1, <2>4 DEF Sent
    <3> QED BY <2>7, <3>1 DEF Taken
  <2>9. QueueInv(g)'
    <3>1. \A size : Reserved(size)' = Reserved(size)
      BY <1>1 DEF Reserved, Capacity
    <3>2. output' = output
      BY <1>1 DEF mergeVars
    <3> QED BY <2>2, <2>4, <2>6, <2>7, <2>8, <3>1, <3>2 DEF QueueInv
  <2>10. StageInv(g)'
    <3>1. ~(pulled < g)
      BY <2>2, TypeFacts
    <3>2. InFlight' = InFlight /\ UNCHANGED <<consumer, pulled>>
      BY <1>1 DEF InFlight, mergeVars
    <3> QED BY <2>2, <2>4, <2>7, <3>1, <3>2 DEF StageInv
  <2>11. permits'[g] + Queued(g)' = Capacity'
    <3>1. Queued(g)' = Queued(g) + 0
      <4>1. Queued(g)' = SumFunction(PermitsOf(Append(channel[g], Error)))
        BY <2>4, QueuedIs DEF Queued, PermitsOf
      <4> QED BY <2>3, <2>4, <4>1, PermitsAppend, QueuedIs
    <3>2. Capacity' = Capacity
      BY <1>1 DEF Capacity
    <3> QED BY <1>1, <2>2, <2>4, <3>1, <3>2
  <2>12. PartInv(g)'
    <3>1. consumer' = consumer
      BY <1>1 DEF mergeVars
    <3> QED BY <1>1, <1>3, <2>2, <2>4, <2>9, <2>10, <2>11, <3>1 DEF PartInv
  <2>13. \A h \in Streams \ {g} : UNCHANGED <<task[h], decoded[h], permits[h], channel[h]>>
    BY <1>1, <2>1 DEF ReadInv, ReadBase
  <2> QED BY <1>1, <1>3, <2>5, <2>12, <2>13, TaskFrame
<1> QED BY <1>2, <1>3

-----------------------------------------------------------------------------
(***************************************************************************)
(* The steps of the merge.                                                 *)
(***************************************************************************)
\* What is left to show of a step of the merge on row group g.
LEMMA MergeFrame ==
  ASSUME ReadInv, MergeInv', ReadBase', OrderInv', NEW g \in Streams,
         consumer = "polling", consumer' # "dropped", UNCHANGED readAheadBytes,
         \A h \in Streams \ {g} :
           /\ UNCHANGED <<task[h], decoded[h], permits[h], channel[h]>>
           /\ (h \in InFlight') = (h \in InFlight)
           /\ (h <= pulled') = (h <= pulled) /\ (pulled' < h) = (pulled < h)
           /\ \A b : <<h, b>> \in Range(output') <=> <<h, b>> \in Range(output),
         PartInv(g)'
  PROVE  ReadInv'
<1>1. ASSUME NEW h \in Streams PROVE PartInv(h)'
  <2>1. CASE h = g
    BY <2>1
  <2>2. CASE h # g
    BY <2>2, PartFrame DEF ReadInv
  <2> QED BY <2>1, <2>2
<1> QED BY <1>1 DEF ReadInv

\* The consumer moves and nothing else.
LEMMA ConsumerFrame ==
  ASSUME ReadInv, consumer # "dropped", consumer' # "dropped", consumer # "failed", MergeInv',
         UNCHANGED <<pulled, output, readAheadBytes, task, decoded, permits, channel>>,
         InFlight' = InFlight
  PROVE  ReadInv'
<1>1. ASSUME NEW h \in Streams PROVE PartInv(h)'
  BY PartFrame DEF ReadInv
<1> QED BY <1>1 DEF ReadInv, ReadBase, OrderInv

LEMMA AdvanceReadStep ==
  ASSUME ReadInv, NEW g \in Streams, Advance(g),
         UNCHANGED <<readAheadBytes, task, decoded, permits, channel>>
  PROVE  ReadInv'
<1>1. MergeInv' /\ InFlight' = InFlight
  BY AdvanceStep DEF ReadInv
<1> QED BY <1>1, ConsumerFrame DEF Advance

LEMMA PollStep ==
  ASSUME ReadInv, Poll \/ End, UNCHANGED <<readAheadBytes, task, decoded, permits, channel>>
  PROVE  ReadInv'
<1>1. MergeInv'
  BY MergeStepInv DEF ReadInv, MergeAct
<1>2. InFlight' = InFlight
  BY DEF Poll, End, InFlight
<1> QED BY <1>1, <1>2, ConsumerFrame DEF Poll, End

LEMMA OpenStep ==
  ASSUME ReadInv, NEW g \in Streams, OpenRowGroup(g)
  PROVE  ReadInv'
<1>0. Pull(g) /\ UNCHANGED <<readAheadBytes, decoded, permits>>
  BY DEF OpenRowGroup
<1>1. /\ InFlight' = InFlight \cup {g} /\ g = pulled + 1 /\ pulled' = g
      /\ consumer = "polling" /\ UNCHANGED <<preserve, consumer, output>>
  BY <1>0, PullInFlight DEF ReadInv
<1>2. MergeInv'
  BY <1>0, PullStep DEF ReadInv
<1>3. PICK state \in {"inline", "reading", "ended"} :
        /\ task' = [task EXCEPT ![g] = state]
        /\ state = "inline" => readAheadBytes = 0
        /\ state = "reading" => readAheadBytes # 0
        /\ channel' = IF state = "ended" THEN [channel EXCEPT ![g] = <<Error>>] ELSE channel
  BY DEF OpenRowGroup, SetTask
<1>4. PartInv(g) /\ QueueInv(g) /\ StageInv(g) /\ pulled \in Nat
  BY <1>1, TypeFacts DEF ReadInv, PartInv
<1>5. task[g] = "none" /\ decoded[g] = 0 /\ channel[g] = <<>>
  BY <1>1, <1>4 DEF StageInv, QueueInv
<1>6. Error \in Item /\ Error.permits = 0
  BY DEF Item, Error
<1>7. ReadBase'
  <2>1. <<Error>> \in Seq(Item)
    BY <1>6
  <2> QED BY <1>0, <1>1, <1>3, <2>1 DEF ReadInv, ReadBase, TaskStates
<1>8. /\ task'[g] = state /\ decoded'[g] = 0 /\ permits'[g] = permits[g]
      /\ channel'[g] = IF state = "ended" THEN <<Error>> ELSE <<>>
  BY <1>0, <1>3, <1>5 DEF ReadInv, ReadBase
<1>9. /\ Whole(g)' = 0 /\ Sent(g)' = 0 /\ Taken(g)' = 0 /\ (Failing(g)' <=> state = "ended")
      /\ Taken(g) = 0
  <2>1. Len(<<Error>>) = 1 /\ <<Error>>[1] = Error /\ <<Error>> # <<>> /\ Len(<<>>) = 0
    OBVIOUS
  <2>2. Failing(g)' <=> state = "ended"
    BY <1>8, <2>1 DEF Failing
  <2>3. Whole(g)' = 0
    <3>1. CASE state = "ended"
      <4>1. Len(channel'[g]) = 1
        BY <1>8, <2>1, <3>1
      <4> QED BY <2>2, <3>1, <4>1 DEF Whole
    <3>2. CASE state # "ended"
      <4>1. Len(channel'[g]) = 0
        BY <1>8, <2>1, <3>2
      <4> QED BY <2>2, <3>2, <4>1 DEF Whole
    <3> QED BY <3>1, <3>2
  <2>4. Sent(g)' = 0
    BY <1>8 DEF Sent
  <2>5. Whole(g) = 0 /\ Sent(g) = 0
    BY <1>5, <2>1 DEF Whole, Failing, Sent
  <2> QED BY <2>2, <2>3, <2>4, <2>5 DEF Taken
<1>10. permits'[g] + Queued(g)' = Capacity'
  <2>1. Queued(g) = 0
    BY <1>5, QueuedIs, PermitsEmpty
  <2>2. Queued(g)' = 0
    <3>1. Queued(g)' = SumFunction(PermitsOf(channel'[g]))
      BY DEF Queued, PermitsOf
    <3>2. CASE state = "ended"
      <4>1. SumFunction(PermitsOf(<<Error>>)) = SumFunction(PermitsOf(<<>>)) + Error.permits
        <5>1. <<>> \in Seq(Item) /\ Append(<<>>, Error) = <<Error>>
          OBVIOUS
        <5> QED BY <1>6, <5>1, PermitsAppend
      <4> QED BY <1>6, <1>8, <3>1, <3>2, <4>1, PermitsEmpty
    <3>3. CASE state # "ended"
      BY <1>8, <3>1, <3>3, PermitsEmpty
    <3> QED BY <3>2, <3>3
  <2>3. Capacity' = Capacity
    BY <1>0 DEF Capacity
  <2> QED BY <1>4, <1>8, <2>1, <2>2, <2>3 DEF PartInv
<1>11. QueueInv(g)'
  <2>1. \A b : <<g, b>> \in Range(output) <=> b \in 1 .. 0
    BY <1>4, <1>9 DEF QueueInv
  <2> QED BY <1>1, <1>8, <1>9, <2>1 DEF QueueInv
<1>12. StageInv(g)'
  BY <1>1, <1>4, <1>8, <1>9 DEF StageInv
<1>13. PartInv(g)'
  <2>1. Len(Sizes[g]) \in Nat
    BY TypeFacts
  <2> QED BY <1>0, <1>1, <1>3, <1>8, <1>9, <1>10, <1>11, <1>12, <2>1 DEF PartInv, Alive
<1>14. ASSUME NEW h \in Streams \ {g}
       PROVE  /\ UNCHANGED <<task[h], decoded[h], permits[h], channel[h]>>
              /\ (h \in InFlight') = (h \in InFlight)
              /\ (h <= pulled') = (h <= pulled) /\ (pulled' < h) = (pulled < h)
  <2>1. UNCHANGED <<task[h], decoded[h], permits[h], channel[h]>>
    BY <1>0, <1>3 DEF ReadInv, ReadBase
  <2>2. h \in Nat /\ h # pulled + 1
    BY <1>1, TypeFacts
  <2> QED BY <1>1, <1>4, <2>1, <2>2
<1>15. OrderInv'
  BY <1>1 DEF ReadInv, OrderInv
<1> QED BY <1>0, <1>1, <1>2, <1>7, <1>13, <1>14, <1>15, MergeFrame

\* The batch after those taken keeps the order within its row group.
LEMMA EmitOrder ==
  ASSUME ReadInv, NEW g \in Streams, QueueInv(g), Emit(g, Taken(g) + 1)
  PROVE  /\ MergeInv' /\ OrderInv' /\ output' \in Seq(Streams \X (Nat \ {0}))
         /\ Range(output') = Range(output) \cup {<<g, Taken(g) + 1>>}
         /\ InFlight' = InFlight /\ g \in InFlight /\ g \in 1 .. pulled
         /\ consumer = "polling" /\ consumer' = "idle" /\ UNCHANGED <<preserve, pulled>>
<1>1. MergeInv'
  BY EmitStep DEF ReadInv
<1>2. /\ Range(output') = Range(output) \cup {<<g, Taken(g) + 1>>}
      /\ InFlight' = InFlight /\ g \in InFlight /\ g \in 1 .. pulled
      /\ consumer = "polling" /\ consumer' = "idle" /\ UNCHANGED <<preserve, pulled>>
  BY EmitOutput DEF ReadInv
<1>3. Taken(g) \in Nat /\ <<g, Taken(g) + 1>> \in Streams \X (Nat \ {0})
  BY DEF QueueInv
<1>4. output \in Seq(Streams \X (Nat \ {0}))
  BY DEF ReadInv, ReadBase
<1>5. output' = Append(output, <<g, Taken(g) + 1>>)
  BY DEF Emit
<1>6. /\ DOMAIN output' = DOMAIN output \cup {Len(output) + 1} /\ Len(output) \in Nat
      /\ \A i \in DOMAIN output : output'[i] = output[i] /\ i \in Nat /\ i <= Len(output)
      /\ output'[Len(output) + 1] = <<g, Taken(g) + 1>>
  <2> DEFINE item == <<g, Taken(g) + 1>>
  <2>1. item \in Streams \X (Nat \ {0})
    BY <1>3
  <2> HIDE DEF item
  <2> QED BY <1>4, <1>5, <2>1
<1>7. \A i \in DOMAIN output : output[i][1] = g => output[i][2] <= Taken(g) /\ output[i][2] \in Nat
  <2> TAKE i \in DOMAIN output
  <2>1. output[i] \in Streams \X (Nat \ {0}) /\ output[i] \in Range(output)
    BY <1>4 DEF Range
  <2>2. output[i] = <<output[i][1], output[i][2]>>
    BY <2>1
  <2> HAVE output[i][1] = g
  <2>3. output[i][2] \in 1 .. Taken(g)
    BY <2>1, <2>2 DEF QueueInv
  <2> QED BY <1>3, <2>3
<1>8. OrderInv'
  <2> SUFFICES ASSUME NEW i \in DOMAIN output', NEW j \in DOMAIN output', i < j,
                      output'[i][1] = output'[j][1]
               PROVE  output'[i][2] < output'[j][2]
    BY DEF OrderInv
  <2>1. i \in DOMAIN output
    BY <1>6
  <2>2. CASE j \in DOMAIN output
    BY <1>6, <2>1, <2>2 DEF ReadInv, OrderInv
  <2>3. CASE j = Len(output) + 1
    <3>1. output'[j][1] = g /\ output'[j][2] = Taken(g) + 1
      BY <1>6, <2>3
    <3>2. output[i][2] <= Taken(g) /\ output[i][2] \in Nat /\ output'[i] = output[i]
      BY <1>6, <1>7, <2>1, <3>1
    <3> QED BY <1>3, <3>1, <3>2
  <2> QED BY <1>6, <2>2, <2>3
<1>9. output' \in Seq(Streams \X (Nat \ {0}))
  <2> DEFINE item == <<g, Taken(g) + 1>>
  <2>1. item \in Streams \X (Nat \ {0}) /\ output' = Append(output, item)
    BY <1>3, <1>5
  <2> HIDE DEF item
  <2> QED BY <1>4, <2>1
<1> QED BY <1>1, <1>2, <1>8, <1>9


\* The head of a queue is the batch after those taken, or the error.
LEMMA HeadItem ==
  ASSUME ReadInv, NEW g \in Streams, consumer # "dropped", channel[g] # <<>>
  PROVE  /\ channel[g] \in Seq(Item) /\ Head(channel[g]) \in Item /\ Head(channel[g]) = channel[g][1]
         /\ Head(channel[g]) = Error => Failing(g) /\ Whole(g) = 0 /\ Len(channel[g]) = 1
         /\ Head(channel[g]) # Error =>
              /\ Whole(g) \in Nat \ {0}
              /\ Head(channel[g]) = [batch   |-> Taken(g) + 1,
                                     permits |-> Reserved(Sizes[g][Taken(g) + 1])]
<1>1. /\ channel[g] \in Seq(Item) /\ Len(channel[g]) \in Nat /\ Whole(g) \in Nat
      /\ Whole(g) <= Len(channel[g])
  BY TypeFacts
<1>2. Head(channel[g]) = channel[g][1] /\ Head(channel[g]) \in Item /\ Len(channel[g]) >= 1
  BY <1>1
<1>3. PartInv(g) /\ QueueInv(g) /\ Taken(g) \in Nat
  BY DEF ReadInv, PartInv, QueueInv
<1>4. CASE Whole(g) = 0
  <2>1. Failing(g) /\ Len(channel[g]) = 1
    BY <1>1, <1>2, <1>4 DEF Whole
  <2>2. channel[g][1] = Error
    BY <2>1 DEF Failing
  <2> QED BY <1>1, <1>2, <1>4, <2>1, <2>2
<1>5. CASE Whole(g) # 0
  <2>1. 1 \in 1 .. Whole(g)
    BY <1>1, <1>5
  <2>2. channel[g][1] = [batch   |-> Taken(g) + 1,
                         permits |-> Reserved(Sizes[g][Taken(g) + 1])]
    BY <1>3, <2>1 DEF QueueInv
  <2>3. channel[g][1] # Error
    <3>1. channel[g][1].batch = Taken(g) + 1 /\ Error.batch = 0
      BY <2>2 DEF Error
    <3> QED BY <1>3, <3>1
  <2> QED BY <1>1, <1>2, <1>5, <2>2, <2>3
<1> QED BY <1>4, <1>5

\* The permits of an item go back when it is taken.
LEMMA TakePermits ==
  ASSUME ReadInv, NEW g \in Streams, channel[g] # <<>>, channel[g] \in Seq(Item),
         permits' = [permits EXCEPT ![g] = @ + Head(channel[g]).permits],
         channel' = [channel EXCEPT ![g] = Tail(@)], UNCHANGED readAheadBytes
  PROVE  /\ permits'[g] + Queued(g)' = Capacity' /\ permits'[g] \in Nat
         /\ channel'[g] = Tail(channel[g]) /\ Tail(channel[g]) \in Seq(Item)
         /\ \A h \in Streams \ {g} : UNCHANGED <<permits[h], channel[h]>>
<1>1. /\ permits[g] \in Nat /\ Head(channel[g]).permits \in Nat /\ Tail(channel[g]) \in Seq(Item)
      /\ channel'[g] = Tail(channel[g]) /\ permits'[g] = permits[g] + Head(channel[g]).permits
      /\ \A h \in Streams \ {g} : UNCHANGED <<permits[h], channel[h]>>
  <2>1. Head(channel[g]) \in Item /\ Tail(channel[g]) \in Seq(Item)
    OBVIOUS
  <2>2. Head(channel[g]).permits \in Nat
    BY <2>1 DEF Item
  <2> QED BY <2>1, <2>2 DEF ReadInv, ReadBase
<1>2. permits[g] + Queued(g) = Capacity /\ Capacity' = Capacity
  BY DEF ReadInv, PartInv, Capacity
<1>0. Queued(g)' = SumFunction(PermitsOf(Tail(channel[g])))
  <2>1. Queued(g)' = SumFunction(PermitsOf(channel'[g]))
    BY DEF Queued, PermitsOf
  <2> QED BY <1>1, <2>1
<1>3. Queued(g) = Head(channel[g]).permits + Queued(g)'
  BY <1>0, PermitsTail, QueuedIs
<1>4. Queued(g)' \in Nat
  BY <1>0, <1>1, PermitsNat
<1> QED BY <1>1, <1>2, <1>3, <1>4

LEMMA TailFacts ==
  ASSUME NEW q \in Seq(Item), q # <<>>
  PROVE  /\ Tail(q) \in Seq(Item) /\ Len(q) \in Nat \ {0} /\ Len(Tail(q)) = Len(q) - 1
         /\ \A i \in 1 .. Len(q) - 1 : Tail(q)[i] = q[i + 1]
         /\ Tail(q) = <<>> <=> Len(q) = 1
<1>1. Tail(q) \in Seq(Item) /\ Len(q) \in Nat \ {0} /\ Len(Tail(q)) = Len(q) - 1
  OBVIOUS
<1>2. \A i \in 1 .. Len(q) - 1 : Tail(q)[i] = q[i + 1]
  OBVIOUS
<1>3. Tail(q) = <<>> <=> Len(Tail(q)) = 0
  <2>1. \A t \in Seq(Item) : t = <<>> <=> Len(t) = 0
    OBVIOUS
  <2> QED BY <1>1, <2>1
<1> QED BY <1>1, <1>2, <1>3

LEMMA TakeBatchStep ==
  ASSUME ReadInv, NEW g \in Streams, Take(g), Head(channel[g]) # Error
  PROVE  ReadInv'
<1> DEFINE item == Head(channel[g])
<1>1. /\ channel[g] # <<>> /\ Emit(g, item.batch)
      /\ permits' = [permits EXCEPT ![g] = @ + item.permits]
      /\ channel' = [channel EXCEPT ![g] = Tail(@)]
      /\ UNCHANGED <<readAheadBytes, task, decoded>>
  BY DEF Take, Budget
<1>2. consumer = "polling"
  BY <1>1 DEF Emit
<1>3. /\ PartInv(g) /\ QueueInv(g) /\ StageInv(g) /\ Taken(g) \in Nat
      /\ channel[g] \in Seq(Item) /\ Len(channel[g]) \in Nat \ {0}
  <2>1. channel[g] \in Seq(Item)
    BY TypeFacts
  <2>2. Len(channel[g]) \in Nat \ {0}
    BY <1>1, <2>1
  <2> QED BY <1>2, <2>1, <2>2 DEF ReadInv, PartInv, QueueInv
<1>4. item.batch = Taken(g) + 1 /\ Whole(g) \in Nat \ {0} /\ Whole(g) <= Len(channel[g])
  <2>1. /\ Whole(g) \in Nat \ {0}
        /\ item = [batch   |-> Taken(g) + 1,
                   permits |-> Reserved(Sizes[g][Taken(g) + 1])]
    BY <1>1, <1>2, HeadItem
  <2> HIDE DEF item
  <2>2. item.batch = Taken(g) + 1
    BY <2>1
  <2> QED BY <2>1, <2>2, TypeFacts
<1>5. /\ MergeInv' /\ OrderInv' /\ output' \in Seq(Streams \X (Nat \ {0}))
      /\ Range(output') = Range(output) \cup {<<g, Taken(g) + 1>>}
      /\ InFlight' = InFlight /\ g \in InFlight /\ g \in 1 .. pulled
      /\ consumer = "polling" /\ consumer' = "idle" /\ UNCHANGED <<preserve, pulled>>
  BY <1>1, <1>3, <1>4, EmitOrder
<1>6. /\ permits'[g] + Queued(g)' = Capacity' /\ permits'[g] \in Nat
      /\ channel'[g] = Tail(channel[g]) /\ Tail(channel[g]) \in Seq(Item)
      /\ \A h \in Streams \ {g} : UNCHANGED <<permits[h], channel[h]>>
  BY <1>1, <1>3, TakePermits
<1>7. ReadBase'
  <2>1. permits' \in [Streams -> Nat]
    BY <1>1, <1>6 DEF ReadInv, ReadBase
  <2>2. channel' \in [Streams -> Seq(Item)]
    BY <1>1, <1>6 DEF ReadInv, ReadBase
  <2> QED BY <1>1, <1>5, <2>1, <2>2 DEF ReadInv, ReadBase
<1>8. /\ Len(channel'[g]) = Len(channel[g]) - 1
      /\ \A i \in 1 .. Len(channel[g]) - 1 : channel'[g][i] = channel[g][i + 1]
      /\ channel'[g] = <<>> <=> Len(channel[g]) = 1
  <2>1. channel[g] \in Seq(Item) /\ channel[g] # <<>>
    BY <1>1, <1>3
  <2>2. channel'[g] = Tail(channel[g])
    BY <1>6
  <2> QED BY <2>1, <2>2, TailFacts
<1>9. (Failing(g)' <=> Failing(g)) /\ Whole(g)' = Whole(g) - 1
  <2>1. CASE Len(channel[g]) = 1
    <3>1. ~Failing(g)
      BY <1>4, <2>1 DEF Whole
    <3>2. ~Failing(g)'
      BY <1>8, <2>1 DEF Failing
    <3>3. Whole(g)' = Len(channel'[g]) /\ Whole(g) = Len(channel[g])
      BY <3>1, <3>2 DEF Whole
    <3> QED BY <1>3, <1>8, <3>1, <3>2, <3>3
  <2>2. CASE Len(channel[g]) # 1
    <3>1. channel'[g][Len(channel'[g])] = channel[g][Len(channel[g])] /\ channel'[g] # <<>>
      BY <1>3, <1>8, <2>2
    <3>2. Failing(g)' <=> Failing(g)
      BY <1>1, <3>1 DEF Failing
    <3>3. CASE Failing(g)
      <4>1. Whole(g)' = Len(channel'[g]) - 1 /\ Whole(g) = Len(channel[g]) - 1
        BY <3>2, <3>3 DEF Whole
      <4> QED BY <1>3, <1>8, <3>2, <4>1
    <3>4. CASE ~Failing(g)
      <4>1. Whole(g)' = Len(channel'[g]) /\ Whole(g) = Len(channel[g])
        BY <3>2, <3>4 DEF Whole
      <4> QED BY <1>3, <1>8, <3>2, <4>1
    <3> QED BY <3>2, <3>3, <3>4
  <2> QED BY <2>1, <2>2
<1>10. Taken(g)' = Taken(g) + 1
  <2>1. Sent(g)' = Sent(g)
    BY <1>1 DEF Sent
  <2>2. Sent(g) \in Int
    <3>1. decoded[g] \in Nat
      BY TypeFacts
    <3> QED BY <3>1 DEF Sent
  <2> QED BY <1>4, <1>9, <2>1, <2>2 DEF Taken
<1>11. QueueInv(g)'
  <2>1. \A size : Reserved(size)' = Reserved(size)
    BY <1>1 DEF Reserved, Capacity
  <2>2. ASSUME NEW i \in 1 .. Whole(g) - 1
        PROVE  channel'[g][i] = [batch   |-> (Taken(g) + 1) + i,
                                 permits |-> Reserved(Sizes[g][(Taken(g) + 1) + i])]
    <3>0. i \in Nat /\ 1 <= i /\ i + 1 <= Whole(g)
      BY <1>4
    <3>1. i + 1 \in 1 .. Whole(g) /\ i \in 1 .. Len(channel[g]) - 1
          /\ Taken(g) + (i + 1) = (Taken(g) + 1) + i
      <4> DEFINE l == Len(channel[g])
                 w == Whole(g)
                 t == Taken(g)
      <4>1. t \in Nat /\ w \in Nat /\ w <= l /\ l \in Nat
        BY <1>3, <1>4
      <4>2. i \in Nat /\ 1 <= i /\ i + 1 <= w
        BY <3>0
      <4> HIDE DEF l, w, t
      <4>3. i + 1 \in 1 .. w /\ i \in 1 .. l - 1 /\ t + (i + 1) = (t + 1) + i
        BY <4>1, <4>2
      <4> QED BY <4>3 DEF l, w, t
    <3>2. channel[g][i + 1] = [batch   |-> Taken(g) + (i + 1),
                               permits |-> Reserved(Sizes[g][Taken(g) + (i + 1)])]
      BY <1>3, <3>1 DEF QueueInv
    <3> QED BY <1>8, <3>1, <3>2
  <2>3. \A b : <<g, b>> \in Range(output') <=> b \in 1 .. Taken(g) + 1
    <3>1. \A b : <<g, b>> \in Range(output) <=> b \in 1 .. Taken(g)
      BY <1>3 DEF QueueInv
    <3>2. \A b : b \in 1 .. Taken(g) + 1 <=> b \in 1 .. Taken(g) \/ b = Taken(g) + 1
      BY <1>3
    <3>3. \A b : <<g, b>> \in Range(output') <=> <<g, b>> \in Range(output) \/ b = Taken(g) + 1
      BY <1>5
    <3> QED BY <3>1, <3>2, <3>3
  <2>4. task[g] \notin {"none", "inline"}
    BY <1>1, <1>3 DEF QueueInv
  <2>5. Failing(g)' => task'[g] = "ended"
    BY <1>1, <1>3, <1>9 DEF QueueInv
  <2>6. Taken(g)' \in Nat
    BY <1>3, <1>10
  <2> QED BY <1>1, <1>9, <1>10, <2>1, <2>2, <2>3, <2>4, <2>5, <2>6 DEF QueueInv
<1>12. StageInv(g)'
  <2>1. ~(pulled < g)
    BY <1>5, TypeFacts
  <2> QED BY <1>1, <1>3, <1>5, <1>9, <2>1 DEF StageInv
<1>13. PartInv(g)'
  <2>1. readAheadBytes # 0
    BY <1>3, <1>4 DEF PartInv
  <2> QED BY <1>1, <1>3, <1>5, <1>6, <1>11, <1>12, <2>1 DEF PartInv
<1>14. \A h \in Streams \ {g} : \A b : <<h, b>> \in Range(output') <=> <<h, b>> \in Range(output)
  BY <1>5
<1> QED BY <1>1, <1>5, <1>6, <1>7, <1>13, <1>14, MergeFrame

LEMMA TakeErrorStep ==
  ASSUME ReadInv, NEW g \in Streams, Take(g), Head(channel[g]) = Error
  PROVE  ReadInv'
<1>1. /\ channel[g] # <<>> /\ Fail(g)
      /\ permits' = [permits EXCEPT ![g] = @ + Head(channel[g]).permits]
      /\ channel' = [channel EXCEPT ![g] = Tail(@)]
      /\ UNCHANGED <<readAheadBytes, task, decoded>>
  BY DEF Take, Budget
<1>2. /\ consumer = "polling" /\ consumer' = "failed" /\ g \in merging
      /\ UNCHANGED <<preserve, pulled, waiting, merging, output>>
  BY <1>1 DEF Fail
<1>3. PartInv(g) /\ QueueInv(g) /\ StageInv(g) /\ Taken(g) \in Nat
  BY <1>2 DEF ReadInv, PartInv, QueueInv
<1>4. Failing(g) /\ Whole(g) = 0 /\ Len(channel[g]) = 1 /\ channel[g] \in Seq(Item)
  BY <1>1, <1>2, HeadItem
<1>5. /\ permits'[g] + Queued(g)' = Capacity' /\ permits'[g] \in Nat
      /\ channel'[g] = Tail(channel[g]) /\ Tail(channel[g]) \in Seq(Item)
      /\ \A h \in Streams \ {g} : UNCHANGED <<permits[h], channel[h]>>
  BY <1>1, <1>4, TakePermits
<1>6. channel'[g] = <<>>
  BY <1>1, <1>4, <1>5, TailFacts
<1>7. ReadBase'
  BY <1>1, <1>2, <1>5 DEF ReadInv, ReadBase
<1>8. ~Failing(g)' /\ Whole(g)' = 0
  BY <1>6 DEF Failing, Whole
<1>9. Taken(g)' = Taken(g)
  BY <1>1, <1>4, <1>8 DEF Taken, Sent
<1>10. InFlight' = InFlight /\ g \in InFlight /\ MergeInv' /\ OrderInv'
  <2>1. MergeInv'
    BY <1>1, MergeStepInv DEF ReadInv, MergeAct
  <2> QED BY <1>2, <2>1 DEF InFlight, ReadInv, OrderInv
<1>11. QueueInv(g)'
  BY <1>1, <1>2, <1>3, <1>6, <1>8, <1>9 DEF QueueInv
<1>12. StageInv(g)'
  BY <1>1, <1>2, <1>3, <1>6, <1>10 DEF StageInv, Alive
<1>13. PartInv(g)'
  BY <1>1, <1>2, <1>3, <1>5, <1>8, <1>11, <1>12 DEF PartInv, Alive
<1> QED BY <1>1, <1>2, <1>5, <1>7, <1>10, <1>13, MergeFrame

LEMMA TakeInlineStep ==
  ASSUME ReadInv, NEW g \in Streams, TakeInline(g)
  PROVE  ReadInv'
<1>1. task[g] = "inline" /\ UNCHANGED <<readAheadBytes, task, permits, channel>>
  BY DEF TakeInline
<1>2. consumer = "polling" /\ consumer' \in {"idle", "failed"}
  BY DEF TakeInline, Emit, Fail
<1>3. /\ PartInv(g) /\ QueueInv(g) /\ StageInv(g) /\ decoded[g] \in Nat /\ channel[g] = <<>>
      /\ Len(Sizes[g]) \in Nat
  BY <1>1, <1>2, TypeFacts DEF ReadInv, PartInv, QueueInv
<1>4. ~Failing(g) /\ Whole(g) = 0 /\ Taken(g) = decoded[g]
  <2>1. ~Failing(g) /\ Whole(g) = 0
    BY <1>3 DEF Failing, Whole
  <2> QED BY <1>1, <1>3, <2>1 DEF Taken, Sent
<1>5. /\ Failing(g)' = Failing(g) /\ Whole(g)' = Whole(g) /\ Queued(g)' = Queued(g)
      /\ Capacity' = Capacity /\ Alive(g)' = Alive(g)
  BY <1>1 DEF Failing, Whole, Queued, Capacity, Alive
<1>6. CASE Fail(g) /\ UNCHANGED decoded
  <2>1. InFlight' = InFlight /\ UNCHANGED <<pulled, output>> /\ consumer' = "failed"
    BY <1>6 DEF Fail, InFlight
  <2>2. MergeInv'
    BY <1>6, MergeStepInv DEF ReadInv, MergeAct
  <2> QED BY <1>1, <1>2, <1>6, <2>1, <2>2, ConsumerFrame
<1>7. CASE /\ decoded[g] < Len(Sizes[g]) /\ decoded' = [decoded EXCEPT ![g] = @ + 1]
           /\ Emit(g, decoded[g] + 1)
  <2>1. /\ MergeInv' /\ OrderInv' /\ output' \in Seq(Streams \X (Nat \ {0}))
        /\ Range(output') = Range(output) \cup {<<g, Taken(g) + 1>>}
        /\ InFlight' = InFlight /\ g \in InFlight /\ g \in 1 .. pulled
        /\ consumer = "polling" /\ consumer' = "idle" /\ UNCHANGED <<preserve, pulled>>
    BY <1>3, <1>4, <1>7, EmitOrder
  <2>2. decoded'[g] = decoded[g] + 1 /\ \A h \in Streams \ {g} : decoded'[h] = decoded[h]
    BY <1>7 DEF ReadInv, ReadBase
  <2>3. ReadBase'
    <3>1. decoded' \in [Streams -> Nat]
      BY <1>7 DEF ReadInv, ReadBase
    <3> QED BY <1>1, <2>1, <3>1 DEF ReadInv, ReadBase
  <2>4. Taken(g)' = decoded[g] + 1
    BY <1>1, <1>3, <1>4, <1>5, <2>2 DEF Taken, Sent
  <2>5. QueueInv(g)'
    <3>1. \A b : <<g, b>> \in Range(output') <=> b \in 1 .. decoded[g] + 1
      <4>1. \A b : <<g, b>> \in Range(output) <=> b \in 1 .. decoded[g]
        BY <1>3, <1>4 DEF QueueInv
      <4>2. \A b : b \in 1 .. decoded[g] + 1 <=> b \in 1 .. decoded[g] \/ b = decoded[g] + 1
        BY <1>3
      <4>3. \A b : <<g, b>> \in Range(output') <=> <<g, b>> \in Range(output) \/ b = decoded[g] + 1
        BY <1>4, <2>1
      <4> QED BY <4>1, <4>2, <4>3
    <3>2. Whole(g)' = 0 /\ ~Failing(g)' /\ channel'[g] = <<>> /\ Taken(g)' \in Nat
      BY <1>1, <1>3, <1>4, <1>5, <2>4
    <3> QED BY <2>4, <3>1, <3>2 DEF QueueInv
  <2>6. StageInv(g)'
    <3>1. ~(pulled < g)
      BY <2>1, TypeFacts
    <3> QED BY <1>1, <1>3, <1>5, <2>1, <3>1 DEF StageInv
  <2>7. PartInv(g)'
    BY <1>1, <1>3, <1>5, <1>7, <2>1, <2>2, <2>5, <2>6 DEF PartInv
  <2>8. \A h \in Streams \ {g} : \A b : <<h, b>> \in Range(output') <=> <<h, b>> \in Range(output)
    BY <2>1
  <2> QED BY <1>1, <1>2, <2>1, <2>2, <2>3, <2>7, <2>8, MergeFrame
<1> QED BY <1>6, <1>7 DEF TakeInline, MoreBatches

LEMMA CompleteStep ==
  ASSUME ReadInv, NEW g \in Streams, Complete(g)
  PROVE  ReadInv'
<1>1. channel[g] = <<>> /\ UNCHANGED <<readAheadBytes, task, decoded, permits, channel>>
  BY DEF Complete
<1>2. CASE Fail(g)
  <2>1. /\ InFlight' = InFlight /\ UNCHANGED <<pulled, output>>
        /\ consumer = "polling" /\ consumer' = "failed"
    BY <1>2 DEF Fail, InFlight
  <2>2. MergeInv'
    BY <1>2, MergeStepInv DEF ReadInv, MergeAct
  <2> QED BY <1>1, <2>1, <2>2, ConsumerFrame
<1>3. CASE Exhaust(g) /\ ~TaskFailed(g)
  <2>1. /\ InFlight' = InFlight \ {g} /\ g \in InFlight /\ g \in 1 .. pulled
        /\ consumer = "polling" /\ UNCHANGED <<preserve, pulled, consumer, output>>
    BY <1>3, ExhaustInFlight DEF ReadInv
  <2>2. MergeInv'
    BY <1>3, ExhaustStep DEF ReadInv
  <2>3. ReadBase' /\ OrderInv'
    BY <1>1, <2>1 DEF ReadInv, ReadBase, OrderInv
  <2>4. PartInv(g) /\ QueueInv(g) /\ StageInv(g)
    BY <2>1 DEF ReadInv, PartInv
  <2>5. ~Failing(g)
    BY <1>1 DEF Failing
  <2>6. task[g] \in {"ended", "inline"} /\ decoded[g] = Len(Sizes[g])
    <3>1. task[g] = "ended" \/ (task[g] = "inline" /\ ~(decoded[g] < Len(Sizes[g])))
      BY <1>3 DEF Complete, TaskFailed, MoreBatches
    <3>2. CASE task[g] = "ended"
      BY <2>1, <2>4, <2>5, <3>2 DEF StageInv
    <3>3. CASE task[g] = "inline" /\ ~(decoded[g] < Len(Sizes[g]))
      BY <2>4, <3>3, TypeFacts DEF PartInv
    <3> QED BY <3>1, <3>2, <3>3
  <2>7. /\ Failing(g)' = Failing(g) /\ Whole(g)' = Whole(g) /\ Queued(g)' = Queued(g)
        /\ Capacity' = Capacity /\ Taken(g)' = Taken(g) /\ Alive(g)' = Alive(g)
        /\ \A size : Reserved(size)' = Reserved(size)
    BY <1>1 DEF Failing, Whole, Queued, Capacity, Taken, Sent, Alive, Reserved
  <2>8. QueueInv(g)'
    BY <1>1, <2>1, <2>4, <2>7 DEF QueueInv
  <2>9. StageInv(g)'
    <3>1. ~Alive(g)
      BY <2>6 DEF Alive
    <3> QED BY <1>1, <2>1, <2>4, <2>6, <2>7, <3>1 DEF StageInv
  <2>10. PartInv(g)'
    BY <1>1, <2>1, <2>4, <2>7, <2>8, <2>9 DEF PartInv
  <2> QED BY <1>1, <2>1, <2>2, <2>3, <2>10, MergeFrame
<1> QED BY <1>2, <1>3 DEF Complete

LEMMA DropStep ==
  ASSUME ReadInv, DropStream
  PROVE  ReadInv'
<1>1. /\ consumer' = "dropped" /\ UNCHANGED <<preserve, pulled, waiting, merging, output>>
      /\ permits' = [g \in Streams |-> permits[g] + Queued(g)]
      /\ channel' = [g \in Streams |-> <<>>]
      /\ UNCHANGED <<readAheadBytes, task, decoded>> /\ Release
  BY DEF DropStream, Release
<1>2. MergeInv'
  BY <1>1, MergeStepInv DEF ReadInv, MergeAct
<1>3. \A g \in Streams : Queued(g) \in Nat /\ permits[g] \in Nat
  BY TypeFacts, QueuedIs, PermitsNat
<1>4. ReadBase'
  <2>1. <<>> \in Seq(Item)
    OBVIOUS
  <2> QED BY <1>1, <1>3, <2>1 DEF ReadInv, ReadBase
<1>5. OrderInv'
  BY <1>1 DEF ReadInv, OrderInv
<1>6. ASSUME NEW g \in Streams PROVE PartInv(g)'
  <2>1. channel'[g] = <<>> /\ permits'[g] = permits[g] + Queued(g)
    BY <1>1
  <2>2. Whole(g)' = 0
    BY <2>1 DEF Whole, Failing
  <2>3. Queued(g)' = 0
    BY <2>1, PermitsEmpty DEF Queued, PermitsOf
  <2>4. Capacity' = Capacity /\ permits[g] + Queued(g) = Capacity
    BY <1>1 DEF Capacity, ReadInv, PartInv
  <2>5. permits'[g] + Queued(g)' = Capacity'
    BY <1>3, <2>1, <2>3, <2>4
  <2> QED BY <1>1, <2>1, <2>2, <2>5 DEF ReadInv, PartInv, Alive
<1> QED BY <1>2, <1>4, <1>5, <1>6 DEF ReadInv


LEMMA ReadStep ==
  ASSUME ReadInv, [ReadNext]_readVars
  PROVE  ReadInv'
<1>1. CASE MergeStep
  <2>1. ASSUME NEW g \in Streams, Take(g) PROVE ReadInv'
    BY <2>1, TakeBatchStep, TakeErrorStep
  <2>2. CASE (Poll \/ End) /\ UNCHANGED <<readAheadBytes, task, decoded, permits, channel>>
    BY <2>2, PollStep
  <2> QED
    BY <1>1, <2>1, <2>2, OpenStep, TakeInlineStep, CompleteStep, AdvanceReadStep DEF MergeStep
<1>2. ASSUME NEW g \in Streams, TaskStep(g) \/ DecodeError(g) \/ Panic(g) \/ Abort(g)
      PROVE  ReadInv'
  BY <1>2, DecodeStep, ReserveStep, ReaderEndStep, DecodeErrorStep, PanicStep, AbortStep DEF TaskStep
<1>3. CASE DropStream
  BY <1>3, DropStep
<1>4. CASE UNCHANGED readVars
  <2>1. /\ UNCHANGED <<pulled, output, consumer, readAheadBytes, task, decoded, permits, channel>>
        /\ UNCHANGED mergeVars /\ InFlight' = InFlight
    BY <1>4 DEF readVars, mergeVars, InFlight
  <2>2. MergeInv' /\ ReadBase' /\ OrderInv'
    BY <2>1, MergeStepInv DEF ReadInv, MergeAct, ReadBase, OrderInv
  <2>3. ASSUME NEW h \in Streams PROVE PartInv(h)'
    <3>0. PartInv(h)
      BY DEF ReadInv
    <3>1. CASE consumer = "dropped"
      <4>1. decoded[h] \in 0 .. Len(Sizes[h]) /\ (task[h] = "reserving" => decoded[h] >= 1)
        BY <3>0 DEF PartInv
      <4>2. Alive(h)' = Alive(h)
        BY <2>1 DEF Alive
      <4> QED BY <2>1, <3>0, <3>1, <4>1, <4>2, DroppedFrame
    <3>2. CASE consumer # "dropped"
      BY <2>1, <3>0, <3>2, PartFrame
    <3> QED BY <3>1, <3>2
  <2> QED BY <2>2, <2>3 DEF ReadInv
<1> QED BY <1>1, <1>2, <1>3, <1>4 DEF ReadNext

LEMMA ReadStart ==
  ASSUME ReadInit
  PROVE  ReadInv
<1>1. /\ preserve \in BOOLEAN /\ pulled = 0 /\ waiting = <<>> /\ merging = {}
      /\ consumer = "idle" /\ output = <<>> /\ readAheadBytes \in ReadAheadSizes
      /\ task = [g \in Streams |-> "none"] /\ decoded = [g \in Streams |-> 0]
      /\ permits = [g \in Streams |-> Capacity] /\ channel = [g \in Streams |-> <<>>]
  BY DEF ReadInit, MergeInit
<1>2. MergeInv
  BY <1>1, MergeStart DEF ReadInit
<1>3. readAheadBytes \in Nat /\ Capacity \in Nat
  <2>1. readAheadBytes \in Nat
    BY <1>1, ReadAssumption
  <2> QED BY <2>1, ReservedBounds
<1>4. ReadBase /\ OrderInv
  <2>1. output \in Seq(Streams \X (Nat \ {0})) /\ DOMAIN output = {}
    BY <1>1
  <2>2. channel \in [Streams -> Seq(Item)]
    <3>1. <<>> \in Seq(Item)
      OBVIOUS
    <3> QED BY <1>1, <3>1
  <2> QED BY <1>1, <1>3, <2>1, <2>2 DEF ReadBase, OrderInv, TaskStates
<1>5. ASSUME NEW g \in Streams PROVE PartInv(g)
  <2>1. /\ task[g] = "none" /\ decoded[g] = 0 /\ permits[g] = Capacity /\ channel[g] = <<>>
        /\ Len(Sizes[g]) \in Nat /\ g \in Nat \ {0}
    <3>1. Sizes[g] \in Seq(Nat)
      BY ReadAssumption
    <3> QED BY <1>1, <3>1, MergeAssumption DEF Streams
  <2>2. ~Failing(g) /\ Whole(g) = 0 /\ Taken(g) = 0
    <3>1. ~Failing(g) /\ Len(channel[g]) = 0
      BY <2>1 DEF Failing
    <3>2. Whole(g) = 0
      BY <3>1 DEF Whole
    <3> QED BY <2>1, <3>1, <3>2 DEF Taken, Sent
  <2>3. Queued(g) = 0
    BY <2>1, QueuedIs, PermitsEmpty
  <2>4. QueueInv(g)
    <3>1. \A b : <<g, b>> \notin Range(output)
      BY <1>1 DEF Range
    <3> QED BY <2>1, <2>2, <3>1 DEF QueueInv
  <2>5. StageInv(g)
    BY <1>1, <2>1, <2>2 DEF StageInv, Alive
  <2> QED BY <1>1, <1>3, <2>1, <2>2, <2>3, <2>4, <2>5 DEF PartInv, Alive
<1> QED BY <1>2, <1>4, <1>5 DEF ReadInv

LEMMA ReadAlways == ReadSpec => []ReadInv
<1>1. ReadInit => ReadInv
  BY ReadStart
<1>2. ReadInv /\ [ReadNext]_readVars => ReadInv'
  BY ReadStep
<1> QED BY <1>1, <1>2, PTL DEF ReadSpec
-----------------------------------------------------------------------------
(***************************************************************************)
(* What the invariant says of a scan.                                      *)
(***************************************************************************)
\* A source never holds more free permits than its budget was created with.
THEOREM ReadTypeCorrect == ReadSpec => []ReadTypeOK
<1>1. ReadInv => ReadTypeOK
  <2> SUFFICES ASSUME ReadInv PROVE ReadTypeOK
    OBVIOUS
  <2>1. ASSUME NEW g \in Streams
        PROVE  permits[g] \in 0 .. Capacity /\ decoded[g] \in 0 .. Len(Sizes[g])
    <3>1. Queued(g) \in Nat /\ permits[g] \in Nat /\ Capacity \in Nat
      BY TypeFacts, QueuedIs, PermitsNat
    <3>2. permits[g] + Queued(g) = Capacity /\ decoded[g] \in 0 .. Len(Sizes[g])
      BY DEF ReadInv, PartInv
    <3> QED BY <3>1, <3>2
  <2> QED BY <2>1 DEF ReadInv, ReadBase, ReadTypeOK, TaskStates, MergeInv
<1> QED BY <1>1, ReadAlways, PTL

\* max_read_parallelism bounds the row groups open, and a task runs only for
\* one of those while the stream is held.
THEOREM OpenGroupsBounded == ReadSpec => []InFlightBounded
<1>1. ReadInv => InFlightBounded
  <2> SUFFICES ASSUME ReadInv PROVE InFlightBounded
    OBVIOUS
  <2>1. Cardinality(InFlight) <= Parallelism
    BY MergeBounded DEF ReadInv
  <2>2. consumer # "dropped" => \A g \in Streams : Alive(g) => g \in InFlight
    BY DEF ReadInv, PartInv, StageInv
  <2> QED BY <2>1, <2>2 DEF InFlightBounded
<1> QED BY <1>1, ReadAlways, PTL

\* The consumer receives the batches of a row group in order and each once,
\* and with preserve_insertion_order the row groups in order.
THEOREM BatchesInOrder == ReadSpec => []InSourceOrder
<1>1. ReadInv => InSourceOrder
  BY DEF ReadInv, MergeInv, OutputInv, OrderInv, InSourceOrder
<1> QED BY <1>1, ReadAlways, PTL

\* A scan that ends without an error delivered every batch of every row group.
THEOREM ReadsAll == ReadSpec => []NeverTruncated
<1>1. ReadInv => NeverTruncated
  <2> SUFFICES ASSUME ReadInv, consumer = "ended"
               PROVE  Range(output) = UNION {{g} \X (1 .. Len(Sizes[g])) : g \in Streams}
    BY DEF NeverTruncated
  <2>1. InFlight = {} /\ pulled = NumStreams
    <3>1. merging = {} /\ waiting = <<>> /\ pulled = NumStreams
      BY DEF ReadInv, MergeInv
    <3> QED BY <3>1 DEF InFlight, Range
  <2>2. ASSUME NEW g \in Streams
        PROVE  \A b : <<g, b>> \in Range(output) <=> b \in 1 .. Len(Sizes[g])
    <3>1. QueueInv(g) /\ StageInv(g)
      BY DEF ReadInv, PartInv
    <3>2. g <= pulled /\ g \notin InFlight
      BY <2>1, MergeAssumption DEF Streams
    <3>3. task[g] \in {"ended", "inline"} /\ decoded[g] = Len(Sizes[g]) /\ channel[g] = <<>>
      BY <3>1, <3>2 DEF StageInv
    <3>4. Taken(g) = Len(Sizes[g])
      <4>1. Whole(g) = 0
        BY <3>3 DEF Whole, Failing
      <4> QED BY <3>3, <4>1, TypeFacts DEF Taken, Sent
    <3> QED BY <3>1, <3>4 DEF QueueInv
  <2>3. \A x \in Range(output) : \E g \in Streams : \E b : x = <<g, b>>
    <3>1. output \in Seq(Streams \X (Nat \ {0}))
      BY DEF ReadInv, ReadBase
    <3>2. \A i \in DOMAIN output : output[i] \in Streams \X (Nat \ {0})
      BY <3>1
    <3> QED BY <3>2 DEF Range
  <2> QED BY <2>2, <2>3
<1> QED BY <1>1, ReadAlways, PTL


\* The sizes of what is queued.
SizesOf(g) ==
  [i \in DOMAIN channel[g] |->
    IF channel[g][i] = Error THEN 0 ELSE Sizes[g][channel[g][i].batch]]

LEMMA QueuedBytesIs == \A g : QueuedBytes(g) = Total(SizesOf(g), DOMAIN SizesOf(g))
  BY SumIsTotal DEF QueuedBytes, SizesOf

\* What is queued at each position while the stream is held.
LEMMA QueueItems ==
  ASSUME ReadInv, NEW g \in Streams, consumer # "dropped"
  PROVE  /\ DOMAIN channel[g] = 1 .. Len(channel[g]) /\ DOMAIN SizesOf(g) = 1 .. Len(channel[g])
         /\ \A i \in 1 .. Whole(g) :
              /\ channel[g][i] # Error /\ SizesOf(g)[i] \in Nat
              /\ channel[g][i].permits = Reserved(SizesOf(g)[i])
         /\ \A i \in 1 .. Len(channel[g]) :
              i \notin 1 .. Whole(g) => channel[g][i] = Error /\ SizesOf(g)[i] = 0
<1>1. /\ channel[g] \in Seq(Item) /\ Len(channel[g]) \in Nat /\ Whole(g) \in Nat
      /\ Whole(g) <= Len(channel[g]) /\ Sizes[g] \in Seq(Nat) /\ Len(Sizes[g]) \in Nat
      /\ decoded[g] \in Nat
  BY TypeFacts
<1>2. QueueInv(g) /\ Taken(g) \in Nat /\ decoded[g] <= Len(Sizes[g])
  BY <1>1 DEF ReadInv, PartInv, QueueInv
<1>3. DOMAIN channel[g] = 1 .. Len(channel[g]) /\ DOMAIN SizesOf(g) = 1 .. Len(channel[g])
  BY <1>1 DEF SizesOf
<1>4. ASSUME NEW i \in 1 .. Whole(g)
      PROVE  /\ channel[g][i] # Error /\ SizesOf(g)[i] \in Nat
             /\ channel[g][i].permits = Reserved(SizesOf(g)[i])
  <2> DEFINE b == Taken(g) + i
  <2>1. channel[g][i] = [batch |-> b, permits |-> Reserved(Sizes[g][b])]
    BY <1>2 DEF QueueInv
  <2>2. b \in 1 .. Len(Sizes[g])
    <3>1. Taken(g) + Whole(g) <= decoded[g]
      <4>1. Sent(g) \in Int /\ Sent(g) <= decoded[g] /\ Whole(g) \in Int
        BY <1>1 DEF Sent
      <4>2. Taken(g) = Sent(g) - Whole(g)
        BY DEF Taken
      <4> QED BY <4>1, <4>2
    <3>2. /\ Taken(g) \in Nat /\ decoded[g] \in Nat /\ Whole(g) \in Nat
          /\ Len(Sizes[g]) \in Nat /\ decoded[g] <= Len(Sizes[g])
      BY <1>1, <1>2
    <3>3. b \in Nat /\ 1 <= b /\ b <= decoded[g]
      BY <3>1, <3>2
    <3> HIDE DEF b
    <3> QED BY <3>2, <3>3
  <2> HIDE DEF b
  <2>3. channel[g][i].batch = b /\ channel[g][i].permits = Reserved(Sizes[g][b])
    BY <2>1
  <2>4. channel[g][i] # Error
    BY <2>2, <2>3 DEF Error
  <2>5. SizesOf(g)[i] = Sizes[g][b]
    <3>1. i \in DOMAIN channel[g]
      BY <1>1, <1>3
    <3> QED BY <2>3, <2>4, <3>1 DEF SizesOf
  <2>6. Sizes[g][b] \in Nat
    <3>1. Sizes[g] \in Seq(Nat)
      BY <1>1
    <3> QED BY <2>2, <3>1
  <2> QED BY <2>3, <2>4, <2>5, <2>6
<1>5. ASSUME NEW i \in 1 .. Len(channel[g]), i \notin 1 .. Whole(g)
      PROVE  channel[g][i] = Error /\ SizesOf(g)[i] = 0
  <2>1. i > Whole(g)
    BY <1>1, <1>5
  <2>2. Failing(g) /\ i = Len(channel[g])
    BY <1>1, <2>1 DEF Whole
  <2>3. channel[g][i] = Error
    BY <2>2 DEF Failing
  <2> QED BY <1>3, <2>3 DEF SizesOf
<1> QED BY <1>3, <1>4, <1>5

\* The bytes queued ahead of the consumer stay within read_ahead_bytes unless
\* a single batch is queued, and every permit of the budget is either free or
\* attached to a queued batch.
THEOREM BudgetHolds == ReadSpec => []BudgetKept
<1>1. ReadInv => BudgetKept
  <2> SUFFICES ASSUME ReadInv, NEW g \in Streams
               PROVE  /\ \/ QueuedBytes(g) <= readAheadBytes
                         \/ Cardinality({i \in DOMAIN channel[g] : channel[g][i] # Error}) = 1
                      /\ permits[g] + Queued(g) = Capacity
    BY DEF BudgetKept
  <2> DEFINE q == channel[g]
             sizes == SizesOf(g)
             reserved == PermitsOf(q)
             n == Len(q)
  <2>0. permits[g] + Queued(g) = Capacity
    BY DEF ReadInv, PartInv
  <2>1. /\ q \in Seq(Item) /\ n \in Nat /\ permits[g] \in Nat /\ readAheadBytes \in Nat
        /\ Whole(g) \in Nat /\ Whole(g) <= n /\ IsFiniteSet(1 .. n)
    <3>1. /\ q \in Seq(Item) /\ n \in Nat /\ permits[g] \in Nat /\ readAheadBytes \in Nat
          /\ Whole(g) \in Nat /\ Whole(g) <= n
      BY TypeFacts
    <3> HIDE DEF n, q
    <3>2. IsFiniteSet(1 .. n)
      BY <3>1, FS_Interval
    <3> QED BY <3>1, <3>2
  <2>2. CASE consumer = "dropped"
    <3>1. q = <<>>
      BY <2>2 DEF ReadInv, PartInv
    <3>2. DOMAIN sizes = {}
      BY <3>1 DEF SizesOf
    <3> QED BY <2>0, <2>1, <3>2, QueuedBytesIs, TotalEmpty
  <2>3. CASE consumer # "dropped"
    <3>1. /\ DOMAIN q = 1 .. n /\ DOMAIN sizes = 1 .. n
          /\ \A i \in 1 .. Whole(g) : /\ q[i] # Error /\ sizes[i] \in Nat
                                      /\ q[i].permits = Reserved(sizes[i])
          /\ \A i \in 1 .. n : i \notin 1 .. Whole(g) => q[i] = Error /\ sizes[i] = 0
      BY <2>3, QueueItems
    <3>2. /\ DOMAIN reserved = 1 .. n
          /\ \A i \in 1 .. n : reserved[i] = q[i].permits /\ reserved[i] \in Nat
      BY <2>1, PermitsType
    <3>3. Total(reserved, 1 .. n) = Queued(g) /\ QueuedBytes(g) = Total(sizes, 1 .. n)
      BY <3>1, <3>2, QueuedIs, SumIsTotal, QueuedBytesIs
    <3> HIDE DEF q, sizes, reserved, n
    <3>4. CASE Whole(g) = 0
      <4>1. \A i \in 1 .. n : sizes[i] = 0
        BY <3>1, <3>4
      <4> QED BY <2>0, <2>1, <3>3, <4>1, TotalOfZeros
    <3>5. CASE Whole(g) = 1
      <4>1. {i \in DOMAIN q : q[i] # Error} = {1}
        BY <2>1, <3>1, <3>5
      <4> QED BY <2>0, <4>1, FS_Singleton DEF q
    <3>6. CASE Whole(g) > 1
      <4>1. readAheadBytes > 0 /\ Capacity \in Nat /\ Capacity <= readAheadBytes
        <5>1. readAheadBytes # 0
          BY <3>6 DEF ReadInv, PartInv
        <5> QED BY <2>1, <5>1, ReservedBounds
      <4>2. ASSUME NEW i \in 1 .. n
            PROVE  sizes[i] \in Nat /\ sizes[i] <= reserved[i]
        <5>1. CASE i \in 1 .. Whole(g)
          <6>1. PICK j \in 1 .. Whole(g) : j # i
            <7>1. 1 \in 1 .. Whole(g) /\ 2 \in 1 .. Whole(g)
              BY <2>1, <3>6
            <7> QED BY <7>1
          <6>0. \A k \in 1 .. n : reserved[k] \in Int
            BY <3>2
          <6>2. j \in (1 .. n) \ {i} /\ IsFiniteSet((1 .. n) \ {i})
            <7>1. j \in 1 .. n
              BY <2>1
            <7>2. IsFiniteSet((1 .. n) \ {i})
              BY <2>1, FS_RemoveElement
            <7> QED BY <6>1, <7>1, <7>2
          <6>3. Total(reserved, 1 .. n) = reserved[i] + Total(reserved, (1 .. n) \ {i})
            BY <2>1, <6>0, TotalRemove
          <6>4. reserved[j] <= Total(reserved, (1 .. n) \ {i})
                /\ Total(reserved, (1 .. n) \ {i}) \in Nat
            BY <3>2, <6>2, TotalBounds
          <6>5. reserved[j] >= 1
            <7>1. sizes[j] \in Nat /\ reserved[j] = Reserved(sizes[j])
              BY <3>1, <3>2, <6>2
            <7>2. 1 <= Reserved(sizes[j]) /\ Reserved(sizes[j]) \in Nat
              BY <2>1, <7>1, ReservedBounds
            <7> QED BY <7>1, <7>2
          <6>6. reserved[i] < Capacity
            <7> DEFINE others == Total(reserved, (1 .. n) \ {i})
            <7>1. others \in Nat /\ others >= 1
              <8>1. reserved[j] \in Nat /\ reserved[j] <= others /\ others \in Nat
                BY <3>2, <6>2, <6>4
              <8> HIDE DEF others
              <8> QED BY <6>5, <8>1
            <7>2. reserved[i] + others = Queued(g) /\ reserved[i] \in Nat
              BY <3>2, <3>3, <6>3
            <7>3. permits[g] \in Nat /\ Capacity \in Nat
              BY <2>1, <4>1
            <7> HIDE DEF others
            <7>4. Queued(g) \in Nat
              BY <7>1, <7>2
            <7> QED BY <2>0, <7>1, <7>2, <7>3, <7>4
          <6>7. sizes[i] \in Nat /\ reserved[i] = Reserved(sizes[i])
            BY <3>1, <3>2, <5>1
          <6>8. Reserved(sizes[i]) < Capacity => sizes[i] <= Reserved(sizes[i])
            BY <2>1, <6>7, ReservedBounds
          <6> QED BY <6>6, <6>7, <6>8
        <5>2. CASE i \notin 1 .. Whole(g)
          BY <3>1, <3>2, <5>2
        <5> QED BY <5>1, <5>2
      <4>3. \A i \in 1 .. n : sizes[i] \in Int /\ reserved[i] \in Int /\ sizes[i] <= reserved[i]
        BY <3>2, <4>2
      <4>4. Total(sizes, 1 .. n) <= Total(reserved, 1 .. n) /\ Total(sizes, 1 .. n) \in Int
            /\ Total(reserved, 1 .. n) \in Int
        BY <2>1, <4>3, TotalMonotone, TotalRemove
      <4> QED BY <2>0, <2>1, <3>3, <4>1, <4>4
    <3> QED BY <2>1, <3>4, <3>5, <3>6
  <2> QED BY <2>2, <2>3
<1> QED BY <1>1, ReadAlways, PTL

\* The consumer never waits for a row group that waits for the consumer: with
\* nothing queued the whole budget of the row group is free, and a reservation
\* never exceeds the budget.
THEOREM NoStarvation == ReadSpec => []NeverStarved
<1>1. ReadInv => NeverStarved
  <2> SUFFICES ASSUME ReadInv, consumer # "dropped", NEW g \in InFlight, channel[g] = <<>>
               PROVE  \/ task[g] \in {"inline", "reading", "ended", "panicked"}
                      \/ /\ task[g] = "reserving"
                         /\ permits[g] >= Reserved(Sizes[g][decoded[g]])
    BY DEF NeverStarved, Budget
  <2>1. g \in Streams /\ g <= pulled
    BY InFlightPulled DEF ReadInv
  <2>2. PartInv(g) /\ StageInv(g) /\ task[g] \in TaskStates
    BY <2>1 DEF ReadInv, ReadBase, PartInv
  <2>3. task[g] \notin {"none", "aborted"}
    BY <2>1, <2>2 DEF StageInv
  <2>4. ASSUME task[g] = "reserving"
        PROVE  permits[g] >= Reserved(Sizes[g][decoded[g]])
    <3>1. Sizes[g][decoded[g]] \in Nat
      <4>1. decoded[g] \in 1 .. Len(Sizes[g])
        BY <2>2, <2>4 DEF PartInv
      <4>2. Sizes[g] \in Seq(Nat)
        BY <2>1, TypeFacts
      <4> QED BY <4>1, <4>2
    <3>2. /\ Reserved(Sizes[g][decoded[g]]) <= Capacity
          /\ Capacity \in Nat
      BY <3>1, TypeFacts, ReservedBounds
    <3>3. Queued(g) = 0
      BY QueuedIs, PermitsEmpty
    <3>4. permits[g] = Capacity
      BY <2>1, <2>2, <3>2, <3>3, TypeFacts DEF PartInv
    <3> QED BY <3>2, <3>4
  <2> QED BY <2>2, <2>3, <2>4 DEF TaskStates
<1> QED BY <1>1, ReadAlways, PTL
=============================================================================
